--------------------------- MODULE WglContextsProofs ---------------------------
(***************************************************************************)
(* Proofs about WglContexts, for any threads, windows, handles and bounds, *)
(* and about CallBatches, which WglContexts knows nothing of, for any      *)
(* callers, contexts, calls and sizes.                                     *)
(***************************************************************************)
EXTENDS WglContexts, CallBatches, WellFoundedInduction, TLAPS

-----------------------------------------------------------------------------
(* The first free slot is one: any set of numbers has a least.             *)
LEMMA LeastOf ==
  ASSUME NEW S \in SUBSET Nat, S # {}
  PROVE  (CHOOSE s \in S : \A r \in S : s <= r) \in S
<1>1. \E x \in S : \A y \in S : ~ (<<y, x>> \in OpToRel(<, Nat))
  BY NatLessThanWellFounded, WFMin, Zenon
<1>2. ASSUME NEW x \in S, NEW y \in S, ~ (<<y, x>> \in OpToRel(<, Nat))
      PROVE  x <= y
  <2>1. ~(y < x)
    BY <1>2 DEF OpToRel
  <2> QED BY <2>1
<1>3. \E s \in S : \A r \in S : s <= r
  BY <1>1, <1>2
<1> QED BY <1>3, Zenon

(* What a thread is in the middle of is told by its `op`. *)
LEMMA DoingKinds ==
  ASSUME ContextsTypeOK, NEW t \in Threads
  PROVE  /\ doing[t].op = "make" => doing[t] \in Making
         /\ doing[t].op = "swap" => doing[t] \in Swapping
         /\ doing[t] = Idle \/ doing[t].op \in {"make", "swap"}
         /\ Idle.op = "idle"
BY DEF ContextsTypeOK, Making, Swapping, Idle

(* What a surface is of is told by its `of`. *)
LEMMA SurfaceKinds ==
  ASSUME NEW d \in Surfaces
  PROVE  /\ d.of = "window" <=> \E h \in Windows : d = OfWindow(h)
         /\ d = NoSurface <=> d.of = "none"
BY DEF Surfaces, OfWindow, OfPbuffer, NoSurface

LEMMA WindowSurface ==
  ASSUME NEW h
  PROVE  OfWindow(h).of = "window" /\ OfWindow(h).h = h /\ OfWindow(h) # NoSurface
BY DEF OfWindow, NoSurface

LEMMA DcsAreSurfaces ==
  ASSUME WglAssumption, ContextsTypeOK
  PROVE  Dcs \subseteq Surfaces
BY DEF WglAssumption, ContextsTypeOK, Dcs, Surfaces, ContextIds

(* A window of which this is true has a surface its presenter may use.     *)
Found(t) ==
  doing[t].op = "swap" /\ doing[t].at # "place" =>
    \A h \in Windows : doing[t].dc = OfWindow(h) =>
      IF h \in alive THEN doing[t].at = "present" => window[h] = "surface"
      ELSE currentOf[t].draw = doing[t].dc

Shows(t) ==
  doing[t].op = "swap" /\ doing[t].at = "present" =>
    \E h \in Windows : doing[t].dc = OfWindow(h)

LEMMA FoundIsAll ==
  /\ SwapsFound <=> \A t \in Threads : Found(t)
  /\ PresentsWindow <=> \A t \in Threads : Shows(t)
BY DEF SwapsFound, PresentsWindow, Found, Shows

LEMMA Begins ==
  ASSUME WglAssumption, ContextsInit
  PROVE  ContextsIInv
<1>1. ContextsTypeOK
  BY DEF WglAssumption, ContextsInit, ContextsTypeOK, Current, Surfaces, NobodyCurrent, Unbound, NoContext
<1>2. Numbered /\ ForgetsGone /\ CurrentOnce /\ NobodyCurrentIsAll
  BY DEF ContextsInit, Numbered, ForgetsGone, CurrentOnce, NobodyCurrentIsAll, NobodyCurrent, NoContext
<1>3. SwapsFound /\ PresentsWindow
  BY DEF ContextsInit, SwapsFound, PresentsWindow, Idle
<1> QED BY <1>1, <1>2, <1>3 DEF ContextsIInv

-----------------------------------------------------------------------------
(* Windows and pbuffers. *)

LEMMA StepDestroyWindow ==
  ASSUME WglAssumption, ContextsIInv, NEW h \in Windows, DestroyWindow(h)
  PROVE  ContextsIInv'
<1>1. ContextsTypeOK'
  BY DEF ContextsIInv, ContextsTypeOK, DestroyWindow, unixVars
<1>2. Numbered' /\ CurrentOnce' /\ NobodyCurrentIsAll' /\ PresentsWindow'
  BY DEF ContextsIInv, DestroyWindow, unixVars, Numbered, CurrentOnce, NobodyCurrentIsAll, PresentsWindow
<1>3. ForgetsGone'
  BY DEF ContextsIInv, DestroyWindow, unixVars, ForgetsGone
<1>4. SwapsFound'
  BY DEF ContextsIInv, DestroyWindow, unixVars, SwapsFound, Unguarded
<1> QED BY <1>1, <1>2, <1>3, <1>4 DEF ContextsIInv

LEMMA StepSetPixelFormat ==
  ASSUME WglAssumption, ContextsIInv, NEW t \in Threads, NEW h \in Windows, SetPixelFormat(t, h)
  PROVE  ContextsIInv'
<1>1. ContextsTypeOK'
  BY DEF ContextsIInv, ContextsTypeOK, SetPixelFormat, peVars
<1>2. Numbered' /\ CurrentOnce' /\ NobodyCurrentIsAll' /\ ForgetsGone' /\ PresentsWindow'
  BY DEF ContextsIInv, SetPixelFormat, peVars, Numbered, CurrentOnce, NobodyCurrentIsAll, ForgetsGone,
         PresentsWindow
<1>3. SwapsFound'
  BY DEF ContextsIInv, ContextsTypeOK, SetPixelFormat, peVars, SwapsFound
<1> QED BY <1>1, <1>2, <1>3 DEF ContextsIInv

LEMMA StepPbuffer ==
  ASSUME WglAssumption, ContextsIInv, NEW t \in Threads, CreatePbuffer(t) \/ DestroyPbuffer(t)
  PROVE  ContextsIInv'
<1>1. ContextsTypeOK'
  BY DEF WglAssumption, ContextsIInv, ContextsTypeOK, CreatePbuffer, DestroyPbuffer, peVars
<1>2. Numbered' /\ CurrentOnce' /\ NobodyCurrentIsAll' /\ ForgetsGone' /\ PresentsWindow' /\ SwapsFound'
  BY DEF ContextsIInv, CreatePbuffer, DestroyPbuffer, peVars, Numbered, CurrentOnce, NobodyCurrentIsAll,
         ForgetsGone, PresentsWindow, SwapsFound
<1> QED BY <1>1, <1>2 DEF ContextsIInv

-----------------------------------------------------------------------------
(* Contexts. *)

LEMMA StepCreateContext ==
  ASSUME WglAssumption, ContextsIInv, NEW t \in Threads, NEW h \in Windows, CreateContext(t, h)
  PROVE  ContextsIInv'
<1> DEFINE free == {s \in Slots : contexts[s] = NoContext}
           s    == CHOOSE s \in free : \A r \in free : s <= r
<1>1. s \in Slots /\ contexts[s] = NoContext
  <2>1. free \in SUBSET Nat /\ free # {}
    BY DEF CreateContext, WglAssumption
  <2>2. s \in free
    BY <2>1, LeastOf
  <2> QED BY <2>2
<1>2. /\ contexts' = [contexts EXCEPT ![s] = made + 1] /\ made' = made + 1
      /\ UNCHANGED <<peVars, currentOf, owner, bound, window, pbuffer>>
      /\ made + pbuffer.made < MaxMade
  BY DEF CreateContext
<1> HIDE DEF free, s
<1>3. made + 1 \in ContextIds /\ made \in Nat /\ NoContext \notin ContextIds
  BY <1>2 DEF ContextsIInv, ContextsTypeOK, ContextIds, WglAssumption, NoContext
<1>4. ContextsTypeOK'
  BY <1>1, <1>2, <1>3 DEF ContextsIInv, ContextsTypeOK, peVars, WglAssumption
<1>5. Numbered'
  <2>1. \A r \in Slots : contexts'[r] = (IF r = s THEN made + 1 ELSE contexts[r])
    BY <1>2, <1>1 DEF ContextsIInv, ContextsTypeOK
  <2>2. \A r \in Slots : contexts[r] \in Nat /\ (contexts[r] # NoContext => contexts[r] <= made)
    BY DEF ContextsIInv, ContextsTypeOK, Numbered, ContextIds, NoContext
  <2> QED BY <2>1, <2>2, <1>2, <1>3 DEF ContextsIInv, Numbered, NoContext
<1>6. CurrentOnce'
  BY <1>1, <1>2 DEF ContextsIInv, ContextsTypeOK, CurrentOnce, Current, NobodyCurrentIsAll, peVars
<1>7. NobodyCurrentIsAll' /\ ForgetsGone' /\ PresentsWindow' /\ SwapsFound'
  BY <1>2 DEF ContextsIInv, peVars, NobodyCurrentIsAll, ForgetsGone, PresentsWindow, SwapsFound
<1> QED BY <1>4, <1>5, <1>6, <1>7 DEF ContextsIInv

(* The threads other than t that have a context have another than c, when  *)
(* c is nobody's but t's; t has it in its slot only.                       *)
LEMMA OthersHaveOthers ==
  ASSUME ContextsIInv, NEW t \in Threads, NEW c \in ContextIds, owner[c] \subseteq {t},
         NEW u \in Threads \ {t}
  PROVE  currentOf[u].context # c
BY DEF ContextsIInv, CurrentOnce, ContextIds, NoContext

LEMMA StepDeleteContext ==
  ASSUME WglAssumption, ContextsIInv, NEW t \in Threads, NEW s \in Slots, DeleteContext(t, s)
  PROVE  ContextsIInv'
<1> DEFINE c == contexts[s]
<1>1. /\ c \in ContextIds /\ owner[c] \subseteq {t} /\ doing[t] = Idle
      /\ contexts' = [contexts EXCEPT ![s] = NoContext]
      /\ bound' = [bound EXCEPT ![c] = Unbound]
      /\ UNCHANGED <<alive, tracked, swaps, doing, owner, made, window, pbuffer>>
  BY DEF DeleteContext, ContextsIInv, ContextsTypeOK
<1>2. /\ \A u \in Threads \ {t} : currentOf'[u] = currentOf[u] /\ state'[u] = state[u]
      /\ IF currentOf[t].slot = s THEN currentOf'[t] = NobodyCurrent /\ state'[t] = 0
         ELSE currentOf'[t] = currentOf[t] /\ state'[t] = state[t]
      /\ currentOf' \in [Threads -> Current] /\ state' \in [Threads -> Slots \cup {0}]
  <2>1. currentOf \in [Threads -> Current] /\ state \in [Threads -> Slots \cup {0}]
    BY DEF ContextsIInv, ContextsTypeOK
  <2>2. NobodyCurrent \in Current
    BY DEF NobodyCurrent, NoContext, Current, Surfaces
  <2>3. CASE currentOf[t].slot = s
    <3>1. currentOf' = [currentOf EXCEPT ![t] = NobodyCurrent] /\ state' = [state EXCEPT ![t] = 0]
      BY <2>3 DEF DeleteContext
    <3> QED BY <2>1, <2>2, <2>3, <3>1
  <2>4. CASE currentOf[t].slot # s
    <3>1. currentOf' = currentOf /\ state' = state
      BY <2>4 DEF DeleteContext
    <3> QED BY <2>1, <2>4, <3>1
  <2> QED BY <2>3, <2>4
<1>3. NobodyCurrent.context = NoContext /\ NobodyCurrent.slot = 0 /\ NoContext \notin ContextIds
  BY DEF NobodyCurrent, NoContext, ContextIds
<1>4. ContextsTypeOK'
  BY <1>1, <1>2 DEF ContextsIInv, ContextsTypeOK, Unbound, Surfaces
<1>5. Numbered'
  BY <1>1 DEF ContextsIInv, ContextsTypeOK, Numbered
<1>6. ASSUME NEW u \in Threads, currentOf'[u].context # NoContext
      PROVE  /\ currentOf'[u] = currentOf[u] /\ state'[u] = state[u]
             /\ currentOf[u].context \in ContextIds /\ currentOf[u].slot \in Slots
             /\ currentOf[u].slot # s /\ currentOf[u].context # c
  <2>1. currentOf'[u] = currentOf[u] /\ state'[u] = state[u]
    BY <1>2, <1>3, <1>6
  <2>2. currentOf[u].context \in ContextIds /\ currentOf[u].slot \in Slots
    BY <1>6, <2>1 DEF ContextsIInv, ContextsTypeOK, Current, NobodyCurrentIsAll
  <2>3. contexts[currentOf[u].slot] = currentOf[u].context
    BY <1>6, <2>1 DEF ContextsIInv, CurrentOnce
  <2>4. CASE u = t
    <3>1. currentOf[u].slot # s
      BY <1>2, <1>3, <1>6, <2>4
    <3>2. currentOf[u].context # c
      BY <1>1, <1>3, <2>2, <2>3, <3>1 DEF ContextsIInv, Numbered
    <3> QED BY <2>1, <2>2, <3>1, <3>2
  <2>5. CASE u # t
    <3>1. currentOf[u].context # c
      BY <1>1, <2>5, OthersHaveOthers
    <3> QED BY <2>1, <2>2, <2>3, <3>1
  <2> QED BY <2>4, <2>5
<1>7. CurrentOnce'
  <2>1. ASSUME NEW u \in Threads
        PROVE  state'[u] = currentOf'[u].slot
    BY <1>2, <1>3 DEF ContextsIInv, CurrentOnce
  <2>2. ASSUME NEW u \in Threads, currentOf'[u].context # NoContext
        PROVE  /\ contexts'[currentOf'[u].slot] = currentOf'[u].context
               /\ owner'[currentOf'[u].context] = {u}
               /\ bound'[currentOf'[u].context].draw = currentOf'[u].draw
    <3>1. /\ contexts'[currentOf[u].slot] = contexts[currentOf[u].slot]
          /\ bound'[currentOf[u].context] = bound[currentOf[u].context]
      BY <1>1, <1>6, <2>2 DEF ContextsIInv, ContextsTypeOK
    <3> QED BY <1>1, <1>6, <2>2, <3>1 DEF ContextsIInv, CurrentOnce
  <2>3. ASSUME NEW u \in Threads, currentOf'[u].context # NoContext, NEW v \in Threads \ {u}
        PROVE  currentOf'[v].context # currentOf'[u].context
    BY <1>6, <2>3 DEF ContextsIInv, CurrentOnce
  <2> QED BY <2>1, <2>2, <2>3 DEF CurrentOnce
<1>8. NobodyCurrentIsAll'
  BY <1>2, <1>3 DEF ContextsIInv, NobodyCurrentIsAll
<1>9. ForgetsGone' /\ PresentsWindow'
  BY <1>1 DEF ContextsIInv, ForgetsGone, PresentsWindow
<1>10. SwapsFound'
  <2>1. ASSUME NEW u \in Threads, doing[u].op = "swap"
        PROVE  currentOf'[u] = currentOf[u]
    BY <1>1, <1>2, <2>1 DEF Idle
  <2> QED BY <1>1, <2>1 DEF ContextsIInv, SwapsFound
<1> QED BY <1>4, <1>5, <1>7, <1>8, <1>9, <1>10 DEF ContextsIInv

LEMMA StepThreadEnds ==
  ASSUME WglAssumption, ContextsIInv, NEW t \in Threads, ThreadEnds(t)
  PROVE  ContextsIInv'
<1> DEFINE c == currentOf[t].context
<1>1. /\ c \in ContextIds /\ doing[t] = Idle
      /\ currentOf' = [currentOf EXCEPT ![t] = NobodyCurrent]
      /\ state' = [state EXCEPT ![t] = 0]
      /\ UNCHANGED <<alive, tracked, swaps, doing, contexts, bound, made, window, pbuffer>>
      /\ owner' \in [ContextIds -> SUBSET (Threads \cup {"ended"})]
      /\ \A d \in ContextIds : d # c => owner'[d] = owner[d]
  BY DEF ThreadEnds, ContextsIInv, ContextsTypeOK, Current
<1>2. NobodyCurrent \in Current /\ NobodyCurrent.context = NoContext /\ NobodyCurrent.slot = 0
  BY DEF NobodyCurrent, NoContext, Current, Surfaces
<1>3. ContextsTypeOK'
  BY <1>1, <1>2 DEF ContextsIInv, ContextsTypeOK
<1>4. Numbered' /\ ForgetsGone' /\ PresentsWindow'
  BY <1>1 DEF ContextsIInv, Numbered, ForgetsGone, PresentsWindow
<1>5. \A u \in Threads : IF u = t THEN currentOf'[u] = NobodyCurrent /\ state'[u] = 0
                         ELSE currentOf'[u] = currentOf[u] /\ state'[u] = state[u]
  BY <1>1 DEF ContextsIInv, ContextsTypeOK
<1>6. NobodyCurrentIsAll'
  BY <1>2, <1>5 DEF ContextsIInv, NobodyCurrentIsAll
<1>7. CurrentOnce'
  <2>1. \A u \in Threads \ {t} : currentOf[u].context # NoContext =>
          currentOf[u].context \in ContextIds /\ currentOf[u].context # c
    BY <1>1 DEF ContextsIInv, ContextsTypeOK, Current, CurrentOnce, NoContext, ContextIds
  <2>2. \A u \in Threads : currentOf'[u].context # NoContext => u # t /\ currentOf'[u] = currentOf[u]
    BY <1>2, <1>5
  <2>3. \A u \in Threads : currentOf'[u].context # NoContext =>
          owner'[currentOf'[u].context] = owner[currentOf[u].context]
    BY <1>1, <2>1, <2>2
  <2>4. \A u \in Threads : state'[u] = currentOf'[u].slot
    BY <1>2, <1>5 DEF ContextsIInv, CurrentOnce
  <2>5. ASSUME NEW u \in Threads, currentOf'[u].context # NoContext
        PROVE  /\ contexts'[currentOf'[u].slot] = currentOf'[u].context
               /\ owner'[currentOf'[u].context] = {u}
               /\ bound'[currentOf'[u].context].draw = currentOf'[u].draw
    <3>1. /\ contexts[currentOf[u].slot] = currentOf[u].context
          /\ owner[currentOf[u].context] = {u}
          /\ bound[currentOf[u].context].draw = currentOf[u].draw
      BY <2>2, <2>5 DEF ContextsIInv, CurrentOnce
    <3> QED BY <1>1, <2>2, <2>3, <2>5, <3>1
  <2>6. ASSUME NEW u \in Threads, currentOf'[u].context # NoContext, NEW v \in Threads \ {u}
        PROVE  currentOf'[v].context # currentOf'[u].context
    BY <1>2, <1>5, <2>2, <2>6 DEF ContextsIInv, CurrentOnce
  <2> QED BY <2>4, <2>5, <2>6 DEF CurrentOnce
<1>8. SwapsFound'
  <2>1. ASSUME NEW u \in Threads, doing[u].op = "swap"
        PROVE  currentOf'[u] = currentOf[u]
    BY <1>1, <1>5, <2>1 DEF Idle
  <2> QED BY <1>1, <2>1 DEF ContextsIInv, SwapsFound
<1> QED BY <1>3, <1>4, <1>6, <1>7, <1>8 DEF ContextsIInv

-----------------------------------------------------------------------------
(* wglMakeCurrent and wglSwapBuffers: steps that change only what thread t *)
(* is in the middle of, and which windows are tracked.                     *)
LEMMA DoingStep ==
  ASSUME ContextsIInv, NEW t \in Threads, NEW d \in {Idle} \cup Making \cup Swapping,
         doing' = [doing EXCEPT ![t] = d], tracked' \subseteq Windows,
         UNCHANGED <<alive, state, unixVars>>,
         d # Idle => d.forget \cap alive = {},
         d.op = "swap" /\ d.at # "place" =>
           \A h \in Windows : d.dc = OfWindow(h) =>
             IF h \in alive THEN d.at = "present" => window[h] = "surface"
             ELSE currentOf[t].draw = d.dc,
         d.op = "swap" /\ d.at = "present" => \E h \in Windows : d.dc = OfWindow(h)
  PROVE  ContextsIInv'
<1>1. \A u \in Threads : doing'[u] = IF u = t THEN d ELSE doing[u]
  BY DEF ContextsIInv, ContextsTypeOK
<1>2. ContextsTypeOK'
  BY DEF ContextsIInv, ContextsTypeOK, unixVars
<1>3. Numbered' /\ CurrentOnce' /\ NobodyCurrentIsAll'
  BY DEF ContextsIInv, Numbered, CurrentOnce, NobodyCurrentIsAll, unixVars
<1>4. ForgetsGone'
  BY <1>1 DEF ContextsIInv, ForgetsGone
<1>5. SwapsFound'
  <2>1. ASSUME NEW u \in Threads PROVE Found(u)'
    <3>1. CASE u = t
      BY <1>1, <3>1 DEF Found, unixVars
    <3>2. CASE u # t
      BY <1>1, <3>2, FoundIsAll DEF ContextsIInv, Found, unixVars
    <3> QED BY <3>1, <3>2
  <2> QED BY <2>1 DEF SwapsFound, Found
<1>6. PresentsWindow'
  BY <1>1 DEF ContextsIInv, PresentsWindow
<1> QED BY <1>2, <1>3, <1>4, <1>5, <1>6 DEF ContextsIInv

LEMMA StepBeginMakeCurrent ==
  ASSUME WglAssumption, ContextsIInv, NEW t \in Threads, NEW s \in Slots, NEW draw \in Dcs, NEW read \in Dcs,
         BeginMakeCurrent(t, s, draw, read)
  PROVE  ContextsIInv'
<1>1. PICK gone \in Some(tracked \ alive) :
        /\ tracked' = tracked \ gone
        /\ doing' = [doing EXCEPT ![t] =
             [op |-> "make", slot |-> s, dc |-> draw, read |-> read, forget |-> gone, at |-> "place"]]
  BY DEF BeginMakeCurrent
<1> DEFINE d == [op |-> "make", slot |-> s, dc |-> draw, read |-> read, forget |-> gone, at |-> "place"]
<1>2. gone \subseteq tracked \ alive /\ tracked \subseteq Windows
  BY DEF Some, ContextsIInv, ContextsTypeOK
<1>3. d \in Making /\ d.op # "swap" /\ d.forget \cap alive = {}
  BY <1>2, DcsAreSurfaces DEF Making, ContextsIInv
<1>4. tracked' \subseteq Windows /\ UNCHANGED <<alive, state, unixVars>>
  BY <1>1, <1>2 DEF BeginMakeCurrent
<1> HIDE DEF d
<1> QED BY <1>1, <1>3, <1>4, DoingStep DEF d

LEMMA StepBeginSwap ==
  ASSUME WglAssumption, ContextsIInv, NEW t \in Threads, NEW dc \in Dcs, BeginSwap(t, dc)
  PROVE  ContextsIInv'
<1>1. PICK gone \in IF swaps' = 0 THEN Some(tracked \ alive) ELSE {{}} :
        /\ tracked' = tracked \ gone
        /\ doing' = [doing EXCEPT ![t] =
             [op |-> "swap", dc |-> dc, forget |-> gone, at |-> "place"]]
  BY DEF BeginSwap
<1> DEFINE d == [op |-> "swap", dc |-> dc, forget |-> gone, at |-> "place"]
<1>2. gone \subseteq tracked \ alive /\ tracked \subseteq Windows
  BY DEF Some, ContextsIInv, ContextsTypeOK
<1>3. d \in Swapping /\ d.at = "place" /\ d.forget \cap alive = {}
  BY <1>2, DcsAreSurfaces DEF Swapping, ContextsIInv
<1>4. tracked' \subseteq Windows /\ UNCHANGED <<alive, state, unixVars>>
  BY <1>1, <1>2 DEF BeginSwap
<1> HIDE DEF d
<1> QED BY <1>1, <1>3, <1>4, DoingStep DEF d

(* The unix side forgets a window that is gone: one a thread presents all  *)
(* the same is the surface of that thread's current context.                 *)
LEMMA StepForgetWindow ==
  ASSUME WglAssumption, ContextsIInv, NEW t \in Threads, NEW h \in Windows, ForgetWindow(t, h)
  PROVE  ContextsIInv'
<1> DEFINE d == [doing[t] EXCEPT !.forget = @ \ {h}]
<1>1. /\ doing' = [doing EXCEPT ![t] = d] /\ window' = [window EXCEPT ![h] = "none"]
      /\ UNCHANGED <<alive, tracked, swaps, state, currentOf, contexts, owner, bound, made, pbuffer>>
      /\ h \in doing[t].forget /\ doing[t].op \in {"make", "swap"}
  BY DEF ForgetWindow
<1>2. doing[t] \in Making \cup Swapping
  BY <1>1, DoingKinds DEF ContextsIInv
<1>3. /\ d \in Making \cup Swapping /\ d.forget \subseteq doing[t].forget /\ d.op = doing[t].op
      /\ d.at = doing[t].at /\ (d.op = "swap" => d.dc = doing[t].dc)
  BY <1>1, <1>2 DEF Making, Swapping
<1>4. h \notin alive
  BY <1>1, DoingKinds DEF ContextsIInv, ForgetsGone, Idle
<1> HIDE DEF d
<1>5. \A u \in Threads : doing'[u] = IF u = t THEN d ELSE doing[u]
  BY <1>1 DEF ContextsIInv, ContextsTypeOK
<1>6. ContextsTypeOK'
  BY <1>1, <1>3 DEF ContextsIInv, ContextsTypeOK
<1>7. Numbered' /\ CurrentOnce' /\ NobodyCurrentIsAll'
  BY <1>1 DEF ContextsIInv, Numbered, CurrentOnce, NobodyCurrentIsAll
<1>8. ForgetsGone'
  BY <1>1, <1>3, <1>5, DoingKinds DEF ContextsIInv, ForgetsGone, Idle
<1>9. \A u \in Threads : doing'[u].op = "swap" => /\ doing[u].op = "swap" /\ doing'[u].at = doing[u].at
                                               /\ doing'[u].dc = doing[u].dc
  BY <1>3, <1>5
<1>10. \A g \in alive : window'[g] = window[g]
  BY <1>1, <1>4 DEF ContextsIInv, ContextsTypeOK
<1>11. SwapsFound' /\ PresentsWindow'
  BY <1>1, <1>9, <1>10 DEF ContextsIInv, SwapsFound, PresentsWindow
<1> QED BY <1>6, <1>7, <1>8, <1>11 DEF ContextsIInv

LEMMA StepPlaceWindow ==
  ASSUME WglAssumption, ContextsIInv, NEW t \in Threads, PlaceWindow(t)
  PROVE  ContextsIInv'
<1> DEFINE Known(dc) == IF dc.of = "window" /\ ~Windowed(dc) THEN NoSurface ELSE dc
<1>1. /\ doing[t].op \in {"make", "swap"} /\ doing[t].forget = {} /\ doing[t].at = "place"
      /\ UNCHANGED <<alive, state, unixVars>>
  BY DEF PlaceWindow
<1>2. tracked' \subseteq Windows
  BY DEF PlaceWindow, Windowed, ContextsIInv, ContextsTypeOK
<1>3. ASSUME NEW dc \in Surfaces
      PROVE  Known(dc) \in Surfaces /\ \A h \in Windows : Known(dc) = OfWindow(h) => h \in alive
  <2>1. CASE dc.of = "window" /\ ~Windowed(dc)
    BY <2>1, WindowSurface DEF Surfaces
  <2>2. CASE ~(dc.of = "window" /\ ~Windowed(dc))
    BY <2>2, WindowSurface DEF Windowed
  <2> QED BY <2>1, <2>2
<1>4. CASE doing[t].op = "make"
  <2> DEFINE d == [doing[t] EXCEPT !.at = "unix", !.dc = Known(doing[t].dc), !.read = Known(doing[t].read)]
  <2>1. doing[t] \in Making
    BY <1>4, DoingKinds DEF ContextsIInv
  <2>2. doing' = [doing EXCEPT ![t] = d]
    BY <1>4 DEF PlaceWindow
  <2>3. doing[t].dc \in Surfaces /\ doing[t].read \in Surfaces
    BY <2>1 DEF Making
  <2>4. Known(doing[t].dc) \in Surfaces /\ Known(doing[t].read) \in Surfaces
    BY <1>3, <2>3
  <2> HIDE DEF Known
  <2>5. d \in Making /\ d.op # "swap" /\ d.forget = {}
    BY <1>1, <2>1, <2>4 DEF Making
  <2> HIDE DEF d
  <2> QED BY <1>1, <1>2, <2>2, <2>5, DoingStep
<1>5. CASE doing[t].op = "swap"
  <2> DEFINE d == [doing[t] EXCEPT !.at = "unix", !.dc = Known(doing[t].dc)]
  <2>1. doing[t] \in Swapping
    BY <1>5, DoingKinds DEF ContextsIInv
  <2>2. doing' = [doing EXCEPT ![t] = d]
    BY <1>5 DEF PlaceWindow
  <2>3. doing[t].dc \in Surfaces
    BY <2>1 DEF Swapping
  <2>4. Known(doing[t].dc) \in Surfaces /\ \A h \in Windows : Known(doing[t].dc) = OfWindow(h) => h \in alive
    BY <1>3, <2>3
  <2> HIDE DEF Known
  <2>5. d \in Swapping /\ d.at = "unix" /\ d.forget = {} /\ d.dc = Known(doing[t].dc)
    BY <1>1, <2>1, <2>4 DEF Swapping
  <2> HIDE DEF d
  <2> QED BY <1>1, <1>2, <2>2, <2>4, <2>5, DoingStep
<1> QED BY <1>1, <1>4, <1>5

LEMMA StepFindSurface ==
  ASSUME WglAssumption, ContextsIInv, NEW t \in Threads, FindSurface(t)
  PROVE  ContextsIInv'
<1> DEFINE found == [doing[t] EXCEPT !.at = "present"]
           shown == doing[t].dc.of = "window" /\ window[doing[t].dc.h] = "surface"
           d     == IF shown THEN found ELSE Idle
<1>1. /\ doing[t].op = "swap" /\ doing[t].at = "unix" /\ doing' = [doing EXCEPT ![t] = d]
      /\ UNCHANGED <<alive, tracked, state, unixVars>>
  BY DEF FindSurface
<1>2. doing[t] \in Swapping /\ tracked \subseteq Windows
  BY <1>1, DoingKinds DEF ContextsIInv, ContextsTypeOK
<1>3. /\ found \in Swapping /\ found.forget = doing[t].forget /\ found.op = "swap"
      /\ found.at = "present" /\ found.dc = doing[t].dc /\ doing[t].dc \in Surfaces
  BY <1>1, <1>2 DEF Swapping
<1> HIDE DEF found
<1>4. doing[t].forget \cap alive = {}
  BY <1>1 DEF ContextsIInv, ForgetsGone, Idle
<1>5. CASE shown
  <2>1. \E h \in Windows : doing[t].dc = OfWindow(h)
    BY <1>3, <1>5, SurfaceKinds
  <2>2. \A h \in Windows : doing[t].dc = OfWindow(h) =>
          IF h \in alive THEN window[h] = "surface" ELSE currentOf[t].draw = doing[t].dc
    BY <1>1, <1>5, WindowSurface DEF ContextsIInv, SwapsFound
  <2>3. doing' = [doing EXCEPT ![t] = found]
    BY <1>1, <1>5
  <2>4. \A h \in Windows : found.dc = OfWindow(h) =>
          IF h \in alive THEN found.at = "present" => window[h] = "surface"
          ELSE currentOf[t].draw = found.dc
    BY <1>3, <2>2
  <2>5. /\ \E h \in Windows : found.dc = OfWindow(h)
        /\ found.forget \cap alive = {} /\ found \in {Idle} \cup Making \cup Swapping
        /\ tracked' \subseteq Windows
    BY <1>1, <1>2, <1>3, <1>4, <2>1
  <2> HIDE DEF d, shown
  <2> QED BY <1>1, <2>3, <2>4, <2>5, DoingStep
<1>6. CASE ~shown
  <2>1. doing' = [doing EXCEPT ![t] = Idle] /\ Idle.op # "swap"
    BY <1>1, <1>6 DEF Idle
  <2> QED BY <1>1, <1>2, <2>1, DoingStep
<1> QED BY <1>5, <1>6

LEMMA StepPresent ==
  ASSUME WglAssumption, ContextsIInv, NEW t \in Threads, Present(t)
  PROVE  ContextsIInv'
<1>1. doing' = [doing EXCEPT ![t] = Idle] /\ UNCHANGED <<alive, tracked, state, unixVars>>
  BY DEF Present
<1>2. Idle.op # "swap" /\ tracked \subseteq Windows
  BY DEF Idle, ContextsIInv, ContextsTypeOK
<1> QED BY <1>1, <1>2, DoingStep

-----------------------------------------------------------------------------
(* The current context changes: thread t's, to none or to c, which is no     *)
(* other thread's.                                                         *)
LEMMA StepReleaseCurrent ==
  ASSUME WglAssumption, ContextsIInv, NEW t \in Threads, ReleaseCurrent(t)
  PROVE  ContextsIInv'
<1> DEFINE c == currentOf[t].context
<1>1. /\ doing[t] = Idle
      /\ owner' = [d \in ContextIds |-> IF d = c THEN {} ELSE owner[d]]
      /\ currentOf' = [currentOf EXCEPT ![t] = NobodyCurrent]
      /\ state' = [state EXCEPT ![t] = 0]
      /\ UNCHANGED <<alive, tracked, swaps, doing, contexts, bound, made, window, pbuffer>>
  BY DEF ReleaseCurrent
<1>2. NobodyCurrent \in Current /\ NobodyCurrent.context = NoContext /\ NobodyCurrent.slot = 0
  BY DEF NobodyCurrent, NoContext, Current, Surfaces
<1>3. ContextsTypeOK'
  BY <1>1, <1>2 DEF ContextsIInv, ContextsTypeOK
<1>4. Numbered' /\ ForgetsGone' /\ PresentsWindow'
  BY <1>1 DEF ContextsIInv, Numbered, ForgetsGone, PresentsWindow
<1>5. \A u \in Threads : IF u = t THEN currentOf'[u] = NobodyCurrent /\ state'[u] = 0
                         ELSE currentOf'[u] = currentOf[u] /\ state'[u] = state[u]
  BY <1>1 DEF ContextsIInv, ContextsTypeOK
<1>6. NobodyCurrentIsAll'
  BY <1>2, <1>5 DEF ContextsIInv, NobodyCurrentIsAll
<1>7. CurrentOnce'
  <2>1. \A u \in Threads \ {t} : currentOf[u].context # NoContext =>
          currentOf[u].context \in ContextIds /\ currentOf[u].context # c
    BY DEF ContextsIInv, ContextsTypeOK, Current, CurrentOnce
  <2>2. \A u \in Threads : currentOf'[u].context # NoContext => u # t /\ currentOf'[u] = currentOf[u]
    BY <1>2, <1>5
  <2>3. \A u \in Threads : currentOf'[u].context # NoContext =>
          owner'[currentOf'[u].context] = owner[currentOf[u].context]
    BY <1>1, <2>1, <2>2
  <2>4. \A u \in Threads : state'[u] = currentOf'[u].slot
    BY <1>2, <1>5 DEF ContextsIInv, CurrentOnce
  <2>5. ASSUME NEW u \in Threads, currentOf'[u].context # NoContext
        PROVE  /\ contexts'[currentOf'[u].slot] = currentOf'[u].context
               /\ owner'[currentOf'[u].context] = {u}
               /\ bound'[currentOf'[u].context].draw = currentOf'[u].draw
    <3>1. /\ contexts[currentOf[u].slot] = currentOf[u].context
          /\ owner[currentOf[u].context] = {u}
          /\ bound[currentOf[u].context].draw = currentOf[u].draw
      BY <2>2, <2>5 DEF ContextsIInv, CurrentOnce
    <3> QED BY <1>1, <2>2, <2>3, <2>5, <3>1
  <2>6. ASSUME NEW u \in Threads, currentOf'[u].context # NoContext, NEW v \in Threads \ {u}
        PROVE  currentOf'[v].context # currentOf'[u].context
    BY <1>2, <1>5, <2>2, <2>6 DEF ContextsIInv, CurrentOnce
  <2> QED BY <2>4, <2>5, <2>6 DEF CurrentOnce
<1>8. SwapsFound'
  <2>1. ASSUME NEW u \in Threads, doing[u].op = "swap"
        PROVE  currentOf'[u] = currentOf[u]
    BY <1>1, <1>5, <2>1 DEF Idle
  <2> QED BY <1>1, <2>1 DEF ContextsIInv, SwapsFound
<1> QED BY <1>3, <1>4, <1>6, <1>7, <1>8 DEF ContextsIInv

(* A surface that is made changes no other window's, and removes none.     *)
LEMMA SurfacesMade ==
  ASSUME ContextsIInv, NEW t \in Threads, NEW dcs, MakeSurfaces(dcs), doing' = [doing EXCEPT ![t] = Idle],
         UNCHANGED <<alive, tracked>>,
         \A u \in Threads \ {t} : currentOf'[u] = currentOf[u]
  PROVE  /\ window' \in [Windows -> {"none", "format", "surface"}]
         /\ doing' \in [Threads -> {Idle} \cup Making \cup Swapping]
         /\ ForgetsGone' /\ SwapsFound' /\ PresentsWindow'
<1>1. /\ window' \in [Windows -> {"none", "format", "surface"}]
      /\ \A h \in Windows : window[h] = "surface" => window'[h] = "surface"
  BY DEF MakeSurfaces, ContextsIInv, ContextsTypeOK
<1>2. /\ doing' \in [Threads -> {Idle} \cup Making \cup Swapping]
      /\ \A u \in Threads : doing'[u] = IF u = t THEN Idle ELSE doing[u]
  BY DEF ContextsIInv, ContextsTypeOK
<1>3. Idle.op # "swap"
  BY DEF Idle
<1>4. ForgetsGone' /\ PresentsWindow'
  BY <1>2, <1>3 DEF ContextsIInv, ForgetsGone, PresentsWindow
<1>5. SwapsFound'
  <2>1. ASSUME NEW u \in Threads PROVE Found(u)'
    <3>1. CASE u = t
      BY <1>2, <1>3, <3>1 DEF Found
    <3>2. CASE u # t
      BY <1>1, <1>2, <3>2, FoundIsAll DEF ContextsIInv, Found
    <3> QED BY <3>1, <3>2
  <2> QED BY <2>1 DEF SwapsFound, Found
<1> QED BY <1>1, <1>2, <1>4, <1>5

LEMMA StepMakeCurrent ==
  ASSUME WglAssumption, ContextsIInv, NEW t \in Threads, MakeCurrent(t)
  PROVE  ContextsIInv'
<1> DEFINE s      == doing[t].slot
           c      == contexts[s]
           draw   == doing[t].dc
           read   == doing[t].read
           before == currentOf[t].context
<1>1. /\ doing[t].op = "make" /\ doing' = [doing EXCEPT ![t] = Idle]
      /\ UNCHANGED <<alive, tracked, swaps>>
  BY DEF MakeCurrent
<1>2. doing[t] \in Making
  BY <1>1, DoingKinds DEF ContextsIInv
<1>3. s \in Slots /\ draw \in Surfaces /\ read \in Surfaces /\ tracked \subseteq Windows
  BY <1>2 DEF Making, ContextsIInv, ContextsTypeOK
<1>4. CASE UNCHANGED <<state, unixVars>>
  <2>1. Idle.op # "swap"
    BY DEF Idle
  <2> QED BY <1>1, <1>3, <1>4, <2>1, DoingStep
<1>5. CASE MakeSurfaces({draw}) /\ UNCHANGED <<state, currentOf, contexts, owner, bound, made, pbuffer>>
  <2>1. /\ window' \in [Windows -> {"none", "format", "surface"}]
        /\ doing' \in [Threads -> {Idle} \cup Making \cup Swapping]
        /\ ForgetsGone' /\ SwapsFound' /\ PresentsWindow'
    BY <1>1, <1>5, SurfacesMade
  <2>2. ContextsTypeOK'
    BY <1>1, <1>5, <2>1 DEF ContextsIInv, ContextsTypeOK
  <2>3. Numbered' /\ CurrentOnce' /\ NobodyCurrentIsAll'
    BY <1>5 DEF ContextsIInv, Numbered, CurrentOnce, NobodyCurrentIsAll
  <2> QED BY <2>1, <2>2, <2>3 DEF ContextsIInv
<1>6. CASE /\ c # NoContext /\ owner[c] \subseteq {t} /\ MakeSurfaces({draw, read})
           /\ currentOf' = [currentOf EXCEPT ![t] = [slot |-> s, context |-> c, draw |-> draw, read |-> read]]
           /\ owner' = [d \in ContextIds |->
                          IF d = c THEN {t} ELSE IF d = before THEN {} ELSE owner[d]]
           /\ bound' = [bound EXCEPT ![c] = [draw |-> draw, read |-> read]]
           /\ state' = [state EXCEPT ![t] = s]
           /\ UNCHANGED <<contexts, made, pbuffer>>
  <2>1. c \in ContextIds /\ NoContext \notin ContextIds /\ s # 0
    <3>1. c \in ContextIds
      BY <1>3, <1>6 DEF ContextsIInv, ContextsTypeOK
    <3>2. NoContext \notin ContextIds
      BY DEF NoContext, ContextIds
    <3>3. s # 0
      BY <1>3 DEF WglAssumption
    <3> QED BY <3>1, <3>2, <3>3
  <2> DEFINE new == [slot |-> s, context |-> c, draw |-> draw, read |-> read]
  <2>2. new \in Current /\ new.slot = s /\ new.context = c /\ new.draw = draw
    BY <1>3, <2>1 DEF Current
  <2>3. \A u \in Threads : IF u = t THEN currentOf'[u] = new /\ state'[u] = s
                           ELSE currentOf'[u] = currentOf[u] /\ state'[u] = state[u]
    BY <1>6 DEF ContextsIInv, ContextsTypeOK
  <2>4. /\ currentOf' \in [Threads -> Current] /\ state' \in [Threads -> Slots \cup {0}]
        /\ owner' \in [ContextIds -> SUBSET (Threads \cup {"ended"})]
        /\ bound' \in [ContextIds -> [draw : Surfaces, read : Surfaces]]
    <3>1. currentOf' \in [Threads -> Current] /\ state' \in [Threads -> Slots \cup {0}]
      BY <1>3, <1>6, <2>2 DEF ContextsIInv, ContextsTypeOK
    <3>2. owner' \in [ContextIds -> SUBSET (Threads \cup {"ended"})]
      BY <1>6 DEF ContextsIInv, ContextsTypeOK
    <3>3. bound' \in [ContextIds -> [draw : Surfaces, read : Surfaces]]
      BY <1>3, <1>6 DEF ContextsIInv, ContextsTypeOK
    <3> QED BY <3>1, <3>2, <3>3
  <2> HIDE DEF new
  <2>5. /\ window' \in [Windows -> {"none", "format", "surface"}]
        /\ doing' \in [Threads -> {Idle} \cup Making \cup Swapping]
        /\ ForgetsGone' /\ SwapsFound' /\ PresentsWindow'
    BY <1>1, <1>6, <2>3, SurfacesMade
  <2>6. ContextsTypeOK'
    BY <1>1, <1>6, <2>4, <2>5 DEF ContextsIInv, ContextsTypeOK
  <2>7. Numbered'
    BY <1>6 DEF ContextsIInv, Numbered
  <2>8. NobodyCurrentIsAll'
    BY <2>1, <2>2, <2>3 DEF ContextsIInv, NobodyCurrentIsAll
  <2>9. ASSUME NEW u \in Threads \ {t}, currentOf[u].context # NoContext
        PROVE  /\ currentOf[u].context \in ContextIds
               /\ currentOf[u].context # c /\ currentOf[u].context # before
    <3>1. currentOf[u].context \in ContextIds
      BY <2>9 DEF ContextsIInv, ContextsTypeOK, Current
    <3>2. currentOf[u].context # c
      BY <1>6, <2>1, OthersHaveOthers
    <3>3. currentOf[u].context # before
      BY <2>9 DEF ContextsIInv, CurrentOnce
    <3> QED BY <3>1, <3>2, <3>3
  <2>10. CurrentOnce'
    <3>1. ASSUME NEW u \in Threads
          PROVE  state'[u] = currentOf'[u].slot
      BY <2>2, <2>3 DEF ContextsIInv, CurrentOnce
    <3>2. ASSUME NEW u \in Threads, currentOf'[u].context # NoContext
          PROVE  /\ contexts'[currentOf'[u].slot] = currentOf'[u].context
                 /\ owner'[currentOf'[u].context] = {u}
                 /\ bound'[currentOf'[u].context].draw = currentOf'[u].draw
                 /\ \A v \in Threads \ {u} : currentOf'[v].context # currentOf'[u].context
      <4>1. CASE u = t
        <5>1. currentOf'[u] = new
          BY <2>3, <4>1
        <5>2. contexts'[s] = c /\ owner'[c] = {t}
          BY <1>6, <2>1
        <5>3. bound'[c] = [draw |-> draw, read |-> read]
          BY <1>6, <2>1 DEF ContextsIInv, ContextsTypeOK
        <5>4. ASSUME NEW v \in Threads \ {u}
              PROVE  currentOf'[v].context # c
          BY <2>1, <2>3, <2>9, <4>1
        <5> QED BY <2>2, <4>1, <5>1, <5>2, <5>3, <5>4
      <4>2. CASE u # t
        <5>1. currentOf'[u] = currentOf[u]
          BY <2>3, <4>2
        <5>2. /\ currentOf[u].context \in ContextIds
              /\ currentOf[u].context # c /\ currentOf[u].context # before
          BY <2>9, <3>2, <4>2, <5>1
        <5>3. /\ owner'[currentOf[u].context] = owner[currentOf[u].context]
              /\ bound'[currentOf[u].context] = bound[currentOf[u].context]
          BY <1>6, <5>2 DEF ContextsIInv, ContextsTypeOK
        <5>4. ASSUME NEW v \in Threads \ {u}
              PROVE  currentOf'[v].context # currentOf[u].context
          BY <2>2, <2>3, <3>2, <5>1, <5>2 DEF ContextsIInv, CurrentOnce
        <5>5. /\ contexts[currentOf[u].slot] = currentOf[u].context
              /\ owner[currentOf[u].context] = {u}
              /\ bound[currentOf[u].context].draw = currentOf[u].draw
          BY <3>2, <5>1 DEF ContextsIInv, CurrentOnce
        <5>6. contexts' = contexts
          BY <1>6
        <5> QED BY <5>1, <5>3, <5>4, <5>5, <5>6
      <4> QED BY <4>1, <4>2
    <3> QED BY <3>1, <3>2 DEF CurrentOnce
  <2> QED BY <2>5, <2>6, <2>7, <2>8, <2>10 DEF ContextsIInv
<1> QED BY <1>4, <1>5, <1>6 DEF MakeCurrent

-----------------------------------------------------------------------------
LEMMA StepStutter ==
  ASSUME ContextsIInv, UNCHANGED contextsVars
  PROVE  ContextsIInv'
BY DEF ContextsIInv, contextsVars, peVars, unixVars, ContextsTypeOK, Numbered, ForgetsGone, CurrentOnce,
       NobodyCurrentIsAll, SwapsFound, PresentsWindow

LEMMA NextKeeps ==
  ASSUME WglAssumption, ContextsIInv, [ContextsNext]_contextsVars
  PROVE  ContextsIInv'
<1>1. ASSUME NEW h \in Windows, DestroyWindow(h) PROVE ContextsIInv'
  BY <1>1, StepDestroyWindow
<1>2. ASSUME NEW t \in Threads, NEW h \in Windows, SetPixelFormat(t, h) \/ CreateContext(t, h)
      PROVE  ContextsIInv'
  BY <1>2, StepSetPixelFormat, StepCreateContext
<1>3. ASSUME NEW t \in Threads, NEW s \in Slots, DeleteContext(t, s) PROVE ContextsIInv'
  BY <1>3, StepDeleteContext
<1>4. ASSUME NEW t \in Threads, NEW s \in Slots, NEW draw \in Dcs, NEW read \in Dcs,
             BeginMakeCurrent(t, s, draw, read)
      PROVE  ContextsIInv'
  BY <1>4, StepBeginMakeCurrent
<1>5. ASSUME NEW t \in Threads, NEW dc \in Dcs, BeginSwap(t, dc) PROVE ContextsIInv'
  BY <1>5, StepBeginSwap
<1>6. ASSUME NEW t \in Threads,
             CreatePbuffer(t) \/ DestroyPbuffer(t) \/ ReleaseCurrent(t) \/ ThreadEnds(t)
      PROVE  ContextsIInv'
  BY <1>6, StepPbuffer, StepReleaseCurrent, StepThreadEnds
<1>7. ASSUME NEW t \in Threads, Continue(t) PROVE ContextsIInv'
  BY <1>7, StepForgetWindow, StepPlaceWindow, StepMakeCurrent, StepFindSurface, StepPresent
     DEF Continue
<1> QED BY <1>1, <1>2, <1>3, <1>4, <1>5, <1>6, <1>7, StepStutter DEF ContextsNext

(* A window that is presented is alive, and has a surface of its own, or   *)
(* gone, and then the presenter's current context holds its surface.         *)
LEMMA PresentedLives ==
  ASSUME ContextsIInv
  PROVE  PresentsLive
<1> SUFFICES ASSUME NEW t \in Threads, doing[t].op = "swap", doing[t].at = "present"
             PROVE  doing[t].dc \in Live
  BY DEF PresentsLive
<1>1. PICK h \in Windows : doing[t].dc = OfWindow(h)
  BY DEF ContextsIInv, PresentsWindow
<1>2. CASE h \in alive
  <2>1. window[h] = "surface"
    BY <1>1, <1>2 DEF ContextsIInv, SwapsFound
  <2> QED BY <1>1, <2>1 DEF Live, Owned
<1>3. CASE h \notin alive
  <2>1. currentOf[t].draw = OfWindow(h)
    BY <1>1, <1>3 DEF ContextsIInv, SwapsFound
  <2>2. currentOf[t].context # NoContext
    BY <2>1, WindowSurface DEF ContextsIInv, NobodyCurrentIsAll, NobodyCurrent
  <2>3. currentOf[t].context \in ContextIds
    BY <2>2 DEF ContextsIInv, ContextsTypeOK, Current
  <2>4. bound[currentOf[t].context].draw = OfWindow(h)
    BY <2>1, <2>2 DEF ContextsIInv, CurrentOnce
  <2>5. OfWindow(h) \in Held
    BY <2>3, <2>4, WindowSurface DEF Held
  <2> QED BY <1>1, <2>5 DEF Live
<1> QED BY <1>2, <1>3

(* For any threads, windows and handles: a context is current in one         *)
(* thread at most, all who know which one a thread has current agree, and    *)
(* the surface a thread presents without wgl_lock exists until it is done  *)
(* (wglMakeCurrent, wglDeleteContext, wglSwapBuffers).                     *)
THEOREM ContextsStaySound ==
  ASSUME WglAssumption
  PROVE  ContextsSpec => []ContextsSound
<1>1. ContextsInit => ContextsIInv
  BY Begins
<1>2. ContextsIInv /\ [ContextsNext]_contextsVars => ContextsIInv'
  BY NextKeeps
<1>3. ContextsIInv => ContextsSound
  BY PresentedLives DEF ContextsIInv, ContextsSound
<1> QED BY <1>1, <1>2, <1>3, PTL DEF ContextsSpec

-----------------------------------------------------------------------------
(***************************************************************************)
(* CallBatches, for any threads, contexts, calls, sizes of batches and     *)
(* queues.                                                                 *)
(***************************************************************************)

(* The types of what a thread has, and of the calls in its hands.          *)
LEMMA CallsTyped ==
  ASSUME CallsTypeOK, NEW t \in Callers
  PROVE  /\ calling[t] \in Doing /\ context[t] \in CallContexts /\ issued[t] \in Nat
         /\ batch[t] \in Seq(CallRecord) /\ ran[t] \in Seq([n : Nat, issued : CallContexts, under : CallContexts])
         /\ Len(batch[t]) \in Nat /\ DOMAIN batch[t] = 1 .. Len(batch[t])
         /\ Len(ran[t]) \in Nat /\ DOMAIN ran[t] = 1 .. Len(ran[t])
         /\ queue[t] \in Seq(Nat) /\ raised[t] \in Seq(Nat) /\ got[t] \in Seq(Nat)
         /\ queued[t] \in Nat /\ delivered[t] \in Nat
         /\ calling[t].at # "program" =>
              /\ calling[t].todo \in Seq(CallRecord) /\ calling[t].call \in CallRecord
              /\ calling[t].at \in {"unix", "fetch", "after"}
              /\ calling[t].then \in {"program", "append", "join", "call"}
              /\ calling[t] # InProgram
         /\ calling[t].at = "program" => calling[t] = InProgram
<1>1. /\ calling[t] \in Doing /\ context[t] \in CallContexts /\ issued[t] \in Nat
      /\ batch[t] \in Seq(CallRecord) /\ ran[t] \in Seq([n : Nat, issued : CallContexts, under : CallContexts])
      /\ queue[t] \in Seq(Nat) /\ raised[t] \in Seq(Nat) /\ got[t] \in Seq(Nat)
      /\ queued[t] \in Nat /\ delivered[t] \in Nat
  BY DEF CallsTypeOK
<1>2. /\ Len(batch[t]) \in Nat /\ DOMAIN batch[t] = 1 .. Len(batch[t])
      /\ Len(ran[t]) \in Nat /\ DOMAIN ran[t] = 1 .. Len(ran[t])
  BY <1>1
<1>3. CASE calling[t] = InProgram
  BY <1>1, <1>2, <1>3 DEF InProgram
<1>4. CASE calling[t] # InProgram
  BY <1>1, <1>2, <1>4 DEF InProgram, Doing
<1> QED
  BY <1>3, <1>4

(* A step of one thread leaves what the others have as it is.              *)
LEMMA OthersWait ==
  ASSUME NEW u,
         calling'[u] = calling[u], batch'[u] = batch[u], context'[u] = context[u],
         issued'[u] = issued[u], ran'[u] = ran[u], queue'[u] = queue[u],
         queued'[u] = queued[u], delivered'[u] = delivered[u], raised'[u] = raised[u],
         got'[u] = got[u], InHand(u), MessagesWait(u)
  PROVE  InHand(u)' /\ MessagesWait(u)'
<1>1. (\A i \in DOMAIN ran[u] : ran[u][i].n = i /\ ran[u][i].issued = ran[u][i].under)'
  BY DEF InHand
<1>2. \A s : Follow(u, s) => Follow(u, s)'
  BY DEF Follow
<1>3. InHand(u)'
  BY <1>1, <1>2 DEF InHand
<1>4. MessagesWait(u)'
  BY DEF MessagesWait, Waiting
<1> QED
  BY <1>3, <1>4

LEMMA InitCalls ==
  ASSUME CallsInit
  PROVE  CallsIInv
<1>1. << >> \in Seq(CallRecord) /\ << >> \in Seq(Nat) /\ Len(<< >>) = 0 /\ DOMAIN << >> = {}
      /\ << >> \in Seq([n : Nat, issued : CallContexts, under : CallContexts])
  OBVIOUS
<1>2. context \in [Callers -> CallContexts]
  BY DEF CallsInit
<1>3. InProgram \in Doing /\ InProgram.at = "program"
  BY DEF Doing, InProgram
<1>4. CallsTypeOK
  BY <1>1, <1>2, <1>3 DEF CallsInit, CallsTypeOK
<1>5. ASSUME NEW t \in Callers
      PROVE  InHand(t) /\ MessagesWait(t)
  <2>1. /\ calling[t] = InProgram /\ batch[t] = << >> /\ queue[t] = << >> /\ raised[t] = << >>
        /\ ran[t] = << >> /\ got[t] = << >> /\ issued[t] = 0 /\ queued[t] = 0 /\ delivered[t] = 0
    BY DEF CallsInit
  <2>2. InHand(t)
    BY <1>1, <2>1 DEF InHand, Follow
  <2>3. MessagesWait(t)
    BY <1>1, <1>3, <2>1 DEF MessagesWait, Waiting
  <2> QED
    BY <2>2, <2>3
<1> QED
  BY <1>4, <1>5 DEF CallsIInv

(* The program makes a call.                                               *)
LEMMA IssueKeeps ==
  ASSUME CallsAssumption, CallsIInv, NEW t \in Callers, NEW kind \in Kinds,
         NEW raises \in BOOLEAN, NEW to \in CallContexts, Issue(t, kind, raises, to)
  PROVE  CallsIInv'
<1> DEFINE call == [n |-> issued[t] + 1, kind |-> kind, raises |-> raises,
                    under |-> context[t], to |-> to]
           b == batch[t]
<1>1. /\ CallsTypeOK /\ InHand(t) /\ MessagesWait(t)
      /\ \A u \in Callers : InHand(u) /\ MessagesWait(u)
  BY DEF CallsIInv
<1>2. /\ calling[t] = InProgram /\ issued' = [issued EXCEPT ![t] = @ + 1]
      /\ UNCHANGED <<queue, queued, delivered, raised, context, core, ran, got>>
  BY DEF Issue, messages
<1>3. /\ call \in CallRecord /\ call.n = issued[t] + 1 /\ call.under = context[t] /\ call.kind = kind
  BY CallsTyped, <1>1 DEF CallRecord, CallsAssumption
<1>4. /\ b \in Seq(CallRecord) /\ Len(b) \in Nat /\ DOMAIN b = 1 .. Len(b)
      /\ Len(ran[t]) \in Nat /\ issued[t] \in Nat /\ Len(ran[t]) + Len(b) = issued[t]
      /\ Follow(t, b) /\ \A i \in 1 .. Len(b) : b[i].kind # "make"
  BY <1>1, <1>2, CallsTyped DEF InHand
<1>5. \/ /\ kind \in Batched /\ calling' = calling
         /\ batch' = [batch EXCEPT ![t] = Append(b, call)]
      \/ /\ kind = "draw" /\ batch' = [batch EXCEPT ![t] = << >>]
         /\ calling' = [calling EXCEPT ![t] = [at |-> "unix", todo |-> Append(b, call),
                                               then |-> "program", call |-> call]]
      \/ \E then \in {"append", "join", "call"} :
           /\ then = "append" => kind \in Batched
           /\ batch' = [batch EXCEPT ![t] = << >>]
           /\ calling' = [calling EXCEPT ![t] = [at |-> "unix", todo |-> b,
                                                 then |-> then, call |-> call]]
  BY DEF Issue
<1>6. kind \in Batched => kind # "make"
  BY DEF Batched
<1>13. call.n = Len(ran[t]) + (Len(b) + 1) /\ Len(ran[t]) + (Len(b) + 1) = issued[t] + 1
  <2> DEFINE l == Len(ran[t])
             m == Len(b)
             n == issued[t]
  <2>1. l \in Nat /\ m \in Nat /\ n \in Nat /\ l + m = n
    BY <1>4
  <2> HIDE DEF l, m, n
  <2>2. l + (m + 1) = n + 1
    BY <2>1
  <2> QED
    BY <1>3, <2>2 DEF l, m, n
<1> HIDE DEF call
<1>7. /\ Append(b, call) \in Seq(CallRecord) /\ Len(Append(b, call)) = Len(b) + 1
      /\ DOMAIN Append(b, call) = 1 .. Len(b) + 1
      /\ \A i \in 1 .. Len(b) : Append(b, call)[i] = b[i]
      /\ Append(b, call)[Len(b) + 1] = call
  BY <1>3, <1>4
<1> HIDE DEF b
<1>8. issued'[t] = issued[t] + 1 /\ issued' \in [Callers -> Nat]
  BY <1>1, <1>2, <1>4 DEF CallsTypeOK
<1>9. \A i \in 1 .. Len(b) : b[i].n = Len(ran[t]) + i /\ b[i].under = context[t]
  BY <1>4 DEF Follow
<1>10. CASE kind \in Batched /\ calling' = calling /\ batch' = [batch EXCEPT ![t] = Append(b, call)]
  <2>1. batch'[t] = Append(b, call) /\ batch' \in [Callers -> Seq(CallRecord)]
    BY <1>1, <1>7, <1>10 DEF CallsTypeOK
  <2>2. CallsTypeOK'
    BY <1>1, <1>2, <1>8, <1>10, <2>1 DEF CallsTypeOK
  <2>3. /\ Follow(t, batch[t])' /\ \A i \in DOMAIN batch'[t] : batch'[t][i].kind # "make"
        /\ Len(ran'[t]) + Len(batch'[t]) = issued'[t]
    <3>1. /\ \A i \in 1 .. Len(b) + 1 : Append(b, call)[i].n = Len(ran[t]) + i
          /\ \A i \in 1 .. Len(b) + 1 : Append(b, call)[i].under = context[t]
          /\ \A i \in 1 .. Len(b) + 1 : Append(b, call)[i].kind # "make"
      <4> SUFFICES ASSUME NEW i \in 1 .. Len(b) + 1
                   PROVE  /\ Append(b, call)[i].n = Len(ran[t]) + i
                          /\ Append(b, call)[i].under = context[t]
                          /\ Append(b, call)[i].kind # "make"
        OBVIOUS
      <4>1. CASE i \in 1 .. Len(b)
        <5>1. Append(b, call)[i] = b[i]
          BY <1>7, <4>1
        <5>2. b[i].n = Len(ran[t]) + i /\ b[i].under = context[t] /\ b[i].kind # "make"
          BY <1>4, <1>9, <4>1 DEF b
        <5> QED
          BY <5>1, <5>2
      <4>2. CASE i = Len(b) + 1
        <5>1. Append(b, call)[i] = call
          BY <1>7, <4>2
        <5>2. call.n = Len(ran[t]) + i /\ call.under = context[t] /\ call.kind # "make"
          BY <1>3, <1>6, <1>10, <1>13, <4>2
        <5> QED
          BY <5>1, <5>2
      <4>3. Len(b) \in Nat
        BY <1>4 DEF b
      <4> QED
        BY <4>1, <4>2, <4>3
    <3> QED
      BY <3>1, <1>13, <1>2, <1>7, <1>8, <2>1 DEF Follow
  <2>4. InHand(t)'
    BY <1>1, <1>2, <1>10, <2>3 DEF InHand
  <2>5. MessagesWait(t)'
    BY <1>1, <1>2, <1>10 DEF MessagesWait, Waiting
  <2>6. \A u \in Callers \ {t} : InHand(u)' /\ MessagesWait(u)'
    BY <1>1, <1>2, <1>10, OthersWait DEF CallsTypeOK
  <2> QED
    BY <2>2, <2>4, <2>5, <2>6 DEF CallsIInv
<1>11. ASSUME NEW todo \in {b, Append(b, call)},
              NEW then \in {"program", "append", "join", "call"},
              then = "program" <=> todo = Append(b, call),
              then = "program" => kind = "draw",
              then = "append" => kind \in Batched,
              batch' = [batch EXCEPT ![t] = << >>],
              calling' = [calling EXCEPT ![t] = [at |-> "unix", todo |-> todo,
                                                 then |-> then, call |-> call]]
       PROVE  CallsIInv'
  <2>1. /\ todo \in Seq(CallRecord)
        /\ [at |-> "unix", todo |-> todo, then |-> then, call |-> call] \in Doing
    BY <1>3, <1>4, <1>7, <1>11 DEF Doing
  <2>2. /\ batch'[t] = << >> /\ batch' \in [Callers -> Seq(CallRecord)]
        /\ calling' \in [Callers -> Doing] /\ calling'[t].at = "unix" /\ calling'[t] # InProgram
        /\ calling'[t].todo = todo /\ calling'[t].then = then /\ calling'[t].call = call
    BY <1>1, <1>11, <2>1 DEF CallsTypeOK, InProgram
  <2>3. CallsTypeOK'
    BY <1>1, <1>2, <1>8, <2>2 DEF CallsTypeOK
  <2>4. /\ Follow(t, todo)'
        /\ then = "program" => Len(ran[t]) + Len(todo) = issued'[t]
        /\ then # "program" => /\ \A i \in DOMAIN todo : todo[i].kind # "make"
                               /\ Len(ran[t]) + Len(todo) + 1 = issued'[t]
    <3>1. CASE todo = b /\ then # "program"
      BY <3>1, <1>2, <1>4, <1>8, <1>9 DEF Follow
    <3>2. CASE todo = Append(b, call) /\ then = "program"
      <4>1. /\ \A i \in 1 .. Len(b) + 1 : Append(b, call)[i].n = Len(ran[t]) + i
            /\ \A i \in 1 .. Len(b) + 1 : Append(b, call)[i].under = context[t]
            /\ \A i \in 1 .. Len(b) + 1 : Append(b, call)[i].kind = "make" => i = Len(b) + 1
        <5> SUFFICES ASSUME NEW i \in 1 .. Len(b) + 1
                     PROVE  /\ Append(b, call)[i].n = Len(ran[t]) + i
                            /\ Append(b, call)[i].under = context[t]
                            /\ Append(b, call)[i].kind = "make" => i = Len(b) + 1
          OBVIOUS
        <5>1. CASE i \in 1 .. Len(b)
          <6>1. Append(b, call)[i] = b[i]
            BY <1>7, <5>1
          <6>2. b[i].n = Len(ran[t]) + i /\ b[i].under = context[t] /\ b[i].kind # "make"
            BY <1>4, <1>9, <5>1 DEF b
          <6> QED
            BY <6>1, <6>2
        <5>2. CASE i = Len(b) + 1
          <6>1. Append(b, call)[i] = call
            BY <1>7, <5>2
          <6>2. call.n = Len(ran[t]) + i /\ call.under = context[t]
            BY <1>3, <1>13, <5>2
          <6> QED
            BY <6>1, <6>2, <5>2
        <5>3. Len(b) \in Nat
          BY <1>4 DEF b
        <5> QED
          BY <5>1, <5>2, <5>3
      <4> QED
        BY <3>2, <4>1, <1>13, <1>2, <1>7, <1>8 DEF Follow
    <3> QED
      BY <1>11, <3>1, <3>2
  <2>5. InHand(t)'
    BY <1>1, <1>2, <1>3, <1>6, <1>8, <1>11, <2>2, <2>4 DEF InHand
  <2>6. MessagesWait(t)'
    <3>1. /\ raised[t] = << >> /\ queued[t] = 0 /\ delivered[t] = 0
          /\ \A i, j \in DOMAIN got[t] : i < j => got[t][i] < got[t][j]
          /\ \A i \in DOMAIN got[t] : got[t][i] <= Len(ran[t])
      BY <1>1, <1>2 DEF MessagesWait, InProgram
    <3> QED
      BY <1>2, <2>2, <3>1 DEF MessagesWait, Waiting, CallsAssumption
  <2>7. \A u \in Callers \ {t} : InHand(u)' /\ MessagesWait(u)'
    BY <1>1, <1>2, <1>11, OthersWait DEF CallsTypeOK
  <2> QED
    BY <2>3, <2>5, <2>6, <2>7 DEF CallsIInv
<1>12. Append(b, call) # b
  <2>1. Len(b) # Len(b) + 1
    BY <1>4 DEF b
  <2> QED
    BY <1>7, <2>1
<1> QED
  BY <1>5, <1>10, <1>11, <1>12

(* What the queue of a thread holds within a unix call: q messages, d of   *)
(* them fetched, of those raised; g is what the program got, r how many    *)
(* calls ran.                                                              *)
QueueRight(qs, q, d, rs, g, r) ==
  /\ q <= Len(rs) /\ q <= MaxQueued /\ (q < MaxQueued => q = Len(rs))
  /\ q > 0 => Len(qs) = q
  /\ \A i \in 1 .. q : qs[i] = rs[i]
  /\ \A i, j \in d + 1 .. q : i < j => qs[i] < qs[j]
  /\ \A i \in d + 1 .. q : qs[i] <= r /\ \A j \in DOMAIN g : g[j] < qs[i]

(* queue_message: the message of the next call goes behind the others, or  *)
(* is lost when the queue is full.                                         *)
LEMMA QueueTakes ==
  ASSUME NEW qs \in Seq(Nat), NEW rs \in Seq(Nat), NEW g \in Seq(Nat),
         NEW q \in Nat, NEW r \in Nat, MaxQueued \in Nat,
         QueueRight(qs, q, 0, rs, g, r), \A i \in DOMAIN g : g[i] <= r
  PROVE  LET old == IF q = 0 THEN << >> ELSE qs
         IN  /\ q < MaxQueued =>
                  QueueRight(Append(old, r + 1), q + 1, 0, Append(rs, r + 1), g, r + 1)
             /\ ~(q < MaxQueued) => QueueRight(old, q, 0, Append(rs, r + 1), g, r + 1)
<1> DEFINE old == IF q = 0 THEN << >> ELSE qs
           n == Append(old, r + 1)
           s == Append(rs, r + 1)
<1>1. /\ Len(rs) \in Nat /\ DOMAIN g = 1 .. Len(g) /\ Len(g) \in Nat
      /\ \A i \in 1 .. Len(g) : g[i] \in Nat
  OBVIOUS
<1>2. old \in Seq(Nat) /\ Len(old) = q /\ \A i \in 1 .. q : old[i] = qs[i]
  BY DEF QueueRight
<1> HIDE DEF old
<1>3. /\ Len(n) = q + 1 /\ n[q + 1] = r + 1 /\ \A i \in 1 .. q : n[i] = qs[i]
  BY <1>2
<1>4. /\ Len(s) = Len(rs) + 1 /\ s[Len(rs) + 1] = r + 1 /\ \A i \in 1 .. Len(rs) : s[i] = rs[i]
  OBVIOUS
<1> HIDE DEF n, s
<1>5. \A i \in 1 .. q : qs[i] = rs[i] /\ qs[i] \in Nat /\ qs[i] <= r
  <2>1. \A i \in 1 .. q : rs[i] \in Nat
    BY <1>1 DEF QueueRight
  <2>2. \A i \in 1 .. q : i \in 0 + 1 .. q
    OBVIOUS
  <2> QED
    BY <2>1, <2>2 DEF QueueRight
<1>6. /\ \A i, j \in 1 .. q : i < j => qs[i] < qs[j]
      /\ \A i \in 1 .. q : \A j \in DOMAIN g : g[j] < qs[i]
  <2>1. \A i \in 1 .. q : i \in 0 + 1 .. q
    OBVIOUS
  <2> QED
    BY <2>1 DEF QueueRight
<1>7. q <= Len(rs) /\ q <= MaxQueued /\ (q < MaxQueued => q = Len(rs))
  BY DEF QueueRight
<1>8. ASSUME q < MaxQueued
      PROVE  QueueRight(n, q + 1, 0, s, g, r + 1)
  <2>1. q = Len(rs) /\ q + 1 <= MaxQueued /\ q + 1 <= Len(s) /\ q + 1 = Len(s)
    BY <1>1, <1>4, <1>8 DEF QueueRight
  <2>2. \A i \in 1 .. q + 1 : n[i] = s[i]
    <3> SUFFICES ASSUME NEW i \in 1 .. q + 1
                 PROVE  n[i] = s[i]
      OBVIOUS
    <3>1. CASE i = q + 1
      BY <3>1, <1>3, <1>4, <2>1
    <3>2. CASE i \in 1 .. q
      BY <3>2, <1>1, <1>3, <1>4, <1>5, <2>1
    <3> QED
      BY <3>1, <3>2
  <2>3. \A i, j \in 0 + 1 .. q + 1 : i < j => n[i] < n[j]
    <3> SUFFICES ASSUME NEW i \in 1 .. q + 1, NEW j \in 1 .. q + 1, i < j
                 PROVE  n[i] < n[j]
      OBVIOUS
    <3>1. i \in 1 .. q /\ n[i] = qs[i]
      BY <1>3
    <3>2. CASE j = q + 1
      BY <3>1, <3>2, <1>3, <1>5
    <3>3. CASE j \in 1 .. q
      BY <3>1, <3>3, <1>3, <1>6
    <3> QED
      BY <3>2, <3>3
  <2>4. \A i \in 0 + 1 .. q + 1 : n[i] <= r + 1 /\ \A j \in DOMAIN g : g[j] < n[i]
    <3> SUFFICES ASSUME NEW i \in 1 .. q + 1
                 PROVE  n[i] <= r + 1 /\ \A j \in DOMAIN g : g[j] < n[i]
      OBVIOUS
    <3>1. CASE i = q + 1
      BY <3>1, <1>1, <1>3
    <3>2. CASE i \in 1 .. q
      <4>1. n[i] = qs[i] /\ qs[i] \in Nat /\ qs[i] <= r
        BY <3>2, <1>3, <1>5
      <4>2. \A j \in DOMAIN g : g[j] < qs[i]
        BY <3>2, <1>6
      <4> QED
        BY <4>1, <4>2
    <3> QED
      BY <3>1, <3>2
  <2> QED
    BY <1>3, <2>1, <2>2, <2>3, <2>4 DEF QueueRight
<1>9. ASSUME ~(q < MaxQueued)
      PROVE  QueueRight(old, q, 0, s, g, r + 1)
  <2>1. q <= Len(s) /\ q <= MaxQueued
    BY <1>1, <1>4 DEF QueueRight
  <2>2. \A i \in 1 .. q : old[i] = s[i]
    <3>1. \A i \in 1 .. q : i \in 1 .. Len(rs)
      BY <1>1, <1>7
    <3> QED
      BY <1>2, <1>4, <1>5, <3>1
  <2>3. \A i, j \in 0 + 1 .. q : i < j => old[i] < old[j]
    <3>1. \A i \in 0 + 1 .. q : i \in 1 .. q
      OBVIOUS
    <3> QED
      BY <1>2, <1>6, <3>1
  <2>4. \A i \in 0 + 1 .. q : old[i] <= r + 1 /\ \A j \in DOMAIN g : g[j] < old[i]
    <3> SUFFICES ASSUME NEW i \in 1 .. q
                 PROVE  old[i] <= r + 1 /\ \A j \in DOMAIN g : g[j] < old[i]
      OBVIOUS
    <3>1. old[i] = qs[i] /\ qs[i] \in Nat /\ qs[i] <= r
      BY <1>2, <1>5
    <3>2. \A j \in DOMAIN g : g[j] < qs[i]
      BY <1>6
    <3> QED
      BY <3>1, <3>2
  <2> QED
    BY <1>2, <1>9, <2>1, <2>2, <2>3, <2>4 DEF QueueRight
<1> QED
  BY <1>8, <1>9 DEF old, n, s

(* A call that raises no message leaves the queue as it is.                *)
LEMMA QueueStays ==
  ASSUME NEW qs \in Seq(Nat), NEW rs \in Seq(Nat), NEW g \in Seq(Nat),
         NEW q \in Nat, NEW r \in Nat, QueueRight(qs, q, 0, rs, g, r)
  PROVE  QueueRight(qs, q, 0, rs, g, r + 1)
<1>1. q > 0 => Len(qs) = q
  BY DEF QueueRight
<1>2. \A i \in 0 + 1 .. q : qs[i] \in Nat
  BY <1>1
<1>3. \A i \in 0 + 1 .. q : qs[i] <= r + 1 /\ \A j \in DOMAIN g : g[j] < qs[i]
  <2> SUFFICES ASSUME NEW i \in 0 + 1 .. q
               PROVE  qs[i] <= r + 1 /\ \A j \in DOMAIN g : g[j] < qs[i]
    OBVIOUS
  <2>1. qs[i] <= r /\ \A j \in DOMAIN g : g[j] < qs[i]
    BY DEF QueueRight
  <2>2. qs[i] \in Nat
    BY <1>2
  <2> QED
    BY <2>1, <2>2
<1> QED
  BY <1>3 DEF QueueRight

(* The program got g in the order it was raised, of the r calls that ran.  *)
Ascends(g, r) ==
  (\A i, j \in DOMAIN g : i < j => g[i] < g[j]) /\ (\A i \in DOMAIN g : g[i] <= r)

Gives(qs, q, d, rs, g, r, h) ==
  /\ h \in Seq(Nat) /\ QueueRight(qs, q, d + 1, rs, h, r) /\ Ascends(h, r)
  /\ \A i \in DOMAIN g : i \in DOMAIN h /\ h[i] = g[i]
  /\ \E i \in DOMAIN h : h[i] = rs[d + 1]

(* A message of the queue goes to the program.                             *)
LEMMA QueueGives ==
  ASSUME NEW qs \in Seq(Nat), NEW rs \in Seq(Nat), NEW g \in Seq(Nat),
         NEW q \in Nat, NEW d \in Nat, NEW r \in Nat, d < q,
         QueueRight(qs, q, d, rs, g, r), Ascends(g, r)
  PROVE  Gives(qs, q, d, rs, g, r, Append(g, qs[d + 1]))
<1> DEFINE v == qs[d + 1]
           h == Append(g, v)
<1>1. /\ DOMAIN g = 1 .. Len(g) /\ Len(g) \in Nat
      /\ \A i \in 1 .. Len(g) : g[i] \in Nat
  OBVIOUS
<1>2. d + 1 \in 1 .. q /\ d + 1 \in d + 1 .. q
  OBVIOUS
<1>3. v \in Nat /\ v = rs[d + 1] /\ v <= r /\ \A j \in DOMAIN g : g[j] < v
  <2>1. Len(qs) = q
    BY DEF QueueRight
  <2> QED
    BY <1>2, <2>1 DEF QueueRight
<1>4. \A i \in d + 1 + 1 .. q : i \in d + 1 .. q /\ v < qs[i]
  BY <1>2 DEF QueueRight
<1> HIDE DEF v
<1>5. /\ h \in Seq(Nat) /\ Len(h) = Len(g) + 1 /\ DOMAIN h = 1 .. Len(g) + 1
      /\ h[Len(g) + 1] = v /\ \A i \in 1 .. Len(g) : h[i] = g[i]
  BY <1>3
<1> HIDE DEF h
<1>6. \A i \in DOMAIN h : i \in DOMAIN g \/ i = Len(g) + 1
  BY <1>1, <1>5
<1>7. \A i \in d + 1 + 1 .. q : qs[i] <= r /\ \A j \in DOMAIN h : h[j] < qs[i]
  BY <1>1, <1>4, <1>5, <1>6 DEF QueueRight
<1>8. QueueRight(qs, q, d + 1, rs, h, r)
  BY <1>4, <1>7 DEF QueueRight
<1>9. \A i \in DOMAIN h : h[i] <= r
  BY <1>1, <1>3, <1>5, <1>6 DEF Ascends
<1>10. \A i, j \in DOMAIN h : i < j => h[i] < h[j]
  <2> SUFFICES ASSUME NEW i \in DOMAIN h, NEW j \in DOMAIN h, i < j
               PROVE  h[i] < h[j]
    OBVIOUS
  <2>1. i \in DOMAIN g /\ h[i] = g[i]
    <3>1. i \in 1 .. Len(g) + 1 /\ j \in 1 .. Len(g) + 1
      BY <1>5
    <3>2. \A l \in Nat : \A m, k \in 1 .. l + 1 : m < k => m \in 1 .. l
      OBVIOUS
    <3>3. i \in 1 .. Len(g)
      BY <1>1, <3>1, <3>2
    <3> QED
      BY <1>1, <1>5, <3>3
  <2>2. CASE j = Len(g) + 1
    BY <2>1, <2>2, <1>3, <1>5
  <2>3. CASE j \in DOMAIN g
    <3>1. h[j] = g[j]
      BY <2>3, <1>1, <1>5
    <3> QED
      BY <2>1, <2>3, <3>1 DEF Ascends
  <2> QED
    BY <1>6, <2>2, <2>3
<1>11. \A i \in DOMAIN g : i \in DOMAIN h /\ h[i] = g[i]
  BY <1>1, <1>5
<1>12. \E i \in DOMAIN h : h[i] = rs[d + 1]
  <2>1. Len(g) + 1 \in DOMAIN h
    BY <1>1, <1>5
  <2> QED
    BY <2>1, <1>3, <1>5
<1> QED
  BY <1>5, <1>8, <1>9, <1>10, <1>11, <1>12 DEF h, v, Gives, Ascends

(* MessagesWait by the parts it has at each place.                         *)
LEMMA WaitingParts ==
  ASSUME NEW t
  PROVE  MessagesWait(t) <=>
           /\ \A i, j \in DOMAIN got[t] : i < j => got[t][i] < got[t][j]
           /\ \A i \in DOMAIN got[t] : got[t][i] <= Len(ran[t])
           /\ calling[t].at = "program" => raised[t] = << >>
           /\ calling[t].at \in {"program", "after"} => queued[t] = 0 /\ delivered[t] = 0
           /\ calling[t].at = "unix" => delivered[t] = 0
           /\ calling[t].at = "fetch" => delivered[t] < queued[t]
           /\ calling[t].at \in {"unix", "fetch"} =>
                QueueRight(queue[t], queued[t], delivered[t], raised[t], got[t], Len(ran[t]))
           /\ calling[t].at \in {"fetch", "after"} =>
                \A i \in DOMAIN raised[t] :
                  \/ i > MaxQueued \/ i \in delivered[t] + 1 .. queued[t]
                  \/ \E j \in DOMAIN got[t] : got[t][j] = raised[t][i]
BY DEF MessagesWait, QueueRight, Waiting

(* The unix side runs a record of the batch.                               *)
LEMMA RunKeeps ==
  ASSUME CallsAssumption, CallsIInv, NEW t \in Callers, RunRecord(t)
  PROVE  CallsIInv'
<1> DEFINE c == calling[t]
           todo == c.todo
           call == Head(todo)
           r == Len(ran[t])
           entry == [n |-> call.n, issued |-> call.under, under |-> context[t]]
<1>1. /\ CallsTypeOK /\ InHand(t) /\ MessagesWait(t)
      /\ \A u \in Callers : InHand(u) /\ MessagesWait(u)
  BY DEF CallsIInv
<1>2. /\ c.at = "unix" /\ todo # << >> /\ Run(t, call)
      /\ calling' = [calling EXCEPT ![t].todo = Tail(@)]
      /\ UNCHANGED <<batch, issued, got>>
  BY DEF RunRecord
<1>3. /\ c \in Doing /\ c # InProgram /\ todo \in Seq(CallRecord) /\ c.call \in CallRecord
      /\ c.then \in {"program", "append", "join", "call"}
      /\ context[t] \in CallContexts /\ issued[t] \in Nat /\ r \in Nat
  BY <1>1, <1>2, CallsTyped
<1>4. /\ Len(todo) \in Nat /\ Len(todo) > 0 /\ DOMAIN todo = 1 .. Len(todo) /\ call = todo[1]
      /\ Tail(todo) \in Seq(CallRecord) /\ Len(Tail(todo)) = Len(todo) - 1
      /\ DOMAIN Tail(todo) = 1 .. Len(todo) - 1
      /\ \A i \in 1 .. Len(todo) - 1 : Tail(todo)[i] = todo[i + 1]
  BY <1>2, <1>3
<1> HIDE DEF todo, call
<1>5. call \in CallRecord /\ call.n \in Nat /\ call.under \in CallContexts /\ call.to \in CallContexts
  <2>1. call \in CallRecord
    BY <1>3, <1>4
  <2> QED
    BY <2>1 DEF CallRecord
<1>6. /\ batch[t] = << >> /\ Follow(t, todo)
      /\ c.then = "program" => r + Len(todo) = issued[t]
      /\ c.then # "program" =>
           /\ \A i \in DOMAIN todo : todo[i].kind # "make"
           /\ r + Len(todo) + 1 = issued[t]
           /\ c.call.n = issued[t] /\ c.call.under = context[t]
           /\ c.then = "append" => c.call.kind # "make"
  BY <1>1, <1>3 DEF InHand, todo
<1>7. /\ \A i \in 1 .. Len(todo) : todo[i].n = r + i /\ todo[i].under = context[t]
      /\ \A i \in 1 .. Len(todo) : todo[i].kind = "make" => i = Len(todo)
  BY <1>4, <1>6 DEF Follow
<1>8. call.n = r + 1 /\ call.under = context[t] /\ (call.kind = "make" => Len(todo) = 1)
  <2>1. 1 \in 1 .. Len(todo)
    BY <1>4
  <2>2. todo[1].n = r + 1 /\ todo[1].under = context[t]
    BY <1>7, <2>1
  <2>3. todo[1].kind = "make" => 1 = Len(todo)
    BY <1>7, <2>1
  <2> QED
    BY <1>4, <2>2, <2>3
<1>9. /\ ran' = [ran EXCEPT ![t] = Append(ran[t], entry)]
      /\ context' = IF call.kind = "make" THEN [context EXCEPT ![t] = call.to] ELSE context
      /\ QueueMessage(t, call.n) \/ UNCHANGED messages
  BY <1>2 DEF Run
<1> HIDE DEF entry
<1>10. /\ entry \in [n : Nat, issued : CallContexts, under : CallContexts]
       /\ entry.n = r + 1 /\ entry.issued = entry.under
  BY <1>3, <1>5, <1>8 DEF entry
<1>11. /\ ran'[t] = Append(ran[t], entry) /\ Len(ran'[t]) = r + 1
       /\ DOMAIN ran'[t] = 1 .. r + 1 /\ ran'[t][r + 1] = entry
       /\ \A i \in 1 .. r : ran'[t][i] = ran[t][i]
       /\ ran' \in [Callers -> Seq([n : Nat, issued : CallContexts, under : CallContexts])]
  <2>1. ran[t] \in Seq([n : Nat, issued : CallContexts, under : CallContexts])
    BY <1>1, CallsTyped
  <2>2. /\ Append(ran[t], entry) \in Seq([n : Nat, issued : CallContexts, under : CallContexts])
        /\ Len(Append(ran[t], entry)) = r + 1 /\ DOMAIN Append(ran[t], entry) = 1 .. r + 1
        /\ Append(ran[t], entry)[r + 1] = entry
        /\ \A i \in 1 .. r : Append(ran[t], entry)[i] = ran[t][i]
    BY <1>10, <2>1
  <2> QED
    BY <1>1, <1>9, <2>2 DEF CallsTypeOK
<1>12. \A i \in DOMAIN ran'[t] : ran'[t][i].n = i /\ ran'[t][i].issued = ran'[t][i].under
  <2>1. \A i \in 1 .. r : ran[t][i].n = i /\ ran[t][i].issued = ran[t][i].under
    BY <1>1, CallsTyped DEF InHand
  <2> QED
    BY <1>3, <1>10, <1>11, <2>1
<1>13. /\ calling'[t] = [c EXCEPT !.todo = Tail(todo)] /\ calling'[t] # InProgram
       /\ calling'[t] \in Doing /\ calling'[t].at = "unix" /\ calling'[t].todo = Tail(todo)
       /\ calling'[t].then = c.then /\ calling'[t].call = c.call
       /\ calling' \in [Callers -> Doing]
  <2>1. calling'[t] = [c EXCEPT !.todo = Tail(todo)]
    BY <1>1, <1>2 DEF CallsTypeOK, todo
  <2>2. c \in [at : {"unix", "fetch", "after"}, todo : Seq(CallRecord), call : CallRecord,
               then : {"program", "append", "join", "call"}]
    BY <1>3 DEF Doing
  <2>3. [c EXCEPT !.todo = Tail(todo)] \in
          [at : {"unix", "fetch", "after"}, todo : Seq(CallRecord), call : CallRecord,
           then : {"program", "append", "join", "call"}]
    BY <1>4, <2>2
  <2> HIDE DEF c
  <2>4. calling' \in [Callers -> Doing]
    BY <1>1, <1>2, <2>1, <2>3 DEF CallsTypeOK, Doing
  <2> QED
    BY <1>2, <2>1, <2>2, <2>3, <2>4 DEF Doing, InProgram
<1>14. /\ context' \in [Callers -> CallContexts]
       /\ call.kind # "make" => context'[t] = context[t]
       /\ \A u \in Callers \ {t} : context'[u] = context[u]
  BY <1>1, <1>5, <1>9 DEF CallsTypeOK
<1> HIDE DEF c, r
<1>15. ASSUME NEW i \in 1 .. Len(todo) - 1
       PROVE  /\ Tail(todo)[i].n = (r + 1) + i
              /\ Tail(todo)[i].under = context'[t]
              /\ Tail(todo)[i].kind = "make" => i = Len(todo) - 1
  <2>1. i + 1 \in 1 .. Len(todo) /\ Tail(todo)[i] = todo[i + 1]
    BY <1>4
  <2>2. call.kind # "make"
    BY <1>4, <1>8
  <2>3. /\ todo[i + 1].n = r + (i + 1) /\ todo[i + 1].under = context[t]
        /\ todo[i + 1].kind = "make" => i + 1 = Len(todo)
    BY <1>7, <2>1
  <2>4. r + (i + 1) = (r + 1) + i /\ (i + 1 = Len(todo) => i = Len(todo) - 1)
    <3>1. \A m, l \in Nat : \A j \in 1 .. l - 1 :
            m + (j + 1) = (m + 1) + j /\ (j + 1 = l => j = l - 1)
      OBVIOUS
    <3>2. r \in Nat
      BY <1>3
    <3>3. Len(todo) \in Nat
      BY <1>4
    <3> QED
      BY <3>1, <3>2, <3>3
  <2> QED
    BY <1>14, <2>1, <2>2, <2>3, <2>4
<1>16. InHand(t)'
  <2>1. batch'[t] = << >> /\ issued'[t] = issued[t]
    BY <1>2, <1>6
  <2>2. c.then = "program" => (r + 1) + Len(Tail(todo)) = issued[t]
    <3>1. ASSUME NEW m, m = issued[t], r + Len(todo) = m, r \in Nat
          PROVE  (r + 1) + Len(Tail(todo)) = m
      BY <3>1, <1>4
    <3> QED
      BY <1>3, <1>6, <3>1
  <2>3. ASSUME c.then # "program"
        PROVE  /\ \A i \in DOMAIN Tail(todo) : Tail(todo)[i].kind # "make"
               /\ (r + 1) + Len(Tail(todo)) + 1 = issued[t]
               /\ c.call.n = issued[t] /\ c.call.under = context'[t]
               /\ c.then = "append" => c.call.kind # "make"
    <3>1. \A i \in 1 .. Len(todo) - 1 : Tail(todo)[i].kind # "make"
      <4>1. \A i \in 1 .. Len(todo) - 1 : i + 1 \in DOMAIN todo
        BY <1>4
      <4> QED
        BY <1>4, <1>6, <2>3, <4>1
    <3>2. call.kind # "make"
      BY <1>4, <1>6, <2>3
    <3>3. ASSUME NEW m, m = issued[t], r + Len(todo) + 1 = m, r \in Nat
          PROVE  (r + 1) + Len(Tail(todo)) + 1 = m
      BY <3>3, <1>4
    <3>4. (r + 1) + Len(Tail(todo)) + 1 = issued[t]
      BY <1>3, <1>6, <2>3, <3>3
    <3> QED
      BY <1>4, <1>6, <1>14, <2>3, <3>1, <3>2, <3>4
  <2>4. Follow(t, calling[t].todo)'
    BY <1>4, <1>11, <1>13, <1>15 DEF Follow
  <2> QED
    BY <1>11, <1>12, <1>13, <2>1, <2>2, <2>3, <2>4 DEF InHand
<1>17. /\ QueueRight(queue[t], queued[t], 0, raised[t], got[t], r) /\ delivered[t] = 0
       /\ \A i, j \in DOMAIN got[t] : i < j => got[t][i] < got[t][j]
       /\ \A i \in DOMAIN got[t] : got[t][i] <= r
  BY <1>1, <1>2, WaitingParts DEF c, r
<1>18. /\ queue[t] \in Seq(Nat) /\ raised[t] \in Seq(Nat) /\ got[t] \in Seq(Nat)
       /\ queued[t] \in Nat /\ r \in Nat
  BY <1>1, <1>3, CallsTyped
<1>19. \A i \in DOMAIN got[t] : got[t][i] <= r + 1
  <2>1. \A i \in DOMAIN got[t] : got[t][i] \in Nat
    BY <1>18
  <2> QED
    BY <1>17, <1>18, <2>1
<1>20. /\ QueueRight(queue'[t], queued'[t], 0, raised'[t], got[t], r + 1) /\ delivered'[t] = 0
       /\ queue' \in [Callers -> Seq(Nat)] /\ raised' \in [Callers -> Seq(Nat)]
       /\ queued' \in [Callers -> Nat] /\ delivered' \in [Callers -> Nat]
       /\ \A u \in Callers \ {t} : /\ queue'[u] = queue[u] /\ raised'[u] = raised[u]
                                   /\ queued'[u] = queued[u] /\ delivered'[u] = delivered[u]
  <2>1. CASE UNCHANGED messages
    <3>1. QueueRight(queue[t], queued[t], 0, raised[t], got[t], r + 1)
      BY <1>17, <1>18, QueueStays
    <3> QED
      BY <1>1, <1>17, <2>1, <3>1 DEF messages, CallsTypeOK
  <2>2. CASE QueueMessage(t, call.n)
    <3> DEFINE old == IF queued[t] = 0 THEN << >> ELSE queue[t]
               room == queued[t] < MaxQueued
    <3>1. /\ queue' = [queue EXCEPT ![t] = IF room THEN Append(old, r + 1) ELSE old]
          /\ queued' = [queued EXCEPT ![t] = IF room THEN queued[t] + 1 ELSE queued[t]]
          /\ delivered' = [delivered EXCEPT ![t] = 0]
          /\ raised' = [raised EXCEPT ![t] = Append(raised[t], r + 1)]
      BY <1>1, <1>8, <1>17, <2>2 DEF QueueMessage, CallsTypeOK
    <3>2. /\ room => QueueRight(Append(old, r + 1), queued[t] + 1, 0, Append(raised[t], r + 1), got[t], r + 1)
          /\ ~room => QueueRight(old, queued[t], 0, Append(raised[t], r + 1), got[t], r + 1)
      BY <1>17, <1>18, QueueTakes DEF CallsAssumption
    <3>3. /\ old \in Seq(Nat) /\ Append(old, r + 1) \in Seq(Nat)
          /\ Append(raised[t], r + 1) \in Seq(Nat)
      BY <1>18
    <3> HIDE DEF old, room
    <3>4. /\ queue'[t] = (IF room THEN Append(old, r + 1) ELSE old)
          /\ queued'[t] = (IF room THEN queued[t] + 1 ELSE queued[t])
          /\ delivered'[t] = 0 /\ raised'[t] = Append(raised[t], r + 1)
      BY <1>1, <3>1 DEF CallsTypeOK
    <3>5. /\ queue' \in [Callers -> Seq(Nat)] /\ raised' \in [Callers -> Seq(Nat)]
          /\ queued' \in [Callers -> Nat] /\ delivered' \in [Callers -> Nat]
      <4>1. /\ (IF room THEN Append(old, r + 1) ELSE old) \in Seq(Nat)
            /\ (IF room THEN queued[t] + 1 ELSE queued[t]) \in Nat
        BY <1>18, <3>3
      <4>2. /\ queue \in [Callers -> Seq(Nat)] /\ raised \in [Callers -> Seq(Nat)]
            /\ queued \in [Callers -> Nat] /\ delivered \in [Callers -> Nat]
        BY <1>1 DEF CallsTypeOK
      <4>3. queue' \in [Callers -> Seq(Nat)]
        BY <3>1, <4>1, <4>2
      <4>4. raised' \in [Callers -> Seq(Nat)]
        BY <3>1, <3>3, <4>2
      <4> QED
        BY <3>1, <4>1, <4>2, <4>3, <4>4
    <3>6. \A u \in Callers \ {t} : /\ queue'[u] = queue[u] /\ raised'[u] = raised[u]
                                   /\ queued'[u] = queued[u] /\ delivered'[u] = delivered[u]
      BY <1>1, <3>1 DEF CallsTypeOK
    <3> QED
      BY <3>2, <3>4, <3>5, <3>6
  <2> QED
    BY <1>9, <2>1, <2>2
<1>21. MessagesWait(t)'
  <2>1. /\ \A i, j \in DOMAIN got'[t] : i < j => got'[t][i] < got'[t][j]
        /\ \A i \in DOMAIN got'[t] : got'[t][i] <= Len(ran'[t])
        /\ calling'[t].at = "unix" /\ delivered'[t] = 0
        /\ QueueRight(queue'[t], queued'[t], delivered'[t], raised'[t], got'[t], Len(ran'[t]))
    BY <1>2, <1>11, <1>13, <1>17, <1>19, <1>20
  <2> QED
    BY <2>1 DEF MessagesWait, QueueRight, Waiting
<1>22. CallsTypeOK'
  BY <1>1, <1>2, <1>11, <1>13, <1>14, <1>20 DEF CallsTypeOK
<1>23. \A u \in Callers \ {t} : InHand(u)' /\ MessagesWait(u)'
  <2>1. \A u \in Callers \ {t} : calling'[u] = calling[u] /\ ran'[u] = ran[u]
    BY <1>1, <1>2, <1>9 DEF CallsTypeOK
  <2> QED
    BY <1>1, <1>2, <1>14, <1>20, <2>1, OthersWait
<1> QED
  BY <1>16, <1>21, <1>22, <1>23 DEF CallsIInv

(* A thread in a unix call goes on to another place of it.                 *)
LEMMA PlaceMoves ==
  ASSUME CallsTypeOK, NEW t \in Callers, calling[t].at # "program",
         NEW p \in {"unix", "fetch", "after"}, calling' = [calling EXCEPT ![t].at = p]
  PROVE  /\ calling'[t] # InProgram /\ calling'[t].at = p
         /\ calling'[t].todo = calling[t].todo /\ calling'[t].then = calling[t].then
         /\ calling'[t].call = calling[t].call
         /\ calling' \in [Callers -> Doing]
         /\ \A u \in Callers \ {t} : calling'[u] = calling[u]
<1> DEFINE c == calling[t]
           Within == [at : {"unix", "fetch", "after"}, todo : Seq(CallRecord), call : CallRecord,
                      then : {"program", "append", "join", "call"}]
<1>1. c \in Within
  BY DEF CallsTypeOK, Doing, InProgram
<1>2. calling'[t] = [c EXCEPT !.at = p]
  BY DEF CallsTypeOK
<1> HIDE DEF c
<1>3. /\ [c EXCEPT !.at = p] \in Within
      /\ [c EXCEPT !.at = p].at = p /\ [c EXCEPT !.at = p].todo = c.todo
      /\ [c EXCEPT !.at = p].then = c.then /\ [c EXCEPT !.at = p].call = c.call
  BY <1>1
<1>4. p # "program"
  OBVIOUS
<1> HIDE DEF Within
<1>5. \A u \in Callers \ {t} : calling'[u] = calling[u]
  BY DEF CallsTypeOK
<1>6. calling' \in [Callers -> Doing]
  <2>1. [c EXCEPT !.at = p] \in Doing
    BY <1>3 DEF Doing, Within
  <2> QED
    BY <1>2, <2>1 DEF CallsTypeOK, c
<1> QED
  BY <1>2, <1>3, <1>4, <1>5, <1>6 DEF c, InProgram

(* What is in hand stays in hand when nothing runs.                        *)
LEMMA StaysInHand ==
  ASSUME NEW t, InHand(t), calling[t] # InProgram, calling[t].todo = << >>,
         UNCHANGED <<batch, context, issued, ran>>,
         calling'[t] # InProgram, calling'[t].todo = calling[t].todo,
         calling'[t].then = calling[t].then, calling'[t].call = calling[t].call
  PROVE  InHand(t)'
<1>1. Follow(t, calling[t].todo)'
  BY DEF InHand, Follow
<1>2. (\A i \in DOMAIN ran[t] : ran[t][i].n = i /\ ran[t][i].issued = ran[t][i].under)'
  BY DEF InHand
<1>3. /\ batch'[t] = << >> /\ calling'[t].todo = << >>
      /\ calling[t].then = "program" => Len(ran[t]) + Len(calling[t].todo) = issued[t]
      /\ calling[t].then # "program" =>
           /\ Len(ran[t]) + Len(calling[t].todo) + 1 = issued[t]
           /\ calling[t].call.n = issued[t] /\ calling[t].call.under = context[t]
           /\ calling[t].then = "append" => calling[t].call.kind # "make"
  BY DEF InHand
<1>4. ran'[t] = ran[t] /\ issued'[t] = issued[t] /\ context'[t] = context[t]
  OBVIOUS
<1>5. \A i \in DOMAIN calling'[t].todo : FALSE
  BY <1>3
<1>6. /\ calling'[t].then = "program" => Len(ran'[t]) + Len(calling'[t].todo) = issued'[t]
      /\ calling'[t].then # "program" =>
           /\ Len(ran'[t]) + Len(calling'[t].todo) + 1 = issued'[t]
           /\ calling'[t].call.n = issued'[t] /\ calling'[t].call.under = context'[t]
           /\ calling'[t].then = "append" => calling'[t].call.kind # "make"
  BY <1>3, <1>4
<1> QED
  BY <1>1, <1>2, <1>3, <1>5, <1>6 DEF InHand

(* A unix call returns, with or without messages to fetch.                 *)
LEMMA ReturnKeeps ==
  ASSUME CallsAssumption, CallsIInv, NEW t \in Callers, Return(t)
  PROVE  CallsIInv'
<1> DEFINE c == calling[t]
           place == IF queued[t] > delivered[t] THEN "fetch" ELSE "after"
<1>1. /\ CallsTypeOK /\ InHand(t) /\ MessagesWait(t)
      /\ \A u \in Callers : InHand(u) /\ MessagesWait(u)
  BY DEF CallsIInv
<1>2. /\ c.at = "unix" /\ c.todo = << >>
      /\ calling' = [calling EXCEPT ![t].at = place]
      /\ UNCHANGED <<flags, batch, messages, context, core, issued, ran, got>>
  BY DEF Return
<1>3. c # InProgram /\ c \in Doing
  BY <1>1, <1>2 DEF CallsTypeOK, InProgram
<1>4. /\ calling'[t] = [c EXCEPT !.at = place] /\ calling'[t] # InProgram
      /\ calling'[t].at = place /\ calling'[t].todo = c.todo
      /\ calling'[t].then = c.then /\ calling'[t].call = c.call
      /\ calling' \in [Callers -> Doing]
      /\ \A u \in Callers \ {t} : calling'[u] = calling[u]
  <2>1. place \in {"unix", "fetch", "after"} /\ c.at # "program"
    BY <1>2
  <2> QED
    BY <1>1, <1>2, <2>1, PlaceMoves
<1>5. CallsTypeOK'
  BY <1>1, <1>2, <1>4 DEF CallsTypeOK, messages
<1>6. InHand(t)'
  BY <1>1, <1>2, <1>3, <1>4, StaysInHand
<1>7. MessagesWait(t)'
  <2>1. /\ \A i, j \in DOMAIN got[t] : i < j => got[t][i] < got[t][j]
        /\ \A i \in DOMAIN got[t] : got[t][i] <= Len(ran[t])
        /\ delivered[t] = 0
        /\ QueueRight(queue[t], queued[t], delivered[t], raised[t], got[t], Len(ran[t]))
    BY <1>1, <1>2, WaitingParts
  <2>2. queued[t] \in Nat /\ raised[t] \in Seq(Nat)
    BY <1>1, CallsTyped
  <2>3. place = "after" => queued[t] = 0
    BY <2>1, <2>2
  <2>4. \A i \in DOMAIN raised[t] : i > MaxQueued \/ i \in 0 + 1 .. queued[t]
    <3> SUFFICES ASSUME NEW i \in DOMAIN raised[t], ~(i > MaxQueued)
                 PROVE  i \in 0 + 1 .. queued[t]
      OBVIOUS
    <3>1. i \in 1 .. Len(raised[t]) /\ Len(raised[t]) \in Nat
      BY <2>2
    <3>2. MaxQueued \in Nat /\ queued[t] <= MaxQueued
          /\ (queued[t] < MaxQueued => queued[t] = Len(raised[t]))
      BY <2>1 DEF QueueRight, CallsAssumption
    <3>3. \A q, l \in Nat : q <= MaxQueued /\ (q < MaxQueued => q = l) /\ i \in 1 .. l
            => i \in 0 + 1 .. q
      BY <3>2
    <3> QED
      BY <2>2, <3>1, <3>2, <3>3
  <2>5. /\ place = "fetch" => delivered[t] < queued[t]
        /\ place \in {"fetch", "after"}
    BY <2>1, <2>2
  <2> HIDE DEF place
  <2>6. UNCHANGED <<queue, queued, delivered, raised, got, ran>>
    BY <1>2 DEF messages
  <2> QED
    BY <1>4, <2>1, <2>3, <2>4, <2>5, <2>6 DEF MessagesWait, QueueRight, Waiting
<1>8. \A u \in Callers \ {t} : InHand(u)' /\ MessagesWait(u)'
  BY <1>1, <1>2, <1>4, OthersWait DEF messages
<1> QED
  BY <1>5, <1>6, <1>7, <1>8 DEF CallsIInv

(* A message comes to the program.                                         *)
LEMMA FetchKeeps ==
  ASSUME CallsAssumption, CallsIInv, NEW t \in Callers, Fetch(t)
  PROVE  CallsIInv'
<1> DEFINE d == delivered[t]
           q == queued[t]
           r == Len(ran[t])
           g == got[t]
           h == Append(g, queue[t][d + 1])
           more == d + 1 < q
           place == IF more THEN "fetch" ELSE "after"
<1>1. /\ CallsTypeOK /\ InHand(t) /\ MessagesWait(t)
      /\ \A u \in Callers : InHand(u) /\ MessagesWait(u)
  BY DEF CallsIInv
<1>2. /\ calling[t].at = "fetch" /\ calling' = [calling EXCEPT ![t].at = place]
      /\ got' = [got EXCEPT ![t] = h]
      /\ delivered' = [delivered EXCEPT ![t] = IF more THEN d + 1 ELSE 0]
      /\ queued' = [queued EXCEPT ![t] = IF more THEN q ELSE 0]
      /\ UNCHANGED <<flags, batch, queue, raised, context, core, issued, ran>>
  BY <1>1 DEF Fetch, CallsTypeOK
<1>3. /\ queue[t] \in Seq(Nat) /\ raised[t] \in Seq(Nat) /\ g \in Seq(Nat)
      /\ q \in Nat /\ d \in Nat /\ r \in Nat /\ calling[t] # InProgram
  BY <1>1, <1>2, CallsTyped
<1>4. /\ QueueRight(queue[t], q, d, raised[t], g, r) /\ d < q
      /\ \A i, j \in DOMAIN g : i < j => g[i] < g[j]
      /\ \A i \in DOMAIN g : g[i] <= r
      /\ \A i \in DOMAIN raised[t] :
           i > MaxQueued \/ i \in d + 1 .. q \/ \E j \in DOMAIN g : g[j] = raised[t][i]
  BY <1>1, <1>2, WaitingParts
<1> HIDE DEF d, q, r, g
<1>5. /\ h \in Seq(Nat) /\ QueueRight(queue[t], q, d + 1, raised[t], h, r)
      /\ \A i \in DOMAIN h : h[i] <= r
      /\ \A i, j \in DOMAIN h : i < j => h[i] < h[j]
      /\ \A i \in DOMAIN g : i \in DOMAIN h /\ h[i] = g[i]
      /\ \E i \in DOMAIN h : h[i] = raised[t][d + 1]
  <2>1. Ascends(g, r)
    BY <1>4 DEF Ascends
  <2>2. Gives(queue[t], q, d, raised[t], g, r, Append(g, queue[t][d + 1]))
    BY <1>3, <1>4, <2>1, QueueGives
  <2> QED
    BY <2>2 DEF Gives, Ascends
<1> HIDE DEF h
<1>6. \A i \in DOMAIN raised[t] :
        i > MaxQueued \/ i \in d + 1 + 1 .. q \/ \E j \in DOMAIN h : h[j] = raised[t][i]
  <2> SUFFICES ASSUME NEW i \in DOMAIN raised[t], ~(i > MaxQueued)
               PROVE  i \in d + 1 + 1 .. q \/ \E j \in DOMAIN h : h[j] = raised[t][i]
    OBVIOUS
  <2>1. CASE \E j \in DOMAIN g : g[j] = raised[t][i]
    BY <2>1, <1>5
  <2>2. CASE i \in d + 1 .. q
    <3>1. i = d + 1 \/ i \in d + 1 + 1 .. q
      BY <2>2, <1>3
    <3> QED
      BY <3>1, <1>5
  <2> QED
    BY <2>1, <2>2, <1>4
<1>7. /\ place \in {"unix", "fetch", "after"} /\ calling[t].at # "program"
      /\ calling[t].todo = << >>
  BY <1>1, <1>2, <1>3 DEF InHand
<1>8. place = (IF more THEN "fetch" ELSE "after")
  OBVIOUS
<1> HIDE DEF place
<1>9. /\ calling'[t] # InProgram /\ calling'[t].at = place
      /\ calling'[t].todo = calling[t].todo /\ calling'[t].then = calling[t].then
      /\ calling'[t].call = calling[t].call
      /\ calling' \in [Callers -> Doing]
      /\ \A u \in Callers \ {t} : calling'[u] = calling[u]
  BY <1>1, <1>2, <1>7, PlaceMoves
<1>10. InHand(t)'
  BY <1>1, <1>2, <1>3, <1>7, <1>9, StaysInHand
<1>11. /\ got'[t] = h /\ queue'[t] = queue[t] /\ raised'[t] = raised[t] /\ Len(ran'[t]) = r
       /\ delivered'[t] = (IF more THEN d + 1 ELSE 0) /\ queued'[t] = (IF more THEN q ELSE 0)
       /\ got' \in [Callers -> Seq(Nat)] /\ delivered' \in [Callers -> Nat]
       /\ queued' \in [Callers -> Nat]
       /\ \A u \in Callers \ {t} : /\ got'[u] = got[u] /\ delivered'[u] = delivered[u]
                                   /\ queued'[u] = queued[u]
  <2>1. (IF more THEN d + 1 ELSE 0) \in Nat /\ (IF more THEN q ELSE 0) \in Nat
    BY <1>3
  <2> HIDE DEF more
  <2> QED
    BY <1>1, <1>2, <1>5, <2>1 DEF CallsTypeOK, r
<1>12. CallsTypeOK'
  BY <1>1, <1>2, <1>9, <1>11 DEF CallsTypeOK
<1>13. MessagesWait(t)'
  <2>1. /\ \A i, j \in DOMAIN got'[t] : i < j => got'[t][i] < got'[t][j]
        /\ \A i \in DOMAIN got'[t] : got'[t][i] <= Len(ran'[t])
    BY <1>5, <1>11
  <2>2. CASE more
    <3>1. /\ delivered'[t] = d + 1 /\ queued'[t] = q /\ calling'[t].at = "fetch"
          /\ delivered'[t] < queued'[t]
      BY <2>2, <1>8, <1>9, <1>11
    <3>2. QueueRight(queue'[t], queued'[t], delivered'[t], raised'[t], got'[t], Len(ran'[t]))
      BY <1>5, <1>11, <3>1
    <3>3. \A i \in DOMAIN raised'[t] :
            \/ i > MaxQueued \/ i \in delivered'[t] + 1 .. queued'[t]
            \/ \E j \in DOMAIN got'[t] : got'[t][j] = raised'[t][i]
      BY <1>6, <1>11, <3>1
    <3> QED
      BY <2>1, <3>1, <3>2, <3>3 DEF MessagesWait, QueueRight, Waiting
  <2>3. CASE ~more
    <3>1. delivered'[t] = 0 /\ queued'[t] = 0 /\ calling'[t].at = "after"
      BY <2>3, <1>8, <1>9, <1>11
    <3>2. \A i \in d + 1 + 1 .. q : FALSE
      BY <2>3, <1>3
    <3>3. \A i \in DOMAIN raised'[t] :
            i > MaxQueued \/ \E j \in DOMAIN got'[t] : got'[t][j] = raised'[t][i]
      BY <1>6, <1>11, <3>2
    <3> QED
      BY <2>1, <3>1, <3>3 DEF MessagesWait, Waiting
  <2> QED
    BY <2>2, <2>3
<1>14. \A u \in Callers \ {t} : InHand(u)' /\ MessagesWait(u)'
  BY <1>1, <1>2, <1>9, <1>11, OthersWait
<1> QED
  BY <1>10, <1>12, <1>13, <1>14 DEF CallsIInv

(* What remains of the call the program made goes into the batch, or is a  *)
(* unix call of its own, or nothing remains.                               *)
LEMMA AfterKeeps ==
  ASSUME CallsAssumption, CallsIInv, NEW t \in Callers, After(t)
  PROVE  CallsIInv'
<1> DEFINE call == calling[t].call
           then == calling[t].then
           r == Len(ran[t])
           own == [at |-> "unix", todo |-> <<call>>, then |-> "program", call |-> call]
           next == IF then \in {"join", "call"} THEN own ELSE InProgram
           kept == IF then = "append" THEN <<call>> ELSE << >>
<1>1. /\ CallsTypeOK /\ InHand(t) /\ MessagesWait(t)
      /\ \A u \in Callers : InHand(u) /\ MessagesWait(u)
  BY DEF CallsIInv
<1>2. /\ calling[t].at = "after" /\ raised' = [raised EXCEPT ![t] = << >>]
      /\ calling' = [calling EXCEPT ![t] = next]
      /\ IF then = "append" THEN batch' = [batch EXCEPT ![t] = <<call>>] ELSE UNCHANGED batch
      /\ UNCHANGED <<queue, queued, delivered, context, core, issued, ran, got>>
  BY DEF After
<1>3. /\ calling[t] # InProgram /\ call \in CallRecord /\ r \in Nat /\ issued[t] \in Nat
      /\ then \in {"program", "append", "join", "call"}
  BY <1>1, <1>2, CallsTyped
<1>4. /\ \A i \in DOMAIN ran[t] : ran[t][i].n = i /\ ran[t][i].issued = ran[t][i].under
      /\ batch[t] = << >> /\ calling[t].todo = << >>
      /\ then = "program" => r + 0 = issued[t]
      /\ then # "program" => /\ r + 0 + 1 = issued[t] /\ call.n = issued[t]
                             /\ call.under = context[t]
      /\ then = "append" => call.kind # "make"
  BY <1>1, <1>2, <1>3 DEF InHand
<1>5. /\ queued[t] = 0 /\ delivered[t] = 0
      /\ \A i, j \in DOMAIN got[t] : i < j => got[t][i] < got[t][j]
      /\ \A i \in DOMAIN got[t] : got[t][i] <= r
  BY <1>1, <1>2 DEF MessagesWait
<1> HIDE DEF call, then
<1>6. /\ then = "program" => r = issued[t]
      /\ then # "program" => r + 1 = issued[t]
  <2>1. \A m, l \in Nat : (m + 0 = l <=> m = l) /\ (m + 0 + 1 = l <=> m + 1 = l)
    OBVIOUS
  <2> HIDE DEF r
  <2> QED
    BY <1>3, <1>4, <2>1
<1>7. /\ <<call>> \in Seq(CallRecord) /\ Len(<<call>>) = 1 /\ <<call>>[1] = call
      /\ DOMAIN <<call>> = {1} /\ Len(<< >>) = 0 /\ DOMAIN << >> = {}
      /\ << >> \in Seq(CallRecord) /\ << >> \in Seq(Nat)
  BY <1>3
<1>8. /\ own \in Doing /\ InProgram \in Doing /\ own # InProgram
      /\ own.at = "unix" /\ own.todo = <<call>> /\ own.then = "program"
      /\ InProgram.at = "program"
  <2>1. own # InProgram
    <3>1. own.at # InProgram.at
      BY DEF InProgram
    <3> QED
      BY <3>1
  <2> QED
    BY <1>3, <1>7, <2>1 DEF Doing, InProgram
<1> HIDE DEF own
<1>9. next = own \/ next = InProgram
  OBVIOUS
<1>10. /\ calling'[t] = next /\ calling' \in [Callers -> Doing]
       /\ batch'[t] = kept /\ batch' \in [Callers -> Seq(CallRecord)]
       /\ raised'[t] = << >> /\ raised' \in [Callers -> Seq(Nat)]
       /\ \A u \in Callers \ {t} : /\ calling'[u] = calling[u] /\ batch'[u] = batch[u]
                                   /\ raised'[u] = raised[u]
  BY <1>1, <1>2, <1>4, <1>7, <1>8, <1>9 DEF CallsTypeOK
<1>11. CallsTypeOK'
  BY <1>1, <1>2, <1>10 DEF CallsTypeOK
<1>12. InHand(t)'
  <2>1. \A i \in DOMAIN ran'[t] : ran'[t][i].n = i /\ ran'[t][i].issued = ran'[t][i].under
    BY <1>2, <1>4
  <2>2. /\ Len(ran'[t]) = r /\ issued'[t] = issued[t] /\ context'[t] = context[t]
    BY <1>2
  <2>3. then # "program" =>
          \A i \in DOMAIN <<call>> : /\ <<call>>[i].n = r + i /\ <<call>>[i].under = context[t]
                                     /\ (<<call>>[i].kind = "make" => i = Len(<<call>>))
    BY <1>4, <1>6, <1>7
  <2> HIDE DEF r
  <2>4. CASE then \in {"join", "call"}
    <3>1. calling'[t] = own /\ batch'[t] = << >> /\ then # "program"
      BY <2>4, <1>10
    <3>2. Follow(t, calling[t].todo)'
      BY <3>1, <1>8, <2>2, <2>3 DEF Follow
    <3>3. /\ calling'[t] # InProgram /\ calling'[t].then = "program" /\ calling'[t].at = "unix"
          /\ Len(ran'[t]) + Len(calling'[t].todo) = issued'[t]
      BY <3>1, <1>6, <1>7, <1>8, <2>2
    <3> QED
      BY <2>1, <3>1, <3>2, <3>3 DEF InHand
  <2>5. CASE then = "append"
    <3>1. calling'[t] = InProgram /\ batch'[t] = <<call>>
      BY <2>5, <1>10
    <3>2. Follow(t, batch[t])'
      BY <2>5, <3>1, <2>2, <2>3 DEF Follow
    <3>3. Len(ran'[t]) + Len(batch'[t]) = issued'[t]
      BY <2>5, <3>1, <1>6, <1>7, <2>2
    <3>4. \A i \in DOMAIN batch'[t] : batch'[t][i].kind # "make"
      BY <2>5, <3>1, <1>4, <1>7
    <3> QED
      BY <2>1, <3>1, <3>2, <3>3, <3>4 DEF InHand
  <2>6. CASE then = "program"
    <3>1. calling'[t] = InProgram /\ batch'[t] = << >>
      BY <2>6, <1>10
    <3>2. Len(ran'[t]) + Len(batch'[t]) = issued'[t]
      BY <2>6, <3>1, <1>3, <1>6, <1>7, <2>2
    <3>3. Follow(t, batch[t])' /\ \A i \in DOMAIN batch'[t] : batch'[t][i].kind # "make"
      BY <3>1, <1>7 DEF Follow
    <3> QED
      BY <2>1, <3>1, <3>2, <3>3 DEF InHand
  <2> QED
    BY <1>3, <2>4, <2>5, <2>6
<1>13. MessagesWait(t)'
  <2>1. /\ \A i, j \in DOMAIN got'[t] : i < j => got'[t][i] < got'[t][j]
        /\ \A i \in DOMAIN got'[t] : got'[t][i] <= Len(ran'[t])
        /\ queued'[t] = 0 /\ delivered'[t] = 0 /\ raised'[t] = << >>
    BY <1>2, <1>5, <1>10
  <2>2. calling'[t].at \in {"unix", "program"}
    BY <1>8, <1>9, <1>10
  <2>3. \A i \in 1 .. 0 : FALSE
    OBVIOUS
  <2> HIDE DEF next, kept, r
  <2> QED
    BY <1>7, <2>1, <2>2, <2>3 DEF MessagesWait, Waiting, CallsAssumption
<1>14. \A u \in Callers \ {t} : InHand(u)' /\ MessagesWait(u)'
  BY <1>1, <1>2, <1>10, OthersWait
<1> QED
  BY <1>11, <1>12, <1>13, <1>14 DEF CallsIInv

LEMMA NextCalls ==
  ASSUME CallsAssumption, CallsIInv, [CallsNext]_callsVars
  PROVE  CallsIInv'
<1>1. CASE CallsNext
  <2>1. PICK t \in Callers :
          \/ \E kind \in Kinds, raises \in BOOLEAN, to \in CallContexts : Issue(t, kind, raises, to)
          \/ Proceed(t)
    BY <1>1 DEF CallsNext
  <2>2. CASE \E kind \in Kinds, raises \in BOOLEAN, to \in CallContexts : Issue(t, kind, raises, to)
    BY <2>2, IssueKeeps
  <2>3. CASE RunRecord(t)
    BY <2>3, RunKeeps
  <2>4. CASE Return(t)
    BY <2>4, ReturnKeeps
  <2>5. CASE Fetch(t)
    BY <2>5, FetchKeeps
  <2>6. CASE After(t)
    BY <2>6, AfterKeeps
  <2> QED
    BY <2>1, <2>2, <2>3, <2>4, <2>5, <2>6 DEF Proceed
<1>2. CASE UNCHANGED callsVars
  <2>1. /\ CallsTypeOK'
        /\ \A u \in Callers : InHand(u)' /\ MessagesWait(u)'
    BY <1>2, OthersWait DEF callsVars, flags, messages, CallsIInv, CallsTypeOK
  <2> QED
    BY <2>1 DEF CallsIInv
<1> QED
  BY <1>1, <1>2

LEMMA CallsInvariant ==
  ASSUME CallsAssumption
  PROVE  CallsSpec => []CallsIInv
<1>1. CallsInit => CallsIInv
  BY InitCalls
<1>2. CallsIInv /\ [CallsNext]_callsVars => CallsIInv'
  BY NextCalls
<1> QED
  BY <1>1, <1>2, PTL DEF CallsSpec

(* The calls of a thread run in the order its program made them, each      *)
(* under the context that was current then, whichever of them wait in the  *)
(* batch, for any threads, contexts and sizes.                             *)
THEOREM CallsStayInOrder ==
  ASSUME CallsAssumption
  PROVE  CallsSpec => []CallsRunInOrder
<1>1. CallsIInv => CallsRunInOrder
  BY DEF CallsIInv, InHand, CallsRunInOrder
<1> QED
  BY <1>1, CallsInvariant, PTL

(* Messages come to the program in the order they were raised, all of them *)
(* before the call returns; those of a unix call that are lost are the     *)
(* last ones.                                                              *)
THEOREM MessagesStayInOrder ==
  ASSUME CallsAssumption
  PROVE  CallsSpec => []MessagesInOrder
<1>1. CallsIInv => MessagesInOrder
  <2> SUFFICES ASSUME CallsIInv, NEW t \in Callers
               PROVE  /\ \A i, j \in DOMAIN got[t] : i < j => got[t][i] < got[t][j]
                      /\ calling[t] = InProgram => queued[t] = delivered[t]
                      /\ calling[t].at \in {"fetch", "after"} =>
                           \A i \in DOMAIN raised[t] :
                             \/ i > MaxQueued
                             \/ \E j \in DOMAIN got[t] : got[t][j] = raised[t][i]
                             \/ \E j \in delivered[t] + 1 .. queued[t] : queue[t][j] = raised[t][i]
    BY DEF MessagesInOrder
  <2>1. MessagesWait(t)
    BY DEF CallsIInv
  <2>2. calling[t] = InProgram => queued[t] = delivered[t]
    BY <2>1 DEF MessagesWait, InProgram
  <2>3. ASSUME calling[t].at \in {"fetch", "after"}, NEW i \in DOMAIN raised[t], ~(i > MaxQueued),
               i \in Waiting(t)
        PROVE  queue[t][i] = raised[t][i]
    <3>1. delivered[t] \in Nat /\ queued[t] \in Nat
      BY CallsTyped DEF CallsIInv
    <3>2. CASE calling[t].at = "fetch"
      <4>1. i \in 1 .. queued[t]
        BY <2>3, <3>1 DEF Waiting
      <4> QED
        BY <2>1, <3>2, <4>1 DEF MessagesWait
    <3>3. CASE calling[t].at = "after"
      <4>1. delivered[t] = 0 /\ queued[t] = 0
        BY <2>1, <3>3 DEF MessagesWait
      <4>2. \A k \in 0 + 1 .. 0 : FALSE
        OBVIOUS
      <4> QED
        BY <2>3, <4>1, <4>2 DEF Waiting
    <3> QED
      BY <2>3, <3>2, <3>3
  <2>4. calling[t].at \in {"fetch", "after"} =>
          \A i \in DOMAIN raised[t] :
            \/ i > MaxQueued
            \/ \E j \in DOMAIN got[t] : got[t][j] = raised[t][i]
            \/ \E j \in delivered[t] + 1 .. queued[t] : queue[t][j] = raised[t][i]
    <3> SUFFICES ASSUME calling[t].at \in {"fetch", "after"}, NEW i \in DOMAIN raised[t],
                        ~(i > MaxQueued), ~ \E j \in DOMAIN got[t] : got[t][j] = raised[t][i]
                 PROVE  \E j \in delivered[t] + 1 .. queued[t] : queue[t][j] = raised[t][i]
      OBVIOUS
    <3>1. i \in Waiting(t)
      BY <2>1 DEF MessagesWait
    <3> QED
      BY <2>3, <3>1 DEF Waiting
  <2> QED
    BY <2>1, <2>2, <2>4 DEF MessagesWait
<1> QED
  BY <1>1, CallsInvariant, PTL

-----------------------------------------------------------------------------
(***************************************************************************)
(* CallBatches while one context is used: the flags of the process say     *)
(* what the calls in hand will make of the context's debug output.         *)
(***************************************************************************)

(* What turns a state on and off, as a call is added or runs.              *)
LEMMA OnStart ==
  ASSUME NEW b \in BOOLEAN, NEW on, NEW off, NEW s
  PROVE  On(b, on, off, s, 1) <=> b
BY DEF On

LEMMA OnAppended ==
  ASSUME NEW b \in BOOLEAN, NEW on, NEW off, on # off, NEW s \in Seq(CallRecord), NEW e \in CallRecord
  PROVE  /\ Append(s, e) \in Seq(CallRecord) /\ Len(Append(s, e)) = Len(s) + 1 /\ Len(s) \in Nat
         /\ \A i \in 1 .. Len(s) + 1 : On(b, on, off, Append(s, e), i) <=> On(b, on, off, s, i)
         /\ On(b, on, off, Append(s, e), Len(s) + 2) <=>
              e.kind = on \/ (e.kind # off /\ On(b, on, off, s, Len(s) + 1))
<1> DEFINE l == Len(s)
           u == Append(s, e)
<1>1. /\ l \in Nat /\ u \in Seq(CallRecord) /\ Len(u) = l + 1
      /\ u[l + 1] = e /\ \A i \in 1 .. l : u[i] = s[i]
  OBVIOUS
<1> HIDE DEF l, u
<1>2. ASSUME NEW i \in 1 .. l + 1
      PROVE  On(b, on, off, u, i) <=> On(b, on, off, s, i)
  <2>1. \A k \in 1 .. i - 1 : u[k] = s[k] /\ \A m \in k + 1 .. i - 1 : u[m] = s[m]
    BY <1>1
  <2> QED
    BY <2>1 DEF On
<1>3. On(b, on, off, u, l + 2) <=> e.kind = on \/ (e.kind # off /\ On(b, on, off, u, l + 1))
  <2>1. /\ 1 .. l + 2 - 1 = 1 .. l \cup {l + 1} /\ l + 1 \in 1 .. l + 2 - 1
        /\ 1 .. l + 1 - 1 = 1 .. l
        /\ \A j \in 1 .. l : j + 1 .. l + 2 - 1 = j + 1 .. l + 1 - 1 \cup {l + 1}
        /\ l + 1 + 1 .. l + 2 - 1 = {}
    BY <1>1
  <2> QED
    BY <1>1, <2>1 DEF On
<1> QED
  BY <1>1, <1>2, <1>3 DEF l, u

LEMMA OnFollows ==
  ASSUME NEW b \in BOOLEAN, NEW on, NEW off, on # off, NEW s \in Seq(CallRecord), s # <<>>,
         NEW a \in BOOLEAN, a <=> Head(s).kind = on \/ (Head(s).kind # off /\ b)
  PROVE  /\ Tail(s) \in Seq(CallRecord) /\ Len(s) \in Nat /\ Len(s) >= 1 /\ Len(Tail(s)) = Len(s) - 1
         /\ \A i \in 1 .. Len(s) - 1 : Tail(s)[i] = s[i + 1]
         /\ \A i \in 1 .. Len(s) : On(a, on, off, Tail(s), i) <=> On(b, on, off, s, i + 1)
<1> DEFINE l == Len(s)
           u == Tail(s)
<1>1. /\ l \in Nat /\ l >= 1 /\ u \in Seq(CallRecord) /\ Len(u) = l - 1
      /\ Head(s) = s[1] /\ \A i \in 1 .. l - 1 : u[i] = s[i + 1]
  OBVIOUS
<1> HIDE DEF l, u
<1>2. ASSUME NEW i \in 1 .. l
      PROVE  On(a, on, off, u, i) <=> On(b, on, off, s, i + 1)
  <2>1. \A k \in 1 .. i - 1 : u[k] = s[k + 1] /\ k + 1 \in 1 .. i + 1 - 1
    <3> SUFFICES ASSUME NEW k \in 1 .. i - 1
                 PROVE  u[k] = s[k + 1] /\ k + 1 \in 1 .. i + 1 - 1
      OBVIOUS
    <3>1. k \in 1 .. l - 1 /\ k + 1 \in 1 .. i + 1 - 1
      BY <1>1
    <3> QED
      BY <1>1, <3>1
  <2>2. ASSUME NEW j \in 0 .. i - 1
        PROVE  (\A k \in j + 1 .. i - 1 : u[k].kind # off) <=> \A k \in j + 1 + 1 .. i + 1 - 1 : s[k].kind # off
    <3>1. ASSUME NEW k \in j + 1 .. i - 1, \A m \in j + 1 + 1 .. i + 1 - 1 : s[m].kind # off
          PROVE  u[k].kind # off
      <4>1. k \in 1 .. i - 1 /\ k + 1 \in j + 1 + 1 .. i + 1 - 1
        BY <1>1
      <4> QED
        BY <2>1, <3>1, <4>1
    <3>2. ASSUME NEW k \in j + 1 + 1 .. i + 1 - 1, \A m \in j + 1 .. i - 1 : u[m].kind # off
          PROVE  s[k].kind # off
      <4> DEFINE m == k - 1
      <4>1. m \in j + 1 .. i - 1 /\ m \in 1 .. i - 1 /\ k = m + 1
        BY <1>1
      <4> HIDE DEF m
      <4> QED
        BY <2>1, <3>2, <4>1
    <3> QED
      BY <3>1, <3>2
  <2>3. /\ 0 \in 0 .. i - 1 /\ 0 + 1 = 1 /\ 1 \in 1 .. i + 1 - 1
        /\ \A j \in 1 .. i - 1 : j \in 0 .. i - 1
    BY <1>1
  <2>4. On(b, on, off, s, i + 1) <=>
          \/ a /\ \A k \in 1 + 1 .. i + 1 - 1 : s[k].kind # off
          \/ \E j \in 1 .. i - 1 : s[j + 1].kind = on /\ \A k \in j + 1 + 1 .. i + 1 - 1 : s[k].kind # off
    <3> DEFINE after(j) == s[j].kind = on /\ \A k \in j + 1 .. i + 1 - 1 : s[k].kind # off
    <3>1. (\A k \in 1 .. i + 1 - 1 : s[k].kind # off) <=>
            s[1].kind # off /\ \A k \in 1 + 1 .. i + 1 - 1 : s[k].kind # off
      <4>1. 1 .. i + 1 - 1 = {1} \cup 1 + 1 .. i + 1 - 1
        BY <1>1
      <4> QED
        BY <4>1
    <3>2. (\E j \in 1 .. i + 1 - 1 : after(j)) <=> after(1) \/ \E j \in 1 .. i - 1 : after(j + 1)
      <4> HIDE DEF after
      <4>1. \A j \in 1 .. i + 1 - 1 : j = 1 \/ (j - 1 \in 1 .. i - 1 /\ j = (j - 1) + 1)
        BY <1>1
      <4> QED
        BY <2>1, <2>3, <4>1
    <3>3. On(b, on, off, s, i + 1) <=>
            (b /\ \A k \in 1 .. i + 1 - 1 : s[k].kind # off) \/ \E j \in 1 .. i + 1 - 1 : after(j)
      BY DEF On
    <3> QED
      BY <1>1, <3>1, <3>2, <3>3
  <2> QED
    BY <2>1, <2>2, <2>3, <2>4 DEF On
<1> QED
  BY <1>1, <1>2 DEF l, u

(* The state of a context's debug output.                                  *)
Core == [callback : BOOLEAN, synchronous : BOOLEAN]
Turned(b, e, on, off) == e.kind = on \/ (e.kind # off /\ b)

LEMMA AppendedEffect ==
  ASSUME NEW c \in Core, NEW s \in Seq(CallRecord), NEW e \in CallRecord
  PROVE  /\ Append(s, e) \in Seq(CallRecord) /\ Len(Append(s, e)) = Len(s) + 1 /\ Len(s) \in Nat
         /\ \A i \in 1 .. Len(s) + 1 : /\ HasCallback(c, Append(s, e), i) <=> HasCallback(c, s, i)
                                       /\ Synchronous(c, Append(s, e), i) <=> Synchronous(c, s, i)
         /\ HasCallback(c, Append(s, e), Len(Append(s, e)) + 1) <=>
              Turned(HasCallback(c, s, Len(s) + 1), e, "callback", "quiet")
         /\ Synchronous(c, Append(s, e), Len(Append(s, e)) + 1) <=>
              Turned(Synchronous(c, s, Len(s) + 1), e, "enable", "disable")
         /\ \A n : Alone(c, Append(s, e), n) <=>
              /\ Alone(c, s, n)
              /\ e.raises /\ HasCallback(c, s, Len(s) + 1) /\ Synchronous(c, s, Len(s) + 1) => e.n = n
<1> DEFINE u == Append(s, e)
           l == Len(s)
<1>1. /\ c.callback \in BOOLEAN /\ c.synchronous \in BOOLEAN
      /\ "callback" # "quiet" /\ "enable" # "disable"
  BY DEF Core
<1>2. /\ u \in Seq(CallRecord) /\ Len(u) = l + 1 /\ l \in Nat
      /\ DOMAIN u = 1 .. l + 1 /\ DOMAIN s = 1 .. l /\ u[l + 1] = e /\ \A i \in 1 .. l : u[i] = s[i]
  OBVIOUS
<1>3. /\ \A i \in 1 .. l + 1 : /\ HasCallback(c, u, i) <=> HasCallback(c, s, i)
                               /\ Synchronous(c, u, i) <=> Synchronous(c, s, i)
      /\ HasCallback(c, u, l + 2) <=> Turned(HasCallback(c, s, l + 1), e, "callback", "quiet")
      /\ Synchronous(c, u, l + 2) <=> Turned(Synchronous(c, s, l + 1), e, "enable", "disable")
  BY <1>1, OnAppended DEF HasCallback, Synchronous, Turned
<1> HIDE DEF u, l
<1>4. Len(u) + 1 = l + 2
  BY <1>2
<1>5. ASSUME NEW n
      PROVE  Alone(c, u, n) <=>
               /\ Alone(c, s, n)
               /\ e.raises /\ HasCallback(c, s, l + 1) /\ Synchronous(c, s, l + 1) => e.n = n
  <2>1. \A i \in 1 .. l + 1 : i \in 1 .. l \/ i = l + 1
    BY <1>2
  <2>2. l + 1 \in 1 .. l + 1 /\ \A i \in 1 .. l : i \in 1 .. l + 1
    BY <1>2
  <2> QED
    BY <1>2, <1>3, <2>1, <2>2 DEF Alone
<1> QED
  BY <1>2, <1>3, <1>4, <1>5 DEF u, l

LEMMA RanEffect ==
  ASSUME NEW c \in Core, NEW s \in Seq(CallRecord), s # <<>>, NEW d \in Core,
         d.callback <=> Turned(c.callback, Head(s), "callback", "quiet"),
         d.synchronous <=> Turned(c.synchronous, Head(s), "enable", "disable")
  PROVE  /\ Tail(s) \in Seq(CallRecord)
         /\ HasCallback(d, Tail(s), Len(Tail(s)) + 1) <=> HasCallback(c, s, Len(s) + 1)
         /\ Synchronous(d, Tail(s), Len(Tail(s)) + 1) <=> Synchronous(c, s, Len(s) + 1)
         /\ \A n : Alone(c, s, n) => Alone(d, Tail(s), n)
<1> DEFINE u == Tail(s)
           l == Len(s)
<1>1. /\ c.callback \in BOOLEAN /\ c.synchronous \in BOOLEAN
      /\ d.callback \in BOOLEAN /\ d.synchronous \in BOOLEAN
      /\ "callback" # "quiet" /\ "enable" # "disable"
  BY DEF Core
<1>2. /\ u \in Seq(CallRecord) /\ Len(u) = l - 1 /\ l \in Nat /\ l >= 1
      /\ DOMAIN u = 1 .. l - 1 /\ DOMAIN s = 1 .. l /\ \A i \in 1 .. l - 1 : u[i] = s[i + 1]
  OBVIOUS
<1>3. \A i \in 1 .. l : HasCallback(d, u, i) <=> HasCallback(c, s, i + 1)
  BY <1>1, OnFollows DEF HasCallback, Turned
<1>4. \A i \in 1 .. l : Synchronous(d, u, i) <=> Synchronous(c, s, i + 1)
  BY <1>1, OnFollows DEF Synchronous, Turned
<1> HIDE DEF u, l
<1>5. Len(u) + 1 = l /\ l \in 1 .. l
  BY <1>2
<1>6. ASSUME NEW n, Alone(c, s, n), NEW i \in 1 .. l - 1
      PROVE  u[i].raises /\ HasCallback(d, u, i) /\ Synchronous(d, u, i) => u[i].n = n
  <2>1. i \in 1 .. l /\ i + 1 \in 1 .. l
    BY <1>2
  <2> QED
    BY <1>2, <1>3, <1>4, <1>6, <2>1 DEF Alone
<1>7. \A n : Alone(c, s, n) => Alone(d, u, n)
  BY <1>2, <1>6 DEF Alone
<1> QED
  BY <1>2, <1>3, <1>4, <1>5, <1>7 DEF u, l

LEMMA NoEffect ==
  ASSUME NEW c \in Core
  PROVE  /\ HasCallback(c, <<>>, Len(<<>>) + 1) <=> c.callback
         /\ Synchronous(c, <<>>, Len(<<>>) + 1) <=> c.synchronous
         /\ \A n : Alone(c, <<>>, n)
<1>1. Len(<<>>) + 1 = 1 /\ DOMAIN <<>> = {} /\ c.callback \in BOOLEAN /\ c.synchronous \in BOOLEAN
  BY DEF Core
<1> QED
  BY <1>1, OnStart DEF HasCallback, Synchronous, Alone

(* One call in hand.                                                       *)
LEMMA SingleEffect ==
  ASSUME NEW c \in Core, NEW e \in CallRecord
  PROVE  /\ HasCallback(c, <<e>>, Len(<<e>>) + 1) <=> Turned(c.callback, e, "callback", "quiet")
         /\ Synchronous(c, <<e>>, Len(<<e>>) + 1) <=> Turned(c.synchronous, e, "enable", "disable")
         /\ \A n : Alone(c, <<e>>, n) <=> (e.raises /\ c.callback /\ c.synchronous => e.n = n)
<1> DEFINE s == <<>>
           u == Append(s, e)
<1>1. s \in Seq(CallRecord) /\ u = <<e>>
  OBVIOUS
<1>2. /\ HasCallback(c, s, Len(s) + 1) <=> c.callback
      /\ Synchronous(c, s, Len(s) + 1) <=> c.synchronous
      /\ \A n : Alone(c, s, n)
  BY NoEffect
<1> HIDE DEF s
<1>3. /\ HasCallback(c, u, Len(u) + 1) <=> Turned(HasCallback(c, s, Len(s) + 1), e, "callback", "quiet")
      /\ Synchronous(c, u, Len(u) + 1) <=> Turned(Synchronous(c, s, Len(s) + 1), e, "enable", "disable")
      /\ \A n : Alone(c, u, n) <=>
            /\ Alone(c, s, n)
            /\ e.raises /\ HasCallback(c, s, Len(s) + 1) /\ Synchronous(c, s, Len(s) + 1) => e.n = n
  BY <1>1, AppendedEffect
<1> HIDE DEF u
<1> QED
  BY <1>1, <1>2, <1>3 DEF Turned

(* After a step one thread's calls all ran under its context: so it was    *)
(* before, and the context is the same.                                    *)
LEMMA OneContextStays ==
  ASSUME CallsTypeOK, OneContext', [CallsNext]_callsVars
  PROVE  OneContext /\ UNCHANGED context
<1>1. CASE UNCHANGED <<context, ran>>
  BY <1>1 DEF OneContext
<1>2. ASSUME NEW t \in Callers, RunRecord(t)
      PROVE  OneContext /\ UNCHANGED context
  <2> DEFINE call == Head(calling[t].todo)
             entry == [n |-> call.n, issued |-> call.under, under |-> context[t]]
             r == ran[t]
  <2>1. /\ ran' = [ran EXCEPT ![t] = Append(r, entry)]
        /\ context' = IF call.kind = "make" THEN [context EXCEPT ![t] = call.to] ELSE context
    BY <1>2 DEF RunRecord, Run
  <2>2. /\ ran \in [Callers -> Seq([n : Nat, issued : CallContexts, under : CallContexts])]
        /\ context \in [Callers -> CallContexts]
    BY DEF CallsTypeOK
  <2>3. r \in Seq([n : Nat, issued : CallContexts, under : CallContexts]) /\ ran'[t] = Append(r, entry)
    BY <2>1, <2>2
  <2>4. /\ entry.under = context[t] /\ Append(r, entry)[Len(r) + 1] = entry
        /\ DOMAIN r = 1 .. Len(r) /\ DOMAIN Append(r, entry) = 1 .. Len(r) + 1 /\ Len(r) \in Nat
        /\ \A i \in 1 .. Len(r) : Append(r, entry)[i] = r[i]
    BY <2>3
  <2>5. \A u \in Callers : u = t
    BY DEF OneContext
  <2>6. \A i \in DOMAIN ran'[t] : ran'[t][i].under = context'[t]
    BY DEF OneContext
  <2> HIDE DEF entry, r
  <2>7. Len(r) + 1 \in DOMAIN ran'[t]
    BY <2>3, <2>4
  <2>8. context'[t] = context[t]
    BY <2>3, <2>4, <2>6, <2>7
  <2>9. context' = context
    BY <2>1, <2>2, <2>8
  <2>10. \A i \in DOMAIN r : r[i].under = context[t]
    BY <2>3, <2>4, <2>6, <2>8
  <2> QED
    BY <2>5, <2>9, <2>10 DEF OneContext, r
<1>3. CASE CallsNext
  <2>1. PICK t \in Callers :
          \/ \E kind \in Kinds, raises \in BOOLEAN, to \in CallContexts : Issue(t, kind, raises, to)
          \/ Proceed(t)
    BY <1>3 DEF CallsNext
  <2>2. RunRecord(t) \/ UNCHANGED <<context, ran>>
    BY <2>1 DEF Issue, Proceed, Return, Fetch, After
  <2> QED
    BY <2>2, <1>1, <1>2
<1>4. CASE UNCHANGED callsVars
  BY <1>1, <1>4 DEF callsVars
<1> QED
  BY <1>3, <1>4

(* One thread makes the calls, and its context does not change.            *)
LEMMA SameContext ==
  ASSUME OneContext, UNCHANGED context, CallsTypeOK, OneContextIInv, NEW t \in Callers
  PROVE  /\ context'[t] = context[t] /\ context[t] \in CallContexts /\ core[context[t]] \in Core
         /\ \A u \in Callers : u = t
<1>1. context[t] \in CallContexts
  BY DEF CallsTypeOK
<1> QED
  BY <1>1 DEF OneContext, OneContextIInv, Core

(* A unix call runs a record.                                              *)
LEMMA RunFollows ==
  ASSUME OneContext, UNCHANGED context, CallsIInv, OneContextIInv, NEW t \in Callers, RunRecord(t)
  PROVE  OneContextIInv'
<1> DEFINE x == context[t]
           c == core[x]
           d == core'[x]
           s == calling[t].todo
           call == calling[t].call
           then == calling[t].then
<1>1. /\ CallsTypeOK /\ InHand(t) /\ InOneContext(t)
  BY DEF CallsIInv, OneContextIInv
<1>2. /\ context'[t] = x /\ x \in CallContexts /\ c \in Core /\ \A u \in Callers : u = t
  BY <1>1, SameContext
<1>3. /\ calling[t].at = "unix" /\ s # <<>> /\ calling' = [calling EXCEPT ![t].todo = Tail(@)]
      /\ UNCHANGED <<flags, batch, issued>>
      /\ core' = [core EXCEPT
          ![x].callback = CASE Head(s).kind = "callback" -> TRUE [] Head(s).kind = "quiet" -> FALSE [] OTHER -> @,
          ![x].synchronous = CASE Head(s).kind = "enable" -> TRUE [] Head(s).kind = "disable" -> FALSE [] OTHER -> @]
  BY DEF RunRecord, Run
<1>4. /\ s \in Seq(CallRecord) /\ call \in CallRecord /\ calling[t] # InProgram /\ calling[t] \in Doing
      /\ then \in {"program", "append", "join", "call"}
  BY <1>1, <1>3, CallsTyped
<1>5. /\ core' \in [CallContexts -> Core] /\ d \in Core
      /\ d.callback <=> Turned(c.callback, Head(s), "callback", "quiet")
      /\ d.synchronous <=> Turned(c.synchronous, Head(s), "enable", "disable")
  <2>1. core \in [CallContexts -> Core]
    BY DEF OneContextIInv, Core
  <2> DEFINE cb == CASE Head(s).kind = "callback" -> TRUE [] Head(s).kind = "quiet" -> FALSE [] OTHER -> c.callback
             sy == CASE Head(s).kind = "enable" -> TRUE [] Head(s).kind = "disable" -> FALSE [] OTHER -> c.synchronous
  <2>2. /\ cb \in BOOLEAN /\ (cb <=> Turned(c.callback, Head(s), "callback", "quiet"))
        /\ sy \in BOOLEAN /\ (sy <=> Turned(c.synchronous, Head(s), "enable", "disable"))
    BY <1>2 DEF Turned, Core
  <2>3. core' = [core EXCEPT ![x] = [@ EXCEPT !.callback = cb, !.synchronous = sy]]
    BY <1>2, <1>3, <2>1 DEF Core
  <2> HIDE DEF cb, sy
  <2>4. [c EXCEPT !.callback = cb, !.synchronous = sy] \in Core
    BY <1>2, <2>2 DEF Core
  <2>5. d = [c EXCEPT !.callback = cb, !.synchronous = sy] /\ core' \in [CallContexts -> Core]
    BY <1>2, <2>1, <2>3, <2>4
  <2>6. d.callback = cb /\ d.synchronous = sy
    BY <1>2, <2>5 DEF Core
  <2> QED
    BY <2>2, <2>4, <2>5, <2>6
<1>6. /\ calling'[t] = [calling[t] EXCEPT !.todo = Tail(s)]
  BY <1>1, <1>3 DEF CallsTypeOK
<1>7. /\ calling'[t].todo = Tail(s) /\ calling'[t].call = call /\ calling'[t].then = then
      /\ calling'[t] # InProgram
  BY <1>4, <1>6 DEF Doing, InProgram
<1>8. /\ Tail(s) \in Seq(CallRecord)
      /\ HasCallback(d, Tail(s), Len(Tail(s)) + 1) <=> HasCallback(c, s, Len(s) + 1)
      /\ Synchronous(d, Tail(s), Len(Tail(s)) + 1) <=> Synchronous(c, s, Len(s) + 1)
      /\ \A n : Alone(c, s, n) => Alone(d, Tail(s), n)
  BY <1>2, <1>3, <1>4, <1>5, RanEffect
<1>9. Synchronous(d, Append(Tail(s), call), Len(Append(Tail(s), call)) + 1)
        <=> Synchronous(c, Append(s, call), Len(Append(s, call)) + 1)
  <2>1. Synchronous(c, Append(s, call), Len(Append(s, call)) + 1) <=>
          Turned(Synchronous(c, s, Len(s) + 1), call, "enable", "disable")
    BY <1>2, <1>4, AppendedEffect
  <2>2. Synchronous(d, Append(Tail(s), call), Len(Append(Tail(s), call)) + 1) <=>
          Turned(Synchronous(d, Tail(s), Len(Tail(s)) + 1), call, "enable", "disable")
    BY <1>4, <1>5, <1>8, AppendedEffect
  <2> HIDE DEF d, c, s, call
  <2> QED
    BY <1>8, <2>1, <2>2 DEF Turned
<1>10. UNCHANGED <<batching, debug_callback, debug_synchronous>> /\ issued'[t] = issued[t]
       /\ core'[context'[t]] = d
  BY <1>2, <1>3 DEF flags
<1> HIDE DEF d, c, s, x, call, then
<1>11. InOneContext(t)'
  <2>1. CASE then = "program"
    <3>1. FlagsFollow(c, s, s) /\ Alone(c, s, issued[t])
      BY <2>1, <1>1, <1>4 DEF InOneContext, c, x, s, then
    <3>2. /\ batching <=> ~(debug_callback /\ debug_synchronous)
          /\ debug_callback <=> HasCallback(d, Tail(s), Len(Tail(s)) + 1)
          /\ debug_synchronous <=> Synchronous(d, Tail(s), Len(Tail(s)) + 1)
          /\ Alone(d, Tail(s), issued[t])
      BY <3>1, <1>8 DEF FlagsFollow
    <3> QED
      BY <2>1, <3>2, <1>7, <1>10 DEF InOneContext, FlagsFollow
  <2>2. CASE then # "program"
    <3>1. /\ FlagsFollow(c, s, Append(s, call)) /\ Alone(c, s, 0)
          /\ call.raises => call.kind \notin {"enable", "disable"}
          /\ then = "append" => batching /\ call.kind \in Batched
          /\ then = "join" => call.kind = "draw"
      BY <2>2, <1>1, <1>4 DEF InOneContext, c, x, s, then, call
    <3>2. /\ batching <=> ~(debug_callback /\ debug_synchronous)
          /\ debug_callback <=> HasCallback(d, Tail(s), Len(Tail(s)) + 1)
          /\ debug_synchronous <=> Synchronous(d, Append(Tail(s), call), Len(Append(Tail(s), call)) + 1)
          /\ Alone(d, Tail(s), 0)
      BY <3>1, <1>8, <1>9 DEF FlagsFollow
    <3> QED
      BY <2>2, <3>1, <3>2, <1>7, <1>10 DEF InOneContext, FlagsFollow
  <2> QED
    BY <2>1, <2>2
<1> QED
  BY <1>2, <1>5, <1>10, <1>11 DEF OneContextIInv, Core

(* No call has the number 0: what none raises, no other does.              *)
LEMMA AloneMore ==
  ASSUME CallsIInv, NEW t \in Callers, NEW c, calling[t] = InProgram, Alone(c, batch[t], 0), NEW n
  PROVE  Alone(c, batch[t], n)
<1>1. /\ \A i \in DOMAIN batch[t] : batch[t][i].n = Len(ran[t]) + i
      /\ DOMAIN batch[t] = 1 .. Len(batch[t]) /\ Len(ran[t]) \in Nat
  BY CallsTyped DEF CallsIInv, InHand, Follow
<1>2. \A i \in DOMAIN batch[t] : batch[t][i].n # 0
  <2> DEFINE l == Len(ran[t])
  <2>1. \A i \in DOMAIN batch[t] : l \in Nat /\ i \in Nat /\ i >= 1
    BY <1>1
  <2> HIDE DEF l
  <2>2. \A i \in DOMAIN batch[t] : l + i # 0
    BY <2>1
  <2> QED
    BY <1>1, <2>2 DEF l
<1> QED
  BY <1>2 DEF Alone

(* What a unix call does next changes nothing that is in hand.             *)
LEMMA MoveFollows ==
  ASSUME OneContext, UNCHANGED context, CallsIInv, OneContextIInv, NEW t \in Callers, NEW place \in {"fetch", "after"},
         calling[t].at \in {"unix", "fetch"}, calling' = [calling EXCEPT ![t].at = place],
         UNCHANGED <<flags, batch, core, issued>>
  PROVE  OneContextIInv'
<1>1. /\ CallsTypeOK /\ InOneContext(t)
  BY DEF CallsIInv, OneContextIInv
<1>2. context'[t] = context[t] /\ \A u \in Callers : u = t
  BY <1>1, SameContext
<1>3. /\ calling[t] # InProgram /\ calling[t] \in Doing
  BY <1>1, CallsTyped DEF InProgram
<1>4. /\ calling'[t] = [calling[t] EXCEPT !.at = place]
  BY <1>1 DEF CallsTypeOK
<1>5. /\ calling'[t].todo = calling[t].todo /\ calling'[t].call = calling[t].call
      /\ calling'[t].then = calling[t].then /\ calling'[t] # InProgram
  BY <1>3, <1>4 DEF Doing, InProgram
<1>6. UNCHANGED <<batching, debug_callback, debug_synchronous, batch, core, issued>>
  BY DEF flags
<1>7. InOneContext(t)'
  BY <1>1, <1>2, <1>3, <1>5, <1>6 DEF InOneContext, FlagsFollow
<1> QED
  BY <1>2, <1>6, <1>7 DEF OneContextIInv

(* What note_call makes of the flags.                                      *)
LEMMA Notes ==
  ASSUME NEW kind \in AllKinds, NoteCall(kind), debug_callback \in BOOLEAN, debug_synchronous \in BOOLEAN,
         NEW e \in CallRecord, e.kind = kind
  PROVE  /\ batching' \in BOOLEAN /\ debug_callback' \in BOOLEAN /\ debug_synchronous' \in BOOLEAN
         /\ batching' <=> ~(debug_callback' /\ debug_synchronous')
         /\ debug_callback' <=> Turned(debug_callback, e, "callback", "quiet")
         /\ debug_synchronous' <=> Turned(debug_synchronous, e, "enable", "disable")
<1>1. debug_callback' \in BOOLEAN /\ (debug_callback' <=> Turned(debug_callback, e, "callback", "quiet"))
  BY DEF NoteCall, Turned
<1>2. debug_synchronous' \in BOOLEAN /\ (debug_synchronous' <=> Turned(debug_synchronous, e, "enable", "disable"))
  BY DEF NoteCall, Turned
<1>3. batching' = ~(debug_callback' /\ debug_synchronous')
  BY DEF NoteCall
<1>4. batching' \in BOOLEAN /\ (batching' <=> ~(debug_callback' /\ debug_synchronous'))
  BY <1>1, <1>2, <1>3
<1> QED
  BY <1>1, <1>2, <1>4

LEMMA IssueFollows ==
  ASSUME OneContext, UNCHANGED context, CallsAssumption, CallsIInv, OneContextIInv, NEW t \in Callers,
         NEW kind \in Kinds, NEW raises \in BOOLEAN, NEW to \in CallContexts, Issue(t, kind, raises, to),
         raises => kind \in {"value", "data", "large", "draw", "get"}
  PROVE  OneContextIInv'
<1> DEFINE call == [n |-> issued[t] + 1, kind |-> kind, raises |-> raises,
                    under |-> context[t], to |-> to]
           b == batch[t]
           c == core[context[t]]
           noted == kind \in Batched
<1>1. /\ CallsTypeOK /\ InHand(t) /\ InOneContext(t)
      /\ debug_callback \in BOOLEAN /\ debug_synchronous \in BOOLEAN /\ batching \in BOOLEAN
  BY DEF CallsIInv, OneContextIInv
<1>2. /\ context'[t] = context[t] /\ c \in Core /\ \A u \in Callers : u = t
  BY <1>1, SameContext
<1>3. /\ calling[t] = InProgram /\ issued'[t] = issued[t] + 1
      /\ UNCHANGED core /\ (IF noted THEN NoteCall(kind) ELSE UNCHANGED flags)
  BY <1>1 DEF Issue, CallsTypeOK
<1>4. /\ call \in CallRecord /\ call.n = issued[t] + 1 /\ call.kind = kind /\ call.raises = raises
  BY CallsTyped, <1>1 DEF CallRecord, CallsAssumption
<1>5. b \in Seq(CallRecord)
  BY <1>1, CallsTyped
<1>6. FlagsFollow(c, b, b) /\ Alone(c, b, 0)
  BY <1>1, <1>3 DEF InOneContext
<1>7. \/ /\ kind \in Batched /\ batching' /\ calling' = calling
         /\ batch' = [batch EXCEPT ![t] = Append(b, call)]
      \/ /\ kind = "draw" /\ batching /\ batch' = [batch EXCEPT ![t] = <<>>]
         /\ calling' = [calling EXCEPT ![t] = [at |-> "unix", todo |-> Append(b, call),
                                               then |-> "program", call |-> call]]
      \/ \E then \in {"append", "join", "call"} :
           /\ then = "append" => kind \in Batched /\ batching'
           /\ then = "join" => kind = "draw"
           /\ batch' = [batch EXCEPT ![t] = <<>>]
           /\ calling' = [calling EXCEPT ![t] = [at |-> "unix", todo |-> b,
                                                 then |-> then, call |-> call]]
  BY DEF Issue
<1>8. /\ batching' \in BOOLEAN /\ debug_callback' \in BOOLEAN /\ debug_synchronous' \in BOOLEAN
      /\ batching' <=> ~(debug_callback' /\ debug_synchronous')
      /\ debug_callback' <=> debug_callback
      /\ debug_synchronous' <=> Turned(debug_synchronous, call, "enable", "disable")
  <2>1. kind \in AllKinds
    BY DEF CallsAssumption
  <2>2. CASE noted
    <3>1. kind \notin {"callback", "quiet"}
      BY <2>2 DEF Batched
    <3> QED
      BY <1>1, <1>3, <1>4, <2>1, <2>2, <3>1, Notes DEF Turned
  <2>3. CASE ~noted
    <3>1. kind \notin {"enable", "disable"}
      BY <2>3 DEF Batched
    <3>2. UNCHANGED <<batching, debug_callback, debug_synchronous>>
      BY <2>3, <1>3 DEF flags
    <3> QED
      BY <1>1, <1>4, <1>6, <3>1, <3>2 DEF Turned, FlagsFollow
  <2> QED
    BY <2>2, <2>3
<1>9. raises => kind \notin {"enable", "disable"}
  OBVIOUS
<1>10. calling \in [Callers -> Doing] /\ batch \in [Callers -> Seq(CallRecord)]
  BY <1>1 DEF CallsTypeOK
<1> HIDE DEF call, b, c, noted
<1>11. /\ debug_callback <=> HasCallback(c, b, Len(b) + 1)
       /\ debug_synchronous <=> Synchronous(c, b, Len(b) + 1)
  BY <1>6 DEF FlagsFollow
<1>12. /\ Synchronous(c, Append(b, call), Len(Append(b, call)) + 1) <=>
            Turned(Synchronous(c, b, Len(b) + 1), call, "enable", "disable")
       /\ HasCallback(c, Append(b, call), Len(Append(b, call)) + 1) <=>
            Turned(HasCallback(c, b, Len(b) + 1), call, "callback", "quiet")
       /\ \A n : Alone(c, Append(b, call), n) <=>
            /\ Alone(c, b, n)
            /\ call.raises /\ HasCallback(c, b, Len(b) + 1) /\ Synchronous(c, b, Len(b) + 1) => call.n = n
  BY <1>2, <1>4, <1>5, AppendedEffect
<1>13. debug_synchronous' <=> Synchronous(c, Append(b, call), Len(Append(b, call)) + 1)
  BY <1>8, <1>11, <1>12 DEF Turned
<1>14. core'[context'[t]] = c
  BY <1>2, <1>3 DEF c
<1>15. kind \notin {"callback", "quiet"} =>
         (debug_callback' <=> HasCallback(c, Append(b, call), Len(Append(b, call)) + 1))
  BY <1>4, <1>8, <1>11, <1>12 DEF Turned
<1>16. InOneContext(t)'
  <2>1. CASE /\ kind \in Batched /\ batching' /\ calling' = calling
             /\ batch' = [batch EXCEPT ![t] = Append(b, call)]
    <3>1. calling'[t] = InProgram /\ batch'[t] = Append(b, call)
      BY <2>1, <1>3, <1>10
    <3>2. kind \notin {"callback", "quiet"}
      BY <2>1 DEF Batched
    <3>3. Alone(c, Append(b, call), 0)
      BY <2>1, <1>4, <1>6, <1>8, <1>9, <1>11, <1>12 DEF Turned
    <3> QED
      BY <3>1, <3>2, <3>3, <1>8, <1>13, <1>14, <1>15 DEF InOneContext, FlagsFollow
  <2>2. CASE /\ kind = "draw" /\ batching /\ batch' = [batch EXCEPT ![t] = <<>>]
             /\ calling' = [calling EXCEPT ![t] = [at |-> "unix", todo |-> Append(b, call),
                                                   then |-> "program", call |-> call]]
    <3>1. /\ calling'[t].todo = Append(b, call) /\ calling'[t].then = "program" /\ calling'[t] # InProgram
      BY <2>2, <1>10 DEF InProgram
    <3>2. kind \notin {"callback", "quiet"}
      BY <2>2
    <3>3. Alone(c, Append(b, call), issued'[t])
      <4>1. ~(HasCallback(c, b, Len(b) + 1) /\ Synchronous(c, b, Len(b) + 1))
        BY <2>2, <1>6 DEF FlagsFollow
      <4>2. Alone(c, b, issued'[t])
        BY <1>6, <1>3, AloneMore DEF b
      <4> QED
        BY <4>1, <4>2, <1>12
    <3> QED
      BY <3>1, <3>2, <3>3, <1>8, <1>13, <1>14, <1>15 DEF InOneContext, FlagsFollow
  <2>3. ASSUME NEW then \in {"append", "join", "call"},
               then = "append" => kind \in Batched /\ batching',
               then = "join" => kind = "draw",
               batch' = [batch EXCEPT ![t] = <<>>],
               calling' = [calling EXCEPT ![t] = [at |-> "unix", todo |-> b,
                                                  then |-> then, call |-> call]]
        PROVE  InOneContext(t)'
    <3>1. /\ calling'[t].todo = b /\ calling'[t].then = then /\ calling'[t].call = call
          /\ calling'[t] # InProgram /\ then # "program"
      BY <2>3, <1>10 DEF InProgram
    <3>2. debug_callback' <=> HasCallback(c, b, Len(b) + 1)
      BY <1>8, <1>11
    <3> QED
      BY <2>3, <3>1, <3>2, <1>4, <1>6, <1>8, <1>9, <1>13, <1>14 DEF InOneContext, FlagsFollow
  <2> QED
    BY <1>7, <2>1, <2>2, <2>3
<1> QED
  BY <1>2, <1>3, <1>8, <1>16 DEF OneContextIInv

LEMMA AfterFollows ==
  ASSUME OneContext, UNCHANGED context, CallsIInv, OneContextIInv, NEW t \in Callers, After(t)
  PROVE  OneContextIInv'
<1> DEFINE call == calling[t].call
           then == calling[t].then
           c == core[context[t]]
           own == [at |-> "unix", todo |-> <<call>>, then |-> "program", call |-> call]
<1>1. /\ CallsTypeOK /\ InHand(t) /\ InOneContext(t)
      /\ debug_callback \in BOOLEAN /\ debug_synchronous \in BOOLEAN /\ batching \in BOOLEAN
  BY DEF CallsIInv, OneContextIInv
<1>2. context'[t] = context[t] /\ c \in Core /\ \A u \in Callers : u = t
  BY <1>1, SameContext
<1>3. /\ calling[t].at = "after" /\ calling[t] # InProgram /\ call \in CallRecord
      /\ then \in {"program", "append", "join", "call"} /\ calling[t].todo = <<>>
      /\ batch[t] = <<>> /\ (then # "program" => call.n = issued[t])
  BY <1>1, CallsTyped DEF After, InHand
<1>4. /\ IF then = "call" THEN NoteCall(call.kind) ELSE UNCHANGED flags
      /\ IF then = "append" THEN batch' = [batch EXCEPT ![t] = <<call>>] ELSE UNCHANGED batch
      /\ calling' = [calling EXCEPT ![t] = IF then \in {"join", "call"} THEN own ELSE InProgram]
      /\ UNCHANGED <<core, issued>>
  BY DEF After
<1>5. calling \in [Callers -> Doing] /\ batch \in [Callers -> Seq(CallRecord)]
  BY <1>1 DEF CallsTypeOK
<1>6. own.todo = <<call>> /\ own.then = "program" /\ own # InProgram
  <2>1. DOMAIN own # DOMAIN InProgram
    BY DEF InProgram
  <2> QED
    BY <2>1
<1>7. call.kind \in AllKinds /\ call.raises \in BOOLEAN
  BY <1>3 DEF CallRecord
<1>8. /\ HasCallback(c, <<call>>, Len(<<call>>) + 1) <=> Turned(c.callback, call, "callback", "quiet")
      /\ Synchronous(c, <<call>>, Len(<<call>>) + 1) <=> Turned(c.synchronous, call, "enable", "disable")
      /\ \A n : Alone(c, <<call>>, n) <=> (call.raises /\ c.callback /\ c.synchronous => call.n = n)
  BY <1>2, <1>3, SingleEffect
<1>9. /\ HasCallback(c, <<>>, Len(<<>>) + 1) <=> c.callback
      /\ Synchronous(c, <<>>, Len(<<>>) + 1) <=> c.synchronous
      /\ \A n : Alone(c, <<>>, n)
  BY <1>2, NoEffect
<1>10. Append(<<>>, call) = <<call>>
  BY <1>3
<1>11. core'[context'[t]] = c /\ issued'[t] = issued[t] /\ core' = core
  BY <1>2, <1>4
<1>12. /\ batching <=> ~(debug_callback /\ debug_synchronous)
       /\ debug_callback <=> c.callback
       /\ then = "program" => (debug_synchronous <=> c.synchronous)
       /\ then # "program" =>
            /\ debug_synchronous <=> Turned(c.synchronous, call, "enable", "disable")
            /\ call.raises => call.kind \notin {"enable", "disable"}
       /\ then = "append" => batching /\ call.kind \in Batched
       /\ then = "join" => call.kind = "draw"
  <2>1. CASE then = "program"
    <3>1. FlagsFollow(c, <<>>, <<>>)
      BY <2>1, <1>1, <1>3 DEF InOneContext
    <3> QED
      BY <2>1, <3>1, <1>9 DEF FlagsFollow
  <2>2. CASE then # "program"
    <3>1. /\ FlagsFollow(c, <<>>, Append(<<>>, call))
          /\ call.raises => call.kind \notin {"enable", "disable"}
          /\ then = "append" => batching /\ call.kind \in Batched
          /\ then = "join" => call.kind = "draw"
      BY <2>2, <1>1, <1>3 DEF InOneContext
    <3> QED
      BY <2>2, <3>1, <1>8, <1>9, <1>10 DEF FlagsFollow
  <2> QED
    BY <2>1, <2>2
<1>13. then # "call" => UNCHANGED <<batching, debug_callback, debug_synchronous>>
  BY <1>4 DEF flags
<1>14. c.callback \in BOOLEAN /\ c.synchronous \in BOOLEAN
  BY <1>2 DEF Core
<1> HIDE DEF call, then, c, own
<1>15. CASE then = "call"
  <2>1. /\ batching' \in BOOLEAN /\ debug_callback' \in BOOLEAN /\ debug_synchronous' \in BOOLEAN
        /\ batching' <=> ~(debug_callback' /\ debug_synchronous')
        /\ debug_callback' <=> Turned(debug_callback, call, "callback", "quiet")
        /\ debug_synchronous' <=> Turned(debug_synchronous, call, "enable", "disable")
    BY <1>1, <1>3, <1>4, <1>7, <1>15, Notes
  <2>2. /\ debug_callback' <=> Turned(c.callback, call, "callback", "quiet")
        /\ debug_synchronous' <=> Turned(c.synchronous, call, "enable", "disable")
    BY <2>1, <1>12, <1>15 DEF Turned
  <2>3. calling'[t] = own
    BY <1>4, <1>5, <1>15
  <2>4. Alone(c, <<call>>, issued[t])
    BY <1>3, <1>8, <1>15
  <2>5. InOneContext(t)'
    BY <2>1, <2>2, <2>3, <2>4, <1>6, <1>8, <1>11 DEF InOneContext, FlagsFollow
  <2> QED
    BY <2>1, <2>5, <1>2, <1>11 DEF OneContextIInv
<1>16. CASE then = "join"
  <2>1. call.kind = "draw"
    BY <1>12, <1>16
  <2>2. calling'[t] = own
    BY <1>4, <1>5, <1>16
  <2>3. Alone(c, <<call>>, issued[t])
    BY <1>3, <1>8, <1>16
  <2>4. /\ debug_callback <=> Turned(c.callback, call, "callback", "quiet")
        /\ debug_synchronous <=> Turned(c.synchronous, call, "enable", "disable")
    BY <2>1, <1>12, <1>16 DEF Turned
  <2>5. InOneContext(t)'
    BY <2>2, <2>3, <2>4, <1>6, <1>8, <1>11, <1>12, <1>13, <1>16 DEF InOneContext, FlagsFollow
  <2> QED
    BY <2>5, <1>1, <1>2, <1>11, <1>13, <1>16 DEF OneContextIInv
<1>17. CASE then = "append"
  <2>1. call.kind \notin {"callback", "quiet"}
    BY <1>12, <1>17 DEF Batched
  <2>2. calling'[t] = InProgram /\ batch'[t] = <<call>>
    BY <1>4, <1>5, <1>17
  <2>3. Alone(c, <<call>>, 0)
    BY <1>8, <1>12, <1>17 DEF Turned
  <2>4. /\ debug_callback <=> Turned(c.callback, call, "callback", "quiet")
        /\ debug_synchronous <=> Turned(c.synchronous, call, "enable", "disable")
    BY <2>1, <1>12, <1>17 DEF Turned
  <2>5. InOneContext(t)'
    BY <2>2, <2>3, <2>4, <1>8, <1>11, <1>12, <1>13, <1>17 DEF InOneContext, FlagsFollow
  <2> QED
    BY <2>5, <1>1, <1>2, <1>11, <1>13, <1>17 DEF OneContextIInv
<1>18. CASE then = "program"
  <2>1. calling'[t] = InProgram /\ batch'[t] = <<>>
    BY <1>3, <1>4, <1>5, <1>18
  <2>2. InOneContext(t)'
    BY <2>1, <1>9, <1>11, <1>12, <1>13, <1>18 DEF InOneContext, FlagsFollow
  <2> QED
    BY <2>2, <1>1, <1>2, <1>11, <1>13, <1>18 DEF OneContextIInv
<1> QED
  BY <1>3, <1>15, <1>16, <1>17, <1>18 DEF then

LEMMA InitFollows ==
  ASSUME OneContext, CallsInit
  PROVE  OneContextIInv
<1>1. context \in [Callers -> CallContexts] /\ \A t, u \in Callers : context[t] = context[u] => t = u
  BY DEF CallsInit
<1>2. \A t, u \in Callers : t = u
  BY <1>1 DEF OneContext
<1>3. core \in [CallContexts -> Core] /\ \A c \in CallContexts : core[c] = [callback |-> FALSE, synchronous |-> FALSE]
  BY DEF CallsInit, Core
<1>4. batching = TRUE /\ debug_callback = FALSE /\ debug_synchronous = FALSE
  BY DEF CallsInit
<1>5. ASSUME NEW t \in Callers
      PROVE  InOneContext(t)
  <2>1. calling[t] = InProgram /\ batch[t] = <<>>
    BY DEF CallsInit
  <2> DEFINE c == core[context[t]]
  <2>2. c \in Core /\ c.callback = FALSE /\ c.synchronous = FALSE
    BY <1>1, <1>3
  <2> HIDE DEF c
  <2>3. /\ ~HasCallback(c, <<>>, Len(<<>>) + 1) /\ ~Synchronous(c, <<>>, Len(<<>>) + 1)
        /\ Alone(c, <<>>, 0)
    BY <2>2, NoEffect
  <2> QED
    BY <2>1, <2>3, <1>4 DEF InOneContext, FlagsFollow, c
<1> QED
  BY <1>2, <1>3, <1>4, <1>5 DEF OneContextIInv, Core

LEMMA NextFollows ==
  ASSUME OneContext, CallsAssumption, CallsIInv, OneContextIInv, [CallsNext]_callsVars, UNCHANGED context
  PROVE  OneContextIInv'
<1>2. CASE CallsNext
  <2>1. PICK t \in Callers :
          \/ \E kind \in Kinds, raises \in BOOLEAN, to \in CallContexts :
                /\ Issue(t, kind, raises, to)
                /\ raises => kind \in {"value", "data", "large", "draw", "get"}
          \/ Proceed(t)
    BY <1>2 DEF CallsNext
  <2>2. CASE \E kind \in Kinds, raises \in BOOLEAN, to \in CallContexts :
                /\ Issue(t, kind, raises, to)
                /\ raises => kind \in {"value", "data", "large", "draw", "get"}
    BY <2>2, IssueFollows
  <2>3. CASE RunRecord(t)
    BY <2>3, RunFollows
  <2>4. CASE Return(t)
    <3>1. PICK place \in {"fetch", "after"} : calling' = [calling EXCEPT ![t].at = place]
      BY <2>4 DEF Return
    <3> QED
      BY <2>4, <3>1, MoveFollows DEF Return
  <2>5. CASE Fetch(t)
    <3>1. PICK place \in {"fetch", "after"} : calling' = [calling EXCEPT ![t].at = place]
      BY <2>5 DEF Fetch
    <3> QED
      BY <2>5, <3>1, MoveFollows DEF Fetch
  <2>6. CASE After(t)
    BY <2>6, AfterFollows
  <2> QED
    BY <2>1, <2>2, <2>3, <2>4, <2>5, <2>6 DEF Proceed
<1>3. CASE UNCHANGED callsVars
  BY <1>3 DEF callsVars, flags, OneContextIInv, InOneContext, FlagsFollow
<1> QED
  BY <1>2, <1>3

(* Calls run in the order a thread's program made them, each under the     *)
(* context current then; messages come in the order they were raised,      *)
(* before the call returns; and while a program has used one context,      *)
(* whose output is synchronous, within the call that raised them.          *)
THEOREM BatchesAreSound ==
  ASSUME CallsAssumption
  PROVE  CallsSpec => []BatchesSound
<1>1. CallsIInv /\ (OneContext => OneContextIInv) => (OneContext => SynchronousInCall)
  <2> SUFFICES ASSUME CallsIInv, OneContext, OneContextIInv, NEW t \in Callers,
                      calling[t].at = "unix", calling[t].todo # <<>>, Head(calling[t].todo).raises,
                      core[context[t]].callback, core[context[t]].synchronous
               PROVE  Head(calling[t].todo).n = issued[t]
    BY DEF SynchronousInCall
  <2> DEFINE s == calling[t].todo
             c == core[context[t]]
  <2>1. /\ s \in Seq(CallRecord) /\ calling[t] # InProgram /\ Len(ran[t]) \in Nat /\ c \in Core
        /\ InHand(t) /\ InOneContext(t)
    BY CallsTyped DEF CallsIInv, OneContextIInv, CallsTypeOK, Core
  <2>2. 1 \in DOMAIN s /\ Head(s) = s[1] /\ s[1].n = Len(ran[t]) + 1
    BY <2>1 DEF InHand, Follow
  <2>3. Alone(c, s, 0) \/ Alone(c, s, issued[t])
    BY <2>1 DEF InOneContext
  <2> HIDE DEF s, c
  <2>4. HasCallback(c, s, 1) /\ Synchronous(c, s, 1)
    BY <2>1, OnStart DEF HasCallback, Synchronous, Core, c
  <2>5. s[1].n = 0 \/ s[1].n = issued[t]
    BY <2>2, <2>3, <2>4 DEF Alone, s
  <2>6. s[1].n # 0
    <3> DEFINE l == Len(ran[t])
    <3> HIDE DEF l
    <3>1. l \in Nat
      BY <2>1 DEF l
    <3>2. l + 1 # 0
      BY <3>1
    <3> QED
      BY <2>2, <3>2 DEF l
  <2> QED
    BY <2>2, <2>5, <2>6 DEF s
<1>2. CallsInit => (OneContext => OneContextIInv)
  BY InitFollows
<1>3. CallsIInv /\ (OneContext => OneContextIInv) /\ [CallsNext]_callsVars => (OneContext => OneContextIInv)'
  BY OneContextStays, NextFollows DEF CallsIInv
<1>4. CallsRunInOrder /\ MessagesInOrder /\ (OneContext => SynchronousInCall) => BatchesSound
  BY DEF BatchesSound
<1> QED
  BY <1>1, <1>2, <1>3, <1>4, CallsInvariant, CallsStayInOrder, MessagesStayInOrder, PTL DEF CallsSpec
=============================================================================

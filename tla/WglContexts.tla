------------------------------ MODULE WglContexts ------------------------------
(***************************************************************************)
(* Contexts, windows, pbuffers and swaps of the Wine module: the PE side   *)
(* (wine/pe/winemetalgl.c), its unix side under wgl_lock                   *)
(* (wine/unix/unix_wgl.c), and the core's surfaces, which live as long as  *)
(* the unix side or a context's binding refers to them (core/driver.mm).   *)
(*                                                                         *)
(* A unix call is one step. What the PE side does between its unix calls   *)
(* (windows that are gone, a window's placement) is steps of its own, and  *)
(* so is a swap's presenting, which comes after the lock is released.      *)
(* Contexts are numbered as they are made; a handle is a slot of the       *)
(* table, taken again once its context is deleted. Window handles are not  *)
(* taken again. A window's surface is named after the window, a pbuffer's  *)
(* is numbered: slots of pbuffers are taken again.                         *)
(***************************************************************************)
EXTENDS Naturals, FiniteSets

CONSTANTS
    Threads,
    Windows,
    Slots,       \* handles of contexts: 1, 2, ...
    MaxMade,     \* contexts and pbuffers made in all
    CheckEvery,  \* swaps from one look for destroyed windows to the next
    ForgetMost   \* windows one look forgets

\* No handle is NULL.
WglAssumption ==
    /\ Slots \subseteq Nat \ {0}
    /\ MaxMade \in Nat /\ CheckEvery \in Nat \ {0} /\ ForgetMost \in Nat

VARIABLES
    alive,      \* windows that exist
    tracked,    \* windows[] of the PE side
    swaps,      \* window_checks
    doing,      \* what each thread is in the middle of
    state,      \* thread_state: the current context and DCs, as the PE side has them
    currentOf,  \* the unix side's thread-local current_context, current_object, current_draw, ...
    contexts,   \* the unix side's table: slot -> context, or 0
    owner,      \* context->thread
    bound,      \* in the core: the surfaces each context holds
    made,       \* contexts made so far
    window,     \* the unix side's windows: "none", "format" (one was set) or "surface"
    pbuffer     \* the pbuffer of the one slot, or 0
peVars == <<alive, tracked, swaps, doing, state>>
unixVars == <<currentOf, contexts, owner, bound, made, window, pbuffer>>
contextsVars == <<peVars, unixVars>>

Idle == [op |-> "idle"]
NoContext == 0
NoSurface == [of |-> "none"]
NobodyCurrent == [slot |-> 0, context |-> NoContext, draw |-> NoSurface, read |-> NoSurface]

OfWindow(h) == [of |-> "window", h |-> h]
OfPbuffer(p) == [of |-> "pbuffer", p |-> p]
Dcs == {OfWindow(h) : h \in Windows} \cup {OfPbuffer(p) : p \in 1..pbuffer.made}

ContextIds == 1..MaxMade

-----------------------------------------------------------------------------
(* The core's surfaces are reference counted. *)

Owned == {OfWindow(h) : h \in {g \in Windows : window[g] = "surface"}}
            \cup (IF pbuffer.now # 0 THEN {OfPbuffer(pbuffer.now)} ELSE {})
Held == (UNION {{bound[c].draw, bound[c].read} : c \in ContextIds}) \ {NoSurface}
Live == Owned \cup Held
Unbound == [draw |-> NoSurface, read |-> NoSurface]

ContextsInit ==
    /\ alive = Windows
    /\ tracked = {}
    /\ swaps = 0
    /\ doing = [t \in Threads |-> Idle]
    /\ state = [t \in Threads |-> 0]
    /\ currentOf = [t \in Threads |-> NobodyCurrent]
    /\ contexts = [s \in Slots |-> NoContext]
    /\ owner = [c \in ContextIds |-> {}]
    /\ bound = [c \in ContextIds |-> Unbound]
    /\ made = 0
    /\ window = [h \in Windows |-> "none"]
    /\ pbuffer = [now |-> 0, made |-> 0]

-----------------------------------------------------------------------------
(* Windows and pbuffers. *)

\* A swap of a surface the thread does not have current keeps no reference to
\* it: the program must not destroy the window meanwhile.
Unguarded(t, h) ==
    /\ doing[t].op = "swap" /\ doing[t].dc = OfWindow(h)
    /\ currentOf[t].draw # OfWindow(h)

DestroyWindow(h) ==
    /\ h \in alive
    /\ \A t \in Threads : ~Unguarded(t, h)
    /\ alive' = alive \ {h}
    /\ UNCHANGED <<tracked, swaps, doing, state, unixVars>>

\* wglSetPixelFormat. Which format it is tells nothing here: a window keeps
\* its format, but for wglSetPixelFormatWINE before it has a drawable.
SetPixelFormat(t, h) ==
    /\ doing[t] = Idle /\ h \in alive /\ window[h] = "none"
    /\ window' = [window EXCEPT ![h] = "format"]
    /\ UNCHANGED <<peVars, currentOf, contexts, owner, bound, made, pbuffer>>

CreatePbuffer(t) ==
    /\ doing[t] = Idle /\ pbuffer.now = 0 /\ made + pbuffer.made < MaxMade
    /\ pbuffer' = [now |-> pbuffer.made + 1, made |-> pbuffer.made + 1]
    /\ UNCHANGED <<peVars, currentOf, contexts, owner, bound, made, window>>

DestroyPbuffer(t) ==
    /\ doing[t] = Idle /\ pbuffer.now # 0
    /\ pbuffer' = [pbuffer EXCEPT !.now = 0]
    /\ UNCHANGED <<peVars, currentOf, contexts, owner, bound, made, window>>

-----------------------------------------------------------------------------
(* Contexts. *)

\* wglCreateContext(AttribsARB), on the DC of a window: the first free slot.
CreateContext(t, h) ==
    LET free == {s \in Slots : contexts[s] = NoContext}
    IN  /\ doing[t] = Idle /\ h \in alive /\ window[h] # "none"
        /\ made + pbuffer.made < MaxMade /\ free # {}
        /\ made' = made + 1
        /\ contexts' = [contexts EXCEPT ![CHOOSE s \in free : \A r \in free : s <= r] = made + 1]
        /\ UNCHANGED <<peVars, currentOf, owner, bound, window, pbuffer>>

\* Mutant: a context another thread has current is deleted.
DeleteContextAnywhere(t, s) ==
    LET c == contexts[s] IN
    /\ doing[t] = Idle /\ c # NoContext
    /\ IF currentOf[t].slot = s
       THEN /\ currentOf' = [currentOf EXCEPT ![t] = NobodyCurrent]
            /\ state' = [state EXCEPT ![t] = 0]
       ELSE UNCHANGED <<currentOf, state>>
    /\ contexts' = [contexts EXCEPT ![s] = NoContext]
    /\ bound' = [bound EXCEPT ![c] = Unbound]
    /\ UNCHANGED <<alive, tracked, swaps, doing, owner, made, window, pbuffer>>

\* wglDeleteContext: not while another thread has it current.
DeleteContext(t, s) ==
    LET c == contexts[s] IN
    /\ doing[t] = Idle /\ c # NoContext
    /\ owner[c] \subseteq {t}
    /\ IF currentOf[t].slot = s
       THEN /\ currentOf' = [currentOf EXCEPT ![t] = NobodyCurrent]
            /\ state' = [state EXCEPT ![t] = 0]
       ELSE UNCHANGED <<currentOf, state>>
    /\ contexts' = [contexts EXCEPT ![s] = NoContext]
    /\ bound' = [bound EXCEPT ![c] = Unbound]
    /\ UNCHANGED <<alive, tracked, swaps, doing, owner, made, window, pbuffer>>

\* A thread ends: its thread-local state goes, the core's too; the context
\* it had current keeps its owner, which a later thread may be taken for.
ThreadEnds(t) ==
    /\ doing[t] = Idle /\ currentOf[t].context # NoContext
    /\ currentOf' = [currentOf EXCEPT ![t] = NobodyCurrent]
    /\ state' = [state EXCEPT ![t] = 0]
    /\ \/ UNCHANGED owner
       \/ owner' = [owner EXCEPT ![currentOf[t].context] = {"ended"}]
    /\ UNCHANGED <<alive, tracked, swaps, doing, contexts, bound, made, window, pbuffer>>

-----------------------------------------------------------------------------
(* wglMakeCurrent and wglSwapBuffers. *)

\* forget_destroyed_windows takes some of them out of the table ...
Some(bases) == {g \in SUBSET bases : Cardinality(g) =
                   IF Cardinality(bases) < ForgetMost THEN Cardinality(bases) ELSE ForgetMost}

BeginMakeCurrent(t, s, draw, read) ==
    /\ doing[t] = Idle
    /\ \E gone \in Some(tracked \ alive) :
          /\ tracked' = tracked \ gone
          /\ doing' = [doing EXCEPT ![t] =
                [op |-> "make", slot |-> s, dc |-> draw, read |-> read, forget |-> gone, at |-> "place"]]
    /\ UNCHANGED <<alive, swaps, state, unixVars>>

BeginSwap(t, dc) ==
    /\ doing[t] = Idle
    /\ swaps' = (swaps + 1) % CheckEvery
    /\ \E gone \in IF swaps' = 0 THEN Some(tracked \ alive) ELSE {{}} :
          /\ tracked' = tracked \ gone
          /\ doing' = [doing EXCEPT ![t] =
                [op |-> "swap", dc |-> dc, forget |-> gone, at |-> "place"]]
    /\ UNCHANGED <<alive, state, unixVars>>

\* ... and has the unix side forget each.
ForgetWindow(t, h) ==
    /\ doing[t].op \in {"make", "swap"} /\ h \in doing[t].forget
    /\ doing' = [doing EXCEPT ![t].forget = @ \ {h}]
    /\ window' = [window EXCEPT ![h] = "none"]
    /\ UNCHANGED <<alive, tracked, swaps, state, currentOf, contexts, owner, bound, made, pbuffer>>

\* window_placement: WindowFromDC, and the window is tracked.
Windowed(dc) == dc.of = "window" /\ dc.h \in alive
PlaceWindow(t) ==
    /\ doing[t].op \in {"make", "swap"} /\ doing[t].forget = {} /\ doing[t].at = "place"
    /\ LET d == doing[t]
           dcs == IF d.op = "make" THEN {d.dc, d.read} ELSE {d.dc}
           Known(dc) == IF dc.of = "window" /\ ~Windowed(dc) THEN NoSurface ELSE dc
       IN  /\ tracked' = tracked \cup {dc.h : dc \in {e \in dcs : Windowed(e)}}
           /\ doing' = [doing EXCEPT ![t] =
                 IF d.op = "make"
                 THEN [d EXCEPT !.at = "unix", !.dc = Known(d.dc), !.read = Known(d.read)]
                 ELSE [d EXCEPT !.at = "unix", !.dc = Known(d.dc)]]
    /\ UNCHANGED <<alive, swaps, state, unixVars>>

\* dc_surface: a window's surface is made when it has a format.
HasSurface(dc) ==
    \/ dc.of = "window" /\ window[dc.h] # "none"
    \/ dc.of = "pbuffer" /\ pbuffer.now = dc.p
MakeSurfaces(dcs) ==
    window' = [h \in Windows |-> IF OfWindow(h) \in dcs /\ window[h] # "none" THEN "surface" ELSE window[h]]

\* The unix side's make-current: refused, and nothing changes but a surface
\* made for the draw DC; or the thread's, the core's and the PE side's current
\* context change together.
MakeCurrent(t) ==
    /\ doing[t].op = "make" /\ doing[t].at = "unix"
    /\ doing' = [doing EXCEPT ![t] = Idle]
    /\ LET s == doing[t].slot
           c == contexts[s]
           draw == doing[t].dc
           read == doing[t].read
           before == currentOf[t].context
       IN  IF c = NoContext \/ ~(owner[c] \subseteq {t})
           THEN UNCHANGED <<state, unixVars>>
           ELSE IF ~(HasSurface(draw) /\ HasSurface(read))
           THEN /\ MakeSurfaces({draw})
                /\ UNCHANGED <<state, currentOf, contexts, owner, bound, made, pbuffer>>
           ELSE /\ MakeSurfaces({draw, read})
                /\ currentOf' = [currentOf EXCEPT ![t] = [slot |-> s, context |-> c, draw |-> draw, read |-> read]]
                /\ owner' = [d \in ContextIds |->
                      IF d = c THEN {t} ELSE IF d = before THEN {} ELSE owner[d]]
                /\ bound' = [bound EXCEPT ![c] = [draw |-> draw, read |-> read]]
                /\ state' = [state EXCEPT ![t] = s]
                /\ UNCHANGED <<contexts, made, pbuffer>>
    /\ UNCHANGED <<alive, tracked, swaps>>

\* wglMakeCurrent(NULL).
ReleaseCurrent(t) ==
    /\ doing[t] = Idle /\ state[t] # 0
    /\ owner' = [d \in ContextIds |-> IF d = currentOf[t].context THEN {} ELSE owner[d]]
    /\ currentOf' = [currentOf EXCEPT ![t] = NobodyCurrent]
    /\ state' = [state EXCEPT ![t] = 0]
    /\ UNCHANGED <<alive, tracked, swaps, doing, contexts, bound, made, window, pbuffer>>

\* The unix side's swap, up to the unlock: what has no surface is not
\* presented. The surface follows the window.
FindSurface(t) ==
    /\ doing[t].op = "swap" /\ doing[t].at = "unix"
    /\ LET d == doing[t]
           shown == d.dc.of = "window" /\ window[d.dc.h] = "surface"
       IN  doing' = [doing EXCEPT ![t] = IF shown THEN [d EXCEPT !.at = "present"] ELSE Idle]
    /\ UNCHANGED <<alive, tracked, swaps, state, unixVars>>

\* surface_swap, without wgl_lock.
Present(t) ==
    /\ doing[t].op = "swap" /\ doing[t].at = "present"
    /\ doing' = [doing EXCEPT ![t] = Idle]
    /\ UNCHANGED <<alive, tracked, swaps, state, unixVars>>

Continue(t) ==
    \/ \E h \in Windows : ForgetWindow(t, h)
    \/ PlaceWindow(t) \/ MakeCurrent(t) \/ FindSurface(t) \/ Present(t)

ContextsNext ==
    \/ \E h \in Windows : DestroyWindow(h)
    \/ \E t \in Threads :
        \/ \E h \in Windows : SetPixelFormat(t, h) \/ CreateContext(t, h)
        \/ \E s \in Slots : DeleteContext(t, s)
        \/ \E s \in Slots, draw, read \in Dcs : BeginMakeCurrent(t, s, draw, read)
        \/ \E dc \in Dcs : BeginSwap(t, dc)
        \/ CreatePbuffer(t) \/ DestroyPbuffer(t)
        \/ ReleaseCurrent(t) \/ ThreadEnds(t)
        \/ Continue(t)

\* A call that began goes on to its end; some thread goes on swapping.
ContextsFairness ==
    /\ \A t \in Threads : WF_contextsVars(Continue(t))
    /\ \E t \in Threads : WF_contextsVars(\E dc \in Dcs : BeginSwap(t, dc))

ContextsSpec == ContextsInit /\ [][ContextsNext]_contextsVars /\ ContextsFairness

-----------------------------------------------------------------------------
Surfaces == {OfWindow(h) : h \in Windows} \cup {OfPbuffer(p) : p \in ContextIds} \cup {NoSurface}
Current == [slot : Slots \cup {0}, context : ContextIds \cup {NoContext}, draw : Surfaces, read : Surfaces]
Making == [op : {"make"}, slot : Slots, dc : Surfaces, read : Surfaces,
           forget : SUBSET Windows, at : {"place", "unix"}]
Swapping == [op : {"swap"}, dc : Surfaces, forget : SUBSET Windows, at : {"place", "unix", "present"}]

ContextsTypeOK ==
    /\ alive \subseteq Windows /\ tracked \subseteq Windows
    /\ doing \in [Threads -> {Idle} \cup Making \cup Swapping]
    /\ state \in [Threads -> Slots \cup {0}]
    /\ currentOf \in [Threads -> Current]
    /\ contexts \in [Slots -> ContextIds \cup {NoContext}]
    /\ owner \in [ContextIds -> SUBSET (Threads \cup {"ended"})]
    /\ bound \in [ContextIds -> [draw : Surfaces, read : Surfaces]]
    /\ made \in Nat /\ window \in [Windows -> {"none", "format", "surface"}]
    /\ pbuffer \in [now : Nat, made : Nat] /\ pbuffer.now <= pbuffer.made
    /\ made + pbuffer.made <= MaxMade

\* A context is in one slot of the table, from when it is made.
Numbered ==
    \A r, s \in Slots : contexts[s] # NoContext =>
        contexts[s] <= made /\ (contexts[r] = contexts[s] => r = s)

\* A thread without a context has no slot and no surfaces.
NobodyCurrentIsAll ==
    \A t \in Threads : IF currentOf[t].context = NoContext THEN currentOf[t] = NobodyCurrent
                       ELSE currentOf[t].slot # 0

\* Only windows that are gone are forgotten.
ForgetsGone == \A t \in Threads : doing[t] # Idle => doing[t].forget \cap alive = {}

\* A window a thread swaps, once it is found, exists or is the surface of
\* the thread's current context; one it presents has a surface until it goes.
SwapsFound ==
    \A t \in Threads : doing[t].op = "swap" /\ doing[t].at # "place" =>
        \A h \in Windows : doing[t].dc = OfWindow(h) =>
            IF h \in alive THEN doing[t].at = "present" => window[h] = "surface"
            ELSE currentOf[t].draw = doing[t].dc

\* What is presented is a window.
PresentsWindow ==
    \A t \in Threads : doing[t].op = "swap" /\ doing[t].at = "present" =>
        \E h \in Windows : doing[t].dc = OfWindow(h)

\* A context is current in one thread at most, and the thread, the context
\* and the PE side agree which (the checks of make-current and delete).
CurrentOnce ==
    \A t \in Threads :
        /\ state[t] = currentOf[t].slot
        /\ currentOf[t].context # NoContext =>
              /\ contexts[currentOf[t].slot] = currentOf[t].context
              /\ owner[currentOf[t].context] = {t}
              /\ bound[currentOf[t].context].draw = currentOf[t].draw
              /\ \A u \in Threads \ {t} : currentOf[u].context # currentOf[t].context

\* The surface a thread presents without the lock exists until it is done,
\* though other threads destroy and forget its window or delete contexts.
PresentsLive ==
    \A t \in Threads :
        doing[t].op = "swap" /\ doing[t].at = "present" => doing[t].dc \in Live

ContextsSound == CurrentOnce /\ PresentsLive

\* What every step preserves.
ContextsIInv ==
    /\ ContextsTypeOK /\ Numbered /\ ForgetsGone /\ CurrentOnce /\ NobodyCurrentIsAll
    /\ SwapsFound /\ PresentsWindow

\* The drawable of a window that is destroyed goes (winemetalgl.c:407), as
\* long as any thread swaps.
DrawableGoes == \A h \in Windows : [](h \notin alive => <>(window[h] # "surface"))
=============================================================================

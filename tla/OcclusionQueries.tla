--------------------------- MODULE OcclusionQueries ---------------------------
(***************************************************************************)
(* Occlusion queries of one context (api/query.mm) over the visibility     *)
(* slots of its command buffers (metal/command_stream.mm).  The GPU counts *)
(* the samples of draws into the slot the encoder points at; draws of the  *)
(* application count for the queries active then, draws of the layer's own *)
(* for none.  A slot belongs to one pass and one set of active queries and *)
(* holds a bounded number of samples, a command buffer has a bounded       *)
(* number of slots, and a query sums the slots it was given once their     *)
(* command buffers are complete.                                           *)
(*                                                                         *)
(* A slot's count is the set of the draws counted; a draw is the number of *)
(* its call.  The context's command buffers are committed, and run, in the *)
(* order of their serials.                                                 *)
(***************************************************************************)
EXTENDS Integers

CONSTANTS Queries, Targets,  \* query objects; GL_SAMPLES_PASSED, ...
          NoQuery,           \* no query
          NSlots,            \* kVisibilitySlots (4096 in the code)
          Cap,               \* samples a slot may count (2^31 in the code)
          DrawSizes,         \* samples a draw can cover
          MaxCalls           \* bound: API calls in a behaviour

(* A slot is left for the draws of no query, and one more. *)
QueriesAssumption ==
  /\ NoQuery \notin Queries
  /\ NSlots \in Nat \ {0, 1} /\ Cap \in Nat \ {0} /\ DrawSizes \subseteq Nat /\ MaxCalls \in Nat

VARIABLES active,   \* ContextState::activeQueries, of the occlusion targets
          query,    \* each Query
          slot,     \* Context::occlusionSlot
          epoch,    \* Context::occlusionEpoch
          stream,   \* the CommandStream
          counts,   \* what each command buffer counts in each of its slots
          done,     \* the last serial the GPU completed
          asked,    \* queries the application was told to ask for again, or waits for
          drawn,    \* history: the draws made while each query was active
          now       \* the number of API calls so far

queryVars == <<active, query, slot, epoch, stream, counts, done, asked, drawn, now>>

Calls   == 1 .. MaxCalls
Serials == 1 .. 2 * MaxCalls          \* a call opens two at most
Slots   == 0 .. NSlots - 1
Nowhere == [draws |-> {}, samples |-> 0]
Query   == [target : Targets \cup {NoQuery}, slots : SUBSET (Serials \X Slots), pending : Nat,
            final : BOOLEAN, result : SUBSET Calls]
Stream  == [serial : Nat,             \* serial_, 0 without buffer_
            last : Nat,               \* lastCommitted_
            render : BOOLEAN,         \* render_ is open
            pass : Nat,               \* passGeneration_
            passVisibility : BOOLEAN, \* passVisibility_
            wanted : BOOLEAN,         \* visibilityWanted_
            usedBefore : BOOLEAN,     \* visibilityUsedBefore_
            visibility : BOOLEAN,     \* visibility_ is not nil
            used : 0 .. NSlots,       \* visibilityUsed_
            offset : Slots]           \* the encoder's slot, 0 also while disabled

QueriesTypeOK ==
  /\ active \in [Targets -> Queries \cup {NoQuery}]
  /\ query \in [Queries -> Query]
  /\ slot \in [valid : BOOLEAN, pass : Nat, epoch : Nat, bound : Nat]
  /\ epoch \in Nat
  /\ stream \in Stream
  /\ counts \in [Serials -> [Slots -> [draws : SUBSET Calls, samples : Nat]]]
  /\ done \in Nat
  /\ asked \in SUBSET Queries /\ drawn \in [Queries -> SUBSET Calls]
  /\ now \in 0 .. MaxCalls

NewQuery == [target |-> NoQuery, slots |-> {}, pending |-> 0, final |-> FALSE, result |-> {}]

QueriesInit ==
  /\ active = [t \in Targets |-> NoQuery]
  /\ query = [q \in Queries |-> NewQuery]
  /\ slot = [valid |-> FALSE, pass |-> 0, epoch |-> 0, bound |-> 0] /\ epoch = 1
  /\ stream = [serial |-> 0, last |-> 0, render |-> FALSE, pass |-> 0,
               passVisibility |-> FALSE, wanted |-> FALSE, usedBefore |-> FALSE,
               visibility |-> FALSE, used |-> 0, offset |-> 0]
  /\ counts = [s \in Serials |-> [i \in Slots |-> Nowhere]]
  /\ done = 0 /\ asked = {} /\ drawn = [q \in Queries |-> {}] /\ now = 0

-----------------------------------------------------------------------------
(* The stream's functions, as operators from a stream to a stream. *)

Active         == {active[t] : t \in Targets} \ {NoQuery}
ActiveBut(t)   == {active[u] : u \in Targets \ {t}} \ {NoQuery}
Committed(n)   == n <= stream.last
HasCompleted(n) == n <= done

(* The serial of a command buffer opened now: after all it has had. *)
Opened(s) == IF s.serial # 0 THEN s ELSE [s EXCEPT !.serial = s.last + 1]

EndPassOf(s) == [s EXCEPT !.render = FALSE]

(* flush(): the next command buffer gets a visibility buffer of its own. *)
Flushed(s) ==
  IF s.serial = 0 THEN EndPassOf(s)
  ELSE [EndPassOf(s) EXCEPT !.last = s.serial, !.serial = 0, !.visibility = FALSE]

(* startRender(): a pass carries the visibility buffer once the context    *)
(* uses queries, and starts at slot 0.                                     *)
StartPass(s) ==
  LET carries == s.wanted \/ s.usedBefore IN
  [Opened(s) EXCEPT !.render = TRUE, !.pass = @ + 1, !.passVisibility = carries,
     !.visibility = @ \/ carries, !.used = IF carries /\ ~s.visibility THEN 1 ELSE @,
     !.offset = 0]

(* setVisibilityWanted(). *)
Want(s, wanted) ==
  [s EXCEPT !.wanted = wanted, !.usedBefore = @ \/ wanted,
            !.render = @ /\ (wanted => s.passVisibility)]

(* visibilitySlotAvailable(), and whether a slot can be had in the pass. *)
SlotAvailable(s) == ~s.visibility \/ s.used < NSlots
CanAllocate(s)   == s.render /\ s.passVisibility /\ s.used < NSlots

(* queriesPrepareVisibility(). *)
Prepared(s) == IF Active # {} /\ ~SlotAvailable(s) THEN Flushed(s) ELSE s

(* The pass of a draw: the one in progress, or a new one. *)
PassFor(s, fresh) == IF fresh \/ ~s.render THEN StartPass(s) ELSE s

(* A new pass counts at slot 0 from nothing; draw n of the size given then *)
(* counts where the encoder points.                                        *)
Counted(c, s, starts, n, size) ==
  LET begun == IF starts THEN [c EXCEPT ![s.serial][0] = Nowhere] ELSE c IN
  IF ~s.passVisibility THEN begun
  ELSE [begun EXCEPT ![s.serial][s.offset] =
          [draws |-> @.draws \cup {n}, samples |-> @.samples + size]]

-----------------------------------------------------------------------------
Call == now < MaxCalls /\ asked = {} /\ now' = now + 1

(* Mutant: the slot of an earlier pass is taken to be current. *)
SlotCurrentInAnyPass(s) == slot.valid /\ slot.epoch = epoch

(* Whether the encoder counts for the queries active now. *)
SlotCurrent(s) == slot.valid /\ slot.pass = s.pass /\ slot.epoch = epoch

SlotFits(size) == slot.bound + size < Cap

(* A draw of the application, in the pass in progress or a new one: the    *)
(* encoder is pointed at a slot for the active queries by                  *)
(* queriesBeforeDraw().                                                    *)
Draw(size, fresh) ==
  LET ready  == Prepared(stream)
      pass   == PassFor(ready, fresh)
      grows  == SlotCurrent(pass) /\ SlotFits(size)
      takes  == Active # {} /\ ~grows /\ CanAllocate(pass)
      points == IF takes THEN [pass EXCEPT !.offset = pass.used, !.used = @ + 1] ELSE pass IN
  /\ Call
  /\ stream' = points
  /\ counts' = Counted(counts, points, pass.pass # ready.pass, now', size)
  /\ slot' = IF Active = {} THEN slot
             ELSE IF grows THEN [slot EXCEPT !.bound = @ + size]
             ELSE IF takes THEN [valid |-> TRUE, pass |-> pass.pass, epoch |-> epoch,
                                 bound |-> size]
             ELSE slot
  /\ query' = [q \in Queries |->
       IF takes /\ q \in Active
         THEN [query[q] EXCEPT !.slots = @ \cup {<<points.serial, points.offset>>},
                               !.pending = IF points.serial > @ THEN points.serial ELSE @]
         ELSE query[q]]
  /\ drawn' = [q \in Queries |-> IF q \in Active THEN drawn[q] \cup {now'} ELSE drawn[q]]
  /\ UNCHANGED <<active, epoch, done, asked>>

(* queriesSuspendVisibility(): whether there is counting to suspend. *)
Suspends(s) == slot.valid /\ slot.pass = s.pass

(* A draw of the layer's own (a clear, a blit, a texture copy). *)
InternalDraw(fresh) ==
  LET pass   == PassFor(stream, fresh)
      points == IF Suspends(pass) THEN [pass EXCEPT !.offset = 0] ELSE pass IN
  /\ Call
  /\ stream' = points
  /\ counts' = Counted(counts, points, pass.pass # stream.pass, now', 1)
  /\ slot' = [slot EXCEPT !.valid = @ /\ ~Suspends(pass)]
  /\ UNCHANGED <<active, query, epoch, done, asked, drawn>>

(* glBeginQuery. *)
Begin(q, t) ==
  /\ Call
  /\ active[t] = NoQuery /\ q \notin Active /\ query[q].target \in {NoQuery, t}
  /\ active' = [active EXCEPT ![t] = q]
  /\ query' = [query EXCEPT ![q] = [NewQuery EXCEPT !.target = t]]
  /\ epoch' = epoch + 1
  /\ stream' = Want(stream, TRUE)
  /\ drawn' = [drawn EXCEPT ![q] = {}]
  /\ UNCHANGED <<slot, counts, done, asked>>

(* endVisibility(). *)
EndVisibility(t) ==
  /\ epoch' = epoch + 1
  /\ slot' = [slot EXCEPT !.valid = FALSE]
  /\ stream' = Want(IF stream.render /\ Suspends(stream) THEN [stream EXCEPT !.offset = 0]
                    ELSE stream, ActiveBut(t) # {})

(* glEndQuery: a query no draw counted for is final. *)
EndQuery(t) ==
  /\ Call
  /\ active[t] # NoQuery
  /\ active' = [active EXCEPT ![t] = NoQuery]
  /\ EndVisibility(t)
  /\ query' = [query EXCEPT ![active[t]].final = @ \/ query[active[t]].slots = {}]
  /\ UNCHANGED <<counts, done, asked, drawn>>

(* glDeleteQueries, of an active query; its name may be used again. *)
Delete(q, t) ==
  /\ Call
  /\ active[t] = q
  /\ active' = [active EXCEPT ![t] = NoQuery]
  /\ EndVisibility(t)
  /\ query' = [query EXCEPT ![q] = NewQuery] /\ drawn' = [drawn EXCEPT ![q] = {}]
  /\ UNCHANGED <<counts, done, asked>>

(* Commits, and passes that end: for a blit, a dispatch, a barrier. *)
CommitStream ==
  /\ Call
  /\ stream' = Flushed(stream)
  /\ UNCHANGED <<active, query, slot, epoch, counts, done, asked, drawn>>

EndPass ==
  /\ Call
  /\ stream.render /\ stream' = EndPassOf(stream)
  /\ UNCHANGED <<active, query, slot, epoch, counts, done, asked, drawn>>

-----------------------------------------------------------------------------
Ready(q) == HasCompleted(query[q].pending)

(* finalize(): the sum of the slots, which hold nothing until the GPU has  *)
(* run their command buffer.                                               *)
Sum(q) == UNION {IF HasCompleted(k[1]) THEN counts[k[1]][k[2]].draws ELSE {} : k \in query[q].slots}

Final(q) == [query EXCEPT ![q] = [@ EXCEPT !.final = TRUE, !.slots = {}, !.result = Sum(q)]]

(* The query's command buffers are submitted. *)
Submit(q) ==
  IF Committed(query[q].pending) THEN UNCHANGED stream ELSE stream' = Flushed(stream)

(* glGetQueryObject of the result or its availability: not final yet, it   *)
(* submits the work.  The application asks again, or the call waits.       *)
Ask(q) ==
  /\ now < MaxCalls /\ asked = {} /\ now' = now + 1
  /\ query[q].target # NoQuery /\ q \notin Active /\ ~query[q].final
  /\ IF Ready(q) THEN query' = Final(q) /\ UNCHANGED <<stream, asked>>
     ELSE Submit(q) /\ asked' = {q} /\ UNCHANGED query
  /\ UNCHANGED <<active, slot, epoch, counts, done, drawn>>

(* What was asked for is there. *)
Answer(q) ==
  /\ q \in asked /\ Ready(q)
  /\ query' = Final(q)
  /\ asked' = {}
  /\ UNCHANGED <<active, slot, epoch, stream, counts, done, drawn, now>>

(* The application that polled goes on with other calls instead. *)
GiveUp(q) ==
  /\ q \in asked /\ asked' = {}
  /\ UNCHANGED <<active, query, slot, epoch, stream, counts, done, drawn, now>>

(* The GPU completes the next command buffer. *)
CompleteNext ==
  /\ done < stream.last
  /\ done' = done + 1
  /\ UNCHANGED <<active, query, slot, epoch, stream, counts, asked, drawn, now>>

Done == now = MaxCalls /\ asked = {} /\ done = stream.last /\ UNCHANGED queryVars

QueriesNext ==
  \/ \E size \in DrawSizes, fresh \in BOOLEAN : Draw(size, fresh)
  \/ \E fresh \in BOOLEAN : InternalDraw(fresh)
  \/ \E q \in Queries : \/ \E t \in Targets : Begin(q, t) \/ Delete(q, t)
                        \/ Ask(q) \/ Answer(q) \/ GiveUp(q)
  \/ \E t \in Targets : EndQuery(t)
  \/ CommitStream \/ EndPass \/ CompleteNext
  \/ Done

QueriesSpec == QueriesInit /\ [][QueriesNext]_queryVars

(* The GPU runs what was committed; who asks asks again. *)
QueriesFairness == WF_queryVars(CompleteNext) /\ \A q \in Queries : WF_queryVars(Answer(q))

QueriesFairSpec == QueriesSpec /\ QueriesFairness

-----------------------------------------------------------------------------
(* The stream: a pass is of an open command buffer, and the encoder counts *)
(* into a slot allocated in the visibility buffer, or into none.           *)
StreamFits(s) ==
  /\ s.serial \in {0, s.last + 1}
  /\ s.render => s.serial # 0 /\ (s.passVisibility => s.visibility)
  /\ s.visibility => s.serial # 0 /\ s.used # 0
  /\ s.render /\ s.offset # 0 => s.passVisibility /\ s.offset < s.used

(* The variables fit together: a query waits for the last command buffer   *)
(* it has a slot of, and the encoder counts into the slot of this pass.    *)
Fitting ==
  /\ StreamFits(stream) /\ stream.last <= now /\ done <= stream.last
  /\ \A q \in Queries : /\ query[q].pending <= stream.last + 1
                        /\ \A k \in query[q].slots : k[1] <= query[q].pending
  /\ stream.render /\ stream.offset # 0 => slot.valid /\ slot.pass = stream.pass
  /\ slot.pass <= stream.pass /\ slot.epoch <= epoch

(* A pass can count while a query is active, and counts for none otherwise.*)
Counting ==
  /\ Active # {} => stream.wanted /\ (stream.render => stream.passVisibility)
  /\ Active = {} /\ stream.render => stream.offset = 0

(* A query is active on one target; it is final once it has its result.    *)
Lives ==
  /\ \A t, u \in Targets : active[t] # NoQuery /\ active[t] = active[u] => t = u
  /\ \A q \in Queries : /\ q \in Active \cup asked => ~query[q].final
                        /\ q \in asked => q \notin Active
                        /\ ~query[q].final => query[q].result = {}

(* A slot is a query's once it is allocated in the command buffer being    *)
(* recorded, or was in one committed; until then nothing counts there.     *)
Allocated(s, n, i) ==
  i # 0 /\ (n <= s.last \/ (n = s.serial /\ s.visibility /\ i < s.used))

SlotsAllocated ==
  /\ \A q \in Queries : \A k \in query[q].slots : Allocated(stream, k[1], k[2])
  /\ \A n \in Serials, i \in Slots \ {0} : ~Allocated(stream, n, i) => counts[n][i] = Nowhere

(* The encoder counts where the active queries look, and no others.        *)
SlotIsCurrent ==
  stream.render =>
    /\ SlotCurrent(stream) => stream.offset # 0
    /\ stream.offset # 0 /\ slot.epoch = epoch =>
         \A q \in Queries : q \in Active <=> <<stream.serial, stream.offset>> \in query[q].slots
    /\ stream.offset # 0 => counts[stream.serial][stream.offset].samples <= slot.bound

(* Two sets of active queries never share a slot, so a draw counts for no  *)
(* query that was not active: each slot's draws were made while the        *)
(* queries that hold it were.                                              *)
SlotsApart ==
  \A q \in Queries : \A k \in query[q].slots : counts[k[1]][k[2]].draws \subseteq drawn[q]

(* Each draw made while a query was active is counted in a slot of its.    *)
DrawsCounted ==
  \A q \in Queries : ~query[q].final =>
    \A n \in drawn[q] : \E k \in query[q].slots : n \in counts[k[1]][k[2]].draws

(* A slot counts no more than it can hold, but for one draw that alone may *)
(* cover more: "a slot takes draws while the samples they can cover fit".  *)
NoWrap ==
  \A s \in Serials, i \in Slots \ {0} :
    LET k == counts[s][i] IN k.samples < Cap \/ \E n \in Calls : k.draws \subseteq {n}

(* A final result is of the application's draws made while the query was   *)
(* active: all of them, whatever passes, command buffers and slots they    *)
(* were in, and none of the layer's own or of others.                      *)
ResultIsDrawn ==
  \A q \in Queries \ Active : query[q].final => query[q].result = drawn[q]

(* All of the above, which a step keeps. *)
ResultExact ==
  /\ QueriesTypeOK
  /\ Fitting /\ Counting /\ Lives /\ SlotsAllocated /\ SlotIsCurrent
  /\ SlotsApart /\ DrawsCounted /\ NoWrap
  /\ ResultIsDrawn

(* "Availability must eventually become true": a query asked for becomes   *)
(* final, without another commit, unless the application turns to other    *)
(* work.                                                                   *)
AskedIsAnswered == \A q \in Queries : q \in asked ~> q \notin asked

=============================================================================

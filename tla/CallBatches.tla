------------------------------ MODULE CallBatches ------------------------------
(***************************************************************************)
(* GL calls from the PE side to the unix side (wine/pe/winemetalgl.c,      *)
(* wine/unix/unix_main.c): a thread collects calls without results in a    *)
(* batch that one unix call runs, and messages of the core's debug output  *)
(* wait on the unix side until the PE side fetches them and calls the      *)
(* program's callback.                                                     *)
(*                                                                         *)
(* A thread is in its program, in a unix call, which runs one record a     *)
(* step, or between a unix call and the return to its program, fetching    *)
(* messages. Batches and queues are a thread's own; the three flags about  *)
(* batching are the process's. Calls are numbered as a thread makes them,  *)
(* and a message has the number of its call.                               *)
(***************************************************************************)
EXTENDS Naturals, Sequences

CONSTANTS
    Callers,     \* threads
    CallContexts,
    Kinds,       \* of calls: a subset of AllKinds
    MaxIssued,   \* calls of one thread
    BatchBytes,  \* BATCH_BYTES, in sizes of records
    MaxQueued    \* MAX_QUEUED

VARIABLES
    batching, debug_callback, debug_synchronous,  \* of the process
    calling,  \* what each thread is in the middle of
    batch,    \* its batched calls
    queue, queued, delivered,  \* its messages, on the unix side
    context,  \* its current context, on the unix side
    core,     \* each context's callback and GL_DEBUG_OUTPUT_SYNCHRONOUS
    issued,   \* calls its program made
    ran,      \* calls the core ran, in order, with the context they ran under
    raised,   \* messages of the unix call it is in
    got       \* messages its program got, in order
flags == <<batching, debug_callback, debug_synchronous>>
messages == <<queue, queued, delivered, raised>>
callsVars == <<flags, calling, batch, messages, context, core, issued, ran, got>>

AllKinds ==
    {"value",           \* wmgl_batch without data, or with data that fits
     "data", "large",   \* wmgl_batch with data: half a batch, more than one
     "draw",            \* wmgl_batch_last
     "get",             \* returns a result
     "callback", "quiet",   \* glDebugMessageCallback with and without one
     "enable", "disable",   \* of GL_DEBUG_OUTPUT_SYNCHRONOUS
     "make"}            \* wglMakeCurrent
Size(kind) == IF kind \in {"value", "draw", "enable", "disable"} THEN 1 ELSE IF kind = "data" THEN 2 ELSE BatchBytes + 1
Batched == {"value", "data", "large", "enable", "disable"}

InProgram == [at |-> "program"]
UsedBytes(t) == Len(batch[t]) + Len(SelectSeq(batch[t], LAMBDA c : c.kind = "data"))

CallsInit ==
    /\ batching = TRUE /\ debug_callback = FALSE /\ debug_synchronous = FALSE
    /\ calling = [t \in Callers |-> InProgram]
    /\ batch = [t \in Callers |-> <<>>]
    /\ queue = [t \in Callers |-> <<>>]
    /\ queued = [t \in Callers |-> 0]
    /\ delivered = [t \in Callers |-> 0]
    /\ raised = [t \in Callers |-> <<>>]
    /\ context \in {f \in [Callers -> CallContexts] : \A t, u \in Callers : f[t] = f[u] => t = u}
    /\ core = [c \in CallContexts |-> [callback |-> FALSE, synchronous |-> FALSE]]
    /\ issued = [t \in Callers |-> 0]
    /\ ran = [t \in Callers |-> <<>>]
    /\ got = [t \in Callers |-> <<>>]

-----------------------------------------------------------------------------
\* Mutant: calls are batched whatever the debug output.
NoteCallBatching(kind) ==
    /\ debug_callback' = CASE kind = "callback" -> TRUE [] kind = "quiet" -> FALSE [] OTHER -> debug_callback
    /\ debug_synchronous' = CASE kind = "enable" -> TRUE [] kind = "disable" -> FALSE [] OTHER -> debug_synchronous
    /\ batching' = TRUE

\* note_call.
NoteCall(kind) ==
    /\ debug_callback' = CASE kind = "callback" -> TRUE [] kind = "quiet" -> FALSE [] OTHER -> debug_callback
    /\ debug_synchronous' = CASE kind = "enable" -> TRUE [] kind = "disable" -> FALSE [] OTHER -> debug_synchronous
    /\ batching' = ~(debug_callback' /\ debug_synchronous')

\* A call of the program's. What goes into a full batch has it run first
\* ("append"); what cannot be batched has it run, and then runs ("call").
Issue(t, kind, raises, to) ==
    LET call == [n |-> issued[t] + 1, kind |-> kind, raises |-> raises,
                 under |-> context[t], to |-> to]
        fits == UsedBytes(t) + Size(kind) <= BatchBytes
        joins == kind = "draw" /\ batching /\ batch[t] # <<>>
        collected == kind \in Batched /\ batching' /\ Size(kind) <= BatchBytes
    IN  /\ calling[t] = InProgram /\ issued[t] < MaxIssued
        /\ issued' = [issued EXCEPT ![t] = @ + 1]
        /\ IF kind \in Batched THEN NoteCall(kind) ELSE UNCHANGED flags
        /\ CASE collected /\ fits ->
                  /\ batch' = [batch EXCEPT ![t] = Append(@, call)]
                  /\ UNCHANGED calling
             [] joins /\ fits ->
                  /\ batch' = [batch EXCEPT ![t] = <<>>]
                  /\ calling' = [calling EXCEPT ![t] =
                        [at |-> "unix", todo |-> Append(batch[t], call), then |-> "program", call |-> call]]
             [] OTHER ->
                  /\ batch' = [batch EXCEPT ![t] = <<>>]
                  /\ calling' = [calling EXCEPT ![t] =
                        [at |-> "unix", todo |-> batch[t], call |-> call, then |->
                            IF collected THEN "append" ELSE IF joins THEN "join" ELSE "call"]]
        /\ UNCHANGED <<messages, context, core, ran, got>>

-----------------------------------------------------------------------------
(* The unix side. *)

\* queue_message: the counters start again once everything was fetched, and
\* what comes when the queue is full is lost.
QueueMessage(t, n) ==
    LET drained == queued[t] = delivered[t]
        at == IF drained THEN 0 ELSE queued[t]
        old == IF drained THEN <<>> ELSE queue[t]
        room == at < MaxQueued
    IN  /\ queue' = [queue EXCEPT ![t] = IF room THEN Append(old, n) ELSE old]
        /\ queued' = [queued EXCEPT ![t] = IF room THEN at + 1 ELSE at]
        /\ delivered' = [delivered EXCEPT ![t] = IF drained THEN 0 ELSE @]
        /\ raised' = [raised EXCEPT ![t] = Append(@, n)]

\* What a call does in the core, and the messages it causes there.
Run(t, call) ==
    LET c == context[t] IN
    /\ ran' = [ran EXCEPT ![t] = Append(@, [n |-> call.n, issued |-> call.under, under |-> c])]
    /\ context' = IF call.kind = "make" THEN [context EXCEPT ![t] = call.to] ELSE context
    /\ core' = [core EXCEPT
          ![c].callback = CASE call.kind = "callback" -> TRUE [] call.kind = "quiet" -> FALSE [] OTHER -> @,
          ![c].synchronous = CASE call.kind = "enable" -> TRUE [] call.kind = "disable" -> FALSE [] OTHER -> @]
    /\ IF call.raises /\ core[c].callback THEN QueueMessage(t, call.n) ELSE UNCHANGED messages

\* run_batch, a record a step.
RunRecord(t) ==
    /\ calling[t].at = "unix" /\ calling[t].todo # <<>>
    /\ Run(t, Head(calling[t].todo))
    /\ calling' = [calling EXCEPT ![t].todo = Tail(@)]
    /\ UNCHANGED <<flags, batch, issued, got>>

\* A unix call returns; WMGL_STATUS_DEBUG_MESSAGES when messages wait.
Return(t) ==
    /\ calling[t].at = "unix" /\ calling[t].todo = <<>>
    /\ calling' = [calling EXCEPT ![t].at = IF queued[t] > delivered[t] THEN "fetch" ELSE "after"]
    /\ UNCHANGED <<flags, batch, messages, context, core, issued, ran, got>>

\* deliver_debug_messages: one message fetched (wmgl_unix_debug_message) and
\* the program's callback called.
Fetch(t) ==
    LET more == delivered[t] + 1 < queued[t] IN
    /\ calling[t].at = "fetch"
    /\ got' = [got EXCEPT ![t] = Append(@, queue[t][delivered[t] + 1])]
    /\ delivered' = [delivered EXCEPT ![t] = IF more THEN @ + 1 ELSE 0]
    /\ queued' = [queued EXCEPT ![t] = IF more THEN @ ELSE 0]
    /\ calling' = [calling EXCEPT ![t].at = IF more THEN "fetch" ELSE "after"]
    /\ UNCHANGED <<flags, batch, queue, raised, context, core, issued, ran>>

\* What remains of the call the program made: nothing; or the call goes into
\* the batch, now empty, which runs at once when it is a draw; or it is a
\* unix call of its own.
After(t) ==
    LET call == calling[t].call
        then == calling[t].then
    IN  /\ calling[t].at = "after"
        /\ raised' = [raised EXCEPT ![t] = <<>>]
        /\ IF then = "call" THEN NoteCall(call.kind) ELSE UNCHANGED flags
        /\ IF then = "append" THEN batch' = [batch EXCEPT ![t] = <<call>>] ELSE UNCHANGED batch
        /\ calling' = [calling EXCEPT ![t] =
              IF then \in {"join", "call"}
              THEN [at |-> "unix", todo |-> <<call>>, then |-> "program", call |-> call]
              ELSE InProgram]
        /\ UNCHANGED <<queue, queued, delivered, context, core, issued, ran, got>>

Proceed(t) == RunRecord(t) \/ Return(t) \/ Fetch(t) \/ After(t)

\* A context is made current in one thread at a time.
MayMake(t, kind, c) ==
    IF kind = "make"
    THEN \A u \in Callers : context[u] # c
    ELSE c = context[t]

CallsNext ==
    \E t \in Callers :
        \/ \E kind \in Kinds, raises \in BOOLEAN, to \in CallContexts :
              /\ MayMake(t, kind, to)
              /\ raises => kind \in {"value", "data", "large", "draw", "get"}
              /\ Issue(t, kind, raises, to)
        \/ Proceed(t)

CallsSpec == CallsInit /\ [][CallsNext]_callsVars

-----------------------------------------------------------------------------
CallsAssumption == Kinds \subseteq AllKinds /\ MaxQueued \in Nat

CallRecord == [n : Nat, kind : AllKinds, raises : BOOLEAN, under : CallContexts, to : CallContexts]
Doing == {InProgram} \cup
         [at : {"unix", "fetch", "after"}, todo : Seq(CallRecord), call : CallRecord,
          then : {"program", "append", "join", "call"}]
CallsTypeOK ==
    /\ calling \in [Callers -> Doing] /\ batch \in [Callers -> Seq(CallRecord)]
    /\ context \in [Callers -> CallContexts] /\ issued \in [Callers -> Nat]
    /\ ran \in [Callers -> Seq([n : Nat, issued : CallContexts, under : CallContexts])]
    /\ queue \in [Callers -> Seq(Nat)] /\ queued \in [Callers -> Nat]
    /\ delivered \in [Callers -> Nat]
    /\ raised \in [Callers -> Seq(Nat)] /\ got \in [Callers -> Seq(Nat)]

\* The calls of s follow those that ran, under the context that is current;
\* wglMakeCurrent is only ever the last.
Follow(t, s) ==
    \A i \in DOMAIN s :
        s[i].n = Len(ran[t]) + i /\ s[i].under = context[t] /\ (s[i].kind = "make" => i = Len(s))

\* What the program asked for has run, is in hand, or is in the batch.
InHand(t) ==
    /\ \A i \in DOMAIN ran[t] : ran[t][i].n = i /\ ran[t][i].issued = ran[t][i].under
    /\ calling[t] = InProgram =>
          /\ Follow(t, batch[t]) /\ Len(ran[t]) + Len(batch[t]) = issued[t]
          /\ \A i \in DOMAIN batch[t] : batch[t][i].kind # "make"
    /\ calling[t] # InProgram =>
          LET c == calling[t] IN
          /\ batch[t] = <<>> /\ Follow(t, c.todo) /\ (c.at # "unix" => c.todo = <<>>)
          /\ c.then = "program" => Len(ran[t]) + Len(c.todo) = issued[t]
          /\ c.then # "program" =>
                /\ \A i \in DOMAIN c.todo : c.todo[i].kind # "make"
                /\ Len(ran[t]) + Len(c.todo) + 1 = issued[t]
                /\ c.call.n = issued[t] /\ c.call.under = context[t]
                /\ c.then = "append" => c.call.kind # "make"

\* The first messages a unix call raised wait in the queue, or were fetched.
Waiting(t) == delivered[t] + 1 .. queued[t]
MessagesWait(t) ==
    /\ \A i, j \in DOMAIN got[t] : i < j => got[t][i] < got[t][j]
    /\ \A i \in DOMAIN got[t] : got[t][i] <= Len(ran[t])
    /\ calling[t].at = "program" => raised[t] = <<>>
    /\ calling[t].at \in {"program", "after"} => queued[t] = 0 /\ delivered[t] = 0
    /\ calling[t].at = "unix" => delivered[t] = 0
    /\ calling[t].at = "fetch" => delivered[t] < queued[t]
    /\ calling[t].at \in {"unix", "fetch"} =>
          /\ queued[t] <= Len(raised[t]) /\ queued[t] <= MaxQueued
          /\ queued[t] < MaxQueued => queued[t] = Len(raised[t])
          /\ queued[t] > 0 => Len(queue[t]) = queued[t]
          /\ \A i \in 1..queued[t] : queue[t][i] = raised[t][i]
          /\ \A i, j \in Waiting(t) : i < j => queue[t][i] < queue[t][j]
          /\ \A i \in Waiting(t) :
                queue[t][i] <= Len(ran[t]) /\ \A j \in DOMAIN got[t] : got[t][j] < queue[t][i]
    /\ calling[t].at \in {"fetch", "after"} =>
          \A i \in DOMAIN raised[t] :
              i > MaxQueued \/ i \in Waiting(t) \/ \E j \in DOMAIN got[t] : got[t][j] = raised[t][i]

CallsIInv == CallsTypeOK /\ \A t \in Callers : InHand(t) /\ MessagesWait(t)

\* Whether a state that calls turn on and off, now b, is on before the i-th of s.
On(b, on, off, s, i) ==
    \/ b /\ \A k \in 1..i-1 : s[k].kind # off
    \/ \E j \in 1..i-1 : s[j].kind = on /\ \A k \in j+1..i-1 : s[k].kind # off
HasCallback(c, s, i) == On(c.callback, "callback", "quiet", s, i)
Synchronous(c, s, i) == On(c.synchronous, "enable", "disable", s, i)

\* While one context is used the flags are what the calls in hand will make of it, and
\* a call that raises messages while it is synchronous is the n-th.
Alone(c, s, n) ==
    \A i \in DOMAIN s : s[i].raises /\ HasCallback(c, s, i) /\ Synchronous(c, s, i) => s[i].n = n
FlagsFollow(c, s, noted) ==
    /\ batching <=> ~(debug_callback /\ debug_synchronous)
    /\ debug_callback <=> HasCallback(c, s, Len(s) + 1)
    /\ debug_synchronous <=> Synchronous(c, noted, Len(noted) + 1)
InOneContext(t) ==
    LET c == core[context[t]]
        todo == calling[t].todo
        call == calling[t].call
    IN  /\ calling[t] = InProgram => FlagsFollow(c, batch[t], batch[t]) /\ Alone(c, batch[t], 0)
        /\ calling[t] # InProgram /\ calling[t].then = "program" =>
              FlagsFollow(c, todo, todo) /\ Alone(c, todo, issued[t])
        /\ calling[t] # InProgram /\ calling[t].then # "program" =>
              /\ FlagsFollow(c, todo, Append(todo, call)) /\ Alone(c, todo, 0)
              /\ call.raises => call.kind \notin {"enable", "disable"}
              /\ calling[t].then = "append" => batching /\ call.kind \in Batched
              /\ calling[t].then = "join" => call.kind = "draw"

\* One thread makes the calls, and all that ran did so under the context that
\* is current.
OneContext ==
    \A t, u \in Callers : t = u /\ \A i \in DOMAIN ran[u] : ran[u][i].under = context[u]
OneContextIInv ==
    /\ core \in [CallContexts -> [callback : BOOLEAN, synchronous : BOOLEAN]]
    /\ batching \in BOOLEAN /\ debug_callback \in BOOLEAN /\ debug_synchronous \in BOOLEAN
    /\ \A t \in Callers : InOneContext(t)

-----------------------------------------------------------------------------
\* A thread's calls run in the order its program made them, each under the
\* context that was current then, however they reach the unix side: those
\* that have not run are in the batch or in hand (wmgl_batch, flush_batch).
CallsRunInOrder ==
    \A t \in Callers :
        /\ \A i \in DOMAIN ran[t] : ran[t][i].n = i /\ ran[t][i].issued = ran[t][i].under
        /\ calling[t] = InProgram => Len(ran[t]) + Len(batch[t]) = issued[t]

\* Messages come to the program in the order they were raised, all before the
\* call that had them fetched returns, and what is lost of a unix call's are
\* the last ones (unix_main.c:211 "the application gets the first ones").
MessagesInOrder ==
    \A t \in Callers :
        /\ \A i, j \in DOMAIN got[t] : i < j => got[t][i] < got[t][j]
        /\ calling[t] = InProgram => queued[t] = delivered[t]
        /\ calling[t].at \in {"fetch", "after"} =>
              \A i \in DOMAIN raised[t] :
                  \/ i > MaxQueued
                  \/ \E j \in DOMAIN got[t] : got[t][j] = raised[t][i]
                  \/ \E j \in delivered[t] + 1 .. queued[t] : queue[t][j] = raised[t][i]

\* A message of a context with a callback and synchronous debug output is one
\* of the call its thread is in, never of a call that waited in the batch
\* (winemetalgl.c:92-95). The flags are the process's: this holds while a
\* program has used one context.
SynchronousInCall ==
    \A t \in Callers :
        LET c == core[context[t]]
            call == Head(calling[t].todo)
        IN  calling[t].at = "unix" /\ calling[t].todo # <<>> /\ call.raises /\ c.callback /\ c.synchronous =>
                call.n = issued[t]
\* What a program may rely on of its calls and messages.
BatchesSound == CallsRunInOrder /\ MessagesInOrder /\ (OneContext => SynchronousInCall)
=============================================================================

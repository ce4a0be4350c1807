-------------------------------- MODULE Syncs --------------------------------
(***************************************************************************)
(* Which thread has which context current (driver.mm), what glFlush makes  *)
(* of it (api/state.mm), and fence syncs, which promise that the commands  *)
(* before them run (api/query.mm).  ShareGroup::currentContexts, changed   *)
(* by wmgl_make_current outside the share group's lock, decides whether    *)
(* glFlush commits or waits for the pass in progress to end.               *)
(*                                                                         *)
(* GL calls run under the share group's lock, one step each, but for the   *)
(* waits, which release it.  wmgl_make_current and wmgl_context_destroy    *)
(* are called under the Wine module's wgl_lock, one at a time, and go on   *)
(* between other threads' GL calls.  The queue is that of FenceContract,   *)
(* whose command buffers run in the order they are committed.  Commands    *)
(* are draws; clears kept pending are CommandStream's.                     *)
(***************************************************************************)
EXTENDS Integers, Sequences, FiniteSets

CONSTANTS Threads, Contexts,
          None,       \* no context, no sync
          MaxSerial   \* bound: command buffers in a behaviour

ASSUME SyncsAssumption ==
  /\ IsFiniteSet(Contexts) /\ None \notin Contexts
  /\ MaxSerial \in Nat

VARIABLES thread,     \* each thread: its current context, where it is, for what
          current,    \* Context::current
          alive,      \* contexts not destroyed
          count,      \* ShareGroup::currentContexts
          stream,     \* each context's CommandStream
          work,       \* each serial's command buffer
          queue,      \* the command buffers committed and not complete
          sync,       \* the last sync of each context
          premature,  \* history: a sync was said to be signaled before its draws ran
          overtaken   \* history: a sync glWaitSync waited for was overtaken

vars == <<thread, current, alive, count, stream, work, queue, sync, premature, overtaken>>

Serials == 1 .. MaxSerial
Orders  == {"switch", "destroy"}           \* calls made under wgl_lock
Sync    == [owner : Contexts, serial : 0 .. MaxSerial,
            covers : 0 .. MaxSerial,       \* history: the buffer of the last draw before it
            flushed : BOOLEAN,             \* history: glFlush came after it
            alone : BOOLEAN]               \* history: and no other thread had a context
Wait    == [serial : 0 .. MaxSerial, sync : Sync \cup {None},
            promised : BOOLEAN]            \* history: the caller may count on it
Thread  == [context : Contexts \cup {None},
            pc : {"idle", "wait"} \cup Orders,
            order : Contexts \cup {None},  \* what the call under wgl_lock is for
            wait : Wait \cup {None}]
Stream  == [serial : 0 .. MaxSerial,       \* serial_
            last : 0 .. MaxSerial,         \* lastCommitted_
            pass : BOOLEAN,                \* a render pass is in progress
            deferred : BOOLEAN,            \* flushDeferred_
            drawn : 0 .. MaxSerial,        \* history: the buffer of the last draw
            after : SUBSET Serials,        \* history: of syncs glWaitSync found uncommitted
            follows : SUBSET Serials]      \* history: those draws of the buffer come after

TypeOK ==
  /\ thread \in [Threads -> Thread]
  /\ current \in [Contexts -> BOOLEAN] /\ alive \in SUBSET Contexts
  /\ count \in 0 .. Cardinality(Contexts)
  /\ stream \in [Contexts -> Stream]
  /\ work \in [Serials -> {"unused", "recording", "committed", "complete"}]
  /\ queue \in Seq(Serials)
  /\ sync \in [Contexts -> Sync \cup {None}]
  /\ premature \in BOOLEAN /\ overtaken \in BOOLEAN

NewStream == [serial |-> 0, last |-> 0, pass |-> FALSE, deferred |-> FALSE,
              drawn |-> 0, after |-> {}, follows |-> {}]

Init ==
  /\ thread = [t \in Threads |-> [context |-> None, pc |-> "idle", order |-> None,
                                  wait |-> None]]
  /\ current = [c \in Contexts |-> FALSE] /\ alive = Contexts
  /\ count = 0
  /\ stream = [c \in Contexts |-> NewStream]
  /\ work = [s \in Serials |-> "unused"] /\ queue = <<>>
  /\ sync = [c \in Contexts |-> None]
  /\ premature = FALSE /\ overtaken = FALSE

-----------------------------------------------------------------------------
Complete(s)  == s \in Serials => work[s] = "complete"                  \* 0: no work
Committed(s) == s \in Serials => work[s] \in {"committed", "complete"}
Unused       == {s \in Serials : work[s] = "unused"}
Next1        == CHOOSE s \in Unused : \A r \in Unused : s <= r

(* A thread in a GL call of its own, with context c current. *)
Calls(t, c) == c \in alive /\ thread[t].pc = "idle" /\ thread[t].context = c

(* No other thread has a context current (it may be about to). *)
Alone(t) == \A u \in Threads \ {t} : thread[u].context = None \/ thread[u].pc = "switch"

(* flush(): the stream's command buffer, if there is one, is committed. *)
Flushed(s) == [s EXCEPT !.last = IF s.serial = 0 THEN @ ELSE s.serial, !.serial = 0,
                        !.pass = FALSE, !.deferred = FALSE, !.follows = {}]

Flush(c) ==
  /\ stream' = [stream EXCEPT ![c] = Flushed(@)]
  /\ IF stream[c].serial = 0 THEN UNCHANGED <<work, queue, overtaken>>
     ELSE /\ work' = [work EXCEPT ![stream[c].serial] = "committed"]
          /\ queue' = Append(queue, stream[c].serial)
          /\ overtaken' = (overtaken \/ \E s \in stream[c].follows : ~Committed(s))

NoCommands == UNCHANGED <<stream, work, queue, overtaken>>

-----------------------------------------------------------------------------
(* wmgl_make_current: the previous context is flushed and not counted, ... *)

LockFree == \A t \in Threads : thread[t].pc \notin Orders

(* Mutant: the previous context is not flushed. *)
SwitchFromUnflushed(t, c) ==
  LET previous == thread[t].context IN
  /\ thread[t].pc = "idle" /\ LockFree
  /\ c # None => c \in alive /\ \A u \in Threads \ {t} : thread[u].context # c
  /\ NoCommands
  /\ IF previous \in {None, c} THEN UNCHANGED <<current, count>>
     ELSE /\ current' = [current EXCEPT ![previous] = FALSE]
          /\ count' = IF current[previous] THEN count - 1 ELSE count
  /\ thread' = [thread EXCEPT ![t].pc = "switch", ![t].order = c]
  /\ UNCHANGED <<alive, sync, premature>>

SwitchFrom(t, c) ==
  LET previous == thread[t].context IN
  /\ thread[t].pc = "idle" /\ LockFree
  /\ c # None => c \in alive /\ \A u \in Threads \ {t} : thread[u].context # c
  /\ IF previous \in {None, c} THEN NoCommands /\ UNCHANGED <<current, count>>
     ELSE /\ Flush(previous)
          /\ current' = [current EXCEPT ![previous] = FALSE]
          /\ count' = IF current[previous] THEN count - 1 ELSE count
  /\ thread' = [thread EXCEPT ![t].pc = "switch", ![t].order = c]
  /\ UNCHANGED <<alive, sync, premature>>

(* ... and the new one is counted, and current. *)
SwitchTo(t) ==
  LET c == thread[t].order IN
  /\ thread[t].pc = "switch"
  /\ IF c = None \/ current[c] THEN UNCHANGED <<current, count>>
     ELSE current' = [current EXCEPT ![c] = TRUE] /\ count' = count + 1
  /\ thread' = [thread EXCEPT ![t].pc = "idle", ![t].context = c, ![t].order = None]
  /\ NoCommands /\ UNCHANGED <<alive, sync, premature>>

(* wmgl_context_destroy of a context current on the thread or on none: its *)
(* work is committed, ...                                                  *)
Destroy(t, c) ==
  /\ thread[t].pc = "idle" /\ LockFree
  /\ c \in alive /\ \A u \in Threads \ {t} : thread[u].context # c
  /\ Flush(c)
  /\ thread' = [thread EXCEPT ![t].pc = "destroy", ![t].order = c,
                              ![t].context = IF @ = c THEN None ELSE @]
  /\ UNCHANGED <<current, alive, count, sync, premature>>

(* ... and complete, before it is gone. *)
Destroyed(t) ==
  LET c == thread[t].order IN
  /\ thread[t].pc = "destroy" /\ Complete(stream[c].last)
  /\ current' = [current EXCEPT ![c] = FALSE]
  /\ count' = IF current[c] THEN count - 1 ELSE count
  /\ alive' = alive \ {c}
  /\ thread' = [thread EXCEPT ![t].pc = "idle", ![t].order = None]
  /\ NoCommands /\ UNCHANGED <<sync, premature>>

-----------------------------------------------------------------------------
(* Draws and flushes. *)

(* A draw in the pass in progress, or in a new one, before which a glFlush *)
(* that was deferred commits.                                              *)
Draw(t, c, continues) ==
  LET s      == stream[c]
      commit == s.serial # 0 /\ s.deferred /\ ~continues
      fresh  == s.serial = 0 \/ commit IN
  /\ Calls(t, c) /\ (continues => s.pass)
  /\ fresh => Unused # {}
  /\ LET serial == IF fresh THEN Next1 ELSE s.serial IN
     /\ stream' = [stream EXCEPT ![c] =
          [s EXCEPT !.serial = serial, !.pass = TRUE, !.drawn = serial,
                    !.last = IF commit THEN s.serial ELSE @,
                    !.deferred = continues /\ @,
                    !.follows = s.after]]
     /\ work' = [n \in Serials |-> IF n = serial THEN "recording"
                                   ELSE IF commit /\ n = s.serial THEN "committed"
                                   ELSE work[n]]
  /\ queue' = IF commit THEN Append(queue, s.serial) ELSE queue
  /\ overtaken' = (overtaken \/ (commit /\ \E r \in s.follows : ~Committed(r)))
  /\ UNCHANGED <<thread, current, alive, count, sync, premature>>

(* Commits of the layer's own: large work, a wait for a buffer. *)
OwnCommit(t, c) ==
  /\ Calls(t, c) /\ stream[c].serial # 0
  /\ Flush(c)
  /\ UNCHANGED <<thread, current, alive, count, sync, premature>>

(* Whether glFlush may wait for the pass to end. *)
Deferrable == count <= 1

(* glFlush, which promises that the syncs before it will be signaled. *)
GLFlush(t, c) ==
  /\ Calls(t, c)
  /\ IF Deferrable
       THEN /\ stream' = [stream EXCEPT ![c].deferred = TRUE]
            /\ UNCHANGED <<work, queue, overtaken>>
       ELSE Flush(c)
  /\ sync' = [sync EXCEPT ![c] =
       IF @ = None \/ @.flushed THEN @ ELSE [@ EXCEPT !.flushed = TRUE, !.alone = Alone(t)]]
  /\ UNCHANGED <<thread, current, alive, count, premature>>

(* glFinish: the wait is without the lock. *)
Finish(t, c) ==
  /\ Calls(t, c)
  /\ Flush(c)
  /\ thread' = IF Complete(Flushed(stream[c]).last) THEN thread
               ELSE [thread EXCEPT ![t].pc = "wait",
                       ![t].wait = [serial |-> Flushed(stream[c]).last, sync |-> None,
                                    promised |-> TRUE]]
  /\ UNCHANGED <<current, alive, count, sync, premature>>

-----------------------------------------------------------------------------
(* Syncs. *)

(* A call says that the sync is signaled. *)
Report(f) == premature' = (premature \/ ~Complete(f.covers))

(* glFenceSync: fenceSerial(), the command buffer being recorded or, with  *)
(* none, the last committed.                                               *)
FenceSync(t, c) ==
  /\ Calls(t, c)
  /\ sync' = [sync EXCEPT ![c] =
       [owner |-> c, covers |-> stream[c].drawn, flushed |-> FALSE, alone |-> FALSE,
        serial |-> IF stream[c].serial # 0 THEN stream[c].serial ELSE stream[c].last]]
  /\ NoCommands /\ UNCHANGED <<thread, current, alive, count, premature>>

(* Mutant: a glFlush that was deferred stays so. *)
CommitForUndeferred(c, s, bit) ==
  IF ~Committed(s) /\ bit THEN Flush(c) ELSE NoCommands

(* What a call that asks for serial s commits of its own context: all with *)
(* GL_SYNC_FLUSH_COMMANDS_BIT, and otherwise what a glFlush promised.      *)
CommitFor(c, s, bit) ==
  IF ~Committed(s) /\ (bit \/ stream[c].deferred) THEN Flush(c) ELSE NoCommands

(* glClientWaitSync, of a context's own sync or of another's, which polls  *)
(* or waits without the lock.                                              *)
ClientWait(t, c, f, bit, waits) ==
  /\ Calls(t, c) /\ f # None
  /\ IF Complete(f.serial)
       THEN Report(f) /\ NoCommands /\ UNCHANGED thread
       ELSE /\ CommitFor(c, f.serial, bit)
            /\ thread' = IF ~waits THEN thread
                         ELSE [thread EXCEPT ![t].pc = "wait",
                                 ![t].wait = [serial |-> f.serial, sync |-> f,
                                              promised |-> f.owner = c /\ (bit \/ f.flushed)]]
            /\ UNCHANGED premature
  /\ UNCHANGED <<current, alive, count, sync>>

(* glGetSynciv of GL_SYNC_STATUS. *)
SyncStatus(t, c, f) ==
  /\ Calls(t, c) /\ f # None
  /\ CommitFor(c, f.serial, FALSE)
  /\ IF Complete(f.serial) THEN Report(f) ELSE UNCHANGED premature
  /\ UNCHANGED <<thread, current, alive, count, sync>>

(* Queue::waitSignaled() returns; or its timeout ends it. *)
WaitReturns(t) ==
  /\ thread[t].pc = "wait" /\ Complete(thread[t].wait.serial)
  /\ IF thread[t].wait.sync # None THEN Report(thread[t].wait.sync) ELSE UNCHANGED premature
  /\ thread' = [thread EXCEPT ![t].pc = "idle", ![t].wait = None]
  /\ NoCommands /\ UNCHANGED <<current, alive, count, sync>>

WaitTimesOut(t) ==
  /\ thread[t].pc = "wait" /\ thread[t].wait.sync # None
  /\ thread' = [thread EXCEPT ![t].pc = "idle", ![t].wait = None]
  /\ NoCommands /\ UNCHANGED <<current, alive, count, sync, premature>>

(* glWaitSync of another context's sync, which must be flushed: the code   *)
(* does nothing, as what is committed already runs first.                  *)
WaitSync(t, c, f) ==
  /\ Calls(t, c) /\ f # None /\ f.owner # c /\ f.flushed /\ ~Committed(f.serial)
  /\ stream' = [stream EXCEPT ![c].after = @ \cup {f.serial}]
  /\ UNCHANGED <<thread, current, alive, count, work, queue, sync, premature, overtaken>>

-----------------------------------------------------------------------------
(* The GPU runs the command buffers in the order of their commits. *)
CompleteOldest ==
  /\ queue # <<>>
  /\ work' = [work EXCEPT ![Head(queue)] = "complete"]
  /\ queue' = Tail(queue)
  /\ UNCHANGED <<thread, current, alive, count, stream, sync, premature, overtaken>>

Next ==
  \/ \E t \in Threads :
       \/ \E c \in Contexts \cup {None} : SwitchFrom(t, c)
       \/ SwitchTo(t) \/ Destroyed(t) \/ WaitReturns(t) \/ WaitTimesOut(t)
       \/ \E c \in Contexts :
            \/ Destroy(t, c) \/ OwnCommit(t, c) \/ GLFlush(t, c) \/ Finish(t, c) \/ FenceSync(t, c)
            \/ \E continues \in BOOLEAN : Draw(t, c, continues)
            \/ \E o \in Contexts :
                 \/ SyncStatus(t, c, sync[o]) \/ WaitSync(t, c, sync[o])
                 \/ \E bit, waits \in BOOLEAN : ClientWait(t, c, sync[o], bit, waits)
  \/ CompleteOldest

Spec == Init /\ [][Next]_vars

(* The GPU runs what was committed, and threads in the middle of a call go *)
(* on with it.  No thread need make another call.                          *)
Fairness ==
  /\ WF_vars(CompleteOldest)
  /\ \A t \in Threads : /\ WF_vars(SwitchTo(t)) /\ WF_vars(Destroyed(t))
                        /\ WF_vars(WaitReturns(t))

FairSpec == Spec /\ Fairness

-----------------------------------------------------------------------------
(* currentContexts is the number of contexts current on a thread, or about *)
(* to be: what glFlush reads never misses another thread's context.        *)
CountIsCurrent ==
  /\ count = Cardinality({c \in Contexts : current[c]})
  /\ \A t, u \in Threads : LET c == thread[t].context IN
       c # None /\ thread[t].pc # "switch" => current[c] /\ (t # u => thread[u].context # c)

(* A context that is current on no thread has nothing uncommitted: another *)
(* thread that waits for its commands does not wait for ever.              *)
NothingStranded ==
  \A c \in Contexts : (\A t \in Threads : thread[t].context # c) =>
    stream[c].serial = 0 /\ ~stream[c].deferred

(* A sync that a glFlush came after is of committed commands, unless the   *)
(* flush found no other thread with a context and its context is current,  *)
(* with the commit still to come.                                          *)
FlushPromises ==
  \A c \in Contexts : sync[c] # None /\ sync[c].flushed /\ ~Committed(sync[c].serial) =>
    /\ sync[c].alone /\ stream[c].deferred /\ stream[c].serial = sync[c].serial
    /\ \E t \in Threads : thread[t].context = c

(* A sync is reported signaled only when the draws before it have run. *)
SignaledCovers == ~premature

(* What keeps the above from step to step.  Each context records into a    *)
(* command buffer of its own, which has its last draw; ...                 *)
StreamsOwn ==
  \A c \in Contexts : LET s == stream[c] IN
    /\ s.serial # 0 => work[s.serial] = "recording" /\ s.drawn = s.serial
    /\ s.serial = 0 => s.drawn = s.last /\ ~s.pass
    /\ Committed(s.last)
    /\ s.serial # 0 => \A d \in Contexts \ {c} : stream[d].serial # s.serial

QueueCommitted == \A i \in DOMAIN queue : Committed(queue[i])

(* ... a sync is of the buffer its context records or of committed work,   *)
(* and of no draw after that, and so is what a thread waits for; ...       *)
SyncsFollow ==
  \A c \in Contexts : sync[c] # None =>
    /\ sync[c].owner = c /\ sync[c].covers = sync[c].serial
    /\ Committed(sync[c].serial) \/ stream[c].serial = sync[c].serial

WaitsMatch ==
  \A t \in Threads : LET w == thread[t].wait IN
    thread[t].pc = "wait" =>
      w \in Wait /\ (w.sync # None => w.sync.serial = w.serial /\ w.sync.covers = w.serial)

(* ... and one thread at a time is in a call under wgl_lock, for a context *)
(* that no other thread has, with the one it leaves flushed.               *)
Quiet(s) == s.serial = 0 /\ ~s.deferred

OneSwitches ==
  \A t \in Threads : LET r == thread[t] IN
    /\ r.pc \in Orders => \A u \in Threads \ {t} :
         thread[u].pc \notin Orders /\ (r.order # None => thread[u].context # r.order)
    /\ r.pc = "switch" /\ r.context \notin {None, r.order} => Quiet(stream[r.context])
    /\ r.pc = "destroy" => r.order # None /\ r.context # r.order

(* make-current, which holds no lock of the share group, keeps what        *)
(* glFlush and the syncs rely on: all of the above.                        *)
SyncsSound ==
  /\ TypeOK
  /\ StreamsOwn /\ QueueCommitted /\ SyncsFollow /\ WaitsMatch /\ OneSwitches
  /\ CountIsCurrent /\ NothingStranded /\ FlushPromises /\ SignaledCovers

(* glFinish, and a wait for a sync of the thread's own context after a     *)
(* glFlush or with the flush bit, return.                                  *)
OwnWaitReturns ==
  \A t \in Threads :
    thread[t].pc = "wait" /\ thread[t].wait.promised ~> thread[t].pc # "wait"

(* api/query.mm, WaitSync: "a fence of another context must have been      *)
(* flushed by it [...], so later work from this context is committed, and  *)
(* runs, after it".  The code does not do this: the glFlush may have been  *)
(* deferred, with no other context current then.                           *)
WaitSyncOrders == ~overtaken

=============================================================================

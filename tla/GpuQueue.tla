------------------------------ MODULE GpuQueue ------------------------------
(***************************************************************************)
(* core/metal/queue.mm: the Metal command queue of a share group and the   *)
(* serials of its command buffers.  Threads (one context each) reserve,    *)
(* commit and drop serials and wait for them; Metal runs committed command *)
(* buffers in the order of [buffer commit] and calls each one's completed  *)
(* handler afterwards, on a thread of its own.                             *)
(*                                                                         *)
(* Queue::commit is two steps: its bookkeeping under mutex_, then, the     *)
(* mutex released, [buffer commit].  The completed handler is three: it    *)
(* locks mutex_ and erases the serial, notifies, and unlocks, because the  *)
(* comment in commit() makes the destruction of the queue depend on it.    *)
(* Every other operation holds mutex_ for a single step.                   *)
(***************************************************************************)
EXTENDS Integers, Sequences, FiniteSets

CONSTANTS Threads,     \* application threads, each with a context of the share group
          MaxSerial,   \* bound: serials handed out in a behaviour
          MaxBuffers   \* newCommandQueueWithMaxCommandBufferCount (256 in the code)

ASSUME GpuQueueAssumption ==
  /\ MaxSerial \in Nat \ {0}
  /\ MaxBuffers \in Nat \ {0}

VARIABLES next,        \* next_: the next serial
          reserved,    \* reserved_: created, not committed
          inflight,    \* inflight_: committed, not complete
          mutex,       \* the serial whose handler holds mutex_, or None
          open,        \* the serial each thread records, or None
          submitting,  \* the serial each thread took through commit()'s bookkeeping
          gpu,         \* serials Metal was given and has not run, in order
          handler,     \* progress of each serial's completed handler
          pc,          \* what a thread does: runs, evaluates a wait, sleeps in it
          call,        \* the wait a thread is in
          group,       \* the share group's life
          closed,      \* threads that destroyed their context
          abandoned,   \* history: serials dropped by abandon()
          signaled     \* history: serials some caller was told are complete

vars == <<next, reserved, inflight, mutex, open, submitting, gpu, handler,
          pc, call, group, closed, abandoned, signaled>>

None    == 0
Serials == 1 .. MaxSerial
Calls   == [kind : {"wait", "waitSignaled"}, serial : Serials, timed : BOOLEAN]
             \cup {[kind |-> "waitIdle", serial |-> None, timed |-> FALSE]}
NoCall  == [kind |-> "none", serial |-> None, timed |-> FALSE]

HandlerStates == {"none", "due", "erased", "notified", "returned"}

TypeOK ==
  /\ next \in 1 .. MaxSerial + 1
  /\ reserved \subseteq Serials
  /\ inflight \subseteq Serials
  /\ mutex \in Serials \cup {None}
  /\ open \in [Threads -> Serials \cup {None}]
  /\ submitting \in [Threads -> Serials \cup {None}]
  /\ gpu \in Seq(Serials)
  /\ handler \in [Serials -> HandlerStates]
  /\ pc \in [Threads -> {"run", "check", "asleep"}]
  /\ call \in [Threads -> Calls \cup {NoCall}]
  /\ group \in {"live", "dying", "destroyed"}
  /\ closed \subseteq Threads
  /\ abandoned \subseteq Serials
  /\ signaled \subseteq Serials

Init ==
  /\ next = 1
  /\ reserved = {} /\ inflight = {} /\ mutex = None
  /\ open = [t \in Threads |-> None]
  /\ submitting = [t \in Threads |-> None]
  /\ gpu = <<>>
  /\ handler = [s \in Serials |-> "none"]
  /\ pc = [t \in Threads |-> "run"]
  /\ call = [t \in Threads |-> NoCall]
  /\ group = "live" /\ closed = {}
  /\ abandoned = {} /\ signaled = {}

-----------------------------------------------------------------------------
Used == {s \in Serials : s < next}

(* Mutant: only committed serials are looked up. *)
CompleteIfNotInflight(s) == s \notin inflight

(* isComplete(): the answer the bookkeeping gives. *)
Complete(s) == s \notin inflight /\ s \notin reserved

(* Mutant: waitSignaled takes a reserved serial for a complete one. *)
DoneIfNotInflight(c) ==
  CASE c.kind \in {"wait", "waitSignaled"} -> c.serial \notin inflight
    [] c.kind = "waitIdle"                 -> inflight = {}
    [] OTHER                               -> TRUE

(* The predicate each wait sleeps on. *)
Done(c) ==
  CASE c.kind = "wait"         -> c.serial \notin inflight
    [] c.kind = "waitSignaled" -> Complete(c.serial)
    [] c.kind = "waitIdle"     -> inflight = {}
    [] OTHER                   -> TRUE

(* Metal command buffers that exist and have not run: commandBuffer blocks *)
(* while there are MaxBuffers of them.                                     *)
Outstanding == {s \in Used : handler[s] = "none" /\ s \notin abandoned}

CanCall(t) == t \notin closed /\ pc[t] = "run" /\ submitting[t] = None

(* create(): the next serial, reserved. *)
Create(t) ==
  /\ CanCall(t) /\ mutex = None
  /\ open[t] = None
  /\ next <= MaxSerial
  /\ Cardinality(Outstanding) < MaxBuffers
  /\ open' = [open EXCEPT ![t] = next]
  /\ reserved' = reserved \cup {next}
  /\ next' = next + 1
  /\ UNCHANGED <<inflight, mutex, submitting, gpu, handler, pc, call, group,
                 closed, abandoned, signaled>>

(* Mutant: the serial leaves reserved_ but does not enter inflight_. *)
CommitUncounted(t) ==
  /\ CanCall(t) /\ mutex = None /\ open[t] # None
  /\ reserved' = reserved \ {open[t]}
  /\ submitting' = [submitting EXCEPT ![t] = open[t]]
  /\ open' = [open EXCEPT ![t] = None]
  /\ UNCHANGED <<next, inflight, mutex, gpu, handler, pc, call, group, closed,
                 abandoned, signaled>>

(* commit(), under the lock: the serial moves from reserved_ to inflight_. *)
Commit(t) ==
  /\ CanCall(t) /\ mutex = None
  /\ open[t] # None
  /\ reserved' = reserved \ {open[t]}
  /\ inflight' = inflight \cup {open[t]}
  /\ submitting' = [submitting EXCEPT ![t] = open[t]]
  /\ open' = [open EXCEPT ![t] = None]
  /\ UNCHANGED <<next, mutex, gpu, handler, pc, call, group, closed,
                 abandoned, signaled>>

(* commit(), after the lock: addCompletedHandler and [buffer commit]. *)
Submit(t) ==
  /\ submitting[t] # None
  /\ gpu' = Append(gpu, submitting[t])
  /\ submitting' = [submitting EXCEPT ![t] = None]
  /\ UNCHANGED <<next, reserved, inflight, mutex, open, handler, pc, call,
                 group, closed, abandoned, signaled>>

(* notify_all on completed_: every sleeper evaluates its predicate again. *)
Notified == [t \in Threads |-> IF pc[t] = "asleep" THEN "check" ELSE pc[t]]

(* Mutant: abandon() without its notify_all. *)
AbandonQuietly(t) ==
  /\ CanCall(t) /\ mutex = None /\ open[t] # None
  /\ reserved' = reserved \ {open[t]}
  /\ abandoned' = abandoned \cup {open[t]}
  /\ open' = [open EXCEPT ![t] = None]
  /\ UNCHANGED <<next, inflight, mutex, submitting, gpu, handler, pc, call,
                 group, closed, signaled>>

(* abandon(): the reserved serial is dropped and fence waiters are woken. *)
Abandon(t) ==
  /\ CanCall(t) /\ mutex = None
  /\ open[t] # None
  /\ reserved' = reserved \ {open[t]}
  /\ abandoned' = abandoned \cup {open[t]}
  /\ open' = [open EXCEPT ![t] = None]
  /\ pc' = Notified
  /\ UNCHANGED <<next, inflight, mutex, submitting, gpu, handler, call, group,
                 closed, signaled>>

(* isComplete(): a poll that was answered yes. *)
IsComplete(t) ==
  /\ CanCall(t) /\ mutex = None
  /\ \E s \in Used \ signaled :
        /\ Complete(s)
        /\ signaled' = signaled \cup {s}
  /\ UNCHANGED <<next, reserved, inflight, mutex, open, submitting, gpu,
                 handler, pc, call, group, closed, abandoned>>

-----------------------------------------------------------------------------
(* wait(serial), wait(serial, timeout) and waitSignaled(serial, timeout). *)
BeginWait(t) ==
  /\ CanCall(t)
  /\ \E c \in Calls :
        /\ c.serial \in Used
        /\ call' = [call EXCEPT ![t] = c]
  /\ pc' = [pc EXCEPT ![t] = "check"]
  /\ UNCHANGED <<next, reserved, inflight, mutex, open, submitting, gpu,
                 handler, group, closed, abandoned, signaled>>

(* What a wait that returns true tells its caller: the serial is complete, *)
(* unless it is a wait() for work that was not committed yet.              *)
Told(c) ==
  CASE c.kind = "wait"         -> {c.serial} \ reserved
    [] c.kind = "waitSignaled" -> {c.serial}
    [] OTHER                   -> {}

(* A wait's predicate holds: the call returns.  waitIdle is called by      *)
(* ~ShareGroup, which destroys the queue next.                             *)
WaitDone(t) ==
  /\ pc[t] = "check" /\ mutex = None
  /\ Done(call[t])
  /\ pc' = [pc EXCEPT ![t] = "run"]
  /\ signaled' = signaled \cup Told(call[t])
  /\ group' = IF call[t].kind = "waitIdle" THEN "destroyed" ELSE group
  /\ call' = [call EXCEPT ![t] = NoCall]
  /\ UNCHANGED <<next, reserved, inflight, mutex, open, submitting, gpu,
                 handler, closed, abandoned>>

(* It does not hold: the thread releases mutex_ and sleeps, atomically. *)
WaitSleep(t) ==
  /\ pc[t] = "check" /\ mutex = None
  /\ ~Done(call[t])
  /\ pc' = [pc EXCEPT ![t] = "asleep"]
  /\ UNCHANGED <<next, reserved, inflight, mutex, open, submitting, gpu,
                 handler, call, group, closed, abandoned, signaled>>

(* waitUpTo: the deadline passes before a notification. *)
WaitTimeout(t) ==
  /\ pc[t] = "asleep" /\ call[t].timed /\ mutex = None
  /\ signaled' = signaled \cup IF Done(call[t]) THEN Told(call[t]) ELSE {}
  /\ pc' = [pc EXCEPT ![t] = "run"]
  /\ call' = [call EXCEPT ![t] = NoCall]
  /\ UNCHANGED <<next, reserved, inflight, mutex, open, submitting, gpu,
                 handler, group, closed, abandoned>>

(* A condition variable may wake without a notification. *)
SpuriousWake(t) ==
  /\ pc[t] = "asleep"
  /\ pc' = [pc EXCEPT ![t] = "check"]
  /\ UNCHANGED <<next, reserved, inflight, mutex, open, submitting, gpu,
                 handler, call, group, closed, abandoned, signaled>>

(* A context is destroyed, its commands flushed; ~ShareGroup follows the   *)
(* last one and waits for the queue to be idle.                            *)
Close(t) ==
  /\ CanCall(t) /\ group = "live" /\ open[t] = None
  /\ closed' = closed \cup {t}
  /\ IF closed' = Threads
       THEN /\ group' = "dying"
            /\ call' = [call EXCEPT ![t] = [kind |-> "waitIdle", serial |-> None,
                                            timed |-> FALSE]]
            /\ pc' = [pc EXCEPT ![t] = "check"]
       ELSE UNCHANGED <<group, call, pc>>
  /\ UNCHANGED <<next, reserved, inflight, mutex, open, submitting, gpu,
                 handler, abandoned, signaled>>

-----------------------------------------------------------------------------
(* Metal runs the oldest command buffer; its handler is then due. *)
GpuRun ==
  /\ gpu # <<>>
  /\ handler' = [handler EXCEPT ![Head(gpu)] = "due"]
  /\ gpu' = Tail(gpu)
  /\ UNCHANGED <<next, reserved, inflight, mutex, open, submitting, pc, call,
                 group, closed, abandoned, signaled>>

(* Mutant: the handler unlocks before it notifies. *)
HandlerEraseUnlocked(s) ==
  /\ handler[s] = "due" /\ mutex = None
  /\ inflight' = inflight \ {s}
  /\ handler' = [handler EXCEPT ![s] = "erased"]
  /\ UNCHANGED <<next, reserved, mutex, open, submitting, gpu, pc, call, group,
                 closed, abandoned, signaled>>

(* The completed handler: lock and erase ... *)
HandlerErase(s) ==
  /\ handler[s] = "due" /\ mutex = None
  /\ mutex' = s
  /\ inflight' = inflight \ {s}
  /\ handler' = [handler EXCEPT ![s] = "erased"]
  /\ UNCHANGED <<next, reserved, open, submitting, gpu, pc, call, group,
                 closed, abandoned, signaled>>

(* ... notify, still under the lock ... *)
HandlerNotify(s) ==
  /\ handler[s] = "erased"
  /\ pc' = Notified
  /\ handler' = [handler EXCEPT ![s] = "notified"]
  /\ UNCHANGED <<next, reserved, inflight, mutex, open, submitting, gpu, call,
                 group, closed, abandoned, signaled>>

(* ... and unlock. *)
HandlerReturn(s) ==
  /\ handler[s] = "notified"
  /\ mutex' = None
  /\ handler' = [handler EXCEPT ![s] = "returned"]
  /\ UNCHANGED <<next, reserved, inflight, open, submitting, gpu, pc, call,
                 group, closed, abandoned, signaled>>

(* Nothing is left to do once the queue is gone. *)
Finished == group = "destroyed" /\ UNCHANGED vars

ThreadStep(t) ==
  \/ Create(t) \/ Commit(t) \/ Submit(t) \/ Abandon(t) \/ IsComplete(t)
  \/ BeginWait(t) \/ WaitDone(t) \/ WaitSleep(t) \/ WaitTimeout(t)
  \/ SpuriousWake(t) \/ Close(t)

HandlerStep(s) == HandlerErase(s) \/ HandlerNotify(s) \/ HandlerReturn(s)

Next ==
  \/ \E t \in Threads : ThreadStep(t)
  \/ GpuRun
  \/ \E s \in Serials : HandlerStep(s)
  \/ Finished

(* Metal finishes what it is given and calls the handlers; a thread inside *)
(* commit() or awake in a wait goes on.  Nothing makes an application      *)
(* commit, wait or destroy its contexts.                                   *)
Fairness ==
  /\ WF_vars(GpuRun)
  /\ \A s \in Serials : WF_vars(HandlerStep(s))
  /\ \A t \in Threads : WF_vars(Submit(t))
                        /\ WF_vars(WaitDone(t) \/ WaitSleep(t))

Spec == Init /\ [][Next]_vars
FairSpec == Spec /\ Fairness

-----------------------------------------------------------------------------
(* Work Metal has run, whether its handler has got the lock or not. *)
Executed == {s \in Serials : handler[s] # "none"}

(* A serial reported complete, by isComplete() or by a wait that returned  *)
(* true, is work the GPU has finished or that was dropped: never work that *)
(* is between commit()'s bookkeeping and [buffer commit], or on the GPU.   *)
SignaledIsDone == signaled \subseteq Executed \cup abandoned

(* queue.h: a serial is complete once its command buffer finished.  Once   *)
(* isComplete() would answer yes for a used serial it always will.         *)
CompletionIsFinal ==
  [][\A s \in Serials : s \in Used /\ Complete(s) => Complete(s)']_vars

(* commit(): "once a waiter sees the queue idle it may destroy the queue,  *)
(* so nothing may touch it after the unlock".  No handler is due, holds    *)
(* the mutex or has a notification to make once the queue is destroyed.    *)
DestroyedUntouched ==
  group = "destroyed" =>
    /\ mutex = None
    /\ \A s \in Serials : handler[s] \in {"none", "returned"}
    /\ \A t \in Threads : pc[t] = "run" /\ submitting[t] = None

(* The predicate a thread waits on is about to become true for good: the   *)
(* serial is committed, complete or dropped.                               *)
Settled(t) == pc[t] # "run" /\ call[t].serial \notin reserved

(* No wake-up is lost: a wait for a serial that was committed or abandoned *)
(* returns, whenever in the wait that happened, without a timeout.         *)
SettledWaitReturns == \A t \in Threads : Settled(t) ~> pc[t] = "run"

(* ~ShareGroup ends: the queue of a share group without contexts is        *)
(* destroyed.                                                              *)
GroupIsDestroyed == group = "dying" ~> group = "destroyed"

(* Nobody who waits on the queue's condition variable waits for what has   *)
(* come: both of the above.                                                *)
WaitsReturn == SettledWaitReturns /\ GroupIsDestroyed

-----------------------------------------------------------------------------
(* The inductive invariant behind the safety properties.                   *)

(* The two sets hold used serials, and no serial is in both. *)
Bookkeeping ==
  /\ reserved \subseteq Used /\ inflight \subseteq Used
  /\ reserved \cap inflight = {}

(* A serial is recorded, or on its way to Metal, by one thread, or in the  *)
(* GPU's queue once: its handler cannot be due yet.                        *)
OneOwner ==
  /\ \A t \in Threads : open[t] # None => open[t] \in reserved
  /\ \A t \in Threads : submitting[t] # None =>
        submitting[t] \in inflight /\ handler[submitting[t]] = "none"
  /\ \A i \in 1 .. Len(gpu) : gpu[i] \in inflight /\ handler[gpu[i]] = "none"
  /\ \A t, u \in Threads : t # u /\ open[t] # None => open[t] # open[u]
  /\ \A t, u \in Threads : t # u /\ submitting[t] # None => submitting[t] # submitting[u]
  /\ \A t \in Threads : \A i \in 1 .. Len(gpu) : submitting[t] # gpu[i]
  /\ \A i, j \in 1 .. Len(gpu) : gpu[i] = gpu[j] => i = j

(* Where each handler is, against the two sets and the mutex. *)
HandlersPlaced ==
  \A s \in Serials :
    /\ handler[s] # "none" => s \in Used /\ s \notin reserved /\ s \notin abandoned
    /\ handler[s] = "due" => s \in inflight
    /\ handler[s] \in {"erased", "notified", "returned"} => s \notin inflight
    /\ handler[s] \in {"erased", "notified"} <=> mutex = s

(* A used serial in neither set was dropped or its handler has erased it. *)
Accounted ==
  /\ \A s \in abandoned : s \in Used /\ Complete(s)
  /\ \A s \in Used : Complete(s) => s \in Executed \cup abandoned
  /\ \A s \in signaled : s \in Used /\ Complete(s)

(* Who still uses the queue while the share group goes. *)
Teardown ==
  /\ \A t \in Threads : pc[t] = "run" <=> call[t] = NoCall
  /\ \A t \in Threads : call[t].kind \in {"wait", "waitSignaled"} =>
        call[t].serial \in Used
  /\ \A t \in closed : open[t] = None /\ submitting[t] = None
                        /\ call[t].kind \in {"none", "waitIdle"}
  /\ \A t \in Threads : call[t].kind = "waitIdle" => group = "dying"
  /\ \A t, u \in Threads : call[t].kind = "waitIdle" /\ call[u].kind = "waitIdle" => t = u
  /\ group # "live" => closed = Threads
  /\ group = "destroyed" => inflight = {} /\ mutex = None

IInv == TypeOK /\ Bookkeeping /\ OneOwner /\ HandlersPlaced /\ Accounted /\ Teardown

-----------------------------------------------------------------------------
(* The promise made to the holders of a serial.                            *)
WorkOf(s) ==
  IF s >= next THEN "unused"
  ELSE IF s \in reserved THEN "recording"
  ELSE IF s \in abandoned THEN "dropped"
  ELSE IF handler[s] = "none" THEN "submitted" ELSE "executed"

WorkState == [s \in Serials |-> WorkOf(s)]

Contract == INSTANCE FenceContract WITH work <- WorkState

(* The queue keeps the promise of FenceContract, with its liveness.        *)
ImplementsContract == Contract!Spec

=============================================================================

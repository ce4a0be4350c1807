--------------------------- MODULE GpuQueueProofs ---------------------------
(***************************************************************************)
(* Proofs about GpuQueue, for any set of threads and any bounds.           *)
(***************************************************************************)
EXTENDS GpuQueue, TLAPS

LEMMA InitIInv == Init => IInv
<1> SUFFICES ASSUME Init PROVE IInv
  OBVIOUS
<1>1. TypeOK
  BY GpuQueueAssumption DEF Init, TypeOK, None, Serials, HandlerStates, NoCall
<1>2. Bookkeeping /\ OneOwner /\ HandlersPlaced /\ Accounted
  BY <1>1 DEF Init, TypeOK, Bookkeeping, OneOwner, HandlersPlaced, Accounted,
              Complete, Executed, Used, Serials, None
<1>3. Teardown
  BY DEF Init, Teardown, NoCall
<1> QED
  BY <1>1, <1>2, <1>3 DEF IInv

LEMMA CreateStep ==
  ASSUME IInv, NEW t \in Threads, Create(t)
  PROVE  IInv'
<1> USE DEF IInv
<1>1. TypeOK'
  BY GpuQueueAssumption DEF Create, TypeOK, Serials, Calls, NoCall, None, HandlerStates, Used, CanCall, Outstanding
<1>2. Bookkeeping'
  BY GpuQueueAssumption DEF Create, Bookkeeping, TypeOK, Used, Serials, None, OneOwner, CanCall, Outstanding
<1>3. OneOwner'
  BY GpuQueueAssumption DEF Create, OneOwner, TypeOK, Bookkeeping, HandlersPlaced, Accounted, Used, Serials, None, CanCall, Outstanding
<1>4. HandlersPlaced'
  BY GpuQueueAssumption DEF Create, HandlersPlaced, TypeOK, Bookkeeping, OneOwner, Accounted, Used, Complete, Serials, None, HandlerStates, CanCall, Outstanding
<1>5. Accounted'
  BY GpuQueueAssumption DEF Create, Accounted, TypeOK, Bookkeeping, OneOwner, HandlersPlaced, Used, Complete, Executed, Serials, None, CanCall, Outstanding
<1>6. Teardown'
  BY GpuQueueAssumption DEF Create, Teardown, TypeOK, OneOwner, Bookkeeping, HandlersPlaced, Used, Calls, NoCall, Serials, None, CanCall, Outstanding
<1> QED
  BY <1>1, <1>2, <1>3, <1>4, <1>5, <1>6

LEMMA CommitStep ==
  ASSUME IInv, NEW t \in Threads, Commit(t)
  PROVE  IInv'
<1> USE DEF IInv
<1>1. TypeOK'
  BY GpuQueueAssumption DEF Commit, TypeOK, Serials, Calls, NoCall, None, HandlerStates, Used, CanCall
<1>2. Bookkeeping'
  BY GpuQueueAssumption DEF Commit, Bookkeeping, TypeOK, Used, Serials, None, OneOwner, CanCall
<1>3. OneOwner'
  BY GpuQueueAssumption DEF Commit, OneOwner, TypeOK, Bookkeeping, HandlersPlaced, Accounted, Used, Serials, None, CanCall
<1>4. HandlersPlaced'
  BY GpuQueueAssumption DEF Commit, HandlersPlaced, TypeOK, Bookkeeping, OneOwner, Accounted, Used, Complete, Serials, None, HandlerStates, CanCall
<1>5. Accounted'
  BY GpuQueueAssumption DEF Commit, Accounted, TypeOK, Bookkeeping, OneOwner, HandlersPlaced, Used, Complete, Executed, Serials, None, CanCall
<1>6. Teardown'
  BY GpuQueueAssumption DEF Commit, Teardown, TypeOK, OneOwner, Bookkeeping, HandlersPlaced, Used, Calls, NoCall, Serials, None, CanCall
<1> QED
  BY <1>1, <1>2, <1>3, <1>4, <1>5, <1>6

LEMMA SubmitStep ==
  ASSUME IInv, NEW t \in Threads, Submit(t)
  PROVE  IInv'
<1> USE DEF IInv
<1>1. TypeOK'
  BY GpuQueueAssumption DEF Submit, TypeOK, Serials, Calls, NoCall, None, HandlerStates, Used, CanCall
<1>2. Bookkeeping'
  BY GpuQueueAssumption DEF Submit, Bookkeeping, TypeOK, Used, Serials, None, OneOwner, CanCall
<1>3. OneOwner'
  BY GpuQueueAssumption DEF Submit, OneOwner, TypeOK, Bookkeeping, HandlersPlaced, Accounted, Used, Serials, None, CanCall
<1>4. HandlersPlaced'
  BY GpuQueueAssumption DEF Submit, HandlersPlaced, TypeOK, Bookkeeping, OneOwner, Accounted, Used, Complete, Serials, None, HandlerStates, CanCall
<1>5. Accounted'
  BY GpuQueueAssumption DEF Submit, Accounted, TypeOK, Bookkeeping, OneOwner, HandlersPlaced, Used, Complete, Executed, Serials, None, CanCall
<1>6. Teardown'
  BY GpuQueueAssumption DEF Submit, Teardown, TypeOK, OneOwner, Bookkeeping, HandlersPlaced, Used, Calls, NoCall, Serials, None, CanCall
<1> QED
  BY <1>1, <1>2, <1>3, <1>4, <1>5, <1>6

LEMMA AbandonStep ==
  ASSUME IInv, NEW t \in Threads, Abandon(t)
  PROVE  IInv'
<1> USE DEF IInv
<1>1. TypeOK'
  BY GpuQueueAssumption DEF Abandon, TypeOK, Serials, Calls, NoCall, None, HandlerStates, Used, CanCall, Notified
<1>2. Bookkeeping'
  BY GpuQueueAssumption DEF Abandon, Bookkeeping, TypeOK, Used, Serials, None, OneOwner, CanCall, Notified
<1>3. OneOwner'
  BY GpuQueueAssumption DEF Abandon, OneOwner, TypeOK, Bookkeeping, HandlersPlaced, Accounted, Used, Serials, None, CanCall, Notified
<1>4. HandlersPlaced'
  BY GpuQueueAssumption DEF Abandon, HandlersPlaced, TypeOK, Bookkeeping, OneOwner, Accounted, Used, Complete, Serials, None, HandlerStates, CanCall, Notified
<1>5. Accounted'
  BY GpuQueueAssumption DEF Abandon, Accounted, TypeOK, Bookkeeping, OneOwner, HandlersPlaced, Used, Complete, Executed, Serials, None, CanCall, Notified
<1>6. Teardown'
  BY GpuQueueAssumption DEF Abandon, Teardown, TypeOK, OneOwner, Bookkeeping, HandlersPlaced, Used, Calls, NoCall, Serials, None, CanCall, Notified
<1> QED
  BY <1>1, <1>2, <1>3, <1>4, <1>5, <1>6

LEMMA IsCompleteStep ==
  ASSUME IInv, NEW t \in Threads, IsComplete(t)
  PROVE  IInv'
<1> USE DEF IInv
<1>1. TypeOK'
  BY GpuQueueAssumption DEF IsComplete, TypeOK, Serials, Calls, NoCall, None, HandlerStates, Used, CanCall
<1>2. Bookkeeping'
  BY GpuQueueAssumption DEF IsComplete, Bookkeeping, TypeOK, Used, Serials, None, OneOwner, CanCall
<1>3. OneOwner'
  BY GpuQueueAssumption DEF IsComplete, OneOwner, TypeOK, Bookkeeping, HandlersPlaced, Accounted, Used, Serials, None, CanCall
<1>4. HandlersPlaced'
  BY GpuQueueAssumption DEF IsComplete, HandlersPlaced, TypeOK, Bookkeeping, OneOwner, Accounted, Used, Complete, Serials, None, HandlerStates, CanCall
<1>5. Accounted'
  BY GpuQueueAssumption DEF IsComplete, Accounted, TypeOK, Bookkeeping, OneOwner, HandlersPlaced, Used, Complete, Executed, Serials, None, CanCall
<1>6. Teardown'
  BY GpuQueueAssumption DEF IsComplete, Teardown, TypeOK, OneOwner, Bookkeeping, HandlersPlaced, Used, Calls, NoCall, Serials, None, CanCall
<1> QED
  BY <1>1, <1>2, <1>3, <1>4, <1>5, <1>6

LEMMA BeginWaitStep ==
  ASSUME IInv, NEW t \in Threads, BeginWait(t)
  PROVE  IInv'
<1> USE DEF IInv
<1>1. TypeOK'
  BY GpuQueueAssumption DEF BeginWait, TypeOK, Serials, Calls, NoCall, None, HandlerStates, Used, CanCall
<1>2. Bookkeeping'
  BY GpuQueueAssumption DEF BeginWait, Bookkeeping, TypeOK, Used, Serials, None, OneOwner, CanCall
<1>3. OneOwner'
  BY GpuQueueAssumption DEF BeginWait, OneOwner, TypeOK, Bookkeeping, HandlersPlaced, Accounted, Used, Serials, None, CanCall
<1>4. HandlersPlaced'
  BY GpuQueueAssumption DEF BeginWait, HandlersPlaced, TypeOK, Bookkeeping, OneOwner, Accounted, Used, Complete, Serials, None, HandlerStates, CanCall
<1>5. Accounted'
  BY GpuQueueAssumption DEF BeginWait, Accounted, TypeOK, Bookkeeping, OneOwner, HandlersPlaced, Used, Complete, Executed, Serials, None, CanCall
<1>6. Teardown'
  BY GpuQueueAssumption DEF BeginWait, Teardown, TypeOK, OneOwner, Bookkeeping, HandlersPlaced, Used, Calls, NoCall, Serials, None, CanCall
<1> QED
  BY <1>1, <1>2, <1>3, <1>4, <1>5, <1>6

LEMMA WaitDoneStep ==
  ASSUME IInv, NEW t \in Threads, WaitDone(t)
  PROVE  IInv'
<1> USE DEF IInv
<1>1. TypeOK'
  BY GpuQueueAssumption DEF WaitDone, TypeOK, Serials, Calls, NoCall, None, HandlerStates, Used, CanCall, Done, Told
<1>2. Bookkeeping'
  BY GpuQueueAssumption DEF WaitDone, Bookkeeping, TypeOK, Used, Serials, None, OneOwner, CanCall, Done, Told
<1>3. OneOwner'
  BY GpuQueueAssumption DEF WaitDone, OneOwner, TypeOK, Bookkeeping, HandlersPlaced, Accounted, Used, Serials, None, CanCall, Done, Told
<1>4. HandlersPlaced'
  BY GpuQueueAssumption DEF WaitDone, HandlersPlaced, TypeOK, Bookkeeping, OneOwner, Accounted, Used, Complete, Serials, None, HandlerStates, CanCall, Done, Told
<1>5. Accounted'
  BY GpuQueueAssumption DEF WaitDone, Accounted, Teardown, Calls, NoCall, TypeOK, Bookkeeping, OneOwner, HandlersPlaced, Used, Complete, Executed, Serials, None, CanCall, Done, Told
<1>6. Teardown'
  BY GpuQueueAssumption DEF WaitDone, Teardown, TypeOK, OneOwner, Bookkeeping, HandlersPlaced, Used, Calls, NoCall, Serials, None, CanCall, Done, Told
<1> QED
  BY <1>1, <1>2, <1>3, <1>4, <1>5, <1>6

LEMMA WaitSleepStep ==
  ASSUME IInv, NEW t \in Threads, WaitSleep(t)
  PROVE  IInv'
<1> USE DEF IInv
<1>1. TypeOK'
  BY GpuQueueAssumption DEF WaitSleep, TypeOK, Serials, Calls, NoCall, None, HandlerStates, Used, CanCall
<1>2. Bookkeeping'
  BY GpuQueueAssumption DEF WaitSleep, Bookkeeping, TypeOK, Used, Serials, None, OneOwner, CanCall
<1>3. OneOwner'
  BY GpuQueueAssumption DEF WaitSleep, OneOwner, TypeOK, Bookkeeping, HandlersPlaced, Accounted, Used, Serials, None, CanCall
<1>4. HandlersPlaced'
  BY GpuQueueAssumption DEF WaitSleep, HandlersPlaced, TypeOK, Bookkeeping, OneOwner, Accounted, Used, Complete, Serials, None, HandlerStates, CanCall
<1>5. Accounted'
  BY GpuQueueAssumption DEF WaitSleep, Accounted, TypeOK, Bookkeeping, OneOwner, HandlersPlaced, Used, Complete, Executed, Serials, None, CanCall
<1>6. Teardown'
  BY GpuQueueAssumption DEF WaitSleep, Teardown, TypeOK, OneOwner, Bookkeeping, HandlersPlaced, Used, Calls, NoCall, Serials, None, CanCall
<1> QED
  BY <1>1, <1>2, <1>3, <1>4, <1>5, <1>6

LEMMA WaitTimeoutStep ==
  ASSUME IInv, NEW t \in Threads, WaitTimeout(t)
  PROVE  IInv'
<1> USE DEF IInv
<1>1. TypeOK'
  BY GpuQueueAssumption DEF WaitTimeout, TypeOK, Serials, Calls, NoCall, None, HandlerStates, Used, CanCall, Done, Told
<1>2. Bookkeeping'
  BY GpuQueueAssumption DEF WaitTimeout, Bookkeeping, TypeOK, Used, Serials, None, OneOwner, CanCall, Done, Told
<1>3. OneOwner'
  BY GpuQueueAssumption DEF WaitTimeout, OneOwner, TypeOK, Bookkeeping, HandlersPlaced, Accounted, Used, Serials, None, CanCall, Done, Told
<1>4. HandlersPlaced'
  BY GpuQueueAssumption DEF WaitTimeout, HandlersPlaced, TypeOK, Bookkeeping, OneOwner, Accounted, Used, Complete, Serials, None, HandlerStates, CanCall, Done, Told
<1>5. Accounted'
  BY GpuQueueAssumption DEF WaitTimeout, Accounted, Teardown, Calls, NoCall, TypeOK, Bookkeeping, OneOwner, HandlersPlaced, Used, Complete, Executed, Serials, None, CanCall, Done, Told
<1>6. Teardown'
  BY GpuQueueAssumption DEF WaitTimeout, Teardown, TypeOK, OneOwner, Bookkeeping, HandlersPlaced, Used, Calls, NoCall, Serials, None, CanCall, Done, Told
<1> QED
  BY <1>1, <1>2, <1>3, <1>4, <1>5, <1>6

LEMMA SpuriousWakeStep ==
  ASSUME IInv, NEW t \in Threads, SpuriousWake(t)
  PROVE  IInv'
<1> USE DEF IInv
<1>1. TypeOK'
  BY GpuQueueAssumption DEF SpuriousWake, TypeOK, Serials, Calls, NoCall, None, HandlerStates, Used, CanCall
<1>2. Bookkeeping'
  BY GpuQueueAssumption DEF SpuriousWake, Bookkeeping, TypeOK, Used, Serials, None, OneOwner, CanCall
<1>3. OneOwner'
  BY GpuQueueAssumption DEF SpuriousWake, OneOwner, TypeOK, Bookkeeping, HandlersPlaced, Accounted, Used, Serials, None, CanCall
<1>4. HandlersPlaced'
  BY GpuQueueAssumption DEF SpuriousWake, HandlersPlaced, TypeOK, Bookkeeping, OneOwner, Accounted, Used, Complete, Serials, None, HandlerStates, CanCall
<1>5. Accounted'
  BY GpuQueueAssumption DEF SpuriousWake, Accounted, TypeOK, Bookkeeping, OneOwner, HandlersPlaced, Used, Complete, Executed, Serials, None, CanCall
<1>6. Teardown'
  BY GpuQueueAssumption DEF SpuriousWake, Teardown, TypeOK, OneOwner, Bookkeeping, HandlersPlaced, Used, Calls, NoCall, Serials, None, CanCall
<1> QED
  BY <1>1, <1>2, <1>3, <1>4, <1>5, <1>6

LEMMA CloseStep ==
  ASSUME IInv, NEW t \in Threads, Close(t)
  PROVE  IInv'
<1> USE DEF IInv
<1>1. TypeOK'
  BY GpuQueueAssumption DEF Close, TypeOK, Serials, Calls, NoCall, None, HandlerStates, Used, CanCall
<1>2. Bookkeeping'
  BY GpuQueueAssumption DEF Close, Bookkeeping, TypeOK, Used, Serials, None, OneOwner, CanCall
<1>3. OneOwner'
  BY GpuQueueAssumption DEF Close, OneOwner, TypeOK, Bookkeeping, HandlersPlaced, Accounted, Used, Serials, None, CanCall
<1>4. HandlersPlaced'
  BY GpuQueueAssumption DEF Close, HandlersPlaced, TypeOK, Bookkeeping, OneOwner, Accounted, Used, Complete, Serials, None, HandlerStates, CanCall
<1>5. Accounted'
  BY GpuQueueAssumption DEF Close, Accounted, TypeOK, Bookkeeping, OneOwner, HandlersPlaced, Used, Complete, Executed, Serials, None, CanCall
<1>6. Teardown'
  <2>1. CASE closed' = Threads
    <3>1. group' = "dying" /\ pc' = [pc EXCEPT ![t] = "check"]
          /\ call' = [call EXCEPT ![t] = [kind |-> "waitIdle", serial |-> None, timed |-> FALSE]]
      BY <2>1 DEF Close
    <3>2. \A u \in Threads : u # t => u \in closed
      BY <2>1 DEF Close
    <3>3. \A u \in Threads : call[u].kind # "waitIdle"
      BY DEF Close, Teardown
    <3> QED
      BY <2>1, <3>1, <3>2, <3>3
      DEF Close, CanCall, Teardown, TypeOK, Calls, NoCall, Used, Serials, None
  <2>2. CASE closed' # Threads
    <3>1. UNCHANGED <<group, call, pc>>
      BY <2>2 DEF Close
    <3> QED
      BY <2>2, <3>1 DEF Close, CanCall, Teardown, TypeOK, Calls, NoCall, Used
  <2> QED
    BY <2>1, <2>2
<1> QED
  BY <1>1, <1>2, <1>3, <1>4, <1>5, <1>6

LEMMA GpuRunStep ==
  ASSUME IInv, GpuRun
  PROVE  IInv'
<1> USE DEF IInv
<1>1. TypeOK'
  BY GpuQueueAssumption DEF GpuRun, TypeOK, Serials, Calls, NoCall, None, HandlerStates, Used
<1>2. Bookkeeping'
  BY GpuQueueAssumption DEF GpuRun, Bookkeeping, TypeOK, Used, Serials, None, OneOwner
<1>3. OneOwner'
  BY GpuQueueAssumption DEF GpuRun, OneOwner, TypeOK, Bookkeeping, HandlersPlaced, Accounted, Used, Serials, None
<1>4. HandlersPlaced'
  BY GpuQueueAssumption DEF GpuRun, HandlersPlaced, TypeOK, Bookkeeping, OneOwner, Accounted, Used, Complete, Serials, None, HandlerStates
<1>5. Accounted'
  BY GpuQueueAssumption DEF GpuRun, Accounted, TypeOK, Bookkeeping, OneOwner, HandlersPlaced, Used, Complete, Executed, Serials, None
<1>6. Teardown'
  BY GpuQueueAssumption DEF GpuRun, Teardown, TypeOK, OneOwner, Bookkeeping, HandlersPlaced, Used, Calls, NoCall, Serials, None
<1> QED
  BY <1>1, <1>2, <1>3, <1>4, <1>5, <1>6

LEMMA HandlerEraseStep ==
  ASSUME IInv, NEW s \in Serials, HandlerErase(s)
  PROVE  IInv'
<1> USE DEF IInv
<1>1. TypeOK'
  BY GpuQueueAssumption DEF HandlerErase, TypeOK, Serials, Calls, NoCall, None, HandlerStates, Used
<1>2. Bookkeeping'
  BY GpuQueueAssumption DEF HandlerErase, Bookkeeping, TypeOK, Used, Serials, None, OneOwner
<1>3. OneOwner'
  BY GpuQueueAssumption DEF HandlerErase, OneOwner, TypeOK, Bookkeeping, HandlersPlaced, Accounted, Used, Serials, None
<1>4. HandlersPlaced'
  BY GpuQueueAssumption DEF HandlerErase, HandlersPlaced, TypeOK, Bookkeeping, OneOwner, Accounted, Used, Complete, Serials, None, HandlerStates
<1>5. Accounted'
  BY GpuQueueAssumption DEF HandlerErase, Accounted, TypeOK, Bookkeeping, OneOwner, HandlersPlaced, Used, Complete, Executed, Serials, None
<1>6. Teardown'
  BY GpuQueueAssumption DEF HandlerErase, Teardown, TypeOK, OneOwner, Bookkeeping, HandlersPlaced, Used, Calls, NoCall, Serials, None
<1> QED
  BY <1>1, <1>2, <1>3, <1>4, <1>5, <1>6

LEMMA HandlerNotifyStep ==
  ASSUME IInv, NEW s \in Serials, HandlerNotify(s)
  PROVE  IInv'
<1> USE DEF IInv
<1>1. TypeOK'
  BY GpuQueueAssumption DEF HandlerNotify, TypeOK, Serials, Calls, NoCall, None, HandlerStates, Used, Notified
<1>2. Bookkeeping'
  BY GpuQueueAssumption DEF HandlerNotify, Bookkeeping, TypeOK, Used, Serials, None, OneOwner, Notified
<1>3. OneOwner'
  BY GpuQueueAssumption DEF HandlerNotify, OneOwner, TypeOK, Bookkeeping, HandlersPlaced, Accounted, Used, Serials, None, Notified
<1>4. HandlersPlaced'
  BY GpuQueueAssumption DEF HandlerNotify, HandlersPlaced, TypeOK, Bookkeeping, OneOwner, Accounted, Used, Complete, Serials, None, HandlerStates, Notified
<1>5. Accounted'
  BY GpuQueueAssumption DEF HandlerNotify, Accounted, TypeOK, Bookkeeping, OneOwner, HandlersPlaced, Used, Complete, Executed, Serials, None, Notified
<1>6. Teardown'
  BY GpuQueueAssumption DEF HandlerNotify, Teardown, TypeOK, OneOwner, Bookkeeping, HandlersPlaced, Used, Calls, NoCall, Serials, None, Notified
<1> QED
  BY <1>1, <1>2, <1>3, <1>4, <1>5, <1>6

LEMMA HandlerReturnStep ==
  ASSUME IInv, NEW s \in Serials, HandlerReturn(s)
  PROVE  IInv'
<1> USE DEF IInv
<1>1. TypeOK'
  BY GpuQueueAssumption DEF HandlerReturn, TypeOK, Serials, Calls, NoCall, None, HandlerStates, Used
<1>2. Bookkeeping'
  BY GpuQueueAssumption DEF HandlerReturn, Bookkeeping, TypeOK, Used, Serials, None, OneOwner
<1>3. OneOwner'
  BY GpuQueueAssumption DEF HandlerReturn, OneOwner, TypeOK, Bookkeeping, HandlersPlaced, Accounted, Used, Serials, None
<1>4. HandlersPlaced'
  BY GpuQueueAssumption DEF HandlerReturn, HandlersPlaced, TypeOK, Bookkeeping, OneOwner, Accounted, Used, Complete, Serials, None, HandlerStates
<1>5. Accounted'
  BY GpuQueueAssumption DEF HandlerReturn, Accounted, TypeOK, Bookkeeping, OneOwner, HandlersPlaced, Used, Complete, Executed, Serials, None
<1>6. Teardown'
  BY GpuQueueAssumption DEF HandlerReturn, Teardown, TypeOK, OneOwner, Bookkeeping, HandlersPlaced, Used, Calls, NoCall, Serials, None
<1> QED
  BY <1>1, <1>2, <1>3, <1>4, <1>5, <1>6

LEMMA NextIInv == IInv /\ [Next]_vars => IInv'
<1> SUFFICES ASSUME IInv, [Next]_vars PROVE IInv'
  OBVIOUS
<1>1. CASE \E t \in Threads : ThreadStep(t)
  BY <1>1, CreateStep, CommitStep, SubmitStep, AbandonStep, IsCompleteStep,
     BeginWaitStep, WaitDoneStep, WaitSleepStep, WaitTimeoutStep,
     SpuriousWakeStep, CloseStep DEF ThreadStep
<1>2. CASE \E s \in Serials : HandlerStep(s)
  BY <1>2, HandlerEraseStep, HandlerNotifyStep, HandlerReturnStep DEF HandlerStep
<1>3. CASE UNCHANGED vars
  BY <1>3 DEF vars, IInv, TypeOK, Bookkeeping, OneOwner, HandlersPlaced,
              Accounted, Teardown, Used, Complete, Executed
<1> QED
  BY <1>1, <1>2, <1>3, GpuRunStep DEF Next, Finished

(* The invariant the other results follow from. *)
THEOREM Invariance == Spec => []IInv
<1> QED
  BY InitIInv, NextIInv, PTL DEF Spec

(* Every variable of the queue stays in its range. *)
THEOREM TypeCorrect == Spec => []TypeOK
<1>1. IInv => TypeOK
  BY DEF IInv
<1> QED
  BY <1>1, Invariance, PTL

(* A serial reported complete is work the GPU has finished, or that was    *)
(* dropped.                                                                *)
THEOREM SignaledIsSafe == Spec => []SignaledIsDone
<1>1. IInv => SignaledIsDone
  BY DEF IInv, Accounted, SignaledIsDone
<1> QED
  BY <1>1, Invariance, PTL

(* Nothing touches the queue after ~ShareGroup destroyed it. *)
THEOREM DestructionIsSafe == Spec => []DestroyedUntouched
<1>1. ASSUME IInv, group = "destroyed" PROVE DestroyedUntouched
  <2>1. \A s \in Serials : handler[s] \in {"none", "returned"}
    BY <1>1 DEF IInv, TypeOK, Teardown, HandlersPlaced, HandlerStates, Serials, None
  <2>2. \A t \in Threads : pc[t] = "run" /\ submitting[t] = None
    BY <1>1 DEF IInv, TypeOK, Teardown, Calls, NoCall
  <2> QED
    BY <1>1, <2>1, <2>2 DEF IInv, Teardown, DestroyedUntouched
<1>2. IInv => DestroyedUntouched
  BY <1>1 DEF DestroyedUntouched
<1> QED
  BY <1>2, Invariance, PTL

(* isComplete() never takes an answer back. *)
THEOREM CompletionStays == Spec => CompletionIsFinal
<1>1. ASSUME IInv, [Next]_vars, NEW s \in Serials, s \in Used, Complete(s)
      PROVE  Complete(s)'
  <2>1. ASSUME NEW t \in Threads, ThreadStep(t) PROVE Complete(s)'
    BY <1>1, <2>1 DEF ThreadStep, Create, Commit, Submit, Abandon, IsComplete,
         BeginWait, WaitDone, WaitSleep, WaitTimeout, SpuriousWake, Close,
         IInv, TypeOK, OneOwner, Complete, Used, Serials
  <2>2. ASSUME NEW r \in Serials, HandlerStep(r) PROVE Complete(s)'
    BY <1>1, <2>2 DEF HandlerStep, HandlerErase, HandlerNotify, HandlerReturn, Complete
  <2>3. CASE GpuRun \/ UNCHANGED vars
    BY <1>1, <2>3 DEF GpuRun, vars, Complete
  <2> QED
    BY <1>1, <2>1, <2>2, <2>3 DEF Next, Finished
<1>2. IInv /\ [Next]_vars =>
        [\A s \in Serials : s \in Used /\ Complete(s) => Complete(s)']_vars
  BY <1>1
<1> QED
  BY <1>2, Invariance, PTL DEF Spec, CompletionIsFinal

-----------------------------------------------------------------------------
(* Every step of the queue is a step of the contract or leaves it alone.   *)

(* The contract moves serial s from one state to another when the queue's  *)
(* own variables change for s alone.                                       *)
LEMMA BecomeStep ==
  ASSUME NEW s \in Serials, NEW from, NEW to,
         WorkOf(s) = from, WorkOf(s)' = to,
         \A r \in Serials : r # s => WorkOf(r)' = WorkOf(r),
         signaled' = signaled
  PROVE  Contract!Become(s, from, to)
<1>1. WorkState' = [WorkState EXCEPT ![s] = to]
  BY DEF WorkState
<1>2. WorkState[s] = from
  BY DEF WorkState
<1> QED
  BY <1>1, <1>2 DEF Contract!Become

LEMMA SameWork ==
  ASSUME UNCHANGED <<next, reserved, abandoned>>,
         \A r \in Serials : handler'[r] = "none" <=> handler[r] = "none"
  PROVE  WorkState' = WorkState
<1>1. \A r \in Serials : WorkOf(r)' = WorkOf(r)
  BY DEF WorkOf
<1> QED
  BY <1>1 DEF WorkState

LEMMA ReportStep ==
  ASSUME IInv, NEW s \in Used, Complete(s), signaled' = signaled \cup {s},
         UNCHANGED <<next, reserved, abandoned, handler>>
  PROVE  Contract!Next
<1>1. WorkOf(s) \in {"executed", "dropped"}
  BY DEF IInv, TypeOK, Accounted, Complete, Executed, Used, Serials, WorkOf
<1>2. s \in Serials /\ WorkState[s] = WorkOf(s)
  BY DEF Used, WorkState
<1>3. WorkState' = WorkState
  BY SameWork
<1>4. Contract!Report(s)
  BY <1>1, <1>2, <1>3 DEF Contract!Report
<1> QED
  BY <1>2, <1>4 DEF Contract!Next, Contract!Numbers, Serials

LEMMA RefinementStep ==
  ASSUME IInv, IInv', [Next]_vars
  PROVE  [Contract!Next]_(Contract!contractVars)
<1> DEFINE Stutters == WorkState' = WorkState /\ signaled' = signaled
<1> USE DEF IInv
<1>1. ASSUME Stutters PROVE [Contract!Next]_(Contract!contractVars)
  BY <1>1 DEF Contract!contractVars
<1>2. ASSUME NEW t \in Threads, Create(t) PROVE Contract!Next
  <2>1. PICK s \in Serials : s = next
    BY <1>2, GpuQueueAssumption DEF Create, TypeOK, Serials
  <2>2. \A r \in 1 .. s - 1 : WorkState[r] # "unused"
    BY <2>1, GpuQueueAssumption DEF WorkState, WorkOf, Serials, TypeOK
  <2>3. WorkOf(s) = "unused" /\ WorkOf(s)' = "recording"
    BY <1>2, <2>1, GpuQueueAssumption DEF Create, TypeOK, Serials, WorkOf
  <2>4. \A r \in Serials : r # s => WorkOf(r)' = WorkOf(r)
    BY <1>2, <2>1, GpuQueueAssumption DEF Create, TypeOK, Serials, WorkOf
  <2>5. Contract!Become(s, "unused", "recording")
    BY <1>2, <2>3, <2>4, BecomeStep DEF Create
  <2> QED
    BY <2>2, <2>5 DEF Contract!Next, Contract!Open, Contract!Numbers, Serials
<1>3. ASSUME NEW t \in Threads, Commit(t) PROVE Contract!Next
  <2>1. PICK s \in Serials : s = open[t]
    BY <1>3 DEF Commit, TypeOK
  <2>2. WorkOf(s) = "recording" /\ WorkOf(s)' = "submitted"
    BY <1>3, <2>1, GpuQueueAssumption
    DEF Commit, TypeOK, Serials, WorkOf, Bookkeeping, OneOwner, HandlersPlaced,
        Accounted, Complete, Used
  <2>3. \A r \in Serials : r # s => WorkOf(r)' = WorkOf(r)
    BY <1>3, <2>1 DEF Commit, WorkOf
  <2> QED
    BY <1>3, <2>2, <2>3, BecomeStep
    DEF Commit, Contract!Next, Contract!Submit, Contract!Numbers, Serials
<1>4. ASSUME NEW t \in Threads, Abandon(t) PROVE Contract!Next
  <2>1. PICK s \in Serials : s = open[t]
    BY <1>4 DEF Abandon, TypeOK
  <2>2. WorkOf(s) = "recording" /\ WorkOf(s)' = "dropped"
    BY <1>4, <2>1, GpuQueueAssumption
    DEF Abandon, TypeOK, Serials, WorkOf, Bookkeeping, OneOwner, Used
  <2>3. \A r \in Serials : r # s => WorkOf(r)' = WorkOf(r)
    BY <1>4, <2>1 DEF Abandon, WorkOf
  <2> QED
    BY <1>4, <2>2, <2>3, BecomeStep
    DEF Abandon, Contract!Next, Contract!Drop, Contract!Numbers, Serials
<1>5. ASSUME GpuRun PROVE Contract!Next
  <2>1. PICK s \in Serials : s = Head(gpu) /\ s \in inflight /\ handler[s] = "none"
    BY <1>5 DEF GpuRun, TypeOK, OneOwner
  <2>2. WorkOf(s) = "submitted" /\ WorkOf(s)' = "executed"
    BY <1>5, <2>1, GpuQueueAssumption
    DEF GpuRun, TypeOK, Serials, WorkOf, Bookkeeping, Accounted, Complete, Used
  <2>3. \A r \in Serials : r # s => WorkOf(r)' = WorkOf(r)
    BY <1>5, <2>1 DEF GpuRun, TypeOK, WorkOf
  <2> QED
    BY <1>5, <2>2, <2>3, BecomeStep
    DEF GpuRun, Contract!Next, Contract!Execute, Contract!Numbers, Serials
<1>6. ASSUME NEW t \in Threads, IsComplete(t) PROVE Contract!Next
  BY <1>6, ReportStep DEF IsComplete
<1>7. ASSUME NEW t \in Threads, WaitDone(t) \/ WaitTimeout(t)
      PROVE  [Contract!Next]_(Contract!contractVars)
  <2>1. UNCHANGED <<next, reserved, abandoned, handler>>
    BY <1>7 DEF WaitDone, WaitTimeout
  <2>2. CASE signaled' = signaled
    BY <1>1, <2>1, <2>2, SameWork
  <2>3. CASE signaled' # signaled
    <3>1. Done(call[t]) /\ signaled' = signaled \cup Told(call[t])
      BY <1>7, <2>3 DEF WaitDone, WaitTimeout
    <3>2. call[t].kind \in {"wait", "waitSignaled"}
      BY <2>3, <3>1 DEF Told
    <3>3. call[t].serial \in Used /\ Complete(call[t].serial)
      BY <2>3, <3>1, <3>2 DEF Done, Told, Complete, Teardown
    <3>4. Told(call[t]) = {call[t].serial}
      BY <3>2, <3>3 DEF Told, Complete
    <3>5. PICK s \in Used : Complete(s) /\ signaled' = signaled \cup {s}
      BY <3>1, <3>3, <3>4
    <3> QED
      BY <2>1, <3>5, ReportStep
  <2> QED
    BY <2>2, <2>3
<1>8. ASSUME NEW t \in Threads,
             Submit(t) \/ BeginWait(t) \/ WaitSleep(t) \/ SpuriousWake(t) \/ Close(t)
      PROVE  Stutters
  BY <1>8, SameWork DEF Submit, BeginWait, WaitSleep, SpuriousWake, Close
<1>9. ASSUME NEW s \in Serials, HandlerStep(s) PROVE Stutters
  BY <1>9, SameWork DEF HandlerStep, HandlerErase, HandlerNotify, HandlerReturn, TypeOK
<1>10. CASE UNCHANGED vars
  BY <1>1, <1>10, SameWork DEF vars
<1> QED
  BY <1>1, <1>2, <1>3, <1>4, <1>5, <1>6, <1>7, <1>8, <1>9, <1>10
  DEF Next, ThreadStep, Finished

(* The queue implements the contract made to the holders of a serial (its  *)
(* safety part; the run queue_liveness also checks that submitted work is  *)
(* executed).                                                              *)
THEOREM Refinement == Spec => Contract!SafetySpec
<1>1. Init => Contract!Init
  <2> SUFFICES ASSUME Init PROVE Contract!Init
    OBVIOUS
  <2>1. \A s \in Serials : WorkOf(s) = "unused"
    BY DEF Init, Serials, WorkOf
  <2> QED
    BY <2>1 DEF Init, Contract!Init, Contract!Numbers, WorkState, Serials
<1> QED
  BY <1>1, RefinementStep, Invariance, PTL DEF Spec, Contract!SafetySpec

=============================================================================

---------------------------- MODULE MailboxProofs ----------------------------
(***************************************************************************)
(* Proofs about Mailbox, for any number of slots and frames, about the     *)
(* windows of a Cocoa host (WindowHost) and about the log (Log), which     *)
(* share no state.                                                         *)
(***************************************************************************)
EXTENDS Mailbox, WindowHost, Log, FiniteSetTheorems, SequenceTheorems, TLAPS

(* What the elements of the queues are.                                    *)
LEMMA Elements ==
  ASSUME TypeOK
  PROVE  /\ Len(copied) \in Nat /\ \A i \in 1 .. Len(copied) : copied[i] \in Slots
         /\ Len(copies) \in Nat /\ \A i \in 1 .. Len(copies) : copies[i] \in Slots
         /\ Len(presented) \in Nat
         /\ \A i \in 1 .. Len(presented) : presented[i] \in Slots
         /\ Len(presents) \in Nat
         /\ \A i \in 1 .. Len(presents) :
              presents[i].slot \in Slots /\ presents[i].frame \in Int
         /\ target \in Slots /\ taken.slot \in Slots /\ taken.frame \in Int
         /\ \A s \in Slots : sequence[s] \in Int
         /\ newest \in Int /\ finished \in Int /\ nextSeq \in Int
<1>1. \A i \in 1 .. Len(presents) : presents[i] \in Present
  BY ElementOfSeq DEF TypeOK
<1>2. /\ \A i \in 1 .. Len(copied) : copied[i] \in Slots
      /\ \A i \in 1 .. Len(copies) : copies[i] \in Slots
      /\ \A i \in 1 .. Len(presented) : presented[i] \in Slots
  BY ElementOfSeq DEF TypeOK
<1>3. /\ Len(copied) \in Nat /\ Len(copies) \in Nat
      /\ Len(presented) \in Nat /\ Len(presents) \in Nat
  BY LenProperties DEF TypeOK
<1>4. \A s \in Slots : sequence[s] \in Int
  BY MailboxAssumption DEF TypeOK
<1>5. newest \in Int /\ finished \in Int /\ nextSeq \in Int
  BY MailboxAssumption DEF TypeOK
<1>6. target \in Slots /\ taken.slot \in Slots /\ taken.frame \in Int
  BY DEF TypeOK, Present, Frames
<1>7. \A i \in 1 .. Len(presents) : presents[i].slot \in Slots /\ presents[i].frame \in Int
  BY <1>1 DEF Present, Frames
<1> QED
  BY <1>2, <1>3, <1>4, <1>5, <1>6, <1>7

(* What Append and Tail do to a sequence's places.                         *)
LEMMA Appended ==
  ASSUME NEW S, NEW q \in Seq(S), NEW e \in S
  PROVE  /\ Append(q, e) \in Seq(S)
         /\ \A i \in 1 .. Len(Append(q, e)) :
              \/ i \in 1 .. Len(q) /\ Append(q, e)[i] = q[i]
              \/ i > Len(q) /\ Append(q, e)[i] = e
         /\ \A i, j \in 1 .. Len(Append(q, e)) : i < j => i \in 1 .. Len(q)
<1>1. /\ Len(q) \in Nat /\ Len(Append(q, e)) = Len(q) + 1 /\ Append(q, e) \in Seq(S)
      /\ \A i \in 1 .. Len(q) : Append(q, e)[i] = q[i]
      /\ Append(q, e)[Len(q) + 1] = e
  BY AppendProperties, LenProperties
<1> QED
  BY <1>1

LEMMA Removed ==
  ASSUME NEW S, NEW q \in Seq(S), q # <<>>
  PROVE  /\ Tail(q) \in Seq(S) /\ Head(q) \in S /\ Head(q) = q[1]
         /\ 1 \in 1 .. Len(q)
         /\ \A i \in 1 .. Len(Tail(q)) :
              i + 1 \in 1 .. Len(q) /\ 1 < i + 1 /\ Tail(q)[i] = q[i + 1]
         /\ \A i, j \in 1 .. Len(Tail(q)) : i < j => i + 1 < j + 1
<1>1. /\ Len(q) \in Nat \ {0} /\ Tail(q) \in Seq(S) /\ Head(q) \in S /\ Head(q) = q[1]
      /\ Len(Tail(q)) = Len(q) - 1
      /\ \A i \in 1 .. Len(Tail(q)) : Tail(q)[i] = q[i + 1]
  BY HeadTailProperties, EmptySeq
<1> QED
  BY <1>1

LEMMA InitIInv == Init => IInv
<1> SUFFICES ASSUME Init PROVE IInv
  OBVIOUS
<1>1. TypeOK
  <2>1. state \in [Slots -> SlotStates] /\ target \in Slots
    BY MailboxAssumption DEF Init, Slots, SlotStates
  <2>2. taken \in Present
    BY MailboxAssumption DEF Init, Present, Slots, Frames
  <2>3. sequence \in [Slots -> 0 .. MaxFrames] /\ content \in [Slots -> 0 .. MaxFrames]
    BY MailboxAssumption DEF Init
  <2>4. nextSeq \in 1 .. MaxFrames + 1 /\ newest \in 0 .. MaxFrames /\ finished \in 0 .. MaxFrames
    BY MailboxAssumption DEF Init
  <2>5. /\ copies \in Seq(Slots) /\ copied \in Seq(Slots)
        /\ presents \in Seq(Present) /\ presented \in Seq(Slots)
    BY EmptySeq DEF Init
  <2> QED
    BY <2>1, <2>2, <2>3, <2>4, <2>5 DEF Init, TypeOK
<1>2. Phases /\ CopiesPending /\ CopiesInOrder /\ PresentsKept /\ PresentsInOrder
  BY DEF Init, Phases, CopiesPending, CopiesInOrder, PresentsKept, PresentsInOrder, Held
<1>3. ReadyIsNewer /\ ContentKept /\ FreedUnused
  BY DEF Init, ReadyIsNewer, ContentKept, FreedUnused
<1> QED
  BY <1>1, <1>2, <1>3 DEF IInv

LEMMA MakeStep ==
  ASSUME IInv, Make
  PROVE  IInv'
<1> USE DEF IInv
<1>1. TypeOK'
  <2>1. state' \in [Slots -> SlotStates] /\ sequence' \in [Slots -> 0 .. MaxFrames]
    BY MailboxAssumption DEF Make, SlotStates
  <2>2. /\ nextSeq' \in 1 .. MaxFrames + 1 /\ newest' \in 0 .. MaxFrames
        /\ finished' \in 0 .. MaxFrames
    BY MailboxAssumption DEF Make
  <2> QED
    BY <2>1, <2>2 DEF Make, TypeOK
<1>2. Phases'
  BY MailboxAssumption DEF Make, Phases
<1>3. CopiesPending'
  BY DEF Make, FreedUnused, CopiesPending
<1>4. CopiesInOrder'
  BY DEF Make, FreedUnused, CopiesInOrder
<1>5. PresentsKept'
  BY DEF Make, FreedUnused, PresentsKept, Held
<1>6. PresentsInOrder'
  BY DEF Make, FreedUnused, PresentsInOrder, Held
<1>7. ReadyIsNewer'
  BY DEF Make, ReadyIsNewer
<1>8. ContentKept'
  BY DEF Make, FreedUnused, ContentKept
<1>9. FreedUnused'
  BY DEF Make, FreedUnused, Phases
<1> QED
  BY <1>1, <1>2, <1>3, <1>4, <1>5, <1>6, <1>7, <1>8, <1>9

LEMMA BeginSwapStep ==
  ASSUME IInv, BeginSwap
  PROVE  IInv'
<1> USE DEF IInv
<1>1. PresentsKept' /\ PresentsInOrder' /\ ReadyIsNewer' /\ ContentKept' /\ FreedUnused'
  BY DEF BeginSwap, PresentsKept, PresentsInOrder, ReadyIsNewer, ContentKept, FreedUnused, Shown, Held
<1>2. TypeOK'
  BY MailboxAssumption DEF BeginSwap, TypeOK
<1>3. Phases'
  BY DEF BeginSwap, Phases, TypeOK
<1>4. CopiesPending'
  BY DEF BeginSwap, CopiesPending, Copying
<1>5. CopiesInOrder'
  BY DEF BeginSwap, CopiesInOrder
<1> QED
  BY <1>1, <1>2, <1>3, <1>4, <1>5

LEMMA AcquireStep ==
  ASSUME IInv, Acquire
  PROVE  IInv'
<1> USE DEF IInv
<1>1. PICK s \in Slots : /\ state[s] \in {"Free", "Ready"}
                         /\ target' = s
                         /\ state' = [state EXCEPT ![s] = "Pending"]
                         /\ sequence' = [sequence EXCEPT ![s] = nextSeq]
  BY DEF Acquire, Acquirable, In
<1>2. /\ producer = "acquire" /\ producer' = "copy" /\ nextSeq' = nextSeq + 1
      /\ UNCHANGED <<alive, stop, presenter, taken, copies, copied, presents,
                     presented, notifying, content, newest, finished>>
  BY DEF Acquire
<1>3. nextSeq <= MaxFrames
  BY <1>2 DEF Phases
<1>4. \A r \in Slots : r # s => state'[r] = state[r] /\ sequence'[r] = sequence[r]
  BY <1>1 DEF TypeOK
<1>5. state'[s] = "Pending" /\ sequence'[s] = nextSeq
  BY <1>1 DEF TypeOK
<1>6. TypeOK'
  BY <1>1, <1>2, <1>3, MailboxAssumption DEF TypeOK, SlotStates
<1>7. Phases' /\ FreedUnused'
  BY <1>1, <1>2 DEF Phases, FreedUnused
<1>8. /\ \A i \in 1 .. Len(copied) : copied[i] # s
      /\ \A i \in 1 .. Len(copies) : copies[i] # s
  BY <1>1 DEF CopiesPending, Copying
<1>9. CopiesPending'
  <2>1. nextSeq \in Int /\ finished \in Int /\ finished < nextSeq
    BY Elements DEF CopiesPending
  <2>2. Copying(s)' /\ finished' < nextSeq'
    <3>1. nextSeq' \in Int /\ finished' = finished /\ nextSeq' = nextSeq + 1
      BY <1>2, <2>1
    <3> QED
      BY <1>5, <2>1, <3>1 DEF Copying
  <2>3. ASSUME NEW r \in Slots \ {s}, Copying(r)
        PROVE  Copying(r)'
    BY <1>2, <1>4, <2>1, <2>3, Elements DEF Copying
  <2>4. /\ \A i \in 1 .. Len(copied) : copied[i] \in Slots \ {s} /\ Copying(copied[i])
        /\ \A i \in 1 .. Len(copies) : copies[i] \in Slots \ {s} /\ Copying(copies[i])
    BY <1>8, Elements DEF CopiesPending
  <2>5. /\ \A i \in 1 .. Len(copied) : Copying(copied[i])'
        /\ \A i \in 1 .. Len(copies) : Copying(copies[i])'
    BY <1>2, <2>3, <2>4
  <2> QED
    BY <1>1, <1>2, <2>2, <2>5 DEF CopiesPending
<1>10. CopiesInOrder'
  <2>1. /\ \A i \in 1 .. Len(copied) : /\ copied[i] \in Slots \ {s}
                                        /\ sequence[copied[i]] < nextSeq
        /\ \A i \in 1 .. Len(copies) : /\ copies[i] \in Slots \ {s}
                                        /\ sequence[copies[i]] < nextSeq
    BY <1>8, Elements DEF CopiesPending, Copying
  <2> QED
    BY <1>1, <1>2, <1>4, <1>5, <2>1 DEF CopiesInOrder
<1>11. /\ \A i \in 1 .. Len(presented) : presented[i] # s
       /\ \A i \in 1 .. Len(presents) : presents[i].slot # s
       /\ Held => taken.slot # s
  BY <1>1 DEF PresentsKept, Shown
<1>12. PresentsKept'
  <2>1. \A r \in Slots \ {s} : state'[r] = state[r] /\ sequence'[r] = sequence[r]
    BY <1>4
  <2>2. \A i \in 1 .. Len(presented) :
          state'[presented[i]] = "Presenting" /\ sequence'[presented[i]] <= newest
    BY <1>11, <2>1, Elements DEF PresentsKept
  <2>3. \A i \in 1 .. Len(presents) : Shown(presents[i])'
    BY <1>2, <1>11, <2>1, Elements DEF PresentsKept, Shown
  <2>4. Held => Shown(taken)' /\ taken.frame = newest
    BY <1>2, <1>11, <2>1, Elements DEF PresentsKept, Shown
  <2> QED
    BY <1>2, <2>2, <2>3, <2>4 DEF PresentsKept, Held
<1>13. PresentsInOrder'
  BY <1>2, <1>4, <1>11, Elements DEF PresentsInOrder, Held
<1>14. ReadyIsNewer'
  BY <1>2, <1>4, <1>5 DEF ReadyIsNewer
<1>15. ContentKept'
  BY <1>2, <1>4, <1>5, <1>8, Elements DEF ContentKept
<1> QED
  BY <1>6, <1>7, <1>9, <1>10, <1>12, <1>13, <1>14, <1>15

LEMMA AcquireSleepStep ==
  ASSUME IInv, AcquireSleep
  PROVE  IInv'
<1> USE DEF IInv
<1>1. PresentsKept' /\ PresentsInOrder' /\ ReadyIsNewer' /\ ContentKept' /\ FreedUnused'
  BY DEF AcquireSleep, PresentsKept, PresentsInOrder, ReadyIsNewer, ContentKept, FreedUnused, Shown, Held
<1>2. TypeOK'
  BY MailboxAssumption DEF AcquireSleep, TypeOK
<1>3. Phases'
  BY DEF AcquireSleep, Phases, TypeOK
<1>4. CopiesPending'
  BY DEF AcquireSleep, CopiesPending, Copying
<1>5. CopiesInOrder'
  BY DEF AcquireSleep, CopiesInOrder
<1> QED
  BY <1>1, <1>2, <1>3, <1>4, <1>5

LEMMA CopyStep ==
  ASSUME IInv, Copy
  PROVE  IInv'
<1> USE DEF IInv
<1>1. /\ copies' \in Seq(Slots)
      /\ \A i \in 1 .. Len(copies') :
           \/ i \in 1 .. Len(copies) /\ copies'[i] = copies[i]
           \/ i > Len(copies) /\ copies'[i] = target
      /\ \A i, j \in 1 .. Len(copies') : i < j => i \in 1 .. Len(copies)
  BY Appended DEF Copy, TypeOK
<1>2. /\ producer = "copy" /\ producer' = "idle" /\ alive
      /\ UNCHANGED <<alive, state, sequence, nextSeq, stop, target, presenter,
                     taken, copied, presents, presented, notifying, content,
                     newest, finished>>
  BY DEF Copy, Phases
<1>3. TypeOK' /\ Phases' /\ FreedUnused'
  BY <1>1, <1>2 DEF TypeOK, Phases, FreedUnused
<1>4. PresentsKept' /\ PresentsInOrder' /\ ReadyIsNewer' /\ ContentKept'
  BY <1>2 DEF PresentsKept, PresentsInOrder, ReadyIsNewer, ContentKept, Shown, Held
<1>5. CopiesPending'
  BY <1>1, <1>2 DEF CopiesPending, Copying
<1>6. CopiesInOrder'
  <2>1. ASSUME NEW i \in 1 .. Len(copies'), NEW j \in 1 .. Len(copies'), i < j
        PROVE  sequence[copies'[i]] < sequence[copies'[j]]
    <3>1. i \in 1 .. Len(copies) /\ copies'[i] = copies[i]
      BY <1>1, <2>1, Elements
    <3> QED
      BY <1>1, <1>2, <2>1, <3>1 DEF CopiesInOrder
  <2>2. ASSUME NEW i \in 1 .. Len(copied), NEW j \in 1 .. Len(copies')
        PROVE  sequence[copied[i]] < sequence[copies'[j]]
    BY <1>1, <1>2 DEF CopiesInOrder
  <2> QED
    BY <1>2, <2>1, <2>2 DEF CopiesInOrder
<1> QED
  BY <1>3, <1>4, <1>5, <1>6

LEMMA BeginStopStep ==
  ASSUME IInv, BeginStop
  PROVE  IInv'
<1> USE DEF IInv
<1>1. PresentsKept' /\ PresentsInOrder' /\ ReadyIsNewer' /\ ContentKept' /\ FreedUnused'
  BY DEF BeginStop, PresentsKept, PresentsInOrder, ReadyIsNewer, ContentKept, FreedUnused, Shown, Held
<1>2. TypeOK'
  BY MailboxAssumption DEF BeginStop, TypeOK
<1>3. Phases'
  BY DEF BeginStop, Phases, TypeOK
<1>4. CopiesPending'
  BY DEF BeginStop, CopiesPending, Copying
<1>5. CopiesInOrder'
  BY DEF BeginStop, CopiesInOrder
<1> QED
  BY <1>1, <1>2, <1>3, <1>4, <1>5

LEMMA StopNotifyStep ==
  ASSUME IInv, StopNotify
  PROVE  IInv'
<1> USE DEF IInv
<1>1. ReadyIsNewer' /\ ContentKept'
  BY DEF StopNotify, ReadyIsNewer, ContentKept
<1>2. TypeOK'
  BY MailboxAssumption DEF StopNotify, TypeOK, Woken
<1>3. Phases'
  BY DEF StopNotify, Phases, Woken, TypeOK
<1>4. CopiesPending'
  BY DEF StopNotify, CopiesPending, Copying, Woken
<1>5. CopiesInOrder'
  BY DEF StopNotify, CopiesInOrder, Woken
<1>6. PresentsKept'
  BY DEF StopNotify, PresentsKept, Shown, Held, Woken
<1>7. PresentsInOrder'
  BY DEF StopNotify, PresentsInOrder, Held, Woken
<1>8. FreedUnused'
  BY DEF StopNotify, FreedUnused, Woken, Phases
<1> QED
  BY <1>1, <1>2, <1>3, <1>4, <1>5, <1>6, <1>7, <1>8

LEMMA JoinStep ==
  ASSUME IInv, Join
  PROVE  IInv'
<1> USE DEF IInv
<1>1. PresentsKept' /\ PresentsInOrder' /\ ReadyIsNewer' /\ ContentKept' /\ FreedUnused'
  BY DEF Join, PresentsKept, PresentsInOrder, ReadyIsNewer, ContentKept, FreedUnused, Shown, Held
<1>2. TypeOK'
  BY MailboxAssumption DEF Join, TypeOK
<1>3. Phases'
  BY DEF Join, Phases, TypeOK
<1>4. CopiesPending'
  BY DEF Join, CopiesPending, Copying
<1>5. CopiesInOrder'
  BY DEF Join, CopiesInOrder
<1> QED
  BY <1>1, <1>2, <1>3, <1>4, <1>5

LEMMA FreeStep ==
  ASSUME IInv, Free
  PROVE  IInv'
<1> USE DEF IInv
<1>1. ReadyIsNewer' /\ ContentKept'
  BY DEF Free, ReadyIsNewer, ContentKept
<1>2. TypeOK'
  BY MailboxAssumption DEF Free, TypeOK, Drained, In, MutexFree
<1>3. Phases'
  BY DEF Free, Phases, Drained, In, MutexFree, TypeOK
<1>4. CopiesPending'
  BY DEF Free, CopiesPending, Copying, Drained, In, MutexFree
<1>5. CopiesInOrder'
  BY DEF Free, CopiesInOrder, Drained, In, MutexFree
<1>6. PresentsKept'
  BY DEF Free, Phases, PresentsKept, Shown, Held
<1>7. PresentsInOrder'
  BY DEF Free, Phases, PresentsInOrder, Held
<1>8. FreedUnused'
  <2>1. ~(Len(copies) \in Nat \ {0}) /\ ~(Len(copied) \in Nat \ {0})
    <3>1. In("Pending") = {}
      BY DEF Free, Drained
    <3>2. \A i \in 1 .. Len(copies) :
            copies[i] \in Slots /\ state[copies[i]] = "Pending"
      BY Elements DEF CopiesPending, Copying
    <3>3. \A i \in 1 .. Len(copied) :
            copied[i] \in Slots /\ state[copied[i]] = "Pending"
      BY Elements DEF CopiesPending, Copying
    <3>4. ~(Len(copies) \in Nat \ {0})
      BY <3>1, <3>2 DEF In
    <3>5. ~(Len(copied) \in Nat \ {0})
      BY <3>1, <3>3 DEF In
    <3> QED
      BY <3>4, <3>5
  <2>2. ~(Len(presents) \in Nat \ {0}) /\ ~(Len(presented) \in Nat \ {0})
    <3>1. In("Presenting") = {}
      BY DEF Free, Drained
    <3>2. \A i \in 1 .. Len(presents) :
            presents[i].slot \in Slots /\ state[presents[i].slot] = "Presenting"
      BY Elements DEF PresentsKept, Shown
    <3>3. \A i \in 1 .. Len(presented) :
            presented[i] \in Slots /\ state[presented[i]] = "Presenting"
      BY Elements DEF PresentsKept
    <3>4. ~(Len(presents) \in Nat \ {0})
      BY <3>1, <3>2 DEF In
    <3>5. ~(Len(presented) \in Nat \ {0})
      BY <3>1, <3>3 DEF In
    <3> QED
      BY <3>4, <3>5
  <2>3. copies = <<>> /\ copied = <<>> /\ presents = <<>> /\ presented = <<>>
    BY <2>1, <2>2, EmptySeq DEF TypeOK
  <2> QED
    BY <2>3 DEF Free, MutexFree, FreedUnused
<1> QED
  BY <1>1, <1>2, <1>3, <1>4, <1>5, <1>6, <1>7, <1>8

LEMMA DrainSleepStep ==
  ASSUME IInv, DrainSleep
  PROVE  IInv'
<1> USE DEF IInv
<1>1. PresentsKept' /\ PresentsInOrder' /\ ReadyIsNewer' /\ ContentKept' /\ FreedUnused'
  BY DEF DrainSleep, PresentsKept, PresentsInOrder, ReadyIsNewer, ContentKept, FreedUnused, Shown, Held
<1>2. TypeOK'
  BY MailboxAssumption DEF DrainSleep, TypeOK
<1>3. Phases'
  BY DEF DrainSleep, Phases, TypeOK
<1>4. CopiesPending'
  BY DEF DrainSleep, CopiesPending, Copying
<1>5. CopiesInOrder'
  BY DEF DrainSleep, CopiesInOrder
<1> QED
  BY <1>1, <1>2, <1>3, <1>4, <1>5

LEMMA PresenterSleepStep ==
  ASSUME IInv, PresenterSleep
  PROVE  IInv'
<1> USE DEF IInv
<1>1. CopiesPending' /\ CopiesInOrder' /\ ReadyIsNewer' /\ ContentKept'
  BY DEF PresenterSleep, CopiesPending, CopiesInOrder, ReadyIsNewer, ContentKept, Copying
<1>2. TypeOK'
  BY MailboxAssumption DEF PresenterSleep, TypeOK
<1>3. Phases'
  BY DEF PresenterSleep, Phases, TypeOK
<1>4. PresentsKept'
  BY DEF PresenterSleep, PresentsKept, Shown, Held
<1>5. PresentsInOrder'
  BY DEF PresenterSleep, PresentsInOrder, Held
<1>6. FreedUnused'
  BY DEF PresenterSleep, FreedUnused, Phases
<1> QED
  BY <1>1, <1>2, <1>3, <1>4, <1>5, <1>6

LEMMA PresenterExitStep ==
  ASSUME IInv, PresenterExit
  PROVE  IInv'
<1> USE DEF IInv
<1>1. CopiesPending' /\ CopiesInOrder' /\ ReadyIsNewer' /\ ContentKept'
  BY DEF PresenterExit, CopiesPending, CopiesInOrder, ReadyIsNewer, ContentKept, Copying
<1>2. TypeOK'
  BY MailboxAssumption DEF PresenterExit, TypeOK
<1>3. Phases'
  BY DEF PresenterExit, Phases, TypeOK
<1>4. PresentsKept'
  BY DEF PresenterExit, PresentsKept, Shown, Held
<1>5. PresentsInOrder'
  BY DEF PresenterExit, PresentsInOrder, Held
<1>6. FreedUnused'
  BY DEF PresenterExit, FreedUnused, Phases
<1> QED
  BY <1>1, <1>2, <1>3, <1>4, <1>5, <1>6

LEMMA TakeStep ==
  ASSUME IInv, Take
  PROVE  IInv'
<1> USE DEF IInv
<1>1. PICK s \in Slots : /\ state[s] = "Ready"
                         /\ state' = TakeOnly(s)
                         /\ taken' = [slot |-> s, frame |-> sequence[s]]
                         /\ newest' = sequence[s]
  BY DEF Take, In
<1>2. /\ presenter = "check" /\ presenter' = "notify"
      /\ UNCHANGED <<alive, sequence, nextSeq, stop, producer, target, copies,
                     copied, presents, presented, notifying, content, finished>>
  BY DEF Take
<1>3. newest < sequence[s] /\ sequence[s] <= finished
  BY <1>1 DEF ReadyIsNewer
<1>4. /\ \A r \in Slots : state[r] \in {"Pending", "Presenting"} => state'[r] = state[r]
      /\ state'[s] = "Presenting"
      /\ \A r \in Slots : state'[r] # "Ready"
      /\ \A r \in Slots \ {s} : state'[r] = "Presenting" => state[r] = "Presenting"
  BY <1>1 DEF TakeOnly
<1>5. TypeOK'
  <2>1. sequence[s] \in Frames /\ sequence[s] \in 0 .. MaxFrames
    BY <1>1, <1>3, MailboxAssumption DEF TypeOK, Frames
  <2>2. state' \in [Slots -> SlotStates]
    BY <1>1 DEF TakeOnly, TypeOK, SlotStates
  <2> QED
    BY <1>1, <1>2, <2>1, <2>2 DEF TypeOK, Present
<1>6. Phases' /\ FreedUnused' /\ CopiesInOrder'
  BY <1>2 DEF Phases, FreedUnused, CopiesInOrder
<1>7. CopiesPending'
  BY <1>2, <1>4, Elements DEF CopiesPending, Copying
<1>8. taken'.slot = s /\ taken'.frame = newest' /\ newest' = sequence[s] /\ newest < newest'
  BY <1>1, <1>3
<1>9. PresentsKept'
  <2>1. \A i \in 1 .. Len(presented) :
          state'[presented[i]] = "Presenting" /\ sequence[presented[i]] <= newest'
    <3>1. \A i \in 1 .. Len(presented) :
            /\ presented[i] \in Slots /\ sequence[presented[i]] \in Int
            /\ state[presented[i]] = "Presenting" /\ sequence[presented[i]] <= newest
      BY Elements DEF PresentsKept
    <3>2. newest \in Int /\ newest' \in Int /\ newest < newest'
      BY <1>1, <1>8, Elements
    <3> QED
      BY <1>4, <3>1, <3>2
  <2>2. \A i \in 1 .. Len(presents) :
          /\ state'[presents[i].slot] = "Presenting"
          /\ presents[i].frame = sequence[presents[i].slot] /\ presents[i].frame <= newest'
    BY <1>1, <1>4, <1>8, Elements DEF PresentsKept, Shown
  <2> QED
    BY <1>1, <1>2, <1>3, <1>4, <2>1, <2>2, Elements DEF PresentsKept, Shown, Held
<1>10. PresentsInOrder'
  <2>1. \A i \in 1 .. Len(presented) :
          presented[i] \in Slots /\ sequence[presented[i]] \in Int
          /\ sequence[presented[i]] <= newest
    BY Elements DEF PresentsKept
  <2>2. \A i \in 1 .. Len(presents) :
          presents[i].frame \in Int /\ presents[i].frame <= newest
    BY Elements DEF PresentsKept, Shown
  <2>3. newest \in Int /\ taken'.frame \in Int /\ newest < taken'.frame
    BY <1>1, <1>8, Elements
  <2>4. /\ \A i \in 1 .. Len(presented) : sequence[presented[i]] < taken'.frame
        /\ \A i \in 1 .. Len(presents) : presents[i].frame < taken'.frame
    BY <2>1, <2>2, <2>3
  <2> QED
    BY <1>2, <2>4 DEF PresentsInOrder
<1>11. ReadyIsNewer'
  BY <1>4 DEF ReadyIsNewer
<1>12. ContentKept'
  BY <1>1, <1>2, <1>4 DEF ContentKept
<1> QED
  BY <1>5, <1>6, <1>7, <1>9, <1>10, <1>11, <1>12

LEMMA PresenterNotifyStep ==
  ASSUME IInv, PresenterNotify
  PROVE  IInv'
<1> USE DEF IInv
<1>1. ReadyIsNewer' /\ ContentKept'
  BY DEF PresenterNotify, ReadyIsNewer, ContentKept
<1>2. TypeOK'
  BY MailboxAssumption DEF PresenterNotify, TypeOK, Woken
<1>3. Phases'
  BY DEF PresenterNotify, Phases, Woken, TypeOK
<1>4. CopiesPending'
  BY DEF PresenterNotify, CopiesPending, Copying, Woken
<1>5. CopiesInOrder'
  BY DEF PresenterNotify, CopiesInOrder, Woken
<1>6. PresentsKept'
  BY DEF PresenterNotify, PresentsKept, Shown, Held, Woken
<1>7. PresentsInOrder'
  BY DEF PresenterNotify, PresentsInOrder, Held, Woken
<1>8. FreedUnused'
  BY DEF PresenterNotify, FreedUnused, Woken, Phases
<1> QED
  BY <1>1, <1>2, <1>3, <1>4, <1>5, <1>6, <1>7, <1>8

LEMMA SubmitStep ==
  ASSUME IInv, Submit
  PROVE  IInv'
<1> USE DEF IInv
<1>1. /\ presents' \in Seq(Present)
      /\ \A i \in 1 .. Len(presents') :
           \/ i \in 1 .. Len(presents) /\ presents'[i] = presents[i]
           \/ i > Len(presents) /\ presents'[i] = taken
      /\ \A i, j \in 1 .. Len(presents') : i < j => i \in 1 .. Len(presents)
  BY Appended DEF Submit, TypeOK
<1>2. /\ presenter = "submit" /\ presenter' = "check"
      /\ UNCHANGED <<alive, state, sequence, nextSeq, stop, producer, target,
                     taken, copies, copied, presented, notifying, content, newest,
                     finished>>
  BY DEF Submit
<1>3. TypeOK' /\ Phases' /\ FreedUnused'
  BY <1>1, <1>2 DEF TypeOK, Phases, FreedUnused
<1>4. CopiesPending' /\ CopiesInOrder' /\ ReadyIsNewer' /\ ContentKept'
  BY <1>2 DEF CopiesPending, CopiesInOrder, ReadyIsNewer, ContentKept, Copying
<1>5. PresentsKept'
  BY <1>1, <1>2 DEF PresentsKept, Shown, Held
<1>6. PresentsInOrder'
  <2>1. ASSUME NEW i \in 1 .. Len(presents'), NEW j \in 1 .. Len(presents'), i < j
        PROVE  presents'[i].frame < presents'[j].frame
    <3>1. i \in 1 .. Len(presents) /\ presents'[i] = presents[i]
      BY <1>1, <2>1, Elements
    <3> QED
      BY <1>1, <1>2, <2>1, <3>1 DEF PresentsInOrder, Held
  <2>2. ASSUME NEW i \in 1 .. Len(presented), NEW j \in 1 .. Len(presents')
        PROVE  sequence[presented[i]] < presents'[j].frame
    BY <1>1, <1>2 DEF PresentsInOrder, Held
  <2> QED
    BY <1>2, <2>1, <2>2 DEF PresentsInOrder, Held
<1> QED
  BY <1>3, <1>4, <1>5, <1>6

LEMMA RunCopyStep ==
  ASSUME IInv, RunCopy
  PROVE  IInv'
<1> USE DEF IInv
<1> DEFINE s == Head(copies)
<1>1. /\ copies' \in Seq(Slots) /\ s \in Slots /\ s = copies[1] /\ 1 \in 1 .. Len(copies)
      /\ \A i \in 1 .. Len(copies') :
           i + 1 \in 1 .. Len(copies) /\ 1 < i + 1 /\ copies'[i] = copies[i + 1]
      /\ \A i, j \in 1 .. Len(copies') : i < j => i + 1 < j + 1
  BY Removed DEF RunCopy, TypeOK
<1>2. /\ copied' \in Seq(Slots)
      /\ \A i \in 1 .. Len(copied') :
           \/ i \in 1 .. Len(copied) /\ copied'[i] = copied[i]
           \/ i > Len(copied) /\ copied'[i] = s
      /\ \A i, j \in 1 .. Len(copied') : i < j => i \in 1 .. Len(copied)
  <2>1. copied' = Append(copied, s)
    BY DEF RunCopy
  <2> QED
    BY <1>1, <2>1, Appended DEF TypeOK
<1>3. /\ content' = [content EXCEPT ![s] = sequence[s]]
      /\ alive
      /\ UNCHANGED <<alive, state, sequence, nextSeq, stop, producer, target,
                     presenter, taken, presents, presented, notifying, newest,
                     finished>>
  BY DEF RunCopy, FreedUnused
<1> HIDE DEF s
<1>4. TypeOK'
  BY <1>1, <1>2, <1>3 DEF TypeOK
<1>5. Phases' /\ PresentsKept' /\ PresentsInOrder' /\ ReadyIsNewer' /\ FreedUnused'
  BY <1>3 DEF Phases, PresentsKept, PresentsInOrder, ReadyIsNewer, FreedUnused, Shown, Held
<1>6. CopiesPending'
  <2>1. Copying(s) /\ \A i \in 1 .. Len(copies') : Copying(copies'[i])
    BY <1>1 DEF CopiesPending
  <2>2. \A i \in 1 .. Len(copied') : Copying(copied'[i])
    BY <1>2, <2>1 DEF CopiesPending
  <2> QED
    BY <1>3, <2>1, <2>2 DEF CopiesPending, Copying
<1>7. CopiesInOrder'
  <2>1. ASSUME NEW i \in 1 .. Len(copied'), NEW j \in 1 .. Len(copied'), i < j
        PROVE  sequence[copied'[i]] < sequence[copied'[j]]
    <3>1. i \in 1 .. Len(copied) /\ copied'[i] = copied[i]
      <4>1. i \in 1 .. Len(copied)
        BY <1>2, <2>1
      <4>2. ~(i > Len(copied))
        BY <4>1, Elements
      <4> QED
        BY <1>2, <4>1, <4>2
    <3> QED
      BY <1>1, <1>2, <2>1, <3>1 DEF CopiesInOrder
  <2>2. ASSUME NEW i \in 1 .. Len(copies'), NEW j \in 1 .. Len(copies'), i < j
        PROVE  sequence[copies'[i]] < sequence[copies'[j]]
    BY <1>1, <2>2 DEF CopiesInOrder
  <2>3. ASSUME NEW i \in 1 .. Len(copied'), NEW j \in 1 .. Len(copies')
        PROVE  sequence[copied'[i]] < sequence[copies'[j]]
    <3>1. sequence[s] < sequence[copies'[j]]
      BY <1>1 DEF CopiesInOrder
    <3>2. \A k \in 1 .. Len(copied) : sequence[copied[k]] < sequence[copies'[j]]
      BY <1>1 DEF CopiesInOrder
    <3> QED
      BY <1>2, <3>1, <3>2
  <2>4. producer = "copy" =>
          /\ \A i \in 1 .. Len(copied') : sequence[copied'[i]] < sequence[target]
          /\ \A i \in 1 .. Len(copies') : sequence[copies'[i]] < sequence[target]
    BY <1>1, <1>2 DEF CopiesInOrder
  <2> QED
    BY <1>3, <2>1, <2>2, <2>3, <2>4 DEF CopiesInOrder
<1>8. ContentKept'
  <2>1. \A i \in 1 .. Len(copied) : copied[i] # s
    <3>1. \A i \in 1 .. Len(copied) : sequence[copied[i]] < sequence[s]
      BY <1>1 DEF CopiesInOrder
    <3>2. sequence[s] \in Int
      BY <1>1, Elements
    <3> QED
      BY <3>1, <3>2
  <2>2. state[s] = "Pending"
    BY <1>1 DEF CopiesPending, Copying
  <2>3. \A r \in Slots : content'[r] = IF r = s THEN sequence[s] ELSE content[r]
    BY <1>3 DEF TypeOK
  <2>4. \A i \in 1 .. Len(copied') : content'[copied'[i]] = sequence[copied'[i]]
    <3>1. s \in Slots /\ content'[s] = sequence[s]
      BY <1>1, <2>3
    <3>2. \A i \in 1 .. Len(copied) : content'[copied[i]] = sequence[copied[i]]
      BY <2>1, <2>3, Elements DEF ContentKept
    <3> QED
      BY <1>2, <3>1, <3>2
  <2> QED
    BY <1>3, <2>2, <2>3, <2>4 DEF ContentKept
<1> QED
  BY <1>4, <1>5, <1>6, <1>7, <1>8

LEMMA CopyHandlerStep ==
  ASSUME IInv, CopyHandler
  PROVE  IInv'
<1> USE DEF IInv
<1> DEFINE s == Head(copied)
<1>1. /\ copied' \in Seq(Slots) /\ s \in Slots /\ s = copied[1] /\ 1 \in 1 .. Len(copied)
      /\ \A i \in 1 .. Len(copied') :
           i + 1 \in 1 .. Len(copied) /\ 1 < i + 1 /\ copied'[i] = copied[i + 1]
      /\ \A i, j \in 1 .. Len(copied') : i < j => i + 1 < j + 1
  BY Removed DEF CopyHandler, TypeOK
<1>3. /\ state' = [state EXCEPT ![s] = "Ready"]
      /\ finished' = sequence[s]
      /\ notifying' = notifying \cup {"copy"}
      /\ alive
      /\ UNCHANGED <<alive, sequence, nextSeq, stop, producer, target, presenter,
                     taken, copies, presents, presented, content, newest>>
  BY DEF CopyHandler, FreedUnused
<1> HIDE DEF s
<1>5. state[s] = "Pending" /\ finished < sequence[s] /\ sequence[s] < nextSeq
  BY <1>1 DEF CopiesPending, Copying
<1>6. /\ \A i \in 1 .. Len(copied') : sequence[s] < sequence[copied'[i]]
      /\ \A i \in 1 .. Len(copies) : sequence[s] < sequence[copies[i]]
      /\ producer = "copy" => sequence[s] < sequence[target]
  BY <1>1 DEF CopiesInOrder
<1>7. /\ \A r \in Slots : r # s => state'[r] = state[r]
      /\ state'[s] = "Ready"
  BY <1>1, <1>3 DEF TypeOK
<1>8. TypeOK'
  BY <1>1, <1>3 DEF TypeOK, SlotStates
<1>9. Phases' /\ FreedUnused' /\ PresentsInOrder'
  BY <1>3 DEF Phases, FreedUnused, PresentsInOrder, Held
<1>10. CopiesPending'
  <2>1. ASSUME NEW r \in Slots, Copying(r), sequence[s] < sequence[r]
        PROVE  state'[r] = "Pending" /\ finished' < sequence[r] /\ sequence[r] < nextSeq
    BY <1>3, <1>7, <2>1, Elements DEF Copying
  <2>2. \A i \in 1 .. Len(copied') :
          /\ state'[copied'[i]] = "Pending" /\ finished' < sequence[copied'[i]]
          /\ sequence[copied'[i]] < nextSeq
    BY <1>1, <1>6, <2>1, Elements DEF CopiesPending
  <2>3. \A i \in 1 .. Len(copies) :
          /\ state'[copies[i]] = "Pending" /\ finished' < sequence[copies[i]]
          /\ sequence[copies[i]] < nextSeq
    BY <1>6, <2>1, Elements DEF CopiesPending
  <2>4. producer = "copy" =>
          /\ state'[target] = "Pending" /\ finished' < sequence[target]
          /\ sequence[target] < nextSeq
    BY <1>6, <2>1, Elements DEF CopiesPending
  <2> QED
    BY <1>3, <1>5, <2>2, <2>3, <2>4 DEF CopiesPending, Copying
<1>11. CopiesInOrder'
  <2>1. ASSUME NEW i \in 1 .. Len(copied'), NEW j \in 1 .. Len(copied'), i < j
        PROVE  sequence[copied'[i]] < sequence[copied'[j]]
    BY <1>1, <2>1 DEF CopiesInOrder
  <2>2. ASSUME NEW i \in 1 .. Len(copied'), NEW j \in 1 .. Len(copies)
        PROVE  sequence[copied'[i]] < sequence[copies[j]]
    BY <1>1 DEF CopiesInOrder
  <2>3. producer = "copy" => \A i \in 1 .. Len(copied') : sequence[copied'[i]] < sequence[target]
    BY <1>1 DEF CopiesInOrder
  <2> QED
    BY <1>3, <2>1, <2>2, <2>3 DEF CopiesInOrder
<1>12. PresentsKept'
  <2>1. newest <= finished' /\ newest < sequence[s]
    BY <1>1, <1>3, <1>5, Elements DEF PresentsKept
  <2>2. \A r \in Slots : state[r] = "Presenting" => state'[r] = "Presenting"
    BY <1>5, <1>7
  <2>3. \A i \in 1 .. Len(presented) : state'[presented[i]] = "Presenting"
    BY <2>2, Elements DEF PresentsKept
  <2>4. \A i \in 1 .. Len(presents) : state'[presents[i].slot] = "Presenting"
    BY <2>2, Elements DEF PresentsKept, Shown
  <2>5. Held => state'[taken.slot] = "Presenting"
    BY <2>2, Elements DEF PresentsKept, Shown
  <2> QED
    BY <1>3, <2>1, <2>3, <2>4, <2>5 DEF PresentsKept, Shown, Held
<1>13. ReadyIsNewer'
  <2>1. newest < sequence[s]
    BY <1>1, <1>5, Elements DEF PresentsKept
  <2>2. \A r \in Slots : state[r] = "Ready" => sequence[r] <= sequence[s]
    BY <1>1, <1>5, Elements DEF ReadyIsNewer
  <2> QED
    BY <1>1, <1>3, <1>7, <2>1, <2>2, Elements DEF ReadyIsNewer
<1>14. ContentKept'
  <2>1. \A i \in 1 .. Len(copied) : content[copied[i]] = sequence[copied[i]]
    BY DEF ContentKept
  <2>2. \A i \in 1 .. Len(copied') : content[copied'[i]] = sequence[copied'[i]]
    BY <1>1, <2>1
  <2>3. content[s] = sequence[s]
    BY <1>1, <2>1
  <2> QED
    BY <1>3, <1>7, <2>2, <2>3 DEF ContentKept
<1> QED
  BY <1>8, <1>9, <1>10, <1>11, <1>12, <1>13, <1>14

LEMMA RunPresentStep ==
  ASSUME IInv, RunPresent
  PROVE  IInv'
<1> USE DEF IInv
<1> DEFINE p == Head(presents)
<1>1. /\ presents' \in Seq(Present) /\ p \in Present /\ p = presents[1]
      /\ 1 \in 1 .. Len(presents)
      /\ \A i \in 1 .. Len(presents') :
           i + 1 \in 1 .. Len(presents) /\ 1 < i + 1 /\ presents'[i] = presents[i + 1]
      /\ \A i, j \in 1 .. Len(presents') : i < j => i + 1 < j + 1
  BY Removed DEF RunPresent, TypeOK
<1>2. /\ presented' \in Seq(Slots)
      /\ \A i \in 1 .. Len(presented') :
           \/ i \in 1 .. Len(presented) /\ presented'[i] = presented[i]
           \/ i > Len(presented) /\ presented'[i] = p.slot
      /\ \A i, j \in 1 .. Len(presented') : i < j => i \in 1 .. Len(presented)
  <2>1. p.slot \in Slots /\ presented' = Append(presented, p.slot)
    BY <1>1 DEF RunPresent, Present
  <2> QED
    BY <2>1, Appended DEF TypeOK
<1>3. /\ alive
      /\ UNCHANGED <<alive, state, sequence, nextSeq, stop, producer, target,
                     presenter, taken, copies, copied, notifying, content, newest,
                     finished>>
  BY DEF RunPresent, FreedUnused
<1> HIDE DEF p
<1>4. TypeOK'
  BY <1>1, <1>2, <1>3 DEF TypeOK
<1>5. /\ Phases' /\ CopiesPending' /\ CopiesInOrder' /\ ReadyIsNewer' /\ ContentKept'
      /\ FreedUnused'
  BY <1>3 DEF Phases, CopiesPending, CopiesInOrder, ReadyIsNewer, ContentKept,
              FreedUnused, Copying
<1>6. Shown(p)
  BY <1>1 DEF PresentsKept
<1>7. PresentsKept'
  <2>1. \A i \in 1 .. Len(presents') : Shown(presents'[i])
    BY <1>1 DEF PresentsKept
  <2>2. \A i \in 1 .. Len(presented') :
          state[presented'[i]] = "Presenting" /\ sequence[presented'[i]] <= newest
    BY <1>2, <1>6 DEF PresentsKept, Shown
  <2> QED
    BY <1>3, <2>1, <2>2 DEF PresentsKept, Shown, Held
<1>8. PresentsInOrder'
  <2>1. ASSUME NEW i \in 1 .. Len(presented'), NEW j \in 1 .. Len(presented'), i < j
        PROVE  sequence[presented'[i]] < sequence[presented'[j]]
    <3>1. i \in 1 .. Len(presented) /\ presented'[i] = presented[i]
      <4>1. i \in 1 .. Len(presented)
        BY <1>2, <2>1
      <4>2. ~(i > Len(presented))
        BY <4>1, Elements
      <4> QED
        BY <1>2, <4>1, <4>2
    <3> QED
      BY <1>1, <1>2, <1>6, <2>1, <3>1 DEF PresentsInOrder, Shown
  <2>2. ASSUME NEW i \in 1 .. Len(presents'), NEW j \in 1 .. Len(presents'), i < j
        PROVE  presents'[i].frame < presents'[j].frame
    BY <1>1, <2>2 DEF PresentsInOrder
  <2>3. ASSUME NEW i \in 1 .. Len(presented'), NEW j \in 1 .. Len(presents')
        PROVE  sequence[presented'[i]] < presents'[j].frame
    <3>1. sequence[p.slot] < presents'[j].frame
      BY <1>1, <1>6 DEF PresentsInOrder, Shown
    <3>2. \A k \in 1 .. Len(presented) : sequence[presented[k]] < presents'[j].frame
      BY <1>1 DEF PresentsInOrder
    <3> QED
      BY <1>2, <3>1, <3>2
  <2>4. Held =>
          /\ \A i \in 1 .. Len(presented') : sequence[presented'[i]] < taken.frame
          /\ \A i \in 1 .. Len(presents') : presents'[i].frame < taken.frame
    BY <1>1, <1>2, <1>6 DEF PresentsInOrder, Shown
  <2> QED
    BY <1>3, <2>1, <2>2, <2>3, <2>4 DEF PresentsInOrder, Held
<1> QED
  BY <1>4, <1>5, <1>7, <1>8

LEMMA PresentHandlerStep ==
  ASSUME IInv, PresentHandler
  PROVE  IInv'
<1> USE DEF IInv
<1> DEFINE s == Head(presented)
<1>1. /\ presented' \in Seq(Slots) /\ s \in Slots /\ s = presented[1]
      /\ 1 \in 1 .. Len(presented)
      /\ \A i \in 1 .. Len(presented') :
           i + 1 \in 1 .. Len(presented) /\ 1 < i + 1 /\ presented'[i] = presented[i + 1]
      /\ \A i, j \in 1 .. Len(presented') : i < j => i + 1 < j + 1
  BY Removed DEF PresentHandler, TypeOK
<1>3. /\ state' = [state EXCEPT ![s] = "Free"]
      /\ notifying' = notifying \cup {"present"}
      /\ alive
      /\ UNCHANGED <<alive, sequence, nextSeq, stop, producer, target, presenter,
                     taken, copies, copied, presents, content, newest, finished>>
  BY DEF PresentHandler, FreedUnused
<1> HIDE DEF s
<1>5. /\ state[s] = "Presenting"
      /\ \A i \in 1 .. Len(presented') : sequence[s] < sequence[presented'[i]]
      /\ \A i \in 1 .. Len(presents) : sequence[s] < presents[i].frame
      /\ Held => sequence[s] < taken.frame
  BY <1>1 DEF PresentsKept, PresentsInOrder
<1>6. /\ \A r \in Slots : r # s => state'[r] = state[r]
      /\ state'[s] = "Free"
  BY <1>1, <1>3 DEF TypeOK
<1>7. TypeOK'
  BY <1>1, <1>3 DEF TypeOK, SlotStates
<1>8. Phases' /\ FreedUnused' /\ CopiesInOrder'
  BY <1>3 DEF Phases, FreedUnused, CopiesInOrder
<1>9. CopiesPending'
  BY <1>3, <1>5, <1>6, Elements DEF CopiesPending, Copying
<1>10. PresentsKept'
  <2>1. \A i \in 1 .. Len(presented') :
          state'[presented'[i]] = "Presenting" /\ sequence[presented'[i]] <= newest
    <3>1. \A i \in 1 .. Len(presented') :
            /\ presented'[i] \in Slots
            /\ state[presented'[i]] = "Presenting" /\ sequence[presented'[i]] <= newest
      BY <1>1, Elements DEF PresentsKept
    <3>2. \A i \in 1 .. Len(presented') : presented'[i] # s
      BY <1>1, <1>5, Elements
    <3> QED
      BY <1>6, <3>1, <3>2
  <2>2. \A i \in 1 .. Len(presents) : Shown(presents[i])'
    BY <1>3, <1>5, <1>6, Elements DEF PresentsKept, Shown
  <2>3. Held => Shown(taken)'
    BY <1>3, <1>5, <1>6, Elements DEF PresentsKept, Shown
  <2> QED
    BY <1>3, <2>1, <2>2, <2>3 DEF PresentsKept, Held
<1>11. PresentsInOrder'
  <2>1. ASSUME NEW i \in 1 .. Len(presented'), NEW j \in 1 .. Len(presented'), i < j
        PROVE  sequence[presented'[i]] < sequence[presented'[j]]
    BY <1>1, <2>1 DEF PresentsInOrder
  <2>2. ASSUME NEW i \in 1 .. Len(presented'), NEW j \in 1 .. Len(presents)
        PROVE  sequence[presented'[i]] < presents[j].frame
    BY <1>1 DEF PresentsInOrder
  <2>3. Held => \A i \in 1 .. Len(presented') : sequence[presented'[i]] < taken.frame
    BY <1>1 DEF PresentsInOrder
  <2> QED
    BY <1>3, <2>1, <2>2, <2>3 DEF PresentsInOrder, Held
<1>12. ReadyIsNewer' /\ ContentKept'
  BY <1>3, <1>6, Elements DEF ReadyIsNewer, ContentKept
<1> QED
  BY <1>7, <1>8, <1>9, <1>10, <1>11, <1>12

LEMMA HandlerNotifyStep ==
  ASSUME IInv, NEW h \in {"copy", "present"}, HandlerNotify(h)
  PROVE  IInv'
<1> USE DEF IInv
<1>1. ReadyIsNewer' /\ ContentKept'
  BY DEF HandlerNotify, ReadyIsNewer, ContentKept
<1>2. TypeOK'
  BY MailboxAssumption DEF HandlerNotify, TypeOK, Wake, Woken
<1>3. Phases'
  BY DEF HandlerNotify, Phases, Wake, Woken, TypeOK
<1>4. CopiesPending'
  BY DEF HandlerNotify, CopiesPending, Copying, Wake, Woken
<1>5. CopiesInOrder'
  BY DEF HandlerNotify, CopiesInOrder, Wake, Woken
<1>6. PresentsKept'
  BY DEF HandlerNotify, PresentsKept, Shown, Held, Wake, Woken
<1>7. PresentsInOrder'
  BY DEF HandlerNotify, PresentsInOrder, Held, Wake, Woken
<1>8. FreedUnused'
  BY DEF HandlerNotify, FreedUnused, Wake, Woken, Phases
<1> QED
  BY <1>1, <1>2, <1>3, <1>4, <1>5, <1>6, <1>7, <1>8

LEMMA SpuriousWakeStep ==
  ASSUME IInv, SpuriousWake
  PROVE  IInv'
<1> USE DEF IInv
<1>1. ReadyIsNewer' /\ ContentKept'
  BY DEF SpuriousWake, ReadyIsNewer, ContentKept
<1>2. TypeOK'
  BY MailboxAssumption DEF SpuriousWake, TypeOK, Wake, Woken
<1>3. Phases'
  BY DEF SpuriousWake, Phases, Wake, Woken, TypeOK
<1>4. CopiesPending'
  BY DEF SpuriousWake, CopiesPending, Copying, Wake, Woken
<1>5. CopiesInOrder'
  BY DEF SpuriousWake, CopiesInOrder, Wake, Woken
<1>6. PresentsKept'
  BY DEF SpuriousWake, PresentsKept, Shown, Held, Wake, Woken
<1>7. PresentsInOrder'
  BY DEF SpuriousWake, PresentsInOrder, Held, Wake, Woken
<1>8. FreedUnused'
  BY DEF SpuriousWake, FreedUnused, Wake, Woken, Phases
<1> QED
  BY <1>1, <1>2, <1>3, <1>4, <1>5, <1>6, <1>7, <1>8

LEMMA NextIInv ==
  ASSUME IInv, [Next]_vars
  PROVE  IInv'
<1>1. CASE UNCHANGED vars
  <2>1. TypeOK' /\ Phases' /\ FreedUnused'
    BY <1>1 DEF IInv, vars, TypeOK, Phases, FreedUnused
  <2>2. CopiesPending' /\ CopiesInOrder'
    BY <1>1 DEF IInv, vars, CopiesPending, CopiesInOrder, Copying
  <2>3. PresentsKept' /\ PresentsInOrder'
    BY <1>1 DEF IInv, vars, PresentsKept, PresentsInOrder, Shown, Held
  <2>4. ReadyIsNewer' /\ ContentKept'
    BY <1>1 DEF IInv, vars, ReadyIsNewer, ContentKept
  <2> QED
    BY <2>1, <2>2, <2>3, <2>4 DEF IInv
<1>2. CASE Make \/ BeginSwap \/ BeginStop \/ RunCopy \/ RunPresent \/ SpuriousWake
  BY <1>2, MakeStep, BeginSwapStep, BeginStopStep, RunCopyStep, RunPresentStep,
     SpuriousWakeStep
<1>3. CASE ProducerWork \/ StopWork
  BY <1>3, AcquireStep, AcquireSleepStep, CopyStep, StopNotifyStep, JoinStep,
     FreeStep, DrainSleepStep
  DEF ProducerWork, StopWork
<1>4. CASE PresenterWork
  BY <1>4, PresenterSleepStep, PresenterExitStep, TakeStep, PresenterNotifyStep, SubmitStep
  DEF PresenterWork
<1>5. CASE HandlerWork
  BY <1>5, CopyHandlerStep, PresentHandlerStep, HandlerNotifyStep DEF HandlerWork
<1> QED
  BY <1>1, <1>2, <1>3, <1>4, <1>5 DEF Next

THEOREM Invariance == Spec => []IInv
  BY InitIInv, NextIInv, PTL DEF Spec

THEOREM TypeCorrect == Spec => []TypeOK
  BY Invariance, PTL DEF IInv

(* What is drawn into a drawable is the frame the presenter took, whatever *)
(* the producer does meanwhile: a slot is Presenting until its handler.    *)
THEOREM PresentsAreIntact == Spec => []PresentsIntact
<1>1. IInv => PresentsIntact
  BY Elements DEF IInv, PresentsKept, Shown, ContentKept, PresentsIntact
<1> QED
  BY <1>1, Invariance, PTL

(* Frames reach the present queue in the order they were swapped.          *)
THEOREM FramesInOrder == Spec => []ShownInOrder
<1>1. IInv => ShownInOrder
  BY DEF IInv, PresentsInOrder, Held, ShownInOrder
<1> QED
  BY <1>1, Invariance, PTL

(* Nothing uses a mailbox that stopMailbox() has freed.                    *)
THEOREM FreeIsSafe == Spec => []FreedUnused
  BY Invariance, PTL DEF IInv

(***************************************************************************)
(* WindowHost, for any top levels, child windows and bounds.               *)
(***************************************************************************)
LEMMA InitHostIInv == HostInit => HostIInv
<1> SUFFICES ASSUME HostInit PROVE HostIInv
  OBVIOUS
<1>1. wanted \in Placements /\ queue = <<wanted>> /\ wanted # TheEnd
  BY HostAssumption DEF HostInit, Placements, TheEnd
<1>2. /\ queue \in Seq(Placements \cup {TheEnd}) /\ Len(queue) = 1
      /\ queue[1] = wanted /\ DOMAIN queue = 1 .. 1 /\ queue # << >>
  BY <1>1
<1>3. HostTypeOK
  <2>1. /\ placement = wanted /\ latest = wanted /\ shown = {} /\ holeWait = 0
        /\ timers = 0 /\ placed = FALSE /\ gone = FALSE /\ hosted = TRUE
    BY DEF HostInit
  <2>2. queue \in Seq(Placements \cup {TheEnd}) /\ wanted \in Placements
    BY <1>1, <1>2
  <2>3. wanted \in Placements /\ placement \in Placements /\ latest \in Placements
    BY <2>1, <2>2
  <2>4. placed \in BOOLEAN /\ gone \in BOOLEAN /\ hosted \in BOOLEAN
    BY <2>1
  <2>5. shown \in SUBSET Holes /\ holeWait \in 0 .. 2 /\ timers \in Nat
    BY <2>1
  <2> QED
    BY <2>2, <2>3, <2>4, <2>5 DEF HostTypeOK
<1>4. EndIsLast
  BY <1>1, <1>2 DEF HostInit, EndIsLast
<1>5. LatestIsPlacement /\ ViewInPlace
  BY <1>1, <1>2 DEF HostInit, LatestIsPlacement, ViewInPlace
<1> QED
  BY <1>3, <1>4, <1>5 DEF HostIInv

(* What a block appended to the queue by wmgl_window_place or              *)
(* wmgl_window_destroy keeps.                                              *)
LEMMA QueueGrows ==
  ASSUME NEW q \in Seq(Placements \cup {TheEnd}), NEW b \in Placements \cup {TheEnd}
  PROVE  LET r == Append(q, b)
         IN  /\ r \in Seq(Placements \cup {TheEnd}) /\ r # << >>
             /\ Len(r) = Len(q) + 1 /\ Len(q) \in Nat /\ r[Len(r)] = b
             /\ DOMAIN r = 1 .. Len(q) + 1 /\ DOMAIN q = 1 .. Len(q)
             /\ \A i \in 1 .. Len(q) : r[i] = q[i]
  OBVIOUS

(* What taking the first block off the queue keeps.                        *)
LEMMA QueueShrinks ==
  ASSUME NEW q \in Seq(Placements \cup {TheEnd}), q # << >>
  PROVE  LET r == Tail(q)
         IN  /\ r \in Seq(Placements \cup {TheEnd})
             /\ Len(r) = Len(q) - 1 /\ Len(q) \in Nat \ {0} /\ Head(q) = q[1]
             /\ DOMAIN r = 1 .. Len(q) - 1 /\ DOMAIN q = 1 .. Len(q)
             /\ \A i \in 1 .. Len(q) - 1 : r[i] = q[i + 1]
             /\ r = << >> <=> Len(q) = 1
             /\ Head(q) \in Placements \cup {TheEnd}
<1> DEFINE B == Placements \cup {TheEnd}
<1>1. Len(q) \in Nat \ {0} /\ DOMAIN q = 1 .. Len(q) /\ Head(q) = q[1]
  BY EmptySeq, HeadTailProperties
<1>2. /\ Tail(q) \in Seq(B) /\ Len(Tail(q)) = Len(q) - 1
      /\ \A i \in 1 .. Len(q) - 1 : Tail(q)[i] = q[i + 1]
  BY <1>1, HeadTailProperties
<1>3. DOMAIN Tail(q) = 1 .. Len(q) - 1
  BY <1>2
<1>4. Tail(q) = << >> <=> Len(q) = 1
  <2>1. Tail(q) # << >> => Len(Tail(q)) \in Nat \ {0}
    BY <1>2, EmptySeq
  <2>2. Tail(q) = << >> => Len(Tail(q)) = 0
    BY EmptySeq
  <2> QED
    BY <1>1, <1>2, <2>1, <2>2
<1>5. Head(q) \in B
  BY <1>1
<1> QED
  BY <1>1, <1>2, <1>3, <1>4, <1>5

(* place_on_main_thread leaves `placed` set only for a view in place.      *)
LEMMA PlacesView ==
  ASSUME HostIInv, UNCHANGED <<gone, open>>,
         NEW p \in Placements, NEW wait \in 0 .. 2, PlaceOnMainThread(p, wait)
  PROVE  /\ latest' \in Placements /\ placed' \in BOOLEAN
         /\ shown' \in SUBSET Holes /\ holeWait' \in 0 .. 2
         /\ ViewInPlace'
         /\ ~gone => latest' = p
         /\ gone => UNCHANGED <<latest, superview, shown>>
<1> USE DEF HostIInv, HostTypeOK, ViewInPlace
<1>1. CASE gone
  BY <1>1 DEF PlaceOnMainThread
<1>2. CASE ~gone /\ CocoaWindow(p.top) = {}
  BY <1>2 DEF PlaceOnMainThread
<1>3. CASE ~gone /\ CocoaWindow(p.top) # {}
  <2>1. PICK c \in CocoaWindow(p.top) :
          /\ superview' = c /\ observed' = c /\ placed' = TRUE
          /\ shown' = IF wait = 2 THEN p.holes ELSE p.holes \cap shown
          /\ holeWait' = IF shown' = p.holes THEN 0 ELSE IF wait = 0 THEN 1 ELSE wait
    BY <1>3 DEF PlaceOnMainThread
  <2>2. latest' = p
    BY <1>3 DEF PlaceOnMainThread
  <2>3. c \in open /\ c.top = p.top
    BY DEF CocoaWindow
  <2>4. p.holes \in SUBSET Holes
    BY DEF Placements
  <2>5. shown' \in SUBSET Holes /\ holeWait' \in 0 .. 2
    BY <2>1, <2>4
  <2> QED
    BY <1>3, <2>1, <2>2, <2>3, <2>5
<1> QED
  BY <1>1, <1>2, <1>3

LEMMA NextHostIInv == HostIInv /\ [HostNext]_hostVars => HostIInv'
<1> SUFFICES ASSUME HostIInv, [HostNext]_hostVars PROVE HostIInv'
  OBVIOUS
<1> USE DEF HostIInv, HostTypeOK, EndIsLast, LatestIsPlacement, ViewInPlace
<1>1. CASE UNCHANGED hostVars
  BY <1>1 DEF hostVars
<1>2. ASSUME NEW p \in Placements, Change(p) PROVE HostIInv'
  BY <1>2 DEF Change, mainThread
<1>3. ASSUME NEW t \in Tops, OpenCocoa(t) PROVE HostIInv'
  BY <1>3 DEF OpenCocoa, mainThread
<1>4. ASSUME NEW c \in open, CloseCocoa(c) PROVE HostIInv'
  BY <1>4 DEF CloseCocoa, mainThread
<1>5. CASE Place
  <2>1. wanted # TheEnd
    BY HostAssumption DEF Placements, TheEnd
  <2>2. /\ hosted /\ queue' = Append(queue, wanted) /\ placement' = wanted
        /\ UNCHANGED <<wanted, placed, open, hosted, latest, superview, observed,
                       shown, holeWait, timers, gone>>
    BY <1>5 DEF Place, mainThread
  <2>3. HostTypeOK'
    BY <2>2, QueueGrows
  <2>4. EndIsLast'
    BY <2>1, <2>2, QueueGrows
  <2>5. LatestIsPlacement' /\ ViewInPlace'
    BY <2>2, QueueGrows
  <2> QED
    BY <2>3, <2>4, <2>5
<1>6. CASE DestroyHost
  <2>1. /\ hosted /\ queue' = Append(queue, TheEnd) /\ hosted' = FALSE
        /\ UNCHANGED <<wanted, placement, placed, open, latest, superview, observed,
                       shown, holeWait, timers, gone>>
    BY <1>6 DEF DestroyHost, mainThread
  <2>2. HostTypeOK'
    BY <2>1, QueueGrows
  <2>3. EndIsLast'
    BY <2>1, QueueGrows
  <2>4. LatestIsPlacement' /\ ViewInPlace'
    BY <2>1
  <2> QED
    BY <2>2, <2>3, <2>4
<1>7. CASE RunPlacement
  <2>1. /\ queue # << >> /\ Head(queue) # TheEnd /\ queue' = Tail(queue)
        /\ PlaceOnMainThread(Head(queue), holeWait)
        /\ UNCHANGED <<wanted, placement, gone, open, hosted>>
        /\ timers' = timers + (IF Armed(holeWait) THEN 1 ELSE 0)
    BY <1>7 DEF RunPlacement
  <2>2. Head(queue) \in Placements /\ ~gone
    BY <2>1, QueueShrinks
  <2>3. /\ latest' = Head(queue) /\ placed' \in BOOLEAN
        /\ shown' \in SUBSET Holes /\ holeWait' \in 0 .. 2 /\ ViewInPlace'
    BY <2>1, <2>2, PlacesView
  <2>4. timers' \in Nat
    BY <2>1
  <2>5. HostTypeOK'
    BY <2>1, <2>2, <2>3, <2>4, QueueShrinks
  <2>6. EndIsLast'
    BY <2>1, <2>2, QueueShrinks
  <2>7. LatestIsPlacement'
    BY <2>1, <2>3, QueueShrinks
  <2> QED
    BY <2>3, <2>5, <2>6, <2>7
<1>8. CASE RunTimer
  <2>1. /\ PlaceOnMainThread(latest, 2) /\ timers > 0 /\ timers' = timers - 1
        /\ UNCHANGED <<wanted, placement, queue, gone, open, hosted>>
    BY <1>8 DEF RunTimer
  <2>2. latest' = latest
    BY <2>1, PlacesView
  <2>3. /\ placed' \in BOOLEAN
        /\ shown' \in SUBSET Holes /\ holeWait' \in 0 .. 2 /\ ViewInPlace'
    BY <2>1, PlacesView
  <2> QED
    BY <2>1, <2>2, <2>3
<1>9. CASE RunDestroy
  <2>1. /\ queue # << >> /\ Head(queue) = TheEnd /\ queue' = Tail(queue) /\ gone'
        /\ UNCHANGED <<wanted, placement, placed, latest, shown, holeWait, timers, open, hosted>>
    BY <1>9 DEF RunDestroy
  <2>2. ~hosted /\ Len(queue) = 1
    BY <2>1, QueueShrinks
  <2> QED
    BY <2>1, <2>2, QueueShrinks
<1> QED
  BY <1>1, <1>2, <1>3, <1>4, <1>5, <1>6, <1>7, <1>8, <1>9 DEF HostNext

THEOREM HostInvariance == HostSpec => []HostIInv
  BY InitHostIInv, NextHostIInv, PTL DEF HostSpec

(* While `placed` is set and the main thread has no block to run, the view *)
(* is in an open Cocoa window of the placement asked for, so that          *)
(* wmgl_window_place may return early.                                     *)
THEOREM PlacedStaysTrue == HostSpec => []PlacedIsTrue
<1>1. HostIInv => PlacedIsTrue
  BY DEF HostIInv, EndIsLast, LatestIsPlacement, ViewInPlace, PlacedIsTrue
<1> QED
  BY <1>1, HostInvariance, PTL

(* After the block of wmgl_window_destroy no timer still waiting shows the *)
(* view or changes its holes.                                              *)
THEOREM DestroyedStaysOff == HostSpec => GoneStaysOff
<1>1. HostIInv /\ [HostNext]_hostVars => [Off => superview' = superview /\ shown' = shown]_hostVars
  <2> SUFFICES ASSUME HostIInv, HostNext, Off
               PROVE  superview' = superview /\ shown' = shown
    BY DEF hostVars
  <2>1. ~hosted /\ queue = << >> /\ gone
    <3>1. queue = << >>
      <4>1. Len(queue) \in Nat /\ DOMAIN queue = 1 .. Len(queue)
        BY DEF HostIInv, HostTypeOK
      <4>2. Len(queue) \notin DOMAIN queue
        BY DEF Off, HostIInv, EndIsLast
      <4> QED
        BY <4>1, <4>2 DEF HostIInv, HostTypeOK
    <3> QED
      BY <3>1 DEF Off, HostIInv, EndIsLast
  <2>2. CASE RunTimer
    <3>1. PlaceOnMainThread(latest, 2)
      BY <2>2 DEF RunTimer
    <3> QED
      BY <2>1, <3>1 DEF PlaceOnMainThread
  <2>3. ~RunPlacement /\ ~RunDestroy /\ ~Place /\ ~DestroyHost
    BY <2>1 DEF RunPlacement, RunDestroy, Place, DestroyHost
  <2>4. ASSUME NEW p \in Placements, Change(p) PROVE FALSE
    BY <2>1, <2>4 DEF Change
  <2>5. ASSUME NEW t \in Tops, OpenCocoa(t) PROVE UNCHANGED mainThread
    BY <2>5 DEF OpenCocoa
  <2>6. ASSUME NEW c \in open, CloseCocoa(c) PROVE UNCHANGED mainThread
    BY <2>6 DEF CloseCocoa
  <2> QED
    BY <2>2, <2>3, <2>4, <2>5, <2>6 DEF HostNext, mainThread
<1> QED
  BY <1>1, HostInvariance, PTL DEF HostSpec, GoneStaysOff
-----------------------------------------------------------------------------
(***************************************************************************)
(* Proofs about Log. A step is one thread's: what the others have on their *)
(* stacks stays, messages keep their places, and the file grows.           *)
(***************************************************************************)

OthersStay(t) ==
  \A u \in Loggers \ {t} :
    /\ logPc'[u] = logPc[u] /\ message'[u] = message[u] /\ cursor'[u] = cursor[u] /\ upto'[u] = upto[u]
    /\ wasOpen'[u] = wasOpen[u] /\ before'[u] = before[u]

\* A place is given to the message of the thread only, and what the thread is
\* on its way to remember it did not remember before.
PlacesGrow(t) ==
  /\ Len(position) <= Len(position') /\ head <= head'
  /\ \A m \in DOMAIN position :
       /\ kindOf'[m] = kindOf[m]
       /\ position'[m] = position[m] \/ (logPc[t] = "claim" /\ m = message[t])
  /\ logPc'[t] \in {"clear", "fill"} =>
       message'[t] = message[t] /\ Emits(t) /\ logPc[t] \in {"claim", "clear"}
  /\ message'[t] \in {0, message[t], Len(position) + 1}

FileGrows(t) ==
  /\ fd => fd'
  /\ fd' => fd \/ logPc'[t] = "head"
  /\ inFile \subseteq inFile'
  /\ mutex' \in {mutex, t, Nobody} /\ (mutex' # mutex => mutex \in {Nobody, t})

\* What the thread is about to copy it copies, or is still about to.
CopyGoesOn(t) ==
  \A m \in Remembered :
    logPc[t] = "head" \/ (logPc[t] = "history" /\ cursor[t] < position[m] /\ position[m] <= upto[t]) => Reaches(m)'

StepOf(t) == OthersStay(t) /\ PlacesGrow(t) /\ FileGrows(t) /\ CopyGoesOn(t)

LEMMA MessagesTyped ==
  ASSUME LogIInv
  PROVE  /\ Len(position) \in Nat /\ Len(kindOf) = Len(position) /\ DOMAIN position = 1 .. Len(position)
         /\ \A m \in 1 .. Len(position) : position[m] \in Nat
         /\ \A m \in Remembered : m \in 1 .. Len(position) /\ position[m] > 0
         /\ \A t \in Loggers : message[t] \in 0 .. Len(position)
         /\ \A t \in Loggers : Emits(t) => message[t] \in 1 .. Len(position)
<1>1. LogTypeOK
  BY DEF LogIInv
<1>2. position \in Seq(Nat) /\ Len(kindOf) = Len(position)
  BY <1>1 DEF LogTypeOK
<1>3. /\ Len(position) \in Nat /\ DOMAIN position = 1 .. Len(position)
      /\ \A m \in 1 .. Len(position) : position[m] \in Nat
  BY <1>2
<1>4. \A t \in Loggers : message[t] \in 0 .. Len(position)
  BY <1>1, <1>2 DEF LogTypeOK
<1>5. \A t \in Loggers : Emits(t) => message[t] \in 1 .. Len(position)
  BY <1>3, <1>4 DEF Emits
<1> QED
  BY <1>2, <1>3, <1>4, <1>5 DEF Remembered

LEMMA MessagesTypedAfter ==
  ASSUME LogTypeOK'
  PROVE  /\ Len(position') \in Nat /\ DOMAIN position' = 1 .. Len(position')
         /\ Len(kindOf') = Len(position')
         /\ \A m \in 1 .. Len(position') : position'[m] \in Nat
<1>1. position' \in Seq(Nat) /\ Len(kindOf') = Len(position')
  BY DEF LogTypeOK
<1> QED
  BY <1>1

LEMMA StayRemembered ==
  ASSUME LogIInv, NEW t \in Loggers, StepOf(t), LogTypeOK'
  PROVE  \A m \in Remembered : m \in Remembered' /\ position'[m] = position[m] /\ position[m] \in Nat
<1> SUFFICES ASSUME NEW m \in Remembered
             PROVE  m \in Remembered' /\ position'[m] = position[m] /\ position[m] \in Nat
  OBVIOUS
<1>1. m \in 1 .. Len(position) /\ Len(position) \in Nat /\ position[m] > 0 /\ position[m] \in Nat
  BY MessagesTyped
<1>2. m \in 1 .. Len(position') /\ DOMAIN position' = 1 .. Len(position')
  <2>1. Len(position') \in Nat /\ DOMAIN position' = 1 .. Len(position')
    BY MessagesTypedAfter
  <2>2. Len(position) <= Len(position')
    BY DEF StepOf, PlacesGrow
  <2> QED
    BY <1>1, <2>1, <2>2
<1>3. \A u \in Loggers : logPc[u] \in {"clear", "fill"} => message[u] # m
  BY DEF Remembered
<1>4. logPc[t] = "claim" => position[message[t]] = 0
  BY DEF LogIInv, Placed
<1>5. position'[m] = position[m]
  <2>1. m \in DOMAIN position
    BY <1>1, MessagesTyped
  <2> QED
    BY <1>1, <1>4, <2>1 DEF StepOf, PlacesGrow
<1>6. ASSUME NEW u \in Loggers, logPc'[u] \in {"clear", "fill"}
      PROVE  message'[u] # m
  <2>1. CASE u = t
    BY <1>1, <1>3, <1>4, <1>6, <2>1 DEF StepOf, PlacesGrow
  <2>2. CASE u # t
    BY <1>3, <1>6, <2>2 DEF StepOf, OthersStay
  <2> QED
    BY <2>1, <2>2
<1> QED
  BY <1>1, <1>2, <1>5, <1>6 DEF Remembered

LEMMA SharesOn ==
  ASSUME LogIInv, NEW t \in Loggers, StepOf(t), LogTypeOK', NEW m \in Remembered, SharesSlot(m)
  PROVE  SharesSlot(m)'
<1>1. PICK n \in DOMAIN position \ {m} : position[n] > 0 /\ (position[n] - position[m]) % kSlots = 0
  BY DEF SharesSlot
<1>2. position'[m] = position[m]
  BY StayRemembered
<1>3. DOMAIN position' = 1 .. Len(position') /\ DOMAIN position = 1 .. Len(position)
      /\ Len(position) \in Nat /\ Len(position') \in Nat
  BY MessagesTyped, MessagesTypedAfter
<1>4. n \in DOMAIN position'
  BY <1>1, <1>3 DEF StepOf, PlacesGrow
<1>5. logPc[t] = "claim" => position[message[t]] = 0
  BY DEF LogIInv, Placed
<1>6. position'[n] = position[n]
  BY <1>1, <1>5 DEF StepOf, PlacesGrow
<1> QED
  BY <1>1, <1>2, <1>4, <1>6 DEF SharesSlot

LEMMA ReachesOn ==
  ASSUME LogIInv, NEW t \in Loggers, StepOf(t), LogTypeOK', NEW m \in Remembered, Reaches(m)
  PROVE  Reaches(m)'
<1>1. CASE m \in inFile
  BY <1>1 DEF StepOf, FileGrows, Reaches
<1>2. CASE SharesSlot(m)
  BY <1>2, SharesOn DEF Reaches
<1>3. CASE BeingCopied(m)
  <2>1. PICK u \in Loggers : logPc[u] = "head" \/ (logPc[u] = "history" /\ cursor[u] < position[m] /\ position[m] <= upto[u])
    BY <1>3 DEF BeingCopied
  <2>2. CASE u = t
    BY <2>1, <2>2 DEF StepOf, CopyGoesOn
  <2>3. CASE u # t
    <3>1. position'[m] = position[m]
      BY StayRemembered
    <3> QED
      BY <2>1, <2>3, <3>1 DEF StepOf, OthersStay, BeingCopied, Reaches
  <2> QED
    BY <2>2, <2>3
<1> QED
  BY <1>1, <1>2, <1>3 DEF Reaches

LEMMA OwedAreRemembered ==
  ASSUME LogIInv, NEW u \in Loggers
  PROVE  Owed(u) \subseteq Remembered
<1>1. Agrees(u) /\ Placed(u)
  BY DEF LogIInv
<1>2. CASE ~Owes(u)
  BY <1>2 DEF Owed
<1>3. CASE Owes(u) /\ ~Emits(u)
  BY <1>1, <1>3 DEF Owed, Placed
<1>4. CASE Owes(u) /\ Emits(u)
  <2>1. Owed(u) = {message[u]} /\ logPc[u] \in InOpen \cup {"skip"} /\ ToHistory(kindOf[message[u]])
    BY <1>4 DEF Owed, Owes, InOpen
  <2>2. position[message[u]] > 0 /\ message[u] \in DOMAIN position
    BY <1>1, <1>4, <2>1, MessagesTyped DEF Placed
  <2>3. ASSUME NEW v \in Loggers, logPc[v] \in {"clear", "fill"}
        PROVE  message[v] # message[u]
    <3>1. v # u
      BY <2>1, <2>3 DEF InOpen
    <3> QED
      BY <1>1, <1>4, <3>1 DEF Agrees
  <2> QED
    BY <2>1, <2>2, <2>3 DEF Remembered
<1> QED
  BY <1>2, <1>3, <1>4

(* What is owed to other threads' reports and messages stays as it is, or  *)
(* a thread has opened the file, which copies all there is.                *)
LEMMA OtherFileHas ==
  ASSUME LogIInv, NEW t \in Loggers, StepOf(t), LogTypeOK', NEW u \in Loggers, u # t
  PROVE  FileHas(u)'
<1>1. /\ logPc'[u] = logPc[u] /\ message'[u] = message[u] /\ wasOpen'[u] = wasOpen[u]
      /\ before'[u] = before[u]
  BY DEF StepOf, OthersStay
<1>2. Emits(u)' <=> Emits(u)
  BY <1>1 DEF Emits
<1>3. Emits(u) => kindOf'[message[u]] = kindOf[message[u]]
  BY MessagesTyped DEF StepOf, PlacesGrow
<1>4. (fd => fd') /\ (fd' => fd \/ logPc'[t] = "head")
  BY DEF StepOf, FileGrows
<1>5. FileHas(u)
  BY DEF LogIInv
<1>6. \A m \in Owed(u)' : Reaches(m)'
  <2>1. CASE fd' /\ ~fd
    BY <1>4, <2>1 DEF Reaches, BeingCopied
  <2>2. CASE ~(fd' /\ ~fd)
    <3>1. fd' <=> fd
      BY <1>4, <2>2
    <3>2. Owes(u)' <=> Owes(u)
      BY <1>1, <1>2, <1>3, <3>1 DEF Owes, ToHistory
    <3>3. Owed(u)' = Owed(u)
      BY <1>1, <1>2, <3>2 DEF Owed
    <3> QED
      BY <1>5, <3>3, OwedAreRemembered, ReachesOn DEF FileHas
  <2> QED
    BY <2>1, <2>2
<1> QED
  BY <1>1, <1>2, <1>4, <1>5, <1>6 DEF FileHas

LEMMA OtherPlaced ==
  ASSUME LogAssumption, LogIInv, NEW t \in Loggers, StepOf(t), LogTypeOK', NEW u \in Loggers, u # t
  PROVE  Agrees(u)' /\ Placed(u)'
<1>1. /\ logPc'[u] = logPc[u] /\ message'[u] = message[u] /\ cursor'[u] = cursor[u] /\ upto'[u] = upto[u]
      /\ before'[u] = before[u]
  BY DEF StepOf, OthersStay
<1>2. Emits(u)' <=> Emits(u)
  BY <1>1 DEF Emits
<1>3. Agrees(u) /\ Placed(u) /\ Agrees(t)
  BY DEF LogIInv
<1>4. Emits(u) => /\ kindOf'[message[u]] = kindOf[message[u]]
                  /\ position'[message[u]] = position[message[u]]
  <2> SUFFICES ASSUME Emits(u)
               PROVE  kindOf'[message[u]] = kindOf[message[u]] /\ position'[message[u]] = position[message[u]]
    OBVIOUS
  <2>1. message[u] \in DOMAIN position /\ message[t] # message[u]
    BY <1>3, MessagesTyped DEF Agrees
  <2> QED
    BY <2>1 DEF StepOf, PlacesGrow
<1>5. Emits(u) => \A v \in Loggers \ {u} : message'[v] # message'[u]
  <2> SUFFICES ASSUME Emits(u), NEW v \in Loggers \ {u}
               PROVE  message'[v] # message[u]
    BY <1>1
  <2>1. message[u] \in 1 .. Len(position) /\ Len(position) \in Nat /\ message[v] # message[u]
    BY <1>3, MessagesTyped DEF Agrees
  <2>2. CASE v = t
    <3>1. message'[t] \in {0, message[t], Len(position) + 1}
      BY DEF StepOf, PlacesGrow
    <3> QED
      BY <2>1, <2>2, <3>1
  <2>3. CASE v # t
    BY <2>1, <2>3 DEF StepOf, OthersStay
  <2> QED
    BY <2>2, <2>3
<1>6. mutex' = u <=> mutex = u
  BY DEF LogAssumption, StepOf, FileGrows
<1>7. Agrees(u)'
  BY <1>1, <1>2, <1>3, <1>5, <1>6 DEF Agrees
<1>8. Placed(u)'
  <2>1. logPc[u] \in {"claim", "clear", "fill"} => Emits(u)
    BY <1>3 DEF Agrees, InEmit
  <2>2. head <= head' /\ head \in Nat /\ head' \in Nat /\ upto[u] \in Nat
    BY DEF StepOf, PlacesGrow, LogIInv, LogTypeOK
  <2>3. before[u] \subseteq Remembered'
    BY <1>3, StayRemembered DEF Placed
  <2>4. upto[u] <= head => upto[u] <= head'
    BY <2>2
  <2> QED
    BY <1>1, <1>2, <1>3, <1>4, <2>1, <2>3, <2>4 DEF Placed, ToHistory
<1> QED
  BY <1>7, <1>8

LEMMA RingStays ==
  ASSUME LogIInv, NEW t \in Loggers, StepOf(t), LogTypeOK', slot' = slot, Remembered' \subseteq Remembered
  PROVE  RingHolds'
<1> SUFFICES ASSUME NEW m \in Remembered'
             PROVE  slot'[(position'[m] - 1) % kSlots] = m \/ SharesSlot(m)'
  BY DEF RingHolds
<1>1. m \in Remembered /\ position'[m] = position[m]
  BY StayRemembered
<1>2. slot[(position[m] - 1) % kSlots] = m \/ SharesSlot(m)
  BY <1>1 DEF LogIInv, RingHolds
<1> QED
  BY <1>1, <1>2, SharesOn

LEMMA SameRemembered ==
  ASSUME LogIInv, NEW t \in Loggers, StepOf(t), LogTypeOK', logPc[t] \notin {"clear", "fill"},
         \A m \in DOMAIN position' : position'[m] > 0 =>
           \/ m \in DOMAIN position /\ position[m] > 0
           \/ logPc'[t] = "clear" /\ message'[t] = m
  PROVE  Remembered' \subseteq Remembered
<1> SUFFICES ASSUME NEW m \in Remembered'
             PROVE  m \in Remembered
  OBVIOUS
<1>1. m \in DOMAIN position' /\ position'[m] > 0
      /\ \A u \in Loggers : logPc'[u] \in {"clear", "fill"} => message'[u] # m
  BY DEF Remembered
<1>2. m \in DOMAIN position /\ position[m] > 0
  BY <1>1
<1>3. ASSUME NEW u \in Loggers, logPc[u] \in {"clear", "fill"}
      PROVE  message[u] # m
  BY <1>1, <1>3 DEF StepOf, OthersStay
<1> QED
  BY <1>2, <1>3 DEF Remembered

LEMMA UntitledFit ==
  ASSUME LogAssumption
  PROVE  IsFiniteSet(Untitled) /\ Cardinality(Untitled) \in Nat
<1>1. Untitled \subseteq Loggers /\ IsFiniteSet(Loggers)
  BY DEF Untitled, LogAssumption
<1> QED
  BY <1>1, FS_Subset, FS_CardinalityType

LEMMA UntitledFitAfter ==
  ASSUME LogAssumption
  PROVE  Untitled' \subseteq Loggers /\ IsFiniteSet(Untitled') /\ Cardinality(Untitled') \in Nat
<1>1. Untitled' \subseteq Loggers /\ IsFiniteSet(Loggers)
  BY DEF Untitled, LogAssumption
<1> QED
  BY <1>1, FS_Subset, FS_CardinalityType

LEMMA OtherReports ==
  ASSUME NEW t \in Loggers, OthersStay(t), NEW u \in Loggers, u # t
  PROVE  /\ Reporter(u)' <=> Reporter(u)
         /\ Titled(u)' <=> Titled(u)
         /\ u \in Untitled' <=> u \in Untitled
<1>1. logPc'[u] = logPc[u] /\ message'[u] = message[u] /\ wasOpen'[u] = wasOpen[u]
  BY DEF OthersStay
<1> QED
  BY <1>1 DEF Reporter, Titled, Untitled, Emits

LEMMA ReportsStay ==
  ASSUME LogAssumption, LogIInv, NEW t \in Loggers, OthersStay(t), UNCHANGED <<marks, reports, reporting>>,
         Reporter(t)' <=> Reporter(t), Titled(t)' <=> Titled(t),
         t \in Untitled' => t \in Untitled
  PROVE  OneReporter'
<1>1. \A u \in Loggers : /\ Reporter(u)' <=> Reporter(u)
                         /\ Titled(u)' <=> Titled(u)
  BY OtherReports
<1>2. Untitled' \subseteq Untitled
  BY OtherReports, UntitledFitAfter
<1>3. Cardinality(Untitled') <= Cardinality(Untitled)
  BY <1>2, UntitledFit, FS_Subset
<1> DEFINE a == Cardinality(Untitled')
           c == Cardinality(Untitled)
           l == (Len(marks) + 1) \div 2
<1>4. a \in Nat /\ c \in Nat /\ a <= c /\ l \in Nat /\ reports \in Nat /\ MaxReports \in Nat
  <2>1. Len(marks) \in Nat
    BY DEF LogIInv, LogTypeOK
  <2> QED
    BY <1>3, <2>1, UntitledFit, UntitledFitAfter DEF LogIInv, LogTypeOK, LogAssumption
<1>5. l + c <= reports /\ l + c <= MaxReports
  BY DEF LogIInv, OneReporter
<1> HIDE DEF a, c, l
<1>6. l + a <= reports /\ l + a <= MaxReports
  BY <1>4, <1>5
<1> QED
  BY <1>1, <1>6 DEF LogIInv, OneReporter, a, l

LEMMA Together ==
  ASSUME LogAssumption, LogIInv, NEW t \in Loggers, StepOf(t), LogTypeOK',
         Agrees(t)', Placed(t)', FileHas(t)', PlacesCounted', RingHolds', OneReporter'
  PROVE  LogIInv'
<1>1. \A u \in Loggers : Agrees(u)' /\ Placed(u)' /\ FileHas(u)'
  BY OtherFileHas, OtherPlaced
<1> QED
  BY <1>1 DEF LogIInv

(* The thread is back in the program.                                      *)
LEMMA Returns ==
  ASSUME LogTypeOK, NEW t \in Loggers, Leave(t)
  PROVE  /\ OthersStay(t)
         /\ logPc'[t] = "idle" /\ message'[t] = 0 /\ before'[t] = {}
         /\ logPc' \in [Loggers -> {"idle"} \cup InEmit \cup InOpen \cup InCrash]
         /\ message' \in [Loggers -> 0 .. Len(kindOf)]
         /\ cursor' \in [Loggers -> Nat] /\ upto' \in [Loggers -> Nat]
         /\ wasOpen' \in [Loggers -> BOOLEAN] /\ before' \in [Loggers -> SUBSET Nat]
<1>1. Len(kindOf) \in Nat
  BY DEF LogTypeOK
<1> QED
  BY <1>1 DEF Leave, LogGoto, LogTypeOK, OthersStay

(* A thread that is back in the program has nothing to do with the log.    *)
LEMMA IdleFits ==
  ASSUME LogIInv, LogAssumption, NEW t \in Loggers, logPc'[t] = "idle", message'[t] = 0, before'[t] = {},
         mutex' # t
  PROVE  Agrees(t)' /\ Placed(t)' /\ FileHas(t)'
BY DEF Agrees, Placed, FileHas, Owed, Owes, Emits, InEmit, InOpen, InCrash

(* A step of a thread that is in no report, before or after.               *)
LEMMA NoReport ==
  ASSUME LogAssumption, LogIInv, NEW t \in Loggers, OthersStay(t), UNCHANGED <<marks, reports, reporting>>,
         Emits(t) \/ logPc[t] \in {"idle", "crashed", "chain"},
         Emits(t)' \/ logPc'[t] \in {"idle", "crashed", "chain"},
         Emits(t)' => logPc'[t] # "exchange"
  PROVE  OneReporter'
<1>1. ~Reporter(t) /\ ~Titled(t) /\ ~Reporter(t)' /\ ~Titled(t)'
  BY DEF Reporter, Titled, InOpen
<1>2. logPc[t] # "exchange" /\ logPc'[t] # "exchange"
  BY DEF LogIInv, Agrees, InCrash
<1>3. t \notin Untitled /\ t \notin Untitled'
  BY <1>1, <1>2 DEF Untitled
<1> QED
  BY <1>1, <1>3, ReportsStay

LEMMA SlotOf ==
  ASSUME LogAssumption, NEW p \in Nat, p > 0
  PROVE  (p - 1) % kSlots \in 0 .. kSlots - 1
BY DEF LogAssumption

LEMMA Multiple ==
  ASSUME NEW k \in Nat, k > 0, NEW d \in Int
  PROVE  (k * d) % k = 0
OBVIOUS

(* Two places that are in the same slot are a multiple of the ring apart.  *)
LEMMA SameSlot ==
  ASSUME LogAssumption, NEW p \in Nat, NEW q \in Nat
  PROVE  /\ (p - 1) % kSlots = (q - 1) % kSlots => (p - q) % kSlots = 0
         /\ p - q = kSlots => (p - q) % kSlots = 0
<1>1. kSlots \in Nat /\ kSlots > 0
  BY DEF LogAssumption
<1> DEFINE a == (p - 1) \div kSlots
           b == (q - 1) \div kSlots
           r == (p - 1) % kSlots
<1>2. a \in Int /\ b \in Int /\ r \in Int /\ p - 1 = kSlots * a + r
  BY <1>1
<1>3. ASSUME (p - 1) % kSlots = (q - 1) % kSlots
      PROVE  (p - q) % kSlots = 0
  <2>1. q - 1 = kSlots * b + r
    BY <1>1, <1>3
  <2> HIDE DEF a, b, r
  <2>2. p - q = kSlots * (a - b)
    BY <1>1, <1>2, <2>1
  <2> DEFINE d == a - b
  <2>3. d \in Int /\ p - q = kSlots * d
    BY <1>2, <2>2
  <2> HIDE DEF d
  <2> QED
    BY <1>1, <2>3, Multiple
<1>4. ASSUME p - q = kSlots
      PROVE  (p - q) % kSlots = 0
  BY <1>1, <1>4
<1> QED
  BY <1>3, <1>4

-----------------------------------------------------------------------------
(* emit() and remember(). *)

LEMMA EmitKeeps ==
  ASSUME LogAssumption, LogIInv, NEW t \in Loggers, NEW kind \in LogKinds, Emit(t, kind)
  PROVE  LogIInv'
<1> DEFINE n == Len(position)
<1>1. /\ logPc[t] = "idle"
      /\ kindOf' = Append(kindOf, kind) /\ position' = Append(position, 0)
      /\ message' = [message EXCEPT ![t] = Len(kindOf) + 1]
      /\ logPc' = [logPc EXCEPT ![t] = IF ToHistory(kind) THEN "claim" ELSE "lock"]
      /\ UNCHANGED <<cursor, upto, crash, wasOpen, before, head, slot, fd, mutex, inFile, marks,
                     reports, reporting>>
  BY DEF Emit, At, LogGoto, logState, file, reporter
<1>2. /\ LogTypeOK /\ n \in Nat /\ Len(kindOf) = n /\ DOMAIN position = 1 .. n
      /\ position \in Seq(Nat) /\ kindOf \in Seq(LogKinds)
  BY MessagesTyped DEF LogIInv, LogTypeOK
<1>3. /\ position' \in Seq(Nat) /\ kindOf' \in Seq(LogKinds) /\ Len(position') = n + 1 /\ Len(kindOf') = n + 1
      /\ \A m \in 1 .. n : position'[m] = position[m] /\ kindOf'[m] = kindOf[m]
      /\ position'[n + 1] = 0 /\ kindOf'[n + 1] = kind
      /\ DOMAIN position' = 1 .. n + 1
  BY <1>1, <1>2
<1> HIDE DEF n
<1>4. LogTypeOK'
  <2>1. logPc' \in [Loggers -> {"idle"} \cup InEmit \cup InOpen \cup InCrash]
    BY <1>1, <1>2 DEF LogTypeOK, InEmit
  <2>2. message' \in [Loggers -> 0 .. n + 1]
    BY <1>1, <1>2 DEF LogTypeOK
  <2> QED
    BY <1>1, <1>2, <1>3, <2>1, <2>2 DEF LogTypeOK
<1>5. logPc'[t] = (IF ToHistory(kind) THEN "claim" ELSE "lock") /\ message'[t] = n + 1
  BY <1>1, <1>2 DEF LogTypeOK
<1>6. StepOf(t)
  <2>1. OthersStay(t)
    BY <1>1, <1>2 DEF OthersStay, LogTypeOK
  <2>2. PlacesGrow(t)
    BY <1>1, <1>2, <1>3, <1>5 DEF PlacesGrow, LogTypeOK, n
  <2> QED
    BY <1>1, <2>1, <2>2 DEF StepOf, FileGrows, CopyGoesOn
<1>7. Agrees(t)'
  <2>1. mutex # t
    BY <1>1 DEF LogIInv, Agrees, InOpen
  <2>2. \A u \in Loggers \ {t} : message'[u] # n + 1
    BY <1>1, <1>2, MessagesTyped DEF LogTypeOK
  <2> QED
    BY <1>1, <1>2, <1>5, <2>1, <2>2 DEF Agrees, Emits, InEmit, InOpen, InCrash
<1>8. Remembered' \subseteq Remembered
  <2>1. \A m \in DOMAIN position' : position'[m] > 0 => m \in DOMAIN position /\ position[m] > 0
    BY <1>2, <1>3
  <2> QED
    BY <1>1, <1>4, <1>6, <2>1, SameRemembered
<1>9. Placed(t)' /\ FileHas(t)'
  <2>1. before'[t] \subseteq Remembered'
    BY <1>1, <1>4, <1>6, StayRemembered DEF LogIInv, Placed
  <2>2. ~ToHistory(kind) => ~ToHistory(kindOf'[message'[t]])
    BY <1>3, <1>5 DEF ToHistory
  <2> QED
    BY <1>3, <1>5, <2>1, <2>2 DEF Placed, FileHas, Owed, Owes, Emits, InOpen
<1>10. PlacesCounted'
  <2>1. PlacesCounted /\ head \in Nat
    BY <1>2 DEF LogIInv, LogTypeOK
  <2> QED
    <3>1. \A m \in DOMAIN position' : position'[m] <= head
      <4>1. \A m \in 1 .. n : position[m] <= head
        BY <1>2, <2>1 DEF PlacesCounted
      <4>2. \A m \in DOMAIN position' : m \in 1 .. n \/ m = n + 1
        BY <1>2, <1>3
      <4> QED
        BY <1>3, <2>1, <4>1, <4>2
    <3>2. \A p \in 1 .. head : \E m \in DOMAIN position' : position'[m] = p
      <4> SUFFICES ASSUME NEW p \in 1 .. head
                   PROVE  \E m \in DOMAIN position' : position'[m] = p
        OBVIOUS
      <4>1. PICK m \in 1 .. n : position[m] = p
        BY <1>2, <2>1 DEF PlacesCounted
      <4> QED
        BY <1>2, <1>3, <4>1
    <3> QED
      BY <1>1, <3>1, <3>2 DEF PlacesCounted
<1>11. OneReporter'
  BY <1>1, <1>2, <1>5, <1>6, NoReport DEF StepOf, Emits
<1> QED
  BY <1>1, <1>4, <1>6, <1>7, <1>8, <1>9, <1>10, <1>11, RingStays, Together

LEMMA ClaimKeeps ==
  ASSUME LogAssumption, LogIInv, NEW t \in Loggers, Claim(t)
  PROVE  LogIInv'
<1> DEFINE n == Len(position)
           m == message[t]
<1>1. /\ logPc[t] = "claim"
      /\ head' = head + 1 /\ position' = [position EXCEPT ![m] = head + 1]
      /\ cursor' = [cursor EXCEPT ![t] = head % kSlots]
      /\ logPc' = [logPc EXCEPT ![t] = "clear"]
      /\ UNCHANGED <<kindOf, message, upto, crash, wasOpen, before, slot, fd, mutex, inFile, marks,
                     reports, reporting>>
  BY DEF Claim, At, LogGoto, logState, file, reporter
<1>2. /\ LogTypeOK /\ n \in Nat /\ Len(kindOf) = n /\ DOMAIN position = 1 .. n
      /\ position \in Seq(Nat) /\ kindOf \in Seq(LogKinds) /\ head \in Nat
      /\ Emits(t) /\ m \in 1 .. n /\ position[m] = 0 /\ Agrees(t) /\ Placed(t)
  BY <1>1, MessagesTyped DEF LogIInv, LogTypeOK, Agrees, Placed, InEmit
<1>3. /\ position' \in Seq(Nat) /\ Len(position') = n /\ DOMAIN position' = 1 .. n
      /\ \A k \in 1 .. n : position'[k] = IF k = m THEN head + 1 ELSE position[k]
  BY <1>1, <1>2, ExceptSeq
<1>4. head % kSlots \in 0 .. kSlots - 1 /\ kSlots \in Nat
  BY <1>2 DEF LogAssumption
<1> HIDE DEF n, m
<1>5. LogTypeOK'
  <2>1. logPc' \in [Loggers -> {"idle"} \cup InEmit \cup InOpen \cup InCrash]
    BY <1>1, <1>2 DEF LogTypeOK, InEmit
  <2>2. cursor' \in [Loggers -> Nat] /\ head' \in Nat
    BY <1>1, <1>2, <1>4 DEF LogTypeOK
  <2> QED
    BY <1>1, <1>2, <1>3, <2>1, <2>2 DEF LogTypeOK
<1>6. logPc'[t] = "clear" /\ message'[t] = m /\ cursor'[t] = head % kSlots
  BY <1>1, <1>2 DEF LogTypeOK, m
<1>7. StepOf(t)
  <2>1. OthersStay(t)
    BY <1>1, <1>2 DEF OthersStay, LogTypeOK
  <2>2. PlacesGrow(t)
    BY <1>1, <1>2, <1>3, <1>6 DEF PlacesGrow, n, m
  <2> QED
    BY <1>1, <2>1, <2>2 DEF StepOf, FileGrows, CopyGoesOn
<1>8. Agrees(t)'
  BY <1>1, <1>2, <1>6 DEF Agrees, Emits, InEmit, InOpen, InCrash
<1>9. Remembered' \subseteq Remembered
  <2>1. \A k \in DOMAIN position' : position'[k] > 0 =>
            (k \in DOMAIN position /\ position[k] > 0) \/ (logPc'[t] = "clear" /\ message'[t] = k)
    BY <1>2, <1>3, <1>6
  <2> QED
    BY <1>1, <1>5, <1>7, <2>1, SameRemembered
<1>10. Placed(t)' /\ FileHas(t)'
  <2>1. before'[t] \subseteq Remembered'
    BY <1>1, <1>2, <1>5, <1>7, StayRemembered DEF Placed
  <2>2. position'[m] > 0 /\ cursor'[t] = (position'[m] - 1) % kSlots
    BY <1>2, <1>3, <1>6
  <2>3. Owes(t)' <=> FALSE
    BY <1>1, <1>2, <1>6 DEF Owes, Emits
  <2> QED
    BY <1>1, <1>2, <1>6, <2>1, <2>2, <2>3 DEF Placed, FileHas, Owed, Emits, InOpen
<1>11. PlacesCounted'
  <2>1. PlacesCounted
    BY DEF LogIInv
  <2>2. \A k \in DOMAIN position' : position'[k] <= head + 1
    <3>1. \A k \in 1 .. n : position[k] <= head
      BY <1>2, <2>1 DEF PlacesCounted
    <3>2. \A k \in 1 .. n : position[k] \in Nat
      BY MessagesTyped DEF n
    <3>3. head \in Nat
      BY <1>2 DEF LogTypeOK
    <3> QED
      BY <1>3, <3>1, <3>2, <3>3
  <2>3. \A p \in 1 .. head + 1 : \E k \in DOMAIN position' : position'[k] = p
    <3> SUFFICES ASSUME NEW p \in 1 .. head + 1
                 PROVE  \E k \in DOMAIN position' : position'[k] = p
      OBVIOUS
    <3>1. CASE p = head + 1
      BY <1>2, <1>3, <3>1
    <3>2. CASE p # head + 1
      <4>1. head \in Nat
        BY <1>2 DEF LogTypeOK
      <4>2. p \in 1 .. head
        BY <3>2, <4>1
      <4>3. \A q \in 1 .. head : \E k \in DOMAIN position : position[k] = q
        BY <2>1 DEF PlacesCounted
      <4>4. PICK k \in 1 .. n : position[k] = p
        BY <1>2, <4>2, <4>3
      <4>5. k # m
        BY <1>2, <4>1, <4>2, <4>4
      <4> QED
        BY <1>3, <4>4, <4>5
    <3> QED
      BY <3>1, <3>2
  <2> QED
    BY <1>1, <2>2, <2>3 DEF PlacesCounted
<1>12. OneReporter'
  BY <1>1, <1>2, <1>6, <1>7, NoReport DEF StepOf, Emits
<1> QED
  BY <1>1, <1>5, <1>7, <1>8, <1>9, <1>10, <1>11, <1>12, RingStays, Together

(* The slot of what is in it goes to another message, or is this one's.    *)
LEMMA ClearKeeps ==
  ASSUME LogAssumption, LogIInv, NEW t \in Loggers, ClearSlot(t)
  PROVE  LogIInv'
<1> DEFINE m == message[t]
           c == cursor[t]
<1>1. /\ logPc[t] = "clear" /\ slot' = [slot EXCEPT ![c] = 0]
      /\ logPc' = [logPc EXCEPT ![t] = "fill"]
      /\ UNCHANGED <<kindOf, message, cursor, upto, crash, wasOpen, before, head, position, fd, mutex,
                     inFile, marks, reports, reporting>>
  BY DEF ClearSlot, At, LogGoto, logState, file, reporter, locals, scratch
<1>2. /\ LogTypeOK /\ Emits(t) /\ m \in DOMAIN position /\ Agrees(t) /\ Placed(t)
      /\ position[m] > 0 /\ position[m] \in Nat /\ c = (position[m] - 1) % kSlots
  BY <1>1, MessagesTyped DEF LogIInv, Agrees, Placed, InEmit
<1>3. c \in 0 .. kSlots - 1
  BY <1>2 DEF LogAssumption
<1> HIDE DEF m, c
<1>4. LogTypeOK'
  <2>1. logPc' \in [Loggers -> {"idle"} \cup InEmit \cup InOpen \cup InCrash]
    BY <1>1, <1>2 DEF LogTypeOK, InEmit
  <2>2. slot' \in [0 .. kSlots - 1 -> Nat]
    BY <1>1, <1>2 DEF LogTypeOK
  <2> QED
    BY <1>1, <1>2, <2>1, <2>2 DEF LogTypeOK
<1>5. logPc'[t] = "fill" /\ message'[t] = m /\ cursor'[t] = c
  BY <1>1, <1>2 DEF LogTypeOK, m, c
<1>6. StepOf(t)
  <2>1. OthersStay(t)
    BY <1>1, <1>2 DEF OthersStay, LogTypeOK
  <2>2. PlacesGrow(t)
    BY <1>1, <1>2, <1>5, MessagesTyped DEF PlacesGrow, m, LogTypeOK
  <2> QED
    BY <1>1, <2>1, <2>2 DEF StepOf, FileGrows, CopyGoesOn
<1>7. Agrees(t)'
  BY <1>1, <1>2, <1>5 DEF Agrees, Emits, InEmit, InOpen, InCrash
<1>8. Remembered' = Remembered
  <2>1. \A u \in Loggers : logPc'[u] \in {"clear", "fill"} <=> logPc[u] \in {"clear", "fill"}
    BY <1>1, <1>2 DEF LogTypeOK
  <2> QED
    BY <1>1, <2>1 DEF Remembered
<1>9. Placed(t)' /\ FileHas(t)'
  <2>1. Owes(t)' <=> FALSE
    BY <1>1, <1>2, <1>5 DEF Owes, Emits
  <2> QED
    BY <1>1, <1>2, <1>5, <1>8, <2>1 DEF Placed, FileHas, Owed, Emits, InOpen
<1>10. RingHolds'
  <2> SUFFICES ASSUME NEW k \in Remembered
               PROVE  slot'[(position[k] - 1) % kSlots] = k \/ SharesSlot(k)
    BY <1>1, <1>8 DEF RingHolds, SharesSlot
  <2>1. slot[(position[k] - 1) % kSlots] = k \/ SharesSlot(k)
    BY DEF LogIInv, RingHolds
  <2>2. k # m /\ position[k] \in Nat
    BY <1>1, MessagesTyped DEF Remembered, m
  <2>3. CASE (position[k] - 1) % kSlots = c
    BY <1>2, <2>2, <2>3, SameSlot DEF SharesSlot
  <2>4. CASE (position[k] - 1) % kSlots # c
    BY <1>1, <1>2, <2>1, <2>4, SlotOf DEF LogTypeOK
  <2> QED
    BY <2>3, <2>4
<1>11. PlacesCounted' /\ OneReporter'
  BY <1>1, <1>2, <1>5, <1>6, NoReport DEF StepOf, Emits, PlacesCounted, LogIInv
<1> QED
  BY <1>4, <1>6, <1>7, <1>9, <1>10, <1>11, Together

LEMMA FillKeeps ==
  ASSUME LogAssumption, LogIInv, NEW t \in Loggers, Fill(t)
  PROVE  LogIInv'
<1> DEFINE m == message[t]
           c == cursor[t]
<1>1. /\ logPc[t] = "fill" /\ slot' = [slot EXCEPT ![c] = m]
      /\ UNCHANGED <<kindOf, crash, head, position, fd, mutex, inFile, marks, reports, reporting>>
  BY DEF Fill, At, logState, file, reporter
<1>2. /\ LogTypeOK /\ Emits(t) /\ m \in DOMAIN position /\ Agrees(t) /\ Placed(t)
      /\ position[m] > 0 /\ position[m] \in Nat /\ c = (position[m] - 1) % kSlots /\ m \in Nat
  BY <1>1, MessagesTyped DEF LogIInv, Agrees, Placed, InEmit
<1>3. c \in 0 .. kSlots - 1 /\ mutex # t
  BY <1>1, <1>2, SlotOf DEF Agrees, InOpen
<1> HIDE DEF m, c
<1>4. /\ OthersStay(t)
      /\ logPc' \in [Loggers -> {"idle"} \cup InEmit \cup InOpen \cup InCrash]
      /\ message' \in [Loggers -> 0 .. Len(kindOf)]
      /\ cursor' \in [Loggers -> Nat] /\ upto' \in [Loggers -> Nat]
      /\ wasOpen' \in [Loggers -> BOOLEAN] /\ before' \in [Loggers -> SUBSET Nat]
      /\ \/ logPc'[t] = "lock" /\ message'[t] = m /\ before'[t] = before[t]
         \/ logPc'[t] = "idle" /\ message'[t] = 0 /\ before'[t] = {}
  <2>1. CASE Leave(t)
    BY <1>2, <2>1, Returns
  <2>2. CASE LogGoto(t, "lock") /\ UNCHANGED scratch
    <3>1. logPc' = [logPc EXCEPT ![t] = "lock"] /\ UNCHANGED <<message, cursor, upto, wasOpen, before>>
      BY <2>2 DEF LogGoto, scratch
    <3> QED
      BY <1>2, <3>1 DEF LogTypeOK, OthersStay, InEmit, m
  <2> QED
    BY <2>1, <2>2 DEF Fill
<1>5. LogTypeOK'
  <2>1. slot' \in [0 .. kSlots - 1 -> Nat]
    BY <1>1, <1>2 DEF LogTypeOK
  <2> QED
    BY <1>1, <1>2, <1>4, <2>1 DEF LogTypeOK
<1>6. StepOf(t)
  <2>1. PlacesGrow(t)
    <3>1. /\ Len(position) = Len(position') /\ head \in Nat /\ head' = head /\ Len(position) \in Nat
          /\ kindOf' = kindOf /\ position' = position
      BY <1>1, <1>2, MessagesTyped DEF LogTypeOK
    <3> QED
      BY <1>4, <3>1 DEF PlacesGrow, m
  <2> QED
    BY <1>1, <1>4, <2>1 DEF StepOf, FileGrows, CopyGoesOn
<1>7. Remembered' \subseteq Remembered \cup {m}
  <2> SUFFICES ASSUME NEW k \in Remembered', k # m
               PROVE  k \in Remembered
    OBVIOUS
  <2>1. k \in DOMAIN position /\ position[k] > 0
        /\ \A u \in Loggers : logPc'[u] \in {"clear", "fill"} => message'[u] # k
    BY <1>1 DEF Remembered
  <2>2. \A u \in Loggers : logPc[u] \in {"clear", "fill"} => message[u] # k
    BY <1>4, <2>1 DEF OthersStay, m
  <2> QED
    BY <2>1, <2>2 DEF Remembered
<1>8. RingHolds'
  <2> SUFFICES ASSUME NEW k \in Remembered'
               PROVE  slot'[(position[k] - 1) % kSlots] = k \/ SharesSlot(k)
    BY <1>1 DEF RingHolds, SharesSlot
  <2>1. CASE k = m
    BY <1>1, <1>2, <1>3, <2>1 DEF LogTypeOK
  <2>2. CASE k # m
    <3>1. k \in Remembered /\ position[k] \in Nat /\ position[k] > 0
      BY <1>7, <2>2, MessagesTyped
    <3>2. slot[(position[k] - 1) % kSlots] = k \/ SharesSlot(k)
      BY <3>1 DEF LogIInv, RingHolds
    <3>3. CASE (position[k] - 1) % kSlots = c
      BY <1>2, <2>2, <3>1, <3>3, SameSlot DEF SharesSlot
    <3>4. CASE (position[k] - 1) % kSlots # c
      BY <1>1, <1>2, <3>1, <3>2, <3>4, SlotOf DEF LogTypeOK
    <3> QED
      BY <3>3, <3>4
  <2> QED
    BY <2>1, <2>2
<1>9. Agrees(t)' /\ Placed(t)' /\ FileHas(t)'
  <2>1. CASE logPc'[t] = "lock" /\ message'[t] = m /\ before'[t] = before[t]
    <3>1. before'[t] \subseteq Remembered'
      BY <1>2, <1>5, <1>6, <2>1, StayRemembered DEF Placed
    <3>2. Emits(t)' /\ ~Owes(t)'
      BY <1>2, <2>1 DEF Emits, Owes, m
    <3>3. Agrees(t)'
      BY <1>1, <1>2, <1>3, <1>4, <2>1, <3>2 DEF Agrees, OthersStay, InEmit, InOpen, InCrash, m
    <3> QED
      BY <1>1, <1>2, <2>1, <3>1, <3>2, <3>3 DEF Placed, FileHas, Owed
  <2>2. CASE logPc'[t] = "idle" /\ message'[t] = 0 /\ before'[t] = {}
    BY <1>1, <1>3, <2>2, IdleFits
  <2> QED
    BY <1>4, <2>1, <2>2
<1>10. PlacesCounted' /\ OneReporter'
  <2>1. OneReporter'
    <3>1. Emits(t)' \/ logPc'[t] = "idle"
      BY <1>2, <1>4 DEF Emits, m
    <3>2. logPc'[t] # "exchange"
      BY <1>4
    <3> QED
      BY <1>1, <1>2, <1>4, <3>1, <3>2, NoReport
  <2> QED
    BY <1>1, <2>1 DEF PlacesCounted, LogIInv
<1> QED
  BY <1>5, <1>6, <1>8, <1>9, <1>10, Together

-----------------------------------------------------------------------------
(* writeToFile(), openFile() and logWriteHistory(). *)

(* A step that leaves the ring alone.                                      *)
LEMMA NoPlaceTaken ==
  ASSUME LogIInv, NEW t \in Loggers, UNCHANGED <<kindOf, head, position>>,
         logPc'[t] \notin {"clear", "fill"}, message'[t] \in {0, message[t]}
  PROVE  PlacesGrow(t) /\ PlacesCounted'
<1>1. Len(position') = Len(position) /\ Len(position) \in Nat /\ head \in Nat
  BY MessagesTyped DEF LogIInv, LogTypeOK
<1> QED
  BY <1>1 DEF PlacesGrow, PlacesCounted, LogIInv

LEMMA RingUntouched ==
  ASSUME LogIInv, NEW t \in Loggers, StepOf(t), LogTypeOK', UNCHANGED <<position, slot>>,
         logPc[t] \notin {"clear", "fill"}
  PROVE  RingHolds'
<1>1. Remembered' \subseteq Remembered
  BY SameRemembered
<1> QED
  BY <1>1, RingStays

LEMMA StillReached ==
  ASSUME LogIInv, NEW t \in Loggers, StepOf(t), LogTypeOK', Owed(t)' \subseteq Owed(t)
  PROVE  \A m \in Owed(t)' : Reaches(m)'
BY OwedAreRemembered, ReachesOn DEF LogIInv, FileHas

(* A step of a thread to another place in the code, which keeps its stack. *)
LEMMA Moves ==
  ASSUME LogTypeOK, NEW t \in Loggers, NEW l \in {"idle"} \cup InEmit \cup InOpen \cup InCrash,
         LogGoto(t, l)
  PROVE  /\ logPc' \in [Loggers -> {"idle"} \cup InEmit \cup InOpen \cup InCrash]
         /\ logPc'[t] = l /\ \A u \in Loggers \ {t} : logPc'[u] = logPc[u]
BY DEF LogGoto, LogTypeOK

LEMMA LockKeeps ==
  ASSUME LogAssumption, LogIInv, NEW t \in Loggers, Lock(t)
  PROVE  LogIInv'
<1>1. /\ logPc[t] = "lock" /\ mutex = Nobody
      /\ UNCHANGED <<kindOf, crash, head, position, slot, fd, inFile, marks, reports, reporting>>
  BY DEF Lock, At, ring, file, reporter
<1>2. /\ LogTypeOK /\ Emits(t) /\ Agrees(t) /\ Placed(t) /\ FileHas(t)
  BY <1>1 DEF LogIInv, Agrees, InEmit
<1>3. CASE Leave(t) /\ UNCHANGED mutex
  <2>1. LogTypeOK' /\ OthersStay(t) /\ logPc'[t] = "idle" /\ message'[t] = 0 /\ before'[t] = {}
    BY <1>1, <1>2, <1>3, Returns DEF LogTypeOK
  <2>2. StepOf(t) /\ PlacesCounted'
    BY <1>1, <1>3, <2>1, NoPlaceTaken DEF StepOf, FileGrows, CopyGoesOn
  <2>3. Agrees(t)' /\ Placed(t)' /\ FileHas(t)'
    BY <1>1, <1>3, <2>1, IdleFits DEF LogAssumption
  <2>4. RingHolds' /\ OneReporter'
    BY <1>1, <1>2, <2>1, <2>2, RingUntouched, NoReport DEF Emits
  <2> QED
    BY <2>1, <2>2, <2>3, <2>4, Together
<1>4. CASE /\ LogGoto(t, IF fd THEN "write" ELSE "open") /\ mutex' = t
           /\ UNCHANGED <<message, cursor, upto, wasOpen, before>>
  <2>1. /\ logPc' \in [Loggers -> {"idle"} \cup InEmit \cup InOpen \cup InCrash]
        /\ logPc'[t] = (IF fd THEN "write" ELSE "open") /\ OthersStay(t)
    BY <1>2, <1>4, Moves DEF InEmit, InOpen, OthersStay
  <2>2. LogTypeOK'
    BY <1>1, <1>2, <1>4, <2>1 DEF LogTypeOK
  <2>3. StepOf(t) /\ PlacesCounted'
    BY <1>1, <1>4, <2>1, NoPlaceTaken DEF StepOf, FileGrows, CopyGoesOn
  <2>4. Emits(t)' /\ ~Owes(t)'
    BY <1>1, <1>2, <1>4, <2>1 DEF Emits, Owes
  <2>5. before[t] \subseteq Remembered'
    BY <1>2, <2>2, <2>3, StayRemembered DEF Placed
  <2>6. Agrees(t)' /\ Placed(t)' /\ FileHas(t)'
    BY <1>1, <1>2, <1>4, <2>1, <2>4, <2>5
       DEF Agrees, Placed, FileHas, Owed, InEmit, InOpen, InCrash, Emits
  <2>7. RingHolds' /\ OneReporter'
    BY <1>1, <1>2, <2>1, <2>2, <2>3, <2>4, RingUntouched, NoReport
  <2> QED
    BY <2>2, <2>3, <2>6, <2>7, Together
<1> QED
  BY <1>3, <1>4 DEF Lock, scratch

LEMMA WriteMessageKeeps ==
  ASSUME LogAssumption, LogIInv, NEW t \in Loggers, WriteMessage(t)
  PROVE  LogIInv'
<1>1. /\ logPc[t] \in {"write", "skip"} /\ mutex' = Nobody /\ Leave(t) /\ inFile \subseteq inFile'
      /\ UNCHANGED <<kindOf, crash, head, position, slot, fd, marks, reports, reporting>>
  BY DEF WriteMessage, At, ring, file, reporter, Put
<1>2. /\ LogTypeOK /\ Emits(t) /\ mutex = t
  BY <1>1 DEF LogIInv, Agrees, InEmit
<1>3. LogTypeOK' /\ OthersStay(t) /\ logPc'[t] = "idle" /\ message'[t] = 0 /\ before'[t] = {}
  BY <1>1, <1>2, Returns DEF LogTypeOK
<1>4. StepOf(t) /\ PlacesCounted'
  BY <1>1, <1>2, <1>3, NoPlaceTaken DEF StepOf, FileGrows, CopyGoesOn
<1>5. Agrees(t)' /\ Placed(t)' /\ FileHas(t)'
  BY <1>1, <1>3, IdleFits DEF LogAssumption
<1>6. RingHolds' /\ OneReporter'
  BY <1>1, <1>2, <1>3, <1>4, RingUntouched, NoReport DEF Emits
<1> QED
  BY <1>3, <1>4, <1>5, <1>6, Together

LEMMA OpenFailsKeeps ==
  ASSUME LogAssumption, LogIInv, NEW t \in Loggers, OpenFails(t)
  PROVE  LogIInv'
<1>1. /\ logPc[t] = "open"
      /\ UNCHANGED <<kindOf, crash, head, position, slot, fd, inFile, marks, reports, reporting>>
  BY DEF OpenFails, At, ring, file, reporter
<1>2. LogTypeOK /\ Agrees(t) /\ Placed(t) /\ FileHas(t)
  BY DEF LogIInv
<1>3. CASE mutex = t /\ mutex' = Nobody /\ Leave(t)
  <2>1. LogTypeOK' /\ OthersStay(t) /\ logPc'[t] = "idle" /\ message'[t] = 0 /\ before'[t] = {}
    BY <1>1, <1>2, <1>3, Returns DEF LogTypeOK
  <2>2. StepOf(t) /\ PlacesCounted'
    BY <1>1, <1>3, <2>1, NoPlaceTaken DEF StepOf, FileGrows, CopyGoesOn
  <2>3. Agrees(t)' /\ Placed(t)' /\ FileHas(t)'
    BY <1>1, <1>3, <2>1, IdleFits DEF LogAssumption
  <2>4. Emits(t)
    BY <1>2, <1>3 DEF Agrees
  <2>5. RingHolds' /\ OneReporter'
    BY <1>1, <2>4, <2>1, <2>2, RingUntouched, NoReport DEF Emits
  <2> QED
    BY <2>1, <2>2, <2>3, <2>5, Together
<1>4. CASE /\ mutex # t /\ LogGoto(t, "unreported")
           /\ UNCHANGED <<mutex, message, cursor, upto, wasOpen, before>>
  <2>1. /\ logPc' \in [Loggers -> {"idle"} \cup InEmit \cup InOpen \cup InCrash]
        /\ logPc'[t] = "unreported" /\ OthersStay(t)
    BY <1>2, <1>4, Moves DEF InCrash, OthersStay
  <2>2. LogTypeOK'
    BY <1>1, <1>2, <1>4, <2>1 DEF LogTypeOK
  <2>3. StepOf(t) /\ PlacesCounted'
    BY <1>1, <1>4, <2>1, NoPlaceTaken DEF StepOf, FileGrows, CopyGoesOn
  <2>4. ~Emits(t)' /\ ~Emits(t)
    BY <1>1, <1>2, <1>4 DEF Emits, Agrees, InOpen
  <2>5. before[t] \subseteq Remembered'
    BY <1>2, <2>2, <2>3, StayRemembered DEF Placed
  <2>6. Agrees(t)' /\ Placed(t)' /\ FileHas(t)'
    BY <1>1, <1>2, <1>4, <2>1, <2>4, <2>5
       DEF Agrees, Placed, FileHas, Owed, Owes, InEmit, InOpen, InCrash
  <2>7. OneReporter'
    <3>1. Reporter(t) /\ Reporter(t)' /\ ~Titled(t) /\ ~Titled(t)' /\ t \notin Untitled'
      BY <1>1, <2>1, <2>4 DEF Reporter, Titled, Untitled, InOpen
    <3> QED
      BY <1>1, <2>1, <3>1, ReportsStay
  <2>8. RingHolds'
    BY <1>1, <2>2, <2>3, RingUntouched
  <2> QED
    BY <2>2, <2>3, <2>6, <2>7, <2>8, Together
<1> QED
  BY <1>3, <1>4 DEF OpenFails, Writing, scratch

LEMMA OpenFileKeeps ==
  ASSUME LogAssumption, LogIInv, NEW t \in Loggers, OpenFile(t)
  PROVE  LogIInv'
<1> DEFINE l == IF fd THEN IF mutex = t THEN "skip" ELSE "report" ELSE "head"
<1>1. /\ logPc[t] = "open" /\ fd' = TRUE /\ LogGoto(t, l)
      /\ UNCHANGED <<kindOf, message, cursor, upto, wasOpen, before, crash, head, position, slot, mutex,
                     inFile, marks, reports, reporting>>
  BY DEF OpenFile, At, ring, file, reporter, locals, scratch, Writing
<1>2. LogTypeOK /\ Agrees(t) /\ Placed(t) /\ FileHas(t)
  BY DEF LogIInv
<1>3. l \in {"skip", "report", "head"}
  OBVIOUS
<1>4. /\ l = "skip" => fd /\ Emits(t)
      /\ l = "report" => fd /\ ~Emits(t)
      /\ l = "head" => ~fd
  BY <1>1, <1>2 DEF Agrees, InOpen
<1>5. Emits(t)' <=> Emits(t)
  BY <1>1 DEF Emits
<1> HIDE DEF l
<1>6. /\ logPc' \in [Loggers -> {"idle"} \cup InEmit \cup InOpen \cup InCrash]
      /\ logPc'[t] = l /\ OthersStay(t)
  BY <1>1, <1>2, <1>3, Moves DEF InEmit, InOpen, InCrash, OthersStay
<1>7. LogTypeOK'
  BY <1>1, <1>2, <1>6 DEF LogTypeOK
<1>8. StepOf(t) /\ PlacesCounted'
  BY <1>1, <1>3, <1>4, <1>6, NoPlaceTaken DEF StepOf, FileGrows, CopyGoesOn
<1>9. before[t] \subseteq Remembered'
  BY <1>2, <1>7, <1>8, StayRemembered DEF Placed
<1>10. Agrees(t)' /\ Placed(t)'
  BY <1>1, <1>2, <1>3, <1>4, <1>5, <1>6, <1>9
     DEF Agrees, Placed, InEmit, InOpen, InCrash, Emits
<1>11. FileHas(t)'
  <2>1. \A m \in Owed(t)' : Reaches(m)'
    <3>1. CASE l = "head"
      BY <1>6, <3>1 DEF Reaches, BeingCopied
    <3>2. CASE l # "head"
      <4>1. Owed(t)' \subseteq Owed(t)
        BY <1>1, <1>2, <1>3, <1>4, <1>5, <1>6, <3>2 DEF Owed, Owes, FileHas, ToHistory
      <4> QED
        BY <1>7, <1>8, <4>1, StillReached
    <3> QED
      BY <3>1, <3>2
  <2> QED
    BY <1>1, <1>2, <1>3, <1>4, <1>5, <1>6, <2>1 DEF FileHas
<1>12. RingHolds'
  BY <1>1, <1>7, <1>8, RingUntouched
<1>13. OneReporter'
  <2>1. CASE Emits(t)
    BY <1>1, <1>3, <1>5, <1>6, <2>1, NoReport
  <2>2. CASE ~Emits(t)
    <3>1. l \in {"report", "head"}
      BY <1>3, <1>4, <2>2
    <3>2. Reporter(t) /\ Reporter(t)' /\ ~Titled(t) /\ ~Titled(t)' /\ t \in Untitled
      BY <1>1, <1>5, <1>6, <2>2, <3>1 DEF Reporter, Titled, Untitled, InOpen
    <3> QED
      BY <1>1, <1>6, <3>2, ReportsStay
  <2> QED
    BY <2>1, <2>2
<1> QED
  BY <1>7, <1>8, <1>10, <1>11, <1>12, <1>13, Together

(* What a reader of the ring begins too late for is written over.          *)
LEMMA OutOfWindow ==
  ASSUME LogAssumption, LogIInv, NEW m \in Remembered, position[m] <= head - kSlots
  PROVE  SharesSlot(m)
<1>1. position[m] \in Nat /\ position[m] > 0 /\ head \in Nat /\ kSlots \in Nat /\ kSlots > 0
  BY MessagesTyped DEF LogIInv, LogTypeOK, LogAssumption
<1>2. position[m] + kSlots \in 1 .. head
  BY <1>1
<1>3. PICK n \in DOMAIN position : position[n] = position[m] + kSlots
  BY <1>2 DEF LogIInv, PlacesCounted
<1>4. n # m /\ position[n] > 0
  BY <1>1, <1>3
<1>5. (position[n] - position[m]) % kSlots = 0
  <2>1. position[n] \in Nat /\ position[n] - position[m] = kSlots
    BY <1>1, <1>3
  <2> QED
    BY <1>1, <2>1, SameSlot
<1> QED
  BY <1>3, <1>4, <1>5 DEF SharesSlot

(* From where a reader begins everything remembered is ahead of it, or was *)
(* written over.                                                           *)
Begins(t) ==
  /\ upto' = [upto EXCEPT ![t] = head]
  /\ cursor' = [cursor EXCEPT ![t] = IF head > kSlots THEN head - kSlots ELSE 0]

LEMMA BeginsCopy ==
  ASSUME LogAssumption, LogIInv, NEW t \in Loggers, Begins(t), logPc'[t] = "history", UNCHANGED position,
         NEW m \in Remembered
  PROVE  Reaches(m)'
<1>1. /\ position[m] \in Nat /\ position[m] > 0 /\ head \in Nat /\ kSlots \in Nat
      /\ position[m] <= head
  BY MessagesTyped DEF LogIInv, LogTypeOK, LogAssumption, PlacesCounted
<1>2. upto'[t] = head /\ cursor'[t] = (IF head > kSlots THEN head - kSlots ELSE 0)
  BY DEF Begins, LogIInv, LogTypeOK
<1>3. CASE cursor'[t] < position[m]
  BY <1>1, <1>2, <1>3 DEF Reaches, BeingCopied
<1>4. CASE ~(cursor'[t] < position[m])
  <2>1. SharesSlot(m)
    BY <1>1, <1>2, <1>4, OutOfWindow
  <2> QED
    BY <2>1 DEF Reaches, SharesSlot
<1> QED
  BY <1>3, <1>4

LEMMA BeginsFits ==
  ASSUME LogAssumption, LogIInv, NEW t \in Loggers, Begins(t)
  PROVE  /\ cursor' \in [Loggers -> Nat] /\ upto' \in [Loggers -> Nat]
         /\ cursor'[t] <= upto'[t] /\ upto'[t] = head
         /\ \A u \in Loggers \ {t} : cursor'[u] = cursor[u] /\ upto'[u] = upto[u]
<1>1. head \in Nat /\ kSlots \in Nat /\ kSlots > 0
      /\ cursor \in [Loggers -> Nat] /\ upto \in [Loggers -> Nat]
  BY DEF LogIInv, LogTypeOK, LogAssumption
<1>2. (IF head > kSlots THEN head - kSlots ELSE 0) \in 0 .. head
  BY <1>1
<1> QED
  BY <1>1, <1>2 DEF Begins

LEMMA WriteHeadKeeps ==
  ASSUME LogAssumption, LogIInv, NEW t \in Loggers, WriteHead(t)
  PROVE  LogIInv'
<1>1. /\ logPc[t] = "head" /\ Begins(t) /\ LogGoto(t, "history")
      /\ UNCHANGED <<kindOf, message, wasOpen, before, crash, head, position, slot, fd, mutex,
                     inFile, marks, reports, reporting>>
  BY DEF WriteHead, At, ring, file, reporter, logState, Begins
<1>2. LogTypeOK /\ Agrees(t) /\ Placed(t) /\ FileHas(t)
  BY DEF LogIInv
<1>3. Emits(t)' <=> Emits(t)
  BY <1>1 DEF Emits
<1>4. /\ logPc' \in [Loggers -> {"idle"} \cup InEmit \cup InOpen \cup InCrash]
      /\ logPc'[t] = "history" /\ OthersStay(t)
  BY <1>1, <1>2, Moves, BeginsFits DEF InOpen, OthersStay
<1>5. LogTypeOK'
  BY <1>1, <1>2, <1>4, BeginsFits DEF LogTypeOK
<1>6. StepOf(t) /\ PlacesCounted'
  BY <1>1, <1>4, NoPlaceTaken, BeginsCopy DEF StepOf, FileGrows, CopyGoesOn
<1>7. before[t] \subseteq Remembered'
  BY <1>2, <1>5, <1>6, StayRemembered DEF Placed
<1>8. Agrees(t)' /\ Placed(t)'
  <2>1. upto'[t] <= head'
    BY <1>1, <1>2, BeginsFits DEF LogTypeOK
  <2> QED
    BY <1>1, <1>2, <1>3, <1>4, <1>7, <2>1, BeginsFits
       DEF Agrees, Placed, InEmit, InOpen, InCrash, Emits
<1>9. FileHas(t)'
  <2>1. Owed(t)' \subseteq Owed(t)
    BY <1>1, <1>3, <1>4 DEF Owed, Owes, ToHistory
  <2> QED
    BY <1>1, <1>2, <1>3, <1>4, <1>5, <1>6, <2>1, StillReached DEF FileHas
<1>10. RingHolds'
  BY <1>1, <1>5, <1>6, RingUntouched
<1>11. OneReporter'
  <2>1. CASE Emits(t)
    BY <1>1, <1>3, <1>4, <2>1, NoReport
  <2>2. CASE ~Emits(t)
    <3>1. ~wasOpen[t]
      BY <1>1, <1>2, <2>2 DEF FileHas
    <3>2. Reporter(t) /\ Reporter(t)' /\ ~Titled(t) /\ ~Titled(t)' /\ t \in Untitled
      BY <1>1, <1>3, <1>4, <2>2, <3>1 DEF Reporter, Titled, Untitled, InOpen
    <3> QED
      BY <1>1, <1>4, <3>2, ReportsStay
  <2> QED
    BY <2>1, <2>2
<1> QED
  BY <1>5, <1>6, <1>8, <1>9, <1>10, <1>11, Together

LEMMA WriteHistoryKeeps ==
  ASSUME LogAssumption, LogIInv, NEW t \in Loggers, WriteHistory(t)
  PROVE  LogIInv'
<1> DEFINE found == slot[cursor[t] % kSlots]
<1>1. /\ logPc[t] = "history" /\ cursor[t] < upto[t] /\ cursor' = [cursor EXCEPT ![t] = @ + 1]
      /\ inFile' = (IF found = 0 THEN inFile ELSE inFile \cup {found})
      /\ UNCHANGED <<logPc, kindOf, message, upto, crash, wasOpen, before, head, position, slot, fd, mutex,
                     marks, reports, reporting>>
  BY DEF WriteHistory, At, ring, file, reporter, logState, Put
<1>2. LogTypeOK /\ Agrees(t) /\ Placed(t) /\ FileHas(t)
  BY DEF LogIInv
<1>3. /\ Emits(t)' <=> Emits(t)
      /\ OthersStay(t) /\ cursor' \in [Loggers -> Nat] /\ cursor'[t] = cursor[t] + 1 /\ cursor[t] \in Nat /\ upto[t] \in Nat
  BY <1>1, <1>2 DEF Emits, OthersStay, LogTypeOK
<1>4. LogTypeOK'
  BY <1>1, <1>2, <1>3 DEF LogTypeOK
<1>5. CopyGoesOn(t)
  <2> SUFFICES ASSUME NEW m \in Remembered, cursor[t] < position[m], position[m] <= upto[t]
               PROVE  Reaches(m)'
    BY <1>1 DEF CopyGoesOn
  <2>1. position[m] \in Nat /\ m # 0
    BY MessagesTyped
  <2>2. CASE position[m] = cursor[t] + 1
    <3>1. position[m] - 1 = cursor[t]
      BY <1>3, <2>1, <2>2
    <3>2. found = m \/ SharesSlot(m)
      BY <3>1 DEF LogIInv, RingHolds
    <3> QED
      BY <1>1, <2>1, <3>2 DEF Reaches, SharesSlot
  <2>3. CASE position[m] # cursor[t] + 1
    <3>1. cursor'[t] < position[m]
      BY <1>3, <2>1, <2>3
    <3> QED
      BY <1>1, <3>1 DEF Reaches, BeingCopied
  <2> QED
    BY <2>2, <2>3
<1>6. StepOf(t) /\ PlacesCounted'
  BY <1>1, <1>3, <1>5, NoPlaceTaken DEF StepOf, FileGrows
<1>7. before[t] \subseteq Remembered'
  BY <1>2, <1>4, <1>6, StayRemembered DEF Placed
<1>8. Agrees(t)' /\ Placed(t)'
  <2>1. cursor'[t] <= upto[t]
    BY <1>1, <1>3
  <2> QED
    BY <1>1, <1>2, <1>3, <1>7, <2>1 DEF Agrees, Placed, Emits
<1>9. FileHas(t)'
  <2>1. Owed(t)' \subseteq Owed(t)
    BY <1>1, <1>3 DEF Owed, Owes
  <2> QED
    BY <1>1, <1>2, <1>3, <1>4, <1>6, <2>1, StillReached DEF FileHas
<1>10. RingHolds'
  BY <1>1, <1>4, <1>6, RingUntouched
<1>11. OneReporter'
  <2>1. /\ Reporter(t)' <=> Reporter(t)
        /\ Titled(t)' <=> Titled(t)
        /\ t \in Untitled' <=> t \in Untitled
    BY <1>1, <1>3 DEF Reporter, Titled, Untitled
  <2> QED
    BY <1>1, <1>3, <2>1, ReportsStay
<1> QED
  BY <1>4, <1>6, <1>8, <1>9, <1>10, <1>11, Together

LEMMA HistoryWrittenKeeps ==
  ASSUME LogAssumption, LogIInv, NEW t \in Loggers, HistoryWritten(t)
  PROVE  LogIInv'
<1> DEFINE l == IF mutex = t THEN "skip" ELSE IF wasOpen[t] THEN "end" ELSE "report"
<1>1. /\ logPc[t] = "history" /\ cursor[t] = upto[t] /\ LogGoto(t, l)
      /\ UNCHANGED <<kindOf, message, cursor, upto, wasOpen, before, crash, head, position, slot, fd, mutex,
                     inFile, marks, reports, reporting>>
  BY DEF HistoryWritten, At, ring, file, reporter, locals, scratch, Writing, logState
<1>2. LogTypeOK /\ Agrees(t) /\ Placed(t) /\ FileHas(t)
  BY DEF LogIInv
<1>3. l \in {"skip", "report", "end"}
  OBVIOUS
<1>4. /\ Emits(t) <=> l = "skip"
      /\ ~Emits(t) => (l = "end" <=> wasOpen[t])
      /\ fd
  BY <1>1, <1>2 DEF Agrees, InOpen, FileHas
<1>5. Emits(t)' <=> Emits(t)
  BY <1>1 DEF Emits
<1> HIDE DEF l
<1>6. /\ logPc' \in [Loggers -> {"idle"} \cup InEmit \cup InOpen \cup InCrash]
      /\ logPc'[t] = l /\ OthersStay(t)
  BY <1>1, <1>2, <1>3, Moves DEF InEmit, InCrash, OthersStay
<1>7. LogTypeOK'
  BY <1>1, <1>2, <1>6 DEF LogTypeOK
<1>8. CopyGoesOn(t)
  <2>1. \A m \in Remembered : position[m] \in Nat
    BY MessagesTyped
  <2>2. cursor[t] \in Nat
    BY <1>2 DEF LogTypeOK
  <2> QED
    BY <1>1, <2>1, <2>2 DEF CopyGoesOn
<1>9. StepOf(t) /\ PlacesCounted'
  BY <1>1, <1>3, <1>6, <1>8, NoPlaceTaken DEF StepOf, FileGrows
<1>10. before[t] \subseteq Remembered'
  BY <1>2, <1>7, <1>9, StayRemembered DEF Placed
<1>11. Agrees(t)' /\ Placed(t)'
  BY <1>1, <1>2, <1>3, <1>4, <1>5, <1>6, <1>10
     DEF Agrees, Placed, InEmit, InOpen, InCrash, Emits
<1>12. FileHas(t)'
  <2>1. Owed(t)' \subseteq Owed(t)
    BY <1>1, <1>4, <1>5, <1>6 DEF Owed, Owes, ToHistory
  <2> QED
    BY <1>1, <1>2, <1>3, <1>4, <1>5, <1>6, <1>7, <1>9, <2>1, StillReached DEF FileHas
<1>13. RingHolds'
  BY <1>1, <1>7, <1>9, RingUntouched
<1>14. OneReporter'
  <2>1. CASE Emits(t)
    BY <1>1, <1>3, <1>4, <1>5, <1>6, <2>1, NoReport
  <2>2. CASE ~Emits(t)
    <3>1. /\ Reporter(t) /\ Reporter(t)'
          /\ Titled(t)' <=> Titled(t)
          /\ t \in Untitled' => t \in Untitled
      BY <1>1, <1>3, <1>4, <1>5, <1>6, <2>2 DEF Reporter, Titled, Untitled, InOpen
    <3> QED
      BY <1>1, <1>6, <3>1, ReportsStay
  <2> QED
    BY <2>1, <2>2
<1> QED
  BY <1>7, <1>9, <1>11, <1>12, <1>13, <1>14, Together

-----------------------------------------------------------------------------
(* The crash handler. *)

LEMMA CrashKeeps ==
  ASSUME LogAssumption, LogIInv, NEW t \in Loggers, NEW what, Crash(t, what)
  PROVE  LogIInv'
<1>1. /\ logPc[t] = "idle" /\ LogGoto(t, "crashed")
      /\ UNCHANGED <<kindOf, message, cursor, upto, wasOpen, before, head, position, slot, fd, mutex,
                     inFile, marks, reports, reporting>>
  BY DEF Crash, At, ring, file, logState
<1>2. LogTypeOK /\ Agrees(t) /\ Placed(t) /\ FileHas(t)
  BY DEF LogIInv
<1>3. /\ logPc' \in [Loggers -> {"idle"} \cup InEmit \cup InOpen \cup InCrash]
      /\ logPc'[t] = "crashed" /\ OthersStay(t) /\ (Emits(t)' <=> Emits(t))
  BY <1>1, <1>2, Moves DEF InCrash, OthersStay, Emits
<1>4. LogTypeOK'
  BY <1>1, <1>2, <1>3 DEF LogTypeOK
<1>5. StepOf(t) /\ PlacesCounted'
  BY <1>1, <1>3, NoPlaceTaken DEF StepOf, FileGrows, CopyGoesOn
<1>6. before[t] \subseteq Remembered'
  BY <1>2, <1>4, <1>5, StayRemembered DEF Placed
<1>7. Agrees(t)' /\ Placed(t)' /\ FileHas(t)'
  BY <1>1, <1>2, <1>3, <1>6
     DEF Agrees, Placed, FileHas, Owed, Owes, InEmit, InOpen, InCrash, Emits
<1>8. RingHolds' /\ OneReporter'
  BY <1>1, <1>2, <1>3, <1>4, <1>5, RingUntouched, NoReport
<1> QED
  BY <1>4, <1>5, <1>7, <1>8, Together

LEMMA CountKeeps ==
  ASSUME LogAssumption, LogIInv, NEW t \in Loggers, Count(t)
  PROVE  LogIInv'
<1> DEFINE counts == crash[t] # "abort" \/ ~exceptionReported
           l == IF counts /\ reports < MaxReports THEN "exchange" ELSE "chain"
<1>1. /\ logPc[t] = "crashed" /\ LogGoto(t, l) /\ reports' = (IF counts THEN reports + 1 ELSE reports)
      /\ UNCHANGED <<kindOf, message, cursor, upto, wasOpen, before, head, position, slot, fd, mutex,
                     inFile, marks, reporting>>
  BY DEF Count, At, ring, file, logState, locals, scratch
<1>2. LogTypeOK /\ Agrees(t) /\ Placed(t) /\ FileHas(t)
  BY DEF LogIInv
<1>3. /\ l \in {"exchange", "chain"}
      /\ reports' \in Nat /\ reports' >= reports /\ reports \in Nat
      /\ l = "exchange" => reports < MaxReports /\ reports' = reports + 1
  BY <1>1, <1>2 DEF LogTypeOK
<1> HIDE DEF counts, l
<1>4. /\ logPc' \in [Loggers -> {"idle"} \cup InEmit \cup InOpen \cup InCrash]
      /\ logPc'[t] = l /\ OthersStay(t) /\ (Emits(t)' <=> Emits(t)) /\ ~Emits(t)
  BY <1>1, <1>2, <1>3, Moves DEF InCrash, OthersStay, Emits, Agrees
<1>5. LogTypeOK'
  BY <1>1, <1>2, <1>3, <1>4 DEF LogTypeOK
<1>6. StepOf(t) /\ PlacesCounted'
  BY <1>1, <1>3, <1>4, NoPlaceTaken DEF StepOf, FileGrows, CopyGoesOn
<1>7. before[t] \subseteq Remembered'
  BY <1>2, <1>5, <1>6, StayRemembered DEF Placed
<1>8. Agrees(t)' /\ Placed(t)' /\ FileHas(t)'
  BY <1>1, <1>2, <1>3, <1>4, <1>7
     DEF Agrees, Placed, FileHas, Owed, Owes, InEmit, InOpen, InCrash, Emits
<1>9. RingHolds'
  BY <1>1, <1>5, <1>6, RingUntouched
<1>10. OneReporter'
  <2>1. /\ ~Reporter(t) /\ ~Reporter(t)' /\ ~Titled(t) /\ ~Titled(t)'
        /\ t \notin Untitled /\ (t \in Untitled' <=> l = "exchange")
    BY <1>1, <1>3, <1>4 DEF Reporter, Titled, Untitled, InOpen
  <2>2. \A u \in Loggers : /\ Reporter(u)' <=> Reporter(u)
                           /\ Titled(u)' <=> Titled(u)
    BY <1>4, <2>1, OtherReports
  <2>3. Untitled' = IF l = "exchange" THEN Untitled \cup {t} ELSE Untitled
    <3>1. Untitled \subseteq Loggers /\ Untitled' \subseteq Loggers
      BY UntitledFitAfter DEF Untitled
    <3> QED
      BY <1>4, <2>1, <3>1, OtherReports
  <2>4. Cardinality(Untitled') = IF l = "exchange" THEN Cardinality(Untitled) + 1 ELSE Cardinality(Untitled)
    BY <2>1, <2>3, UntitledFit, FS_AddElement
  <2> DEFINE a == Cardinality(Untitled')
             c == Cardinality(Untitled)
             b == (Len(marks) + 1) \div 2
  <2>5. c \in Nat /\ b \in Nat /\ MaxReports \in Nat /\ b + c <= reports /\ b + c <= MaxReports
    <3>1. Len(marks) \in Nat
      BY <1>2 DEF LogTypeOK
    <3> QED
      BY <3>1, UntitledFit DEF LogIInv, OneReporter, LogAssumption
  <2>6. a = IF l = "exchange" THEN c + 1 ELSE c
    BY <2>4
  <2> HIDE DEF a, b, c
  <2>7. b + a <= reports' /\ b + a <= MaxReports
    BY <1>3, <2>5, <2>6
  <2> QED
    BY <1>1, <2>2, <2>7 DEF LogIInv, OneReporter, a, b
<1> QED
  BY <1>5, <1>6, <1>8, <1>9, <1>10, Together

(* A report begins when none is under way: no other is to have its end     *)
(* written.                                                                *)
LEMMA ExchangeKeeps ==
  ASSUME LogAssumption, LogIInv, NEW t \in Loggers, Exchange(t)
  PROVE  LogIInv'
<1>1. /\ logPc[t] = "exchange" /\ reporting' = TRUE
      /\ UNCHANGED <<kindOf, message, cursor, upto, head, position, slot, fd, mutex,
                     inFile, marks, reports>>
  BY DEF Exchange, At, ring, file, logState
<1>2. LogTypeOK /\ Agrees(t) /\ Placed(t) /\ FileHas(t)
  BY DEF LogIInv
<1>3. ~Emits(t) /\ ~Emits(t)' /\ ~Reporter(t) /\ ~Titled(t) /\ t \in Untitled
  BY <1>1, <1>2 DEF Agrees, InCrash, Emits, Reporter, Titled, Untitled, InOpen
<1>4. CASE reporting /\ LogGoto(t, "chain") /\ UNCHANGED <<wasOpen, before>>
  <2>1. /\ logPc' \in [Loggers -> {"idle"} \cup InEmit \cup InOpen \cup InCrash]
        /\ logPc'[t] = "chain" /\ OthersStay(t)
    BY <1>1, <1>2, <1>4, Moves DEF InCrash, OthersStay
  <2>2. LogTypeOK'
    BY <1>1, <1>2, <1>4, <2>1 DEF LogTypeOK
  <2>3. StepOf(t) /\ PlacesCounted'
    BY <1>1, <1>4, <2>1, NoPlaceTaken DEF StepOf, FileGrows, CopyGoesOn
  <2>4. before[t] \subseteq Remembered'
    BY <1>2, <2>2, <2>3, StayRemembered DEF Placed
  <2>5. Agrees(t)' /\ Placed(t)' /\ FileHas(t)'
    BY <1>1, <1>2, <1>3, <1>4, <2>1, <2>4
       DEF Agrees, Placed, FileHas, Owed, Owes, InEmit, InOpen, InCrash, Emits
  <2>6. RingHolds'
    BY <1>1, <2>2, <2>3, RingUntouched
  <2>7. OneReporter'
    <3>1. ~Reporter(t)' /\ ~Titled(t)' /\ reporting' = reporting
      BY <1>1, <1>2, <1>4, <2>1 DEF Reporter, Titled, InOpen, LogTypeOK
    <3> QED
      BY <1>1, <1>3, <2>1, <3>1, ReportsStay
  <2> QED
    BY <2>2, <2>3, <2>5, <2>6, <2>7, Together
<1>5. CASE /\ ~reporting /\ LogGoto(t, "descriptor")
           /\ before' = [before EXCEPT ![t] = Remembered] /\ wasOpen' = [wasOpen EXCEPT ![t] = fd]
  <2>1. /\ logPc' \in [Loggers -> {"idle"} \cup InEmit \cup InOpen \cup InCrash]
        /\ logPc'[t] = "descriptor" /\ OthersStay(t) /\ before'[t] = Remembered /\ wasOpen'[t] = fd
    BY <1>1, <1>2, <1>5, Moves DEF InCrash, OthersStay, LogTypeOK
  <2>2. LogTypeOK'
    <3>1. Remembered \in SUBSET Nat
      BY MessagesTyped
    <3>2. before' \in [Loggers -> SUBSET Nat] /\ wasOpen' \in [Loggers -> BOOLEAN]
      BY <1>2, <1>5, <3>1 DEF LogTypeOK
    <3> QED
      BY <1>1, <1>2, <2>1, <3>2 DEF LogTypeOK
  <2>3. StepOf(t) /\ PlacesCounted'
    BY <1>1, <2>1, NoPlaceTaken DEF StepOf, FileGrows, CopyGoesOn
  <2>4. before'[t] \subseteq Remembered'
    BY <2>1, <2>2, <2>3, StayRemembered
  <2>5. Agrees(t)' /\ Placed(t)' /\ FileHas(t)'
    BY <1>1, <1>2, <1>3, <2>1, <2>4
       DEF Agrees, Placed, FileHas, Owed, Owes, InEmit, InOpen, InCrash, Emits
  <2>6. RingHolds'
    BY <1>1, <2>2, <2>3, RingUntouched
  <2>7. OneReporter'
    <3>1. Reporter(t)' /\ ~Titled(t)' /\ t \in Untitled'
      BY <1>3, <2>1 DEF Reporter, Titled, Untitled
    <3>2. \A u \in Loggers : ~Reporter(u)
      BY <1>5 DEF LogIInv, OneReporter
    <3>3. \A u \in Loggers : ~Titled(u)
      BY <3>2 DEF Reporter, Titled, InOpen
    <3>4. \A u \in Loggers : (Reporter(u)' => u = t) /\ ~Titled(u)'
      BY <2>1, <3>1, <3>2, <3>3, OtherReports
    <3>5. Untitled' = Untitled
      <4>1. Untitled \subseteq Loggers /\ Untitled' \subseteq Loggers
        BY UntitledFitAfter DEF Untitled
      <4> QED
        BY <1>3, <2>1, <3>1, <4>1, OtherReports
    <3>6. Len(marks) % 2 # 1
      BY <3>3 DEF LogIInv, OneReporter
    <3> QED
      BY <1>1, <3>4, <3>5, <3>6 DEF LogIInv, OneReporter
  <2> QED
    BY <2>2, <2>3, <2>5, <2>6, <2>7, Together
<1> QED
  BY <1>4, <1>5 DEF Exchange

LEMMA DescriptorKeeps ==
  ASSUME LogAssumption, LogIInv, NEW t \in Loggers, Descriptor(t)
  PROVE  LogIInv'
<1> DEFINE l == IF fd THEN "report" ELSE "open"
<1>1. /\ logPc[t] = "descriptor" /\ LogGoto(t, l)
      /\ UNCHANGED <<kindOf, message, cursor, upto, wasOpen, before, head, position, slot, fd, mutex,
                     inFile, marks, reports, reporting>>
  BY DEF Descriptor, At, ring, file, logState, locals, scratch, reporter
<1>2. LogTypeOK /\ Agrees(t) /\ Placed(t) /\ FileHas(t)
  BY DEF LogIInv
<1>3. l \in {"report", "open"} /\ (l = "report" <=> fd)
  OBVIOUS
<1> HIDE DEF l
<1>4. /\ logPc' \in [Loggers -> {"idle"} \cup InEmit \cup InOpen \cup InCrash]
      /\ logPc'[t] = l /\ OthersStay(t) /\ (Emits(t)' <=> Emits(t)) /\ ~Emits(t)
  BY <1>1, <1>2, <1>3, Moves DEF InCrash, InOpen, OthersStay, Emits, Agrees
<1>5. LogTypeOK'
  BY <1>1, <1>2, <1>3, <1>4 DEF LogTypeOK
<1>6. StepOf(t) /\ PlacesCounted'
  BY <1>1, <1>3, <1>4, NoPlaceTaken DEF StepOf, FileGrows, CopyGoesOn
<1>7. before[t] \subseteq Remembered'
  BY <1>2, <1>5, <1>6, StayRemembered DEF Placed
<1>8. Agrees(t)' /\ Placed(t)'
  BY <1>1, <1>2, <1>3, <1>4, <1>7 DEF Agrees, Placed, InEmit, InOpen, InCrash, Emits
<1>9. FileHas(t)'
  <2>1. Owed(t)' \subseteq Owed(t)
    BY <1>1, <1>3, <1>4 DEF Owed, Owes
  <2> QED
    BY <1>1, <1>2, <1>3, <1>4, <1>5, <1>6, <2>1, StillReached DEF FileHas
<1>10. RingHolds'
  BY <1>1, <1>5, <1>6, RingUntouched
<1>11. OneReporter'
  <2>1. Reporter(t) /\ Reporter(t)' /\ ~Titled(t) /\ ~Titled(t)' /\ t \in Untitled
    BY <1>1, <1>3, <1>4 DEF Reporter, Titled, Untitled, InOpen
  <2> QED
    BY <1>1, <1>4, <2>1, ReportsStay
<1> QED
  BY <1>5, <1>6, <1>8, <1>9, <1>10, <1>11, Together

(* The marks in the file with one more.                                    *)
LEMMA OneMoreMark ==
  ASSUME LogTypeOK, NEW p \in {"report", "end"}, NEW t \in Loggers, MarkReport(p, t)
  PROVE  /\ marks' \in Seq([part : {"report", "end"}, thread : Loggers])
         /\ Len(marks) \in Nat /\ Len(marks') = Len(marks) + 1
         /\ DOMAIN marks = 1 .. Len(marks) /\ DOMAIN marks' = 1 .. Len(marks) + 1
         /\ \A i \in 1 .. Len(marks) : marks'[i] = marks[i]
         /\ marks'[Len(marks')].part = p /\ marks'[Len(marks')].thread = t
<1> DEFINE e == [part |-> p, thread |-> t]
<1>1. /\ marks \in Seq([part : {"report", "end"}, thread : Loggers])
      /\ e \in [part : {"report", "end"}, thread : Loggers]
      /\ marks' = Append(marks, e)
  BY DEF LogTypeOK, MarkReport
<1> HIDE DEF e
<1>2. /\ marks' \in Seq([part : {"report", "end"}, thread : Loggers])
      /\ Len(marks) \in Nat /\ Len(marks') = Len(marks) + 1
      /\ DOMAIN marks = 1 .. Len(marks) /\ DOMAIN marks' = 1 .. Len(marks) + 1
      /\ \A i \in 1 .. Len(marks) : marks'[i] = marks[i]
      /\ marks'[Len(marks) + 1] = e
  BY <1>1
<1>3. marks'[Len(marks')] = e
  BY <1>2
<1>4. e.part = p /\ e.thread = t
  BY DEF e
<1> QED
  BY <1>2, <1>3, <1>4

(* The only reporter writes its title, when the report before has its end. *)
LEMMA TitleKeepsApart ==
  ASSUME LogAssumption, LogIInv, NEW t \in Loggers, OthersStay(t), MarkReport("report", t),
         UNCHANGED <<reports, reporting>>,
         Reporter(t), Reporter(t)', ~Titled(t), Titled(t)', t \in Untitled, t \notin Untitled'
  PROVE  OneReporter'
<1>1. LogTypeOK /\ OneReporter
  BY DEF LogIInv
<1>2. \A u \in Loggers : (Reporter(u)' <=> Reporter(u)) /\ (Titled(u)' <=> u = t)
  <2>1. \A u \in Loggers : Titled(u) => Reporter(u)
    BY DEF Titled, Reporter, InOpen
  <2>2. \A u \in Loggers : ~Titled(u)
    BY <1>1, <2>1 DEF OneReporter
  <2> QED
    BY <2>2, OtherReports
<1>3. Len(marks) % 2 # 1
  <2>1. \A u \in Loggers : ~Titled(u)
    <3>1. \A u \in Loggers : Titled(u) => Reporter(u)
      BY DEF Titled, Reporter, InOpen
    <3> QED
      BY <1>1, <3>1 DEF OneReporter
  <2> QED
    BY <1>1, <2>1 DEF OneReporter
<1> DEFINE n == Len(marks)
           k == Len(marks')
<1>4. /\ n \in Nat /\ k = n + 1 /\ DOMAIN marks = 1 .. n /\ DOMAIN marks' = 1 .. k
      /\ \A i \in 1 .. n : marks'[i] = marks[i]
      /\ marks'[k].part = "report" /\ marks'[k].thread = t
  BY <1>1, OneMoreMark
<1> HIDE DEF n, k
<1>5. n % 2 = 0 /\ k % 2 = 1 /\ (k + 1) \div 2 = (n + 1) \div 2 + 1 /\ (n + 1) \div 2 \in Nat
  BY <1>3, <1>4 DEF n
<1>6. \A i \in DOMAIN marks' :
        /\ marks'[i].part = IF i % 2 = 1 THEN "report" ELSE "end"
        /\ i % 2 = 0 => marks'[i].thread = marks'[i - 1].thread
  <2> SUFFICES ASSUME NEW i \in 1 .. k
               PROVE  /\ marks'[i].part = IF i % 2 = 1 THEN "report" ELSE "end"
                      /\ i % 2 = 0 => marks'[i].thread = marks'[i - 1].thread
    BY <1>4
  <2>1. CASE i = k
    BY <1>4, <1>5, <2>1
  <2>2. CASE i # k
    <3>1. i \in 1 .. n /\ (i % 2 = 0 => i - 1 \in 1 .. n)
      BY <1>4, <2>2
    <3> QED
      BY <1>1, <1>4, <3>1 DEF OneReporter, n
  <2> QED
    BY <2>1, <2>2
<1>7. Cardinality(Untitled') + 1 = Cardinality(Untitled)
  <2>1. Untitled' = Untitled \ {t}
    <3>1. Untitled \subseteq Loggers /\ Untitled' \subseteq Loggers
      BY UntitledFitAfter DEF Untitled
    <3> QED
      BY <3>1, OtherReports
  <2>2. Cardinality(Untitled \ {t}) = Cardinality(Untitled) - 1
    BY UntitledFit, FS_RemoveElement
  <2> QED
    BY <2>1, <2>2, UntitledFit
<1> DEFINE a == Cardinality(Untitled')
           c == Cardinality(Untitled)
<1>8. /\ a \in Nat /\ c \in Nat /\ a + 1 = c
      /\ (n + 1) \div 2 + c <= reports /\ (n + 1) \div 2 + c <= MaxReports
  BY <1>1, <1>7, UntitledFit, UntitledFitAfter DEF OneReporter, n
<1> HIDE DEF a, c
<1>9. (k + 1) \div 2 + a <= reports /\ (k + 1) \div 2 + a <= MaxReports
  <2>1. (k + 1) \div 2 + a = (n + 1) \div 2 + c
    BY <1>5, <1>8
  <2> QED
    BY <1>8, <2>1
<1> QED
  BY <1>1, <1>2, <1>4, <1>5, <1>6, <1>9 DEF OneReporter, k, a

(* Its end comes after its own title.                                      *)
LEMMA EndKeepsApart ==
  ASSUME LogAssumption, LogIInv, NEW t \in Loggers, OthersStay(t),
         IF Titled(t) THEN MarkReport("end", t) ELSE UNCHANGED marks,
         reporting' = FALSE, UNCHANGED reports,
         Reporter(t), ~Reporter(t)', ~Titled(t)', t \notin Untitled, t \notin Untitled'
  PROVE  OneReporter'
<1>1. LogTypeOK /\ OneReporter
  BY DEF LogIInv
<1>2. \A u \in Loggers : Titled(u) => Reporter(u)
  BY DEF Titled, Reporter, InOpen
<1>3. \A u \in Loggers : Reporter(u) => u = t
  BY <1>1 DEF OneReporter
<1>4. \A u \in Loggers : ~Reporter(u)' /\ ~Titled(u)'
  BY <1>2, <1>3, OtherReports
<1>5. Untitled' = Untitled
  <2>1. Untitled \subseteq Loggers /\ Untitled' \subseteq Loggers
    BY UntitledFitAfter DEF Untitled
  <2> QED
    BY <2>1, OtherReports
<1>6. CASE ~Titled(t)
  <2>1. Len(marks) % 2 # 1
    BY <1>1, <1>2, <1>3, <1>6 DEF OneReporter
  <2> QED
    BY <1>1, <1>4, <1>5, <1>6, <2>1 DEF OneReporter
<1>7. CASE Titled(t)
  <2> DEFINE n == Len(marks)
             k == Len(marks')
  <2>1. /\ n \in Nat /\ k = n + 1 /\ DOMAIN marks = 1 .. n /\ DOMAIN marks' = 1 .. k
        /\ \A i \in 1 .. n : marks'[i] = marks[i]
        /\ marks'[k].part = "end" /\ marks'[k].thread = t
    BY <1>1, <1>7, OneMoreMark
  <2>2. n % 2 = 1 /\ marks[n].thread = t
    BY <1>1, <1>7 DEF OneReporter
  <2> HIDE DEF n, k
  <2>3. k % 2 = 0 /\ (k + 1) \div 2 = (n + 1) \div 2 /\ k - 1 = n /\ n \in 1 .. n
    BY <2>1, <2>2
  <2>4. \A i \in DOMAIN marks' :
          /\ marks'[i].part = IF i % 2 = 1 THEN "report" ELSE "end"
          /\ i % 2 = 0 => marks'[i].thread = marks'[i - 1].thread
    <3> SUFFICES ASSUME NEW i \in 1 .. k
                 PROVE  /\ marks'[i].part = IF i % 2 = 1 THEN "report" ELSE "end"
                        /\ i % 2 = 0 => marks'[i].thread = marks'[i - 1].thread
      BY <2>1
    <3>1. CASE i = k
      BY <2>1, <2>2, <2>3, <3>1
    <3>2. CASE i # k
      <4>1. i \in 1 .. n /\ (i % 2 = 0 => i - 1 \in 1 .. n)
        BY <2>1, <3>2
      <4> QED
        BY <1>1, <2>1, <4>1 DEF OneReporter
    <3> QED
      BY <3>1, <3>2
  <2> QED
    BY <1>1, <1>4, <1>5, <2>1, <2>3, <2>4 DEF OneReporter, n, k
<1> QED
  BY <1>6, <1>7

LEMMA ReportKeeps ==
  ASSUME LogAssumption, LogIInv, NEW t \in Loggers, Report(t)
  PROVE  LogIInv'
<1> DEFINE l == IF wasOpen[t] THEN "history" ELSE "end"
<1>1. /\ logPc[t] = "report" /\ LogGoto(t, l) /\ Begins(t) /\ MarkReport("report", t)
      /\ UNCHANGED <<kindOf, message, wasOpen, before, head, position, slot, fd, mutex,
                     inFile, reports, reporting>>
  BY DEF Report, At, ring, logState, reporter, MarkReport, Begins
<1>2. LogTypeOK /\ Agrees(t) /\ Placed(t) /\ FileHas(t)
  BY DEF LogIInv
<1>3. l \in {"history", "end"} /\ (l = "history" <=> wasOpen[t])
  BY <1>2 DEF LogTypeOK
<1> HIDE DEF l
<1>4. /\ logPc' \in [Loggers -> {"idle"} \cup InEmit \cup InOpen \cup InCrash]
      /\ logPc'[t] = l /\ OthersStay(t) /\ (Emits(t)' <=> Emits(t)) /\ ~Emits(t)
  BY <1>1, <1>2, <1>3, Moves, BeginsFits DEF InCrash, InOpen, OthersStay, Emits, Agrees
<1>5. LogTypeOK'
  <2>1. marks' \in Seq([part : {"report", "end"}, thread : Loggers])
    BY <1>1, <1>2, OneMoreMark
  <2> QED
    BY <1>1, <1>2, <1>3, <1>4, <2>1, BeginsFits DEF LogTypeOK
<1>6. StepOf(t) /\ PlacesCounted'
  BY <1>1, <1>3, <1>4, NoPlaceTaken DEF StepOf, FileGrows, CopyGoesOn
<1>7. before[t] \subseteq Remembered'
  BY <1>2, <1>5, <1>6, StayRemembered DEF Placed
<1>8. Agrees(t)' /\ Placed(t)'
  <2>1. cursor'[t] <= upto'[t] /\ upto'[t] <= head'
    BY <1>1, <1>2, BeginsFits DEF LogTypeOK
  <2> QED
    BY <1>1, <1>2, <1>3, <1>4, <1>7, <2>1 DEF Agrees, Placed, InEmit, InOpen, InCrash, Emits
<1>9. FileHas(t)'
  <2>1. \A m \in Owed(t)' : Reaches(m)'
    <3>1. CASE l = "history"
      <4>1. Owed(t)' \subseteq Remembered
        BY <1>1, <1>2, <1>4 DEF Owed, Placed
      <4> QED
        BY <1>1, <1>4, <3>1, <4>1, BeginsCopy
    <3>2. CASE l = "end"
      <4>1. Owed(t)' \subseteq Owed(t)
        BY <1>1, <1>2, <1>3, <1>4, <3>2 DEF Owed, Owes, FileHas
      <4> QED
        BY <1>5, <1>6, <4>1, StillReached
    <3> QED
      BY <1>3, <3>1, <3>2
  <2> QED
    BY <1>1, <1>2, <1>3, <1>4, <2>1 DEF FileHas
<1>10. RingHolds'
  BY <1>1, <1>5, <1>6, RingUntouched
<1>11. OneReporter'
  <2>1. Reporter(t) /\ Reporter(t)' /\ ~Titled(t) /\ Titled(t)' /\ t \in Untitled /\ t \notin Untitled'
    BY <1>1, <1>3, <1>4 DEF Reporter, Titled, Untitled, InOpen
  <2> QED
    BY <1>1, <1>4, <2>1, TitleKeepsApart
<1> QED
  BY <1>5, <1>6, <1>8, <1>9, <1>10, <1>11, Together

LEMMA ReportEndsKeeps ==
  ASSUME LogAssumption, LogIInv, NEW t \in Loggers, ReportEnds(t)
  PROVE  LogIInv'
<1>1. /\ logPc[t] \in {"end", "unreported"} /\ LogGoto(t, "chain") /\ reporting' = FALSE
      /\ IF logPc[t] = "end" THEN MarkReport("end", t) ELSE UNCHANGED marks
      /\ UNCHANGED <<kindOf, message, cursor, upto, wasOpen, before, head, position, slot, fd, mutex,
                     inFile, reports>>
  BY DEF ReportEnds, At, ring, logState, locals, scratch, MarkReport, file
<1>2. LogTypeOK /\ Agrees(t) /\ Placed(t) /\ FileHas(t)
  BY DEF LogIInv
<1>3. /\ logPc' \in [Loggers -> {"idle"} \cup InEmit \cup InOpen \cup InCrash]
      /\ logPc'[t] = "chain" /\ OthersStay(t) /\ (Emits(t)' <=> Emits(t)) /\ ~Emits(t)
  BY <1>1, <1>2, Moves DEF InCrash, OthersStay, Emits, Agrees
<1>4. LogTypeOK'
  <2>1. marks' \in Seq([part : {"report", "end"}, thread : Loggers])
    BY <1>1, <1>2, OneMoreMark DEF LogTypeOK
  <2> QED
    BY <1>1, <1>2, <1>3, <2>1 DEF LogTypeOK
<1>5. StepOf(t) /\ PlacesCounted'
  BY <1>1, <1>3, NoPlaceTaken DEF StepOf, FileGrows, CopyGoesOn
<1>6. before[t] \subseteq Remembered'
  BY <1>2, <1>4, <1>5, StayRemembered DEF Placed
<1>7. Agrees(t)' /\ Placed(t)' /\ FileHas(t)'
  BY <1>1, <1>2, <1>3, <1>6
     DEF Agrees, Placed, FileHas, Owed, Owes, InEmit, InOpen, InCrash, Emits
<1>8. RingHolds'
  BY <1>1, <1>4, <1>5, RingUntouched
<1>9. OneReporter'
  <2>1. /\ Reporter(t) /\ ~Reporter(t)' /\ (Titled(t) <=> logPc[t] = "end") /\ ~Titled(t)'
        /\ t \notin Untitled /\ t \notin Untitled'
    BY <1>1, <1>3 DEF Reporter, Titled, Untitled, InOpen
  <2> QED
    BY <1>1, <1>3, <2>1, EndKeepsApart
<1> QED
  BY <1>4, <1>5, <1>7, <1>8, <1>9, Together

LEMMA ChainKeeps ==
  ASSUME LogAssumption, LogIInv, NEW t \in Loggers, Chain(t)
  PROVE  LogIInv'
<1>1. /\ logPc[t] = "chain"
      /\ UNCHANGED <<kindOf, head, position, slot, fd, mutex, inFile, marks, reports, reporting>>
  BY DEF Chain, At, ring, logState, file, reporter
<1>2. LogTypeOK /\ Agrees(t) /\ Placed(t) /\ FileHas(t)
  BY DEF LogIInv
<1>3. ~Emits(t) /\ mutex # t
  BY <1>1, <1>2 DEF Agrees, InCrash, InOpen
<1>4. CASE Leave(t)
  <2>1. LogTypeOK' /\ OthersStay(t) /\ logPc'[t] = "idle" /\ message'[t] = 0 /\ before'[t] = {}
    BY <1>1, <1>2, <1>4, Returns DEF LogTypeOK
  <2>2. StepOf(t) /\ PlacesCounted'
    BY <1>1, <2>1, NoPlaceTaken DEF StepOf, FileGrows, CopyGoesOn
  <2>3. Agrees(t)' /\ Placed(t)' /\ FileHas(t)'
    BY <1>1, <1>3, <2>1, IdleFits
  <2>4. RingHolds' /\ OneReporter'
    BY <1>1, <2>1, <2>2, RingUntouched, NoReport DEF Emits
  <2> QED
    BY <2>1, <2>2, <2>3, <2>4, Together
<1>5. CASE LogGoto(t, "crashed") /\ UNCHANGED <<message, cursor, upto, wasOpen, before>>
  <2>1. /\ logPc' \in [Loggers -> {"idle"} \cup InEmit \cup InOpen \cup InCrash]
        /\ logPc'[t] = "crashed" /\ OthersStay(t) /\ ~Emits(t)'
    BY <1>2, <1>3, <1>5, Moves DEF InCrash, OthersStay, Emits
  <2>2. LogTypeOK'
    BY <1>1, <1>2, <1>5, <2>1 DEF LogTypeOK
  <2>3. StepOf(t) /\ PlacesCounted'
    BY <1>1, <1>5, <2>1, NoPlaceTaken DEF StepOf, FileGrows, CopyGoesOn
  <2>4. before[t] \subseteq Remembered'
    BY <1>2, <2>2, <2>3, StayRemembered DEF Placed
  <2>5. Agrees(t)' /\ Placed(t)' /\ FileHas(t)'
    BY <1>1, <1>2, <1>3, <1>5, <2>1, <2>4
       DEF Agrees, Placed, FileHas, Owed, Owes, InEmit, InOpen, InCrash, Emits
  <2>6. RingHolds' /\ OneReporter'
    BY <1>1, <2>1, <2>2, <2>3, RingUntouched, NoReport
  <2> QED
    BY <2>2, <2>3, <2>5, <2>6, Together
<1> QED
  BY <1>4, <1>5 DEF Chain, scratch

-----------------------------------------------------------------------------
LEMMA LogStutters ==
  ASSUME LogIInv, UNCHANGED logVars
  PROVE  LogIInv'
<1>1. UNCHANGED <<logPc, kindOf, message, cursor, upto, wasOpen, before, crash, head, slot, position, fd, mutex,
                  inFile, marks, reports, reporting>>
  BY DEF logVars, locals, scratch, ring, logState, file, reporter
<1>2. LogTypeOK' /\ PlacesCounted'
  BY <1>1 DEF LogIInv, LogTypeOK, PlacesCounted
<1>3. Remembered' = Remembered /\ \A m \in Remembered : (Reaches(m)' <=> Reaches(m)) /\ (SharesSlot(m)' <=> SharesSlot(m))
  BY <1>1 DEF Remembered, Reaches, SharesSlot, BeingCopied
<1>4. RingHolds'
  BY <1>1, <1>3 DEF LogIInv, RingHolds
<1>5. Untitled' = Untitled /\ \A t \in Loggers : (Reporter(t)' <=> Reporter(t)) /\ (Titled(t)' <=> Titled(t))
  BY <1>1 DEF Untitled, Reporter, Titled, Emits
<1>6. OneReporter'
  BY <1>1, <1>5 DEF LogIInv, OneReporter
<1>7. ASSUME NEW t \in Loggers
      PROVE  Agrees(t)' /\ Placed(t)' /\ FileHas(t)'
  <2>1. Agrees(t)' /\ Placed(t)'
    BY <1>1, <1>3 DEF LogIInv, Agrees, Placed, Emits
  <2>2. Owed(t)' = Owed(t) /\ Owed(t) \subseteq Remembered
    BY <1>1, OwedAreRemembered DEF Owed, Owes, Emits
  <2>3. FileHas(t)'
    BY <1>1, <1>3, <2>2 DEF LogIInv, FileHas, Emits
  <2> QED
    BY <2>1, <2>3
<1> QED
  BY <1>2, <1>4, <1>6, <1>7 DEF LogIInv

LEMMA InitLog ==
  ASSUME LogAssumption, LogInit
  PROVE  LogIInv
<1>1. /\ \A t \in Loggers : logPc[t] = "idle" /\ message[t] = 0 /\ before[t] = {}
      /\ kindOf = <<>> /\ position = <<>> /\ marks = <<>> /\ head = 0 /\ mutex = Nobody /\ reports = 0
  BY DEF LogInit
<1>2. LogTypeOK
  <2>1. slot \in [0 .. kSlots - 1 -> Nat]
    BY DEF LogInit
  <2>2. kindOf \in Seq(LogKinds) /\ position \in Seq(Nat) /\ Len(position) = 0 /\ Len(kindOf) = 0
        /\ marks \in Seq([part : {"report", "end"}, thread : Loggers])
    BY <1>1
  <2>3. /\ logPc \in [Loggers -> {"idle"} \cup InEmit \cup InOpen \cup InCrash]
        /\ message \in [Loggers -> 0 .. 0] /\ cursor \in [Loggers -> Nat] /\ upto \in [Loggers -> Nat]
        /\ wasOpen \in [Loggers -> BOOLEAN] /\ before \in [Loggers -> SUBSET Nat]
    BY DEF LogInit
  <2>4. head \in Nat /\ fd \in BOOLEAN /\ mutex \in Loggers \cup {Nobody} /\ reports \in Nat /\ reporting \in BOOLEAN
    BY DEF LogInit
  <2> QED
    BY <2>1, <2>2, <2>3, <2>4 DEF LogTypeOK
<1>3. PlacesCounted
  BY <1>1 DEF PlacesCounted
<1>4. RingHolds
  BY <1>1 DEF RingHolds, Remembered
<1>5. OneReporter
  <2>1. Untitled = {} /\ \A t \in Loggers : ~Reporter(t) /\ ~Titled(t)
    BY <1>1 DEF Untitled, Reporter, Titled, InOpen
  <2>2. Cardinality(Untitled) = 0
    BY <2>1, FS_EmptySet
  <2>3. Len(marks) = 0 /\ DOMAIN marks = {}
    BY <1>1
  <2> QED
    BY <1>1, <2>1, <2>2, <2>3 DEF OneReporter, LogAssumption
<1>6. ASSUME NEW t \in Loggers
      PROVE  Agrees(t) /\ Placed(t) /\ FileHas(t)
  BY <1>1 DEF Agrees, Placed, FileHas, Owed, Owes, Emits, InEmit, InOpen, InCrash, LogAssumption
<1> QED
  BY <1>2, <1>3, <1>4, <1>5, <1>6 DEF LogIInv

LEMMA NextLog ==
  ASSUME LogAssumption, LogIInv, [LogNext]_logVars
  PROVE  LogIInv'
<1>1. CASE UNCHANGED logVars
  BY <1>1, LogStutters
<1>2. ASSUME NEW t \in Loggers,
             \/ \E kind \in LogKinds : Emit(t, kind)
             \/ Claim(t) \/ ClearSlot(t) \/ Fill(t)
      PROVE  LogIInv'
  BY <1>2, EmitKeeps, ClaimKeeps, ClearKeeps, FillKeeps
<1>3. ASSUME NEW t \in Loggers,
             \/ Lock(t) \/ OpenFails(t) \/ OpenFile(t) \/ WriteHead(t) \/ WriteHistory(t) \/ HistoryWritten(t)
             \/ WriteMessage(t)
      PROVE  LogIInv'
  BY <1>3, LockKeeps, OpenFailsKeeps, OpenFileKeeps, WriteHeadKeeps, WriteHistoryKeeps,
     HistoryWrittenKeeps, WriteMessageKeeps
<1>4. ASSUME NEW t \in Loggers,
             \/ \E what \in {"fault", "abort", "exception"} : Crash(t, what)
             \/ Count(t) \/ Exchange(t) \/ Descriptor(t) \/ Report(t) \/ ReportEnds(t) \/ Chain(t)
      PROVE  LogIInv'
  BY <1>4, CrashKeeps, CountKeeps, ExchangeKeeps, DescriptorKeeps, ReportKeeps, ReportEndsKeeps, ChainKeeps
<1> QED
  BY <1>1, <1>2, <1>3, <1>4 DEF LogNext

LEMMA LogFits ==
  ASSUME LogAssumption, LogIInv
  PROVE  LogSound
<1>1. \A t \in Loggers : Agrees(t) /\ FileHas(t)
  BY DEF LogIInv
<1>2. NothingLost
  <2> SUFFICES ASSUME NEW t \in Loggers, logPc[t] = "skip", ToHistory(kindOf[message[t]])
               PROVE  Reaches(message[t])
    BY DEF NothingLost
  <2>1. Emits(t)
    BY <1>1 DEF Agrees, InEmit
  <2>2. message[t] \in Owed(t)
    BY <2>1 DEF Owed, Owes
  <2> QED
    BY <1>1, <2>2 DEF FileHas
<1>3. ReportHasHistory
  <2> SUFFICES ASSUME NEW t \in Loggers, logPc[t] = "end", NEW m \in before[t]
               PROVE  Reaches(m)
    BY DEF ReportHasHistory
  <2>1. ~Emits(t)
    BY <1>1 DEF Agrees, InCrash
  <2>2. m \in Owed(t)
    BY <2>1 DEF Owed, Owes
  <2> QED
    BY <1>1, <2>2 DEF FileHas
<1>4. ReportsApart
  <2>1. OneReporter /\ Len(marks) \in Nat /\ MaxReports \in Nat
    BY DEF LogIInv, LogTypeOK, LogAssumption
  <2>2. Len(marks) <= 2 * MaxReports
    <3> DEFINE n == Len(marks)
               c == Cardinality(Untitled)
    <3>1. n \in Nat /\ c \in Nat /\ (n + 1) \div 2 + c <= MaxReports /\ MaxReports \in Nat
      BY <2>1, UntitledFit DEF OneReporter
    <3> HIDE DEF n, c
    <3>2. n <= 2 * MaxReports
      BY <3>1
    <3> QED
      BY <3>2 DEF n
  <2> QED
    BY <2>1, <2>2 DEF OneReporter, ReportsApart
<1> QED
  BY <1>2, <1>3, <1>4 DEF LogSound

(* For any threads, and any sizes of the ring and of the file, however     *)
(* messages and crash reports interleave and whichever open fails: a       *)
(* message is in the file or in the history that is being copied there, a  *)
(* report has what was remembered before it, unless slots were used again, *)
(* and two reports are never mixed.                                        *)
THEOREM LogStaysSound ==
  ASSUME LogAssumption
  PROVE  LogSpec => []LogSound
<1>1. LogInit => LogIInv
  BY InitLog
<1>2. LogIInv /\ [LogNext]_logVars => LogIInv'
  BY NextLog
<1>3. LogIInv => LogSound
  BY LogFits
<1> QED
  BY <1>1, <1>2, <1>3, PTL DEF LogSpec
=============================================================================

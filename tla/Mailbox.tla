------------------------------- MODULE Mailbox -------------------------------
(***************************************************************************)
(* core/surface.mm: the swap-interval-0 presenter of a window surface.     *)
(* swapMailbox() copies the back buffer into a slot on the context's       *)
(* stream; a presenter thread takes the newest finished slot, draws it     *)
(* into a drawable on a queue of its own; completed handlers of both       *)
(* queues change slot states; stopMailbox() (interval change, resize,      *)
(* ~Surface) ends the thread, waits for the handlers and frees it all.     *)
(*                                                                         *)
(* Operations under Mailbox::mutex are single steps but for the completed  *)
(* handlers, which hold it from their state change to their notify_all     *)
(* (the set `notifying`): the comments there make freeing the mailbox      *)
(* depend on it.  Metal runs a queue's command buffers, and calls their    *)
(* handlers, in commit order; the two queues run independently.            *)
(***************************************************************************)
EXTENDS Integers, Sequences, FiniteSets

CONSTANTS NSlots,     \* Mailbox::kSlots (3 in the code)
          MaxFrames   \* bound: frames swapped through one mailbox

ASSUME MailboxAssumption ==
  /\ NSlots \in Nat \ {0}
  /\ MaxFrames \in Nat \ {0}

VARIABLES alive,      \* mailbox_ is not null
          state,      \* state[kSlots]
          sequence,   \* sequence[kSlots]
          nextSeq,    \* nextSequence
          stop,       \* stop
          producer,   \* where the GL thread is in swapMailbox() or stopMailbox()
          target,     \* the slot the producer is copying into
          presenter,  \* where the presenter thread is
          taken,      \* the slot and frame the presenter thread took
          copies,     \* slots whose copy the stream's queue has to run
          copied,     \* slots whose copy has run and whose handler is due
          presents,   \* presents their queue has to run: slot, frame, drawable
          presented,  \* slots whose present has run and whose handler is due
          notifying,  \* handlers that hold the mutex and have to notify
          content,    \* history: the frame whose pixels each slot holds
          newest,     \* history: the newest frame the presenter took
          finished    \* history: the newest frame whose slot became Ready

vars == <<alive, state, sequence, nextSeq, stop, producer, target, presenter,
          taken, copies, copied, presents, presented, notifying, content,
          newest, finished>>

Slots  == 1 .. NSlots
Frames == 1 .. MaxFrames
SlotStates == {"Free", "Pending", "Ready", "Presenting"}
Present == [slot : Slots, frame : Frames]

TypeOK ==
  /\ alive \in BOOLEAN
  /\ state \in [Slots -> SlotStates]
  /\ sequence \in [Slots -> 0 .. MaxFrames]
  /\ nextSeq \in 1 .. MaxFrames + 1
  /\ stop \in BOOLEAN
  /\ producer \in {"idle", "acquire", "acquireAsleep", "copy", "stopping",
                   "joining", "draining", "drainAsleep"}
  /\ target \in Slots
  /\ presenter \in {"absent", "check", "asleep", "notify", "submit", "exited"}
  /\ taken \in Present
  /\ copies \in Seq(Slots) /\ copied \in Seq(Slots)
  /\ presents \in Seq(Present) /\ presented \in Seq(Slots)
  /\ notifying \subseteq {"copy", "present"}
  /\ content \in [Slots -> 0 .. MaxFrames]
  /\ newest \in 0 .. MaxFrames
  /\ finished \in 0 .. MaxFrames

(* No mailbox yet; the other variables have a new one's values. *)
Init ==
  /\ alive = FALSE /\ producer = "idle" /\ presenter = "absent"
  /\ state = [i \in Slots |-> "Free"]
  /\ sequence = [i \in Slots |-> 0]
  /\ nextSeq = 1 /\ stop = FALSE /\ target = 1
  /\ taken = [slot |-> 1, frame |-> 1]
  /\ copies = <<>> /\ copied = <<>> /\ presents = <<>> /\ presented = <<>>
  /\ notifying = {}
  /\ content = [i \in Slots |-> 0] /\ newest = 0 /\ finished = 0

-----------------------------------------------------------------------------
In(st) == {i \in Slots : state[i] = st}

(* Mutant: handlers unlock before they notify. *)
NeverHeld == TRUE

MutexFree == notifying = {}

(* Mutant: a handler's notify_all is missing. *)
WakesNobody == UNCHANGED <<producer, presenter>>

(* notify_all on changed: what a waiting thread does next. *)
Woken(pc) ==
  IF pc = "acquireAsleep" THEN "acquire"
  ELSE IF pc = "drainAsleep" THEN "draining"
  ELSE IF pc = "asleep" THEN "check" ELSE pc

Wake == producer' = Woken(producer) /\ presenter' = Woken(presenter)

(* swapMailbox(): the first swap makes the mailbox and its thread (what    *)
(* FreedUnused finds gone is gone with the old one); ...                   *)
Make ==
  /\ producer = "idle" /\ ~alive
  /\ alive' = TRUE /\ producer' = "acquire" /\ presenter' = "check"
  /\ state' = [i \in Slots |-> "Free"]
  /\ sequence' = [i \in Slots |-> 0]
  /\ nextSeq' = 1 /\ stop' = FALSE /\ newest' = 0 /\ finished' = 0
  /\ UNCHANGED <<target, taken, copies, copied, presents, presented, notifying,
                 content>>

(* ... each one then asks for a slot. *)
BeginSwap ==
  /\ producer = "idle" /\ alive
  /\ nextSeq <= MaxFrames
  /\ producer' = "acquire"
  /\ UNCHANGED <<alive, presenter, state, sequence, nextSeq, stop, target,
                 taken, copies, copied, presents, presented, notifying,
                 content, newest, finished>>

(* Mutant: a slot being presented is taken like a finished one. *)
AnySlot ==
  IF In("Free") # {} THEN In("Free") ELSE In("Ready") \cup In("Presenting")

(* The slots swapMailbox() chooses from: the free ones, else the finished  *)
(* ones, whose frame is dropped.                                           *)
Acquirable == IF In("Free") # {} THEN In("Free") ELSE In("Ready")

(* It takes the first of them. *)
Acquire ==
  /\ producer = "acquire" /\ MutexFree
  /\ \E s \in Acquirable :
        /\ \A r \in Acquirable : s <= r
        /\ target' = s
        /\ state' = [state EXCEPT ![s] = "Pending"]
        /\ sequence' = [sequence EXCEPT ![s] = nextSeq]
  /\ nextSeq' = nextSeq + 1
  /\ producer' = "copy"
  /\ UNCHANGED <<alive, stop, presenter, taken, copies, copied, presents,
                 presented, notifying, content, newest, finished>>

AcquireSleep ==
  /\ producer = "acquire" /\ MutexFree
  /\ Acquirable = {}
  /\ producer' = "acquireAsleep"
  /\ UNCHANGED <<alive, state, sequence, nextSeq, stop, target, presenter,
                 taken, copies, copied, presents, presented, notifying,
                 content, newest, finished>>

(* The copy into the slot is recorded and committed. *)
Copy ==
  /\ producer = "copy"
  /\ copies' = Append(copies, target)
  /\ producer' = "idle"
  /\ UNCHANGED <<alive, state, sequence, nextSeq, stop, target, presenter,
                 taken, copied, presents, presented, notifying, content,
                 newest, finished>>

-----------------------------------------------------------------------------
(* stopMailbox(): stop is set under the lock, ... *)
BeginStop ==
  /\ producer = "idle" /\ alive /\ MutexFree
  /\ stop' = TRUE
  /\ producer' = "stopping"
  /\ UNCHANGED <<alive, state, sequence, nextSeq, target, presenter, taken,
                 copies, copied, presents, presented, notifying, content,
                 newest, finished>>

(* ... the presenter is woken, ... *)
StopNotify ==
  /\ producer = "stopping"
  /\ producer' = "joining"
  /\ presenter' = Woken(presenter)
  /\ UNCHANGED <<alive, state, sequence, nextSeq, stop, target, taken, copies,
                 copied, presents, presented, notifying, content, newest,
                 finished>>

(* ... and joined; ... *)
Join ==
  /\ producer = "joining" /\ presenter = "exited"
  /\ producer' = "draining"
  /\ UNCHANGED <<alive, state, sequence, nextSeq, stop, target, presenter,
                 taken, copies, copied, presents, presented, notifying,
                 content, newest, finished>>

(* Mutant: only presents are waited for. *)
NonePresenting == In("Presenting") = {}

Drained == In("Presenting") = {} /\ In("Pending") = {}

(* ... then no handler is left to come and the mailbox is freed. *)
Free ==
  /\ producer = "draining" /\ MutexFree
  /\ Drained
  /\ alive' = FALSE
  /\ producer' = "idle"
  /\ presenter' = "absent"
  /\ UNCHANGED <<state, sequence, nextSeq, stop, target, taken, copies, copied,
                 presents, presented, notifying, content, newest, finished>>

DrainSleep ==
  /\ producer = "draining" /\ MutexFree
  /\ ~Drained
  /\ producer' = "drainAsleep"
  /\ UNCHANGED <<alive, state, sequence, nextSeq, stop, target, presenter,
                 taken, copies, copied, presents, presented, notifying,
                 content, newest, finished>>

-----------------------------------------------------------------------------
(* The presenter thread sleeps until a frame is ready, or ends. *)
PresenterSleep ==
  /\ presenter = "check" /\ MutexFree
  /\ ~stop /\ In("Ready") = {}
  /\ presenter' = "asleep"
  /\ UNCHANGED <<alive, state, sequence, nextSeq, stop, producer, target,
                 taken, copies, copied, presents, presented, notifying,
                 content, newest, finished>>

PresenterExit ==
  /\ presenter = "check" /\ MutexFree
  /\ stop
  /\ presenter' = "exited"
  /\ UNCHANGED <<alive, state, sequence, nextSeq, stop, producer, target,
                 taken, copies, copied, presents, presented, notifying,
                 content, newest, finished>>

(* Mutant: older finished frames are kept for later. *)
KeepOlder(i) == [state EXCEPT ![i] = "Presenting"]

(* The newest finished frame is presented; older finished ones are dropped. *)
TakeOnly(i) ==
  [j \in Slots |-> IF j = i THEN "Presenting"
                   ELSE IF state[j] = "Ready" THEN "Free" ELSE state[j]]

Take ==
  /\ presenter = "check" /\ MutexFree
  /\ ~stop
  /\ \E i \in In("Ready") :
        /\ \A j \in In("Ready") : sequence[j] <= sequence[i]
        /\ state' = TakeOnly(i)
        /\ taken' = [slot |-> i, frame |-> sequence[i]]
        /\ newest' = sequence[i]
  /\ presenter' = "notify"
  /\ UNCHANGED <<alive, sequence, nextSeq, stop, producer, target, copies,
                 copied, presents, presented, notifying, content, finished>>

(* After the unlock it wakes a producer waiting for the dropped slots ... *)
PresenterNotify ==
  /\ presenter = "notify"
  /\ presenter' = "submit"
  /\ producer' = Woken(producer)
  /\ UNCHANGED <<alive, state, sequence, nextSeq, stop, target, taken, copies,
                 copied, presents, presented, notifying, content, newest, finished>>

(* ... and, once nextDrawable returned (with a drawable or with nil),      *)
(* commits the present, or an empty command buffer.                        *)
Submit ==
  /\ presenter = "submit"
  /\ presents' = Append(presents, taken)
  /\ presenter' = "check"
  /\ UNCHANGED <<alive, state, sequence, nextSeq, stop, producer, target,
                 taken, copies, copied, presented, notifying, content, newest,
                 finished>>

-----------------------------------------------------------------------------
(* The GPU copies the back buffer into the oldest slot committed. *)
RunCopy ==
  /\ copies # <<>>
  /\ content' = [content EXCEPT ![Head(copies)] = sequence[Head(copies)]]
  /\ copies' = Tail(copies)
  /\ copied' = Append(copied, Head(copies))
  /\ UNCHANGED <<alive, state, sequence, nextSeq, stop, producer, target,
                 presenter, taken, presents, presented, notifying, newest,
                 finished>>

(* The copy's handler: the slot is Ready. *)
CopyHandler ==
  /\ copied # <<>> /\ MutexFree
  /\ state' = [state EXCEPT ![Head(copied)] = "Ready"]
  /\ finished' = sequence[Head(copied)]
  /\ copied' = Tail(copied)
  /\ notifying' = notifying \cup {"copy"}
  /\ UNCHANGED <<alive, sequence, nextSeq, stop, producer, target, presenter,
                 taken, copies, presents, presented, content, newest>>

(* The GPU draws the oldest present's slot into its drawable. *)
RunPresent ==
  /\ presents # <<>>
  /\ presents' = Tail(presents)
  /\ presented' = Append(presented, Head(presents).slot)
  /\ UNCHANGED <<alive, state, sequence, nextSeq, stop, producer, target,
                 presenter, taken, copies, copied, notifying, content, newest,
                 finished>>

(* The present's handler: the slot is Free. *)
PresentHandler ==
  /\ presented # <<>> /\ MutexFree
  /\ state' = [state EXCEPT ![Head(presented)] = "Free"]
  /\ presented' = Tail(presented)
  /\ notifying' = notifying \cup {"present"}
  /\ UNCHANGED <<alive, sequence, nextSeq, stop, producer, target, presenter,
                 taken, copies, copied, presents, content, newest, finished>>

(* A handler notifies and unlocks. *)
HandlerNotify(h) ==
  /\ h \in notifying
  /\ notifying' = notifying \ {h}
  /\ Wake
  /\ UNCHANGED <<alive, state, sequence, nextSeq, stop, target, taken, copies,
                 copied, presents, presented, content, newest, finished>>

(* A condition variable may wake without a notification. *)
SpuriousWake ==
  /\ Wake /\ ~UNCHANGED <<producer, presenter>>
  /\ UNCHANGED <<alive, state, sequence, nextSeq, stop, target, taken, copies,
                 copied, presents, presented, notifying, content, newest, finished>>

ProducerWork == Acquire \/ AcquireSleep \/ Copy
StopWork     == StopNotify \/ Join \/ Free \/ DrainSleep
PresenterWork == PresenterSleep \/ PresenterExit \/ Take \/ PresenterNotify \/ Submit
HandlerWork  == CopyHandler \/ PresentHandler \/ \E h \in {"copy", "present"} : HandlerNotify(h)

Next ==
  \/ Make \/ BeginSwap \/ BeginStop
  \/ ProducerWork \/ StopWork \/ PresenterWork \/ HandlerWork
  \/ RunCopy \/ RunPresent \/ SpuriousWake

(* Every thread inside the code goes on, both queues run what they are     *)
(* given and their handlers are called, and nextDrawable returns (with nil *)
(* after a second).  Nothing makes the application swap or stop.           *)
Fairness ==
  /\ WF_vars(ProducerWork) /\ WF_vars(StopWork) /\ WF_vars(PresenterWork)
  /\ WF_vars(RunCopy) /\ WF_vars(RunPresent)
  /\ WF_vars(CopyHandler) /\ WF_vars(PresentHandler)
  /\ \A h \in {"copy", "present"} : WF_vars(HandlerNotify(h))

Spec == Init /\ [][Next]_vars
FairSpec == Spec /\ Fairness

-----------------------------------------------------------------------------
(* A present shows the frame the presenter took: no later frame is copied  *)
(* into its slot before the GPU has drawn it.                              *)
PresentsIntact ==
  \A i \in 1 .. Len(presents) : content[presents[i].slot] = presents[i].frame

(* Frames are shown in the order they were swapped, each at most once.     *)
ShownInOrder ==
  /\ \A i, j \in 1 .. Len(presents) : i < j => presents[i].frame < presents[j].frame
  /\ presenter \in {"notify", "submit"} =>
       \A i \in 1 .. Len(presents) : presents[i].frame < taken.frame

(* stopMailbox() frees the mailbox only when no thread, command buffer or  *)
(* handler that uses it is left ("stopMailbox() may see no work left and   *)
(* free the mailbox").                                                     *)
FreedUnused ==
  ~alive => /\ copies = <<>> /\ copied = <<>>
            /\ presents = <<>> /\ presented = <<>>
            /\ notifying = {} /\ presenter = "absent"

(* ---- The inductive invariant. *)

Held == presenter \in {"notify", "submit"}   \* the presenter thread has `taken`

(* Where the threads are when stopMailbox() has no more to join, and after. *)
Phases ==
  /\ producer \in {"draining", "drainAsleep"} => presenter = "exited"
  /\ producer \in {"acquire", "acquireAsleep"} => nextSeq <= MaxFrames
  /\ ~alive => producer = "idle"

(* Slots being copied into are Pending, with frames after every finished   *)
(* one, ...                                                                *)
Copying(s) ==
  state[s] = "Pending" /\ finished < sequence[s] /\ sequence[s] < nextSeq

CopiesPending ==
  /\ finished < nextSeq
  /\ \A i \in 1 .. Len(copied) : Copying(copied[i])
  /\ \A i \in 1 .. Len(copies) : Copying(copies[i])
  /\ producer = "copy" => Copying(target)

(* ... and the copies run, and their handlers come, in the frames' order.  *)
CopiesInOrder ==
  /\ \A i, j \in 1 .. Len(copied) : i < j => sequence[copied[i]] < sequence[copied[j]]
  /\ \A i, j \in 1 .. Len(copies) : i < j => sequence[copies[i]] < sequence[copies[j]]
  /\ \A i \in 1 .. Len(copied), j \in 1 .. Len(copies) :
        sequence[copied[i]] < sequence[copies[j]]
  /\ producer = "copy" =>
        /\ \A i \in 1 .. Len(copied) : sequence[copied[i]] < sequence[target]
        /\ \A i \in 1 .. Len(copies) : sequence[copies[i]] < sequence[target]

(* Slots being presented are Presenting, with the frames they were taken   *)
(* for, ...                                                                *)
Shown(p) ==
  state[p.slot] = "Presenting" /\ p.frame = sequence[p.slot] /\ p.frame <= newest

PresentsKept ==
  /\ newest <= finished
  /\ \A i \in 1 .. Len(presented) :
        state[presented[i]] = "Presenting" /\ sequence[presented[i]] <= newest
  /\ \A i \in 1 .. Len(presents) : Shown(presents[i])
  /\ Held => Shown(taken) /\ taken.frame = newest

(* ... in the order of the frames.                                         *)
PresentsInOrder ==
  /\ \A i, j \in 1 .. Len(presented) :
        i < j => sequence[presented[i]] < sequence[presented[j]]
  /\ \A i, j \in 1 .. Len(presents) : i < j => presents[i].frame < presents[j].frame
  /\ \A i \in 1 .. Len(presented), j \in 1 .. Len(presents) :
        sequence[presented[i]] < presents[j].frame
  /\ Held =>
        /\ \A i \in 1 .. Len(presented) : sequence[presented[i]] < taken.frame
        /\ \A i \in 1 .. Len(presents) : presents[i].frame < taken.frame

(* Finished slots are newer than every frame taken.                        *)
ReadyIsNewer ==
  \A s \in Slots : state[s] = "Ready" => newest < sequence[s] /\ sequence[s] <= finished

(* A slot whose copy has run holds its frame until it is acquired again.   *)
ContentKept ==
  /\ \A s \in Slots : state[s] \in {"Ready", "Presenting"} => content[s] = sequence[s]
  /\ \A i \in 1 .. Len(copied) : content[copied[i]] = sequence[copied[i]]

IInv ==
  /\ TypeOK /\ Phases
  /\ CopiesPending /\ CopiesInOrder /\ PresentsKept /\ PresentsInOrder
  /\ ReadyIsNewer /\ ContentKept /\ FreedUnused

(* The newest frame swapped is presented, unless the mailbox is stopped:   *)
(* again and again so, the last frame before a pause is not left behind.   *)
CaughtUp == newest >= nextSeq - 1 \/ stop \/ ~alive

(* surface.h:11-12: "a presenter thread shows the newest finished slot and *)
(* drops older ones", so what it takes is the newest frame finished so     *)
(* far.  The code does not do this: with two finished slots swapMailbox()  *)
(* takes the lowest one, which may hold the newer frame.                   *)
NewestFinishedIsTaken == [][newest' > newest => newest' >= finished]_vars

=============================================================================

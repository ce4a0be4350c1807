------------------------------ MODULE SyncsProofs ------------------------------
(***************************************************************************)
(* Proofs about Syncs, for any set of threads, any finite set of contexts  *)
(* and any bound on serials; about SyncHandles, for any threads, addresses *)
(* and number of sync objects; and about LowMemory, for any sizes of       *)
(* storage, strings and room.                                              *)
(***************************************************************************)
EXTENDS Syncs, SyncHandles, SequenceTheorems, FiniteSetTheorems, WellFoundedInduction, TLAPS

(* A set of numbers has a least.                                           *)
LEMMA LeastOf ==
  ASSUME NEW S \in SUBSET Nat, S # {}
  PROVE  (CHOOSE x \in S : \A y \in S : x <= y) \in S
<1> DEFINE R == OpToRel(<, Nat)
<1>1. IsWellFoundedOn(R, Nat)
  BY NatLessThanWellFounded
<1>2. PICK x \in S : \A y \in S : ~ (<<y, x>> \in R)
  <2> HIDE DEF R
  <2> QED BY <1>1, WFMin
<1>3. \A y \in S : x <= y
  <2> SUFFICES ASSUME NEW y \in S, ~ (x <= y)
               PROVE  <<y, x>> \in R
    BY <1>2
  <2>1. y < x
    OBVIOUS
  <2> QED BY <2>1 DEF OpToRel
<1> QED
  BY <1>3

(* The lowest unused serial is one. *)
LEMMA Next1Unused ==
  ASSUME Unused # {}
  PROVE  Next1 \in Serials /\ work[Next1] = "unused"
<1>1. Unused \subseteq Nat
  BY DEF Unused, Serials
<1>2. Next1 \in Unused
  <2> HIDE DEF Unused
  <2> QED
    BY <1>1, LeastOf DEF Next1
<1> QED
  BY <1>2 DEF Unused

-----------------------------------------------------------------------------
(***************************************************************************)
(* What a step may do to the commands: what is committed stays so, and a   *)
(* context leaves a command buffer, or a deferred flush, by committing it. *)
(***************************************************************************)
CommandsTyped ==
  /\ stream \in [Contexts -> Stream]
  /\ work \in [Serials -> {"unused", "recording", "committed", "complete"}]
  /\ queue \in Seq(Serials)
  /\ overtaken \in BOOLEAN

CommandsSound == CommandsTyped /\ StreamsOwn /\ QueueCommitted

Later == \A s \in 0 .. MaxSerial : (Committed(s) => Committed(s)') /\ (Complete(s) => Complete(s)')

WillRun(s) == s \in Serials => work'[s] \in {"committed", "complete"}

CommandsStep ==
  /\ Later
  /\ \A d \in Contexts :
       \/ stream'[d].serial = stream[d].serial /\ (stream[d].deferred => stream'[d].deferred)
       \/ WillRun(stream[d].serial)

LEMMA NoCommandsStep ==
  ASSUME CommandsSound, NoCommands
  PROVE  CommandsSound' /\ CommandsStep
BY DEF CommandsSound, CommandsTyped, StreamsOwn, QueueCommitted, NoCommands, CommandsStep, Later,
       Committed, Complete

LEMMA FlushedFacts ==
  ASSUME NEW s \in Stream
  PROVE  /\ Flushed(s) \in Stream
         /\ Flushed(s).serial = 0 /\ ~Flushed(s).deferred /\ ~Flushed(s).pass
         /\ Flushed(s).last = (IF s.serial = 0 THEN s.last ELSE s.serial)
         /\ Flushed(s).drawn = s.drawn
<1> DEFINE l == IF s.serial = 0 THEN s.last ELSE s.serial
<1>1. l \in 0 .. MaxSerial
  BY DEF Stream
<1>2. Flushed(s) = [s EXCEPT !.last = l, !.serial = 0, !.pass = FALSE, !.deferred = FALSE,
                             !.follows = {}]
  BY DEF Flushed, Stream
<1>3. 0 \in 0 .. MaxSerial
  BY SyncsAssumption
<1> HIDE DEF l
<1>4. Flushed(s) \in Stream
  BY <1>1, <1>2, <1>3 DEF Stream
<1>5. /\ Flushed(s).serial = 0 /\ ~Flushed(s).deferred /\ ~Flushed(s).pass
      /\ Flushed(s).last = l /\ Flushed(s).drawn = s.drawn
  BY <1>2 DEF Stream
<1> QED BY <1>4, <1>5 DEF l

(* A commit of what context c recorded, if it did. *)
LEMMA FlushStep ==
  ASSUME CommandsSound, NEW c \in Contexts, Flush(c)
  PROVE  /\ CommandsSound' /\ CommandsStep
         /\ Quiet(stream[c])' /\ WillRun(stream[c].serial)
         /\ Flushed(stream[c]).last \in 0 .. MaxSerial
         /\ \A d \in Contexts \ {c} : stream'[d] = stream[d]
<1> DEFINE n == stream[c].serial
<1> USE DEF CommandsSound
<1>1. stream[c] \in Stream /\ n \in 0 .. MaxSerial /\ MaxSerial \in Nat
  BY SyncsAssumption DEF CommandsTyped, Stream
<1>2. stream' = [stream EXCEPT ![c] = Flushed(stream[c])]
  BY DEF Flush
<1>3. /\ stream' \in [Contexts -> Stream]
      /\ stream'[c] = Flushed(stream[c])
      /\ \A d \in Contexts \ {c} : stream'[d] = stream[d]
  BY <1>1, <1>2, FlushedFacts DEF CommandsTyped
<1>4. /\ stream'[c].serial = 0 /\ ~stream'[c].deferred /\ ~stream'[c].pass
      /\ stream'[c].last = (IF n = 0 THEN stream[c].last ELSE n)
      /\ stream'[c].drawn = stream[c].drawn
  BY <1>1, <1>3, FlushedFacts
<1>5. Quiet(stream[c])'
  BY <1>4 DEF Quiet
<1>6. n # 0 => n \in Serials /\ work[n] = "recording" /\ stream[c].drawn = n
  BY <1>1 DEF StreamsOwn, Serials
<1>7. work' \in [Serials -> {"unused", "recording", "committed", "complete"}]
  BY <1>6 DEF Flush, CommandsTyped
<1>8. \A s \in Serials : work'[s] = IF s = n THEN "committed" ELSE work[s]
  <2>1. CASE n = 0
    BY <2>1 DEF Flush, Serials
  <2>2. CASE n # 0
    <3>1. work' = [work EXCEPT ![n] = "committed"]
      BY <2>2 DEF Flush
    <3> QED BY <3>1 DEF CommandsTyped
  <2> QED BY <2>1, <2>2
<1>9. overtaken' \in BOOLEAN
  <2>1. CASE n = 0
    BY <2>1 DEF Flush, CommandsTyped
  <2>2. CASE n # 0
    <3>1. overtaken' = (overtaken \/ \E s \in stream[c].follows : ~Committed(s))
      BY <2>2 DEF Flush
    <3> QED BY ONLY <3>1
  <2> QED BY <2>1, <2>2
<1>10. Later
  BY <1>6, <1>8 DEF Later, Committed, Complete, Serials
<1>11. n # 0 => work'[n] = "committed"
  BY <1>6, <1>8
<1>12. \A s \in Serials : work'[s] \in {"committed", "complete"} <=> work[s] \in {"committed", "complete"} \/ s = n
  BY <1>6, <1>8
<1> HIDE DEF n
<1>13. queue' \in Seq(Serials) /\ QueueCommitted'
  <2>1. queue \in Seq(Serials)
    BY DEF CommandsTyped
  <2>2. CASE n = 0
    BY <2>1, <2>2 DEF n, Flush, QueueCommitted, Committed
  <2>3. CASE n # 0
    <3>1. n \in Serials /\ queue' = Append(queue, n)
      BY <1>6, <2>3 DEF n, Flush
    <3>2. queue' \in Seq(Serials)
      BY <2>1, <3>1
    <3>3. ASSUME NEW i \in DOMAIN queue'
          PROVE  work'[queue'[i]] \in {"committed", "complete"}
      <4>1. (i \in DOMAIN queue /\ queue'[i] = queue[i]) \/ queue'[i] = n
        BY <2>1, <3>1
      <4>2. i \in DOMAIN queue => queue[i] \in Serials /\ work[queue[i]] \in {"committed", "complete"}
        BY <2>1 DEF QueueCommitted, Committed
      <4> QED BY <1>12, <3>1, <4>1, <4>2
    <3> QED BY <3>2, <3>3 DEF QueueCommitted, Committed
  <2> QED BY <2>2, <2>3
<1>14. StreamsOwn'
  <2>1. ASSUME NEW d \in Contexts
        PROVE  stream'[d].serial # 0 => work'[stream'[d].serial] = "recording" /\ stream'[d].drawn = stream'[d].serial
    <3>1. CASE d = c
      BY <1>4, <3>1
    <3>2. CASE d # c
      <4>1. stream'[d] = stream[d] /\ stream[d].serial \in 0 .. MaxSerial
        BY <1>3, <3>2 DEF CommandsTyped, Stream
      <4>2. stream[d].serial # 0 => stream[d].serial \in Serials /\ stream[d].serial # n
        BY <3>2, <4>1, SyncsAssumption DEF StreamsOwn, Serials, n
      <4> QED BY <1>8, <4>1, <4>2 DEF StreamsOwn
    <3> QED BY <3>1, <3>2
  <2>2. ASSUME NEW d \in Contexts
        PROVE  /\ stream'[d].serial = 0 => stream'[d].drawn = stream'[d].last /\ ~stream'[d].pass
               /\ Committed(stream[d].last)'
    <3>1. CASE d = c
      <4>1. Committed(stream[c].last) /\ stream[c].last \in 0 .. MaxSerial
        BY <1>1 DEF StreamsOwn, Stream
      <4>2. Committed(stream[c].last)'
        BY <1>4, <1>12, <4>1, <1>6 DEF Committed
      <4> QED BY <1>4, <1>6, <3>1, <4>2 DEF StreamsOwn, n
    <3>2. CASE d # c
      <4>1. stream'[d] = stream[d]
        BY <1>3, <3>2
      <4>2. Committed(stream[d].last)'
        BY <1>12, <4>1 DEF StreamsOwn, Committed
      <4> QED BY <4>1, <4>2 DEF StreamsOwn
    <3> QED BY <3>1, <3>2
  <2>3. ASSUME NEW d \in Contexts, NEW e \in Contexts \ {d}, stream'[d].serial # 0
        PROVE  stream'[e].serial # stream'[d].serial
    BY <1>3, <1>4, <2>3 DEF StreamsOwn
  <2> QED BY <2>1, <2>2, <2>3 DEF StreamsOwn
<1>15. WillRun(n)
  BY <1>6, <1>11 DEF WillRun, Serials
<1>16. CommandsStep
  <2>1. ASSUME NEW d \in Contexts
        PROVE  \/ stream'[d].serial = stream[d].serial /\ (stream[d].deferred => stream'[d].deferred)
               \/ WillRun(stream[d].serial)
    <3>1. CASE d = c
      BY <1>15, <3>1 DEF n
    <3>2. CASE d # c
      BY <1>3, <3>2
    <3> QED BY <3>1, <3>2
  <2> QED BY <1>10, <2>1 DEF CommandsStep
<1>17. Flushed(stream[c]).last \in 0 .. MaxSerial
  BY <1>1, FlushedFacts DEF Stream
<1> QED BY <1>3, <1>5, <1>7, <1>9, <1>13, <1>14, <1>15, <1>16, <1>17 DEF CommandsTyped, n

-----------------------------------------------------------------------------
(***************************************************************************)
(* The syncs after a step that leaves them alone.                          *)
(***************************************************************************)
SyncKept(c) ==
  sync[c] # None =>
    /\ sync[c].owner = c /\ sync[c].covers = sync[c].serial
    /\ Committed(sync[c].serial) \/ stream[c].serial = sync[c].serial
    /\ sync[c].flushed /\ ~Committed(sync[c].serial) =>
         /\ sync[c].alone /\ stream[c].deferred /\ stream[c].serial = sync[c].serial
         /\ \E t \in Threads : thread[t].context = c

LEMMA SyncByContext == SyncsFollow /\ FlushPromises <=> \A c \in Contexts : SyncKept(c)
BY DEF SyncsFollow, FlushPromises, SyncKept

LEMMA SyncByContextAfter ==
  ASSUME \A c \in Contexts : SyncKept(c)'
  PROVE  SyncsFollow' /\ FlushPromises'
BY DEF SyncsFollow, FlushPromises, SyncKept

LEMMA SyncsKept ==
  ASSUME sync \in [Contexts -> Sync \cup {None}], NEW c \in Contexts,
         SyncKept(c), CommandsStep, sync'[c] = sync[c],
         stream[c].serial \in 0 .. MaxSerial,
         stream[c].serial # 0 /\ (\E t \in Threads : thread[t].context = c) =>
           \E t \in Threads : thread'[t].context = c
  PROVE  SyncKept(c)'
<1> SUFFICES ASSUME sync[c] # None
             PROVE  SyncKept(c)'
  BY DEF SyncKept
<1>1. /\ sync[c].serial \in 0 .. MaxSerial
      /\ Committed(sync[c].serial) => Committed(sync[c].serial)'
  BY DEF Sync, CommandsStep, Later, Committed
<1>2. ASSUME ~Committed(sync[c].serial)'
      PROVE  /\ stream'[c].serial = sync[c].serial /\ stream[c].serial = sync[c].serial
             /\ stream[c].deferred => stream'[c].deferred
             /\ sync[c].serial # 0 /\ ~Committed(sync[c].serial)
  <2>1. stream[c].serial = sync[c].serial /\ ~Committed(sync[c].serial)
    BY <1>1, <1>2 DEF Committed, SyncKept
  <2>2. sync[c].serial \in Serials /\ ~WillRun(stream[c].serial)
    BY <1>2, <2>1 DEF Committed, WillRun
  <2> QED BY <2>1, <2>2, SyncsAssumption DEF CommandsStep, Serials
<1>3. CASE Committed(sync[c].serial)'
  BY <1>3 DEF SyncKept
<1>4. CASE ~Committed(sync[c].serial)'
  BY <1>2, <1>4 DEF SyncKept
<1> QED BY <1>3, <1>4

-----------------------------------------------------------------------------
(***************************************************************************)
(* The threads and contexts after a step of a GL call: threads keep their  *)
(* contexts, and only a thread in a call records for its context.          *)
(***************************************************************************)
ThreadsTyped ==
  /\ thread \in [Threads -> Thread]
  /\ current \in [Contexts -> BOOLEAN] /\ alive \in SUBSET Contexts
  /\ sync \in [Contexts -> Sync \cup {None}] /\ premature \in BOOLEAN

ThreadsSound == OneSwitches /\ CountIsCurrent /\ NothingStranded

LEMMA CountTyped ==
  ASSUME CountIsCurrent
  PROVE  count \in 0 .. Cardinality(Contexts)
<1> DEFINE S == {c \in Contexts : current[c]}
<1>1. IsFiniteSet(Contexts) /\ S \subseteq Contexts
  BY SyncsAssumption
<1> HIDE DEF S
<1>2. IsFiniteSet(S) /\ Cardinality(S) <= Cardinality(Contexts)
  BY <1>1, FS_Subset
<1>3. Cardinality(S) \in Nat /\ Cardinality(Contexts) \in Nat
  BY <1>1, <1>2, FS_CardinalityType
<1>4. count = Cardinality(S)
  BY DEF CountIsCurrent, S
<1> QED BY <1>2, <1>3, <1>4

LEMMA Typed == TypeOK <=> CommandsTyped /\ ThreadsTyped /\ count \in 0 .. Cardinality(Contexts)
BY DEF TypeOK, CommandsTyped, ThreadsTyped

CallStep ==
  /\ UNCHANGED <<current, count>>
  /\ \A t \in Threads :
       /\ thread'[t].context = thread[t].context /\ thread'[t].order = thread[t].order
       /\ thread'[t].pc = thread[t].pc \/ {thread[t].pc, thread'[t].pc} \subseteq {"idle", "wait"}
  /\ \A c \in Contexts :
       \/ Quiet(stream[c]) => Quiet(stream'[c])
       \/ \E t \in Threads : thread[t].context = c /\ thread[t].pc = "idle"

LEMMA ThreadsKept ==
  ASSUME ThreadsTyped, ThreadsSound, CallStep
  PROVE  ThreadsSound'
<1>1. \A t \in Threads : /\ thread'[t].context = thread[t].context
                         /\ thread'[t].order = thread[t].order
                         /\ thread'[t].pc = thread[t].pc \/ {thread[t].pc, thread'[t].pc} \subseteq {"idle", "wait"}
  BY DEF CallStep
<1>2. \A t \in Threads : /\ thread'[t].pc \in Orders <=> thread[t].pc \in Orders
                         /\ thread'[t].pc = "switch" <=> thread[t].pc = "switch"
                         /\ thread'[t].pc = "destroy" <=> thread[t].pc = "destroy"
  BY <1>1 DEF Orders
<1>3. \A t \in Threads : thread[t].context \in Contexts \cup {None}
  BY DEF ThreadsTyped, Thread
<1>4. OneSwitches'
  <2>1. ASSUME NEW t \in Threads, thread[t].pc = "switch",
               thread[t].context \notin {None, thread[t].order}
        PROVE  Quiet(stream'[thread[t].context])
    <3>1. Quiet(stream[thread[t].context]) /\ thread[t].context \in Contexts
      BY <1>3, <2>1 DEF ThreadsSound, OneSwitches
    <3>2. ~ \E u \in Threads : thread[u].context = thread[t].context /\ thread[u].pc = "idle"
      BY <2>1, <3>1, SyncsAssumption DEF ThreadsSound, CountIsCurrent
    <3> QED BY <3>1, <3>2 DEF CallStep
  <2>2. ASSUME NEW t \in Threads, thread'[t].pc \in Orders, NEW u \in Threads \ {t}
        PROVE  thread'[u].pc \notin Orders /\ (thread'[t].order # None => thread'[u].context # thread'[t].order)
    BY <1>1, <1>2, <2>2 DEF ThreadsSound, OneSwitches
  <2>3. ASSUME NEW t \in Threads, thread'[t].pc = "destroy"
        PROVE  thread'[t].order # None /\ thread'[t].context # thread'[t].order
    BY <1>1, <1>2, <2>3 DEF ThreadsSound, OneSwitches
  <2> QED BY <1>1, <1>2, <2>1, <2>2, <2>3 DEF OneSwitches, Quiet
<1>5. CountIsCurrent'
  <2>1. count' = Cardinality({c \in Contexts : current'[c]})
    BY DEF CallStep, ThreadsSound, CountIsCurrent
  <2>2. current' = current
    BY DEF CallStep
  <2> QED BY <1>1, <1>2, <2>1, <2>2 DEF ThreadsSound, CountIsCurrent
<1>6. NothingStranded'
  <2> SUFFICES ASSUME NEW c \in Contexts, \A t \in Threads : thread'[t].context # c
               PROVE  Quiet(stream'[c])
    BY DEF NothingStranded, Quiet
  <2>1. \A t \in Threads : thread[t].context # c
    BY <1>1
  <2> QED BY <2>1 DEF ThreadsSound, NothingStranded, Quiet, CallStep
<1> QED BY <1>4, <1>5, <1>6 DEF ThreadsSound

-----------------------------------------------------------------------------
(***************************************************************************)
(* A draw: into the command buffer of the context, or into one not used    *)
(* before, once what a deferred glFlush promised is committed.             *)
(***************************************************************************)
LEMMA DrawStep ==
  ASSUME CommandsSound, NEW t \in Threads, NEW c \in Contexts, NEW continues \in BOOLEAN,
         Draw(t, c, continues)
  PROVE  /\ CommandsSound' /\ CommandsStep
         /\ \A d \in Contexts \ {c} : stream'[d] = stream[d]
<1> DEFINE s      == stream[c]
           commit == s.serial # 0 /\ s.deferred /\ ~continues
           fresh  == s.serial = 0 \/ commit
           serial == IF fresh THEN Next1 ELSE s.serial
<1> USE DEF CommandsSound
<1>1. s \in Stream /\ s.serial \in 0 .. MaxSerial /\ MaxSerial \in Nat
  BY SyncsAssumption DEF CommandsTyped, Stream
<1>2. s.serial # 0 => s.serial \in Serials /\ work[s.serial] = "recording"
  BY <1>1 DEF StreamsOwn, Serials
<1>3. /\ serial \in Serials /\ serial \in 0 .. MaxSerial /\ serial # 0
      /\ fresh => work[serial] = "unused"
      /\ ~fresh => serial = s.serial /\ work[serial] = "recording"
  <2>1. CASE fresh
    <3>1. Unused # {}
      BY <2>1 DEF Draw
    <3> QED BY <2>1, <3>1, Next1Unused, <1>1 DEF Serials
  <2>2. CASE ~fresh
    BY <1>1, <1>2, <2>2
  <2> QED BY <2>1, <2>2
<1>4. commit \in BOOLEAN /\ (commit => fresh /\ s.serial # 0 /\ s.serial # serial)
  BY <1>2, <1>3
<1>5. stream' = [stream EXCEPT ![c] =
          [s EXCEPT !.serial = serial, !.pass = TRUE, !.drawn = serial,
                    !.last = IF commit THEN s.serial ELSE s.last,
                    !.deferred = continues /\ s.deferred,
                    !.follows = s.after]]
  BY DEF Draw
<1>6. /\ work' = [m \in Serials |-> IF m = serial THEN "recording"
                                    ELSE IF commit /\ m = s.serial THEN "committed" ELSE work[m]]
      /\ queue' = IF commit THEN Append(queue, s.serial) ELSE queue
  BY DEF Draw
<1>7. overtaken' \in BOOLEAN
  <2>1. overtaken' = (overtaken \/ (commit /\ \E r \in s.follows : ~Committed(r)))
    BY DEF Draw
  <2> QED BY ONLY <2>1
<1>8. fresh => (commit <=> s.serial # 0)
  OBVIOUS
<1>9. ~fresh => (s.deferred => continues /\ s.deferred)
  BY <1>1 DEF Stream
<1> HIDE DEF commit, fresh, serial
<1>10. /\ stream' \in [Contexts -> Stream]
       /\ stream'[c].serial = serial /\ stream'[c].drawn = serial
       /\ stream'[c].last = (IF commit THEN s.serial ELSE s.last)
       /\ stream'[c].deferred = (continues /\ s.deferred)
       /\ \A d \in Contexts \ {c} : stream'[d] = stream[d]
  <2> DEFINE l == IF commit THEN s.serial ELSE s.last
             b == continues /\ s.deferred
  <2>1. l \in 0 .. MaxSerial
    BY <1>1 DEF Stream
  <2>2. b \in BOOLEAN
    OBVIOUS
  <2>3. stream' = [stream EXCEPT ![c] = [s EXCEPT !.serial = serial, !.pass = TRUE,
                     !.drawn = serial, !.last = l, !.deferred = b, !.follows = s.after]]
    BY <1>5
  <2> HIDE DEF l, b
  <2>4. [s EXCEPT !.serial = serial, !.pass = TRUE, !.drawn = serial, !.last = l,
                  !.deferred = b, !.follows = s.after] \in Stream
    BY <1>1, <1>3, <2>1, <2>2 DEF Stream
  <2>5. stream' \in [Contexts -> Stream] /\ \A d \in Contexts \ {c} : stream'[d] = stream[d]
    BY <2>3, <2>4 DEF CommandsTyped
  <2>6. stream'[c] = [s EXCEPT !.serial = serial, !.pass = TRUE, !.drawn = serial, !.last = l,
                               !.deferred = b, !.follows = s.after]
    BY <2>3 DEF CommandsTyped
  <2>7. /\ stream'[c].serial = serial /\ stream'[c].drawn = serial
        /\ stream'[c].last = l /\ stream'[c].deferred = b
    BY <1>1, <2>6 DEF Stream
  <2> QED BY <2>5, <2>7 DEF l, b
<1>11. work' \in [Serials -> {"unused", "recording", "committed", "complete"}]
  BY <1>6 DEF CommandsTyped
<1>12. /\ work'[serial] = "recording"
       /\ commit => work'[s.serial] = "committed"
       /\ \A m \in Serials : m # serial /\ ~(commit /\ m = s.serial) => work'[m] = work[m]
       /\ \A m \in Serials : work[m] \in {"committed", "complete"} => work'[m] = work[m]
  BY <1>2, <1>3, <1>4, <1>6
<1>13. Later
  <2>1. \A m \in Serials : work'[m] = "complete" <=> work[m] = "complete"
    BY <1>2, <1>3, <1>4, <1>6
  <2> QED BY <1>12, <2>1 DEF Later, Committed, Complete
<1>14. CommandsStep
  <2>1. ASSUME NEW d \in Contexts
        PROVE  \/ stream'[d].serial = stream[d].serial /\ (stream[d].deferred => stream'[d].deferred)
               \/ WillRun(stream[d].serial)
    <3>1. CASE d # c
      BY <1>10, <3>1
    <3>2. CASE d = c /\ fresh
      <4>1. s.serial = 0 \/ work'[s.serial] = "committed"
        BY <1>8, <1>12, <3>2
      <4> QED BY <3>2, <4>1, <1>1 DEF WillRun, Serials
    <3>3. CASE d = c /\ ~fresh
      BY <1>3, <1>9, <1>10, <3>3
    <3> QED BY <3>1, <3>2, <3>3
  <2> QED BY <1>13, <2>1 DEF CommandsStep
<1>15. queue' \in Seq(Serials) /\ QueueCommitted'
  <2>1. queue \in Seq(Serials) /\ \A i \in DOMAIN queue : queue[i] \in Serials /\ work[queue[i]] \in {"committed", "complete"}
    BY DEF CommandsTyped, QueueCommitted, Committed
  <2>2. CASE ~commit
    BY <1>6, <1>12, <2>1, <2>2 DEF QueueCommitted, Committed
  <2>3. CASE commit
    <3>1. queue' = Append(queue, s.serial) /\ s.serial \in Serials /\ work'[s.serial] = "committed"
      BY <1>2, <1>4, <1>6, <1>12, <2>3
    <3>2. ASSUME NEW i \in DOMAIN queue'
          PROVE  (i \in DOMAIN queue /\ queue'[i] = queue[i]) \/ queue'[i] = s.serial
      BY <2>1, <3>1
    <3>3. \A i \in DOMAIN queue' : work'[queue'[i]] \in {"committed", "complete"}
      BY <1>12, <2>1, <3>1, <3>2
    <3>4. queue' \in Seq(Serials)
      BY <2>1, <3>1
    <3> QED BY <3>3, <3>4 DEF QueueCommitted, Committed
  <2> QED BY <2>2, <2>3
<1>16. StreamsOwn'
  <2>1. ASSUME NEW d \in Contexts \ {c}
        PROVE  /\ stream[d].serial # 0 => stream[d].serial \in Serials /\ work[stream[d].serial] = "recording"
               /\ stream[d].serial # 0 => stream[d].serial # s.serial
               /\ stream[d].serial # serial
    <3>1. stream[d].serial \in 0 .. MaxSerial
      BY DEF CommandsTyped, Stream
    <3>2. stream[d].serial # 0 => stream[d].serial \in Serials /\ work[stream[d].serial] = "recording"
      BY <1>1, <3>1 DEF StreamsOwn, Serials
    <3>3. stream[d].serial # 0 => stream[d].serial # s.serial
      BY DEF StreamsOwn
    <3> QED BY <1>3, <3>2, <3>3
  <2>2. ASSUME NEW d \in Contexts
        PROVE  stream'[d].serial # 0 => work'[stream'[d].serial] = "recording" /\ stream'[d].drawn = stream'[d].serial
    <3>1. CASE d = c
      BY <1>10, <1>12, <3>1
    <3>2. CASE d # c
      <4>1. stream'[d] = stream[d]
        BY <1>10, <3>2
      <4> QED BY <1>12, <2>1, <3>2, <4>1 DEF StreamsOwn
    <3> QED BY <3>1, <3>2
  <2>3. ASSUME NEW d \in Contexts
        PROVE  Committed(stream[d].last)'
    <3>1. CASE d = c
      BY <1>10, <1>12, <3>1 DEF StreamsOwn, Committed
    <3>2. CASE d # c
      <4>1. stream'[d] = stream[d]
        BY <1>10, <3>2
      <4> QED BY <1>12, <4>1 DEF StreamsOwn, Committed
    <3> QED BY <3>1, <3>2
  <2>4. ASSUME NEW d \in Contexts, stream'[d].serial = 0
        PROVE  stream'[d].drawn = stream'[d].last /\ ~stream'[d].pass
    <3>1. d # c /\ stream'[d] = stream[d]
      BY <1>3, <1>10, <2>4
    <3> QED BY <2>4, <3>1 DEF StreamsOwn
  <2>5. ASSUME NEW d \in Contexts, NEW e \in Contexts \ {d}, stream'[d].serial # 0
        PROVE  stream'[e].serial # stream'[d].serial
    BY <1>10, <2>1, <2>5 DEF StreamsOwn
  <2> QED BY <2>2, <2>3, <2>4, <2>5 DEF StreamsOwn
<1> QED BY <1>7, <1>10, <1>11, <1>14, <1>15, <1>16 DEF CommandsTyped

-----------------------------------------------------------------------------
(***************************************************************************)
(* The invariant in parts, and each call.                                  *)
(***************************************************************************)
LEMMA Parts ==
  SyncsSound <=> /\ CommandsSound /\ ThreadsTyped /\ ThreadsSound
                 /\ SyncsFollow /\ FlushPromises /\ WaitsMatch /\ SignaledCovers
BY Typed, CountTyped DEF SyncsSound, CommandsSound, ThreadsSound

LEMMA PartsAfter ==
  ASSUME CommandsSound', ThreadsTyped', ThreadsSound',
         SyncsFollow', FlushPromises', WaitsMatch', SignaledCovers'
  PROVE  SyncsSound'
<1>1. count' \in 0 .. Cardinality(Contexts)
  <2> DEFINE S == {c \in Contexts : current'[c]}
  <2>1. IsFiniteSet(Contexts) /\ S \subseteq Contexts
    BY SyncsAssumption
  <2> HIDE DEF S
  <2>2. IsFiniteSet(S) /\ Cardinality(S) <= Cardinality(Contexts)
    BY <2>1, FS_Subset
  <2>3. Cardinality(S) \in Nat /\ Cardinality(Contexts) \in Nat
    BY <2>1, <2>2, FS_CardinalityType
  <2>4. count' = Cardinality(S)
    BY DEF ThreadsSound, CountIsCurrent, S
  <2> QED BY <2>2, <2>3, <2>4
<1> QED BY <1>1 DEF SyncsSound, TypeOK, CommandsSound, CommandsTyped, ThreadsTyped, ThreadsSound

(* A report of a sync of committed work that is complete is a true one. *)
LEMMA ReportTrue ==
  ASSUME SignaledCovers, NEW f, Complete(f.covers), Report(f)
  PROVE  SignaledCovers' /\ premature' \in BOOLEAN
BY DEF SignaledCovers, Report

LEMMA SyncFacts ==
  ASSUME SyncsSound, NEW o \in Contexts, sync[o] # None
  PROVE  sync[o] \in Sync /\ sync[o].serial \in 0 .. MaxSerial /\ sync[o].covers = sync[o].serial
BY Parts DEF ThreadsTyped, SyncsFollow, Sync

(* What a GL call of one context keeps, by what it may have done. *)
LEMMA CallKeeps ==
  ASSUME SyncsSound, CommandsSound', CommandsStep, CallStep, ThreadsTyped', sync' = sync,
         WaitsMatch', SignaledCovers'
  PROVE  SyncsSound'
<1>1. /\ CommandsSound /\ ThreadsTyped /\ ThreadsSound
      /\ SyncsFollow /\ FlushPromises
  BY Parts
<1>2. \A c \in Contexts : stream[c].serial \in 0 .. MaxSerial
  BY <1>1 DEF CommandsSound, CommandsTyped, Stream
<1>3. \A t \in Threads : thread'[t].context = thread[t].context
  BY DEF CallStep
<1>4. SyncsFollow' /\ FlushPromises'
  <2>1. ASSUME NEW c \in Contexts
        PROVE  SyncKept(c)'
    <3>1. SyncKept(c)
      BY <1>1, SyncByContext
    <3> QED BY <1>1, <1>2, <1>3, <3>1, SyncsKept DEF ThreadsTyped
  <2> QED BY <2>1, SyncByContextAfter
<1>5. ThreadsSound'
  BY <1>1, ThreadsKept
<1> QED BY <1>4, <1>5, PartsAfter

(* A call of thread t for its context c that changes no other's stream. *)
LEMMA OneContext ==
  ASSUME NEW t \in Threads, NEW c \in Contexts, Calls(t, c), UNCHANGED <<current, count>>,
         \A u \in Threads :
           /\ thread'[u].context = thread[u].context /\ thread'[u].order = thread[u].order
           /\ thread'[u].pc = thread[u].pc \/ {thread[u].pc, thread'[u].pc} \subseteq {"idle", "wait"},
         \A d \in Contexts \ {c} : stream'[d] = stream[d]
  PROVE  CallStep
BY DEF CallStep, Calls

LEMMA StepDraw ==
  ASSUME SyncsSound, NEW t \in Threads, NEW c \in Contexts, NEW continues \in BOOLEAN,
         Draw(t, c, continues)
  PROVE  SyncsSound'
<1>1. CommandsSound /\ ThreadsTyped /\ WaitsMatch /\ SignaledCovers
  BY Parts
<1>2. CommandsSound' /\ CommandsStep /\ \A d \in Contexts \ {c} : stream'[d] = stream[d]
  BY <1>1, DrawStep
<1>3. Calls(t, c) /\ UNCHANGED <<thread, current, alive, count, sync, premature>>
  BY DEF Draw
<1>4. CallStep
  BY <1>2, <1>3, OneContext
<1>5. ThreadsTyped' /\ WaitsMatch' /\ SignaledCovers'
  BY <1>1, <1>3 DEF ThreadsTyped, WaitsMatch, SignaledCovers
<1> QED BY <1>2, <1>3, <1>4, <1>5, CallKeeps

LEMMA StepOwnCommit ==
  ASSUME SyncsSound, NEW t \in Threads, NEW c \in Contexts, OwnCommit(t, c)
  PROVE  SyncsSound'
<1>1. CommandsSound /\ ThreadsTyped /\ WaitsMatch /\ SignaledCovers
  BY Parts
<1>2. Calls(t, c) /\ Flush(c) /\ UNCHANGED <<thread, current, alive, count, sync, premature>>
  BY DEF OwnCommit
<1>3. CommandsSound' /\ CommandsStep /\ \A d \in Contexts \ {c} : stream'[d] = stream[d]
  BY <1>1, <1>2, FlushStep
<1>4. CallStep
  BY <1>2, <1>3, OneContext
<1>5. ThreadsTyped' /\ WaitsMatch' /\ SignaledCovers'
  BY <1>1, <1>2 DEF ThreadsTyped, WaitsMatch, SignaledCovers
<1> QED BY <1>2, <1>3, <1>4, <1>5, CallKeeps

LEMMA StepFinish ==
  ASSUME SyncsSound, NEW t \in Threads, NEW c \in Contexts, Finish(t, c)
  PROVE  SyncsSound'
<1> DEFINE w == [serial |-> Flushed(stream[c]).last, sync |-> None, promised |-> TRUE]
<1>1. CommandsSound /\ ThreadsTyped /\ WaitsMatch /\ SignaledCovers
  BY Parts
<1>2. Calls(t, c) /\ Flush(c) /\ UNCHANGED <<current, alive, count, sync, premature>>
  BY DEF Finish
<1>3. /\ CommandsSound' /\ CommandsStep /\ \A d \in Contexts \ {c} : stream'[d] = stream[d]
      /\ Flushed(stream[c]).last \in 0 .. MaxSerial
  BY <1>1, <1>2, FlushStep
<1>4. w \in Wait /\ w.sync = None
  BY <1>3 DEF Wait
<1>5. thread' = thread \/ thread' = [thread EXCEPT ![t].pc = "wait", ![t].wait = w]
  BY DEF Finish
<1> HIDE DEF w
<1>6. thread' \in [Threads -> Thread]
  BY <1>1, <1>4, <1>5 DEF ThreadsTyped, Thread
<1>7. \A u \in Threads :
        /\ thread'[u].context = thread[u].context /\ thread'[u].order = thread[u].order
        /\ thread'[u].pc = thread[u].pc \/ {thread[u].pc, thread'[u].pc} \subseteq {"idle", "wait"}
  BY <1>1, <1>2, <1>5 DEF ThreadsTyped, Thread, Calls
<1>8. CallStep
  BY <1>2, <1>3, <1>7, OneContext
<1>9. WaitsMatch'
  BY <1>1, <1>4, <1>5 DEF ThreadsTyped, Thread, WaitsMatch
<1>10. ThreadsTyped' /\ SignaledCovers'
  BY <1>1, <1>2, <1>6 DEF ThreadsTyped, SignaledCovers
<1> QED BY <1>2, <1>3, <1>8, <1>9, <1>10, CallKeeps

LEMMA CommitForStep ==
  ASSUME CommandsSound, NEW c \in Contexts, NEW s, NEW bit, CommitFor(c, s, bit)
  PROVE  /\ CommandsSound' /\ CommandsStep
         /\ \A d \in Contexts \ {c} : stream'[d] = stream[d]
<1>1. CASE Flush(c)
  BY <1>1, FlushStep
<1>2. CASE NoCommands
  BY <1>2, NoCommandsStep DEF NoCommands
<1> QED BY <1>1, <1>2 DEF CommitFor

LEMMA StepSyncStatus ==
  ASSUME SyncsSound, NEW t \in Threads, NEW c \in Contexts, NEW o \in Contexts,
         SyncStatus(t, c, sync[o])
  PROVE  SyncsSound'
<1>1. CommandsSound /\ ThreadsTyped /\ WaitsMatch /\ SignaledCovers
  BY Parts
<1>2. /\ Calls(t, c) /\ CommitFor(c, sync[o].serial, FALSE)
      /\ sync[o] # None /\ UNCHANGED <<thread, current, alive, count, sync>>
  BY DEF SyncStatus
<1>3. CommandsSound' /\ CommandsStep /\ \A d \in Contexts \ {c} : stream'[d] = stream[d]
  BY <1>1, <1>2, CommitForStep
<1>4. CallStep
  BY <1>2, <1>3, OneContext
<1>5. SignaledCovers' /\ premature' \in BOOLEAN
  <2>1. CASE Complete(sync[o].serial) /\ Report(sync[o])
    BY <1>1, <1>2, <2>1, SyncFacts, ReportTrue
  <2>2. CASE UNCHANGED premature
    BY <1>1, <2>2 DEF ThreadsTyped, SignaledCovers
  <2> QED BY <2>1, <2>2 DEF SyncStatus
<1>6. ThreadsTyped' /\ WaitsMatch'
  BY <1>1, <1>2, <1>5 DEF ThreadsTyped, WaitsMatch
<1> QED BY <1>2, <1>3, <1>4, <1>5, <1>6, CallKeeps

LEMMA StepClientWait ==
  ASSUME SyncsSound, NEW t \in Threads, NEW c \in Contexts, NEW o \in Contexts,
         NEW bit \in BOOLEAN, NEW waits \in BOOLEAN, ClientWait(t, c, sync[o], bit, waits)
  PROVE  SyncsSound'
<1> DEFINE f == sync[o]
           w == [serial |-> f.serial, sync |-> f, promised |-> f.owner = c /\ (bit \/ f.flushed)]
<1>1. CommandsSound /\ ThreadsTyped /\ WaitsMatch /\ SignaledCovers
  BY Parts
<1>2. Calls(t, c) /\ f # None /\ UNCHANGED <<current, alive, count, sync>>
  BY DEF ClientWait
<1>3. CommandsSound' /\ CommandsStep /\ \A d \in Contexts \ {c} : stream'[d] = stream[d]
  <2>1. CASE NoCommands
    BY <1>1, <2>1, NoCommandsStep DEF NoCommands
  <2>2. CASE CommitFor(c, f.serial, bit)
    BY <1>1, <2>2, CommitForStep
  <2> QED BY <2>1, <2>2 DEF ClientWait
<1>4. f \in Sync /\ f.serial \in 0 .. MaxSerial /\ f.covers = f.serial
  BY <1>2, SyncFacts
<1>5. w \in Wait /\ w.sync.serial = w.serial /\ w.sync.covers = w.serial
  BY <1>4 DEF Wait
<1>6. thread' = thread \/ thread' = [thread EXCEPT ![t].pc = "wait", ![t].wait = w]
  BY DEF ClientWait
<1>7. SignaledCovers' /\ premature' \in BOOLEAN
  <2>1. CASE Complete(f.serial) /\ Report(f)
    BY <1>1, <1>4, <2>1, ReportTrue
  <2>2. CASE UNCHANGED premature
    BY <1>1, <2>2 DEF ThreadsTyped, SignaledCovers
  <2> QED BY <2>1, <2>2 DEF ClientWait
<1> HIDE DEF w, f
<1>8. thread' \in [Threads -> Thread]
  BY <1>1, <1>5, <1>6 DEF ThreadsTyped, Thread
<1>9. \A u \in Threads :
        /\ thread'[u].context = thread[u].context /\ thread'[u].order = thread[u].order
        /\ thread'[u].pc = thread[u].pc \/ {thread[u].pc, thread'[u].pc} \subseteq {"idle", "wait"}
  BY <1>1, <1>2, <1>6 DEF ThreadsTyped, Thread, Calls
<1>10. CallStep
  BY <1>2, <1>3, <1>9, OneContext
<1>11. WaitsMatch'
  BY <1>1, <1>5, <1>6 DEF ThreadsTyped, Thread, WaitsMatch
<1>12. ThreadsTyped'
  BY <1>1, <1>2, <1>7, <1>8 DEF ThreadsTyped
<1> QED BY <1>2, <1>3, <1>7, <1>10, <1>11, <1>12, CallKeeps

LEMMA WaitOver ==
  ASSUME SyncsSound, NEW t \in Threads, thread[t].pc = "wait",
         thread' = [thread EXCEPT ![t].pc = "idle", ![t].wait = None],
         NoCommands, UNCHANGED <<current, alive, count, sync>>,
         SignaledCovers', premature' \in BOOLEAN
  PROVE  SyncsSound'
<1>1. CommandsSound /\ ThreadsTyped /\ WaitsMatch
  BY Parts
<1>2. CommandsSound' /\ CommandsStep
  BY <1>1, NoCommandsStep
<1>3. thread' \in [Threads -> Thread]
  <2>1. thread[t] \in Thread
    BY <1>1 DEF ThreadsTyped
  <2>2. [thread[t] EXCEPT !.pc = "idle", !.wait = None] \in Thread
    BY <2>1 DEF Thread
  <2> QED BY <1>1, <2>2 DEF ThreadsTyped
<1>4. CallStep
  BY <1>1 DEF ThreadsTyped, Thread, CallStep, NoCommands
<1>5. WaitsMatch'
  BY <1>1 DEF ThreadsTyped, Thread, WaitsMatch
<1>6. ThreadsTyped'
  BY <1>1, <1>3 DEF ThreadsTyped
<1> QED BY <1>2, <1>4, <1>5, <1>6, CallKeeps

LEMMA StepWaitReturns ==
  ASSUME SyncsSound, NEW t \in Threads, WaitReturns(t)
  PROVE  SyncsSound'
<1>1. ThreadsTyped /\ WaitsMatch /\ SignaledCovers
  BY Parts
<1>2. SignaledCovers' /\ premature' \in BOOLEAN
  <2>1. CASE thread[t].wait.sync # None
    <3>1. Complete(thread[t].wait.sync.covers) /\ Report(thread[t].wait.sync)
      BY <1>1, <2>1 DEF WaitReturns, WaitsMatch
    <3> QED BY <1>1, <3>1, ReportTrue
  <2>2. CASE thread[t].wait.sync = None
    BY <1>1, <2>2 DEF WaitReturns, ThreadsTyped, SignaledCovers
  <2> QED BY <2>1, <2>2
<1> QED BY <1>2, WaitOver DEF WaitReturns

LEMMA StepWaitTimesOut ==
  ASSUME SyncsSound, NEW t \in Threads, WaitTimesOut(t)
  PROVE  SyncsSound'
<1>1. SignaledCovers' /\ premature' \in BOOLEAN
  BY Parts DEF WaitTimesOut, ThreadsTyped, SignaledCovers
<1> QED BY <1>1, WaitOver DEF WaitTimesOut

LEMMA StepWaitSync ==
  ASSUME SyncsSound, NEW t \in Threads, NEW c \in Contexts, NEW o \in Contexts,
         WaitSync(t, c, sync[o])
  PROVE  SyncsSound'
<1> DEFINE s == stream[c]
           a == s.after \cup {sync[o].serial}
<1>1. CommandsSound /\ ThreadsTyped /\ WaitsMatch /\ SignaledCovers
  BY Parts
<1>2. /\ Calls(t, c) /\ sync[o] # None /\ ~Committed(sync[o].serial)
      /\ UNCHANGED <<thread, current, alive, count, work, queue, sync, premature, overtaken>>
      /\ stream' = [stream EXCEPT ![c] = [s EXCEPT !.after = a]]
  BY DEF WaitSync
<1>3. s \in Stream /\ a \in SUBSET Serials
  BY <1>1, <1>2 DEF CommandsSound, CommandsTyped, Stream, Committed
<1> HIDE DEF a
<1>4. [s EXCEPT !.after = a] \in Stream
  BY <1>3 DEF Stream
<1>5. /\ stream' \in [Contexts -> Stream]
      /\ \A d \in Contexts : /\ stream'[d].serial = stream[d].serial
                             /\ stream'[d].last = stream[d].last
                             /\ stream'[d].drawn = stream[d].drawn
                             /\ stream'[d].pass = stream[d].pass
                             /\ stream'[d].deferred = stream[d].deferred
      /\ \A d \in Contexts \ {c} : stream'[d] = stream[d]
  <2>1. stream \in [Contexts -> Stream]
    BY <1>1 DEF CommandsSound, CommandsTyped
  <2>2. /\ stream' \in [Contexts -> Stream] /\ stream'[c] = [s EXCEPT !.after = a]
        /\ \A d \in Contexts \ {c} : stream'[d] = stream[d]
    BY <1>2, <1>4, <2>1
  <2>3. /\ stream'[c].serial = s.serial /\ stream'[c].last = s.last /\ stream'[c].drawn = s.drawn
        /\ stream'[c].pass = s.pass /\ stream'[c].deferred = s.deferred
    BY <1>3, <2>2 DEF Stream
  <2> QED BY <2>2, <2>3
<1>6. CommandsSound' /\ CommandsStep
  BY <1>1, <1>2, <1>5 DEF CommandsSound, CommandsTyped, StreamsOwn, QueueCommitted, CommandsStep,
                          Later, Committed, Complete
<1>7. CallStep
  BY <1>2, <1>5, OneContext
<1>8. ThreadsTyped' /\ WaitsMatch' /\ SignaledCovers'
  BY <1>1, <1>2 DEF ThreadsTyped, WaitsMatch, SignaledCovers
<1> QED BY <1>2, <1>6, <1>7, <1>8, CallKeeps

LEMMA StepCompleteOldest ==
  ASSUME SyncsSound, CompleteOldest
  PROVE  SyncsSound'
<1> DEFINE h == Head(queue)
<1>1. CommandsSound /\ ThreadsTyped /\ WaitsMatch /\ SignaledCovers
  BY Parts
<1>2. /\ queue # <<>> /\ queue \in Seq(Serials) /\ queue' = Tail(queue)
      /\ work' = [work EXCEPT ![h] = "complete"]
      /\ UNCHANGED <<thread, current, alive, count, stream, sync, premature, overtaken>>
  BY <1>1 DEF CompleteOldest, CommandsSound, CommandsTyped
<1>3. h \in Serials /\ work[h] \in {"committed", "complete"}
  BY <1>1, <1>2 DEF CommandsSound, QueueCommitted, Committed
<1>4. queue' \in Seq(Serials)
  BY <1>2
<1>5. \A i \in DOMAIN queue' : queue'[i] \in Serials /\ work[queue'[i]] \in {"committed", "complete"}
  <2>1. \A i \in DOMAIN queue : queue[i] \in Serials /\ work[queue[i]] \in {"committed", "complete"}
    BY <1>1, <1>2 DEF CommandsSound, QueueCommitted, Committed
  <2>2. ASSUME NEW i \in DOMAIN queue'
        PROVE  i + 1 \in DOMAIN queue /\ queue'[i] = queue[i + 1]
    BY <1>2
  <2> QED BY <2>1, <2>2
<1> HIDE DEF h
<1>6. /\ work' \in [Serials -> {"unused", "recording", "committed", "complete"}]
      /\ \A s \in Serials : work'[s] = IF s = h THEN "complete" ELSE work[s]
  BY <1>1, <1>2, <1>3 DEF CommandsSound, CommandsTyped
<1>7. QueueCommitted'
  BY <1>5, <1>6 DEF QueueCommitted, Committed
<1>8. StreamsOwn'
  <2>1. \A c \in Contexts : stream[c].serial # 0 => stream[c].serial \in Serials
    BY <1>1, SyncsAssumption DEF CommandsSound, CommandsTyped, Stream, Serials
  <2> QED BY <1>1, <1>2, <1>3, <1>6, <2>1 DEF CommandsSound, StreamsOwn, Committed
<1>9. CommandsStep
  BY <1>2, <1>6 DEF CommandsStep, Later, Committed, Complete
<1>10. CommandsSound'
  BY <1>1, <1>2, <1>4, <1>6, <1>7, <1>8 DEF CommandsSound, CommandsTyped
<1>11. CallStep
  BY <1>2 DEF CallStep
<1>12. ThreadsTyped' /\ WaitsMatch' /\ SignaledCovers'
  BY <1>1, <1>2 DEF ThreadsTyped, WaitsMatch, SignaledCovers
<1> QED BY <1>2, <1>9, <1>10, <1>11, <1>12, CallKeeps

LEMMA StepFenceSync ==
  ASSUME SyncsSound, NEW t \in Threads, NEW c \in Contexts, FenceSync(t, c)
  PROVE  SyncsSound'
<1> DEFINE n == IF stream[c].serial # 0 THEN stream[c].serial ELSE stream[c].last
           f == [owner |-> c, covers |-> stream[c].drawn, flushed |-> FALSE, alone |-> FALSE,
                 serial |-> n]
<1>1. /\ CommandsSound /\ ThreadsTyped /\ ThreadsSound /\ WaitsMatch /\ SignaledCovers
      /\ SyncsFollow /\ FlushPromises
  BY Parts
<1>2. /\ Calls(t, c) /\ NoCommands /\ UNCHANGED <<thread, current, alive, count, premature>>
      /\ sync' = [sync EXCEPT ![c] = f]
  BY DEF FenceSync
<1>3. stream[c] \in Stream /\ n \in 0 .. MaxSerial
  BY <1>1 DEF CommandsSound, CommandsTyped, Stream
<1>4. stream[c].drawn = n /\ (Committed(n) \/ stream[c].serial = n)
  BY <1>1 DEF CommandsSound, StreamsOwn
<1>5. /\ f \in Sync /\ f.owner = c /\ f.covers = f.serial /\ f.serial = n /\ ~f.flushed
  BY <1>3, <1>4 DEF Sync
<1> HIDE DEF f, n
<1>6. CommandsSound' /\ stream' = stream /\ work' = work
  BY <1>1, <1>2, NoCommandsStep DEF NoCommands
<1>7. CallStep
  BY <1>2, <1>6, OneContext
<1>8. ThreadsTyped' /\ WaitsMatch' /\ SignaledCovers'
  BY <1>1, <1>2, <1>5 DEF ThreadsTyped, WaitsMatch, SignaledCovers
<1>9. \A d \in Contexts : sync'[d] = IF d = c THEN f ELSE sync[d]
  BY <1>1, <1>2 DEF ThreadsTyped
<1>10. SyncsFollow'
  BY <1>1, <1>4, <1>5, <1>6, <1>9 DEF SyncsFollow, Committed
<1>11. FlushPromises'
  BY <1>1, <1>2, <1>5, <1>6, <1>9 DEF FlushPromises, Committed
<1>12. ThreadsSound'
  BY <1>1, <1>7, ThreadsKept
<1> QED BY <1>6, <1>8, <1>10, <1>11, <1>12, PartsAfter

(* With one context current, or about to be, a thread in a call is alone. *)
LEMMA DeferrableAlone ==
  ASSUME ThreadsTyped, CountIsCurrent, NEW t \in Threads, NEW c \in Contexts, Calls(t, c),
         Deferrable
  PROVE  Alone(t)
<1> SUFFICES ASSUME NEW u \in Threads \ {t}, thread[u].context # None, thread[u].pc # "switch"
             PROVE  FALSE
  BY DEF Alone
<1> DEFINE d == thread[u].context
           S == {e \in Contexts : current[e]}
<1>1. c # None /\ thread[t].context = c /\ thread[t].pc = "idle"
  BY SyncsAssumption DEF Calls
<1>2. d \in Contexts /\ d # c /\ current[c] /\ current[d]
  BY <1>1 DEF ThreadsTyped, Thread, CountIsCurrent
<1>3. IsFiniteSet(S) /\ count = Cardinality(S) /\ {c, d} \subseteq S
  BY <1>2, SyncsAssumption, FS_Subset DEF CountIsCurrent
<1> HIDE DEF S, d
<1>4. Cardinality({c, d}) = 2
  <2>1. Cardinality({c}) = 1 /\ IsFiniteSet({c})
    BY FS_Singleton
  <2>2. d \notin {c} /\ {c} \cup {d} = {c, d}
    BY <1>2
  <2>3. Cardinality({c} \cup {d}) = Cardinality({c}) + 1
    BY <2>1, <2>2, FS_AddElement
  <2> QED BY <2>1, <2>2, <2>3
<1>5. Cardinality({c, d}) <= Cardinality(S)
  BY <1>3, FS_Subset
<1>6. Cardinality(S) \in Nat
  BY <1>3, FS_CardinalityType
<1> QED BY <1>3, <1>4, <1>5, <1>6 DEF Deferrable

LEMMA StepGLFlush ==
  ASSUME SyncsSound, NEW t \in Threads, NEW c \in Contexts, GLFlush(t, c)
  PROVE  SyncsSound'
<1> DEFINE f == IF sync[c] = None \/ sync[c].flushed THEN sync[c]
                ELSE [sync[c] EXCEPT !.flushed = TRUE, !.alone = Alone(t)]
<1>1. /\ CommandsSound /\ ThreadsTyped /\ ThreadsSound /\ WaitsMatch /\ SignaledCovers
      /\ \A d \in Contexts : SyncKept(d)
  BY Parts, SyncByContext
<1>2. /\ Calls(t, c) /\ UNCHANGED <<thread, current, alive, count, premature>>
      /\ sync' = [sync EXCEPT ![c] = f]
  BY DEF GLFlush
<1>3. /\ f \in Sync \cup {None}
      /\ f # None => sync[c] # None /\ sync[c] \in Sync
      /\ sync[c] # None => f.owner = sync[c].owner /\ f.covers = sync[c].covers
                           /\ f.serial = sync[c].serial
      /\ sync[c] # None /\ ~sync[c].flushed => f.alone = Alone(t)
      /\ sync[c] # None /\ sync[c].flushed => f = sync[c]
  <2>1. sync[c] \in Sync \cup {None} /\ Alone(t) \in BOOLEAN
    BY <1>1 DEF ThreadsTyped, Alone
  <2> QED BY <2>1 DEF Sync
<1> HIDE DEF f
<1>4. sync'[c] = f /\ \A d \in Contexts \ {c} : sync'[d] = sync[d]
  BY <1>1, <1>2 DEF ThreadsTyped
<1>5. \A d \in Contexts : stream[d].serial \in 0 .. MaxSerial
  BY <1>1 DEF CommandsSound, CommandsTyped, Stream
<1>6. CASE Deferrable
  <2>1. stream' = [stream EXCEPT ![c].deferred = TRUE] /\ UNCHANGED <<work, queue, overtaken>>
    BY <1>6 DEF GLFlush
  <2>2. /\ stream' \in [Contexts -> Stream] /\ stream'[c].deferred
        /\ \A d \in Contexts : /\ stream'[d].serial = stream[d].serial
                               /\ stream'[d].last = stream[d].last
                               /\ stream'[d].drawn = stream[d].drawn
                               /\ stream'[d].pass = stream[d].pass
                               /\ stream[d].deferred => stream'[d].deferred
        /\ \A d \in Contexts \ {c} : stream'[d] = stream[d]
    <3> DEFINE s == stream[c]
               r == [s EXCEPT !.deferred = TRUE]
    <3>1. stream \in [Contexts -> Stream] /\ s \in Stream
      BY <1>1 DEF CommandsSound, CommandsTyped
    <3>2. /\ r \in Stream /\ r.deferred /\ r.serial = s.serial /\ r.last = s.last
          /\ r.drawn = s.drawn /\ r.pass = s.pass
      BY <3>1 DEF Stream
    <3>3. stream' = [stream EXCEPT ![c] = r]
      BY <2>1
    <3> HIDE DEF r
    <3> QED BY <3>1, <3>2, <3>3
  <2>3. CommandsSound' /\ CommandsStep
    BY <1>1, <2>1, <2>2 DEF CommandsSound, CommandsTyped, StreamsOwn, QueueCommitted, CommandsStep,
                            Later, Committed, Complete
  <2>4. CallStep
    BY <1>2, <2>2, OneContext
  <2>5. Alone(t) /\ \E u \in Threads : thread[u].context = c
    BY <1>1, <1>2, <1>6, DeferrableAlone DEF ThreadsSound, Calls
  <2>6. SyncKept(c)'
    <3>1. /\ sync[c] # None => sync'[c].alone \/ (sync[c].flushed /\ f = sync[c])
          /\ \A s : Committed(s)' <=> Committed(s)
      BY <1>3, <1>4, <2>1, <2>5 DEF Committed
    <3> QED BY <1>1, <1>2, <1>3, <1>4, <2>1, <2>2, <2>5, <3>1 DEF SyncKept, Committed
  <2>7. ASSUME NEW d \in Contexts \ {c}
        PROVE  SyncKept(d)'
    BY <1>1, <1>2, <1>4, <1>5, <2>3, SyncsKept DEF ThreadsTyped
  <2>8. SyncsFollow' /\ FlushPromises'
    BY <2>6, <2>7, SyncByContextAfter
  <2>9. ThreadsTyped' /\ WaitsMatch' /\ SignaledCovers'
    BY <1>1, <1>2, <1>3 DEF ThreadsTyped, WaitsMatch, SignaledCovers
  <2>10. ThreadsSound'
    BY <1>1, <2>4, ThreadsKept
  <2> QED BY <2>3, <2>8, <2>9, <2>10, PartsAfter
<1>7. CASE ~Deferrable
  <2>1. Flush(c)
    BY <1>7 DEF GLFlush
  <2>2. CommandsSound' /\ CommandsStep /\ WillRun(stream[c].serial)
        /\ \A d \in Contexts \ {c} : stream'[d] = stream[d]
    BY <1>1, <2>1, FlushStep
  <2>4. CallStep
    BY <1>2, <2>2, OneContext
  <2>6. SyncKept(c)'
    <3>1. ASSUME sync[c] # None
          PROVE  WillRun(f.serial)
      <4>1. Committed(f.serial) \/ f.serial = stream[c].serial
        BY <1>1, <1>3, <3>1 DEF SyncKept
      <4>2. f.serial \in 0 .. MaxSerial
        BY <1>3, <1>1, <3>1 DEF Sync, ThreadsTyped
      <4> QED BY <2>2, <4>1, <4>2 DEF CommandsStep, Later, WillRun, Committed
    <3>2. sync'[c] # None => sync[c] # None /\ sync'[c].serial = f.serial /\ WillRun(sync'[c].serial)
      BY <1>3, <1>4, <3>1
    <3>3. sync'[c] # None => Committed(sync[c].serial)'
      BY <3>2 DEF WillRun, Committed
    <3> QED BY <1>1, <1>3, <1>4, <3>2, <3>3 DEF SyncKept
  <2>7. ASSUME NEW d \in Contexts \ {c}
        PROVE  SyncKept(d)'
    BY <1>1, <1>2, <1>4, <1>5, <2>2, SyncsKept DEF ThreadsTyped
  <2>8. SyncsFollow' /\ FlushPromises'
    BY <2>6, <2>7, SyncByContextAfter
  <2>9. ThreadsTyped' /\ WaitsMatch' /\ SignaledCovers'
    BY <1>1, <1>2, <1>3 DEF ThreadsTyped, WaitsMatch, SignaledCovers
  <2>10. ThreadsSound'
    BY <1>1, <2>4, ThreadsKept
  <2> QED BY <2>2, <2>8, <2>9, <2>10, PartsAfter
<1> QED BY <1>6, <1>7

-----------------------------------------------------------------------------
(***************************************************************************)
(* The calls under wgl_lock, in the middle of which other threads go on.   *)
(***************************************************************************)

(* What the syncs, the waits and the reports keep in a step of such a call.*)
LEMMA OrderKeeps ==
  ASSUME SyncsSound, CommandsStep, UNCHANGED <<sync, premature>>,
         \A u \in Threads : /\ thread'[u].pc = "wait" => thread[u].pc = "wait"
                            /\ thread'[u].wait = thread[u].wait,
         \A d \in Contexts : stream[d].serial # 0 /\ (\E u \in Threads : thread[u].context = d) =>
                               (\E u \in Threads : thread'[u].context = d) \/ WillRun(stream[d].serial)
  PROVE  SyncsFollow' /\ FlushPromises' /\ WaitsMatch' /\ SignaledCovers'
<1>1. /\ CommandsSound /\ ThreadsTyped /\ WaitsMatch /\ SignaledCovers
      /\ \A d \in Contexts : SyncKept(d)
  BY Parts, SyncByContext
<1>2. ASSUME NEW d \in Contexts
      PROVE  SyncKept(d)'
  <2>1. stream[d].serial \in 0 .. MaxSerial /\ sync'[d] = sync[d]
    BY <1>1 DEF CommandsSound, CommandsTyped, Stream
  <2>2. CASE sync[d] # None /\ stream[d].serial = sync[d].serial /\ WillRun(stream[d].serial)
    <3>1. Committed(sync[d].serial)'
      BY <2>1, <2>2 DEF WillRun, Committed
    <3> QED BY <1>1, <2>1, <3>1 DEF SyncKept
  <2>3. CASE ~(sync[d] # None /\ stream[d].serial = sync[d].serial /\ WillRun(stream[d].serial))
    <3>1. CASE sync[d] # None /\ stream[d].serial # sync[d].serial
      <4>1. Committed(sync[d].serial) /\ sync[d].serial \in 0 .. MaxSerial
        BY <1>1, <3>1 DEF SyncKept, ThreadsTyped, Sync
      <4>2. Committed(sync[d].serial)'
        BY <2>1, <4>1 DEF CommandsStep, Later, Committed
      <4> QED BY <1>1, <2>1, <4>2 DEF SyncKept
    <3>2. CASE sync[d] = None
      BY <2>1, <3>2 DEF SyncKept
    <3>3. CASE sync[d] # None /\ stream[d].serial = sync[d].serial /\ ~WillRun(stream[d].serial)
      BY <1>1, <2>1, <3>3, SyncsKept DEF ThreadsTyped
    <3> QED BY <2>3, <3>1, <3>2, <3>3
  <2> QED BY <2>2, <2>3
<1>3. SyncsFollow' /\ FlushPromises'
  BY <1>2, SyncByContextAfter
<1>4. WaitsMatch' /\ SignaledCovers'
  BY <1>1 DEF WaitsMatch, SignaledCovers
<1> QED BY <1>3, <1>4

(* One context less, or one more, is current. *)
LEMMA NotCurrent ==
  ASSUME current \in [Contexts -> BOOLEAN], count = Cardinality({d \in Contexts : current[d]}),
         NEW c \in Contexts, current' = [current EXCEPT ![c] = FALSE],
         count' = IF current[c] THEN count - 1 ELSE count
  PROVE  count' = Cardinality({d \in Contexts : current'[d]})
<1> DEFINE S == {d \in Contexts : current[d]}
           R == {d \in Contexts : current'[d]}
<1>1. IsFiniteSet(S)
  BY SyncsAssumption, FS_Subset
<1>2. R = S \ {c} /\ (c \in S <=> current[c])
  BY Zenon
<1> HIDE DEF S, R
<1>3. Cardinality(S \ {c}) = IF c \in S THEN Cardinality(S) - 1 ELSE Cardinality(S)
  BY <1>1, FS_RemoveElement
<1> QED BY <1>2, <1>3 DEF S, R

LEMMA NewCurrent ==
  ASSUME current \in [Contexts -> BOOLEAN], count = Cardinality({d \in Contexts : current[d]}),
         NEW c \in Contexts, ~current[c], current' = [current EXCEPT ![c] = TRUE],
         count' = count + 1
  PROVE  count' = Cardinality({d \in Contexts : current'[d]})
<1> DEFINE S == {d \in Contexts : current[d]}
           R == {d \in Contexts : current'[d]}
<1>1. IsFiniteSet(S)
  BY SyncsAssumption, FS_Subset
<1>2. R = S \cup {c} /\ c \notin S
  BY Zenon
<1> HIDE DEF S, R
<1>3. Cardinality(S \cup {c}) = Cardinality(S) + 1
  BY <1>1, <1>2, FS_AddElement
<1> QED BY <1>2, <1>3 DEF S, R

LEMMA NoOrders ==
  ASSUME LockFree, NEW t \in Threads
  PROVE  thread[t].pc \notin Orders /\ thread[t].pc # "switch" /\ thread[t].pc # "destroy"
BY DEF LockFree, Orders

LEMMA StepSwitchFrom ==
  ASSUME SyncsSound, NEW t \in Threads, NEW c \in Contexts \cup {None}, SwitchFrom(t, c)
  PROVE  SyncsSound'
<1> DEFINE p == thread[t].context
<1>1. /\ CommandsSound /\ ThreadsTyped /\ ThreadsSound
  BY Parts
<1>2. /\ thread[t].pc = "idle" /\ LockFree
      /\ c # None => \A u \in Threads \ {t} : thread[u].context # c
      /\ thread' = [thread EXCEPT ![t].pc = "switch", ![t].order = c]
      /\ UNCHANGED <<alive, sync, premature>>
  BY DEF SwitchFrom
<1>3. /\ thread' \in [Threads -> Thread]
      /\ thread'[t].pc = "switch" /\ thread'[t].order = c /\ thread'[t].context = p
      /\ thread'[t].wait = thread[t].wait
      /\ \A u \in Threads \ {t} : thread'[u] = thread[u]
  BY <1>1, <1>2 DEF ThreadsTyped, Thread, Orders
<1>4. p \in Contexts \cup {None}
  BY <1>1 DEF ThreadsTyped, Thread
<1>5. p \notin {None, c} => p \in Contexts /\ Flush(p) /\ current' = [current EXCEPT ![p] = FALSE]
                            /\ count' = IF current[p] THEN count - 1 ELSE count
  BY <1>4 DEF SwitchFrom
<1>6. p \in {None, c} => NoCommands /\ UNCHANGED <<current, count>>
  BY DEF SwitchFrom
<1> HIDE DEF p
<1>7. /\ CommandsSound' /\ CommandsStep
      /\ p \notin {None, c} => Quiet(stream'[p])
      /\ \A d \in Contexts : d # p => stream'[d] = stream[d]
      /\ p \in {None, c} => stream' = stream
  <2>1. CASE p \in {None, c}
    BY <1>1, <1>6, <2>1, NoCommandsStep DEF NoCommands
  <2>2. CASE p \notin {None, c}
    BY <1>1, <1>5, <2>2, FlushStep DEF Quiet
  <2> QED BY <2>1, <2>2
<1>8. SyncsFollow' /\ FlushPromises' /\ WaitsMatch' /\ SignaledCovers'
  <2>1. \A u \in Threads : /\ thread'[u].pc = "wait" => thread[u].pc = "wait"
                           /\ thread'[u].wait = thread[u].wait /\ thread'[u].context = thread[u].context
    BY <1>3 DEF p
  <2> QED BY <1>2, <1>7, <2>1, OrderKeeps
<1>9. current' \in [Contexts -> BOOLEAN] /\ count' = Cardinality({d \in Contexts : current'[d]})
  <2>1. current \in [Contexts -> BOOLEAN] /\ count = Cardinality({d \in Contexts : current[d]})
    BY <1>1 DEF ThreadsTyped, ThreadsSound, CountIsCurrent
  <2>2. CASE p \in {None, c}
    BY <1>6, <2>1, <2>2
  <2>3. CASE p \notin {None, c}
    BY <1>5, <2>1, <2>3, NotCurrent
  <2> QED BY <2>2, <2>3
<1>10. ThreadsTyped'
  BY <1>1, <1>2, <1>3, <1>9 DEF ThreadsTyped
<1>11. \A u \in Threads : thread[u].pc \notin Orders /\ thread[u].pc # "switch" /\ thread[u].pc # "destroy"
  BY <1>2, NoOrders
<1>12. CountIsCurrent'
  <2>1. ASSUME NEW u \in Threads, thread'[u].context # None, thread'[u].pc # "switch"
        PROVE  /\ current'[thread'[u].context]
               /\ \A v \in Threads : u # v => thread'[v].context # thread'[u].context
    <3>1. u # t /\ thread'[u] = thread[u]
      BY <1>3, <2>1
    <3>2. /\ current[thread[u].context] /\ thread[u].context \in Contexts
          /\ \A v \in Threads : u # v => thread[v].context # thread[u].context
      BY <1>1, <1>11, <2>1, <3>1 DEF ThreadsTyped, Thread, ThreadsSound, CountIsCurrent
    <3>3. thread[u].context # p
      BY <3>1, <3>2 DEF p
    <3>4. current'[thread[u].context] = current[thread[u].context]
      BY <1>1, <1>5, <1>6, <3>2, <3>3 DEF ThreadsTyped
    <3> QED BY <1>3, <3>1, <3>2, <3>4 DEF p
  <2> QED BY <1>9, <2>1 DEF CountIsCurrent
<1>13. NothingStranded'
  <2> SUFFICES ASSUME NEW d \in Contexts, \A u \in Threads : thread'[u].context # d
               PROVE  Quiet(stream'[d])
    BY DEF NothingStranded, Quiet
  <2>1. \A u \in Threads : thread[u].context # d
    BY <1>3 DEF p
  <2>2. d # p
    BY <2>1 DEF p
  <2> QED BY <1>1, <1>7, <2>1, <2>2 DEF ThreadsSound, NothingStranded, Quiet
<1>14. OneSwitches'
  <2>1. ASSUME NEW u \in Threads, thread'[u].pc \in Orders
        PROVE  u = t
    BY <1>3, <1>11, <2>1
  <2>2. \A u \in Threads \ {t} : thread'[u].pc \notin Orders /\ (c # None => thread'[u].context # c)
    BY <1>2, <1>3, <1>11
  <2>3. \A u \in Threads : thread'[u].pc = "destroy" => FALSE
    BY <1>3, <1>11
  <2>4. \A u \in Threads : thread'[u].pc = "switch" => u = t
    BY <1>3, <1>11
  <2> QED BY <1>3, <1>7, <2>1, <2>2, <2>3, <2>4 DEF OneSwitches, Quiet
<1> QED BY <1>7, <1>8, <1>10, <1>12, <1>13, <1>14, PartsAfter DEF ThreadsSound

LEMMA StepSwitchTo ==
  ASSUME SyncsSound, NEW t \in Threads, SwitchTo(t)
  PROVE  SyncsSound'
<1> DEFINE c == thread[t].order
<1>1. /\ CommandsSound /\ ThreadsTyped /\ ThreadsSound
  BY Parts
<1>2. /\ thread[t].pc = "switch" /\ NoCommands
      /\ thread' = [thread EXCEPT ![t].pc = "idle", ![t].context = c, ![t].order = None]
      /\ UNCHANGED <<alive, sync, premature>>
  BY DEF SwitchTo
<1>3. c \in Contexts \cup {None}
  BY <1>1 DEF ThreadsTyped, Thread
<1>4. c = None \/ current[c] => UNCHANGED <<current, count>>
  BY DEF SwitchTo
<1>5. ~(c = None \/ current[c]) => current' = [current EXCEPT ![c] = TRUE] /\ count' = count + 1
  BY DEF SwitchTo
<1> HIDE DEF c
<1>6. /\ thread' \in [Threads -> Thread]
      /\ thread'[t].pc = "idle" /\ thread'[t].order = None /\ thread'[t].context = c
      /\ thread'[t].wait = thread[t].wait
      /\ \A u \in Threads \ {t} : thread'[u] = thread[u]
  <2> DEFINE r == [thread[t] EXCEPT !.pc = "idle", !.context = c, !.order = None]
  <2>1. thread[t] \in Thread
    BY <1>1 DEF ThreadsTyped
  <2>2. /\ r \in Thread /\ r.pc = "idle" /\ r.order = None /\ r.context = c
        /\ r.wait = thread[t].wait
    BY <1>3, <2>1 DEF Thread
  <2>3. thread' = [thread EXCEPT ![t] = r]
    BY <1>2
  <2> HIDE DEF r
  <2> QED BY <1>1, <2>2, <2>3 DEF ThreadsTyped
<1>7. CommandsSound' /\ CommandsStep /\ stream' = stream
  BY <1>1, <1>2, NoCommandsStep DEF NoCommands
<1>8. /\ \A u \in Threads \ {t} : thread[u].pc \notin Orders /\ (c # None => thread[u].context # c)
      /\ thread[t].context \notin {None, c} => Quiet(stream[thread[t].context])
  BY <1>1, <1>2 DEF ThreadsSound, OneSwitches, Orders, c
<1>9. SyncsFollow' /\ FlushPromises' /\ WaitsMatch' /\ SignaledCovers'
  <2>1. \A u \in Threads : /\ thread'[u].pc = "wait" => thread[u].pc = "wait"
                           /\ thread'[u].wait = thread[u].wait
    BY <1>6
  <2>2. ASSUME NEW d \in Contexts, stream[d].serial # 0, NEW u \in Threads, thread[u].context = d
        PROVE  thread'[u].context = d
    <3>1. CASE u # t
      BY <1>6, <2>2, <3>1
    <3>2. CASE u = t
      <4>1. d # None /\ ~Quiet(stream[d])
        BY <2>2, SyncsAssumption DEF Quiet
      <4>2. d = c
        BY <1>8, <2>2, <3>2, <4>1
      <4> QED BY <1>6, <3>2, <4>2
    <3> QED BY <3>1, <3>2
  <2> QED BY <1>2, <1>7, <2>1, <2>2, OrderKeeps
<1>10. /\ current' \in [Contexts -> BOOLEAN] /\ count' = Cardinality({d \in Contexts : current'[d]})
       /\ \A d \in Contexts : current[d] => current'[d]
       /\ c # None => current'[c]
  <2>1. current \in [Contexts -> BOOLEAN] /\ count = Cardinality({d \in Contexts : current[d]})
    BY <1>1 DEF ThreadsTyped, ThreadsSound, CountIsCurrent
  <2>2. CASE c = None \/ current[c]
    BY <1>4, <2>1, <2>2
  <2>3. CASE ~(c = None \/ current[c])
    <3>1. c \in Contexts /\ ~current[c]
      BY <1>3, <2>3
    <3>2. count' = Cardinality({d \in Contexts : current'[d]})
      BY <1>5, <2>1, <2>3, <3>1, NewCurrent
    <3> QED BY <1>5, <2>1, <2>3, <3>1, <3>2
  <2> QED BY <2>2, <2>3
<1>11. ThreadsTyped'
  BY <1>1, <1>2, <1>6, <1>10 DEF ThreadsTyped
<1>12. CountIsCurrent'
  <2>1. ASSUME NEW u \in Threads, thread'[u].context # None, thread'[u].pc # "switch"
        PROVE  /\ current'[thread'[u].context]
               /\ \A v \in Threads : u # v => thread'[v].context # thread'[u].context
    <3>1. CASE u = t
      BY <1>6, <1>8, <1>10, <2>1, <3>1
    <3>2. CASE u # t
      <4>1. /\ current[thread[u].context] /\ thread[u].context \in Contexts
            /\ \A v \in Threads : u # v => thread[v].context # thread[u].context
        BY <1>1, <1>6, <2>1, <3>2 DEF ThreadsTyped, Thread, ThreadsSound, CountIsCurrent
      <4>2. thread[u].context # c
        BY <1>6, <1>8, <2>1, <3>2
      <4> QED BY <1>6, <1>10, <3>2, <4>1, <4>2
    <3> QED BY <3>1, <3>2
  <2> QED BY <1>10, <2>1 DEF CountIsCurrent
<1>13. NothingStranded'
  <2> SUFFICES ASSUME NEW d \in Contexts, \A u \in Threads : thread'[u].context # d
               PROVE  Quiet(stream[d])
    BY <1>7 DEF NothingStranded, Quiet
  <2>1. CASE thread[t].context = d
    BY <1>6, <1>8, <2>1, SyncsAssumption
  <2>2. CASE thread[t].context # d
    <3>1. \A u \in Threads : thread[u].context # d
      BY <1>6, <2>2
    <3> QED BY <1>1, <3>1 DEF ThreadsSound, NothingStranded, Quiet
  <2> QED BY <2>1, <2>2
<1>14. OneSwitches'
  <2>1. \A u \in Threads : thread'[u].pc \notin Orders /\ thread'[u].pc # "switch" /\ thread'[u].pc # "destroy"
    BY <1>6, <1>8 DEF Orders
  <2> QED BY <2>1 DEF OneSwitches
<1> QED BY <1>7, <1>9, <1>11, <1>12, <1>13, <1>14, PartsAfter DEF ThreadsSound

LEMMA StepDestroy ==
  ASSUME SyncsSound, NEW t \in Threads, NEW c \in Contexts, Destroy(t, c)
  PROVE  SyncsSound'
<1>1. /\ CommandsSound /\ ThreadsTyped /\ ThreadsSound
  BY Parts
<1>2. /\ thread[t].pc = "idle" /\ LockFree /\ Flush(c)
      /\ \A u \in Threads \ {t} : thread[u].context # c
      /\ UNCHANGED <<current, alive, count, sync, premature>>
  BY DEF Destroy
<1>3. /\ thread' \in [Threads -> Thread]
      /\ thread'[t].pc = "destroy" /\ thread'[t].order = c
      /\ thread'[t].context = (IF thread[t].context = c THEN None ELSE thread[t].context)
      /\ thread'[t].wait = thread[t].wait
      /\ \A u \in Threads \ {t} : thread'[u] = thread[u]
  <2> DEFINE q == IF thread[t].context = c THEN None ELSE thread[t].context
             r == [thread[t] EXCEPT !.pc = "destroy", !.order = c, !.context = q]
  <2>1. thread[t] \in Thread
    BY <1>1 DEF ThreadsTyped
  <2>2. q \in Contexts \cup {None}
    BY <2>1 DEF Thread
  <2>3. thread' = [thread EXCEPT ![t] = r]
    BY <2>1 DEF Destroy, Thread
  <2> HIDE DEF q
  <2>4. /\ r \in Thread /\ r.pc = "destroy" /\ r.order = c /\ r.context = q
        /\ r.wait = thread[t].wait
    BY <2>1, <2>2 DEF Thread, Orders
  <2> HIDE DEF r
  <2> QED BY <1>1, <2>3, <2>4 DEF ThreadsTyped, q
<1>4. /\ CommandsSound' /\ CommandsStep /\ WillRun(stream[c].serial) /\ Quiet(stream'[c])
      /\ \A d \in Contexts \ {c} : stream'[d] = stream[d]
  BY <1>1, <1>2, FlushStep DEF Quiet
<1>5. c # None
  BY SyncsAssumption
<1>6. SyncsFollow' /\ FlushPromises' /\ WaitsMatch' /\ SignaledCovers'
  <2>1. \A u \in Threads : /\ thread'[u].pc = "wait" => thread[u].pc = "wait"
                           /\ thread'[u].wait = thread[u].wait
    BY <1>3
  <2>2. ASSUME NEW d \in Contexts, NEW u \in Threads, thread[u].context = d
        PROVE  thread'[u].context = d \/ WillRun(stream[d].serial)
    BY <1>3, <1>4, <2>2
  <2> QED BY <1>2, <1>4, <2>1, <2>2, OrderKeeps
<1>7. ThreadsTyped'
  BY <1>1, <1>2, <1>3 DEF ThreadsTyped
<1>8. \A u \in Threads : thread[u].pc \notin Orders /\ thread[u].pc # "switch" /\ thread[u].pc # "destroy"
  BY <1>2, NoOrders
<1>9. CountIsCurrent'
  <2>1. ASSUME NEW u \in Threads, thread'[u].context # None
        PROVE  /\ thread'[u].context = thread[u].context
               /\ current[thread[u].context]
               /\ \A v \in Threads : u # v => thread[v].context # thread[u].context
    BY <1>1, <1>3, <1>8, <2>1 DEF ThreadsSound, CountIsCurrent
  <2>2. ASSUME NEW u \in Threads, NEW v \in Threads, u # v, thread'[u].context # None
        PROVE  thread'[v].context # thread'[u].context
    BY <1>3, <2>1, <2>2
  <2>3. count' = Cardinality({d \in Contexts : current'[d]})
    BY <1>1, <1>2 DEF ThreadsSound, CountIsCurrent
  <2> QED BY <1>2, <2>1, <2>2, <2>3 DEF CountIsCurrent
<1>10. NothingStranded'
  <2> SUFFICES ASSUME NEW d \in Contexts, \A u \in Threads : thread'[u].context # d
               PROVE  Quiet(stream'[d])
    BY DEF NothingStranded, Quiet
  <2>1. CASE d # c
    <3>1. \A u \in Threads : thread[u].context # d
      BY <1>3, <2>1
    <3> QED BY <1>1, <1>4, <2>1, <3>1 DEF ThreadsSound, NothingStranded, Quiet
  <2> QED BY <1>4, <2>1
<1>11. OneSwitches'
  <2>1. \A u \in Threads \ {t} : thread'[u].pc \notin Orders /\ thread'[u].pc # "switch"
                                 /\ thread'[u].pc # "destroy" /\ thread'[u].context # c
    BY <1>2, <1>3, <1>8
  <2> QED BY <1>3, <1>5, <2>1 DEF OneSwitches
<1> QED BY <1>4, <1>6, <1>7, <1>9, <1>10, <1>11, PartsAfter DEF ThreadsSound

LEMMA StepDestroyed ==
  ASSUME SyncsSound, NEW t \in Threads, Destroyed(t)
  PROVE  SyncsSound'
<1> DEFINE c == thread[t].order
<1>1. /\ CommandsSound /\ ThreadsTyped /\ ThreadsSound
  BY Parts
<1>2. /\ thread[t].pc = "destroy" /\ NoCommands
      /\ current' = [current EXCEPT ![c] = FALSE]
      /\ count' = IF current[c] THEN count - 1 ELSE count
      /\ alive' = alive \ {c}
      /\ thread' = [thread EXCEPT ![t].pc = "idle", ![t].order = None]
      /\ UNCHANGED <<sync, premature>>
  BY DEF Destroyed
<1>3. /\ c \in Contexts /\ thread[t].context # c
      /\ \A u \in Threads \ {t} : thread[u].pc \notin Orders /\ thread[u].context # c
  BY <1>1, <1>2 DEF ThreadsTyped, Thread, ThreadsSound, OneSwitches, Orders
<1> HIDE DEF c
<1>4. /\ thread' \in [Threads -> Thread]
      /\ thread'[t].pc = "idle"
      /\ \A u \in Threads : thread'[u].context = thread[u].context /\ thread'[u].wait = thread[u].wait
      /\ \A u \in Threads \ {t} : thread'[u] = thread[u]
  <2> DEFINE r == [thread[t] EXCEPT !.pc = "idle", !.order = None]
  <2>1. thread[t] \in Thread
    BY <1>1 DEF ThreadsTyped
  <2>2. /\ r \in Thread /\ r.pc = "idle" /\ r.context = thread[t].context
        /\ r.wait = thread[t].wait
    BY <2>1 DEF Thread
  <2>3. thread' = [thread EXCEPT ![t] = r]
    BY <1>2
  <2> HIDE DEF r
  <2> QED BY <1>1, <2>2, <2>3 DEF ThreadsTyped
<1>5. CommandsSound' /\ CommandsStep /\ stream' = stream
  BY <1>1, <1>2, NoCommandsStep DEF NoCommands
<1>6. SyncsFollow' /\ FlushPromises' /\ WaitsMatch' /\ SignaledCovers'
  <2>1. \A u \in Threads : thread'[u].pc = "wait" => thread[u].pc = "wait"
    BY <1>4
  <2> QED BY <1>2, <1>4, <1>5, <2>1, OrderKeeps
<1>7. current' \in [Contexts -> BOOLEAN] /\ count' = Cardinality({d \in Contexts : current'[d]})
  <2>1. current \in [Contexts -> BOOLEAN] /\ count = Cardinality({d \in Contexts : current[d]})
    BY <1>1 DEF ThreadsTyped, ThreadsSound, CountIsCurrent
  <2> QED BY <1>2, <1>3, <2>1, NotCurrent
<1>8. ThreadsTyped'
  BY <1>1, <1>2, <1>4, <1>7 DEF ThreadsTyped
<1>9. \A u \in Threads : thread'[u].pc \notin Orders /\ thread'[u].pc # "switch" /\ thread'[u].pc # "destroy"
  BY <1>3, <1>4 DEF Orders
<1>10. CountIsCurrent'
  <2>1. ASSUME NEW u \in Threads, thread[u].context # None
        PROVE  /\ current'[thread[u].context]
               /\ \A v \in Threads : u # v => thread[v].context # thread[u].context
    <3>1. thread[u].pc # "switch" /\ thread[u].context \in Contexts /\ thread[u].context # c
      BY <1>1, <1>2, <1>3, <2>1 DEF ThreadsTyped, Thread, Orders
    <3> QED BY <1>1, <1>2, <2>1, <3>1 DEF ThreadsTyped, ThreadsSound, CountIsCurrent
  <2> QED BY <1>4, <1>7, <2>1 DEF CountIsCurrent
<1>11. NothingStranded'
  BY <1>1, <1>4, <1>5 DEF ThreadsSound, NothingStranded
<1>12. OneSwitches'
  BY <1>9 DEF OneSwitches
<1> QED BY <1>5, <1>6, <1>8, <1>10, <1>11, <1>12, PartsAfter DEF ThreadsSound

-----------------------------------------------------------------------------
LEMMA SyncsInit == Init => SyncsSound
<1> SUFFICES ASSUME Init
             PROVE  SyncsSound
  OBVIOUS
<1>1. NewStream \in Stream /\ NewStream.serial = 0 /\ NewStream.last = 0 /\ NewStream.drawn = 0
      /\ ~NewStream.pass /\ ~NewStream.deferred
  BY SyncsAssumption DEF NewStream, Stream
<1>2. CommandsSound
  <2>1. CommandsTyped
    <3>1. queue = <<>> /\ overtaken = FALSE
      BY DEF Init
    <3>2. work \in [Serials -> {"unused", "recording", "committed", "complete"}]
      BY DEF Init
    <3>3. stream \in [Contexts -> Stream]
      BY <1>1 DEF Init
    <3>4. queue \in Seq(Serials)
      BY <3>1
    <3>5. overtaken \in BOOLEAN
      BY <3>1
    <3> QED BY <3>2, <3>3, <3>4, <3>5 DEF CommandsTyped
  <2>2. StreamsOwn
    BY <1>1 DEF Init, StreamsOwn, Committed, Serials
  <2>3. QueueCommitted
    BY DEF Init, QueueCommitted
  <2> QED BY <2>1, <2>2, <2>3 DEF CommandsSound
<1>3. ThreadsTyped
  <2>1. [context |-> None, pc |-> "idle", order |-> None, wait |-> None] \in Thread
    BY DEF Thread
  <2> QED BY <2>1 DEF Init, ThreadsTyped
<1>4. ThreadsSound
  <2>1. {c \in Contexts : current[c]} = {} /\ Cardinality({}) = 0
    BY FS_EmptySet DEF Init
  <2>2. CountIsCurrent
    BY <2>1 DEF Init, CountIsCurrent
  <2>3. OneSwitches /\ NothingStranded
    BY <1>1 DEF Init, OneSwitches, NothingStranded, Orders
  <2> QED BY <2>2, <2>3 DEF ThreadsSound
<1>5. SyncsFollow /\ FlushPromises /\ WaitsMatch /\ SignaledCovers
  BY DEF Init, SyncsFollow, FlushPromises, WaitsMatch, SignaledCovers
<1> QED BY <1>2, <1>3, <1>4, <1>5, Parts

LEMMA SyncsStutter ==
  ASSUME SyncsSound, UNCHANGED vars
  PROVE  SyncsSound'
<1>1. CommandsSound /\ ThreadsTyped /\ WaitsMatch /\ SignaledCovers
  BY Parts
<1>2. CommandsSound' /\ CommandsStep
  BY <1>1, NoCommandsStep DEF NoCommands, vars
<1>3. CallStep /\ ThreadsTyped' /\ WaitsMatch' /\ SignaledCovers' /\ sync' = sync
  BY <1>1 DEF CallStep, ThreadsTyped, WaitsMatch, SignaledCovers, vars
<1> QED BY <1>2, <1>3, CallKeeps

(* What wmgl_make_current does between other threads' calls, and what       *)
(* glFlush leaves to be committed later, break nothing that a sync, a wait *)
(* or the deferral of glFlush relies on.                                   *)
THEOREM SyncsSoundness == Spec => []SyncsSound
<1>1. SyncsSound /\ [Next]_vars => SyncsSound'
  <2> SUFFICES ASSUME SyncsSound, [Next]_vars
               PROVE  SyncsSound'
    OBVIOUS
  <2>1. ASSUME NEW t \in Threads, NEW c \in Contexts \cup {None}, SwitchFrom(t, c)
        PROVE  SyncsSound'
    BY <2>1, StepSwitchFrom
  <2>2. ASSUME NEW t \in Threads, SwitchTo(t) \/ Destroyed(t) \/ WaitReturns(t) \/ WaitTimesOut(t)
        PROVE  SyncsSound'
    BY <2>2, StepSwitchTo, StepDestroyed, StepWaitReturns, StepWaitTimesOut
  <2>3. ASSUME NEW t \in Threads, NEW c \in Contexts,
               Destroy(t, c) \/ OwnCommit(t, c) \/ GLFlush(t, c) \/ Finish(t, c) \/ FenceSync(t, c)
        PROVE  SyncsSound'
    BY <2>3, StepDestroy, StepOwnCommit, StepGLFlush, StepFinish, StepFenceSync
  <2>4. ASSUME NEW t \in Threads, NEW c \in Contexts, NEW continues \in BOOLEAN, Draw(t, c, continues)
        PROVE  SyncsSound'
    BY <2>4, StepDraw
  <2>5. ASSUME NEW t \in Threads, NEW c \in Contexts, NEW o \in Contexts,
               SyncStatus(t, c, sync[o]) \/ WaitSync(t, c, sync[o])
        PROVE  SyncsSound'
    BY <2>5, StepSyncStatus, StepWaitSync
  <2>6. ASSUME NEW t \in Threads, NEW c \in Contexts, NEW o \in Contexts,
               NEW bit \in BOOLEAN, NEW waits \in BOOLEAN, ClientWait(t, c, sync[o], bit, waits)
        PROVE  SyncsSound'
    BY <2>6, StepClientWait
  <2>7. CASE CompleteOldest
    BY <2>7, StepCompleteOldest
  <2>8. CASE UNCHANGED vars
    BY <2>8, SyncsStutter
  <2> QED BY <2>1, <2>2, <2>3, <2>4, <2>5, <2>6, <2>7, <2>8 DEF Next
<1> QED BY <1>1, SyncsInit, PTL DEF Spec

-----------------------------------------------------------------------------
(* Handles of sync objects, which Syncs knows nothing of (SyncHandles).    *)

Naming == [at : {"name"}, address : Addresses]
Deleting == [at : {"delete", "ask", "release"}, handle : Handles, address : Addresses]

LEMMA HandlesTyped ==
  ASSUME HandlesTypeOK, NEW t \in SyncCallers
  PROVE  /\ during[t] = NotInSync \/ during[t] \in Naming \/ during[t] \in Deleting
         /\ during[t] = NotInSync => ~Holds(t) /\ ~Deletes(t)
         /\ during[t].at = "name" => during[t] \in Naming /\ Holds(t) /\ ~Deletes(t)
         /\ Deletes(t) => /\ during[t] \in Deleting /\ during[t].address \in Addresses
                          /\ during[t].handle \in Handles
         /\ Holds(t) => during[t].address \in Addresses
<1>1. during[t] = NotInSync \/ during[t] \in Naming \/ during[t] \in Deleting
  BY DEF HandlesTypeOK, Naming, Deleting
<1>2. CASE during[t] = NotInSync
  BY <1>2 DEF NotInSync, Holds, Deletes
<1>3. CASE during[t] \in Naming
  BY <1>3 DEF Naming, NotInSync, Holds, Deletes
<1>4. CASE during[t] \in Deleting
  BY <1>4 DEF Deleting, NotInSync, Holds, Deletes
<1> QED
  BY <1>1, <1>2, <1>3, <1>4

LEMMA InitHandles ==
  ASSUME HandlesAssumption, HandlesInit
  PROVE  HandlesIInv
<1>1. HandlesTypeOK
  BY DEF HandlesInit, HandlesTypeOK, HandlesAssumption, NoSync
<1>2. \A t \in SyncCallers : during[t] = NotInSync
  BY DEF HandlesInit
<1>3. \A h \in Handles : given[h] = 0
  BY DEF HandlesInit
<1> QED
  BY <1>1, <1>2, <1>3, HandlesTyped DEF HandlesIInv, OneHolder, GoingOut

(* A new sync object is where there is none, and so where nobody holds one. *)
LEMMA FenceKeeps ==
  ASSUME HandlesAssumption, HandlesIInv, NEW t \in SyncCallers, NEW a \in Addresses, CreateSync(t, a)
  PROVE  HandlesIInv'
<1>1. HandlesTypeOK /\ OneHolder /\ GoingOut
  BY DEF HandlesIInv
<1>2. /\ during[t] = NotInSync /\ objects[a] = 0
      /\ created' = created + 1 /\ objects' = [objects EXCEPT ![a] = created + 1]
      /\ during' = [during EXCEPT ![t] = [at |-> "name", address |-> a]]
      /\ syncs' = syncs /\ given' = given
  BY DEF CreateSync
<1>3. created \in Nat /\ created + 1 # 0 /\ [at |-> "name", address |-> a] \in Naming
  BY <1>1 DEF HandlesTypeOK, Naming
<1>4. /\ objects'[a] # 0 /\ \A b \in Addresses \ {a} : objects'[b] = objects[b]
      /\ during'[t] = [at |-> "name", address |-> a]
      /\ \A u \in SyncCallers \ {t} : during'[u] = during[u]
  BY <1>1, <1>2, <1>3 DEF HandlesTypeOK
<1>5. HandlesTypeOK'
  <2>1. objects' \in [Addresses -> Nat]
    BY <1>1, <1>2, <1>3 DEF HandlesTypeOK
  <2>2. during' \in [SyncCallers -> {NotInSync} \cup Naming \cup Deleting]
    BY <1>1, <1>2, <1>3 DEF HandlesTypeOK, Naming, Deleting
  <2> QED
    BY <1>1, <1>2, <1>3, <2>1, <2>2 DEF HandlesTypeOK, Naming, Deleting
<1>6. \A u \in SyncCallers : Holds(u) => during[u].address \in Addresses /\ during[u].address # a
  BY <1>1, <1>2, HandlesTyped DEF OneHolder
<1>7. \A h \in Handles : given[h] # 0 => syncs[h] \in Addresses /\ syncs[h] # a
  BY <1>1, <1>2 DEF OneHolder, HandlesTypeOK, NoSync
<1>8. /\ Holds(t)' /\ ~Deletes(t)' /\ during'[t].address = a
      /\ \A u \in SyncCallers \ {t} : (Holds(u)' <=> Holds(u)) /\ (Deletes(u)' <=> Deletes(u))
  BY <1>4 DEF Holds, Deletes
<1>9. OneHolder'
  BY <1>1, <1>2, <1>4, <1>6, <1>7, <1>8 DEF OneHolder
<1>10. GoingOut'
  BY <1>1, <1>2, <1>4, <1>8 DEF GoingOut
<1> QED
  BY <1>5, <1>9, <1>10 DEF HandlesIInv

(* The object gets a handle whose slot in the table is free.               *)
LEMMA NameKeeps ==
  ASSUME HandlesAssumption, HandlesIInv, NEW t \in SyncCallers, Name(t)
  PROVE  HandlesIInv'
<1> DEFINE free == {h \in Handles : syncs[h] = NoSync}
           k == CHOOSE f \in free : \A g \in free : f <= g
           a == during[t].address
<1>1. HandlesTypeOK /\ OneHolder /\ GoingOut
  BY DEF HandlesIInv
<1>2. /\ during[t].at = "name" /\ free # {}
      /\ syncs' = [syncs EXCEPT ![k] = a] /\ given' = [given EXCEPT ![k] = objects[a]]
      /\ during' = [during EXCEPT ![t] = NotInSync]
      /\ objects' = objects /\ created' = created
  BY DEF Name
<1>3. k \in free
  <2>1. free \subseteq Nat
    BY DEF Handles
  <2> HIDE DEF free
  <2> QED
    BY <1>2, <2>1, LeastOf
<1>4. k \in Handles /\ syncs[k] = NoSync
  BY <1>3
<1> HIDE DEF k, free
<1>5. Holds(t) /\ ~Deletes(t) /\ a \in Addresses /\ objects[a] # 0 /\ objects[a] \in Nat /\ a # NoSync
  BY <1>1, <1>2, HandlesTyped DEF OneHolder, HandlesTypeOK, HandlesAssumption
<1>6. /\ syncs'[k] = a /\ given'[k] = objects[a]
      /\ \A h \in Handles \ {k} : syncs'[h] = syncs[h] /\ given'[h] = given[h]
      /\ during'[t] = NotInSync /\ \A u \in SyncCallers \ {t} : during'[u] = during[u]
  BY <1>1, <1>2, <1>4 DEF HandlesTypeOK
<1> HIDE DEF a
<1>7. HandlesTypeOK'
  BY <1>1, <1>2, <1>4, <1>5 DEF HandlesTypeOK
<1>8. /\ ~Holds(t)' /\ ~Deletes(t)'
      /\ \A u \in SyncCallers \ {t} : (Holds(u)' <=> Holds(u)) /\ (Deletes(u)' <=> Deletes(u))
  BY <1>6 DEF Holds, Deletes, NotInSync
<1>9. \A h \in Handles : given[h] # 0 => syncs[h] # a
  BY <1>1, <1>5 DEF OneHolder, a
<1>10. \A u \in SyncCallers \ {t} : Holds(u) => during[u].address # a
  BY <1>1, <1>5 DEF OneHolder, a
<1>11. OneHolder'
  BY <1>1, <1>2, <1>5, <1>6, <1>8, <1>9, <1>10 DEF OneHolder
<1>12. \A u \in SyncCallers : Deletes(u) => during[u].handle \in Handles /\ during[u].handle # k
  BY <1>1, <1>4, HandlesTyped DEF GoingOut, HandlesAssumption
<1>13. GoingOut'
  BY <1>1, <1>6, <1>8, <1>12 DEF GoingOut
<1> QED
  BY <1>7, <1>11, <1>13 DEF HandlesIInv

LEMMA DeleteKeeps ==
  ASSUME HandlesAssumption, HandlesIInv, NEW t \in SyncCallers, NEW k \in Handles, Delete(t, k)
  PROVE  HandlesIInv'
<1> DEFINE step == [at |-> "delete", handle |-> k, address |-> syncs[k]]
<1>1. HandlesTypeOK /\ OneHolder /\ GoingOut
  BY DEF HandlesIInv
<1>2. /\ during[t] = NotInSync /\ given[k] # 0 /\ given' = [given EXCEPT ![k] = 0]
      /\ during' = [during EXCEPT ![t] = step]
      /\ syncs' = syncs /\ objects' = objects /\ created' = created
  BY DEF Delete
<1>3. syncs[k] \in Addresses /\ objects[syncs[k]] # 0 /\ step \in Deleting
  BY <1>1, <1>2 DEF OneHolder, HandlesTypeOK, Deleting
<1>4. /\ given'[k] = 0 /\ \A h \in Handles \ {k} : given'[h] = given[h]
      /\ during'[t] = step /\ \A u \in SyncCallers \ {t} : during'[u] = during[u]
  BY <1>1, <1>2 DEF HandlesTypeOK
<1>5. HandlesTypeOK'
  <2>1. during' \in [SyncCallers -> {NotInSync} \cup Naming \cup Deleting]
    BY <1>1, <1>2, <1>3 DEF HandlesTypeOK, Naming, Deleting
  <2> QED
    BY <1>1, <1>2, <2>1 DEF HandlesTypeOK, Naming, Deleting
<1>6. /\ step.at = "delete" /\ step.handle = k /\ step.address = syncs[k]
  OBVIOUS
<1> HIDE DEF step
<1>7. /\ Holds(t)' /\ Deletes(t)'
      /\ \A u \in SyncCallers \ {t} : (Holds(u)' <=> Holds(u)) /\ (Deletes(u)' <=> Deletes(u))
  BY <1>4, <1>6 DEF Holds, Deletes
<1>8. \A u \in SyncCallers \ {t} : Holds(u) => during[u].address # syncs[k]
  BY <1>1, <1>2 DEF OneHolder
<1>9. \A h \in Handles \ {k} : given[h] # 0 => syncs[h] # syncs[k]
  BY <1>1, <1>2 DEF OneHolder
<1>10. OneHolder'
  BY <1>1, <1>2, <1>3, <1>4, <1>6, <1>7, <1>8, <1>9 DEF OneHolder
<1>11. \A u \in SyncCallers \ {t} : Deletes(u) => during[u].handle \in Handles /\ during[u].handle # k
  BY <1>1, <1>2, HandlesTyped DEF GoingOut
<1>12. GoingOut'
  BY <1>1, <1>2, <1>4, <1>6, <1>7, <1>11 DEF GoingOut
<1> QED
  BY <1>5, <1>10, <1>12 DEF HandlesIInv

(* The thread goes on with its deletion, or is done with it.               *)
LEMMA StepMoves ==
  ASSUME HandlesTypeOK, NEW t \in SyncCallers, Deletes(t), NEW p \in {"ask", "release"},
         during' = [during EXCEPT ![t].at = p]
  PROVE  /\ during' \in [SyncCallers -> {NotInSync} \cup Naming \cup Deleting]
         /\ ~Holds(t)' /\ Deletes(t)'
         /\ during'[t].at = p /\ during'[t].handle = during[t].handle
         /\ during'[t].address = during[t].address
         /\ \A u \in SyncCallers \ {t} : during'[u] = during[u]
<1> DEFINE step == during[t]
<1>1. step \in Deleting
  BY HandlesTyped
<1>2. during'[t] = [step EXCEPT !.at = p] /\ \A u \in SyncCallers \ {t} : during'[u] = during[u]
  BY DEF HandlesTypeOK
<1> HIDE DEF step
<1>3. /\ [step EXCEPT !.at = p] \in Deleting /\ [step EXCEPT !.at = p].at = p
      /\ [step EXCEPT !.at = p].handle = step.handle
      /\ [step EXCEPT !.at = p].address = step.address
  BY <1>1 DEF Deleting
<1>4. during' \in [SyncCallers -> {NotInSync} \cup Naming \cup Deleting]
  BY <1>2, <1>3 DEF HandlesTypeOK, Naming, Deleting, step
<1> QED
  BY <1>2, <1>3, <1>4 DEF Holds, Deletes, step

LEMMA DeleteInCoreKeeps ==
  ASSUME HandlesAssumption, HandlesIInv, NEW t \in SyncCallers, DeleteInCore(t)
  PROVE  HandlesIInv'
<1> DEFINE a == during[t].address
<1>1. HandlesTypeOK /\ OneHolder /\ GoingOut
  BY DEF HandlesIInv
<1>2. /\ during[t].at = "delete" /\ objects' = [objects EXCEPT ![a] = 0]
      /\ during' = [during EXCEPT ![t].at = "ask"]
      /\ syncs' = syncs /\ created' = created /\ given' = given
  BY DEF DeleteInCore
<1>3. Holds(t) /\ Deletes(t) /\ a \in Addresses
  BY <1>1, <1>2, HandlesTyped DEF Holds, Deletes
<1>4. /\ during' \in [SyncCallers -> {NotInSync} \cup Naming \cup Deleting]
      /\ ~Holds(t)' /\ Deletes(t)'
      /\ during'[t].handle = during[t].handle /\ during'[t].address = during[t].address
      /\ \A u \in SyncCallers \ {t} : during'[u] = during[u]
  BY <1>1, <1>2, <1>3, StepMoves
<1>5. /\ objects' \in [Addresses -> Nat] /\ \A b \in Addresses \ {a} : objects'[b] = objects[b]
  BY <1>1, <1>2 DEF HandlesTypeOK
<1>6. HandlesTypeOK'
  BY <1>1, <1>2, <1>4, <1>5 DEF HandlesTypeOK, Naming, Deleting
<1>7. \A u \in SyncCallers \ {t} : (Holds(u)' <=> Holds(u)) /\ (Deletes(u)' <=> Deletes(u))
  BY <1>4 DEF Holds, Deletes
<1>8. \A u \in SyncCallers \ {t} : Holds(u) => during[u].address \in Addresses /\ during[u].address # a
  BY <1>1, <1>3, HandlesTyped DEF OneHolder
<1>9. \A h \in Handles : given[h] # 0 => syncs[h] \in Addresses /\ syncs[h] # a
  BY <1>1, <1>3 DEF OneHolder, HandlesTypeOK
<1> HIDE DEF a
<1>10. OneHolder'
  BY <1>1, <1>2, <1>4, <1>5, <1>7, <1>8, <1>9 DEF OneHolder
<1>11. GoingOut'
  BY <1>1, <1>2, <1>3, <1>4, <1>7 DEF GoingOut
<1> QED
  BY <1>6, <1>10, <1>11 DEF HandlesIInv

LEMMA AskKeeps ==
  ASSUME HandlesAssumption, HandlesIInv, NEW t \in SyncCallers, Ask(t)
  PROVE  HandlesIInv'
<1>1. HandlesTypeOK /\ OneHolder /\ GoingOut
  BY DEF HandlesIInv
<1>2. /\ during[t].at = "ask" /\ syncs' = syncs /\ objects' = objects
      /\ created' = created /\ given' = given
      /\ \/ during' = [during EXCEPT ![t].at = "release"]
         \/ during' = [during EXCEPT ![t] = NotInSync]
  BY DEF Ask
<1>3. Deletes(t) /\ ~Holds(t)
  BY <1>2 DEF Deletes, Holds
<1>4. /\ during' \in [SyncCallers -> {NotInSync} \cup Naming \cup Deleting]
      /\ ~Holds(t)' /\ \A u \in SyncCallers \ {t} : during'[u] = during[u]
      /\ Deletes(t)' => /\ during'[t].handle = during[t].handle
                        /\ during'[t].address = during[t].address
  <2>1. CASE during' = [during EXCEPT ![t].at = "release"]
    BY <2>1, <1>1, <1>3, StepMoves
  <2>2. CASE during' = [during EXCEPT ![t] = NotInSync]
    BY <2>2, <1>1 DEF HandlesTypeOK, Naming, Deleting, Holds, Deletes, NotInSync
  <2> QED
    BY <1>2, <2>1, <2>2
<1>5. HandlesTypeOK'
  BY <1>1, <1>2, <1>4 DEF HandlesTypeOK, Naming, Deleting
<1>6. \A u \in SyncCallers \ {t} : (Holds(u)' <=> Holds(u)) /\ (Deletes(u)' <=> Deletes(u))
  BY <1>4 DEF Holds, Deletes
<1>7. OneHolder'
  BY <1>1, <1>2, <1>4, <1>6 DEF OneHolder
<1>8. GoingOut'
  BY <1>1, <1>2, <1>3, <1>4, <1>6 DEF GoingOut
<1> QED
  BY <1>5, <1>7, <1>8 DEF HandlesIInv

(* The slot of the handle is free again: the program has no such handle.   *)
LEMMA ReleaseKeeps ==
  ASSUME HandlesAssumption, HandlesIInv, NEW t \in SyncCallers, Release(t)
  PROVE  HandlesIInv'
<1> DEFINE k == during[t].handle
<1>1. HandlesTypeOK /\ OneHolder /\ GoingOut
  BY DEF HandlesIInv
<1>2. /\ during[t].at = "release" /\ syncs' = [syncs EXCEPT ![k] = NoSync]
      /\ during' = [during EXCEPT ![t] = NotInSync]
      /\ objects' = objects /\ created' = created /\ given' = given
  BY DEF Release
<1>3. Deletes(t) /\ k \in Handles /\ given[k] = 0
  BY <1>1, <1>2, HandlesTyped DEF Deletes, GoingOut
<1>4. \A u \in SyncCallers \ {t} : Deletes(u) => during[u].handle \in Handles /\ during[u].handle # k
  BY <1>1, <1>3, HandlesTyped DEF GoingOut
<1> HIDE DEF k
<1>5. /\ \A h \in Handles \ {k} : syncs'[h] = syncs[h]
      /\ during'[t] = NotInSync /\ \A u \in SyncCallers \ {t} : during'[u] = during[u]
  BY <1>1, <1>2 DEF HandlesTypeOK
<1>6. HandlesTypeOK'
  BY <1>1, <1>2 DEF HandlesTypeOK
<1>7. /\ ~Holds(t)' /\ ~Deletes(t)'
      /\ \A u \in SyncCallers \ {t} : (Holds(u)' <=> Holds(u)) /\ (Deletes(u)' <=> Deletes(u))
  BY <1>5 DEF Holds, Deletes, NotInSync
<1>8. OneHolder'
  BY <1>1, <1>2, <1>3, <1>5, <1>7 DEF OneHolder
<1>9. GoingOut'
  BY <1>1, <1>2, <1>4, <1>5, <1>7 DEF GoingOut
<1> QED
  BY <1>6, <1>8, <1>9 DEF HandlesIInv

LEMMA NextHandles ==
  ASSUME HandlesAssumption, HandlesIInv, [HandlesNext]_handlesVars
  PROVE  HandlesIInv'
<1>1. CASE HandlesNext
  BY <1>1, FenceKeeps, DeleteKeeps, NameKeeps, DeleteInCoreKeeps, AskKeeps, ReleaseKeeps
     DEF HandlesNext
<1>2. CASE UNCHANGED handlesVars
  BY <1>2 DEF handlesVars, HandlesIInv, HandlesTypeOK, OneHolder, GoingOut, Holds, Deletes
<1> QED
  BY <1>1, <1>2

(* Whatever threads make and delete meanwhile, and whatever addresses the  *)
(* core gives again: a handle the program has names the sync object it was *)
(* made for (sync_handle, wow64_manual_glDeleteSync).                      *)
THEOREM HandlesStayExact ==
  ASSUME HandlesAssumption
  PROVE  HandlesSpec => []HandlesExact
<1>1. HandlesInit => HandlesIInv
  BY InitHandles
<1>2. HandlesIInv /\ [HandlesNext]_handlesVars => HandlesIInv'
  BY NextHandles
<1>3. HandlesIInv => HandlesExact
  BY DEF HandlesIInv, OneHolder, HandlesExact
<1> QED
  BY <1>1, <1>2, <1>3, PTL DEF HandlesSpec

-----------------------------------------------------------------------------
(***************************************************************************)
(* Low memory.  A piece's pages and its chunk's bits are kept together by  *)
(* MemoryIInv, of which StorageRight is what allocation and release are    *)
(* about and StringsRight what the copies of strings are.                  *)
(***************************************************************************)

(* Sizes in pages. *)
LEMMA DivIs ==
  ASSUME NEW n \in Nat, NEW k \in Nat \ {0}
  PROVE  n \div k \in Nat /\ n < k * (n \div k) + k /\ k * (n \div k) <= n
OBVIOUS

LEMMA PagesAre ==
  ASSUME MemoryAssumption, NEW size \in Nat \ {0}
  PROVE  /\ Pages(size) \in Nat /\ Pages(size) >= 1
         /\ PageUnits * Pages(size) <= size + PageUnits - 1
<1>1. /\ PageUnits \in Nat \ {0} /\ size + PageUnits - 1 \in Nat
      /\ size + PageUnits - 1 >= PageUnits
  BY DEF MemoryAssumption
<1> DEFINE n == size + PageUnits - 1
           q == n \div PageUnits
<1>2. q \in Nat /\ n < PageUnits * q + PageUnits /\ PageUnits * q <= n
  BY <1>1, DivIs
<1>3. q # 0
  <2> HIDE DEF q
  <2>1. ASSUME q = 0 PROVE FALSE
    <3>1. PageUnits * q = 0
      BY <2>1, <1>1
    <3> QED
      BY <1>1, <1>2, <3>1
  <2> QED
    BY <2>1
<1> QED
  BY <1>2, <1>3 DEF Pages

LEMMA SmallFits ==
  ASSUME MemoryAssumption, NEW size \in Nat \ {0}, ~Large(size)
  PROVE  Pages(size) <= ChunkPages
<1>1. /\ PageUnits \in Nat \ {0} /\ ChunkPages \in Nat
  BY DEF MemoryAssumption
<1> DEFINE q == Pages(size)
<1>2. q \in Nat /\ PageUnits * q <= size + PageUnits - 1
  BY PagesAre
<1> HIDE DEF q
<1> SUFFICES ASSUME q >= ChunkPages + 1
             PROVE  FALSE
  BY <1>1, <1>2 DEF q
<1>3. PageUnits * q >= PageUnits * (ChunkPages + 1)
  BY <1>1, <1>2
<1>4. PageUnits * (ChunkPages + 1) = PageUnits * ChunkPages + PageUnits
  BY <1>1
<1>5. PageUnits * ChunkPages = ChunkPages * PageUnits /\ ChunkPages * PageUnits \in Nat
  BY <1>1
<1>6. ~(2 * size > ChunkPages * PageUnits)
  BY DEF Large
<1> QED
  BY <1>1, <1>2, <1>3, <1>4, <1>5, <1>6

(* A chunk goes in front of the others, or is taken out.                   *)
LEMMA Prepended ==
  ASSUME NEW S, NEW s \in Seq(S), NEW c \in S
  PROVE  LET t == <<c>> \o s
         IN  /\ t \in Seq(S) /\ DOMAIN t = 1 .. Len(s) + 1 /\ t[1] = c
             /\ \A i \in 1 .. Len(s) : t[i + 1] = s[i]
<1>1. <<c>> \in Seq(S) /\ Len(<<c>>) = 1 /\ <<c>>[1] = c /\ Len(s) \in Nat
  OBVIOUS
<1> QED
  BY <1>1, ConcatProperties

Without(s, c) == SubSeq(s, 1, c - 1) \o SubSeq(s, c + 1, Len(s))
LEMMA Removed ==
  ASSUME NEW S, NEW s \in Seq(S), NEW c \in 1 .. Len(s)
  PROVE  /\ Without(s, c) \in Seq(S) /\ DOMAIN Without(s, c) = 1 .. Len(s) - 1
         /\ \A i \in 1 .. Len(s) - 1 : Without(s, c)[i] = s[IF i < c THEN i ELSE i + 1]
<1> DEFINE a == SubSeq(s, 1, c - 1)
           b == SubSeq(s, c + 1, Len(s))
<1>1. Len(s) \in Nat /\ c \in Nat /\ c >= 1 /\ c <= Len(s)
  OBVIOUS
<1>2. a \in Seq(S) /\ Len(a) = c - 1 /\ \A i \in 1 .. c - 1 : a[i] = s[i]
  BY <1>1, SubSeqProperties
<1>3. b \in Seq(S) /\ Len(b) = Len(s) - c /\ \A i \in 1 .. Len(s) - c : b[i] = s[c + i]
  BY <1>1, SubSeqProperties
<1> HIDE DEF a, b
<1>4. /\ a \o b \in Seq(S) /\ Len(a \o b) = Len(s) - 1
      /\ \A i \in 1 .. Len(s) - 1 : (a \o b)[i] = IF i <= c - 1 THEN a[i] ELSE b[i - (c - 1)]
  <2>1. /\ a \o b \in Seq(S) /\ Len(a \o b) = Len(a) + Len(b)
        /\ \A i \in 1 .. Len(a) + Len(b) : (a \o b)[i] = IF i <= Len(a) THEN a[i] ELSE b[i - Len(a)]
    BY <1>2, <1>3, ConcatProperties
  <2>2. Len(a) + Len(b) = Len(s) - 1
    BY <1>1, <1>2, <1>3
  <2> QED
    BY <1>2, <2>1, <2>2
<1>5. ASSUME NEW i \in 1 .. Len(s) - 1
      PROVE  (a \o b)[i] = s[IF i < c THEN i ELSE i + 1]
  <2>1. CASE i < c
    BY <2>1, <1>1, <1>2, <1>4
  <2>2. CASE ~(i < c)
    <3>1. i - (c - 1) \in 1 .. Len(s) - c /\ c + (i - (c - 1)) = i + 1
      BY <2>2, <1>1
    <3> QED
      BY <2>2, <3>1, <1>1, <1>3, <1>4
  <2> QED
    BY <2>1, <2>2
<1>6. DOMAIN (a \o b) = 1 .. Len(a \o b)
  BY <1>4
<1>7. Without(s, c) = a \o b
  BY DEF Without, a, b
<1> QED
  BY <1>4, <1>5, <1>6, <1>7

(* What an allocation and a release find and leave of the memory.          *)
StorageTyped == storage \subseteq Piece /\ reserved \subseteq 1 .. Room /\ chunks \in Seq(Chunk)
StorageRight == StorageTyped /\ PiecesApart /\ ReservedRight

LEMMA ChunksTyped ==
  ASSUME StorageTyped
  PROVE  /\ Len(chunks) \in Nat /\ DOMAIN chunks = 1 .. Len(chunks)
         /\ \A i \in DOMAIN chunks : /\ chunks[i] \in Chunk /\ chunks[i].base \in 1 .. Room
                                     /\ chunks[i].used \in SUBSET Nat
<1>1. /\ Len(chunks) \in Nat /\ DOMAIN chunks = 1 .. Len(chunks)
      /\ \A i \in DOMAIN chunks : chunks[i] \in Chunk
  BY DEF StorageTyped
<1>2. \A c \in Chunk : c.base \in 1 .. Room /\ c.used \in SUBSET Nat
  BY DEF Chunk
<1> QED
  BY <1>1, <1>2

LEMMA UsedPages ==
  ASSUME PiecesApart, NEW i \in DOMAIN chunks
  PROVE  \A x : x \in chunks[i].used <=>
                  \E p \in storage : p.base = chunks[i].base /\ x \in PagesOf(p)
BY DEF PiecesApart

LEMMA PieceHasPages ==
  ASSUME MemoryAssumption, NEW p \in Piece
  PROVE  p.first \in PagesOf(p) /\ PagesOf(p) \subseteq Nat
<1>1. p.first \in Nat /\ p.size \in Nat \ {0}
  BY DEF Piece
<1>2. Pages(p.size) \in Nat /\ Pages(p.size) >= 1
  BY <1>1, PagesAre
<1> QED
  BY <1>1, <1>2 DEF PagesOf

(* A piece in a reservation nothing else is in.                            *)
LEMMA LargeKeeps ==
  ASSUME MemoryAssumption, StorageRight, NEW piece \in Piece,
         Large(piece.size), piece.base \notin reserved,
         storage' = storage \cup {piece}, reserved' = reserved \cup {piece.base}, chunks' = chunks
  PROVE  StorageRight' /\ piece \notin storage
<1>1. StorageTyped /\ PiecesApart /\ ReservedRight
  BY DEF StorageRight
<1>2. /\ \A p \in storage : p.base # piece.base
      /\ \A i \in DOMAIN chunks : chunks[i].base # piece.base
  BY <1>1 DEF PiecesApart, ReservedRight
<1>3. StorageTyped'
  BY <1>1 DEF StorageTyped, Piece
<1>4. PiecesApart'
  <2>1. \A i \in DOMAIN chunks :
          {q \in storage' : q.base = chunks[i].base} = {q \in storage : q.base = chunks[i].base}
    BY <1>2
  <2> QED
    BY <1>1, <1>2, <2>1 DEF PiecesApart, PagesOf
<1>5. ReservedRight'
  BY <1>1, <1>2 DEF ReservedRight, IsChunk
<1> QED
  BY <1>2, <1>3, <1>4, <1>5 DEF StorageRight

(* A piece in free pages of a chunk.                                       *)
LEMMA InChunkKeeps ==
  ASSUME MemoryAssumption, StorageRight, NEW piece \in Piece, NEW i \in DOMAIN chunks,
         ~Large(piece.size), piece.base = chunks[i].base, PagesOf(piece) \cap chunks[i].used = {},
         storage' = storage \cup {piece}, reserved' = reserved,
         chunks' = [chunks EXCEPT ![i].used = @ \cup PagesOf(piece)]
  PROVE  StorageRight' /\ piece \notin storage
<1>1. StorageTyped /\ PiecesApart /\ ReservedRight
  BY DEF StorageRight
<1>2. /\ Len(chunks) \in Nat /\ DOMAIN chunks = 1 .. Len(chunks)
      /\ \A j \in DOMAIN chunks : chunks[j] \in Chunk
  BY <1>1, ChunksTyped
<1>3. piece.first \in PagesOf(piece) /\ PagesOf(piece) \subseteq Nat
  BY PieceHasPages
<1>4. [chunks[i] EXCEPT !.used = @ \cup PagesOf(piece)] \in Chunk
  BY <1>2, <1>3 DEF Chunk
<1>5. /\ chunks' \in Seq(Chunk) /\ DOMAIN chunks' = DOMAIN chunks
      /\ chunks'[i] = [chunks[i] EXCEPT !.used = @ \cup PagesOf(piece)]
      /\ \A j \in DOMAIN chunks \ {i} : chunks'[j] = chunks[j]
  BY <1>1, <1>2, <1>4 DEF StorageTyped
<1>6. /\ \A j \in DOMAIN chunks : chunks'[j].base = chunks[j].base
      /\ chunks'[i].used = chunks[i].used \cup PagesOf(piece)
      /\ \A j \in DOMAIN chunks \ {i} : chunks'[j].used = chunks[j].used
  BY <1>2, <1>5 DEF Chunk
<1>7. \A p \in storage : p.base = piece.base => PagesOf(p) \cap PagesOf(piece) = {}
  BY <1>1, UsedPages
<1>8. piece \notin storage
  BY <1>3, <1>7
<1>9. StorageTyped'
  BY <1>1, <1>5 DEF StorageTyped
<1>10. PiecesApart'
  <2>1. \A p, q \in storage' : p # q /\ p.base = q.base => PagesOf(p) \cap PagesOf(q) = {}
    BY <1>1, <1>7 DEF PiecesApart
  <2>2. \A p \in storage' : p.base \in reserved
    BY <1>1 DEF PiecesApart, ReservedRight
  <2>3. ASSUME NEW j \in DOMAIN chunks
        PROVE  chunks'[j].used = UNION {PagesOf(p) : p \in {q \in storage' : q.base = chunks'[j].base}}
    <3>1. CASE j = i
      <4>1. \A x : x \in chunks[i].used <=>
                     \E p \in storage : p.base = chunks[i].base /\ x \in PagesOf(p)
        BY <1>1, UsedPages
      <4>2. \A x : x \in chunks'[i].used <=>
                     \E p \in storage' : p.base = chunks'[i].base /\ x \in PagesOf(p)
        BY <1>6, <4>1
      <4>3. chunks'[i].used = UNION {PagesOf(p) : p \in {q \in storage' : q.base = chunks'[i].base}}
        <5>1. \A x : x \in UNION {PagesOf(p) : p \in {q \in storage' : q.base = chunks'[i].base}} <=>
                       \E p \in storage' : p.base = chunks'[i].base /\ x \in PagesOf(p)
          OBVIOUS
        <5> QED
          BY <5>1, <4>2
      <4> QED
        BY <3>1, <4>3, Zenon
    <3>2. CASE j # i
      <4>1. chunks[j].base # piece.base
        BY <3>2, <1>1 DEF ReservedRight
      <4>2. {q \in storage' : q.base = chunks'[j].base} = {q \in storage : q.base = chunks[j].base}
        BY <1>6, <4>1
      <4>3. chunks[j].used = UNION {PagesOf(p) : p \in {q \in storage : q.base = chunks[j].base}}
        BY <1>1 DEF PiecesApart
      <4> QED
        BY <3>2, <1>6, <4>2, <4>3
    <3> QED
      BY <3>1, <3>2
  <2>4. \A p : PagesOf(p)' = PagesOf(p)
    BY DEF PagesOf
  <2> QED
    BY <1>5, <2>1, <2>2, <2>3 DEF PiecesApart, PagesOf
<1>11. ReservedRight'
  <2>1. \A b : IsChunk(b)' <=> IsChunk(b)
    BY <1>5, <1>6 DEF IsChunk
  <2>2. \A j \in DOMAIN chunks : j # 1 => chunks'[j].used # {}
    BY <1>1, <1>3, <1>6 DEF ReservedRight
  <2>3. IsChunk(piece.base)
    BY DEF IsChunk
  <2>4. \A p, q \in storage' : Large(p.size) /\ p.base = q.base => p = q
    BY <1>1, <2>3 DEF ReservedRight
  <2>5. \A p \in storage' : IsChunk(p.base) <=> ~Large(p.size)
    BY <1>1, <2>3 DEF ReservedRight
  <2>6. \A b \in reserved : IsChunk(b) \/ \E p \in storage' : p.base = b
    BY <1>1 DEF ReservedRight
  <2>7. /\ \A j, k \in DOMAIN chunks' : chunks'[j].base = chunks'[k].base => j = k
        /\ \A j \in DOMAIN chunks' : chunks'[j].base \in reserved
    BY <1>1, <1>5, <1>6 DEF ReservedRight
  <2> QED
    BY <1>5, <2>1, <2>2, <2>4, <2>5, <2>6, <2>7 DEF ReservedRight, Large
<1> QED
  BY <1>8, <1>9, <1>10, <1>11 DEF StorageRight

(* A piece in a new chunk, as no chunk has room for it: none is empty.     *)
LEMMA NewChunkKeeps ==
  ASSUME MemoryAssumption, StorageRight, NEW piece \in Piece,
         ~Large(piece.size), piece.base \notin reserved, piece.first = 0,
         Roomy(Pages(piece.size)) = {},
         storage' = storage \cup {piece}, reserved' = reserved \cup {piece.base},
         chunks' = <<[base |-> piece.base, used |-> PagesOf(piece)]>> \o chunks
  PROVE  StorageRight' /\ piece \notin storage
<1> DEFINE new == [base |-> piece.base, used |-> PagesOf(piece)]
           l == Len(chunks)
<1>1. StorageTyped /\ PiecesApart /\ ReservedRight
  BY DEF StorageRight
<1>2. /\ l \in Nat /\ DOMAIN chunks = 1 .. l
      /\ \A j \in DOMAIN chunks : chunks[j] \in Chunk
  BY <1>1, ChunksTyped
<1>3. /\ piece.first \in PagesOf(piece) /\ PagesOf(piece) \subseteq Nat
      /\ piece.base \in 1 .. Room /\ piece.size \in Nat \ {0}
  BY PieceHasPages DEF Piece
<1>4. new \in Chunk /\ new.base = piece.base /\ new.used = PagesOf(piece)
  BY <1>3 DEF Chunk
<1> HIDE DEF new
<1>5. /\ chunks' \in Seq(Chunk) /\ DOMAIN chunks' = 1 .. l + 1 /\ chunks'[1] = new
      /\ \A i \in 1 .. l : chunks'[i + 1] = chunks[i]
  <2>1. chunks \in Seq(Chunk) /\ chunks' = <<new>> \o chunks
    BY <1>1 DEF StorageTyped, new
  <2> QED
    BY <1>4, <2>1, Prepended
<1> HIDE DEF l
<1>6. ASSUME NEW i \in DOMAIN chunks'
      PROVE  i = 1 \/ \E j \in 1 .. l : i = j + 1
  <2>1. i = 1 \/ (i - 1 \in 1 .. l /\ i = (i - 1) + 1)
    BY <1>2, <1>5
  <2> QED
    BY <2>1
<1>7. /\ \A p \in storage : p.base # piece.base
      /\ \A i \in DOMAIN chunks : chunks[i].base # piece.base
  BY <1>1 DEF PiecesApart, ReservedRight
<1>8. StorageTyped'
  BY <1>1, <1>3, <1>5 DEF StorageTyped
<1>9. PiecesApart'
  <2>1. \A p, q \in storage' : p # q /\ p.base = q.base => PagesOf(p) \cap PagesOf(q) = {}
    BY <1>1, <1>7 DEF PiecesApart
  <2>2. \A p \in storage' : p.base \in reserved'
    BY <1>1 DEF PiecesApart
  <2>3. ASSUME NEW i \in DOMAIN chunks'
        PROVE  chunks'[i].used = UNION {PagesOf(p) : p \in {q \in storage' : q.base = chunks'[i].base}}
    <3>1. CASE i = 1
      <4>1. {q \in storage' : q.base = chunks'[i].base} = {piece}
        BY <3>1, <1>4, <1>5, <1>7
      <4>2. chunks'[i].used = PagesOf(piece)
        BY <3>1, <1>4, <1>5
      <4> QED
        BY <4>1, <4>2
    <3>2. ASSUME NEW j \in 1 .. l, i = j + 1
          PROVE  chunks'[i].used = UNION {PagesOf(p) : p \in {q \in storage' : q.base = chunks'[i].base}}
      <4>1. chunks'[i] = chunks[j]
        BY <3>2, <1>5
      <4>2. {q \in storage' : q.base = chunks'[i].base} = {q \in storage : q.base = chunks[j].base}
        BY <4>1, <1>2, <1>7
      <4>3. chunks[j].used = UNION {PagesOf(p) : p \in {q \in storage : q.base = chunks[j].base}}
        BY <1>1, <1>2 DEF PiecesApart
      <4> QED
        BY <4>1, <4>2, <4>3
    <3> QED
      BY <1>6, <3>1, <3>2
  <2> QED
    BY <2>1, <2>2, <2>3 DEF PiecesApart, PagesOf
<1>10. \A i \in DOMAIN chunks : chunks[i].used # {}
  <2> SUFFICES ASSUME NEW i \in DOMAIN chunks, chunks[i].used = {}
               PROVE  FALSE
    OBVIOUS
  <2>1. Pages(piece.size) \in Nat /\ Pages(piece.size) <= ChunkPages /\ ChunkPages \in Nat
    BY <1>3, PagesAre, SmallFits DEF MemoryAssumption
  <2>2. 0 \in Runs(chunks[i], Pages(piece.size))
    BY <2>1 DEF Runs
  <2> QED
    BY <2>2 DEF Roomy
<1>11. ReservedRight'
  <2>1. \A b : IsChunk(b)' <=> b = piece.base \/ IsChunk(b)
    <3> SUFFICES ASSUME NEW b
                 PROVE  IsChunk(b)' <=> b = piece.base \/ IsChunk(b)
      OBVIOUS
    <3>1. ASSUME IsChunk(b)' PROVE b = piece.base \/ IsChunk(b)
      <4>1. PICK i \in DOMAIN chunks' : chunks'[i].base = b
        BY <3>1 DEF IsChunk
      <4> QED
        BY <4>1, <1>2, <1>4, <1>5, <1>6 DEF IsChunk
    <3>2. ASSUME b = piece.base PROVE IsChunk(b)'
      <4>1. 1 \in DOMAIN chunks'
        BY <1>2, <1>5
      <4> QED
        BY <3>2, <4>1, <1>4, <1>5 DEF IsChunk
    <3>3. ASSUME IsChunk(b) PROVE IsChunk(b)'
      <4>1. PICK j \in 1 .. l : chunks[j].base = b
        BY <3>3, <1>2 DEF IsChunk
      <4>2. j + 1 \in DOMAIN chunks'
        BY <1>2, <1>5
      <4> QED
        BY <4>1, <4>2, <1>5 DEF IsChunk
    <3> QED
      BY <3>1, <3>2, <3>3
  <2>2. ASSUME NEW i \in DOMAIN chunks'
        PROVE  chunks'[i].base \in reserved' /\ (i # 1 => chunks'[i].used # {})
    <3>1. CASE i = 1
      BY <3>1, <1>4, <1>5
    <3>2. ASSUME NEW j \in 1 .. l, i = j + 1
          PROVE  chunks'[i].base \in reserved' /\ chunks'[i].used # {}
      BY <3>2, <1>1, <1>2, <1>5, <1>10 DEF ReservedRight
    <3> QED
      BY <1>6, <3>1, <3>2
  <2>3. ASSUME NEW i \in DOMAIN chunks', NEW j \in DOMAIN chunks', chunks'[i].base = chunks'[j].base
        PROVE  i = j
    <3>1. \A k \in 1 .. l : chunks'[k + 1].base # piece.base
      BY <1>2, <1>5, <1>7
    <3>2. CASE i = 1 \/ j = 1
      BY <2>3, <3>1, <3>2, <1>4, <1>5, <1>6
    <3>3. ASSUME NEW k \in 1 .. l, NEW m \in 1 .. l, i = k + 1, j = m + 1
          PROVE  k = m
      <4>1. chunks'[i] = chunks[k] /\ chunks'[j] = chunks[m]
        BY <3>3, <1>5
      <4>2. chunks[k].base = chunks[m].base /\ k \in DOMAIN chunks /\ m \in DOMAIN chunks
        BY <2>3, <4>1, <1>2
      <4> QED
        BY <4>2, <1>1 DEF ReservedRight
    <3> QED
      BY <1>6, <3>2, <3>3
  <2>4. \A p \in storage' : IsChunk(p.base)' <=> ~Large(p.size)
    BY <1>1, <1>7, <2>1 DEF ReservedRight
  <2>5. \A p, q \in storage' : Large(p.size) /\ p.base = q.base => p = q
    BY <1>1, <1>7 DEF ReservedRight
  <2>6. \A b \in reserved' : IsChunk(b)' \/ \E p \in storage' : p.base = b
    BY <1>1, <2>1 DEF ReservedRight
  <2> QED
    BY <2>2, <2>3, <2>4, <2>5, <2>6 DEF ReservedRight, Large
<1> QED
  BY <1>7, <1>8, <1>9, <1>11 DEF StorageRight

(* A large piece goes with its reservation.                                *)
LEMMA FreeLargeKeeps ==
  ASSUME StorageRight, NEW piece \in storage, Large(piece.size),
         storage' = storage \ {piece}, reserved' = reserved \ {piece.base}, chunks' = chunks
  PROVE  StorageRight'
<1>1. StorageTyped /\ PiecesApart /\ ReservedRight
  BY DEF StorageRight
<1>2. /\ \A p \in storage' : p.base # piece.base
      /\ \A i \in DOMAIN chunks : chunks[i].base # piece.base
  BY <1>1 DEF ReservedRight, IsChunk
<1>3. StorageTyped'
  BY <1>1 DEF StorageTyped
<1>4. PiecesApart'
  <2>1. \A i \in DOMAIN chunks :
          {q \in storage' : q.base = chunks[i].base} = {q \in storage : q.base = chunks[i].base}
    BY <1>2
  <2> QED
    BY <1>1, <1>2, <2>1 DEF PiecesApart, PagesOf
<1>5. ReservedRight'
  BY <1>1, <1>2 DEF ReservedRight, IsChunk, Large
<1> QED
  BY <1>3, <1>4, <1>5 DEF StorageRight

(* What is used of a chunk once a piece of it is free.                     *)
LEMMA StillUsed ==
  ASSUME StorageRight, NEW piece \in storage, NEW i \in DOMAIN chunks, chunks[i].base = piece.base
  PROVE  \A x : x \in chunks[i].used \ PagesOf(piece) <=>
                  \E p \in storage \ {piece} : p.base = piece.base /\ x \in PagesOf(p)
<1>1. PiecesApart
  BY DEF StorageRight
<1>2. \A x : x \in chunks[i].used <=>
               \E p \in storage : p.base = piece.base /\ x \in PagesOf(p)
  BY <1>1, UsedPages
<1>3. \A p \in storage \ {piece} : p.base = piece.base => PagesOf(p) \cap PagesOf(piece) = {}
  BY <1>1 DEF PiecesApart
<1> QED
  BY <1>2, <1>3

(* Pages of a chunk are free again; the chunk stays.                       *)
LEMMA FreePagesKeeps ==
  ASSUME MemoryAssumption, StorageRight, NEW piece \in storage, ~Large(piece.size),
         NEW c \in DOMAIN chunks, chunks[c].base = piece.base,
         c = 1 \/ chunks[c].used \ PagesOf(piece) # {},
         storage' = storage \ {piece}, reserved' = reserved,
         chunks' = [chunks EXCEPT ![c].used = chunks[c].used \ PagesOf(piece)]
  PROVE  StorageRight'
<1> DEFINE used == chunks[c].used \ PagesOf(piece)
<1>1. StorageTyped /\ PiecesApart /\ ReservedRight
  BY DEF StorageRight
<1>2. /\ Len(chunks) \in Nat /\ DOMAIN chunks = 1 .. Len(chunks)
      /\ \A j \in DOMAIN chunks : chunks[j] \in Chunk /\ chunks[j].used \in SUBSET Nat
  BY <1>1, ChunksTyped
<1>3. [chunks[c] EXCEPT !.used = used] \in Chunk
  BY <1>2 DEF Chunk
<1>4. /\ chunks' \in Seq(Chunk) /\ DOMAIN chunks' = DOMAIN chunks
      /\ chunks'[c] = [chunks[c] EXCEPT !.used = used]
      /\ \A j \in DOMAIN chunks \ {c} : chunks'[j] = chunks[j]
  BY <1>1, <1>2, <1>3 DEF StorageTyped
<1>5. /\ \A j \in DOMAIN chunks : chunks'[j].base = chunks[j].base
      /\ chunks'[c].used = used
      /\ \A j \in DOMAIN chunks \ {c} : chunks'[j].used = chunks[j].used
  BY <1>2, <1>4 DEF Chunk
<1>6. \A x : x \in used <=> \E p \in storage' : p.base = piece.base /\ x \in PagesOf(p)
  BY StillUsed
<1> HIDE DEF used
<1>7. StorageTyped'
  BY <1>1, <1>4 DEF StorageTyped
<1>8. PiecesApart'
  <2>1. /\ \A p, q \in storage' : p # q /\ p.base = q.base => PagesOf(p) \cap PagesOf(q) = {}
        /\ \A p \in storage' : p.base \in reserved
    BY <1>1 DEF PiecesApart
  <2>2. ASSUME NEW j \in DOMAIN chunks
        PROVE  chunks'[j].used = UNION {PagesOf(p) : p \in {q \in storage' : q.base = chunks'[j].base}}
    <3>1. CASE j = c
      <4>1. \A x : x \in UNION {PagesOf(p) : p \in {q \in storage' : q.base = piece.base}} <=>
                     \E p \in storage' : p.base = piece.base /\ x \in PagesOf(p)
        OBVIOUS
      <4>2. used = UNION {PagesOf(p) : p \in {q \in storage' : q.base = piece.base}}
        BY <1>6, <4>1
      <4>3. chunks'[c].base = piece.base
        BY <1>5
      <4> QED
        BY <3>1, <1>5, <4>2, <4>3, Zenon
    <3>2. CASE j # c
      <4>1. chunks[j].base # piece.base
        BY <3>2, <1>1 DEF ReservedRight
      <4>2. {q \in storage' : q.base = chunks'[j].base} = {q \in storage : q.base = chunks[j].base}
        BY <1>5, <4>1
      <4>3. chunks[j].used = UNION {PagesOf(p) : p \in {q \in storage : q.base = chunks[j].base}}
        BY <1>1 DEF PiecesApart
      <4> QED
        BY <3>2, <1>5, <4>2, <4>3
    <3> QED
      BY <3>1, <3>2
  <2> QED
    BY <1>4, <2>1, <2>2 DEF PiecesApart, PagesOf
<1>9. ReservedRight'
  <2>1. \A b : IsChunk(b)' <=> IsChunk(b)
    BY <1>4, <1>5 DEF IsChunk
  <2>2. \A j \in DOMAIN chunks : j # 1 => chunks'[j].used # {}
    BY <1>1, <1>5 DEF ReservedRight, used
  <2>3. IsChunk(piece.base)
    BY DEF IsChunk
  <2>4. /\ \A p, q \in storage' : Large(p.size) /\ p.base = q.base => p = q
        /\ \A p \in storage' : IsChunk(p.base) <=> ~Large(p.size)
    BY <1>1 DEF ReservedRight
  <2>5. \A b \in reserved : IsChunk(b) \/ \E p \in storage' : p.base = b
    BY <1>1, <2>3 DEF ReservedRight
  <2>6. /\ \A j, k \in DOMAIN chunks' : chunks'[j].base = chunks'[k].base => j = k
        /\ \A j \in DOMAIN chunks' : chunks'[j].base \in reserved
    BY <1>1, <1>4, <1>5 DEF ReservedRight
  <2> QED
    BY <1>4, <2>1, <2>2, <2>4, <2>5, <2>6 DEF ReservedRight, Large
<1> QED
  BY <1>7, <1>8, <1>9 DEF StorageRight

(* The chunk of the piece is empty, and released.                          *)
LEMMA FreeChunkKeeps ==
  ASSUME MemoryAssumption, StorageRight, NEW piece \in storage, ~Large(piece.size),
         NEW c \in DOMAIN chunks, chunks[c].base = piece.base,
         c # 1, chunks[c].used \ PagesOf(piece) = {},
         storage' = storage \ {piece}, reserved' = reserved \ {piece.base},
         chunks' = Without(chunks, c)
  PROVE  StorageRight'
<1> DEFINE l == Len(chunks)
           At(i) == IF i < c THEN i ELSE i + 1
<1>1. StorageTyped /\ PiecesApart /\ ReservedRight
  BY DEF StorageRight
<1>2. /\ l \in Nat /\ DOMAIN chunks = 1 .. l /\ c \in 1 .. l /\ chunks \in Seq(Chunk)
      /\ \A j \in DOMAIN chunks : chunks[j] \in Chunk
  BY <1>1, ChunksTyped DEF StorageTyped
<1>3. /\ chunks' \in Seq(Chunk) /\ DOMAIN chunks' = 1 .. l - 1
      /\ \A i \in 1 .. l - 1 : chunks'[i] = chunks[At(i)]
  BY <1>2, Removed
<1> HIDE DEF l
<1>4. /\ \A i \in 1 .. l - 1 : At(i) \in 1 .. l /\ At(i) # c /\ (i # 1 => At(i) # 1)
      /\ \A i, j \in 1 .. l - 1 : At(i) = At(j) => i = j
  BY <1>2
<1>5. \A k \in 1 .. l \ {c} : \E i \in 1 .. l - 1 : At(i) = k
  <2> SUFFICES ASSUME NEW k \in 1 .. l, k # c
               PROVE  \E i \in 1 .. l - 1 : At(i) = k
    OBVIOUS
  <2>1. CASE k < c
    <3>1. k \in 1 .. l - 1 /\ At(k) = k
      BY <2>1, <1>2
    <3> QED
      BY <3>1
  <2>2. CASE k > c
    <3>1. k - 1 \in 1 .. l - 1 /\ At(k - 1) = k
      BY <2>2, <1>2
    <3> QED
      BY <3>1
  <2> QED
    BY <2>1, <2>2, <1>2
<1> HIDE DEF At
<1>6. \A i \in 1 .. l - 1 : chunks'[i].base # piece.base
  BY <1>1, <1>2, <1>3, <1>4 DEF ReservedRight
<1>7. \A p \in storage' : p.base # piece.base
  <2> SUFFICES ASSUME NEW p \in storage \ {piece}, p.base = piece.base
               PROVE  FALSE
    OBVIOUS
  <2>1. p \in Piece
    BY <1>1 DEF StorageTyped
  <2>2. p.first \in PagesOf(p)
    BY <2>1, PieceHasPages
  <2> QED
    BY <2>2, StillUsed
<1>8. StorageTyped'
  BY <1>1, <1>3 DEF StorageTyped
<1>9. PiecesApart'
  <2>1. /\ \A p, q \in storage' : p # q /\ p.base = q.base => PagesOf(p) \cap PagesOf(q) = {}
        /\ \A p \in storage' : p.base \in reserved'
    BY <1>1, <1>7 DEF PiecesApart
  <2>2. ASSUME NEW i \in 1 .. l - 1
        PROVE  chunks'[i].used = UNION {PagesOf(p) : p \in {q \in storage' : q.base = chunks'[i].base}}
    <3>1. chunks'[i] = chunks[At(i)] /\ At(i) \in DOMAIN chunks
      BY <1>2, <1>3, <1>4
    <3>2. {q \in storage' : q.base = chunks'[i].base} = {q \in storage : q.base = chunks[At(i)].base}
      BY <3>1, <1>6
    <3>3. chunks[At(i)].used = UNION {PagesOf(p) : p \in {q \in storage : q.base = chunks[At(i)].base}}
      BY <3>1, <1>1 DEF PiecesApart
    <3> QED
      BY <3>1, <3>2, <3>3
  <2> QED
    BY <1>3, <2>1, <2>2 DEF PiecesApart, PagesOf
<1>10. ReservedRight'
  <2>1. \A b : IsChunk(b)' <=> b # piece.base /\ IsChunk(b)
    <3> SUFFICES ASSUME NEW b
                 PROVE  IsChunk(b)' <=> b # piece.base /\ IsChunk(b)
      OBVIOUS
    <3>1. ASSUME IsChunk(b)' PROVE b # piece.base /\ IsChunk(b)
      BY <3>1, <1>2, <1>3, <1>4, <1>6 DEF IsChunk
    <3>2. ASSUME b # piece.base, IsChunk(b) PROVE IsChunk(b)'
      <4>1. PICK k \in 1 .. l \ {c} : chunks[k].base = b
        BY <3>2, <1>2 DEF IsChunk
      <4> QED
        BY <4>1, <1>3, <1>5 DEF IsChunk
    <3> QED
      BY <3>1, <3>2
  <2>2. ASSUME NEW i \in 1 .. l - 1
        PROVE  chunks'[i].base \in reserved' /\ (i # 1 => chunks'[i].used # {})
    BY <1>1, <1>2, <1>3, <1>4, <1>6 DEF ReservedRight
  <2>3. \A i, j \in 1 .. l - 1 : chunks'[i].base = chunks'[j].base => i = j
    BY <1>1, <1>2, <1>3, <1>4 DEF ReservedRight
  <2>4. /\ \A p \in storage' : IsChunk(p.base)' <=> ~Large(p.size)
        /\ \A p, q \in storage' : Large(p.size) /\ p.base = q.base => p = q
    BY <1>1, <1>7, <2>1 DEF ReservedRight
  <2>5. \A b \in reserved' : IsChunk(b)' \/ \E p \in storage' : p.base = b
    BY <1>1, <2>1 DEF ReservedRight
  <2> QED
    BY <1>3, <2>2, <2>3, <2>4, <2>5 DEF ReservedRight, Large
<1> QED
  BY <1>8, <1>9, <1>10 DEF StorageRight

LEMMA LeastIn ==
  ASSUME NEW S \in SUBSET Nat, S # {}
  PROVE  Min(S) \in S
BY LeastOf DEF Min

LEMMA FreeBaseIs ==
  ASSUME MemoryAssumption, FreeBases # {}
  PROVE  Min(FreeBases) \in 1 .. Room /\ Min(FreeBases) \notin reserved
<1>1. FreeBases \in SUBSET Nat
  BY DEF FreeBases, MemoryAssumption
<1>2. Min(FreeBases) \in FreeBases
  BY <1>1, LeastIn
<1> QED
  BY <1>2 DEF FreeBases

(* low_alloc gives a piece that was nobody's.                              *)
LEMMA AllocKeeps ==
  ASSUME MemoryAssumption, StorageRight, NEW of \in {"buffer", "strings"}, NEW size \in Nat \ {0},
         NEW piece, LowAlloc(of, size, piece)
  PROVE  /\ StorageRight' /\ piece \in Piece /\ piece \notin storage
         /\ piece.of = of /\ piece.size = size /\ storage' = storage \cup {piece}
         /\ low_bytes' = low_bytes + size
<1>1. CASE AllocLarge(of, size, piece)
  <2>1. Min(FreeBases) \in 1 .. Room /\ Min(FreeBases) \notin reserved
    BY <1>1, FreeBaseIs DEF AllocLarge
  <2>2. piece = [of |-> of, base |-> Min(FreeBases), first |-> 0, size |-> size]
    BY <1>1 DEF AllocLarge
  <2>3. piece \in Piece /\ piece.base = Min(FreeBases) /\ piece.size = size /\ piece.of = of
    BY <2>1, <2>2 DEF Piece
  <2>4. /\ Large(piece.size) /\ storage' = storage \cup {piece} /\ reserved' = reserved \cup {piece.base}
        /\ chunks' = chunks /\ low_bytes' = low_bytes + piece.size
    BY <1>1, <2>3 DEF AllocLarge, Take
  <2>5. StorageRight' /\ piece \notin storage
    BY <2>1, <2>3, <2>4, LargeKeeps
  <2> QED
    BY <2>3, <2>4, <2>5
<1>2. CASE AllocInChunk(of, size, piece)
  <2> DEFINE i == Min(Roomy(Pages(size)))
             f == Min(Runs(chunks[i], Pages(size)))
  <2>1. DOMAIN chunks = 1 .. Len(chunks) /\ Len(chunks) \in Nat
    BY ChunksTyped DEF StorageRight
  <2>2. i \in DOMAIN chunks /\ Runs(chunks[i], Pages(size)) # {}
    <3>1. Roomy(Pages(size)) \in SUBSET Nat /\ Roomy(Pages(size)) # {}
      <4>1. Roomy(Pages(size)) \subseteq DOMAIN chunks
        BY DEF Roomy
      <4>2. DOMAIN chunks \subseteq Nat
        BY <2>1
      <4> QED
        BY <4>1, <4>2, <1>2 DEF AllocInChunk
    <3>2. i \in Roomy(Pages(size))
      BY <3>1, LeastIn
    <3> QED
      BY <3>2 DEF Roomy
  <2> HIDE DEF i
  <2>3. f \in Nat /\ f .. f + Pages(size) - 1 \cap chunks[i].used = {}
    <3>1. Runs(chunks[i], Pages(size)) \in SUBSET Nat
      BY DEF Runs
    <3>2. f \in Runs(chunks[i], Pages(size))
      BY <3>1, <2>2, LeastIn
    <3> QED
      BY <3>1, <3>2 DEF Runs
  <2>4. piece = [of |-> of, base |-> chunks[i].base, first |-> f, size |-> size]
    BY <1>2 DEF AllocInChunk, i
  <2> HIDE DEF f
  <2>5. chunks[i].base \in 1 .. Room
    BY <2>2, ChunksTyped DEF StorageRight
  <2>6. /\ piece \in Piece /\ piece.base = chunks[i].base /\ piece.size = size /\ piece.of = of
        /\ piece.first = f
    BY <2>3, <2>4, <2>5 DEF Piece
  <2>7. PagesOf(piece) \cap chunks[i].used = {}
    BY <2>3, <2>6 DEF PagesOf
  <2>8. /\ ~Large(piece.size) /\ storage' = storage \cup {piece} /\ reserved' = reserved
        /\ chunks' = [chunks EXCEPT ![i].used = @ \cup PagesOf(piece)] /\ low_bytes' = low_bytes + piece.size
    BY <1>2, <2>6 DEF AllocInChunk, Take, i
  <2>9. StorageRight' /\ piece \notin storage
    BY <2>2, <2>6, <2>7, <2>8, InChunkKeeps
  <2> QED
    BY <2>6, <2>8, <2>9
<1>3. CASE AllocNewChunk(of, size, piece)
  <2>1. Min(FreeBases) \in 1 .. Room /\ Min(FreeBases) \notin reserved
    BY <1>3, FreeBaseIs DEF AllocNewChunk
  <2>2. piece = [of |-> of, base |-> Min(FreeBases), first |-> 0, size |-> size]
    BY <1>3 DEF AllocNewChunk
  <2>3. /\ piece \in Piece /\ piece.base = Min(FreeBases) /\ piece.size = size /\ piece.of = of
        /\ piece.first = 0
    BY <2>1, <2>2 DEF Piece
  <2>4. /\ ~Large(piece.size) /\ Roomy(Pages(piece.size)) = {}
        /\ storage' = storage \cup {piece} /\ reserved' = reserved \cup {piece.base}
        /\ chunks' = <<[base |-> piece.base, used |-> PagesOf(piece)]>> \o chunks
        /\ low_bytes' = low_bytes + piece.size
    BY <1>3, <2>3 DEF AllocNewChunk, Take
  <2>5. StorageRight' /\ piece \notin storage
    BY <2>1, <2>3, <2>4, NewChunkKeeps
  <2> QED
    BY <2>3, <2>4, <2>5
<1> QED
  BY <1>1, <1>2, <1>3 DEF LowAlloc

(* low_free leaves the other pieces as they are.                           *)
LEMMA FreeKeeps ==
  ASSUME MemoryAssumption, StorageRight, NEW piece \in storage, FreeStorage(piece)
  PROVE  /\ StorageRight' /\ storage' = storage \ {piece} /\ piece.of = "buffer"
         /\ low_bytes' = low_bytes - piece.size
         /\ UNCHANGED <<strings, string_page, string_room>>
<1> DEFINE c == CHOOSE i \in DOMAIN chunks : chunks[i].base = piece.base
<1>1. /\ storage' = storage \ {piece} /\ piece.of = "buffer" /\ low_bytes' = low_bytes - piece.size
      /\ UNCHANGED <<strings, string_page, string_room>>
  BY DEF FreeStorage
<1>2. CASE Large(piece.size)
  BY <1>1, <1>2, FreeLargeKeeps DEF FreeStorage
<1>3. CASE ~Large(piece.size)
  <2>1. c \in DOMAIN chunks /\ chunks[c].base = piece.base
    BY <1>3 DEF StorageRight, ReservedRight, IsChunk
  <2>2. IF chunks[c].used \ PagesOf(piece) = {} /\ c # 1
        THEN chunks' = Without(chunks, c) /\ reserved' = reserved \ {piece.base}
        ELSE chunks' = [chunks EXCEPT ![c].used = chunks[c].used \ PagesOf(piece)] /\ reserved' = reserved
    BY <1>3 DEF FreeStorage, Without
  <2> HIDE DEF c
  <2>3. CASE chunks[c].used \ PagesOf(piece) = {} /\ c # 1
    BY <1>1, <1>3, <2>1, <2>2, <2>3, FreeChunkKeeps
  <2>4. CASE ~(chunks[c].used \ PagesOf(piece) = {} /\ c # 1)
    BY <1>1, <1>3, <2>1, <2>2, <2>4, FreePagesKeeps
  <2> QED
    BY <1>1, <2>3, <2>4
<1> QED
  BY <1>2, <1>3

-----------------------------------------------------------------------------
(* The copies of strings.                                                  *)
StringsTyped ==
  /\ strings \in Seq([source : StringSources, text : Texts, page : Piece, at : Nat])
  /\ string_room \in Nat /\ string_page \in Piece \cup {NoPage}
StringsRight == StringsTyped /\ StringsStay /\ PageRight

LEMMA IInvParts == MemoryIInv <=> StorageRight /\ StringsRight /\ low_bytes \in Int
BY DEF MemoryIInv, MemoryTypeOK, StorageRight, StorageTyped, StringsRight, StringsTyped

LEMMA MemoryPartsAfter ==
  ASSUME StorageRight', StringsRight', low_bytes' \in Int
  PROVE  MemoryIInv'
BY DEF MemoryIInv, MemoryTypeOK, StorageRight, StorageTyped, StringsRight, StringsTyped

LEMMA PageIs ==
  ASSUME NEW p \in Piece
  PROVE  p # NoPage /\ p.size \in Nat
<1>1. DOMAIN p = {"of", "base", "first", "size"}
  BY DEF Piece
<1>2. DOMAIN NoPage = {"of"}
  BY DEF NoPage
<1>3. p # NoPage
  BY <1>1, <1>2
<1> QED
  BY <1>3 DEF Piece

LEMMA CopyOf ==
  ASSUME StringsTyped, NEW i \in DOMAIN strings, MemoryAssumption
  PROVE  /\ strings[i].page \in Piece /\ strings[i].at \in Nat
         /\ strings[i].text \in Texts /\ strings[i].text.length \in Nat \ {0}
<1> DEFINE S == [source : StringSources, text : Texts, page : Piece, at : Nat]
<1>1. strings[i] \in S
  <2>1. strings \in Seq(S)
    BY DEF StringsTyped
  <2> HIDE DEF S
  <2> QED
    BY <2>1
<1> QED
  BY <1>1 DEF MemoryAssumption

(* Strings are untouched by what other storage comes and goes.             *)
LEMMA StringsKept ==
  ASSUME StringsRight, UNCHANGED <<strings, string_page, string_room>>,
         \A p \in storage : p.of = "strings" => p \in storage'
  PROVE  StringsRight'
<1>1. StringsTyped'
  BY DEF StringsRight, StringsTyped
<1>2. StringsStay'
  BY DEF StringsRight, StringsStay, PageRight
<1>3. PageRight'
  BY DEF StringsRight, PageRight
<1> QED
  BY <1>1, <1>2, <1>3 DEF StringsRight

LEMMA Appended ==
  ASSUME MemoryAssumption, StringsTyped, NEW source \in StringSources, NEW text \in Texts, NEW page \in Piece, NEW at \in Nat,
         CopyString(source, text, page, at)
  PROVE  /\ strings' \in Seq([source : StringSources, text : Texts, page : Piece, at : Nat])
         /\ Len(strings) \in Nat /\ DOMAIN strings = 1 .. Len(strings) /\ DOMAIN strings' = 1 .. Len(strings) + 1
         /\ \A i \in DOMAIN strings : strings'[i] = strings[i]
         /\ strings'[Len(strings) + 1] = [source |-> source, text |-> text, page |-> page, at |-> at]
<1> DEFINE S == [source : StringSources, text : Texts, page : Piece, at : Nat]
           new == [source |-> source, text |-> text, page |-> page, at |-> at]
<1>1. new \in S /\ strings \in Seq(S) /\ strings' = Append(strings, new)
  BY DEF StringsTyped, CopyString
<1> HIDE DEF S, new
<1>2. /\ strings' \in Seq(S) /\ Len(strings) \in Nat /\ DOMAIN strings = 1 .. Len(strings)
      /\ Len(strings') = Len(strings) + 1 /\ DOMAIN strings' = 1 .. Len(strings')
      /\ \A i \in 1 .. Len(strings) : strings'[i] = strings[i]
      /\ strings'[Len(strings) + 1] = new
  BY <1>1, AppendProperties
<1> QED
  BY <1>2 DEF S, new

(* A copy in what is left of the page comes after those on it.             *)
LEMMA CopyToPageKeeps ==
  ASSUME MemoryAssumption, StringsRight, NEW source \in StringSources, NEW text \in Texts, CopyToPage(source, text)
  PROVE  StringsRight'
<1> DEFINE n == Len(strings)
           at == string_page.size - string_room
           length == text.length
<1>1. /\ StringsTyped /\ StringsStay /\ PageRight /\ length \in Nat \ {0} /\ string_room \in Nat
      /\ length <= string_room
  BY DEF StringsRight, StringsTyped, MemoryAssumption, CopyToPage
<1>2. /\ string_page \in Piece /\ string_page \in storage /\ string_page.of = "strings"
      /\ string_room <= string_page.size /\ string_page.size \in Nat /\ string_page # NoPage
  BY <1>1, PageIs DEF PageRight, StringsTyped
<1>3. at \in Nat /\ at + string_room = string_page.size
  BY <1>1, <1>2
<1>4. /\ CopyString(source, text, string_page, at) /\ string_room' = string_room - length
      /\ storage' = storage /\ string_page' = string_page
  BY DEF CopyToPage
<1> HIDE DEF at
<1>5. /\ strings' \in Seq([source : StringSources, text : Texts, page : Piece, at : Nat])
      /\ n \in Nat /\ DOMAIN strings = 1 .. n /\ DOMAIN strings' = 1 .. n + 1
      /\ \A i \in DOMAIN strings : strings'[i] = strings[i]
      /\ strings'[n + 1] = [source |-> source, text |-> text, page |-> string_page, at |-> at]
  BY <1>1, <1>2, <1>3, <1>4, Appended
<1>6. /\ strings'[n + 1].page = string_page /\ strings'[n + 1].at = at
      /\ strings'[n + 1].text.length = length
  BY <1>5
<1>7. \A i \in DOMAIN strings : /\ strings[i].at \in Nat /\ strings[i].text.length \in Nat
  BY <1>1, CopyOf
<1>8. \A i \in DOMAIN strings : strings[i].page = string_page => strings[i].at + strings[i].text.length <= at
  <2> SUFFICES ASSUME NEW i \in DOMAIN strings, strings[i].page = string_page
               PROVE  strings[i].at + strings[i].text.length <= at
    OBVIOUS
  <2>1. strings[i].at + strings[i].text.length + string_room <= string_page.size
    BY <1>1, <1>2 DEF PageRight
  <2> DEFINE end == strings[i].at + strings[i].text.length
  <2>2. end \in Nat
    BY <1>7
  <2> HIDE DEF end
  <2>3. end + string_room <= string_page.size
    BY <2>1 DEF end
  <2>4. end <= at
    BY <1>1, <1>2, <1>3, <2>2, <2>3
  <2> QED
    BY <2>4 DEF end
<1> HIDE DEF n, length
<1>9. \A i \in DOMAIN strings' : i \in DOMAIN strings \/ i = n + 1
  BY <1>5
<1>10. StringsTyped'
  BY <1>1, <1>2, <1>4, <1>5 DEF StringsTyped
<1>11. StringsStay'
  <2>1. ASSUME NEW i \in DOMAIN strings'
        PROVE  strings'[i].page \in storage /\ strings'[i].at + strings'[i].text.length <= strings'[i].page.size
    <3>1. CASE i \in DOMAIN strings
      BY <3>1, <1>1, <1>5 DEF StringsStay
    <3>2. CASE i = n + 1
      <4>1. at + length <= string_page.size
        BY <1>1, <1>2, <1>3
      <4> QED
        BY <3>2, <4>1, <1>2, <1>6
    <3> QED
      BY <1>9, <3>1, <3>2
  <2>2. ASSUME NEW i \in DOMAIN strings', NEW j \in DOMAIN strings', i < j, strings'[i].page = strings'[j].page
        PROVE  strings'[i].at + strings'[i].text.length <= strings'[j].at
    <3>1. i \in DOMAIN strings
      BY <2>2, <1>5
    <3>2. CASE j \in DOMAIN strings
      <4>1. strings'[i] = strings[i] /\ strings'[j] = strings[j]
        BY <3>1, <3>2, <1>5
      <4> QED
        BY <2>2, <3>1, <3>2, <4>1, <1>1 DEF StringsStay
    <3>3. CASE j = n + 1
      BY <2>2, <3>1, <3>3, <1>5, <1>6, <1>8
    <3> QED
      BY <1>9, <3>2, <3>3
  <2> QED
    BY <1>4, <2>1, <2>2 DEF StringsStay
<1>12. PageRight'
  <2>1. \A i \in DOMAIN strings' : strings'[i].page.of = "strings"
    BY <1>1, <1>2, <1>5, <1>6, <1>9 DEF PageRight
  <2>2. string_room' \in Nat /\ string_room' <= string_page.size
    BY <1>1, <1>2, <1>4
  <2>3. ASSUME NEW i \in DOMAIN strings', strings'[i].page = string_page
        PROVE  strings'[i].at + strings'[i].text.length + string_room' <= string_page.size
    <3>1. CASE i \in DOMAIN strings
      <4> DEFINE end == strings[i].at + strings[i].text.length
      <4>1. end \in Nat /\ end <= at
        BY <2>3, <3>1, <1>5, <1>7, <1>8
      <4> HIDE DEF end
      <4>2. end + string_room' <= string_page.size
        BY <4>1, <1>1, <1>2, <1>3, <1>4
      <4> QED
        BY <3>1, <4>2, <1>5 DEF end
    <3>2. CASE i = n + 1
      <4>1. at + length + string_room' <= string_page.size
        BY <1>1, <1>2, <1>3, <1>4
      <4> QED
        BY <3>2, <4>1, <1>6
    <3> QED
      BY <1>9, <3>1, <3>2
  <2> QED
    BY <1>2, <1>4, <2>1, <2>2, <2>3 DEF PageRight
<1> QED
  BY <1>10, <1>11, <1>12 DEF StringsRight

(* A new page has the copy alone.                                          *)
LEMMA CopyToNewPageKeeps ==
  ASSUME MemoryAssumption, StringsRight, NEW source \in StringSources, NEW text \in Texts,
         NEW piece \in Piece, piece \notin storage, piece.of = "strings", text.length <= piece.size,
         CopyString(source, text, piece, 0), storage' = storage \cup {piece},
         string_page' = piece, string_room' = piece.size - text.length
  PROVE  StringsRight'
<1> DEFINE n == Len(strings)
           length == text.length
<1>1. StringsTyped /\ StringsStay /\ PageRight /\ length \in Nat \ {0}
  BY DEF StringsRight, MemoryAssumption
<1>2. piece # NoPage /\ piece.size \in Nat
  BY PageIs
<1>3. /\ strings' \in Seq([source : StringSources, text : Texts, page : Piece, at : Nat])
      /\ n \in Nat /\ DOMAIN strings = 1 .. n /\ DOMAIN strings' = 1 .. n + 1
      /\ \A i \in DOMAIN strings : strings'[i] = strings[i]
      /\ strings'[n + 1] = [source |-> source, text |-> text, page |-> piece, at |-> 0]
  <2> DEFINE at == 0
  <2>1. at \in Nat /\ CopyString(source, text, piece, at)
    OBVIOUS
  <2> HIDE DEF at
  <2>2. /\ strings' \in Seq([source : StringSources, text : Texts, page : Piece, at : Nat])
        /\ n \in Nat /\ DOMAIN strings = 1 .. n /\ DOMAIN strings' = 1 .. n + 1
        /\ \A i \in DOMAIN strings : strings'[i] = strings[i]
        /\ strings'[n + 1] = [source |-> source, text |-> text, page |-> piece, at |-> at]
    BY <1>1, <2>1, Appended
  <2> QED
    BY <2>2 DEF at
<1>4. strings'[n + 1].page = piece /\ strings'[n + 1].at = 0 /\ strings'[n + 1].text.length = length
  BY <1>3
<1>5. length <= piece.size /\ string_room' = piece.size - length
  OBVIOUS
<1> HIDE DEF n, length
<1>6. /\ \A i \in DOMAIN strings' : i \in DOMAIN strings \/ i = n + 1
      /\ \A i, j \in DOMAIN strings' : i < j => i \in DOMAIN strings
  BY <1>3
<1>7. \A i \in DOMAIN strings : strings[i].page # piece
  BY <1>1 DEF StringsStay
<1>8. StringsTyped'
  BY <1>1, <1>2, <1>3, <1>5 DEF StringsTyped
<1>9. StringsStay'
  <2>1. ASSUME NEW i \in DOMAIN strings'
        PROVE  strings'[i].page \in storage' /\ strings'[i].at + strings'[i].text.length <= strings'[i].page.size
    <3>1. CASE i \in DOMAIN strings
      BY <3>1, <1>1, <1>3 DEF StringsStay
    <3>2. CASE i = n + 1
      BY <3>2, <1>1, <1>2, <1>4, <1>5
    <3> QED
      BY <1>6, <3>1, <3>2
  <2>2. ASSUME NEW i \in DOMAIN strings', NEW j \in DOMAIN strings', i < j, strings'[i].page = strings'[j].page
        PROVE  strings'[i].at + strings'[i].text.length <= strings'[j].at
    <3>1. i \in DOMAIN strings
      BY <2>2, <1>6
    <3>2. CASE j \in DOMAIN strings
      <4>1. strings'[i] = strings[i] /\ strings'[j] = strings[j]
        BY <3>1, <3>2, <1>3
      <4> QED
        BY <2>2, <3>1, <3>2, <4>1, <1>1 DEF StringsStay
    <3>3. CASE j = n + 1
      BY <2>2, <3>1, <3>3, <1>3, <1>4, <1>7
    <3> QED
      BY <1>6, <3>2, <3>3
  <2> QED
    BY <2>1, <2>2 DEF StringsStay
<1>10. PageRight'
  <2>1. \A i \in DOMAIN strings' : strings'[i].page.of = "strings"
    BY <1>1, <1>3, <1>4, <1>6 DEF PageRight
  <2>2. string_room' <= piece.size
    BY <1>1, <1>2, <1>5
  <2>3. ASSUME NEW i \in DOMAIN strings', strings'[i].page = piece
        PROVE  strings'[i].at + strings'[i].text.length + string_room' <= piece.size
    <3>1. i = n + 1
      BY <2>3, <1>3, <1>6, <1>7
    <3>2. 0 + length + string_room' <= piece.size
      BY <1>1, <1>2, <1>5
    <3> QED
      BY <3>1, <3>2, <1>4
  <2> QED
    BY <1>2, <2>1, <2>2, <2>3 DEF PageRight
<1> QED
  BY <1>8, <1>9, <1>10 DEF StringsRight

LEMMA StringKeeps ==
  ASSUME MemoryAssumption, MemoryIInv, NEW source \in StringSources, NEW text \in Texts, String(source, text)
  PROVE  MemoryIInv'
<1> DEFINE size == IF text.length > PageUnits THEN text.length ELSE PageUnits
<1>1. StorageRight /\ StringsRight /\ low_bytes \in Int
  BY IInvParts
<1>2. size \in Nat \ {0} /\ text.length <= size
  BY DEF MemoryAssumption
<1>3. CASE CopyToPage(source, text)
  <2>1. StorageRight' /\ low_bytes' \in Int
    BY <1>1, <1>3 DEF CopyToPage, StorageRight, StorageTyped, PiecesApart, PagesOf, ReservedRight, IsChunk, Large
  <2> QED
    BY <1>1, <1>3, <2>1, CopyToPageKeeps, MemoryPartsAfter
<1>4. CASE CopyToNewPage(source, text)
  <2>1. PICK piece \in Pieces("strings", size) :
          /\ LowAlloc("strings", size, piece) /\ CopyString(source, text, piece, 0)
          /\ string_page' = piece /\ string_room' = size - text.length
    BY <1>4 DEF CopyToNewPage
  <2> HIDE DEF size
  <2>2. /\ StorageRight' /\ piece \in Piece /\ piece \notin storage /\ piece.of = "strings" /\ piece.size = size
        /\ storage' = storage \cup {piece} /\ low_bytes' = low_bytes + size
    BY <1>1, <1>2, <2>1, AllocKeeps
  <2>3. StringsRight'
    BY <1>1, <1>2, <2>1, <2>2, CopyToNewPageKeeps
  <2>4. low_bytes' \in Int
    BY <1>1, <1>2, <2>2
  <2> QED
    BY <2>2, <2>3, <2>4, MemoryPartsAfter
<1>5. CASE NoString(source, text)
  <2>1. /\ UNCHANGED <<chunks, reserved, storage, low_bytes, strings>>
        /\ string_page' = NoPage /\ string_room' = 0
    BY <1>5 DEF NoString
  <2>2. StorageRight' /\ low_bytes' \in Int
    BY <1>1, <2>1 DEF StorageRight, StorageTyped, PiecesApart, PagesOf, ReservedRight, IsChunk, Large
  <2>3. StringsRight'
    BY <1>1, <2>1 DEF StringsRight, StringsTyped, StringsStay, PageRight
  <2> QED
    BY <2>2, <2>3, MemoryPartsAfter
<1> QED
  BY <1>3, <1>4, <1>5 DEF String

LEMMA MemoryInitKeeps == MemoryInit => MemoryIInv
<1> SUFFICES ASSUME MemoryInit
             PROVE  StorageRight /\ StringsRight /\ low_bytes \in Int
  BY IInvParts
<1>1. chunks = <<>> /\ strings = <<>> /\ storage = {} /\ reserved = {} /\ low_bytes = 0 /\ string_page = NoPage
      /\ string_room = 0
  BY DEF MemoryInit
<1>2. \A S : <<>> \in Seq(S)
  OBVIOUS
<1>3. DOMAIN chunks = {} /\ DOMAIN strings = {}
  BY <1>1
<1>4. StorageRight
  BY <1>1, <1>2, <1>3 DEF StorageRight, StorageTyped, PiecesApart, ReservedRight, IsChunk
<1>5. StringsRight
  BY <1>1, <1>2, <1>3 DEF StringsRight, StringsTyped, StringsStay, PageRight
<1> QED
  BY <1>1, <1>4, <1>5

LEMMA MemoryNextKeeps ==
  ASSUME MemoryAssumption, MemoryIInv, [MemoryNext]_memoryVars
  PROVE  MemoryIInv'
<1>1. StorageRight /\ StringsRight /\ low_bytes \in Int
  BY IInvParts
<1>2. ASSUME NEW size \in Sizes, BufferStorage(size)
      PROVE  MemoryIInv'
  <2>1. size \in Nat \ {0}
    BY DEF MemoryAssumption
  <2>2. PICK piece \in Pieces("buffer", size) : LowAlloc("buffer", size, piece)
    BY <1>2 DEF BufferStorage
  <2>3. StorageRight' /\ storage' = storage \cup {piece} /\ low_bytes' = low_bytes + size
    BY <1>1, <2>1, <2>2, AllocKeeps
  <2>4. StringsRight'
    BY <1>1, <1>2, <2>3, StringsKept DEF BufferStorage
  <2>5. low_bytes' \in Int
    BY <1>1, <2>1, <2>3
  <2> QED
    BY <2>3, <2>4, <2>5, MemoryPartsAfter
<1>3. ASSUME NEW piece \in storage, FreeStorage(piece)
      PROVE  MemoryIInv'
  <2>1. /\ StorageRight' /\ storage' = storage \ {piece} /\ piece.of = "buffer"
        /\ low_bytes' = low_bytes - piece.size /\ UNCHANGED <<strings, string_page, string_room>>
    BY <1>1, <1>3, FreeKeeps
  <2>2. StringsRight'
    BY <1>1, <2>1, StringsKept
  <2>3. low_bytes' \in Int
    BY <1>1, <2>1 DEF StorageRight, StorageTyped, Piece
  <2> QED
    BY <2>1, <2>2, <2>3, MemoryPartsAfter
<1>4. CASE UNCHANGED memoryVars
  <2>1. StorageRight' /\ low_bytes' \in Int
    BY <1>1, <1>4 DEF memoryVars, StorageRight, StorageTyped, PiecesApart, PagesOf, ReservedRight, IsChunk, Large
  <2>2. StringsRight'
    BY <1>1, <1>4 DEF memoryVars, StringsRight, StringsTyped, StringsStay, PageRight
  <2> QED
    BY <2>1, <2>2, MemoryPartsAfter
<1> QED
  BY <1>2, <1>3, <1>4, StringKeeps DEF MemoryNext

(* What is reserved and in no piece's use is the newest chunk's.           *)
LEMMA SpareIsNewest ==
  ASSUME MemoryIInv
  PROVE  OneSpare
<1>1. StorageRight /\ PiecesApart /\ ReservedRight
  BY IInvParts DEF StorageRight
<1> DEFINE spare == {b \in reserved : \A p \in storage : p.base # b}
<1>2. spare \subseteq {chunks[1].base}
  <2> SUFFICES ASSUME NEW b \in spare
               PROVE  b = chunks[1].base
    OBVIOUS
  <2>1. PICK i \in DOMAIN chunks : chunks[i].base = b
    BY <1>1 DEF ReservedRight, IsChunk
  <2>2. chunks[i].used = {}
    <3>1. {q \in storage : q.base = chunks[i].base} = {}
      BY <2>1
    <3>2. chunks[i].used = UNION {PagesOf(p) : p \in {q \in storage : q.base = chunks[i].base}}
      BY <1>1 DEF PiecesApart
    <3> QED
      BY <3>1, <3>2
  <2> QED
    BY <1>1, <2>1, <2>2 DEF ReservedRight
<1> HIDE DEF spare
<1>3. Cardinality({chunks[1].base}) = 1 /\ IsFiniteSet({chunks[1].base})
  BY FS_Singleton
<1>4. Cardinality(spare) <= 1
  BY <1>2, <1>3, FS_Subset
<1> QED
  BY <1>4 DEF OneSpare, spare

LEMMA MemoryInvariance == ASSUME MemoryAssumption PROVE MemorySpec => []MemoryIInv
<1>1. MemoryInit => MemoryIInv
  BY MemoryInitKeeps
<1>2. MemoryIInv /\ [MemoryNext]_memoryVars => MemoryIInv'
  BY MemoryNextKeeps
<1> QED
  BY <1>1, <1>2, PTL DEF MemorySpec

(* Pieces of low memory in use never overlap, whatever storage and strings *)
(* the program asks for and frees: a chunk's bits are exactly the pages of *)
(* the pieces in it (low_alloc, low_free, chunk_alloc, chunk_free).        *)
THEOREM PiecesStayApart == ASSUME MemoryAssumption PROVE MemorySpec => []PiecesApart
<1>1. MemoryIInv => PiecesApart
  BY DEF MemoryIInv
<1> QED
  BY <1>1, MemoryInvariance, PTL

(* A string the program was given is never written over: later copies come *)
(* after it on its page, and its page is never freed (wow64_string).       *)
THEOREM StringsAreKept == ASSUME MemoryAssumption PROVE MemorySpec => []StringsStay
<1>1. MemoryIInv => StringsStay
  BY DEF MemoryIInv
<1> QED
  BY <1>1, MemoryInvariance, PTL

(* Of the reservations below 4 GB one chunk at most is in nobody's use:    *)
(* the newest, which is kept for the next buffer (low_free).               *)
THEOREM OneSpareChunk == ASSUME MemoryAssumption PROVE MemorySpec => []OneSpare
<1>1. MemoryIInv => OneSpare
  BY SpareIsNewest
<1> QED
  BY <1>1, MemoryInvariance, PTL

-----------------------------------------------------------------------------
(* low_bytes.                                                              *)

LEMMA UnitsOfOne ==
  ASSUME NEW p, p.size \in Nat
  PROVE  IsFiniteSet(UnitsOf(p)) /\ Cardinality(UnitsOf(p)) = p.size
<1>1. IsFiniteSet(1 .. p.size) /\ Cardinality(1 .. p.size) = p.size
  BY FS_Interval
<1>2. IsFiniteSet({p}) /\ Cardinality({p}) = 1
  BY FS_Singleton
<1> DEFINE u == 1 .. p.size
<1> HIDE DEF u
<1>3. IsFiniteSet({p} \X u) /\ Cardinality({p} \X u) = Cardinality({p}) * Cardinality(u)
  BY <1>1, <1>2, FS_Product DEF u
<1> QED
  BY <1>1, <1>2, <1>3 DEF UnitsOf, u

LEMMA CountsTaken ==
  ASSUME MemoryIInv, Counted, NEW piece \in Piece, piece \notin storage,
         storage' = storage \cup {piece}, low_bytes' = low_bytes + piece.size
  PROVE  Counted'
<1>1. piece.size \in Nat /\ low_bytes \in Int
  BY DEF Piece, MemoryIInv, MemoryTypeOK
<1>2. Units' = Units \cup UnitsOf(piece) /\ Units \cap UnitsOf(piece) = {}
  BY DEF Units, UnitsOf
<1>3. IsFiniteSet(UnitsOf(piece)) /\ Cardinality(UnitsOf(piece)) = piece.size
  BY <1>1, UnitsOfOne
<1>4. /\ IsFiniteSet(Units \cup UnitsOf(piece))
      /\ Cardinality(Units \cup UnitsOf(piece)) =
           Cardinality(Units) + Cardinality(UnitsOf(piece)) - Cardinality(Units \cap UnitsOf(piece))
  BY <1>3, FS_Union DEF Counted
<1>5. Cardinality({}) = 0
  BY FS_EmptySet
<1>6. Units' = Units \cup UnitsOf(piece)
  BY <1>2
<1> DEFINE k == Cardinality(Units)
<1>7. k = low_bytes
  BY DEF Counted
<1>8. Cardinality(Units \cup UnitsOf(piece)) = k + piece.size - 0
  BY <1>2, <1>3, <1>4, <1>5
<1> HIDE DEF k
<1>9. Cardinality(Units \cup UnitsOf(piece)) = low_bytes + piece.size
  BY <1>1, <1>7, <1>8
<1> QED
  BY <1>4, <1>6, <1>9 DEF Counted

LEMMA CountsFreed ==
  ASSUME MemoryIInv, Counted, NEW piece \in storage,
         storage' = storage \ {piece}, low_bytes' = low_bytes - piece.size
  PROVE  Counted'
<1>1. piece.size \in Nat /\ low_bytes \in Int
  BY DEF Piece, MemoryIInv, MemoryTypeOK
<1>2. Units' = Units \ UnitsOf(piece) /\ Units \cap UnitsOf(piece) = UnitsOf(piece)
  BY DEF Units, UnitsOf
<1>3. Cardinality(UnitsOf(piece)) = piece.size
  BY <1>1, UnitsOfOne
<1>4. /\ IsFiniteSet(Units \ UnitsOf(piece))
      /\ Cardinality(Units \ UnitsOf(piece)) = Cardinality(Units) - Cardinality(Units \cap UnitsOf(piece))
  BY FS_Difference DEF Counted
<1> QED
  BY <1>1, <1>2, <1>3, <1>4 DEF Counted

LEMMA NextCounts ==
  ASSUME MemoryAssumption, MemoryIInv, Counted, [MemoryNext]_memoryVars
  PROVE  Counted'
<1>1. StorageRight
  BY IInvParts
<1>2. ASSUME NEW of \in {"buffer", "strings"}, NEW size \in Nat \ {0}, NEW piece, LowAlloc(of, size, piece)
      PROVE  Counted'
  <2>1. /\ piece \in Piece /\ piece \notin storage /\ storage' = storage \cup {piece}
        /\ low_bytes' = low_bytes + piece.size
    BY <1>1, <1>2, AllocKeeps
  <2> QED
    BY <2>1, CountsTaken
<1>3. ASSUME UNCHANGED <<storage, low_bytes>>
      PROVE  Counted'
  BY <1>3 DEF Counted, Units
<1>4. ASSUME NEW size \in Sizes, BufferStorage(size)
      PROVE  Counted'
  BY <1>2, <1>4 DEF BufferStorage, MemoryAssumption
<1>5. ASSUME NEW piece \in storage, FreeStorage(piece)
      PROVE  Counted'
  BY <1>1, <1>5, FreeKeeps, CountsFreed
<1>6. ASSUME NEW source \in StringSources, NEW text \in Texts, String(source, text)
      PROVE  Counted'
  <2>1. CASE CopyToPage(source, text) \/ NoString(source, text)
    BY <1>3, <2>1 DEF CopyToPage, NoString
  <2>2. CASE CopyToNewPage(source, text)
    <3> DEFINE size == IF text.length > PageUnits THEN text.length ELSE PageUnits
    <3>1. size \in Nat \ {0}
      BY DEF MemoryAssumption
    <3>2. \E piece \in Pieces("strings", size) : LowAlloc("strings", size, piece)
      BY <2>2 DEF CopyToNewPage
    <3> QED
      BY <1>2, <3>1, <3>2
  <2> QED
    BY <1>6, <2>1, <2>2 DEF String
<1> QED
  BY <1>3, <1>4, <1>5, <1>6 DEF MemoryNext, memoryVars

(* For a 32-bit program, whatever it asks for and frees: pieces of low     *)
(* memory do not overlap and are all counted, nothing stays reserved but   *)
(* one chunk, its strings stay, and a handle names its own sync object.    *)
THEOREM Wow64StaysSound ==
  ASSUME MemoryAssumption, HandlesAssumption
  PROVE  MemorySpec /\ HandlesSpec => []Wow64Sound
<1>1. MemoryInit => Counted
  <2> SUFFICES ASSUME MemoryInit
               PROVE  Counted
    OBVIOUS
  <2>1. Units = {} /\ low_bytes = 0
    BY DEF MemoryInit, Units
  <2> QED
    BY <2>1, FS_EmptySet DEF Counted
<1>2. MemoryIInv /\ Counted /\ [MemoryNext]_memoryVars => Counted'
  BY NextCounts
<1>3. MemorySpec => []MemoryIInv
  BY MemoryInvariance
<1>4. HandlesSpec => []HandlesExact
  BY HandlesStayExact
<1>5. MemoryIInv /\ Counted /\ HandlesExact => Wow64Sound
  BY SpareIsNewest DEF MemoryIInv, Counted, NothingLeaks, Wow64Sound
<1> QED
  BY <1>1, <1>2, <1>3, <1>4, <1>5, PTL DEF MemorySpec
=============================================================================

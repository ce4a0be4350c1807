-------------------------------- MODULE Log --------------------------------
(***************************************************************************)
(* The log of one process (util/log.cpp) and its crash reports             *)
(* (util/crash.cpp).  Threads emit messages: those at info or above go     *)
(* into a ring of recent history without a lock, those the levels let      *)
(* through go into a file that the first of them opens, under a mutex.     *)
(* A crash report opens the file too, without the mutex, and its opener,   *)
(* whoever that is, copies the history into it.                            *)
(*                                                                         *)
(* A message is the number of the emit() that made it.  The memory order   *)
(* of the slots' lengths is taken to be sequential; a torn text is a       *)
(* message like another.  Signals come between two calls of the log.       *)
(***************************************************************************)
EXTENDS Integers, Sequences, FiniteSets

CONSTANTS
  Loggers,
  kSlots,
  MaxFile,     \* maxFileBytes, in messages
  MaxReports,  \* kMaxReports
  MaxEvents,   \* bound: emit() and logRaw() calls, signals and uncaught exceptions
  Nobody

LogAssumption ==
  /\ IsFiniteSet(Loggers) /\ Nobody \notin Loggers
  /\ kSlots \in Nat \ {0} /\ MaxReports \in Nat

\* Where a message goes: an error or a warning to both, an info message to
\* the history, a raw line (statistics) to the file.
LogKinds == {"warn", "info", "raw"}
ToFile(kind) == kind \in {"warn", "raw"}
ToHistory(kind) == kind \in {"warn", "info"}

VARIABLES
  logPc,     \* where each thread is in the log or in the crash handler
  kindOf,    \* of the messages made so far
  message,   \* the message each thread emits
  cursor,    \* the ring index each thread writes, or reads next
  upto,      \* the head a reader of the history has loaded
  before,    \* ghost: what had been remembered when a report began
  crash,     \* what a thread reports: "fault", "abort", "exception" or Nobody
  wasOpen,   \* writeReport()'s local of that name
  head, slot,  \* g_historyHead and g_history
  position,  \* ghost: where in the ring's sequence each message is
  fd,        \* State::fd is open
  mutex,     \* the owner of State::mutex
  openFailed, limitReached, written,
  inFile,    \* the messages in the file, live or as history
  marks,     \* the beginnings and ends of the reports in it, in order
  reports, reporting, exceptionReported,
  crashes,   \* what MaxEvents bounds, with the messages
  dead       \* the process has ended

ring == <<head, slot, position>>
scratch == <<message, cursor, upto, wasOpen, before>>
locals == <<kindOf, crash, scratch>>
file == <<inFile, marks>>
reporter == <<reports, reporting, exceptionReported, crashes>>
logState == <<fd, mutex, openFailed, limitReached, written>>
logVars == <<logPc, locals, ring, logState, file, reporter, dead>>

LogInit ==
  /\ logPc = [t \in Loggers |-> "idle"]
  /\ kindOf = <<>>
  /\ message = [t \in Loggers |-> 0]
  /\ cursor = [t \in Loggers |-> 0]
  /\ upto = [t \in Loggers |-> 0]
  /\ crash = [t \in Loggers |-> Nobody]
  /\ wasOpen = [t \in Loggers |-> FALSE]
  /\ before = [t \in Loggers |-> {}]
  /\ head = 0 /\ slot = [i \in 0..kSlots - 1 |-> 0] /\ position = <<>>
  /\ fd = FALSE /\ mutex = Nobody
  /\ openFailed = FALSE /\ limitReached = FALSE /\ written = 0
  /\ inFile = {}
  /\ marks = <<>>
  /\ reports = 0 /\ reporting = FALSE /\ exceptionReported = FALSE /\ crashes = 0
  /\ dead = FALSE

At(t, label) == ~dead /\ logPc[t] = label
LogGoto(t, label) == logPc' = [logPc EXCEPT ![t] = label]
Put(m) == inFile' = inFile \cup {m} /\ UNCHANGED marks
MarkReport(part, t) == marks' = Append(marks, [part |-> part, thread |-> t]) /\ UNCHANGED inFile

\* The thread is back in the program: what it had on its stack is gone.
Leave(t) ==
  /\ LogGoto(t, "idle")
  /\ message' = [message EXCEPT ![t] = 0]
  /\ cursor' = [cursor EXCEPT ![t] = 0]
  /\ upto' = [upto EXCEPT ![t] = 0]
  /\ wasOpen' = [wasOpen EXCEPT ![t] = FALSE]
  /\ before' = [before EXCEPT ![t] = {}]

-----------------------------------------------------------------------------
\* emit(), and logRaw(), whose line stays out of the history.
Emit(t, kind) ==
  /\ At(t, "idle") /\ Len(kindOf) + crashes < MaxEvents
  /\ kindOf' = Append(kindOf, kind)
  /\ position' = Append(position, 0)
  /\ message' = [message EXCEPT ![t] = Len(kindOf) + 1]
  /\ LogGoto(t, IF ToHistory(kind) THEN "claim" ELSE "lock")
  /\ UNCHANGED <<cursor, upto, crash, wasOpen, before, head, slot, logState, file, reporter, dead>>

\* remember(): fetch_add on the head, the slot's length to 0, then the text
\* and its length.
Claim(t) ==
  /\ At(t, "claim")
  /\ head' = head + 1
  /\ position' = [position EXCEPT ![message[t]] = head + 1]
  /\ cursor' = [cursor EXCEPT ![t] = head % kSlots]
  /\ LogGoto(t, "clear")
  /\ UNCHANGED <<kindOf, message, upto, crash, wasOpen, before, slot, logState, file, reporter, dead>>

ClearSlot(t) ==
  /\ At(t, "clear")
  /\ slot' = [slot EXCEPT ![cursor[t]] = 0]
  /\ LogGoto(t, "fill")
  /\ UNCHANGED <<locals, head, position, logState, file, reporter, dead>>

Fill(t) ==
  /\ At(t, "fill")
  /\ slot' = [slot EXCEPT ![cursor[t]] = message[t]]
  /\ IF ToFile(kindOf[message[t]]) THEN LogGoto(t, "lock") /\ UNCHANGED scratch ELSE Leave(t)
  /\ UNCHANGED <<kindOf, crash, head, position, logState, file, reporter, dead>>

-----------------------------------------------------------------------------
\* writeToFile() and fileForWriting(), under the mutex: nothing more is
\* written after the limit or a failed open; the first message opens.
Lock(t) ==
  /\ At(t, "lock") /\ mutex = Nobody
  /\ IF limitReached \/ openFailed
     THEN Leave(t) /\ UNCHANGED mutex
     ELSE LogGoto(t, IF fd THEN "write" ELSE "open") /\ mutex' = t /\ UNCHANGED scratch
  /\ UNCHANGED <<kindOf, crash, ring, fd, openFailed, limitReached, written, file, reporter, dead>>

\* The thread is in the log's own path through openFile(), not a report's.
Writing(t) == mutex = t

\* open(2), which may fail: for a message for good, for a report this time.
OpenFails(t) ==
  /\ At(t, "open")
  /\ IF Writing(t)
     THEN openFailed' = TRUE /\ mutex' = Nobody /\ Leave(t)
     ELSE LogGoto(t, "unreported") /\ UNCHANGED <<openFailed, mutex, scratch>>
  /\ UNCHANGED <<kindOf, crash, ring, fd, limitReached, written, file, reporter, dead>>

\* compare_exchange on the descriptor: the loser closes its own, uses the
\* winner's and leaves the head of the file to it.
OpenFile(t) ==
  /\ At(t, "open")
  /\ fd' = TRUE
  /\ IF fd
     THEN LogGoto(t, IF Writing(t) THEN "skip" ELSE "report")
     ELSE LogGoto(t, "head")
  /\ UNCHANGED <<locals, ring, mutex, openFailed, limitReached, written, file, reporter, dead>>

\* The head of the file; logWriteHistory()
\* loads the head of the ring ...
WriteHead(t) ==
  /\ At(t, "head")
  /\ upto' = [upto EXCEPT ![t] = head]
  /\ cursor' = [cursor EXCEPT ![t] = IF head > kSlots THEN head - kSlots ELSE 0]
  /\ LogGoto(t, "history")
  /\ UNCHANGED <<kindOf, message, crash, wasOpen, before, ring, logState, file, reporter, dead>>

\* ... and writes the slots behind it, those that are not being filled.
WriteHistory(t) ==
  LET found == slot[cursor[t] % kSlots] IN
  /\ At(t, "history") /\ cursor[t] < upto[t]
  /\ cursor' = [cursor EXCEPT ![t] = @ + 1]
  /\ IF found = 0 THEN UNCHANGED file ELSE Put(found)
  /\ UNCHANGED <<logPc, kindOf, message, upto, crash, wasOpen, before, ring, logState, reporter, dead>>

HistoryWritten(t) ==
  /\ At(t, "history") /\ cursor[t] = upto[t]
  /\ LogGoto(t, CASE Writing(t) -> "skip"
               [] ~Writing(t) /\ wasOpen[t] -> "end"
               [] OTHER -> "report")
  /\ UNCHANGED <<locals, ring, logState, file, reporter, dead>>

\* The message is written, or its history has it (opened && inHistory); it
\* counts, and the one over the limit is the last.
WriteMessage(t) ==
  LET m == message[t] IN
  /\ At(t, "write") \/ At(t, "skip")
  /\ IF logPc[t] = "skip" /\ ToHistory(kindOf[m]) THEN UNCHANGED file ELSE Put(m)
  /\ written' = written + 1
  /\ limitReached' = (written + 1 > MaxFile)
  /\ mutex' = Nobody
  /\ Leave(t)
  /\ UNCHANGED <<kindOf, crash, ring, fd, openFailed, reporter, dead>>

-----------------------------------------------------------------------------
\* A fault in the library's code, an abort, or an exception nobody catches.
Crash(t, what) ==
  /\ At(t, "idle") /\ Len(kindOf) + crashes < MaxEvents
  /\ crashes' = crashes + 1
  /\ crash' = [crash EXCEPT ![t] = what]
  /\ LogGoto(t, "crashed")
  /\ UNCHANGED <<kindOf, message, cursor, upto, wasOpen, before, ring, logState, file, reports, reporting, exceptionReported, dead>>

\* onSignal() and crashReport(): is it reported, is there a report left (the
\* count is taken even when another report is under way), is none under way?
Count(t) ==
  LET wanted == crash[t] # "abort" \/ ~exceptionReported IN
  /\ At(t, "crashed")
  /\ reports' = IF wanted THEN reports + 1 ELSE reports
  /\ LogGoto(t, IF wanted /\ reports < MaxReports THEN "exchange" ELSE "chain")
  /\ UNCHANGED <<locals, ring, logState, file, reporting, exceptionReported, crashes, dead>>

\* The messages that remember() has finished with.
Remembered == {m \in DOMAIN position : position[m] > 0 /\ \A t \in Loggers : logPc[t] \in {"clear", "fill"} => message[t] # m}

\* Mutant: whether the file was open is asked after it was opened.
ExchangeClosed(t) ==
  /\ At(t, "exchange")
  /\ reporting' = TRUE
  /\ IF reporting
     THEN LogGoto(t, "chain") /\ UNCHANGED <<wasOpen, before>>
     ELSE /\ before' = [before EXCEPT ![t] = Remembered]
          /\ wasOpen' = [wasOpen EXCEPT ![t] = FALSE]
          /\ LogGoto(t, "descriptor")
  /\ UNCHANGED <<kindOf, message, cursor, upto, crash, ring, logState, file, reports, exceptionReported, crashes, dead>>

Exchange(t) ==
  /\ At(t, "exchange")
  /\ reporting' = TRUE
  /\ IF reporting
     THEN LogGoto(t, "chain") /\ UNCHANGED <<wasOpen, before>>
     ELSE /\ before' = [before EXCEPT ![t] = Remembered]
          /\ wasOpen' = [wasOpen EXCEPT ![t] = fd]
          /\ LogGoto(t, "descriptor")
  /\ UNCHANGED <<kindOf, message, cursor, upto, crash, ring, logState, file, reports, exceptionReported, crashes, dead>>

\* logFileDescriptor().
Descriptor(t) ==
  /\ At(t, "descriptor")
  /\ LogGoto(t, IF fd THEN "report" ELSE "open")
  /\ UNCHANGED <<locals, ring, logState, file, reporter, dead>>

\* writeReport(): the title and the frames, then the history unless opening
\* the file wrote it.
Report(t) ==
  /\ At(t, "report")
  /\ MarkReport("report", t)
  /\ upto' = [upto EXCEPT ![t] = head]
  /\ cursor' = [cursor EXCEPT ![t] = IF head > kSlots THEN head - kSlots ELSE 0]
  /\ LogGoto(t, IF wasOpen[t] THEN "history" ELSE "end")
  /\ UNCHANGED <<kindOf, message, crash, wasOpen, before, ring, logState, reporter, dead>>

\* Its last line, on stderr too, which names the file: logFilePath() takes
\* the mutex.
ReportEnds(t) ==
  /\ At(t, "end") \/ At(t, "unreported")
  /\ logPc[t] = "end" => mutex = Nobody
  /\ IF logPc[t] = "end" THEN MarkReport("end", t) ELSE UNCHANGED file
  /\ exceptionReported' = (exceptionReported \/ crash[t] = "exception")
  /\ reporting' = FALSE
  /\ LogGoto(t, "chain")
  /\ UNCHANGED <<locals, ring, logState, reports, crashes, dead>>

\* chain(): Wine resolves a fault, an exception goes on to abort(), and an
\* abort ends the process.
Chain(t) ==
  /\ At(t, "chain")
  /\ crash' = [crash EXCEPT ![t] = IF @ = "exception" THEN "abort" ELSE Nobody]
  /\ IF crash[t] = "exception" THEN LogGoto(t, "crashed") /\ UNCHANGED scratch ELSE Leave(t)
  /\ dead' = (crash[t] = "abort")
  /\ UNCHANGED <<kindOf, ring, logState, file, reporter>>

LogNext ==
  \E t \in Loggers :
    \/ \E kind \in LogKinds : Emit(t, kind)
    \/ Claim(t) \/ ClearSlot(t) \/ Fill(t)
    \/ Lock(t) \/ OpenFails(t) \/ OpenFile(t) \/ WriteHead(t) \/ WriteHistory(t) \/ HistoryWritten(t)
    \/ WriteMessage(t)
    \/ \E what \in {"fault", "abort", "exception"} : Crash(t, what)
    \/ Count(t) \/ Exchange(t) \/ Descriptor(t) \/ Report(t) \/ ReportEnds(t) \/ Chain(t)

LogSpec == LogInit /\ [][LogNext]_logVars

-----------------------------------------------------------------------------
\* Another message was remembered in the slot of m.
SharesSlot(m) == \E n \in DOMAIN position \ {m} : position[n] > 0 /\ (position[n] - position[m]) % kSlots = 0

\* The opener of the file, or a report, is about to copy m.
BeingCopied(m) ==
  \E t \in Loggers :
    \/ logPc[t] = "head"
    \/ logPc[t] = "history" /\ cursor[t] < position[m] /\ position[m] <= upto[t]

Reaches(m) == m \in inFile \/ BeingCopied(m) \/ SharesSlot(m)

\* fileForWriting() (log.cpp:257): a thread that opened the file, or lost the
\* race to open it to a crash report, leaves its message to the history, so
\* the copy of the history has it, unless its slot was used again.
NothingLost ==
  \A t \in Loggers : ~dead /\ logPc[t] = "skip" /\ ToHistory(kindOf[message[t]]) => Reaches(message[t])

\* writeReport() (crash.cpp:238): whether the report finds the file open,
\* opens it or is overtaken by a thread that does, what was remembered before
\* the report is in the file at its end, or being copied by that thread.
ReportHasHistory ==
  \A t \in Loggers : ~dead /\ logPc[t] = "end" => \A m \in before[t] : Reaches(m)

\* g_reporting (crash.cpp:323, :368): two reports are never mixed in the
\* file, and there are at most kMaxReports.
ReportsApart ==
  /\ Len(marks) <= 2 * MaxReports
  /\ \A i \in DOMAIN marks :
       /\ marks[i].part = IF i % 2 = 1 THEN "report" ELSE "end"
       /\ i % 2 = 0 => marks[i].thread = marks[i - 1].thread

LogSound == NothingLost /\ ReportHasHistory /\ ReportsApart

-----------------------------------------------------------------------------
\* Where a thread is in emit(), where in the crash handler; in openFile() and
\* logWriteHistory() it may be for either, and has a message in emit() only.
InEmit == {"claim", "clear", "fill", "lock", "write", "skip"}
InOpen == {"open", "head", "history"}
InCrash == {"crashed", "exchange", "descriptor", "report", "end", "unreported", "chain"}
Emits(t) == message[t] # 0

LogTypeOK ==
  /\ logPc \in [Loggers -> {"idle"} \cup InEmit \cup InOpen \cup InCrash]
  /\ kindOf \in Seq(LogKinds) /\ position \in Seq(Nat) /\ Len(position) = Len(kindOf)
  /\ message \in [Loggers -> 0..Len(kindOf)]
  /\ cursor \in [Loggers -> Nat] /\ upto \in [Loggers -> Nat]
  /\ wasOpen \in [Loggers -> BOOLEAN] /\ before \in [Loggers -> SUBSET Nat]
  /\ head \in Nat /\ slot \in [0..kSlots - 1 -> Nat]
  /\ fd \in BOOLEAN /\ mutex \in Loggers \cup {Nobody}
  /\ marks \in Seq([part : {"report", "end"}, thread : Loggers])
  /\ reports \in Nat /\ reporting \in BOOLEAN

\* A message is one thread's, which holds the mutex where it opens and writes
\* the file.
Agrees(t) ==
  /\ logPc[t] \in {"idle"} \cup InCrash => ~Emits(t)
  /\ logPc[t] \in InEmit => Emits(t)
  /\ mutex = t <=> Emits(t) /\ logPc[t] \in InOpen \cup {"write", "skip"}
  /\ Emits(t) => \A u \in Loggers \ {t} : message[u] # message[t]

\* The head has counted the places given out.
PlacesCounted ==
  /\ \A p \in 1..head : \E m \in DOMAIN position : position[m] = p
  /\ \A m \in DOMAIN position : position[m] <= head

\* A message on its way into its slot has a place.
Placed(t) ==
  /\ logPc[t] = "claim" => position[message[t]] = 0
  /\ logPc[t] \in {"clear", "fill"} =>
       position[message[t]] > 0 /\ cursor[t] = (position[message[t]] - 1) % kSlots
  /\ Emits(t) /\ logPc[t] \in InOpen \cup {"lock", "write", "skip"} /\ ToHistory(kindOf[message[t]]) =>
       position[message[t]] > 0
  /\ logPc[t] = "history" => cursor[t] <= upto[t] /\ upto[t] <= head
  /\ before[t] \subseteq Remembered

\* What was remembered is in its slot until the slot is used again.
RingHolds ==
  \A m \in Remembered : slot[(position[m] - 1) % kSlots] = m \/ SharesSlot(m)

\* What the file is to have: for a thread in emit() its message, once the file
\* is open and it did not find it so; for a report what was remembered when it
\* began, unless it is still to copy the history itself.
Owes(t) ==
  IF Emits(t)
  THEN ToHistory(kindOf[message[t]]) /\ (logPc[t] \in {"head", "history", "skip"} \/ (logPc[t] = "open" /\ fd))
  ELSE logPc[t] \in {"head", "history", "end"} \/ (logPc[t] \in {"descriptor", "open", "report"} /\ ~wasOpen[t] /\ fd)
Owed(t) == IF ~Owes(t) THEN {} ELSE IF Emits(t) THEN {message[t]} ELSE before[t]

FileHas(t) ==
  /\ \A m \in Owed(t) : Reaches(m)
  /\ logPc[t] \in {"head", "history", "skip", "report"} => fd
  /\ ~Emits(t) /\ logPc[t] \in {"descriptor", "report", "end"} /\ wasOpen[t] => fd
  /\ ~Emits(t) /\ logPc[t] \in {"open", "head"} => ~wasOpen[t]

\* The report under way, whether its title is in the file, and those that may
\* still write theirs.
Reporter(t) == ~Emits(t) /\ logPc[t] \in InOpen \cup {"descriptor", "report", "end", "unreported"}
Titled(t) == ~Emits(t) /\ (logPc[t] = "end" \/ (logPc[t] = "history" /\ wasOpen[t]))
Untitled == {t \in Loggers : logPc[t] = "exchange" \/ (Reporter(t) /\ ~Titled(t) /\ logPc[t] # "unreported")}

OneReporter ==
  /\ \A t, u \in Loggers : Reporter(t) /\ Reporter(u) => t = u
  /\ \A t \in Loggers : Reporter(t) => reporting
  /\ \A i \in DOMAIN marks :
       /\ marks[i].part = IF i % 2 = 1 THEN "report" ELSE "end"
       /\ i % 2 = 0 => marks[i].thread = marks[i - 1].thread
  /\ Len(marks) % 2 = 1 => \E t \in Loggers : Titled(t)
  /\ \A t \in Loggers : Titled(t) => Len(marks) % 2 = 1 /\ marks[Len(marks)].thread = t
  /\ LET begun == (Len(marks) + 1) \div 2 + Cardinality(Untitled) IN begun <= reports /\ begun <= MaxReports

LogIInv ==
  /\ LogTypeOK /\ PlacesCounted /\ RingHolds /\ OneReporter
  /\ \A t \in Loggers : Agrees(t) /\ Placed(t) /\ FileHas(t)
=============================================================================

---------------------------- MODULE FenceContract ----------------------------
(***************************************************************************)
(* What the queue (core/metal/queue.h) promises the users of serials:      *)
(* command buffers are numbered in the order they are made, each is        *)
(* submitted or dropped once, submitted work runs, and a serial is         *)
(* reported complete only when its work has run or was dropped.            *)
(***************************************************************************)
EXTENDS Integers

CONSTANT MaxSerial

VARIABLES work,      \* the life of each serial's command buffer
          signaled   \* serials some caller was told are complete

contractVars == <<work, signaled>>

Numbers == 1 .. MaxSerial

Init == work = [s \in Numbers |-> "unused"] /\ signaled = {}

Become(s, from, to) ==
  /\ work[s] = from
  /\ work' = [work EXCEPT ![s] = to]
  /\ UNCHANGED signaled

Open(s)    == /\ \A r \in 1 .. s - 1 : work[r] # "unused"
              /\ Become(s, "unused", "recording")
Submit(s)  == Become(s, "recording", "submitted")
Drop(s)    == Become(s, "recording", "dropped")
Execute(s) == Become(s, "submitted", "executed")

Report(s) ==
  /\ work[s] \in {"executed", "dropped"}
  /\ signaled' = signaled \cup {s}
  /\ UNCHANGED work

Next == \E s \in Numbers :
          Open(s) \/ Submit(s) \/ Drop(s) \/ Execute(s) \/ Report(s)

SafetySpec == Init /\ [][Next]_contractVars
Spec == SafetySpec /\ \A s \in Numbers : WF_contractVars(Execute(s))
=============================================================================

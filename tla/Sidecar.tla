-------------------------------- MODULE Sidecar --------------------------------
(***************************************************************************)
(* x87 acceleration of a 32-bit program (wine/unix/unix_x87.c): the        *)
(* program starts a sidecar process, waits for its service, suspends its   *)
(* own other threads and hands it its task port, so that the sidecar       *)
(* patches Rosetta's translator while nothing runs in it. The sidecar is   *)
(* external: it registers, patches and answers, or dies, when it likes.    *)
(***************************************************************************)
EXTENDS Naturals

CONSTANTS MaxTries      \* 300: looks for the service

VARIABLES
    at,               \* where attach() is
    tries,
    suspended,        \* the program's other threads are
    sidecar,          \* "none", "starting", "serving", "asked", "patching", "patched", "dead"
    launched,         \* the service was there before attach()
    child,            \* attach() has a child it has not waited for
    answer,           \* the reply port has a message: "none", "reply" or "gone"
    outcome
vars == <<at, tries, suspended, sidecar, launched, child, answer, outcome>>

Init ==
    /\ at = "start" /\ tries = 0 /\ suspended = FALSE
    /\ launched \in BOOLEAN
    /\ sidecar = IF launched THEN "patched" ELSE "none"
    /\ child = FALSE /\ answer = "none" /\ outcome = "none"

Registered == sidecar \in {"serving", "asked", "patching", "patched"}
End(result) == at' = "end" /\ outcome' = result

\* Not wanted; a service already there, from the launch; no sidecar to start.
Start ==
    /\ at = "start"
    /\ \/ End("off")
       \/ Registered /\ End("already")
       \/ ~Registered /\ End("missing")
       \/ ~Registered /\ at' = "spawn" /\ UNCHANGED outcome
    /\ UNCHANGED <<tries, suspended, sidecar, launched, child, answer>>
Spawn ==
    /\ at = "spawn"
    /\ \/ End("missing") /\ UNCHANGED <<sidecar, child>>
       \/ at' = "poll" /\ sidecar' = "starting" /\ child' = TRUE /\ UNCHANGED outcome
    /\ UNCHANGED <<tries, suspended, launched, answer>>

\* A look for the service, then for the child's end, then 10 ms.
Poll ==
    /\ at = "poll"
    /\ \/ tries < MaxTries /\ Registered /\ at' = "suspend" /\ UNCHANGED <<tries, child, outcome>>
       \/ tries < MaxTries /\ sidecar = "dead" /\ child' = FALSE /\ End("slow") /\ UNCHANGED tries
       \/ tries < MaxTries /\ sidecar = "starting" /\ tries' = tries + 1 /\ UNCHANGED <<at, child, outcome>>
       \/ tries = MaxTries /\ at' = "kill" /\ UNCHANGED <<tries, child, outcome>>
    /\ UNCHANGED <<suspended, sidecar, launched, answer>>

\* handshake(): no step of it needs another thread.
Suspend ==
    /\ at = "suspend" /\ suspended' = TRUE /\ at' = "send"
    /\ UNCHANGED <<tries, sidecar, launched, child, answer, outcome>>
Send ==
    /\ at = "send"
    /\ IF sidecar = "dead"
       THEN at' = "resume" /\ UNCHANGED sidecar
       ELSE at' = "receive" /\ sidecar' = "asked"
    /\ UNCHANGED <<tries, suspended, launched, child, answer, outcome>>
\* Mutant: the program waits for an answer as long as it takes.
ReceivePatiently ==
    /\ at = "receive" /\ answer # "none"
    /\ at' = IF answer = "reply" THEN "hooked" ELSE "resume"
    /\ UNCHANGED <<tries, suspended, sidecar, launched, child, answer, outcome>>

\* The reply, the notification of a sidecar that died, or 30 seconds.
Receive ==
    /\ at = "receive"
    /\ at' = IF answer = "reply" THEN "hooked" ELSE "resume"
    /\ UNCHANGED <<tries, suspended, sidecar, launched, child, answer, outcome>>
Resume ==
    /\ at \in {"hooked", "resume"} /\ suspended' = FALSE
    /\ IF at = "hooked" THEN End("fast") ELSE at' = "kill" /\ UNCHANGED outcome
    /\ UNCHANGED <<tries, sidecar, launched, child, answer>>
Kill ==
    /\ at = "kill" /\ End("slow")
    /\ sidecar' = "dead" /\ child' = FALSE
    /\ UNCHANGED <<tries, suspended, launched, answer>>

Attach == Start \/ Spawn \/ Poll \/ Suspend \/ Send \/ Receive \/ Resume \/ Kill

\* What the sidecar does; a message it got and does not answer comes back.
Step(from, to) == sidecar = from /\ sidecar' = to
Serves == Step("starting", "serving") /\ UNCHANGED answer
Patches == Step("asked", "patching") /\ UNCHANGED answer
Answers == Step("patching", "patched") /\ answer' = "reply"
Dies ==
    /\ ~launched /\ sidecar \in {"starting", "serving", "asked", "patching"}
    /\ sidecar' = "dead"
    /\ answer' = IF sidecar \in {"asked", "patching"} THEN "gone" ELSE answer
TheSidecar ==
    /\ Serves \/ Patches \/ Answers \/ Dies
    /\ UNCHANGED <<at, tries, suspended, launched, child, outcome>>

Next == Attach \/ TheSidecar

Spec == Init /\ [][Next]_vars /\ WF_vars(Attach)

-----------------------------------------------------------------------------
\* However the sidecar fails, the program goes on: attach() returns, all its
\* threads run, and no process or zombie of a sidecar that did not hook it
\* remains (unix_x87.c: "leaves the program unhooked, and running").
ProgramGoesOn == <>[](at = "end" /\ ~suspended /\ (child => outcome = "fast"))
=============================================================================

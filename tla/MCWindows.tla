------------------------------ MODULE MCWindows -------------------------------
(***************************************************************************)
(* Small instances of what happens to the windows and contexts of a        *)
(* program: WGL contexts and drawables, the view a window's drawable is    *)
(* shown in, the presenter of a surface, and the sidecar of the x87        *)
(* translator. They share no state: `part` says which of them a behaviour  *)
(* is of, and the variables of the others do not change.                   *)
(***************************************************************************)
EXTENDS Mailbox, WindowHost

CONSTANTS Nothing

VARIABLES
  part,
  known, tracked, swaps, doing, drawable, current, contexts, owner, bound, made,
  window, pbuffer,
  at, tries, suspended, sidecar, launched, child, answer, outcome

contexts_vars == <<known, tracked, swaps, doing, drawable, current, contexts,
  owner, bound, made, window, pbuffer>>
sidecar_vars == <<at, tries, suspended, sidecar, launched, child, answer,
  outcome>>
all == <<part, vars, contexts_vars, hostVars, sidecar_vars>>

X == INSTANCE WglContexts WITH
       Threads <- {"s", "t"}, Windows <- {"w"}, Slots <- {1}, MaxMade <- 1,
       CheckEvery <- 2, ForgetMost <- 1, alive <- known, state <- drawable,
       currentOf <- current

S == INSTANCE Sidecar WITH
       MaxTries <- 3

No_contexts ==
  /\ known = Nothing /\ tracked = Nothing /\ swaps = Nothing
  /\ doing = Nothing /\ drawable = Nothing /\ current = Nothing
  /\ contexts = Nothing /\ owner = Nothing /\ bound = Nothing
  /\ made = Nothing /\ window = Nothing /\ pbuffer = Nothing
No_host == HostInit /\ wanted.top = "t"
No_sidecar ==
  /\ at = Nothing /\ tries = Nothing /\ suspended = Nothing
  /\ sidecar = Nothing /\ launched = Nothing /\ child = Nothing
  /\ answer = Nothing /\ outcome = Nothing

MCInit ==
  /\ Init
  /\ \/ part = "mailbox" /\ No_contexts /\ No_host /\ No_sidecar
     \/ part = "contexts" /\ X!ContextsInit /\ No_host /\ No_sidecar
     \/ part = "host" /\ HostInit /\ No_contexts /\ No_sidecar
     \/ part = "sidecar" /\ S!Init /\ No_contexts /\ No_host

MCNext ==
  /\ UNCHANGED part
  /\ \/ part = "mailbox" /\ Next /\ UNCHANGED <<contexts_vars, hostVars, sidecar_vars>>
     \/ part = "contexts" /\ X!ContextsNext /\ UNCHANGED <<vars, hostVars, sidecar_vars>>
     \/ part = "host" /\ HostNext /\ UNCHANGED <<vars, contexts_vars, sidecar_vars>>
     \/ part = "sidecar" /\ S!Next /\ UNCHANGED <<vars, contexts_vars, hostVars>>

MailboxAlone == part = "mailbox" /\ UNCHANGED <<part, contexts_vars, hostVars, sidecar_vars>>
MCFairness ==
  /\ WF_all(MailboxAlone /\ ProducerWork) /\ WF_all(MailboxAlone /\ StopWork)
  /\ WF_all(MailboxAlone /\ PresenterWork)
  /\ WF_all(MailboxAlone /\ RunCopy) /\ WF_all(MailboxAlone /\ RunPresent)
  /\ WF_all(MailboxAlone /\ CopyHandler) /\ WF_all(MailboxAlone /\ PresentHandler)
  /\ \A h \in {"copy", "present"} : WF_all(MailboxAlone /\ HandlerNotify(h))
  /\ \A t \in {"s", "t"} : WF_all(part = "contexts" /\ X!Continue(t) /\ UNCHANGED <<part, vars, hostVars, sidecar_vars>>)
  /\ \E t \in {"s", "t"} : WF_all(part = "contexts" /\ (\E dc \in X!Dcs : X!BeginSwap(t, dc)) /\ UNCHANGED <<part, vars, hostVars, sidecar_vars>>)
  /\ WF_all(part = "host" /\ RunPlacement /\ UNCHANGED <<part, vars, contexts_vars, sidecar_vars>>)
  /\ WF_all(part = "host" /\ RunTimer /\ UNCHANGED <<part, vars, contexts_vars, sidecar_vars>>)
  /\ WF_all(part = "host" /\ RunDestroy /\ UNCHANGED <<part, vars, contexts_vars, sidecar_vars>>)
  /\ WF_all(part = "host" /\ Place /\ UNCHANGED <<part, vars, contexts_vars, sidecar_vars>>)
  /\ WF_all(part = "sidecar" /\ S!Attach /\ UNCHANGED <<part, vars, contexts_vars, hostVars>>)

MCSpec == MCInit /\ [][MCNext]_all /\ MCFairness

(* The swap of a mailbox gets a slot and stopMailbox() returns (Mailbox),  *)
(* and the drawable of a window that is destroyed goes, as long as any     *)
(* thread swaps (winemetalgl.c:407, WglContexts).                          *)
WaitsEnd ==
  \/ part = "mailbox" /\ producer \in {"acquire", "stopping"}
  \/ part = "contexts" /\ known = {}
  ~>
  \/ part = "mailbox" /\ producer \in {"copy", "idle"}
  \/ part = "contexts" /\ window["w"] # "surface"

(* The presenter catches up with the swaps again and again, so that the    *)
(* last frame before a pause is shown (Mailbox); and however the sidecar   *)
(* fails, the program goes on (Sidecar).                                   *)
Settles ==
  []<>(/\ part = "mailbox" => CaughtUp
       /\ part = "sidecar" => at = "end" /\ ~suspended /\ (child => outcome = "fast"))
===============================================================================

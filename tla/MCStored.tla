------------------------------- MODULE MCStored -------------------------------
(***************************************************************************)
(* Small instances of what is kept and rewritten while others use it: the  *)
(* storages of a buffer, and what the settings application keeps on disk.  *)
(* They share no state: `part` says which of them a behaviour is of.       *)
(* Parts other than "buffer" keep their variables in x1, x2, ...: which of *)
(* them is which is said where the part is instantiated, and those a part  *)
(* has none for hold None.                                                 *)
(***************************************************************************)
EXTENDS MCSharedBuffer

VARIABLES part, x1, x2, x3, x4, x5, x6, x7, x8, x9, x10, x11

x == <<x1, x2, x3, x4, x5, x6, x7, x8, x9, x10, x11>>
all == <<part, vars, x>>

S == INSTANCE SettingsFile WITH
       Unset <- None, MaxLines <- 2,
       file <- x1, byHand <- x2, store <- x3, saved <- x4, process <- x5

U == INSTANCE AppUpdate WITH
       NoApp <- None,
       feed <- x1, apps <- x2, staged <- x3, pending <- x4, wines <- x5,
       proc <- x6, newest <- x7, lowered <- x8

T == INSTANCE WineTargets WITH
       MaxTasks <- 2, MaxChanges <- 2,
       disk <- x1, defaults <- x2, targets <- x3, crossovers <- x4, wines <- x5,
       tasks <- x6, script <- x7, changes <- x8, fresh <- x9

G == INSTANCE GameFixes WITH
       NoCopy <- None, MaxChanges <- 2,
       autoexec <- x1, modes <- x2, running <- x3, wineFile <- x4, stagedFile <- x5,
       backups <- x6, wine <- x7, app <- x8, step <- x9, result <- x10, changes <- x11

From6 == <<x6, x7, x8, x9, x10, x11>>
From9 == <<x9, x10, x11>>
From10 == <<x10, x11>>
No6 == x6 = None /\ x7 = None /\ x8 = None
No9 == x9 = None
No10 == x10 = None /\ x11 = None
NoX == x1 = None /\ x2 = None /\ x3 = None /\ x4 = None /\ x5 = None

(* Immutable buffers are large here: a small one differs from it only in   *)
(* that a copy into it may start a shadow, as into those not immutable.    *)
MCInit ==
  /\ Init
  /\ \/ part = "buffer" /\ NoX /\ No6 /\ No9 /\ No10
     \/ part = "settings" /\ S!SettingsInit /\ No6 /\ No9 /\ No10
     \/ part = "update" /\ U!UpdateInit /\ No9 /\ No10
     \/ part = "targets" /\ T!Init /\ No10
     \/ part = "fixes" /\ G!FixesInit
  /\ IF part = "buffer" THEN buffer.immutable => buffer.large
     ELSE ~buffer.large /\ ~buffer.immutable

MCNext ==
  /\ UNCHANGED part
  /\ \/ part = "buffer" /\ Next /\ UNCHANGED x
     \/ part = "settings" /\ S!SettingsNext /\ UNCHANGED <<vars, From6>>
     \/ part = "update" /\ U!UpdateNext /\ UNCHANGED <<vars, From9>>
     \/ part = "targets" /\ T!Next /\ UNCHANGED <<vars, From10>>
     \/ part = "fixes" /\ G!FixesNext /\ UNCHANGED vars

MCSpec == MCInit /\ [][MCNext]_all

ASSUME StoredAssumption == U!UpdateAssumption /\ G!FixesAssumption

(* A setting read is the one written, unless the environment overrides it  *)
(* (SettingsFile); an update is whole, the team's and no older than what   *)
(* it replaces (AppUpdate); what is shown is what is on disk (WineTargets) *)
(* and a game's files are as they were, or fixed, with what they were kept *)
(* (GameFixes).                                                            *)
SettingsSound ==
  /\ part = "settings" => S!EnvironmentWins /\ S!WrittenIsRead
  /\ part = "update" => U!UpdateSound
  /\ part = "targets" => T!TargetsSound
  /\ part = "fixes" => G!FixesSound
===============================================================================

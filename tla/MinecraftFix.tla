---------------------------- MODULE MinecraftFix ----------------------------
(***************************************************************************)
(* The Minecraft fix of the settings application (minecraftFix(),          *)
(* Arm64Fixes.swift): one pass after another puts the fix's JVM arguments  *)
(* into a launcher's instance or takes them out, with the record of what   *)
(* they were.  Meanwhile the player uses the launcher, and the application *)
(* is killed; writing a file may fail.                                     *)
(*                                                                         *)
(* One Prism Launcher instance stands for the launchers (the other two     *)
(* keep the same record in other file formats).  A player's JVM arguments  *)
(* are a model value, the fix's own are its glue.  The launcher's global   *)
(* arguments stay as they are.  A file is replaced in one step (rename).   *)
(***************************************************************************)

CONSTANTS
  Arguments,  \* a player's own JVM arguments
  Global,     \* the launcher's, which an instance without its own uses
  Glues,      \* "sdl3" and "glfw"
  Absent

VARIABLES
  phase,         \* where apply() is
  wanted,        \* the switches its pass goes by
  cfg,           \* instance.cfg: [override, jvm, ours]
  glue,          \* the glue the instance's LWJGL is for
  launcher,      \* Absent, or the instance.cfg that a running launcher has read
  launcherSeen,  \* what running() said when apply() started
  own,           \* ghost: the arguments the player has chosen
  record, recordFile,  \* Records in memory and NativeFixes.json
  disturbed      \* ghost: killed, or overwritten by a launcher, while patching

prism == <<cfg, glue, launcher, launcherSeen, own, record, recordFile, disturbed>>
minecraftVars == <<phase, wanted, prism>>

InstanceCfg == [override : BOOLEAN, jvm : Arguments \cup {Absent}, ours : Glues \cup {Absent}]

MinecraftAssumption == Global \in Arguments \cup {Absent} /\ Absent \notin InstanceCfg

MinecraftTypeOK ==
  /\ cfg \in InstanceCfg
  /\ phase \in {"idle", "minecraft", "save"}

MinecraftInit ==
  /\ phase = "idle"
  /\ wanted = FALSE
  /\ cfg \in [override : BOOLEAN, jvm : Arguments, ours : {Absent}]
  /\ glue \in Glues
  /\ own = [override |-> cfg.override, jvm |-> cfg.jvm]
  /\ launcher = Absent /\ launcherSeen = FALSE
  /\ record = Absent /\ recordFile = Absent
  /\ disturbed = FALSE

-----------------------------------------------------------------------------
(* The player. *)

LauncherOpens ==
  /\ launcher = Absent
  /\ launcher' = cfg
  /\ UNCHANGED <<phase, wanted, cfg, glue, launcherSeen, own, record, recordFile, disturbed>>

\* New arguments in the launcher, which keeps the words of the fix in the
\* line when the player edits around them, or the instance's switch off.
LauncherEdits ==
  /\ launcher # Absent
  /\ \/ \E j \in Arguments :
          /\ launcher' = [launcher EXCEPT !.override = TRUE, !.jvm = j]
          /\ own' = [override |-> TRUE, jvm |-> j]
     \/ /\ launcher.override
        /\ launcher' = [launcher EXCEPT !.override = FALSE]
        /\ own' = [own EXCEPT !.override = FALSE]
  /\ UNCHANGED <<phase, wanted, cfg, glue, launcherSeen, record, recordFile, disturbed>>

\* The launcher writes the settings it holds, and quits.
LauncherQuits ==
  /\ launcher # Absent
  /\ launcher' = Absent
  /\ cfg' = launcher
  /\ disturbed' = (disturbed \/ (phase \in {"minecraft", "save"} /\ ~launcherSeen) \/ launcher.ours # cfg.ours)
  /\ UNCHANGED <<phase, wanted, glue, launcherSeen, own, record, recordFile>>

\* The instance gets another Minecraft, and another LWJGL.
InstanceUpdated(g) ==
  /\ launcher # Absent /\ g # glue
  /\ glue' = g
  /\ UNCHANGED <<phase, wanted, cfg, launcher, launcherSeen, own, record, recordFile, disturbed>>

-----------------------------------------------------------------------------
(* minecraftFix() *)

\* apply(), when no other is busy, with the switches as they are: the record
\* is read, and whether the launcher runs.
Apply(on) ==
  /\ phase = "idle"
  /\ phase' = "minecraft"
  /\ wanted' = on
  /\ record' = recordFile
  /\ launcherSeen' = (launcher # Absent)
  /\ UNCHANGED <<cfg, glue, launcher, own, recordFile, disturbed>>

\* setPrism(): the player's own arguments, or the global ones, and the
\* glue's; what was there first is what gets recorded.
SetPrism ==
  /\ cfg' = [override |-> TRUE, jvm |-> IF cfg.override THEN cfg.jvm ELSE Global, ours |-> glue]
  /\ record' = IF record = Absent THEN cfg ELSE record

\* restorePrism(): back as it was, or without the fix's arguments when the
\* player has changed the others.
RestorePrism ==
  LET before == IF record.override THEN record.jvm ELSE Global IN
  /\ cfg' = IF cfg.jvm = before THEN record ELSE [cfg EXCEPT !.ours = Absent]
  /\ record' = Absent

InPlace == cfg.override /\ cfg.ours = glue

PatchPrism ==
  /\ phase = "minecraft"
  /\ phase' = "save"
  /\ \/ /\ launcherSeen \/ (IF wanted THEN InPlace ELSE record = Absent)
        /\ UNCHANGED <<cfg, record>>
     \/ /\ ~launcherSeen /\ wanted /\ ~InPlace
        /\ SetPrism
     \/ /\ ~launcherSeen /\ ~wanted /\ record # Absent
        /\ RestorePrism
  /\ UNCHANGED <<wanted, glue, launcher, launcherSeen, own, recordFile, disturbed>>

\* The backup, or writing instance.cfg, fails.
PatchFails ==
  /\ phase = "minecraft"
  /\ phase' = "save"
  /\ UNCHANGED <<wanted, prism>>

\* defer { record.save() }.
SaveRecord ==
  /\ phase = "save"
  /\ phase' = "idle"
  /\ recordFile' = record
  /\ launcherSeen' = FALSE
  /\ UNCHANGED <<wanted, cfg, glue, launcher, own, record, disturbed>>

\* The application is killed, and opened again.
Killed ==
  /\ phase # "idle"
  /\ phase' = "idle"
  /\ record' = recordFile
  /\ launcherSeen' = FALSE
  /\ disturbed' = (disturbed \/ record # recordFile)
  /\ UNCHANGED <<wanted, cfg, glue, launcher, own, recordFile>>

MinecraftNext ==
  \/ LauncherOpens \/ LauncherEdits \/ LauncherQuits
  \/ \E g \in Glues : InstanceUpdated(g)
  \/ \E on \in BOOLEAN : Apply(on)
  \/ PatchPrism \/ PatchFails \/ SaveRecord
  \/ Killed

MinecraftSpec == MinecraftInit /\ [][MinecraftNext]_minecraftVars

-----------------------------------------------------------------------------
Effective(c) == IF c.override THEN c.jvm ELSE Global

\* "Their earlier arguments are kept" (Arm64Fixes.swift:11): arguments that
\* the player set for the instance are what it has, apart from the fix's,
\* whatever was killed, failed or overwritten on the way.
OwnArgumentsKept == own.override /\ launcher = Absent => Effective(cfg) = own.jvm

\* "... and recorded so that turning the fix off restores them" (:11): unless
\* a pass was killed before it saved the record, or the launcher wrote over
\* one, arguments of the fix that are in the instance are on record.
OursAreRecorded == ~disturbed /\ phase # "save" /\ cfg.ours # Absent => recordFile # Absent

MinecraftKept == MinecraftTypeOK /\ OwnArgumentsKept /\ OursAreRecorded

-----------------------------------------------------------------------------
\* What the player sees: a running launcher shows what it has read.
Shown == IF launcher # Absent THEN launcher ELSE cfg

\* A record that would give the instance arguments of its own.
Restores(r) == r # Absent /\ r.override

\* While a pass is between its look at the record and its end, the record in
\* memory is the file's, and that of an undisturbed instance is of a time
\* without the fix.
RecordsFit ==
  /\ record \in InstanceCfg \cup {Absent} /\ recordFile \in InstanceCfg \cup {Absent}
  /\ phase # "save" => record = recordFile
  /\ ~disturbed =>
       /\ record # Absent => record.ours = Absent
       /\ recordFile # Absent => recordFile.ours = Absent
       /\ cfg.ours # Absent => record # Absent

\* Arguments that the player set are shown; where the instance has none of
\* its own, because they are the launcher's, no record brings others back.
OwnIsShown ==
  own.override =>
    /\ Effective(Shown) = own.jvm
    /\ Shown.override \/ ~(Restores(record) \/ Restores(recordFile))
    /\ phase = "minecraft" /\ ~launcherSeen => (Shown.override \/ ~cfg.override)

MinecraftIInv ==
  /\ MinecraftTypeOK
  /\ launcher \in InstanceCfg \cup {Absent} /\ own \in [override : BOOLEAN, jvm : Arguments]
  /\ disturbed \in BOOLEAN /\ launcherSeen \in BOOLEAN
  /\ glue \in Glues
  /\ RecordsFit
  /\ OwnIsShown
=============================================================================

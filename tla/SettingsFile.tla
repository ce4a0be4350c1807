----------------------------- MODULE SettingsFile -----------------------------
(***************************************************************************)
(* The settings file: WineMetalGL Settings (SettingsStore,                 *)
(* settings-app/WineMetalGLSettings.swift) reads and writes it, and the    *)
(* core (util/settings.cpp) takes it into the environment of the process   *)
(* it is loaded into, whose children inherit that.                         *)
(*                                                                         *)
(* A line is a name and a value; a comment's name is Comment. A player     *)
(* edits the file while the application is closed: what is in it by hand   *)
(* when the application writes it is lost (README.md).                     *)
(***************************************************************************)
EXTENDS Naturals, Sequences

CONSTANTS
  Unset,
  MaxLines   \* bound: lines written by hand

VARIABLES
  file,       \* the lines
  byHand,     \* history: those of them the application does not manage
  store,      \* the application's store, or Unset
  saved,      \* history: it has written the file since it opened
  process     \* the process that loaded the core last, or Unset

settingsVars == <<file, byHand, store, saved, process>>

Comment == "#"
Managed == {"UPSCALE", "MAX_FRAME_RATE", "LOG", "LOG_FILE", "X87"}
Names == Managed \cup {"CACHE"}

Upscales == {"off", "quality"}
Rates == {"", "60"}
QuietLevels == {"off", "warn"}         \* and the other names of these levels
HandLines ==
  {[name |-> Comment, value |-> "note"], [name |-> "CACHE", value |-> "0"], [name |-> "UPSCALE", value |-> "quality"],
   [name |-> "UPSCALE", value |-> "sharp"], [name |-> "LOG", value |-> "3"]}

Unmanaged(lines) == SelectSeq(lines, LAMBDA l : l.name \notin Managed)

SettingsInit ==
  /\ file = <<>> /\ byHand = <<>>
  /\ store = Unset /\ saved = FALSE
  /\ process = Unset

-----------------------------------------------------------------------------
(* The application. *)

\* The last line of a name counts.
LastValue(lines, name, default) ==
  LET at == {i \in DOMAIN lines : lines[i].name = name}
  IN  IF at = {} THEN default ELSE lines[CHOOSE i \in at : \A j \in at : j <= i].value

Load(lines) ==
  LET upscale == LastValue(lines, "UPSCALE", "off")
      rate == LastValue(lines, "MAX_FRAME_RATE", "")
      level == LastValue(lines, "LOG", "")
  IN  [lines |-> lines,
       upscale |-> IF upscale \in Upscales THEN upscale ELSE "off",
       maxFrameRate |-> IF rate \in Rates THEN rate ELSE "",
       loggingChosen |-> level # "",
       logging |-> level # "" /\ level \notin QuietLevels,
       x87Chosen |-> LastValue(lines, "X87", Unset) # Unset,
       x87 |-> LastValue(lines, "X87", Unset) = "1"]

Header == [name |-> Comment, value |-> "header"]
Line(when, name, value) == IF when THEN <<[name |-> name, value |-> value]>> ELSE <<>>

Written(s) ==
  LET kept == Unmanaged(s.lines)
  IN  (IF kept = <<>> THEN <<Header>> ELSE kept)
        \o Line(s.upscale # "off", "UPSCALE", s.upscale)
        \o Line(s.maxFrameRate # "", "MAX_FRAME_RATE", s.maxFrameRate)
        \o Line(s.logging, "LOG", "2")
        \o Line(~s.logging /\ s.loggingChosen, "LOG", "off")
        \o Line(~s.logging /\ s.loggingChosen, "LOG_FILE", "0")
        \o Line(s.x87Chosen, "X87", IF s.x87 THEN "1" ELSE "0")

Open ==
  /\ store = Unset
  /\ store' = Load(file) /\ saved' = FALSE
  /\ UNCHANGED <<file, byHand, process>>

\* A setting changes (its didSet): save().
Save(s) ==
  /\ store' = [s EXCEPT !.lines = Written(s)]
  /\ file' = Written(s)
  /\ byHand' = IF byHand = <<>> THEN <<Header>> ELSE byHand
  /\ saved' = TRUE
  /\ UNCHANGED process

Change ==
  /\ store # Unset
  /\ \/ \E u \in Upscales \ {store.upscale} : Save([store EXCEPT !.upscale = u])
     \/ \E r \in {"", "60"} \ {store.maxFrameRate} : Save([store EXCEPT !.maxFrameRate = r])
     \/ Save([store EXCEPT !.logging = ~@, !.loggingChosen = TRUE])
     \/ Save([store EXCEPT !.x87 = ~@, !.x87Chosen = TRUE])

Quit ==
  /\ store # Unset
  /\ store' = Unset /\ saved' = FALSE
  /\ UNCHANGED <<file, byHand, process>>

EditByHand ==
  /\ store = Unset /\ Len(file) < MaxLines
  /\ \E l \in HandLines : file' = Append(file, l)
  /\ byHand' = Unmanaged(file')
  /\ UNCHANGED <<store, saved, process>>

-----------------------------------------------------------------------------
(* The core. *)

(* Mutant: what an earlier process had from the file stays. *)
DroppedNever(p) == p.env

\* What an earlier process had from the file goes; a comment has no name that
\* is a setting's.
Dropped(p) == [name \in Names |-> IF name \in p.applied THEN Unset ELSE p.env[name]]

\* The first line of a name counts: the second finds it in the environment.
FirstValue(lines, name) ==
  LET at == {i \in DOMAIN lines : lines[i].name = name}
  IN  lines[CHOOSE i \in at : \A j \in at : i <= j].value

ApplySettingsFile(p) ==
  LET env == Dropped(p)
      applied == IF p.off THEN {} ELSE {file[i].name : i \in DOMAIN file} \cap {n \in Names : env[n] = Unset}
  IN  [p EXCEPT !.env = [n \in Names |-> IF n \in applied THEN FirstValue(file, n) ELSE env[n]],
                      !.applied = applied, !.read = file]

\* A process is started with variables of its own, or with no settings file
\* (WINEMETALGL_SETTINGS=0), ...
Shells == {[n \in Names |-> Unset], [[n \in Names |-> Unset] EXCEPT !["UPSCALE"] = "performance", !["LOG"] = "5"]}
Start ==
  /\ process = Unset
  /\ \E shell \in Shells, off \in BOOLEAN :
       process' = ApplySettingsFile([env |-> shell, shell |-> shell, applied |-> {}, off |-> off, read |-> <<>>])
  /\ UNCHANGED <<file, byHand, store, saved>>

\* ... or by one that loaded the core, whose environment it has.
StartChild ==
  /\ process # Unset
  /\ process' = ApplySettingsFile(process)
  /\ UNCHANGED <<file, byHand, store, saved>>

ProcessEnds ==
  /\ process # Unset
  /\ process' = Unset
  /\ UNCHANGED <<file, byHand, store, saved>>

SettingsNext == Open \/ Change \/ Quit \/ EditByHand \/ Start \/ StartChild \/ ProcessEnds
SettingsSpec == SettingsInit /\ [][SettingsNext]_settingsVars

-----------------------------------------------------------------------------
\* What a process has of the file is what it, or a parent, did not start with.
ProcessIsRight ==
  process # Unset =>
    /\ process = [env |-> process.env, shell |-> process.shell, applied |-> process.applied,
                  off |-> process.off, read |-> process.read]
    /\ \A n \in Names : IF n \in process.applied THEN process.shell[n] = Unset
                        ELSE process.env[n] = process.shell[n]

\* The environment wins, and a process, whichever started it, has the rest
\* from the file as it was when it started.
EnvironmentWins ==
  process # Unset =>
    \A n \in Names :
      process.env[n] =
        IF process.shell[n] # Unset \/ process.off \/ \A k \in DOMAIN process.read : process.read[k].name # n
        THEN process.shell[n] ELSE FirstValue(process.read, n)

\* What the application has written, a process without variables of its own
\* gets, and so does the application when it opens again; and no line that is
\* not the application's has gone.
WrittenIsRead ==
  /\ saved =>
       LET fresh == ApplySettingsFile([env |-> [n \in Names |-> Unset], shell |-> <<>>, applied |-> {}, off |-> FALSE, read |-> <<>>])
       IN  /\ fresh.env["UPSCALE"] = IF store.upscale = "off" THEN Unset ELSE store.upscale
           /\ fresh.env["MAX_FRAME_RATE"] = IF store.maxFrameRate = "" THEN Unset ELSE store.maxFrameRate
           /\ fresh.env["LOG"] \in QuietLevels \cup {Unset} <=> ~store.logging
           /\ fresh.env["X87"] = IF ~store.x87Chosen THEN Unset ELSE IF store.x87 THEN "1" ELSE "0"
           /\ Load(file) = store
  /\ Unmanaged(file) = byHand
=============================================================================

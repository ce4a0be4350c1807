------------------------------ MODULE OpenMWFix ------------------------------
(***************************************************************************)
(* The OpenMW fix of the settings application (openmwFix(),                *)
(* Arm64Fixes.swift), beside the Minecraft fix (MinecraftFix), with which  *)
(* it shares no files: one pass after another puts the fix into OpenMW.app  *)
(* or takes it out, file by file.  Meanwhile the game is updated, and the  *)
(* application is killed; any file operation may fail.                     *)
(*                                                                         *)
(* One OpenMW.app stands for those found.  A file is replaced or copied in *)
(* one step (rename, clonefile).                                           *)
(***************************************************************************)
EXTENDS MinecraftFix, Integers, Sequences, FiniteSets

CONSTANT
  Binaries  \* openmw and OpenSceneGraph's libraries

GamesAssumption ==
  /\ MinecraftAssumption
  /\ IsFiniteSet(Binaries)
  /\ Absent \notin {"original", "glue", "applied", "removed"}

VARIABLES
  openmwPhase,   \* where apply() is
  openmwWanted,  \* the switch its pass goes by
  app,           \* OpenMW.app: [sdl, real, added, loads, signed]
  todo,          \* the file operations openmwFix() has left
  outcome        \* its last GameFix

openmwVars == <<openmwPhase, openmwWanted, app, todo, outcome>>

Original == [sdl |-> "original", real |-> Absent, added |-> {}, loads |-> [b \in Binaries |-> "opengl"], signed |-> TRUE]
Patched(a) == a.real # Absent
Added == {"libwmglhost", "libwinemetalgl"}
Whole(a) == a.sdl = "glue" /\ a.added = Added /\ \A b \in Binaries : a.loads[b] = "stubs"

Apps == [sdl : {"original", "glue"}, real : {"original", "glue", Absent}, added : SUBSET Added,
         loads : [Binaries -> {"opengl", "stubs"}], signed : BOOLEAN]

Operations == {"keep_real", "sdl", "stubs", "sign", "sdl_back", "remove_real", "remove_added", "opengl"} \cup Added

OpenMWTypeOK ==
  /\ app \in Apps
  /\ openmwPhase \in {"idle", "openmw", "files"}

OpenMWInit ==
  /\ openmwPhase = "idle" /\ openmwWanted = FALSE
  /\ app = Original /\ todo = <<>> /\ outcome = Absent

-----------------------------------------------------------------------------
\* A new OpenMW.app takes the place of the one that was patched.
AppReplaced ==
  /\ openmwPhase = "idle" /\ app # Original
  /\ app' = Original
  /\ UNCHANGED <<openmwPhase, openmwWanted, todo, outcome>>

\* apply(), when no other is busy, with the switch as it is.
OpenMWApply(on) ==
  /\ openmwPhase = "idle"
  /\ openmwPhase' = "openmw" /\ openmwWanted' = on /\ outcome' = Absent
  /\ UNCHANGED <<app, todo>>

\* Mutant: the game's own SDL is kept anew each time.
PutInKeepsAnew ==
  <<"keep_real", "sdl", "libwmglhost", "libwinemetalgl">>
    \o [i \in 1..Cardinality(Binaries) |-> "stubs"] \o <<"sign">>

PutIn ==
  (IF Patched(app) THEN <<>> ELSE <<"keep_real">>) \o <<"sdl", "libwmglhost", "libwinemetalgl">>
    \o [i \in 1..Cardinality(Binaries) |-> "stubs"] \o <<"sign">>
TakeOut == <<"sdl_back", "remove_real", "remove_added">> \o [i \in 1..Cardinality(Binaries) |-> "opengl"] \o <<"sign">>

\* In place when the files are: the signature is not looked at.  Off does
\* nothing where the real SDL is not there.  (While OpenMW runs the fix
\* waits: the pass ends here.)
StartOpenMW ==
  /\ openmwPhase = "openmw"
  /\ \/ /\ openmwWanted /\ Patched(app) /\ Whole(app)
        /\ openmwPhase' = "idle" /\ outcome' = "inPlace" /\ UNCHANGED todo
     \/ /\ openmwWanted /\ ~(Patched(app) /\ Whole(app))
        /\ openmwPhase' = "files" /\ todo' = PutIn /\ UNCHANGED outcome
     \/ /\ ~openmwWanted /\ Patched(app)
        /\ openmwPhase' = "files" /\ todo' = TakeOut /\ UNCHANGED outcome
     \/ /\ ~openmwWanted /\ ~Patched(app)
        /\ openmwPhase' = "idle" /\ UNCHANGED <<outcome, todo>>
     \/ /\ openmwPhase' = "idle" /\ outcome' = "waiting" /\ UNCHANGED todo
  /\ UNCHANGED <<openmwWanted, app>>

\* MachO.replaceDylib() on the next binary that loads something else.
Rewrite(a, library) ==
  IF \E b \in Binaries : a.loads[b] # library
  THEN [a EXCEPT !.loads[CHOOSE b \in Binaries : a.loads[b] # library] = library, !.signed = FALSE]
  ELSE a

Operate(step, a) ==
  CASE step = "keep_real"    -> [a EXCEPT !.real = a.sdl]
    [] step = "sdl"          -> [a EXCEPT !.sdl = "glue", !.signed = FALSE]
    [] step \in Added        -> [a EXCEPT !.added = @ \cup {step}, !.signed = FALSE]
    [] step = "stubs"        -> Rewrite(a, "stubs")
    [] step = "sdl_back"     -> [a EXCEPT !.sdl = a.real, !.signed = FALSE]
    [] step = "remove_real"  -> [a EXCEPT !.real = Absent]
    [] step = "remove_added" -> [a EXCEPT !.added = {}]
    [] step = "opengl"       -> Rewrite(a, "opengl")
    [] step = "sign"         -> [a EXCEPT !.signed = TRUE]

FileOperation ==
  /\ openmwPhase = "files"
  /\ app' = Operate(Head(todo), app)
  /\ todo' = Tail(todo)
  /\ IF Len(todo) = 1
     THEN openmwPhase' = "idle" /\ outcome' = IF openmwWanted THEN "applied" ELSE "removed"
     ELSE UNCHANGED <<openmwPhase, outcome>>
  /\ UNCHANGED openmwWanted

\* An operation throws: the rest is not done.
OperationFails ==
  /\ openmwPhase = "files"
  /\ openmwPhase' = "idle" /\ todo' = <<>> /\ outcome' = "failed"
  /\ UNCHANGED <<openmwWanted, app>>

\* The application is killed, and opened again.
OpenMWKilled ==
  /\ openmwPhase # "idle"
  /\ openmwPhase' = "idle" /\ todo' = <<>> /\ outcome' = Absent
  /\ UNCHANGED <<openmwWanted, app>>

OpenMWNext ==
  \/ AppReplaced \/ \E on \in BOOLEAN : OpenMWApply(on)
  \/ StartOpenMW \/ FileOperation \/ OperationFails \/ OpenMWKilled

OpenMWSpec == OpenMWInit /\ [][OpenMWNext]_openmwVars

-----------------------------------------------------------------------------
\* openmwFix() (:684): the game's own SDL is never lost, and a pass that says
\* it put the fix in, or took it out, left all of it in or nothing, whatever
\* earlier passes left half done.
OpenMWConsistent ==
  /\ app.sdl = "original" \/ app.real = "original"
  /\ openmwPhase = "idle" /\ outcome = "applied" /\ app # Original => Whole(app) /\ app.real = "original" /\ app.signed
  /\ openmwPhase = "idle" /\ outcome = "removed" => app = Original

GamesKept == MinecraftKept /\ OpenMWTypeOK /\ OpenMWConsistent

-----------------------------------------------------------------------------
\* The binaries that a pass has still to point to a library.
Unlike(library) == {b \in Binaries : app.loads[b] # library}

\* How many operations a pass has left, and so what it has done: the game's
\* own SDL is kept before it is replaced, and put back before it is removed.
Left == Len(todo)
Binds == Cardinality(Binaries)

\* An operation, by how many come after it.
InPutIn(operation, after) ==
  /\ after = Binds + 4 => operation = "keep_real"
  /\ after = Binds + 3 => operation = "sdl"
  /\ after = Binds + 2 => operation = "libwmglhost"
  /\ after = Binds + 1 => operation = "libwinemetalgl"
  /\ after \in 1 .. Binds => operation = "stubs"
  /\ after = 0 => operation = "sign"

InTakeOut(operation, after) ==
  /\ after = Binds + 3 => operation = "sdl_back"
  /\ after = Binds + 2 => operation = "remove_real"
  /\ after = Binds + 1 => operation = "remove_added"
  /\ after \in 1 .. Binds => operation = "opengl"
  /\ after = 0 => operation = "sign"

PutInGoesOn ==
  /\ Left \in 1 .. Binds + 5
  /\ \A i \in 1 .. Left : InPutIn(todo[i], Left - i)
  /\ IF Left = Binds + 5 THEN ~Patched(app) ELSE Patched(app)
  /\ Left < Binds + 4 => app.sdl = "glue"
  /\ Left < Binds + 3 => "libwmglhost" \in app.added
  /\ Left < Binds + 2 => app.added = Added
  /\ Cardinality(Unlike("stubs")) < Left

TakeOutGoesOn ==
  /\ Left \in 1 .. Binds + 4
  /\ \A i \in 1 .. Left : InTakeOut(todo[i], Left - i)
  /\ Left > Binds + 2 => Patched(app)
  /\ Left < Binds + 4 => app.sdl = "original"
  /\ Left < Binds + 3 => ~Patched(app)
  /\ Left < Binds + 2 => app.added = {}
  /\ Cardinality(Unlike("opengl")) < Left

OpenMWIInv ==
  /\ OpenMWTypeOK
  /\ openmwWanted \in BOOLEAN /\ todo \in Seq(Operations)
  /\ app.real \in {"original", Absent} /\ (~Patched(app) => app.sdl = "original")
  /\ openmwPhase # "idle" => outcome = Absent
  /\ openmwPhase = "files" => IF openmwWanted THEN PutInGoesOn ELSE TakeOutGoesOn
  /\ OpenMWConsistent
=============================================================================

------------------------------- MODULE GameFixes -------------------------------
(***************************************************************************)
(* The fixes of games that run in Wine (settings-app/GamePatches.swift),   *)
(* applied each time the application opens: Quake 4's autoexec.cfg and     *)
(* display modes, and a file of MetalSharp's Wine, for SpaceEngine or      *)
(* Wolfenstein. The application may be killed between any two steps and    *)
(* replaced by a newer one; the player, and MetalSharp, change the files.  *)
(*                                                                         *)
(* A copy of a file is there or not: FileManager clones it on APFS. The    *)
(* player edits no file in the moment it is read and written.              *)
(***************************************************************************)
EXTENDS Naturals, Sequences

CONSTANTS
  NoCopy,
  MaxChanges  \* bound: what the player and MetalSharp do

VARIABLES
  autoexec,  \* its lines, or NoCopy
  modes,     \* user.reg has the display modes
  running,   \* the prefix's programs run
  wineFile,      \* in lib/wine: what it is and its permissions
  stagedFile,    \* what is to replace it, or NoCopy
  backups,   \* of autoexec, user.reg (its modes) and the file, or NoCopy
  wine,      \* the version of MetalSharp's Wine
  app,       \* the fixed file the application carries
  step,      \* of the pass under way, or "idle"
  result,    \* the pass's, of each fix
  changes

fixesVars == <<autoexec, modes, running, wineFile, stagedFile, backups, wine, app, step, result, changes>>

\* Lines: the player's, r_useSMP set by the player, and the fix's.
Ours == "r_useSMP_1"
SetsSmp(lines) == \E i \in DOMAIN lines : lines[i] \in {"r_useSMP_0", Ours}

\* The file: MetalSharp's; the fixed one before it was signed; as carried by
\* one release of the application and the next; signed again on this Mac.
Carried == {"release1", "release2", "source"}
SignedHere(content) == "signedHere"
Fixed == Carried \cup {"signedHere"}

FixesInit ==
  /\ autoexec \in {NoCopy, <<>>, <<"bind">>, <<"r_useSMP_0">>}
  /\ modes \in BOOLEAN /\ running = FALSE
  /\ wineFile \in [content : {"wine", "source"}, mode : {"r-x"}]
  /\ stagedFile = NoCopy
  /\ backups = [autoexec |-> NoCopy, reg |-> NoCopy, file |-> NoCopy]
  /\ wine = "11.17" /\ app \in {"release1", "source"}
  /\ step = "idle" /\ result = NoCopy /\ changes = 0

Quiet == UNCHANGED <<running, wine, app, changes>>
Go(next) == step' = next
\* backUp(): the first time only.
BackUp(name, content) == IF backups[name] = NoCopy THEN [backups EXCEPT ![name] = content] ELSE backups

-----------------------------------------------------------------------------
(* A pass. *)

FixBegin ==
  /\ step = "idle" /\ Go("autoexec") /\ result' = [quake |-> "inPlace", file |-> NoCopy]
  /\ UNCHANGED <<autoexec, modes, wineFile, stagedFile, backups>> /\ Quiet

Autoexec ==
  /\ step = "autoexec"
  /\ \/ /\ autoexec # NoCopy /\ SetsSmp(autoexec)
        /\ Go("modes") /\ UNCHANGED <<autoexec, backups, result>>
     \/ /\ autoexec = NoCopy
        /\ autoexec' = <<Ours>>
        /\ Go("modes") /\ result' = [result EXCEPT !.quake = "applied"] /\ UNCHANGED backups
     \/ /\ autoexec # NoCopy /\ ~SetsSmp(autoexec)
        /\ backups' = BackUp("autoexec", autoexec)
        /\ Go("autoexecBackedUp") /\ UNCHANGED <<autoexec, result>>
     \/ /\ Go("modes") /\ result' = [result EXCEPT !.quake = "failed"] /\ UNCHANGED <<autoexec, backups>>
  /\ UNCHANGED <<modes, wineFile, stagedFile>> /\ Quiet
AddLine ==
  /\ step = "autoexecBackedUp"
  /\ autoexec' = Append(autoexec, Ours)
  /\ Go("modes") /\ result' = [result EXCEPT !.quake = "applied"]
  /\ UNCHANGED <<modes, wineFile, stagedFile, backups>> /\ Quiet

\* The modes wait while the prefix's programs run.
Modes ==
  /\ step = "modes"
  /\ \/ /\ modes \/ running
        /\ Go("file") /\ UNCHANGED backups
     \/ /\ ~modes /\ ~running
        /\ backups' = BackUp("reg", modes)
        /\ Go("modesBackedUp")
  /\ UNCHANGED <<autoexec, modes, wineFile, stagedFile, result>> /\ Quiet
RunScript ==
  /\ step = "modesBackedUp"
  /\ \/ modes' = TRUE /\ UNCHANGED result
     \/ UNCHANGED modes /\ result' = [result EXCEPT !.quake = "failed"]
  /\ Go("file")
  /\ UNCHANGED <<autoexec, wineFile, stagedFile, backups>> /\ Quiet

\* wineFix(): of Wine 11.17 only, and only a file that is not a fixed one:
\* the one carried, or one put there by hand.
WineFix ==
  /\ step = "file"
  /\ \/ /\ wine # "11.17"
        /\ Go("idle") /\ result' = [result EXCEPT !.file = "notApplicable"] /\ UNCHANGED backups
     \/ /\ wine = "11.17" /\ wineFile.content \in {app, "source"}
        /\ Go("idle") /\ result' = [result EXCEPT !.file = "inPlace"] /\ UNCHANGED backups
     \/ /\ wine = "11.17" /\ wineFile.content \notin {app, "source"}
        /\ backups' = BackUp("file", wineFile.content)
        /\ Go("copy") /\ UNCHANGED result
  /\ UNCHANGED <<autoexec, modes, wineFile, stagedFile>> /\ Quiet

\* replace(), with what an earlier pass left in the staged file gone.
Copy ==
  /\ step = "copy"
  /\ \/ stagedFile' = [content |-> app, mode |-> "rw-"] /\ Go("mode") /\ UNCHANGED result
     \/ stagedFile' = NoCopy /\ Go("idle") /\ result' = [result EXCEPT !.file = "failed"]
  /\ UNCHANGED <<autoexec, modes, wineFile, backups>> /\ Quiet
Mode ==
  /\ step = "mode"
  /\ stagedFile' = [stagedFile EXCEPT !.mode = wineFile.mode] /\ Go("rename")
  /\ UNCHANGED <<autoexec, modes, wineFile, backups, result>> /\ Quiet
Rename ==
  /\ step = "rename" /\ stagedFile' = NoCopy
  /\ \/ wineFile' = stagedFile /\ Go("sign") /\ UNCHANGED result
     \/ UNCHANGED wineFile /\ Go("idle") /\ result' = [result EXCEPT !.file = "failed"]
  /\ UNCHANGED <<autoexec, modes, backups>> /\ Quiet
\* A release's keeps its signature; a build's gets one here.
Sign ==
  /\ step = "sign"
  /\ wineFile' = IF wineFile.content = "source" THEN [wineFile EXCEPT !.content = SignedHere(@)] ELSE wineFile
  /\ Go("idle") /\ result' = [result EXCEPT !.file = "applied"]
  /\ UNCHANGED <<autoexec, modes, stagedFile, backups>> /\ Quiet

Killed ==
  /\ step # "idle" /\ Go("idle") /\ result' = NoCopy
  /\ UNCHANGED <<autoexec, modes, wineFile, stagedFile, backups>> /\ Quiet

-----------------------------------------------------------------------------
(* The others. *)

\* What a pass said of Quake 4 counts no more.
Changed ==
  /\ changes < MaxChanges /\ changes' = changes + 1
  /\ result' = IF result = NoCopy THEN NoCopy ELSE [result EXCEPT !.quake = "changed"]

\* The player writes the file anew, with lines of the fix's or without.
EditAutoexec ==
  /\ Changed /\ step \notin {"autoexec", "autoexecBackedUp"}
  /\ autoexec' \in {NoCopy, <<"bind">>, <<"bind", Ours>>, <<"r_useSMP_0">>}
  /\ UNCHANGED <<modes, running, wineFile, stagedFile, backups, wine, app, step>>
\* Programs start and end, not between the check and the script.
RunPrograms ==
  /\ Changed /\ step # "modesBackedUp"
  /\ running' = ~running
  /\ UNCHANGED <<autoexec, modes, wineFile, stagedFile, backups, wine, app, step>>
ClearModes ==
  /\ Changed /\ modes /\ modes' = FALSE /\ step # "modesBackedUp"
  /\ UNCHANGED <<autoexec, running, wineFile, stagedFile, backups, wine, app, step>>
\* MetalSharp installs its Wine again, or another version.
InstallWine ==
  /\ Changed /\ step = "idle" /\ result = NoCopy
  /\ wine' \in {"11.17", "11.18"} /\ wineFile' = [content |-> "wine", mode |-> "r-x"]
  /\ UNCHANGED <<autoexec, modes, running, stagedFile, backups, app, step>>
ReplaceApp ==
  /\ Changed /\ step = "idle" /\ app' = "release2"
  /\ UNCHANGED <<autoexec, modes, running, wineFile, stagedFile, backups, wine, step>>

FixesNext ==
  \/ FixBegin \/ Autoexec \/ AddLine \/ Modes \/ RunScript \/ WineFix \/ Copy \/ Mode \/ Rename \/ Sign \/ Killed
  \/ EditAutoexec \/ RunPrograms \/ ClearModes \/ InstallWine \/ ReplaceApp
FixesSpec == FixesInit /\ [][FixesNext]_fixesVars

-----------------------------------------------------------------------------
FixSteps == {"idle", "autoexec", "autoexecBackedUp", "modes", "modesBackedUp", "file", "copy", "mode", "rename", "sign"}
Lines == Seq({"bind", "r_useSMP_0", Ours})
QuakeResults == {"inPlace", "applied", "failed", "changed"}
FileResults == {"notApplicable", "inPlace", "applied", "failed", NoCopy}
FileContents == {"wine"} \cup Fixed
Files == [content : FileContents, mode : {"r-x", "rw-"}]
Results == [quake : QuakeResults, file : FileResults]

FixesAssumption ==
  /\ NoCopy \notin Lines /\ NoCopy \notin BOOLEAN /\ NoCopy \notin FileContents
  /\ NoCopy \notin {"inPlace", "applied"} /\ NoCopy \notin Files /\ NoCopy \notin Results

FixesTypes ==
  /\ autoexec \in Lines \cup {NoCopy} /\ modes \in BOOLEAN /\ running \in BOOLEAN
  /\ wineFile \in Files /\ stagedFile \in Files \cup {NoCopy}
  /\ backups \in [autoexec : Lines \cup {NoCopy}, reg : {NoCopy, FALSE}, file : {NoCopy, "wine"}]
  /\ app \in Carried /\ step \in FixSteps /\ result \in Results \cup {NoCopy}

\* The line is there once, and no backup has it.
OursOnce(lines) == \A i, j \in DOMAIN lines : lines[i] = Ours /\ lines[j] = Ours => i = j
LinesAreRight ==
  /\ backups.autoexec # NoCopy => ~SetsSmp(backups.autoexec)
  /\ autoexec # NoCopy => OursOnce(autoexec)
  /\ step = "autoexecBackedUp" => autoexec # NoCopy /\ ~SetsSmp(autoexec)

\* A file that is neither MetalSharp's nor put there by hand has a backup, and
\* one that is being replaced has one already.
FileIsRight ==
  /\ wineFile.mode = "r-x"
  /\ wineFile.content # "wine" /\ backups.file = NoCopy => wineFile.content = "source"
  /\ step \in {"copy", "mode", "rename", "sign"} => backups.file = "wine"
  /\ step \in {"mode", "rename"} => stagedFile \in Files /\ stagedFile.content \in Carried
  /\ step = "rename" => stagedFile.mode = "r-x"
  /\ step = "sign" => wineFile.content \in Carried

\* What a pass has said so far.
ResultIsRight ==
  /\ step # "idle" => result # NoCopy
  /\ result # NoCopy =>
       /\ result.quake \in {"applied", "inPlace"} =>
            /\ step \notin {"autoexec", "autoexecBackedUp"} => autoexec # NoCopy /\ SetsSmp(autoexec)
            /\ step \notin {"autoexec", "autoexecBackedUp", "modes", "modesBackedUp"} => modes \/ running
       /\ result.file \in {"applied", "inPlace"} => wineFile.content \in Fixed

FixesIInv == FixesTypes /\ LinesAreRight /\ FileIsRight /\ ResultIsRight

\* A backup is of a file no fix had touched, whatever was killed, changed or
\* installed again in between; a fix is made once, to a file that may be
\* mapped as before; and when a pass says a fix is applied or in place, it is.
FixesSound ==
  /\ backups.autoexec # NoCopy => \A i \in DOMAIN backups.autoexec : backups.autoexec[i] # Ours
  /\ backups.reg # TRUE
  /\ backups.file \in {NoCopy, "wine"} /\ wineFile.mode = "r-x"
  /\ wineFile.content # "wine" /\ backups.file = NoCopy => wineFile.content = "source"
  /\ autoexec # NoCopy => \A i, j \in DOMAIN autoexec : autoexec[i] = Ours /\ autoexec[j] = Ours => i = j
  /\ result # NoCopy /\ step = "idle" =>
       /\ result.quake \in {"applied", "inPlace"} => autoexec # NoCopy /\ SetsSmp(autoexec) /\ (modes \/ running)
       /\ result.file \in {"applied", "inPlace"} => wineFile.content \in Fixed
=============================================================================

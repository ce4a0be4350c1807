------------------------------- MODULE AppUpdate -------------------------------
(***************************************************************************)
(* How WineMetalGL Settings replaces itself by a newer release and then    *)
(* puts that release into the Wines (settings-app/Updater.swift,           *)
(* Installations.updateEverywhere). Copies of the application may be in    *)
(* several places; one of them runs at a time, and may be killed at any    *)
(* step.                                                                   *)
(*                                                                         *)
(* A version is its place in Versions, the order they are published in.    *)
(***************************************************************************)
EXTENDS Naturals, Sequences

CONSTANT NoApp

VARIABLES
  feed,      \* the latest release, or NoApp
  apps,      \* at each place: version, who signed it, whether all of it is there; or NoApp
  staged,    \* beside each place: the copy that is to replace the application, or NoApp
  pending,   \* the version that goes into the Wines next (defaults), or NoApp
  wines,     \* version in each Wine, 0 where it is not installed
  proc,      \* the application that runs, or NoApp
  newest,    \* history: the newest version there was at each place
  lowered    \* history: an update put an older version into a Wine

updateVars == <<feed, apps, staged, pending, wines, proc, newest, lowered>>

Versions == <<<<3, 9, 2>>, <<3, 9, 10>>, <<3, 10>>>>
Places == {"/Applications", "elsewhere", "image"}
Wines == {"w", "x"}

\* What is published: its image may still be missing, be other than what
\* SHA256SUMS.txt says, be signed by somebody else, or hold another version.
Releases == {[sum |-> TRUE, by |-> "team", inside |-> 0], [sum |-> FALSE, by |-> "team", inside |-> 0],
             [sum |-> TRUE, by |-> "other", inside |-> 0], [sum |-> TRUE, by |-> "team", inside |-> 1]}

App(version, by) == [version |-> version, by |-> by, whole |-> TRUE]

\* The copies in /Applications and on the image are the team's, the one
\* elsewhere may be built from source.
UpdateInit ==
  /\ feed = NoApp /\ pending = NoApp /\ proc = NoApp
  /\ \E installed \in BOOLEAN, by \in {"team", "source"} :
       apps = [p \in Places |-> IF p = "/Applications" /\ ~installed THEN NoApp
                                ELSE App(1, IF p = "elsewhere" THEN by ELSE "team")]
  /\ staged = [p \in Places |-> NoApp]
  /\ wines \in [Wines -> {0, 1}]
  /\ newest = [p \in Places |-> IF apps[p] = NoApp THEN 0 ELSE 1]
  /\ lowered = FALSE

Publish ==
  LET next == IF feed = NoApp THEN 2 ELSE feed.version + 1
  IN  /\ next \in DOMAIN Versions
      /\ \E r \in Releases, image \in BOOLEAN :
           feed' = [version |-> next, image |-> image, sum |-> r.sum, by |-> r.by,
                    inside |-> IF r.inside = 0 THEN next ELSE r.inside]
      /\ UNCHANGED <<apps, staged, pending, wines, proc, newest, lowered>>
\* The image is the last of a release's files to be uploaded.
UploadImage ==
  /\ feed # NoApp /\ ~feed.image
  /\ feed' = [feed EXCEPT !.image = TRUE]
  /\ UNCHANGED <<apps, staged, pending, wines, proc, newest, lowered>>

IsNewer(v, w) ==
  LET Part(x, i) == IF i <= Len(Versions[x]) THEN Versions[x][i] ELSE 0
  IN  \E i \in 1..3 : Part(v, i) > Part(w, i) /\ \A j \in 1..(i - 1) : Part(v, j) = Part(w, j)

InstallLocation(place) == IF place = "image" THEN "/Applications" ELSE place
Trusted(by, own) == IF own = "source" THEN by \in {"team", "other"} ELSE by = own

-----------------------------------------------------------------------------
(* The application that runs. *)

AppAt(step) == proc # NoApp /\ proc.step = step
GoesTo(step) == proc' = [proc EXCEPT !.step = step]

\* takePendingModuleUpdate(): the key goes whoever reads it. The update goes
\* through the Wines it is installed in now.
Launch(place) ==
  /\ proc = NoApp /\ apps[place] # NoApp
  /\ LET app == apps[place]
         taken == pending = app.version
         todo == IF taken THEN {w \in Wines : wines[w] # 0} ELSE {}
     IN  proc' = [place |-> place, version |-> app.version, by |-> app.by, release |-> NoApp, taken |-> taken,
                  step |-> IF taken THEN "updating" ELSE "looking", todo |-> todo, failed |-> {}]
  /\ pending' = NoApp
  /\ UNCHANGED <<feed, apps, staged, wines, newest, lowered>>

\* One Wine after the other gets the release the application carries; one
\* that fails is reported, and the rest go on.
UpdateWine(w) ==
  /\ AppAt("updating") /\ w \in proc.todo
  /\ \/ /\ wines' = [wines EXCEPT ![w] = apps[proc.place].version]
        /\ lowered' = (lowered \/ wines[w] > apps[proc.place].version)
        /\ proc' = [proc EXCEPT !.todo = @ \ {w}]
     \/ /\ proc' = [proc EXCEPT !.todo = @ \ {w}, !.failed = @ \cup {w}]
        /\ UNCHANGED <<wines, lowered>>
  /\ UNCHANGED <<feed, apps, staged, pending, newest>>
UpdateEnds ==
  /\ AppAt("updating") /\ proc.todo = {} /\ GoesTo("looking")
  /\ UNCHANGED <<feed, apps, staged, pending, wines, newest, lowered>>

\* offerUpdate(): no release, none with its image, none that is newer, or No.
Look ==
  /\ AppAt("looking")
  /\ \/ GoesTo("open")
     \/ /\ feed # NoApp /\ feed.image /\ IsNewer(feed.version, proc.version)
        /\ proc' = [proc EXCEPT !.step = "checking", !.release = feed]
  /\ UNCHANGED <<feed, apps, staged, pending, wines, newest, lowered>>

\* install(): what fails leaves the application open.
Check ==
  /\ AppAt("checking")
  /\ IF /\ proc.release.sum /\ Trusted(proc.release.by, proc.by)
        /\ proc.release.inside = proc.release.version
     THEN GoesTo("removing") \/ GoesTo("open")
     ELSE GoesTo("open")
  /\ UNCHANGED <<feed, apps, staged, pending, wines, newest, lowered>>

Destination == InstallLocation(proc.place)
Stage ==
  \/ /\ AppAt("removing") /\ GoesTo("copying")
     /\ staged' = [staged EXCEPT ![Destination] = [App(proc.release.version, proc.release.by) EXCEPT !.whole = FALSE]]
     /\ UNCHANGED <<feed, apps, pending, wines, newest, lowered>>
  \/ /\ AppAt("copying")
     /\ \/ GoesTo("replacing") /\ staged' = [staged EXCEPT ![Destination].whole = TRUE]
        \/ GoesTo("open") /\ UNCHANGED staged  \* ditto failed
     /\ UNCHANGED <<feed, apps, pending, wines, newest, lowered>>

Replace ==
  /\ AppAt("replacing")
  /\ staged' = [staged EXCEPT ![Destination] = NoApp]
  /\ \/ /\ GoesTo("replaced")
        /\ apps' = [apps EXCEPT ![Destination] = staged[Destination]]
        /\ newest' = [newest EXCEPT ![Destination] = IF @ < staged[Destination].version THEN staged[Destination].version ELSE @]
     \/ GoesTo("open") /\ UNCHANGED <<apps, newest>>
  /\ UNCHANGED <<feed, pending, wines, lowered>>

\* The key, and this application ends; the new one is opened, or another copy.
Relaunch ==
  /\ AppAt("replaced")
  /\ pending' = proc.release.version
  /\ proc' = NoApp
  /\ UNCHANGED <<feed, apps, staged, wines, newest, lowered>>

\* The player installs into a Wine, also while an update is looked for or
\* downloaded; while one goes through the Wines the buttons are off (busy).
Install(w) ==
  /\ proc # NoApp /\ proc.step # "updating"
  /\ wines' = [wines EXCEPT ![w] = apps[proc.place].version]
  /\ UNCHANGED <<feed, apps, staged, pending, proc, newest, lowered>>

\* It is quit, or killed.
AppEnds ==
  /\ proc # NoApp
  /\ proc' = NoApp
  /\ UNCHANGED <<feed, apps, staged, pending, wines, newest, lowered>>

UpdateNext ==
  \/ Publish \/ UploadImage \/ UpdateEnds \/ Look \/ Check \/ Stage \/ Replace \/ Relaunch \/ AppEnds
  \/ \E place \in Places : Launch(place)
  \/ \E w \in Wines : UpdateWine(w) \/ Install(w)
UpdateSpec == UpdateInit /\ [][UpdateNext]_updateVars

-----------------------------------------------------------------------------
Signers == {"team", "source", "other"}
Apps == [version : Nat, by : Signers, whole : BOOLEAN]
Feeds == [version : Nat, image : BOOLEAN, sum : BOOLEAN, by : Signers, inside : Nat]
Steps == {"updating", "looking", "open", "checking", "removing", "copying", "replacing", "replaced"}
Procs == [place : Places, version : Nat, by : Signers, release : Feeds \cup {NoApp}, taken : BOOLEAN,
          step : Steps, todo : SUBSET Wines, failed : SUBSET Wines]

UpdateAssumption == NoApp \notin Nat /\ NoApp \notin Apps /\ NoApp \notin Feeds /\ NoApp \notin Procs

UpdateTypes ==
  /\ feed \in Feeds \cup {NoApp} /\ proc \in Procs \cup {NoApp}
  /\ apps \in [Places -> Apps \cup {NoApp}] /\ staged \in [Places -> Apps \cup {NoApp}]
  /\ pending \in Nat \cup {NoApp}
  /\ wines \in [Wines -> Nat] /\ newest \in [Places -> Nat] /\ lowered = FALSE

\* No copy and no Wine is ahead of what is published.
Latest == IF feed = NoApp THEN 1 ELSE feed.version
NoneAhead ==
  /\ \A p \in Places : newest[p] <= Latest
  /\ \A w \in Wines : wines[w] <= Latest

CopiesAreWhole ==
  /\ \A p \in Places : IF apps[p] = NoApp THEN newest[p] = 0
                         ELSE apps[p].whole /\ apps[p].version = newest[p]
  /\ \A p \in {"/Applications", "image"} : apps[p] # NoApp => apps[p].by = "team"

\* The key is of a release no Wine is ahead of, and nobody installs while it
\* is there.
PendingIsNewest == pending # NoApp => proc = NoApp /\ \A w \in Wines : wines[w] <= pending

\* What an application on its way to a release has found out.
ProcIsRight ==
  proc # NoApp =>
    /\ apps[proc.place] # NoApp
    /\ proc.place # "elsewhere" => proc.by = "team"
    /\ proc.step \in {"updating", "looking"} /\ proc.taken => proc.version = newest[proc.place]
    /\ proc.step = "updating" => proc.taken /\ \A w \in Wines : wines[w] <= proc.version
    /\ proc.step \in {"updating", "looking"} /\ proc.taken =>
         \A w \in Wines \ (proc.todo \cup proc.failed) : wines[w] \in {0, proc.version}
    /\ proc.step = "looking" => proc.todo = {}
    /\ proc.step \in {"checking", "removing", "copying", "replacing", "replaced"} =>
         /\ proc.release \in Feeds
         /\ \A w \in Wines : wines[w] <= proc.release.version
         /\ \A p \in Places : newest[p] <= proc.release.version
         /\ proc.release.version <= Latest
    /\ proc.step \in {"removing", "copying", "replacing"} => Trusted(proc.release.by, proc.by)
    /\ proc.step \in {"copying", "replacing"} =>
         /\ staged[Destination] # NoApp
         /\ staged[Destination].version = proc.release.version
         /\ staged[Destination].by = proc.release.by
         /\ proc.step = "replacing" => staged[Destination].whole

UpdateIInv == UpdateTypes /\ NoneAhead /\ CopiesAreWhole /\ PendingIsNewest /\ ProcIsRight

\* Whatever is published and wherever it is killed, an application that runs
\* is whole, of its own team and no older than what was at its place, an
\* update never takes a Wine back to an older version, and when it has gone
\* through the Wines each has the application's version or is reported.
UpdateSound ==
  /\ \A p \in Places : apps[p] # NoApp => apps[p].whole /\ apps[p].version = newest[p]
  /\ apps["/Applications"] # NoApp => apps["/Applications"].by = "team"
  /\ ~lowered
  /\ AppAt("looking") /\ proc.taken => \A w \in Wines \ proc.failed : wines[w] \in {0, proc.version}
=============================================================================

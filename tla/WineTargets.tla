------------------------------ MODULE WineTargets ------------------------------
(***************************************************************************)
(* The bottles and prefixes WineMetalGL Settings shows, and what it does   *)
(* in them (settings-app/Installations.swift). refresh() lists what it     *)
(* knows at once; a task looks for the rest away from the main thread and  *)
(* applies what it found later, and several may be under way. One script   *)
(* runs at a time: the buttons wait for it.                                *)
(*                                                                         *)
(* A bottle's or prefix's name stands for its path; Link is a symbolic     *)
(* link to the bottle Far, which is not in CrossOver's folder. MetalSharp's *)
(* prefixes and NotProton's games are listed as Default is.                *)
(***************************************************************************)
EXTENDS Naturals, Sequences

CONSTANTS
  None,
  MaxTasks,    \* bound: tasks under way
  MaxChanges   \* bound: installs, and changes others make

VARIABLES
  disk,      \* the bottles, prefixes, Wines and CrossOvers there are
  defaults,  \* the bottles, the prefixes with their Wines and the CrossOver installed with
  targets,   \* what is shown
  crossovers, wines,  \* what the last task to end found, in order
  tasks,     \* under way, in the order they began
  script,    \* the one that runs, or None
  changes,
  fresh      \* history: refresh() has been called since others changed the disk

vars == <<disk, defaults, targets, crossovers, wines, tasks, script, changes, fresh>>

Near == "bottle"  Far == "far bottle"  Link == "link"
Default == ".wine"  Own == "own prefix"
Real(path) == IF path = Link THEN Far ELSE path

Range(seq) == {seq[i] : i \in DOMAIN seq}
First(seq) == IF seq = <<>> THEN None ELSE seq[1]
There(seq, set) == SelectSeq(seq, LAMBDA x : x \in set)

\* The one installed with, while it is there, else the first that was found.
CrossOver(saved, found) == IF saved \in disk.crossovers THEN saved ELSE First(found)

Target(kind, path, wine) == [kind |-> kind, path |-> path, wine |-> wine]

-----------------------------------------------------------------------------
(* refresh(). *)

Bottles(seq) == There(seq, {p \in {Near, Far, Link} : Real(p) \in disk.bottles})
Distinct(seq) ==
  LET f[n \in 0..Len(seq)] == IF n = 0 THEN <<>> ELSE IF seq[n] \in Range(f[n - 1]) THEN f[n - 1] ELSE Append(f[n - 1], seq[n])
  IN  f[Len(seq)]
Map(seq, Op(_)) == [i \in DOMAIN seq |-> Op(seq[i])]

Listed(d) ==
  LET Bottle(p) == Target("crossover", p, CrossOver(d.crossover, crossovers))
      Prefix(pair) == Target("prefix", pair[1], pair[2])
  IN  Map(Distinct(Bottles(<<Near>> \o d.bottles)), Bottle)
        \o (IF Default \in disk.prefixes THEN <<Target("prefix", Default, First(wines))>> ELSE <<>>)
        \o Map(SelectSeq(d.pairs, LAMBDA pair : pair[1] \in disk.prefixes /\ pair[1] # Default), Prefix)
Began(d) == [step |-> "wines", crossover |-> d.crossover, bottles |-> d.bottles, wines |-> <<>>, crossovers |-> <<>>, found |-> <<>>]

RefreshWith(d) ==
  /\ Len(tasks) < MaxTasks
  /\ targets' = Listed(d)
  /\ tasks' = Append(tasks, Began(d))
  /\ fresh' = TRUE
Refresh ==
  /\ RefreshWith(defaults)
  /\ UNCHANGED <<disk, defaults, crossovers, wines, script, changes>>

At(i, step) == i \in DOMAIN tasks /\ tasks[i].step = step

\* findWines, then findCrossOvers and findBottles, each away from the main
\* thread: each reads the disk some time before its result is applied.
LookForWines(i) ==
  /\ At(i, "wines")
  /\ tasks' = [tasks EXCEPT ![i].step = "crossovers", ![i].wines = There(<<"wine">>, disk.wines)]
  /\ UNCHANGED <<disk, defaults, targets, crossovers, wines, script, changes, fresh>>
\* The one last installed with, then those Spotlight knows (none of them is
\* in an Applications directory, which would come first).
LookForCrossOvers(i) ==
  /\ At(i, "crossovers")
  /\ tasks' = [tasks EXCEPT ![i].step = "crossovers found",
               ![i].crossovers = There(Distinct(<<tasks[i].crossover, "crossover1", "crossover2">>), disk.crossovers)]
  /\ UNCHANGED <<disk, defaults, targets, crossovers, wines, script, changes, fresh>>
TakeCrossOvers(i) ==
  /\ At(i, "crossovers found")
  /\ crossovers' = tasks[i].crossovers
  /\ tasks' = [tasks EXCEPT ![i].step = "bottles"]
  /\ UNCHANGED <<disk, defaults, targets, wines, script, changes, fresh>>
LookForBottles(i) ==
  /\ At(i, "bottles")
  /\ tasks' = [tasks EXCEPT ![i].step = "bottles found",
               ![i].found = Distinct(Map(Bottles(<<Near>> \o tasks[i].bottles \o <<Far>>), Real))]
  /\ UNCHANGED <<disk, defaults, targets, crossovers, wines, script, changes, fresh>>

\* The bottles not listed go after those that are; every bottle's CrossOver,
\* and the Wine of ~/.wine if it has none, are set.
Unlisted(task) == SelectSeq(task.found, LAMBDA b : \A j \in DOMAIN targets : Real(targets[j].path) # b)
TakeBottles(i) ==
  /\ At(i, "bottles found")
  /\ LET found == Unlisted(tasks[i])
         Bottle(p) == Target("crossover", p, None)
         n == Len(SelectSeq(targets, LAMBDA t : t.kind = "crossover"))
         Reversed == Map([k \in DOMAIN found |-> found[Len(found) + 1 - k]], Bottle)
         all == SubSeq(targets, 1, n) \o Reversed \o SubSeq(targets, n + 1, Len(targets))
         Wine(t) == IF t.kind = "crossover" THEN CrossOver(defaults.crossover, crossovers)
                    ELSE IF t.path = Default /\ t.wine = None THEN First(tasks[i].wines) ELSE t.wine
         Known(t) == [t EXCEPT !.wine = Wine(t)]
     IN  targets' = Map(all, Known)
  /\ wines' = tasks[i].wines
  /\ tasks' = SubSeq(tasks, 1, i - 1) \o SubSeq(tasks, i + 1, Len(tasks))
  /\ UNCHANGED <<disk, defaults, crossovers, script, changes, fresh>>

-----------------------------------------------------------------------------
(* Scripts. *)

\* A bottle, wherever it is, with a CrossOver or none; a prefix, which the
\* script makes if it is not there, with a Wine.
InstallBegins ==
  /\ script = None /\ changes < MaxChanges /\ changes' = changes + 1
  /\ \/ \E bottle \in {Near, Far, Link}, with \in disk.crossovers \cup {None} :
          Real(bottle) \in disk.bottles /\ script' = [kind |-> "crossover", path |-> bottle, with |-> with, ended |-> FALSE]
     \/ \E prefix \in {Default, Own}, with \in disk.wines :
          script' = [kind |-> "prefix", path |-> prefix, with |-> with, ended |-> FALSE]
  /\ UNCHANGED <<disk, defaults, targets, crossovers, wines, tasks, fresh>>

InstallRuns ==
  /\ script # None /\ ~script.ended
  /\ script' = [script EXCEPT !.ended = TRUE]
  /\ disk' = IF script.kind = "prefix" THEN [disk EXCEPT !.prefixes = @ \cup {script.path}] ELSE disk
  /\ UNCHANGED <<defaults, targets, crossovers, wines, tasks, changes, fresh>>

Remembered ==
  IF script.kind = "crossover"
  THEN [defaults EXCEPT !.crossover = IF script.with = None THEN @ ELSE script.with,
                        !.bottles = IF script.path \in Range(@) THEN @ ELSE Append(@, script.path)]
  ELSE [defaults EXCEPT !.pairs = Append(SelectSeq(@, LAMBDA pair : pair[1] # script.path), <<script.path, script.with>>)]

\* finishInstall(), of a script that failed, too.
InstallEnds ==
  /\ script # None /\ script.ended
  /\ \E ok \in BOOLEAN : LET d == IF ok THEN Remembered ELSE defaults
                          IN  defaults' = d /\ RefreshWith(d)
  /\ script' = None
  /\ UNCHANGED <<disk, crossovers, wines, changes>>

-----------------------------------------------------------------------------
\* Bottles, Wines and CrossOvers come and go.
Change ==
  /\ changes < MaxChanges
  /\ \/ \E b \in {Near, Far} : disk' = [disk EXCEPT !.bottles = IF b \in @ THEN @ \ {b} ELSE @ \cup {b}]
     \/ disk' = [disk EXCEPT !.wines = {"wine"} \ @]
     \/ \E c \in {"crossover1", "crossover2"} : disk' = [disk EXCEPT !.crossovers = IF c \in @ THEN @ \ {c} ELSE @ \cup {c}]
  /\ changes' = changes + 1 /\ fresh' = FALSE
  /\ UNCHANGED <<defaults, targets, crossovers, wines, tasks, script>>

Init ==
  /\ disk = [bottles |-> {Near}, prefixes |-> {Default}, wines |-> {"wine"}, crossovers |-> {"crossover2"}]
  /\ defaults = [bottles |-> <<>>, pairs |-> <<>>, crossover |-> None]
  /\ crossovers = <<>> /\ wines = <<>> /\ script = None /\ changes = 0
  /\ targets = Listed(defaults) /\ tasks = <<Began(defaults)>> /\ fresh = TRUE

Next ==
  \/ Refresh \/ InstallBegins \/ InstallRuns \/ InstallEnds \/ Change
  \/ \E i \in 1..MaxTasks : LookForWines(i) \/ LookForCrossOvers(i) \/ TakeCrossOvers(i) \/ LookForBottles(i) \/ TakeBottles(i)
Spec == Init /\ [][Next]_vars

-----------------------------------------------------------------------------
\* However the tasks of several refreshes end, nothing is listed twice; and
\* when all have ended and nobody has changed the disk since the last, every
\* bottle is listed, with the CrossOver the bottles run in now, and ~/.wine
\* has a Wine if there is one.
TargetsSound ==
  /\ \A i, j \in DOMAIN targets : targets[i].path = targets[j].path => i = j
  /\ fresh /\ tasks = <<>> =>
       /\ \A b \in disk.bottles : \E i \in DOMAIN targets : Real(targets[i].path) = b
       /\ \A i \in DOMAIN targets : targets[i].kind = "crossover" => targets[i].wine = CrossOver(defaults.crossover, crossovers)
       /\ \A i \in DOMAIN targets : targets[i].path = Default /\ disk.wines # {} => targets[i].wine # None
=============================================================================

--------------------------- MODULE PipelineCache ---------------------------
(***************************************************************************)
(* The render pipelines of a share group (PipelineCache,                   *)
(* metal/pipeline_cache.mm): draws look them up and create them, two       *)
(* background queues create those that are predicted, from the render      *)
(* states that draws have used and the programs that were linked.          *)
(*                                                                         *)
(* A key is a program and a render state; all programs here have the same  *)
(* interface signature and none is freed.  Metal creates the pipeline of a *)
(* draw when its key is in Creatable; the creation of a prediction may     *)
(* always fail.                                                            *)
(***************************************************************************)
EXTENDS Naturals, FiniteSets, Sequences

CONSTANTS
  Draws,        \* threads that draw
  Queues,       \* predictionQueue(): serial
  ProgramSet, States,
  Creatable,    \* the keys Metal creates a pipeline for
  MaxStates,    \* the fewer of kMaxStates and kStatesPerSignature
  MaxPredicted, \* kMaxPredicted
  Unset         \* no pipeline, no key, nobody

Keys == ProgramSet \X States

Builders == Draws \cup Queues

PipelineAssumption ==
  /\ Draws \cap Queues = {} /\ Creatable \subseteq Keys
  /\ Unset \notin Builders \cup Keys \cup {"made", "nil"}
  /\ MaxStates \in Nat /\ MaxPredicted \in Nat

VARIABLES
  pc,        \* where each builder is in build()
  want,      \* the key it builds
  answer,    \* its pipeline: "made", "nil", or Unset
  render,    \* render_: "made", "nil" (a failure), or Unset
  building,  \* building_: whose promise
  waits,     \* the builder whose future a draw waits for
  programs,  \* programsBySignature_
  states,    \* statesBySignature_
  predicted, \* predicted_
  work,      \* the keys a draw or a link is about to predict
  queue      \* what each prediction queue has to do

building_vars == <<pc, want, answer, render, building, waits>>
prediction == <<programs, states, predicted, work, queue>>
pipelineVars == <<building_vars, prediction>>

PipelineInit ==
  /\ pc = [b \in Builders |-> "idle"]
  /\ want = [b \in Builders |-> Unset]
  /\ answer = [b \in Builders |-> Unset]
  /\ render = [k \in Keys |-> Unset]
  /\ building = [k \in Keys |-> Unset]
  /\ waits = [d \in Draws |-> Unset]
  /\ programs = {}
  /\ states = {}
  /\ predicted = {}
  /\ work = {}
  /\ queue = [q \in Queues |-> <<>>]

\* A draw of a linked program needs a pipeline; an idle queue takes its next task.
DrawStarts(d, k) ==
  /\ pc[d] = "idle" /\ k[1] \in programs
  /\ want' = [want EXCEPT ![d] = k]
  /\ pc' = [pc EXCEPT ![d] = "look"]
  /\ answer' = [answer EXCEPT ![d] = Unset]
  /\ UNCHANGED <<render, building, waits, prediction>>

PredictionStarts(q) ==
  /\ pc[q] = "idle" /\ queue[q] # <<>>
  /\ want' = [want EXCEPT ![q] = Head(queue[q])]
  /\ queue' = [queue EXCEPT ![q] = Tail(@)]
  /\ pc' = [pc EXCEPT ![q] = "look"]
  /\ answer' = [answer EXCEPT ![q] = Unset]
  /\ UNCHANGED <<render, building, waits, programs, states, predicted, work>>

\* build(), under the lock: the pipeline is there, or another builder
\* creates it (a draw waits for that, a prediction leaves it), or b does.
Look(b) ==
  LET k == want[b] IN
  /\ pc[b] = "look"
  /\ \/ /\ render[k] # Unset
        /\ answer' = [answer EXCEPT ![b] = render[k]]
        /\ pc' = [pc EXCEPT ![b] = "idle"]
        /\ UNCHANGED <<building, waits>>
     \/ /\ render[k] = Unset /\ building[k] # Unset
        /\ IF b \in Queues
           THEN pc' = [pc EXCEPT ![b] = "idle"] /\ UNCHANGED waits
           ELSE pc' = [pc EXCEPT ![b] = "wait"] /\ waits' = [waits EXCEPT ![b] = building[k]]
        /\ UNCHANGED <<answer, building>>
     \/ /\ render[k] = Unset /\ building[k] = Unset
        /\ building' = [building EXCEPT ![k] = b]
        /\ pc' = [pc EXCEPT ![b] = "create"]
        /\ UNCHANGED <<answer, waits>>
  /\ UNCHANGED <<want, render, prediction>>

\* Mutant: a draw takes what the other builder got, also when that failed.
WokenOnce(d) ==
  /\ pc[d] = "wait" /\ waits[d] = Unset
  /\ pc' = [pc EXCEPT ![d] = "idle"]
  /\ UNCHANGED <<want, answer, render, building, waits, prediction>>

\* The future is there: nil makes the draw look again, and create the
\* pipeline itself when it is not there.
Woken(d) ==
  LET k == want[d] IN
  /\ pc[d] = "wait" /\ waits[d] = Unset
  /\ IF answer[d] = "made" \/ render[k] # Unset
     THEN /\ answer' = [answer EXCEPT ![d] = IF @ = "made" THEN @ ELSE render[k]]
          /\ pc' = [pc EXCEPT ![d] = "idle"]
          /\ UNCHANGED building
     ELSE /\ building' = [building EXCEPT ![k] = d]
          /\ pc' = [pc EXCEPT ![d] = "create"]
          /\ UNCHANGED answer
  /\ UNCHANGED <<want, render, waits, prediction>>

\* Metal creates the pipeline, or fails.
Create(b) ==
  /\ pc[b] = "create"
  /\ \E result \in {"made", "nil"} :
       /\ result = "made" => want[b] \in Creatable
       /\ result = "nil" => want[b] \notin Creatable \/ b \in Queues
       /\ answer' = [answer EXCEPT ![b] = result]
  /\ pc' = [pc EXCEPT ![b] = "publish"]
  /\ UNCHANGED <<want, render, building, waits, prediction>>

\* Under the lock: a failed prediction is not kept.
Publish(b) ==
  LET k == want[b] IN
  /\ pc[b] = "publish"
  /\ render' = [render EXCEPT ![k] = IF @ = Unset /\ (answer[b] = "made" \/ b \in Draws) THEN answer[b] ELSE @]
  /\ building' = [building EXCEPT ![k] = Unset]
  /\ pc' = [pc EXCEPT ![b] = "fulfil"]
  /\ UNCHANGED <<want, answer, waits, prediction>>

\* A draw's pipeline tells of its state, as long as there is room for it.
LearnsFrom(b) == b \in Draws /\ answer[b] = "made" /\ Cardinality(states) < MaxStates

\* Mutant: of the draws that wait for a failed prediction, one is woken.
FulfilOne(b) ==
  LET s == want[b][2]
      new == LearnsFrom(b) /\ s \notin states
      waiting == {d \in Draws : waits[d] = b}
      woken == IF waiting = {} THEN {} ELSE {CHOOSE d \in waiting : TRUE} IN
  /\ pc[b] = "fulfil"
  /\ answer' = [x \in Builders |-> IF x \in woken THEN answer[b] ELSE answer[x]]
  /\ waits' = [d \in Draws |-> IF d \in woken THEN Unset ELSE waits[d]]
  /\ pc' = [pc EXCEPT ![b] = "idle"]
  /\ states' = IF new THEN states \cup {s} ELSE states
  /\ work' = IF new THEN work \cup {<<p, s>> : p \in programs \ {want[b][1]}} ELSE work
  /\ UNCHANGED <<want, render, building, programs, predicted, queue>>

\* promise.set_value(), and learn() for the pipeline a draw made.
Fulfil(b) ==
  LET s == want[b][2]
      new == LearnsFrom(b) /\ s \notin states IN
  /\ pc[b] = "fulfil"
  /\ answer' = [x \in Builders |-> IF x \in Draws /\ waits[x] = b THEN answer[b] ELSE answer[x]]
  /\ waits' = [d \in Draws |-> IF waits[d] = b THEN Unset ELSE waits[d]]
  /\ pc' = [pc EXCEPT ![b] = "idle"]
  /\ IF new
     THEN /\ states' = states \cup {s}
          /\ work' = work \cup {<<p, s>> : p \in programs \ {want[b][1]}}
     ELSE UNCHANGED <<states, work>>
  /\ UNCHANGED <<want, render, building, programs, predicted, queue>>

\* linked(): a program that links gets the states seen so far.
Linked(p) ==
  /\ p \notin programs
  /\ programs' = programs \cup {p}
  /\ work' = work \cup {<<p, s>> : s \in states}
  /\ UNCHANGED <<building_vars, states, predicted, queue>>

Full == Cardinality(predicted) >= MaxPredicted

\* predict(): once per key, to the queues in turn, until there are too many.
Predict(k) ==
  /\ k \in work
  /\ work' = work \ {k}
  /\ IF Full \/ k \in predicted
     THEN UNCHANGED <<predicted, queue>>
     ELSE /\ predicted' = predicted \cup {k}
          /\ \E q \in Queues : queue' = [queue EXCEPT ![q] = Append(@, k)]
  /\ UNCHANGED <<building_vars, programs, states>>

Step(b) == Look(b) \/ Create(b) \/ Publish(b) \/ Fulfil(b)

PipelineNext ==
  \/ \E d \in Draws : Woken(d) \/ \E k \in Keys : DrawStarts(d, k)
  \/ \E q \in Queues : PredictionStarts(q)
  \/ \E b \in Builders : Step(b)
  \/ \E p \in ProgramSet : Linked(p)
  \/ \E k \in Keys : Predict(k)

\* Threads run, and Metal's compiler answers.
PipelineFairness == \A b \in Builders : WF_pipelineVars(Step(b)) /\ (b \in Draws => WF_pipelineVars(Woken(b)))

PipelineSpec == PipelineInit /\ [][PipelineNext]_pipelineVars /\ PipelineFairness

-----------------------------------------------------------------------------
PipelineTypeOK ==
  /\ pc \in [Builders -> {"idle", "look", "wait", "create", "publish", "fulfil"}]
  /\ want \in [Builders -> Keys \cup {Unset}]
  /\ answer \in [Builders -> {"made", "nil", Unset}]
  /\ render \in [Keys -> {"made", "nil", Unset}]
  /\ building \in [Keys -> Builders \cup {Unset}]
  /\ waits \in [Draws -> Builders \cup {Unset}]
  /\ programs \subseteq ProgramSet /\ states \subseteq States
  /\ predicted \subseteq Keys /\ work \subseteq Keys
  /\ queue \in [Queues -> Seq(Keys)]

\* "A failed guess is not kept" (pipeline_cache.mm:414): what is kept is
\* what Metal says of the key, whoever asked.
KeptIsTrue == \A k \in Keys : render[k] # Unset => (render[k] = "made" <=> k \in Creatable)

\* Whoever has started has a key, and has Metal's answer from "publish" on;
\* what a builder publishes is kept, but for the failure of a prediction.
Building ==
  \A b \in Builders :
    LET made == want[b] \in Creatable IN
    /\ pc[b] # "idle" => want[b] \in Keys
    /\ pc[b] = "wait" => b \in Draws
    /\ answer[b] = "made" => made
    /\ pc[b] \in {"publish", "fulfil"} => \/ answer[b] = "made"
                                          \/ answer[b] = "nil" /\ (made => b \in Queues)
    /\ answer[b] = "made" /\ pc[b] # "publish" => render[want[b]] # Unset
    /\ pc[b] = "fulfil" /\ b \in Draws => render[want[b]] # Unset

\* A draw waits for a builder that creates the pipeline of the draw's key.
WaitsForBuilder ==
  /\ \A k \in Keys : building[k] # Unset =>
       want[building[k]] = k /\ pc[building[k]] \in {"create", "publish"}
  /\ \A d \in Draws : waits[d] # Unset =>
       /\ pc[d] = "wait" /\ want[waits[d]] = want[d]
       /\ pc[waits[d]] \in {"create", "publish", "fulfil"}

\* A draw whose pipeline Metal can create gets it, whatever became of a
\* prediction of the same key that it found, or waited for; the pipeline is
\* kept for the draws to come.
DrawsServed ==
  \A d \in Draws : pc[d] = "idle" /\ want[d] \in Creatable =>
    answer[d] = "made" /\ render[want[d]] = "made"

\* learn() and linked() (pipeline_cache.mm:526, :562) run on different
\* threads: no pair of a program and a state that was learned is forgotten.
\* It is predicted or about to be, or a draw has made it, or the cache has
\* made all the predictions it makes.
PairsPredicted ==
  \A p \in programs, s \in states :
    \/ Full \/ <<p, s>> \in predicted \cup work
    \/ render[<<p, s>>] # Unset

\* All of the above, which a step keeps.
PipelinesServed ==
  PipelineTypeOK /\ KeptIsTrue /\ Building /\ WaitsForBuilder /\ DrawsServed /\ PairsPredicted

\* A draw that waits for another builder's pipeline is answered.
WaitsEnd == \A d \in Draws : pc[d] = "wait" ~> pc[d] = "idle"
=============================================================================

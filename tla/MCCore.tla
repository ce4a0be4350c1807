-------------------------------- MODULE MCCore --------------------------------
(***************************************************************************)
(* Small instances of four parts of the core that share no state: the      *)
(* transient memory of a context, its occlusion queries, the pipeline      *)
(* cache of a share group, and the computations of MCFormats. `part` says  *)
(* which of them a behaviour is of; the variables of the others do not     *)
(* change.                                                                 *)
(***************************************************************************)
EXTENDS TransientAllocator, OcclusionQueries, PipelineCache

CONSTANT Nothing

VARIABLES part, input

all == <<part, input, vars, queryVars, pipelineVars>>

\* The pairs of a program and a state that Metal can create.
MCCreatable == {<<"p1", "s1">>, <<"p1", "s2">>, <<"p2", "s1">>}

F == INSTANCE MCFormats

ASSUME PartsAssumption == QueriesAssumption /\ PipelineAssumption

MCInit ==
  /\ part \in {"formats", "transient", "queries", "pipelines"}
  /\ Init /\ QueriesInit /\ PipelineInit /\ F!Init

MCNext ==
  /\ UNCHANGED part
  /\ \/ part = "formats" /\ F!Next /\ UNCHANGED <<vars, queryVars, pipelineVars>>
     \/ part = "transient" /\ Next /\ UNCHANGED <<input, queryVars, pipelineVars>>
     \/ part = "queries" /\ QueriesNext /\ UNCHANGED <<input, vars, pipelineVars>>
     \/ part = "pipelines" /\ PipelineNext /\ UNCHANGED <<input, vars, queryVars>>

MCFairness ==
  /\ WF_all(part = "queries" /\ CompleteNext /\ UNCHANGED <<part, input, vars, pipelineVars>>)
  /\ \A q \in Queries : WF_all(part = "queries" /\ Answer(q) /\ UNCHANGED <<part, input, vars, pipelineVars>>)
  /\ \A b \in Builders : WF_all(part = "pipelines" /\ Step(b) /\ UNCHANGED <<part, input, vars, queryVars>>)
  /\ \A d \in Draws : WF_all(part = "pipelines" /\ Woken(d) /\ UNCHANGED <<part, input, vars, queryVars>>)

MCSpec == MCInit /\ [][MCNext]_all /\ MCFairness

(* A query asked for becomes available (OcclusionQueries), and a draw that *)
(* waits for another builder's pipeline is answered (PipelineCache).       *)
Asks(q, d) == (part = "queries" /\ q \in asked) \/ (part = "pipelines" /\ pc[d] = "wait")
Knows(q, d) == (part = "queries" /\ q \notin asked) \/ (part = "pipelines" /\ pc[d] = "idle")
Answered == (Asks("q", "d1") ~> Knows("q", "d1")) /\ (Asks("r", "d2") ~> Knows("r", "d2"))

(* The properties of MCFormats, of the input taken. *)
FormatsSound == part = "formats" => F!FormatsSound
ConversionsSound == part = "formats" => F!ConversionsSound
BlocksSound == part = "formats" => F!BlocksSound
==============================================================================

------------------------------ MODULE Programs ------------------------------
(***************************************************************************)
(* Shader and program objects of a share group (api/program.mm), used by   *)
(* several contexts, each on a thread of its own.  A call holds the        *)
(* share-group lock, but glCompileShader and glLinkProgram release it for  *)
(* the compile and the link: the steps CompileStart/CompileEnd and         *)
(* LinkStart/LinkEnd, between which other contexts do anything to the same *)
(* objects, delete them included.                                          *)
(*                                                                         *)
(* A source is a model value; Accepted are those that compile.  A link is  *)
(* a function of the sources it is given.  Es: an OpenGL ES share group,   *)
(* whose shaders are translated to desktop GLSL by the compile.  SPIR-V    *)
(* shaders are left out.  Names are not used again.  A context has one     *)
(* program pipeline with one stage. The order in which shaders are         *)
(* attached tells nothing here.                                            *)
(***************************************************************************)
EXTENDS Naturals, FiniteSets

CONSTANTS Contexts, Shaders, ProgramSet, Sources, Accepted, Es, None

ProgramsAssumption ==
  /\ IsFiniteSet(Contexts) /\ IsFiniteSet(ProgramSet)
  /\ Accepted \subseteq Sources /\ Es \in BOOLEAN
  /\ None \notin ProgramSet \cup Sources /\ \A x \in SUBSET Sources : x # None

VARIABLES
  shader,   \* [named, source, desktopSource, compileStatus, deletePending, attachCount]
  program,  \* [named, attached, linkStatus, linked, deletePending, useCount, stageUses]
  current,  \* ContextState::program of each context
  stage,    \* the program of the stage of each context's pipeline
  task,     \* the compile or link each context is in, or None
  closed,   \* the contexts that were destroyed
  stranded  \* ghost: programs whose last pipeline stage died with its context

programsVars == <<shader, program, current, stage, task, closed, stranded>>

NewShader == [named |-> TRUE, source |-> None, desktopSource |-> None, compileStatus |-> FALSE,
              deletePending |-> FALSE, attachCount |-> 0]
NewProgram == [named |-> TRUE, attached |-> {}, linkStatus |-> FALSE, linked |-> None,
               deletePending |-> FALSE, useCount |-> 0, stageUses |-> 0]

ProgramsInit ==
  /\ shader = [s \in Shaders |-> NewShader]
  /\ program = [p \in ProgramSet |-> NewProgram]
  /\ current = [c \in Contexts |-> None]
  /\ stage = [c \in Contexts |-> None]
  /\ task = [c \in Contexts |-> None]
  /\ closed = {}
  /\ stranded = {}

\* Context c may call into the library.
Ready(c) == task[c] = None /\ c \notin closed

\* maybeDeleteShader() and maybeDeleteProgram() on given tables.
ShaderGoes(s) == s.deletePending /\ s.attachCount = 0
Sweep(shaders) == [s \in Shaders |-> [shaders[s] EXCEPT !.named = @ /\ ~ShaderGoes(shaders[s])]]
ProgramGoes(p) == p.deletePending /\ p.useCount = 0 /\ p.stageUses = 0
Detached(shaders, names) ==
  Sweep([s \in Shaders |-> [shaders[s] EXCEPT !.attachCount = IF s \in names THEN @ - 1 ELSE @]])

\* The tables after program p became `changed` and was looked at for deletion.
Settle(p, changed) ==
  IF ProgramGoes(changed)
  THEN /\ program' = [program EXCEPT ![p] = [changed EXCEPT !.named = FALSE, !.attached = {}]]
       /\ shader' = Detached(shader, changed.attached)
  ELSE program' = [program EXCEPT ![p] = changed] /\ UNCHANGED shader

ShaderSource(c, s, source) ==
  /\ Ready(c) /\ shader[s].named
  /\ shader' = [shader EXCEPT ![s].source = source]
  /\ UNCHANGED <<program, current, stage, task, closed, stranded>>

CompileStart(c, s) ==
  /\ Ready(c) /\ shader[s].named
  /\ task' = [task EXCEPT ![c] = [kind |-> "compile", shader |-> s, source |-> shader[s].source]]
  /\ UNCHANGED <<shader, program, current, stage, closed, stranded>>

CompileEnd(c) ==
  /\ task[c] # None /\ task[c].kind = "compile"
  /\ LET ok == task[c].source \in Accepted IN
     shader' = [shader EXCEPT ![task[c].shader].desktopSource = IF Es /\ ok THEN task[c].source ELSE None,
                              ![task[c].shader].compileStatus = ok]
  /\ task' = [task EXCEPT ![c] = None]
  /\ UNCHANGED <<program, current, stage, closed, stranded>>

DeleteShader(c, s) ==
  /\ Ready(c) /\ shader[s].named
  /\ shader' = Sweep([shader EXCEPT ![s].deletePending = TRUE])
  /\ UNCHANGED <<program, current, stage, task, closed, stranded>>

AttachShader(c, p, s) ==
  /\ Ready(c) /\ program[p].named /\ shader[s].named
  /\ s \notin program[p].attached
  /\ program' = [program EXCEPT ![p].attached = @ \cup {s}]
  /\ shader' = [shader EXCEPT ![s].attachCount = @ + 1]
  /\ UNCHANGED <<current, stage, task, closed, stranded>>

DetachShader(c, p, s) ==
  /\ Ready(c) /\ program[p].named /\ shader[s].named
  /\ s \in program[p].attached
  /\ program' = [program EXCEPT ![p].attached = @ \ {s}]
  /\ shader' = Detached(shader, {s})
  /\ UNCHANGED <<current, stage, task, closed, stranded>>

\* What glLinkProgram takes from an attached shader.
LinkedSource(s) == IF shader[s].desktopSource # None THEN shader[s].desktopSource ELSE shader[s].source

\* glLinkProgram copies the input, then unlocks when nothing is wrong with it.
LinkStart(c, p) ==
  LET attached == program[p].attached IN
  /\ Ready(c) /\ program[p].named
  /\ task' = [task EXCEPT ![c] =
       [kind |-> "link", program |-> p, input |-> {LinkedSource(s) : s \in attached},
        ok |-> attached # {} /\ \A s \in attached : shader[s].compileStatus]]
  /\ UNCHANGED <<shader, program, current, stage, closed, stranded>>

\* Mutant: a failed link takes the executable, in use or not.
LinkEndTakes(c) ==
  /\ task[c] # None /\ task[c].kind = "link"
  /\ LET p == task[c].program
         ok == task[c].ok /\ task[c].input \subseteq Accepted IN
     program' = [program EXCEPT ![p].linkStatus = ok, ![p].linked = IF ok THEN task[c].input ELSE None]
  /\ task' = [task EXCEPT ![c] = None]
  /\ UNCHANGED <<shader, current, stage, closed, stranded>>

\* A failed link takes the executable of a program that nothing uses now.
LinkEnd(c) ==
  /\ task[c] # None /\ task[c].kind = "link"
  /\ LET p == task[c].program
         ok == task[c].ok /\ task[c].input \subseteq Accepted IN
     program' = [program EXCEPT ![p].linkStatus = ok,
                                ![p].linked = IF ok THEN task[c].input
                                              ELSE IF program[p].useCount = 0 /\ program[p].stageUses = 0 THEN None ELSE @]
  /\ task' = [task EXCEPT ![c] = None]
  /\ UNCHANGED <<shader, current, stage, closed, stranded>>

DeleteProgram(c, p) ==
  /\ Ready(c) /\ program[p].named
  /\ Settle(p, [program[p] EXCEPT !.deletePending = TRUE])
  /\ UNCHANGED <<current, stage, task, closed, stranded>>

\* glUseProgram(p).
UseProgram(c, p) ==
  LET previous == current[c]
      used == [program EXCEPT ![p].useCount = @ + 1] IN
  /\ Ready(c) /\ program[p].named /\ program[p].linkStatus /\ previous # p
  /\ current' = [current EXCEPT ![c] = p]
  /\ IF previous = None
     THEN program' = used /\ UNCHANGED shader
     ELSE LET left == [program[previous] EXCEPT !.useCount = @ - 1] IN
          IF ProgramGoes(left)
          THEN /\ program' = [used EXCEPT ![previous] = [left EXCEPT !.named = FALSE, !.attached = {}]]
               /\ shader' = Detached(shader, left.attached)
          ELSE program' = [used EXCEPT ![previous] = left] /\ UNCHANGED shader
  /\ UNCHANGED <<stage, task, closed, stranded>>

\* glUseProgram(0), and releaseCurrentProgram().
UseNone(c) ==
  /\ Ready(c) /\ current[c] # None
  /\ Settle(current[c], [program[current[c]] EXCEPT !.useCount = @ - 1])
  /\ current' = [current EXCEPT ![c] = None]
  /\ UNCHANGED <<stage, task, closed, stranded>>

\* glUseProgramStages(): p becomes the stage of c's pipeline.
UseProgramStages(c, p) ==
  /\ Ready(c) /\ program[p].named /\ program[p].linkStatus /\ stage[c] = None
  /\ stage' = [stage EXCEPT ![c] = p]
  /\ program' = [program EXCEPT ![p].stageUses = @ + 1]
  /\ UNCHANGED <<shader, current, task, closed, stranded>>

\* glDeleteProgramPipelines(), and glUseProgramStages() with no program.
ReleaseStages(c) ==
  /\ Ready(c) /\ stage[c] # None
  /\ Settle(stage[c], [program[stage[c]] EXCEPT !.stageUses = @ - 1])
  /\ stage' = [stage EXCEPT ![c] = None]
  /\ UNCHANGED <<current, task, closed, stranded>>

\* A context without a current program is destroyed: its pipeline dies
\* with it, outside the share lock (objects.h:484), and drops its stage
\* without looking whether the program was deleted.
DestroyContext(c) ==
  /\ Ready(c) /\ current[c] = None
  /\ closed' = closed \cup {c}
  /\ stage' = [stage EXCEPT ![c] = None]
  /\ IF stage[c] = None
     THEN UNCHANGED <<program, stranded>>
     ELSE /\ program' = [program EXCEPT ![stage[c]].stageUses = @ - 1]
          /\ stranded' = stranded \cup {stage[c]}
  /\ UNCHANGED <<shader, current, task>>

ProgramsNext ==
  \E c \in Contexts :
    \/ \E s \in Shaders :
         \/ \E source \in Sources : ShaderSource(c, s, source)
         \/ CompileStart(c, s) \/ DeleteShader(c, s)
         \/ \E p \in ProgramSet : AttachShader(c, p, s) \/ DetachShader(c, p, s)
    \/ CompileEnd(c) \/ LinkEnd(c) \/ UseNone(c) \/ ReleaseStages(c) \/ DestroyContext(c)
    \/ \E p \in ProgramSet : LinkStart(c, p) \/ DeleteProgram(c, p) \/ UseProgram(c, p) \/ UseProgramStages(c, p)

ProgramsSpec == ProgramsInit /\ [][ProgramsNext]_programsVars

-----------------------------------------------------------------------------
Shader  == [named : BOOLEAN, source : Sources \cup {None}, desktopSource : Accepted \cup {None},
            compileStatus : BOOLEAN, deletePending : BOOLEAN, attachCount : Nat]
Program == [named : BOOLEAN, attached : SUBSET Shaders, linkStatus : BOOLEAN,
            linked : {None} \cup SUBSET Accepted, deletePending : BOOLEAN,
            useCount : Nat, stageUses : Nat]
Task    == [kind : {"compile"}, shader : Shaders, source : Sources \cup {None}]
             \cup [kind : {"link"}, program : ProgramSet, input : SUBSET (Sources \cup {None}), ok : BOOLEAN]

ProgramsTypeOK ==
  /\ shader \in [Shaders -> Shader]
  /\ program \in [ProgramSet -> Program]
  /\ current \in [Contexts -> ProgramSet \cup {None}]
  /\ stage \in [Contexts -> ProgramSet \cup {None}]
  /\ task \in [Contexts -> Task \cup {None}]
  /\ closed \subseteq Contexts /\ stranded \subseteq ProgramSet

\* A program linked last without an error has an executable, and a shader
\* compiled for OpenGL ES has the desktop GLSL of what was accepted.
StatusTrue ==
  /\ \A p \in ProgramSet : program[p].linkStatus => program[p].linked # None
  /\ Es => \A s \in Shaders : shader[s].compileStatus => shader[s].desktopSource # None

\* linkFrom() (api/program.mm:594) keeps the executable of a program that
\* fails to link again while something uses it: what a context draws with,
\* or has as a pipeline stage, has an executable, also when it came into use
\* while the failing link ran without the lock.
UsedHasExecutable ==
  \A c \in Contexts :
    /\ current[c] # None => program[current[c]].linked # None
    /\ stage[c] # None => program[stage[c]].linked # None

\* Who uses a shader, and a program.
Holders(s) == {p \in ProgramSet : s \in program[p].attached}
Users(p)   == {c \in Contexts : current[c] = p}
Stages(p)  == {c \in Contexts : stage[c] = p}

\* maybeDeleteShader() and maybeDeleteProgram(): an object has its name
\* until it was deleted and nothing uses it, and not longer; the counts say
\* who uses it.
NamesFollowUse ==
  /\ \A s \in Shaders :
       /\ shader[s].attachCount = Cardinality(Holders(s))
       /\ shader[s].named = ~ShaderGoes(shader[s])
  /\ \A p \in ProgramSet :
       /\ program[p].useCount = Cardinality(Users(p))
       /\ program[p].stageUses = Cardinality(Stages(p))
       /\ ~program[p].named => ProgramGoes(program[p])
       /\ ProgramGoes(program[p]) => ~program[p].named \/ p \in stranded

\* "error: attached shader ... is not compiled" (api/program.mm:652): the
\* GLSL that a link of translated shaders takes is what the compile had
\* accepted, also when the application gave a shader another source since.
LinkedWereCompiled ==
  Es => \A c \in Contexts :
    task[c] # None /\ task[c].kind = "link" /\ task[c].ok => task[c].input \subseteq Accepted

\* All of the above, which a step keeps.
ProgramsSound ==
  ProgramsTypeOK /\ StatusTrue /\ UsedHasExecutable /\ NamesFollowUse /\ LinkedWereCompiled
=============================================================================

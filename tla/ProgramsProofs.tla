---------------------------- MODULE ProgramsProofs ----------------------------
(***************************************************************************)
(* Proofs about Programs, for any number of contexts, shaders and          *)
(* programs, and about LinkCache.                                          *)
(***************************************************************************)
EXTENDS Programs, LinkCache, FiniteSetTheorems, SequenceTheorems, TLAPS

-----------------------------------------------------------------------------
(***************************************************************************)
(* Counting who uses what.                                                 *)
(***************************************************************************)
LEMMA CountAdded ==
  ASSUME NEW S, IsFiniteSet(S), NEW T \in SUBSET S, NEW x
  PROVE  /\ Cardinality(T) \in Nat
         /\ x \notin T => Cardinality(T \cup {x}) = Cardinality(T) + 1
         /\ x \in T => Cardinality(T) >= 1 /\ Cardinality(T \ {x}) = Cardinality(T) - 1
         /\ Cardinality(T) = 0 => T = {}
<1>1. IsFiniteSet(T) /\ Cardinality(T) \in Nat
  BY FS_Subset, FS_CardinalityType
<1>2. x \notin T => Cardinality(T \cup {x}) = Cardinality(T) + 1
  BY <1>1, FS_AddElement
<1>3. x \in T => Cardinality(T \ {x}) = Cardinality(T) - 1 /\ Cardinality(T \ {x}) \in Nat
  BY <1>1, FS_RemoveElement, FS_CardinalityType
<1>4. Cardinality(T) = 0 => T = {}
  BY <1>1, FS_EmptySet
<1> QED BY <1>1, <1>2, <1>3, <1>4

(* A context goes from the program f[c], or none, to v. *)
LEMMA UserMoves ==
  ASSUME ProgramsAssumption, NEW f \in [Contexts -> ProgramSet \cup {None}], NEW c \in Contexts,
         NEW v \in ProgramSet \cup {None}, NEW g, g = [f EXCEPT ![c] = v], NEW p \in ProgramSet
  PROVE  LET old == Cardinality({d \in Contexts : f[d] = p})
             new == Cardinality({d \in Contexts : g[d] = p}) IN
         /\ old \in Nat /\ new \in Nat
         /\ p = v /\ f[c] # p => new = old + 1
         /\ p # v /\ f[c] = p => old >= 1 /\ new = old - 1
         /\ (p = v <=> f[c] = p) => new = old
         /\ old = 0 => f[c] # p
<1> DEFINE O == {d \in Contexts : f[d] = p}
           N == {d \in Contexts : g[d] = p}
<1>1. IsFiniteSet(Contexts) /\ O \in SUBSET Contexts /\ N \in SUBSET Contexts
  BY DEF ProgramsAssumption
<1>2. /\ p = v /\ f[c] # p => N = O \cup {c} /\ c \notin O
      /\ p # v /\ f[c] = p => N = O \ {c} /\ c \in O
      /\ (p = v <=> f[c] = p) => N = O
      /\ f[c] = p => c \in O
  OBVIOUS
<1> HIDE DEF O, N
<1>3. /\ Cardinality(O) \in Nat /\ Cardinality(N) \in Nat
      /\ c \notin O => Cardinality(O \cup {c}) = Cardinality(O) + 1
      /\ c \in O => Cardinality(O) >= 1 /\ Cardinality(O \ {c}) = Cardinality(O) - 1
      /\ Cardinality(O) = 0 => O = {}
  BY <1>1, CountAdded
<1> QED BY <1>2, <1>3 DEF O, N

(* The contexts that f sends to p.                                         *)
SentTo(f, p) == {c \in Contexts : f[c] = p}

(* g is f but for one context, which used p and uses nothing now.          *)
Left(f, g, p) ==
  /\ Cardinality(SentTo(g, p)) = Cardinality(SentTo(f, p)) - 1
  /\ \A o \in ProgramSet \ {p} : Cardinality(SentTo(g, o)) = Cardinality(SentTo(f, o))

LEMMA UserLeaves ==
  ASSUME ProgramsAssumption, NEW f \in [Contexts -> ProgramSet \cup {None}], NEW c \in Contexts,
         NEW p \in ProgramSet, f[c] = p
  PROVE  Left(f, [f EXCEPT ![c] = None], p)
<1> DEFINE g == [f EXCEPT ![c] = None]
<1>1. None \in ProgramSet \cup {None} /\ \A o \in ProgramSet : o # None
  BY DEF ProgramsAssumption
<1>2. g = [f EXCEPT ![c] = None]
  OBVIOUS
<1> HIDE DEF g
<1>3. Cardinality(SentTo(g, p)) = Cardinality(SentTo(f, p)) - 1
  BY <1>1, <1>2, UserMoves DEF SentTo
<1>4. ASSUME NEW o \in ProgramSet \ {p}
      PROVE  Cardinality(SentTo(g, o)) = Cardinality(SentTo(f, o))
  <2>1. o \in ProgramSet /\ (o = None <=> f[c] = o)
    BY <1>1
  <2> QED BY <1>1, <1>2, <2>1, UserMoves DEF SentTo
<1> QED BY <1>2, <1>3, <1>4 DEF Left

(* g is f but for one context, which did not use p and does now; gone is   *)
(* what it used before, or None.                                           *)
Taken(f, g, p, gone) ==
  /\ Cardinality(SentTo(g, p)) = Cardinality(SentTo(f, p)) + 1
  /\ \A o \in ProgramSet \ {p} : Cardinality(SentTo(g, o))
       = IF o = gone THEN Cardinality(SentTo(f, o)) - 1 ELSE Cardinality(SentTo(f, o))
  /\ \A o \in ProgramSet : Cardinality(SentTo(f, o)) \in Nat

LEMMA UserTakes ==
  ASSUME ProgramsAssumption, NEW f \in [Contexts -> ProgramSet \cup {None}], NEW c \in Contexts,
         NEW p \in ProgramSet, f[c] # p
  PROVE  Taken(f, [f EXCEPT ![c] = p], p, f[c])
<1> DEFINE g == [f EXCEPT ![c] = p]
<1>1. p \in ProgramSet \cup {None} /\ g = [f EXCEPT ![c] = p]
  OBVIOUS
<1> HIDE DEF g
<1>2. Cardinality(SentTo(g, p)) = Cardinality(SentTo(f, p)) + 1
  BY <1>1, UserMoves DEF SentTo
<1>3. ASSUME NEW o \in ProgramSet
      PROVE  Cardinality(SentTo(f, o)) \in Nat
  BY <1>1, UserMoves DEF SentTo
<1>4. ASSUME NEW o \in ProgramSet \ {p}
      PROVE  Cardinality(SentTo(g, o))
               = IF o = f[c] THEN Cardinality(SentTo(f, o)) - 1 ELSE Cardinality(SentTo(f, o))
  BY <1>1, UserMoves DEF SentTo
<1> QED BY <1>1, <1>2, <1>3, <1>4 DEF Taken

-----------------------------------------------------------------------------
(***************************************************************************)
(* The tables.                                                             *)
(***************************************************************************)
ShadersNamed(t) == \A s \in Shaders : t[s].named = ~ShaderGoes(t[s])
ShadersCounted  == \A s \in Shaders : shader[s].attachCount = Cardinality(Holders(s))
UsesCounted ==
  \A p \in ProgramSet : /\ program[p].useCount = Cardinality(Users(p))
                        /\ program[p].stageUses = Cardinality(Stages(p))
ProgramsNamed ==
  \A p \in ProgramSet : /\ ~program[p].named => ProgramGoes(program[p])
                        /\ ProgramGoes(program[p]) => ~program[p].named \/ p \in stranded

LEMMA NamesKept ==
  NamesFollowUse <=> ShadersNamed(shader) /\ ShadersCounted /\ UsesCounted /\ ProgramsNamed
BY DEF NamesFollowUse, ShadersNamed, ShadersCounted, UsesCounted, ProgramsNamed

LEMMA NamesAfter ==
  ASSUME ShadersNamed(shader'), ShadersCounted', UsesCounted', ProgramsNamed'
  PROVE  NamesFollowUse'
BY DEF NamesFollowUse, ShadersNamed, ShadersCounted, UsesCounted, ProgramsNamed

(* What the tables of shaders have in common before and after. *)
SameBut(t, r) ==
  /\ r \in [Shaders -> Shader]
  /\ \A s \in Shaders : /\ r[s].source = t[s].source /\ r[s].desktopSource = t[s].desktopSource
                        /\ r[s].compileStatus = t[s].compileStatus
                        /\ r[s].deletePending = t[s].deletePending

LEMMA SweepFits ==
  ASSUME NEW t \in [Shaders -> Shader], \A s \in Shaders : ~t[s].named => ShaderGoes(t[s])
  PROVE  LET r == Sweep(t) IN
         /\ SameBut(t, r) /\ ShadersNamed(r)
         /\ \A s \in Shaders : r[s].attachCount = t[s].attachCount
<1> DEFINE r == Sweep(t)
<1>1. ASSUME NEW s \in Shaders
      PROVE  /\ r[s] \in Shader
             /\ r[s].source = t[s].source /\ r[s].desktopSource = t[s].desktopSource
             /\ r[s].compileStatus = t[s].compileStatus /\ r[s].deletePending = t[s].deletePending
             /\ r[s].attachCount = t[s].attachCount /\ r[s].named = ~ShaderGoes(r[s])
  <2> DEFINE n == t[s].named /\ ~ShaderGoes(t[s])
             x == [t[s] EXCEPT !.named = n]
  <2>1. t[s] \in Shader /\ n \in BOOLEAN /\ n = ~ShaderGoes(t[s])
    BY DEF Shader, ShaderGoes
  <2>2. r[s] = x
    BY DEF Sweep
  <2> HIDE DEF n, r
  <2>3. /\ x \in Shader /\ x.named = n
        /\ x.source = t[s].source /\ x.desktopSource = t[s].desktopSource
        /\ x.compileStatus = t[s].compileStatus /\ x.deletePending = t[s].deletePending
        /\ x.attachCount = t[s].attachCount
    BY <2>1 DEF Shader
  <2>4. ShaderGoes(x) = ShaderGoes(t[s])
    BY <2>3 DEF ShaderGoes
  <2> QED BY <2>1, <2>2, <2>3, <2>4
<1>2. r = [s \in Shaders |-> r[s]]
  BY DEF Sweep
<1> HIDE DEF r
<1>3. r \in [Shaders -> Shader]
  BY <1>1, <1>2
<1> QED BY <1>1, <1>3 DEF SameBut, ShadersNamed, r

LEMMA DetachedFits ==
  ASSUME NEW t \in [Shaders -> Shader], ShadersNamed(t), NEW names,
         \A s \in Shaders : s \in names => t[s].attachCount >= 1
  PROVE  LET r == Detached(t, names) IN
         /\ SameBut(t, r) /\ ShadersNamed(r)
         /\ \A s \in Shaders :
              r[s].attachCount = IF s \in names THEN t[s].attachCount - 1 ELSE t[s].attachCount
<1> DEFINE u == [s \in Shaders |-> [t[s] EXCEPT !.attachCount = IF s \in names THEN @ - 1 ELSE @]]
<1>1. ASSUME NEW s \in Shaders
      PROVE  /\ u[s] \in Shader
             /\ u[s].source = t[s].source /\ u[s].desktopSource = t[s].desktopSource
             /\ u[s].compileStatus = t[s].compileStatus /\ u[s].deletePending = t[s].deletePending
             /\ u[s].named = t[s].named
             /\ u[s].attachCount = IF s \in names THEN t[s].attachCount - 1 ELSE t[s].attachCount
  <2> DEFINE n == IF s \in names THEN t[s].attachCount - 1 ELSE t[s].attachCount
             x == [t[s] EXCEPT !.attachCount = n]
  <2>1. t[s] \in Shader /\ t[s].attachCount \in Nat
    BY DEF Shader
  <2>2. n \in Nat
    BY <2>1
  <2>3. u[s] = x
    OBVIOUS
  <2> HIDE DEF n, u
  <2>4. /\ x \in Shader /\ x.named = t[s].named
        /\ x.source = t[s].source /\ x.desktopSource = t[s].desktopSource
        /\ x.compileStatus = t[s].compileStatus /\ x.deletePending = t[s].deletePending
        /\ x.attachCount = n
    BY <2>1, <2>2 DEF Shader
  <2> QED BY <2>3, <2>4 DEF n
<1>2. u \in [Shaders -> Shader]
  <2>1. u = [s \in Shaders |-> u[s]]
    OBVIOUS
  <2> HIDE DEF u
  <2> QED BY <1>1, <2>1
<1>3. Detached(t, names) = Sweep(u)
  BY DEF Detached
<1> HIDE DEF u
<1>4. ASSUME NEW s \in Shaders, ~u[s].named
      PROVE  ShaderGoes(u[s])
  <2>1. ShaderGoes(t[s])
    BY <1>1, <1>4 DEF ShadersNamed
  <2>2. s \notin names
    BY <2>1 DEF ShaderGoes
  <2> QED BY <1>1, <2>1, <2>2 DEF ShaderGoes
<1>5. /\ SameBut(u, Sweep(u)) /\ ShadersNamed(Sweep(u))
      /\ \A s \in Shaders : Sweep(u)[s].attachCount = u[s].attachCount
  BY <1>2, <1>4, SweepFits
<1>6. SameBut(t, Sweep(u))
  BY <1>1, <1>5 DEF SameBut
<1> QED BY <1>1, <1>3, <1>5, <1>6

(* maybeDeleteProgram(): program p becomes x, of a table that holds the    *)
(* shaders as the programs do.                                             *)
Becomes(t, p, x) ==
  IF ProgramGoes(x)
  THEN /\ program' = [t EXCEPT ![p] = [x EXCEPT !.named = FALSE, !.attached = {}]]
       /\ shader' = Detached(shader, x.attached)
  ELSE program' = [t EXCEPT ![p] = x] /\ UNCHANGED shader

LEMMA BecomesFits ==
  ASSUME ProgramsAssumption, ProgramsTypeOK, NamesFollowUse,
         NEW t \in [ProgramSet -> Program],
         \A o \in ProgramSet : t[o].attached = program[o].attached,
         NEW p \in ProgramSet, NEW x \in Program, x.attached = program[p].attached, x.named,
         Becomes(t, p, x)
  PROVE  /\ SameBut(shader, shader') /\ ShadersNamed(shader') /\ ShadersCounted'
         /\ program' \in [ProgramSet -> Program]
         /\ \A o \in ProgramSet \ {p} : program'[o] = t[o]
         /\ program'[p].linkStatus = x.linkStatus /\ program'[p].linked = x.linked
         /\ program'[p].deletePending = x.deletePending
         /\ program'[p].useCount = x.useCount /\ program'[p].stageUses = x.stageUses
         /\ program'[p].named = ~ProgramGoes(x)
<1>1. /\ shader \in [Shaders -> Shader] /\ program \in [ProgramSet -> Program]
      /\ ShadersNamed(shader) /\ ShadersCounted
  BY NamesKept DEF ProgramsTypeOK
<1>2. ASSUME NEW s \in Shaders
      PROVE  Holders(s) \in SUBSET ProgramSet /\ IsFiniteSet(ProgramSet)
  BY DEF Holders, ProgramsAssumption
<1>3. CASE ProgramGoes(x)
  <2> DEFINE y == [x EXCEPT !.named = FALSE, !.attached = {}]
  <2>1. program' = [t EXCEPT ![p] = y] /\ shader' = Detached(shader, x.attached)
    BY <1>3 DEF Becomes
  <2>2. /\ y \in Program /\ y.named = FALSE /\ y.attached = {}
        /\ y.linkStatus = x.linkStatus /\ y.linked = x.linked /\ y.deletePending = x.deletePending
        /\ y.useCount = x.useCount /\ y.stageUses = x.stageUses
    <3>1. y \in Program
      BY DEF Program
    <3>2. y.named = FALSE /\ y.attached = {} /\ y.linkStatus = x.linkStatus /\ y.linked = x.linked
      BY DEF Program
    <3>3. y.deletePending = x.deletePending /\ y.useCount = x.useCount /\ y.stageUses = x.stageUses
      BY DEF Program
    <3> QED BY <3>1, <3>2, <3>3
  <2> HIDE DEF y
  <2>3. /\ program' \in [ProgramSet -> Program] /\ program'[p] = y
        /\ \A o \in ProgramSet \ {p} : program'[o] = t[o]
    BY <2>1, <2>2
  <2>4. ASSUME NEW s \in Shaders
        PROVE  /\ s \in x.attached => p \in Holders(s) /\ Holders(s)' = Holders(s) \ {p}
               /\ s \notin x.attached => Holders(s)' = Holders(s)
    BY <2>2, <2>3 DEF Holders
  <2>5. ASSUME NEW s \in Shaders
        PROVE  /\ shader[s].attachCount \in Nat /\ shader[s].attachCount = Cardinality(Holders(s))
               /\ s \in x.attached => /\ shader[s].attachCount >= 1
                                      /\ Cardinality(Holders(s)') = shader[s].attachCount - 1
               /\ s \notin x.attached => Cardinality(Holders(s)') = shader[s].attachCount
    <3> DEFINE H == Holders(s)
               n == shader[s].attachCount
    <3>1. H \in SUBSET ProgramSet /\ IsFiniteSet(ProgramSet) /\ n = Cardinality(H)
      BY <1>1, <1>2 DEF ShadersCounted
    <3> HIDE DEF H, n
    <3>2. Cardinality(H) \in Nat /\ (p \in H => Cardinality(H) >= 1 /\ Cardinality(H \ {p}) = Cardinality(H) - 1)
      BY <3>1, CountAdded
    <3>3. CASE s \in x.attached
      <4>1. p \in H /\ Holders(s)' = H \ {p}
        BY <2>4, <3>3 DEF H
      <4>2. n \in Nat /\ n >= 1 /\ Cardinality(Holders(s)') = n - 1
        BY <3>1, <3>2, <4>1
      <4> QED BY <3>1, <3>3, <4>2 DEF H, n
    <3>4. CASE s \notin x.attached
      <4>1. Holders(s)' = H
        BY <2>4, <3>4 DEF H
      <4> QED BY <3>1, <3>2, <3>4, <4>1 DEF H, n
    <3> QED BY <3>3, <3>4
  <2>6. /\ SameBut(shader, shader') /\ ShadersNamed(shader')
        /\ \A s \in Shaders : shader'[s].attachCount
             = IF s \in x.attached THEN shader[s].attachCount - 1 ELSE shader[s].attachCount
    BY <1>1, <2>1, <2>5, DetachedFits
  <2>7. ShadersCounted'
    BY <2>5, <2>6 DEF ShadersCounted
  <2>8. program'[p].named = ~ProgramGoes(x)
    <3>1. y.named = FALSE /\ program'[p] = y /\ ProgramGoes(x) = TRUE
      BY <1>3, <2>2, <2>3 DEF ProgramGoes
    <3> QED BY <3>1
  <2> QED BY <2>2, <2>3, <2>6, <2>7, <2>8
<1>4. CASE ~ProgramGoes(x)
  <2>1. program' = [t EXCEPT ![p] = x] /\ shader' = shader
    BY <1>4 DEF Becomes
  <2>2. /\ program' \in [ProgramSet -> Program] /\ program'[p] = x
        /\ \A o \in ProgramSet \ {p} : program'[o] = t[o]
    BY <2>1
  <2>3. \A s \in Shaders : Holders(s)' = Holders(s)
    BY <2>2 DEF Holders
  <2>4. ShadersCounted'
    BY <1>1, <2>1, <2>3 DEF ShadersCounted
  <2> QED BY <1>1, <1>4, <2>1, <2>2, <2>4 DEF SameBut
<1> QED BY <1>3, <1>4

-----------------------------------------------------------------------------
(***************************************************************************)
(* Calls about shaders.                                                    *)
(***************************************************************************)
LEMMA Parts ==
  ASSUME ProgramsSound
  PROVE  /\ ProgramsTypeOK /\ StatusTrue /\ UsedHasExecutable /\ NamesFollowUse /\ LinkedWereCompiled
         /\ ShadersNamed(shader) /\ ShadersCounted /\ UsesCounted /\ ProgramsNamed
         /\ shader \in [Shaders -> Shader] /\ program \in [ProgramSet -> Program]
BY NamesKept DEF ProgramsSound, ProgramsTypeOK

(* A step that changes shaders only, in what a link does not look at or    *)
(* consistently.                                                           *)
LEMMA ShaderStep ==
  ASSUME ProgramsAssumption, ProgramsSound, UNCHANGED <<program, current, stage, closed, stranded>>,
         shader' \in [Shaders -> Shader], ShadersNamed(shader'),
         \A s \in Shaders : shader'[s].attachCount = shader[s].attachCount,
         Es => \A s \in Shaders : shader'[s].compileStatus => shader'[s].desktopSource # None,
         task' \in [Contexts -> Task \cup {None}], LinkedWereCompiled'
  PROVE  ProgramsSound'
<1>1. ProgramsTypeOK'
  BY Parts DEF ProgramsTypeOK
<1>2. StatusTrue' /\ UsedHasExecutable'
  BY Parts DEF StatusTrue, UsedHasExecutable
<1>3. ShadersCounted'
  BY Parts DEF ShadersCounted, Holders
<1>4. UsesCounted' /\ ProgramsNamed'
  BY Parts DEF UsesCounted, ProgramsNamed, Users, Stages
<1> QED BY <1>1, <1>2, <1>3, <1>4, NamesAfter DEF ProgramsSound

LEMMA StepShaderSource ==
  ASSUME ProgramsAssumption, ProgramsSound, NEW c \in Contexts, NEW s \in Shaders,
         NEW source \in Sources, ShaderSource(c, s, source)
  PROVE  ProgramsSound'
<1> DEFINE x == [shader[s] EXCEPT !.source = source]
<1>1. /\ shader' = [shader EXCEPT ![s] = x]
      /\ UNCHANGED <<program, current, stage, task, closed, stranded>>
  BY DEF ShaderSource
<1>2. /\ x \in Shader /\ x.named = shader[s].named /\ x.desktopSource = shader[s].desktopSource
      /\ x.compileStatus = shader[s].compileStatus /\ x.deletePending = shader[s].deletePending
      /\ x.attachCount = shader[s].attachCount
  BY Parts DEF Shader
<1> HIDE DEF x
<1>3. /\ shader' \in [Shaders -> Shader] /\ shader'[s] = x
      /\ \A o \in Shaders \ {s} : shader'[o] = shader[o]
  BY <1>1, <1>2, Parts
<1>4. ShadersNamed(shader')
  BY <1>2, <1>3, Parts DEF ShadersNamed, ShaderGoes
<1>5. LinkedWereCompiled' /\ task' \in [Contexts -> Task \cup {None}]
  BY <1>1, Parts DEF LinkedWereCompiled, ProgramsTypeOK
<1>6. Es => \A o \in Shaders : shader'[o].compileStatus => shader'[o].desktopSource # None
  BY <1>2, <1>3, Parts DEF StatusTrue
<1>7. \A o \in Shaders : shader'[o].attachCount = shader[o].attachCount
  BY <1>2, <1>3
<1> QED BY <1>1, <1>3, <1>4, <1>5, <1>6, <1>7, ShaderStep

LEMMA StepCompileStart ==
  ASSUME ProgramsAssumption, ProgramsSound, NEW c \in Contexts, NEW s \in Shaders, CompileStart(c, s)
  PROVE  ProgramsSound'
<1> DEFINE x == [kind |-> "compile", shader |-> s, source |-> shader[s].source]
<1>1. task' = [task EXCEPT ![c] = x] /\ UNCHANGED <<shader, program, current, stage, closed, stranded>>
  BY DEF CompileStart
<1>2. x \in Task /\ x.kind = "compile"
  <2>1. shader[s].source \in Sources \cup {None}
    BY Parts DEF Shader
  <2> QED BY <2>1 DEF Task
<1> HIDE DEF x
<1>3. LinkedWereCompiled' /\ task' \in [Contexts -> Task \cup {None}]
  BY <1>1, <1>2, Parts DEF LinkedWereCompiled, ProgramsTypeOK
<1> QED BY <1>1, <1>3, Parts, ShaderStep DEF StatusTrue

LEMMA StepCompileEnd ==
  ASSUME ProgramsAssumption, ProgramsSound, NEW c \in Contexts, CompileEnd(c)
  PROVE  ProgramsSound'
<1> DEFINE s == task[c].shader
           ok == task[c].source \in Accepted
           d == IF Es /\ ok THEN task[c].source ELSE None
           x == [shader[s] EXCEPT !.desktopSource = d, !.compileStatus = ok]
<1>1. task[c] \in Task /\ task[c].kind = "compile"
  BY Parts DEF CompileEnd, ProgramsTypeOK
<1>2. s \in Shaders
  BY <1>1 DEF Task
<1>3. /\ task' = [task EXCEPT ![c] = None] /\ UNCHANGED <<program, current, stage, closed, stranded>>
      /\ shader' = [shader EXCEPT ![s].desktopSource = d, ![s].compileStatus = ok]
  BY DEF CompileEnd
<1>4. shader' = [shader EXCEPT ![s] = x]
  BY <1>2, <1>3, Parts
<1>5. ok \in BOOLEAN /\ d \in Accepted \cup {None} /\ (Es /\ ok => d # None)
  BY DEF ProgramsAssumption
<1> HIDE DEF s, ok, d
<1>6. /\ x \in Shader /\ x.named = shader[s].named /\ x.desktopSource = d
      /\ x.compileStatus = ok /\ x.deletePending = shader[s].deletePending
      /\ x.attachCount = shader[s].attachCount
  BY <1>2, <1>5, Parts DEF Shader
<1> HIDE DEF x
<1>7. /\ shader' \in [Shaders -> Shader] /\ shader'[s] = x
      /\ \A o \in Shaders \ {s} : shader'[o] = shader[o]
  BY <1>2, <1>4, <1>6, Parts
<1>8. ShadersNamed(shader')
  BY <1>2, <1>6, <1>7, Parts DEF ShadersNamed, ShaderGoes
<1>9. LinkedWereCompiled' /\ task' \in [Contexts -> Task \cup {None}]
  BY <1>3, Parts DEF LinkedWereCompiled, ProgramsTypeOK
<1>10. Es => \A o \in Shaders : shader'[o].compileStatus => shader'[o].desktopSource # None
  BY <1>2, <1>5, <1>6, <1>7, Parts DEF StatusTrue
<1>11. \A o \in Shaders : shader'[o].attachCount = shader[o].attachCount
  BY <1>2, <1>6, <1>7
<1> QED BY <1>3, <1>7, <1>8, <1>9, <1>10, <1>11, ShaderStep

LEMMA StepDeleteShader ==
  ASSUME ProgramsAssumption, ProgramsSound, NEW c \in Contexts, NEW s \in Shaders, DeleteShader(c, s)
  PROVE  ProgramsSound'
<1> DEFINE x == [shader[s] EXCEPT !.deletePending = TRUE]
           t == [shader EXCEPT ![s] = x]
<1>1. /\ shader' = Sweep(t) /\ shader[s].named
      /\ UNCHANGED <<program, current, stage, task, closed, stranded>>
  BY DEF DeleteShader
<1>2. /\ x \in Shader /\ x.named = shader[s].named /\ x.desktopSource = shader[s].desktopSource
      /\ x.compileStatus = shader[s].compileStatus /\ x.attachCount = shader[s].attachCount
  BY Parts DEF Shader
<1> HIDE DEF x
<1>3. t \in [Shaders -> Shader] /\ t[s] = x /\ \A o \in Shaders \ {s} : t[o] = shader[o]
  BY <1>2, Parts
<1> HIDE DEF t
<1>4. \A o \in Shaders : ~t[o].named => ShaderGoes(t[o])
  BY <1>1, <1>2, <1>3, Parts DEF ShadersNamed
<1>5. /\ SameBut(t, shader') /\ ShadersNamed(shader')
      /\ \A o \in Shaders : shader'[o].attachCount = t[o].attachCount
  BY <1>1, <1>3, <1>4, SweepFits
<1>6. \A o \in Shaders : shader'[o].attachCount = shader[o].attachCount
  BY <1>2, <1>3, <1>5
<1>7. Es => \A o \in Shaders : shader'[o].compileStatus => shader'[o].desktopSource # None
  BY <1>2, <1>3, <1>5, Parts DEF StatusTrue, SameBut
<1>8. LinkedWereCompiled' /\ task' \in [Contexts -> Task \cup {None}]
  BY <1>1, Parts DEF LinkedWereCompiled, ProgramsTypeOK
<1> QED BY <1>1, <1>5, <1>6, <1>7, <1>8, ShaderStep DEF SameBut

LEMMA StepLinkStart ==
  ASSUME ProgramsAssumption, ProgramsSound, NEW c \in Contexts, NEW p \in ProgramSet, LinkStart(c, p)
  PROVE  ProgramsSound'
<1> DEFINE attached == program[p].attached
           input == {LinkedSource(s) : s \in attached}
           ok == attached # {} /\ \A s \in attached : shader[s].compileStatus
           x == [kind |-> "link", program |-> p, input |-> input, ok |-> ok]
<1>1. task' = [task EXCEPT ![c] = x] /\ UNCHANGED <<shader, program, current, stage, closed, stranded>>
  BY DEF LinkStart
<1>2. attached \subseteq Shaders
  BY Parts DEF Program
<1>3. input \in SUBSET (Sources \cup {None})
  BY <1>2, Parts DEF LinkedSource, Shader, ProgramsAssumption
<1>4. x \in Task /\ x.kind = "link" /\ x.input = input /\ x.ok = ok
  <2>1. ok \in BOOLEAN
    OBVIOUS
  <2> HIDE DEF ok, input
  <2> QED BY <1>3, <2>1 DEF Task
<1>5. Es /\ ok => input \subseteq Accepted
  <2> SUFFICES ASSUME Es, ok, NEW s \in attached
               PROVE  LinkedSource(s) \in Accepted
    OBVIOUS
  <2>1. shader[s].desktopSource # None /\ shader[s].desktopSource \in Accepted \cup {None}
    BY <1>2, Parts DEF StatusTrue, Shader
  <2> QED BY <2>1 DEF LinkedSource
<1> HIDE DEF x, ok, input
<1>6. LinkedWereCompiled' /\ task' \in [Contexts -> Task \cup {None}]
  BY <1>1, <1>4, <1>5, Parts DEF LinkedWereCompiled, ProgramsTypeOK
<1> QED BY <1>1, <1>6, Parts, ShaderStep DEF StatusTrue

-----------------------------------------------------------------------------
(***************************************************************************)
(* Calls that change what a program holds and who uses it.                 *)
(***************************************************************************)
LEMMA ProgramStep ==
  ASSUME ProgramsAssumption, ProgramsSound, UNCHANGED task,
         SameBut(shader, shader'), ShadersNamed(shader'), ShadersCounted',
         program' \in [ProgramSet -> Program],
         \A o \in ProgramSet : /\ program'[o].linkStatus = program[o].linkStatus
                               /\ program'[o].linked = program[o].linked,
         current' \in [Contexts -> ProgramSet \cup {None}],
         stage' \in [Contexts -> ProgramSet \cup {None}],
         closed' \subseteq Contexts, stranded' \subseteq ProgramSet,
         UsesCounted', ProgramsNamed', UsedHasExecutable'
  PROVE  ProgramsSound'
<1>1. ProgramsTypeOK'
  BY Parts DEF ProgramsTypeOK, SameBut
<1>2. StatusTrue'
  BY Parts DEF StatusTrue, SameBut
<1>3. LinkedWereCompiled'
  BY Parts DEF LinkedWereCompiled
<1> QED BY <1>1, <1>2, <1>3, NamesAfter DEF ProgramsSound

(* A step of AttachShader and DetachShader.                                *)
LEMMA HoldStep ==
  ASSUME ProgramsAssumption, ProgramsSound, UNCHANGED <<current, stage, task, closed, stranded>>,
         NEW p \in ProgramSet, NEW attached \in SUBSET Shaders, program[p].named,
         program' = [program EXCEPT ![p].attached = attached],
         SameBut(shader, shader'), ShadersNamed(shader'), ShadersCounted'
  PROVE  ProgramsSound'
<1> DEFINE x == [program[p] EXCEPT !.attached = attached]
<1>1. program' = [program EXCEPT ![p] = x]
  BY Parts
<1>2. /\ x \in Program /\ x.named = program[p].named /\ x.linkStatus = program[p].linkStatus
      /\ x.linked = program[p].linked /\ x.deletePending = program[p].deletePending
      /\ x.useCount = program[p].useCount /\ x.stageUses = program[p].stageUses
  BY Parts DEF Program
<1> HIDE DEF x
<1>3. /\ program' \in [ProgramSet -> Program] /\ program'[p] = x
      /\ \A o \in ProgramSet \ {p} : program'[o] = program[o]
  BY <1>1, <1>2, Parts
<1>4. \A o \in ProgramSet : /\ program'[o].linkStatus = program[o].linkStatus
                            /\ program'[o].linked = program[o].linked
  BY <1>2, <1>3
<1>5. UsesCounted'
  <2>1. \A o \in ProgramSet : Users(o)' = Users(o) /\ Stages(o)' = Stages(o)
    BY DEF Users, Stages
  <2>2. \A o \in ProgramSet : /\ program'[o].useCount = program[o].useCount
                              /\ program'[o].stageUses = program[o].stageUses
    BY <1>2, <1>3
  <2> QED BY <2>1, <2>2, Parts DEF UsesCounted
<1>6. ProgramsNamed'
  BY <1>2, <1>3, Parts DEF ProgramsNamed, ProgramGoes
<1>7. UsedHasExecutable'
  BY <1>4, Parts DEF UsedHasExecutable, ProgramsTypeOK
<1> QED BY <1>3, <1>4, <1>5, <1>6, <1>7, Parts, ProgramStep DEF ProgramsTypeOK

LEMMA StepAttachShader ==
  ASSUME ProgramsAssumption, ProgramsSound, NEW c \in Contexts, NEW p \in ProgramSet,
         NEW s \in Shaders, AttachShader(c, p, s)
  PROVE  ProgramsSound'
<1> DEFINE attached == program[p].attached \cup {s}
           n == shader[s].attachCount + 1
           x == [shader[s] EXCEPT !.attachCount = n]
<1>1. /\ program' = [program EXCEPT ![p].attached = attached] /\ attached \in SUBSET Shaders
      /\ program[p].named /\ shader[s].named /\ s \notin program[p].attached
      /\ UNCHANGED <<current, stage, task, closed, stranded>>
  BY Parts DEF AttachShader, Program
<1>2. shader' = [shader EXCEPT ![s] = x]
  BY Parts DEF AttachShader
<1>3. shader[s].attachCount \in Nat /\ n \in Nat /\ n # 0 /\ n = shader[s].attachCount + 1
  BY Parts DEF Shader
<1> HIDE DEF n
<1>4. /\ x \in Shader /\ x.named = shader[s].named /\ x.source = shader[s].source
      /\ x.desktopSource = shader[s].desktopSource /\ x.compileStatus = shader[s].compileStatus
      /\ x.deletePending = shader[s].deletePending /\ x.attachCount = n
  BY <1>3, Parts DEF Shader
<1> HIDE DEF x
<1>5. /\ shader' \in [Shaders -> Shader] /\ shader'[s] = x
      /\ \A o \in Shaders \ {s} : shader'[o] = shader[o]
  BY <1>2, <1>4, Parts
<1>6. SameBut(shader, shader')
  BY <1>4, <1>5 DEF SameBut
<1>7. ShadersNamed(shader')
  <2>1. x.named = TRUE /\ ~ShaderGoes(x)
    BY <1>1, <1>3, <1>4, Parts DEF ShaderGoes, Shader
  <2> QED BY <1>5, <2>1, Parts DEF ShadersNamed
<1>8. ShadersCounted'
  <2>1. /\ program'[p].attached = attached
        /\ \A o \in ProgramSet \ {p} : program'[o].attached = program[o].attached
    BY <1>1, Parts DEF Program
  <2>2. Holders(s)' = Holders(s) \cup {p} /\ p \notin Holders(s)
    BY <1>1, <2>1 DEF Holders
  <2>3. \A o \in Shaders \ {s} : Holders(o)' = Holders(o)
    BY <1>1, <2>1 DEF Holders
  <2>4. Cardinality(Holders(s)') = Cardinality(Holders(s)) + 1
    <3> DEFINE H == Holders(s)
    <3>1. H \in SUBSET ProgramSet /\ IsFiniteSet(ProgramSet)
      BY DEF Holders, ProgramsAssumption
    <3> HIDE DEF H
    <3>2. p \notin H => Cardinality(H \cup {p}) = Cardinality(H) + 1
      BY <3>1, CountAdded
    <3> QED BY <2>2, <3>2 DEF H
  <2> QED BY <1>3, <1>4, <1>5, <2>3, <2>4, Parts DEF ShadersCounted
<1> HIDE DEF attached
<1> QED BY <1>1, <1>6, <1>7, <1>8, HoldStep

LEMMA StepDetachShader ==
  ASSUME ProgramsAssumption, ProgramsSound, NEW c \in Contexts, NEW p \in ProgramSet,
         NEW s \in Shaders, DetachShader(c, p, s)
  PROVE  ProgramsSound'
<1> DEFINE attached == program[p].attached \ {s}
<1>1. /\ program' = [program EXCEPT ![p].attached = attached] /\ attached \in SUBSET Shaders
      /\ program[p].named /\ s \in program[p].attached /\ shader' = Detached(shader, {s})
      /\ UNCHANGED <<current, stage, task, closed, stranded>>
  BY Parts DEF DetachShader, Program
<1>2. /\ program'[p].attached = attached
      /\ \A o \in ProgramSet \ {p} : program'[o].attached = program[o].attached
  BY <1>1, Parts DEF Program
<1>3. Holders(s)' = Holders(s) \ {p} /\ p \in Holders(s)
  BY <1>1, <1>2 DEF Holders
<1>4. \A o \in Shaders \ {s} : Holders(o)' = Holders(o)
  BY <1>1, <1>2 DEF Holders
<1>5. /\ Cardinality(Holders(s)) >= 1
      /\ Cardinality(Holders(s)') = Cardinality(Holders(s)) - 1
  <2> DEFINE H == Holders(s)
  <2>1. H \in SUBSET ProgramSet /\ IsFiniteSet(ProgramSet)
    BY DEF Holders, ProgramsAssumption
  <2> HIDE DEF H
  <2>2. p \in H => Cardinality(H) >= 1 /\ Cardinality(H \ {p}) = Cardinality(H) - 1
    BY <2>1, CountAdded
  <2> QED BY <1>3, <2>2 DEF H
<1>6. shader[s].attachCount = Cardinality(Holders(s)) /\ shader[s].attachCount >= 1
  BY <1>5, Parts DEF ShadersCounted
<1>7. /\ SameBut(shader, shader') /\ ShadersNamed(shader')
      /\ \A o \in Shaders : shader'[o].attachCount
           = IF o \in {s} THEN shader[o].attachCount - 1 ELSE shader[o].attachCount
  BY <1>1, <1>6, Parts, DetachedFits
<1>8. ShadersCounted'
  BY <1>4, <1>5, <1>6, <1>7, Parts DEF ShadersCounted
<1> HIDE DEF attached
<1> QED BY <1>1, <1>7, <1>8, HoldStep

(* What the counts say of a program that is in use.                        *)
LEMMA InUse ==
  ASSUME ProgramsAssumption, ProgramsSound, NEW c \in Contexts, NEW p \in ProgramSet,
         current[c] = p \/ stage[c] = p
  PROVE  /\ program[p] \in Program /\ program[p].named = TRUE /\ ~ProgramGoes(program[p])
         /\ current[c] = p => program[p].useCount >= 1
         /\ stage[c] = p => program[p].stageUses >= 1
<1>1. /\ current \in [Contexts -> ProgramSet \cup {None}]
      /\ stage \in [Contexts -> ProgramSet \cup {None}]
      /\ None \in ProgramSet \cup {None} /\ p # None /\ program[p] \in Program
  BY Parts DEF ProgramsTypeOK, ProgramsAssumption
<1>2. current[c] = p => program[p].useCount >= 1
  <2>1. current[c] = p => Cardinality({d \in Contexts : current[d] = p}) >= 1
    BY <1>1, UserMoves
  <2> QED BY <2>1, Parts DEF UsesCounted, Users
<1>3. stage[c] = p => program[p].stageUses >= 1
  <2>1. stage[c] = p => Cardinality({d \in Contexts : stage[d] = p}) >= 1
    BY <1>1, UserMoves
  <2> QED BY <2>1, Parts DEF UsesCounted, Stages
<1>4. ~ProgramGoes(program[p])
  BY <1>2, <1>3 DEF ProgramGoes
<1>5. program[p].named = TRUE
  BY <1>1, <1>4, Parts DEF ProgramsNamed, Program
<1> QED BY <1>1, <1>2, <1>3, <1>4, <1>5

LEMMA StepLinkEnd ==
  ASSUME ProgramsAssumption, ProgramsSound, NEW c \in Contexts, LinkEnd(c)
  PROVE  ProgramsSound'
<1> DEFINE p == task[c].program
           ok == task[c].ok /\ task[c].input \subseteq Accepted
           free == program[p].useCount = 0 /\ program[p].stageUses = 0
           linked == IF ok THEN task[c].input ELSE IF free THEN None ELSE program[p].linked
           x == [program[p] EXCEPT !.linkStatus = ok, !.linked = linked]
<1>1. task[c] \in Task /\ task[c].kind = "link"
  BY Parts DEF LinkEnd, ProgramsTypeOK
<1>2. p \in ProgramSet
  BY <1>1 DEF Task
<1>3. /\ program' = [program EXCEPT ![p].linkStatus = ok, ![p].linked = linked]
      /\ task' = [task EXCEPT ![c] = None] /\ UNCHANGED <<shader, current, stage, closed, stranded>>
  BY <1>2, Parts DEF LinkEnd
<1>4. program' = [program EXCEPT ![p] = x]
  BY <1>2, <1>3, Parts
<1>5. /\ ok \in BOOLEAN /\ linked \in {None} \cup SUBSET Accepted
      /\ ok => linked # None
      /\ ~free /\ program[p].linked # None => linked # None
  <2>1. program[p].linked \in {None} \cup SUBSET Accepted
    BY <1>2, Parts DEF Program
  <2>2. \A y \in SUBSET Accepted : y # None
    BY DEF ProgramsAssumption
  <2> QED BY <2>1, <2>2
<1> HIDE DEF p, ok, linked, free
<1>6. /\ x \in Program /\ x.named = program[p].named /\ x.attached = program[p].attached
      /\ x.linkStatus = ok /\ x.linked = linked
      /\ x.deletePending = program[p].deletePending
      /\ x.useCount = program[p].useCount /\ x.stageUses = program[p].stageUses
  BY <1>2, <1>5, Parts DEF Program
<1> HIDE DEF x
<1>7. /\ program' \in [ProgramSet -> Program] /\ program'[p] = x
      /\ \A o \in ProgramSet \ {p} : program'[o] = program[o]
  BY <1>2, <1>4, <1>6, Parts
<1>8. /\ shader' \in [Shaders -> Shader] /\ ShadersNamed(shader')
      /\ task' \in [Contexts -> Task \cup {None}] /\ LinkedWereCompiled'
  BY <1>3, Parts DEF ProgramsTypeOK, LinkedWereCompiled
<1>9. ProgramsTypeOK'
  BY <1>3, <1>7, <1>8, Parts DEF ProgramsTypeOK
<1>10. StatusTrue'
  BY <1>3, <1>5, <1>6, <1>7, Parts DEF StatusTrue
<1>11. ASSUME NEW d \in Contexts, NEW o \in ProgramSet, current[d] = o \/ stage[d] = o
       PROVE  program'[o].linked # None
  <2>1. program[o].linked # None
    BY <1>11, Parts DEF UsedHasExecutable, ProgramsAssumption
  <2>2. o = p => ~free
    <3>1. program[o].useCount >= 1 \/ program[o].stageUses >= 1
      BY <1>11, InUse
    <3> QED BY <3>1 DEF free
  <2> QED BY <1>5, <1>6, <1>7, <2>1, <2>2
<1>12. UsedHasExecutable'
  <2>1. \A d \in Contexts : current[d] \in ProgramSet \cup {None} /\ stage[d] \in ProgramSet \cup {None}
    BY Parts DEF ProgramsTypeOK
  <2> QED BY <1>3, <1>11, <2>1 DEF UsedHasExecutable
<1>13. \A s \in Shaders : Holders(s)' = Holders(s)
  BY <1>6, <1>7 DEF Holders
<1>14. \A o \in ProgramSet : Users(o)' = Users(o) /\ Stages(o)' = Stages(o)
  BY <1>3 DEF Users, Stages
<1>15. \A o \in ProgramSet : /\ program'[o].useCount = program[o].useCount
                             /\ program'[o].stageUses = program[o].stageUses
                             /\ program'[o].named = program[o].named
                             /\ program'[o].deletePending = program[o].deletePending
  BY <1>6, <1>7
<1>16. ShadersCounted' /\ UsesCounted'
  BY <1>3, <1>13, <1>14, <1>15, Parts DEF ShadersCounted, UsesCounted
<1>17. ProgramsNamed'
  BY <1>3, <1>15, Parts DEF ProgramsNamed, ProgramGoes
<1> QED BY <1>8, <1>9, <1>10, <1>12, <1>16, <1>17, NamesAfter DEF ProgramsSound

(* A step that lets a program go by maybeDeleteProgram(): the program p of *)
(* table t becomes x; the rest of t differs from the table before in the   *)
(* program that comes into use, if any.                                    *)
LEMMA GoStep ==
  ASSUME ProgramsAssumption, ProgramsSound, UNCHANGED <<task, closed, stranded>>,
         NEW t \in [ProgramSet -> Program],
         \A o \in ProgramSet : /\ t[o].attached = program[o].attached
                               /\ t[o].linkStatus = program[o].linkStatus
                               /\ t[o].linked = program[o].linked,
         NEW p \in ProgramSet, NEW x \in Program, x.attached = program[p].attached, x.named,
         x.linkStatus = program[p].linkStatus, x.linked = program[p].linked,
         Becomes(t, p, x),
         current' \in [Contexts -> ProgramSet \cup {None}],
         stage' \in [Contexts -> ProgramSet \cup {None}],
         x.useCount = Cardinality(Users(p)'), x.stageUses = Cardinality(Stages(p)'),
         \A o \in ProgramSet \ {p} :
           /\ t[o].useCount = Cardinality(Users(o)') /\ t[o].stageUses = Cardinality(Stages(o)')
           /\ ~t[o].named => ProgramGoes(t[o])
           /\ ProgramGoes(t[o]) => ~t[o].named \/ o \in stranded,
         \A d \in Contexts : /\ current'[d] # None => program[current'[d]].linked # None
                             /\ stage'[d] # None => program[stage'[d]].linked # None
  PROVE  ProgramsSound'
<1>1. /\ SameBut(shader, shader') /\ ShadersNamed(shader') /\ ShadersCounted'
      /\ program' \in [ProgramSet -> Program]
      /\ \A o \in ProgramSet \ {p} : program'[o] = t[o]
      /\ program'[p].linkStatus = x.linkStatus /\ program'[p].linked = x.linked
      /\ program'[p].deletePending = x.deletePending
      /\ program'[p].useCount = x.useCount /\ program'[p].stageUses = x.stageUses
      /\ program'[p].named = ~ProgramGoes(x)
  BY Parts, BecomesFits
<1>2. \A o \in ProgramSet : /\ program'[o].linkStatus = program[o].linkStatus
                            /\ program'[o].linked = program[o].linked
  BY <1>1
<1>3. UsesCounted'
  BY <1>1 DEF UsesCounted
<1>4. ProgramsNamed'
  <2>1. ProgramGoes(program[p])' <=> ProgramGoes(x)
    BY <1>1 DEF ProgramGoes
  <2>2. /\ ~program'[p].named => ProgramGoes(program[p])'
        /\ ProgramGoes(program[p])' => ~program'[p].named
    BY <1>1, <2>1
  <2>3. ASSUME NEW o \in ProgramSet, o # p
        PROVE  /\ ~program'[o].named => ProgramGoes(program[o])'
               /\ ProgramGoes(program[o])' => ~program'[o].named \/ o \in stranded'
    <3>1. program'[o] = t[o]
      BY <1>1, <2>3
    <3>2. /\ ~t[o].named => ProgramGoes(t[o])
          /\ ProgramGoes(t[o]) => ~t[o].named \/ o \in stranded
      BY <2>3
    <3> QED BY <3>1, <3>2 DEF ProgramGoes
  <2> QED BY <2>2, <2>3 DEF ProgramsNamed
<1>5. UsedHasExecutable'
  BY <1>2 DEF UsedHasExecutable
<1> QED BY <1>1, <1>2, <1>3, <1>4, <1>5, Parts, ProgramStep DEF ProgramsTypeOK

LEMMA StepDeleteProgram ==
  ASSUME ProgramsAssumption, ProgramsSound, NEW c \in Contexts, NEW p \in ProgramSet,
         DeleteProgram(c, p)
  PROVE  ProgramsSound'
<1> DEFINE x == [program[p] EXCEPT !.deletePending = TRUE]
<1>1. Becomes(program, p, x) /\ program[p].named
      /\ UNCHANGED <<current, stage, task, closed, stranded>>
  BY DEF DeleteProgram, Settle, Becomes
<1>2. /\ x \in Program /\ x.named = program[p].named /\ x.attached = program[p].attached
      /\ x.linkStatus = program[p].linkStatus /\ x.linked = program[p].linked
      /\ x.useCount = program[p].useCount /\ x.stageUses = program[p].stageUses
  BY Parts DEF Program
<1> HIDE DEF x
<1>3. \A o \in ProgramSet : /\ program[o].useCount = Cardinality(Users(o)')
                            /\ program[o].stageUses = Cardinality(Stages(o)')
  BY <1>1, Parts DEF UsesCounted, Users, Stages
<1>4. /\ \A o \in ProgramSet : /\ ~program[o].named => ProgramGoes(program[o])
                               /\ ProgramGoes(program[o]) => ~program[o].named \/ o \in stranded
      /\ \A d \in Contexts : /\ current'[d] # None => program[current'[d]].linked # None
                             /\ stage'[d] # None => program[stage'[d]].linked # None
      /\ current' \in [Contexts -> ProgramSet \cup {None}]
      /\ stage' \in [Contexts -> ProgramSet \cup {None}]
  BY <1>1, Parts DEF ProgramsNamed, UsedHasExecutable, ProgramsTypeOK
<1> QED BY <1>1, <1>2, <1>3, <1>4, Parts, GoStep

LEMMA StepUseNone ==
  ASSUME ProgramsAssumption, ProgramsSound, NEW c \in Contexts, UseNone(c)
  PROVE  ProgramsSound'
<1>0. PICK p \in ProgramSet : p = current[c]
  BY Parts DEF UseNone, ProgramsTypeOK
<1> DEFINE n == program[p].useCount - 1
           x == [program[p] EXCEPT !.useCount = n]
<1>1. /\ current' = [current EXCEPT ![c] = None]
      /\ UNCHANGED <<stage, task, closed, stranded>> /\ Becomes(program, p, x)
  BY <1>0, Parts DEF UseNone, Settle, Becomes
<1> HIDE DEF n
<1>2. program[p] \in Program /\ program[p].named /\ program[p].useCount >= 1
  BY <1>0, InUse
<1>3. n \in Nat /\ n = program[p].useCount - 1
  BY <1>2 DEF n, Program
<1>4. /\ x \in Program /\ x.named = program[p].named /\ x.attached = program[p].attached
      /\ x.linkStatus = program[p].linkStatus /\ x.linked = program[p].linked
      /\ x.useCount = n /\ x.stageUses = program[p].stageUses
  BY <1>2, <1>3 DEF Program
<1> HIDE DEF x
<1>5. /\ current \in [Contexts -> ProgramSet \cup {None}] /\ None \in ProgramSet \cup {None}
      /\ p # None /\ current' \in [Contexts -> ProgramSet \cup {None}]
      /\ stage' \in [Contexts -> ProgramSet \cup {None}]
  BY <1>1, Parts DEF ProgramsTypeOK, ProgramsAssumption
<1>6. \A o \in ProgramSet : Stages(o)' = Stages(o) /\ o # None
  BY <1>1 DEF Stages, ProgramsAssumption
<1>7. /\ \A o \in ProgramSet \ {p} : Cardinality(Users(o)') = Cardinality(Users(o))
      /\ Cardinality(Users(p)') = Cardinality(Users(p)) - 1
  <2>1. \A o : Users(o) = SentTo(current, o) /\ Stages(o) = SentTo(stage, o)
    BY DEF Users, Stages, SentTo
  <2>2. current' = [current EXCEPT ![c] = None] /\ \A o \in ProgramSet : Users(o)' = SentTo(current', o)
    BY <1>1 DEF Users, SentTo
  <2>3. Left(current, current', p)
    BY <1>0, <1>5, <2>2, UserLeaves
  <2> QED BY <2>1, <2>2, <2>3 DEF Left
<1>8. /\ x.useCount = Cardinality(Users(p)') /\ x.stageUses = Cardinality(Stages(p)')
      /\ \A o \in ProgramSet \ {p} : /\ program[o].useCount = Cardinality(Users(o)')
                                     /\ program[o].stageUses = Cardinality(Stages(o)')
  <2>1. \A o \in ProgramSet : /\ program[o].useCount = Cardinality(Users(o))
                              /\ program[o].stageUses = Cardinality(Stages(o))
    BY Parts DEF UsesCounted
  <2> QED BY <1>1, <1>3, <1>4, <1>6, <1>7, <2>1
<1>9. /\ \A o \in ProgramSet : /\ ~program[o].named => ProgramGoes(program[o])
                               /\ ProgramGoes(program[o]) => ~program[o].named \/ o \in stranded
      /\ \A d \in Contexts : /\ current'[d] # None => program[current'[d]].linked # None
                             /\ stage'[d] # None => program[stage'[d]].linked # None
  BY <1>1, <1>5, Parts DEF ProgramsNamed, UsedHasExecutable
<1> QED BY <1>1, <1>2, <1>4, <1>5, <1>8, <1>9, Parts, GoStep

LEMMA StepReleaseStages ==
  ASSUME ProgramsAssumption, ProgramsSound, NEW c \in Contexts, ReleaseStages(c)
  PROVE  ProgramsSound'
<1>0. PICK p \in ProgramSet : p = stage[c]
  BY Parts DEF ReleaseStages, ProgramsTypeOK
<1> DEFINE n == program[p].stageUses - 1
           x == [program[p] EXCEPT !.stageUses = n]
<1>1. /\ stage' = [stage EXCEPT ![c] = None]
      /\ UNCHANGED <<current, task, closed, stranded>> /\ Becomes(program, p, x)
  BY <1>0, Parts DEF ReleaseStages, Settle, Becomes
<1> HIDE DEF n
<1>2. program[p] \in Program /\ program[p].named /\ program[p].stageUses >= 1
  BY <1>0, InUse
<1>3. n \in Nat /\ n = program[p].stageUses - 1
  BY <1>2 DEF n, Program
<1>4. /\ x \in Program /\ x.named = program[p].named /\ x.attached = program[p].attached
      /\ x.linkStatus = program[p].linkStatus /\ x.linked = program[p].linked
      /\ x.useCount = program[p].useCount /\ x.stageUses = n
  BY <1>2, <1>3 DEF Program
<1> HIDE DEF x
<1>5. /\ stage \in [Contexts -> ProgramSet \cup {None}] /\ None \in ProgramSet \cup {None}
      /\ p # None /\ stage' \in [Contexts -> ProgramSet \cup {None}]
      /\ current' \in [Contexts -> ProgramSet \cup {None}]
  BY <1>1, Parts DEF ProgramsTypeOK, ProgramsAssumption
<1>6. \A o \in ProgramSet : Users(o)' = Users(o) /\ o # None
  BY <1>1 DEF Users, ProgramsAssumption
<1>7. /\ \A o \in ProgramSet \ {p} : Cardinality(Stages(o)') = Cardinality(Stages(o))
      /\ Cardinality(Stages(p)') = Cardinality(Stages(p)) - 1
  <2>1. \A o : Users(o) = SentTo(current, o) /\ Stages(o) = SentTo(stage, o)
    BY DEF Users, Stages, SentTo
  <2>2. stage' = [stage EXCEPT ![c] = None] /\ \A o \in ProgramSet : Stages(o)' = SentTo(stage', o)
    BY <1>1 DEF Stages, SentTo
  <2>3. Left(stage, stage', p)
    BY <1>0, <1>5, <2>2, UserLeaves
  <2> QED BY <2>1, <2>2, <2>3 DEF Left
<1>8. /\ x.useCount = Cardinality(Users(p)') /\ x.stageUses = Cardinality(Stages(p)')
      /\ \A o \in ProgramSet \ {p} : /\ program[o].useCount = Cardinality(Users(o)')
                                     /\ program[o].stageUses = Cardinality(Stages(o)')
  <2>1. \A o \in ProgramSet : /\ program[o].useCount = Cardinality(Users(o))
                              /\ program[o].stageUses = Cardinality(Stages(o))
    BY Parts DEF UsesCounted
  <2> QED BY <1>1, <1>3, <1>4, <1>6, <1>7, <2>1
<1>9. /\ \A o \in ProgramSet : /\ ~program[o].named => ProgramGoes(program[o])
                               /\ ProgramGoes(program[o]) => ~program[o].named \/ o \in stranded
      /\ \A d \in Contexts : /\ current'[d] # None => program[current'[d]].linked # None
                             /\ stage'[d] # None => program[stage'[d]].linked # None
  BY <1>1, <1>5, Parts DEF ProgramsNamed, UsedHasExecutable
<1> QED BY <1>1, <1>2, <1>4, <1>5, <1>8, <1>9, Parts, GoStep

(* The counts before a step, by who uses what.                             *)
LEMMA Counts ==
  ASSUME ProgramsSound, NEW o \in ProgramSet
  PROVE  /\ program[o].useCount = Cardinality(SentTo(current, o))
         /\ program[o].stageUses = Cardinality(SentTo(stage, o))
BY Parts DEF UsesCounted, Users, Stages, SentTo

LEMMA StepUseProgram ==
  ASSUME ProgramsAssumption, ProgramsSound, NEW c \in Contexts, NEW p \in ProgramSet, UseProgram(c, p)
  PROVE  ProgramsSound'
<1> DEFINE n == program[p].useCount + 1
           y == [program[p] EXCEPT !.useCount = n]
           used == [program EXCEPT ![p] = y]
<1>1. /\ program[p].named /\ program[p].linkStatus /\ current[c] # p
      /\ current' = [current EXCEPT ![c] = p] /\ UNCHANGED <<stage, task, closed, stranded>>
  BY DEF UseProgram
<1>2. [program EXCEPT ![p].useCount = @ + 1] = used
  BY Parts
<1>3. n \in Nat /\ n = program[p].useCount + 1 /\ n # 0
  BY Parts DEF Program
<1> HIDE DEF n
<1>4. /\ y \in Program /\ y.named = TRUE /\ y.attached = program[p].attached
      /\ y.linkStatus = program[p].linkStatus /\ y.linked = program[p].linked
      /\ y.deletePending = program[p].deletePending
      /\ y.useCount = n /\ y.stageUses = program[p].stageUses
  BY <1>1, <1>3, Parts DEF Program
<1> HIDE DEF y
<1>5. /\ used \in [ProgramSet -> Program] /\ used[p] = y
      /\ \A o \in ProgramSet \ {p} : used[o] = program[o]
  BY <1>4, Parts
<1>6. ~ProgramGoes(y)
  BY <1>3, <1>4 DEF ProgramGoes
<1>7. /\ current' \in [Contexts -> ProgramSet \cup {None}]
      /\ stage' \in [Contexts -> ProgramSet \cup {None}]
  BY <1>1, Parts DEF ProgramsTypeOK
<1>8. \A d \in Contexts : /\ current'[d] # None => program[current'[d]].linked # None
                          /\ stage'[d] # None => program[stage'[d]].linked # None
  <2>1. program[p].linked # None
    BY <1>1, Parts DEF StatusTrue
  <2> QED BY <1>1, <2>1, Parts DEF UsedHasExecutable, ProgramsTypeOK
<1>9. \A o \in ProgramSet : Users(o)' = SentTo(current', o) /\ Stages(o)' = SentTo(stage, o)
  BY <1>1 DEF Users, Stages, SentTo
<1>10. Taken(current, current', p, current[c])
  BY <1>1, Parts, UserTakes DEF ProgramsTypeOK
<1>11. /\ n = Cardinality(Users(p)') /\ y.stageUses = Cardinality(Stages(p)')
  BY <1>3, <1>4, <1>9, <1>10, Counts DEF Taken
<1>12. CASE current[c] = None
  <2>1. program' = used /\ shader' = shader
    BY <1>2, <1>12 DEF UseProgram
  <2>2. \A o \in ProgramSet \ {p} :
          /\ program[o].useCount = Cardinality(Users(o)')
          /\ program[o].stageUses = Cardinality(Stages(o)')
    BY <1>9, <1>10, <1>12, Counts DEF Taken, ProgramsAssumption
  <2>3. \A o \in ProgramSet :
          /\ ~program[o].named => ProgramGoes(program[o])
          /\ ProgramGoes(program[o]) => ~program[o].named \/ o \in stranded
    BY Parts DEF ProgramsNamed
  <2>4. Becomes(used, p, y)
    <3>1. [used EXCEPT ![p] = y] = used
      BY <1>5
    <3> QED BY <1>6, <2>1, <3>1 DEF Becomes
  <2>5. \A o \in ProgramSet : /\ used[o].attached = program[o].attached
                              /\ used[o].linkStatus = program[o].linkStatus
                              /\ used[o].linked = program[o].linked
    BY <1>4, <1>5
  <2> HIDE DEF used
  <2> QED BY <1>1, <1>4, <1>5, <1>7, <1>8, <1>11, <2>2, <2>3, <2>4, <2>5, GoStep
<1>13. CASE current[c] # None
  <2>0. PICK q \in ProgramSet : q = current[c] /\ q # p
    BY <1>1, <1>13, Parts DEF ProgramsTypeOK
  <2> DEFINE m == program[q].useCount - 1
             x == [program[q] EXCEPT !.useCount = m]
  <2>1. Becomes(used, q, x)
    BY <1>2, <1>13, <2>0 DEF UseProgram, Becomes
  <2>2. program[q] \in Program /\ program[q].named /\ program[q].useCount >= 1
    BY <2>0, InUse
  <2>3. m \in Nat /\ m = program[q].useCount - 1
    BY <2>2 DEF Program
  <2> HIDE DEF m, used
  <2>4. /\ x \in Program /\ x.named = program[q].named /\ x.attached = program[q].attached
        /\ x.linkStatus = program[q].linkStatus /\ x.linked = program[q].linked
        /\ x.useCount = m /\ x.stageUses = program[q].stageUses
    BY <2>2, <2>3 DEF Program
  <2> HIDE DEF x
  <2>5. x.useCount = Cardinality(Users(q)') /\ x.stageUses = Cardinality(Stages(q)')
    BY <1>9, <1>10, <2>0, <2>3, <2>4, Counts DEF Taken
  <2>6. ASSUME NEW o \in ProgramSet \ {q}
        PROVE  /\ used[o].useCount = Cardinality(Users(o)')
               /\ used[o].stageUses = Cardinality(Stages(o)')
               /\ ~used[o].named => ProgramGoes(used[o])
               /\ ProgramGoes(used[o]) => ~used[o].named \/ o \in stranded
    <3>1. CASE o = p
      BY <1>4, <1>5, <1>6, <1>11, <3>1
    <3>2. CASE o # p
      <4>1. used[o] = program[o]
        BY <1>5, <3>2
      <4>2. /\ program[o].useCount = Cardinality(Users(o)')
            /\ program[o].stageUses = Cardinality(Stages(o)')
        BY <1>9, <1>10, <2>0, <3>2, Counts DEF Taken
      <4> QED BY <4>1, <4>2, Parts DEF ProgramsNamed
    <3> QED BY <3>1, <3>2
  <2>7. \A o \in ProgramSet : /\ used[o].attached = program[o].attached
                              /\ used[o].linkStatus = program[o].linkStatus
                              /\ used[o].linked = program[o].linked
    BY <1>4, <1>5
  <2> QED BY <1>1, <1>5, <1>7, <1>8, <2>1, <2>2, <2>4, <2>5, <2>6, <2>7, GoStep
<1> QED BY <1>12, <1>13

LEMMA StepUseProgramStages ==
  ASSUME ProgramsAssumption, ProgramsSound, NEW c \in Contexts, NEW p \in ProgramSet,
         UseProgramStages(c, p)
  PROVE  ProgramsSound'
<1> DEFINE n == program[p].stageUses + 1
           x == [program[p] EXCEPT !.stageUses = n]
<1>1. /\ program[p].named /\ program[p].linkStatus /\ stage[c] # p
      /\ stage' = [stage EXCEPT ![c] = p] /\ UNCHANGED <<shader, current, task, closed, stranded>>
  BY DEF UseProgramStages, ProgramsAssumption
<1>2. program' = [program EXCEPT ![p] = x]
  BY Parts DEF UseProgramStages
<1>3. n \in Nat /\ n = program[p].stageUses + 1 /\ n # 0
  BY Parts DEF Program
<1> HIDE DEF n
<1>4. /\ x \in Program /\ x.named = TRUE /\ x.attached = program[p].attached
      /\ x.linkStatus = program[p].linkStatus /\ x.linked = program[p].linked
      /\ x.deletePending = program[p].deletePending
      /\ x.useCount = program[p].useCount /\ x.stageUses = n
  BY <1>1, <1>3, Parts DEF Program
<1> HIDE DEF x
<1>5. ~ProgramGoes(x) /\ Becomes(program, p, x)
  BY <1>1, <1>2, <1>3, <1>4 DEF ProgramGoes, Becomes
<1>6. /\ current' \in [Contexts -> ProgramSet \cup {None}]
      /\ stage' \in [Contexts -> ProgramSet \cup {None}]
  BY <1>1, Parts DEF ProgramsTypeOK
<1>7. \A d \in Contexts : /\ current'[d] # None => program[current'[d]].linked # None
                          /\ stage'[d] # None => program[stage'[d]].linked # None
  <2>1. program[p].linked # None
    BY <1>1, Parts DEF StatusTrue
  <2> QED BY <1>1, <2>1, Parts DEF UsedHasExecutable, ProgramsTypeOK
<1>8. stage[c] = None
  BY DEF UseProgramStages
<1>9. \A o \in ProgramSet : Users(o)' = SentTo(current, o) /\ Stages(o)' = SentTo(stage', o) /\ o # None
  BY <1>1 DEF Users, Stages, SentTo, ProgramsAssumption
<1>10. Taken(stage, stage', p, stage[c])
  BY <1>1, Parts, UserTakes DEF ProgramsTypeOK
<1>11. x.useCount = Cardinality(Users(p)') /\ x.stageUses = Cardinality(Stages(p)')
  BY <1>3, <1>4, <1>9, <1>10, Counts DEF Taken
<1>12. \A o \in ProgramSet \ {p} :
         /\ program[o].useCount = Cardinality(Users(o)')
         /\ program[o].stageUses = Cardinality(Stages(o)')
  BY <1>8, <1>9, <1>10, Counts DEF Taken
<1>13. \A o \in ProgramSet :
         /\ ~program[o].named => ProgramGoes(program[o])
         /\ ProgramGoes(program[o]) => ~program[o].named \/ o \in stranded
  BY Parts DEF ProgramsNamed
<1> QED BY <1>1, <1>4, <1>5, <1>6, <1>7, <1>11, <1>12, <1>13, Parts, GoStep

LEMMA StepDestroyContext ==
  ASSUME ProgramsAssumption, ProgramsSound, NEW c \in Contexts, DestroyContext(c)
  PROVE  ProgramsSound'
<1>1. /\ stage' = [stage EXCEPT ![c] = None] /\ closed' = closed \cup {c}
      /\ UNCHANGED <<shader, current, task>>
  BY DEF DestroyContext
<1>2. /\ current' \in [Contexts -> ProgramSet \cup {None}]
      /\ stage' \in [Contexts -> ProgramSet \cup {None}] /\ closed' \subseteq Contexts
      /\ SameBut(shader, shader') /\ ShadersNamed(shader')
  BY <1>1, Parts DEF ProgramsTypeOK, SameBut
<1>3. \A d \in Contexts : /\ current'[d] # None => program[current'[d]].linked # None
                          /\ stage'[d] # None => program[stage'[d]].linked # None
  BY <1>1, Parts DEF UsedHasExecutable, ProgramsTypeOK
<1>4. \A o : Users(o)' = SentTo(current, o) /\ Stages(o)' = SentTo(stage', o)
  BY <1>1 DEF Users, Stages, SentTo
<1>5. CASE stage[c] = None
  <2>1. program' = program /\ stranded' = stranded /\ stage' = stage
    BY <1>1, <1>5, Parts DEF DestroyContext, ProgramsTypeOK
  <2>2. ShadersCounted' /\ UsesCounted' /\ ProgramsNamed' /\ UsedHasExecutable'
    <3>1. ShadersCounted'
      BY <1>1, <2>1, Parts DEF ShadersCounted, Holders
    <3>2. UsesCounted'
      BY <1>1, <2>1, Parts DEF UsesCounted, Users, Stages
    <3>3. ProgramsNamed' /\ UsedHasExecutable'
      BY <1>1, <2>1, Parts DEF ProgramsNamed, UsedHasExecutable
    <3> QED BY <3>1, <3>2, <3>3
  <2>3. /\ program' \in [ProgramSet -> Program] /\ stranded' \subseteq ProgramSet
        /\ \A o \in ProgramSet : /\ program'[o].linkStatus = program[o].linkStatus
                                 /\ program'[o].linked = program[o].linked
    BY <2>1, Parts DEF ProgramsTypeOK
  <2> QED BY <1>1, <1>2, <2>2, <2>3, ProgramStep
<1>6. CASE stage[c] # None
  <2>0. PICK p \in ProgramSet : p = stage[c]
    BY <1>6, Parts DEF ProgramsTypeOK
  <2> DEFINE n == program[p].stageUses - 1
             x == [program[p] EXCEPT !.stageUses = n]
  <2>1. program' = [program EXCEPT ![p] = x] /\ stranded' = stranded \cup {p}
    BY <1>6, <2>0, Parts DEF DestroyContext
  <2>2. program[p] \in Program /\ program[p].named = TRUE /\ program[p].stageUses >= 1
    BY <2>0, InUse
  <2>3. n \in Nat /\ n = program[p].stageUses - 1
    BY <2>2 DEF Program
  <2> HIDE DEF n
  <2>4. /\ x \in Program /\ x.named = TRUE /\ x.attached = program[p].attached
        /\ x.linkStatus = program[p].linkStatus /\ x.linked = program[p].linked
        /\ x.useCount = program[p].useCount /\ x.stageUses = n
    BY <2>2, <2>3 DEF Program
  <2> HIDE DEF x
  <2>5. /\ program' \in [ProgramSet -> Program] /\ program'[p] = x
        /\ \A o \in ProgramSet \ {p} : program'[o] = program[o]
    BY <2>1, <2>4, Parts
  <2>6. /\ stranded' \subseteq ProgramSet
        /\ \A o \in ProgramSet : /\ program'[o].linkStatus = program[o].linkStatus
                                 /\ program'[o].linked = program[o].linked
    BY <2>1, <2>4, <2>5, Parts DEF ProgramsTypeOK
  <2>7. ShadersCounted'
    <3>1. \A s \in Shaders : Holders(s)' = Holders(s)
      BY <2>4, <2>5 DEF Holders
    <3> QED BY <1>1, <3>1, Parts DEF ShadersCounted
  <2>8. Left(stage, stage', p)
    BY <1>1, <2>0, Parts, UserLeaves DEF ProgramsTypeOK
  <2>9. UsesCounted'
    <3>1. ASSUME NEW o \in ProgramSet
          PROVE  /\ program'[o].useCount = Cardinality(Users(o)')
                 /\ program'[o].stageUses = Cardinality(Stages(o)')
      <4>1. CASE o = p
        BY <1>4, <2>3, <2>4, <2>5, <2>8, <4>1, Counts DEF Left
      <4>2. CASE o # p
        BY <1>4, <2>5, <2>8, <4>2, Counts DEF Left
      <4> QED BY <4>1, <4>2
    <3> QED BY <3>1 DEF UsesCounted
  <2>10. ProgramsNamed'
    BY <2>1, <2>4, <2>5, Parts DEF ProgramsNamed, ProgramGoes
  <2>11. UsedHasExecutable'
    BY <1>3, <2>6, <1>2 DEF UsedHasExecutable
  <2> QED BY <1>1, <1>2, <2>5, <2>6, <2>7, <2>9, <2>10, <2>11, ProgramStep
<1> QED BY <1>5, <1>6

-----------------------------------------------------------------------------
(***************************************************************************)
(* The invariant.                                                          *)
(***************************************************************************)
LEMMA Starts ==
  ASSUME ProgramsAssumption, ProgramsInit
  PROVE  ProgramsSound
<1>1. /\ NewShader \in Shader /\ NewShader.named = TRUE /\ NewShader.attachCount = 0
      /\ NewShader.compileStatus = FALSE /\ NewShader.deletePending = FALSE
  BY DEF NewShader, Shader
<1>2. /\ NewProgram \in Program /\ NewProgram.named = TRUE /\ NewProgram.attached = {}
      /\ NewProgram.linkStatus = FALSE /\ NewProgram.deletePending = FALSE
      /\ NewProgram.useCount = 0 /\ NewProgram.stageUses = 0
  BY DEF NewProgram, Program
<1>3. ProgramsTypeOK
  BY <1>1, <1>2 DEF ProgramsInit, ProgramsTypeOK
<1>4. /\ \A s \in Shaders : shader[s] = NewShader
      /\ \A p \in ProgramSet : program[p] = NewProgram /\ p # None
      /\ \A c \in Contexts : current[c] = None /\ stage[c] = None /\ task[c] = None
  BY DEF ProgramsInit, ProgramsAssumption
<1>5. StatusTrue /\ UsedHasExecutable /\ LinkedWereCompiled
  BY <1>1, <1>2, <1>4 DEF StatusTrue, UsedHasExecutable, LinkedWereCompiled
<1>6. /\ \A s \in Shaders : Holders(s) = {}
      /\ \A p \in ProgramSet : Users(p) = {} /\ Stages(p) = {}
  BY <1>2, <1>4 DEF Holders, Users, Stages
<1>7. Cardinality({}) = 0
  BY FS_EmptySet
<1>8. /\ \A s \in Shaders : shader[s].attachCount = 0 /\ shader[s].named = ~ShaderGoes(shader[s])
      /\ \A p \in ProgramSet : /\ program[p].useCount = 0 /\ program[p].stageUses = 0
                               /\ program[p].named /\ ~ProgramGoes(program[p])
  BY <1>1, <1>2, <1>4 DEF ShaderGoes, ProgramGoes
<1>9. NamesFollowUse
  BY <1>6, <1>7, <1>8 DEF NamesFollowUse
<1> QED BY <1>3, <1>5, <1>9 DEF ProgramsSound

LEMMA Keeps ==
  ASSUME ProgramsAssumption, ProgramsSound, [ProgramsNext]_programsVars
  PROVE  ProgramsSound'
<1>1. CASE UNCHANGED programsVars
  BY <1>1 DEF programsVars, ProgramsSound, ProgramsTypeOK, StatusTrue, UsedHasExecutable, NamesFollowUse,
              LinkedWereCompiled, Holders, Users, Stages
<1>2. CASE ProgramsNext
  <2>1. PICK c \in Contexts :
          \/ \E s \in Shaders :
               \/ \E source \in Sources : ShaderSource(c, s, source)
               \/ CompileStart(c, s) \/ DeleteShader(c, s)
               \/ \E p \in ProgramSet : AttachShader(c, p, s) \/ DetachShader(c, p, s)
          \/ CompileEnd(c) \/ LinkEnd(c) \/ UseNone(c) \/ ReleaseStages(c) \/ DestroyContext(c)
          \/ \E p \in ProgramSet :
               LinkStart(c, p) \/ DeleteProgram(c, p) \/ UseProgram(c, p) \/ UseProgramStages(c, p)
    BY <1>2 DEF ProgramsNext
  <2>2. ASSUME NEW s \in Shaders, NEW source \in Sources, ShaderSource(c, s, source)
        PROVE  ProgramsSound'
    BY <2>2, StepShaderSource
  <2>3. ASSUME NEW s \in Shaders, CompileStart(c, s) \/ DeleteShader(c, s)
        PROVE  ProgramsSound'
    BY <2>3, StepCompileStart, StepDeleteShader
  <2>4. ASSUME NEW s \in Shaders, NEW p \in ProgramSet, AttachShader(c, p, s) \/ DetachShader(c, p, s)
        PROVE  ProgramsSound'
    BY <2>4, StepAttachShader, StepDetachShader
  <2>5. CASE CompileEnd(c) \/ LinkEnd(c)
    BY <2>5, StepCompileEnd, StepLinkEnd
  <2>6. CASE UseNone(c) \/ ReleaseStages(c) \/ DestroyContext(c)
    BY <2>6, StepUseNone, StepReleaseStages, StepDestroyContext
  <2>7. ASSUME NEW p \in ProgramSet, LinkStart(c, p) \/ DeleteProgram(c, p)
        PROVE  ProgramsSound'
    BY <2>7, StepLinkStart, StepDeleteProgram
  <2>8. ASSUME NEW p \in ProgramSet, UseProgram(c, p) \/ UseProgramStages(c, p)
        PROVE  ProgramsSound'
    BY <2>8, StepUseProgram, StepUseProgramStages
  <2> QED BY <2>1, <2>2, <2>3, <2>4, <2>5, <2>6, <2>7, <2>8
<1> QED BY <1>1, <1>2

(* Whatever the contexts of a share group do, also while others compile    *)
(* and link without the lock: a program in use has an executable, objects  *)
(* go when they were deleted and nothing uses them any more, the counts    *)
(* are the uses, and an OpenGL ES link takes GLSL that was accepted.       *)
THEOREM ProgramsSoundness ==
  ASSUME ProgramsAssumption
  PROVE  ProgramsSpec => []ProgramsSound
<1>1. ProgramsInit => ProgramsSound
  BY Starts
<1>2. ProgramsSound /\ [ProgramsNext]_programsVars => ProgramsSound'
  BY Keeps
<1> QED BY <1>1, <1>2, PTL DEF ProgramsSpec

-----------------------------------------------------------------------------
(***************************************************************************)
(* LinkCache, for any processes, threads, keys and names of files.         *)
(***************************************************************************)

(* The elements of a sequence.                                             *)
LEMMA Listed ==
  ASSUME NEW S, NEW s \in Seq(S)
  PROVE  /\ Len(s) \in Nat /\ DOMAIN s = 1 .. Len(s)
         /\ \A x : x \in ToSet(s) <=> \E j \in 1 .. Len(s) : s[j] = x
<1>1. Len(s) \in Nat /\ DOMAIN s = 1 .. Len(s)
  BY LenProperties
<1> QED
  BY <1>1 DEF ToSet

(* A sequence that lists everything at most once, without one element.      *)
LEMMA Removed ==
  ASSUME NEW S, NEW s \in Seq(S), IsInjective(s), NEW x
  PROVE  LET r == LeftOut(s, x)
         IN  /\ r \in Seq(S) /\ IsInjective(r) /\ ToSet(r) = ToSet(s) \ {x}
             /\ x \in ToSet(s) => Len(s) \in Nat /\ Len(r) = Len(s) - 1
<1>0. CASE x \notin ToSet(s)
  <2>1. LeftOut(s, x) = s
    BY <1>0 DEF LeftOut
  <2> QED
    BY <1>0, <2>1
<1>a. SUFFICES ASSUME x \in ToSet(s)
               PROVE  LET r == LeftOut(s, x)
                      IN  /\ r \in Seq(S) /\ IsInjective(r) /\ ToSet(r) = ToSet(s) \ {x}
                          /\ Len(s) \in Nat /\ Len(r) = Len(s) - 1
  BY <1>0
<1> DEFINE i == CHOOSE j \in DOMAIN s : s[j] = x
           r == RemoveAt(s, i)
<1>1. /\ Len(s) \in Nat /\ DOMAIN s = 1 .. Len(s)
      /\ i \in 1 .. Len(s) /\ s[i] = x
  BY <1>a, Listed, LenProperties
<1> HIDE DEF i
<1>2. /\ SubSeq(s, 1, i - 1) \in Seq(S) /\ Len(SubSeq(s, 1, i - 1)) = i - 1
      /\ \A j \in 1 .. i - 1 : SubSeq(s, 1, i - 1)[j] = s[j]
  BY <1>1, SubSeqProperties
<1>3. /\ SubSeq(s, i + 1, Len(s)) \in Seq(S) /\ Len(SubSeq(s, i + 1, Len(s))) = Len(s) - i
      /\ \A j \in 1 .. Len(s) - i : SubSeq(s, i + 1, Len(s))[j] = s[i + j]
  <2>1. i + 1 \in Int /\ Len(s) \in Int /\ \A j \in i + 1 .. Len(s) : s[j] \in S
    BY <1>1
  <2>2. /\ SubSeq(s, i + 1, Len(s)) \in Seq(S)
        /\ Len(SubSeq(s, i + 1, Len(s))) = IF i + 1 <= Len(s) THEN Len(s) - (i + 1) + 1 ELSE 0
        /\ \A j \in 1 .. Len(s) - (i + 1) + 1 : SubSeq(s, i + 1, Len(s))[j] = s[i + 1 + j - 1]
    BY <2>1, SubSeqProperties
  <2>3. \A j \in 1 .. Len(s) - i : j \in 1 .. Len(s) - (i + 1) + 1 /\ i + 1 + j - 1 = i + j
    BY <1>1
  <2>4. \A j \in 1 .. Len(s) - i : SubSeq(s, i + 1, Len(s))[j] = s[i + j]
    BY <2>2, <2>3
  <2>5. ASSUME NEW n, n = IF i + 1 <= Len(s) THEN Len(s) - (i + 1) + 1 ELSE 0
        PROVE  n = Len(s) - i
    <3>1. i \in Nat /\ Len(s) \in Nat /\ i <= Len(s)
      BY <1>1
    <3>2. CASE i + 1 <= Len(s)
      BY <2>5, <3>1, <3>2
    <3>3. CASE ~(i + 1 <= Len(s))
      BY <2>5, <3>1, <3>3
    <3> QED
      BY <3>2, <3>3
  <2>6. Len(SubSeq(s, i + 1, Len(s))) = Len(s) - i
    BY <2>2, <2>5
  <2> QED
    BY <2>2, <2>4, <2>6
<1>4. /\ RemoveAt(s, i) \in Seq(S) /\ Len(RemoveAt(s, i)) = Len(s) - 1
      /\ \A j \in 1 .. Len(s) - 1 : RemoveAt(s, i)[j] = IF j < i THEN s[j] ELSE s[j + 1]
  <2> DEFINE a == SubSeq(s, 1, i - 1)
             b == SubSeq(s, i + 1, Len(s))
  <2>1. RemoveAt(s, i) = a \o b
    BY DEF RemoveAt
  <2> HIDE DEF a, b
  <2>2. /\ a \o b \in Seq(S) /\ Len(a \o b) = Len(a) + Len(b)
        /\ \A j \in 1 .. Len(a) + Len(b) :
             (a \o b)[j] = IF j <= Len(a) THEN a[j] ELSE b[j - Len(a)]
    BY <1>2, <1>3, ConcatProperties DEF a, b
  <2>3. Len(a) = i - 1 /\ Len(b) = Len(s) - i
    BY <1>2, <1>3 DEF a, b
  <2>4. ASSUME NEW j \in 1 .. Len(s) - 1
        PROVE  (a \o b)[j] = IF j < i THEN s[j] ELSE s[j + 1]
    <3>1. CASE j < i
      <4>1. a[j] = s[j]
        BY <3>1, <1>1, <1>2 DEF a
      <4> QED
        BY <3>1, <4>1, <2>2, <2>3, <1>1
    <3>2. CASE j >= i
      <4>1. j - (i - 1) \in 1 .. Len(s) - i /\ i + (j - (i - 1)) = j + 1
        BY <3>2, <1>1
      <4>2. b[j - (i - 1)] = s[j + 1]
        BY <4>1, <1>3 DEF b
      <4>3. ~(j <= Len(a)) /\ j \in 1 .. Len(a) + Len(b) /\ ~(j < i)
        BY <3>2, <2>3, <1>1
      <4> QED
        BY <4>2, <4>3, <2>2, <2>3
    <3>3. j < i \/ j >= i
      BY <1>1
    <3> QED
      BY <3>1, <3>2, <3>3
  <2>5. Len(a \o b) = Len(s) - 1
    BY <2>2, <2>3, <1>1
  <2> QED
    BY <2>1, <2>2, <2>4, <2>5
<1>5. LeftOut(s, x) = r
  BY <1>a DEF LeftOut, i
<1> HIDE DEF r
<1>6. DOMAIN r = 1 .. Len(s) - 1
  BY <1>4, LenProperties DEF r
<1>7. \A j \in 1 .. Len(s) - 1 : r[j] = IF j < i THEN s[j] ELSE s[j + 1]
  BY <1>4 DEF r
<1>8. IsInjective(r)
  <2> SUFFICES ASSUME NEW a \in 1 .. Len(s) - 1, NEW b \in 1 .. Len(s) - 1, r[a] = r[b]
               PROVE  a = b
    BY <1>6 DEF IsInjective
  <2>1. \A j \in 1 .. Len(s) - 1 : j \in 1 .. Len(s) /\ j + 1 \in 1 .. Len(s)
    BY <1>1
  <2>2. \A j, l \in 1 .. Len(s) : s[j] = s[l] => j = l
    BY <1>1 DEF IsInjective
  <2> QED
    BY <1>1, <1>7, <2>1, <2>2
<1>9. ASSUME NEW y \in ToSet(r)
      PROVE  y \in ToSet(s) \ {x}
  <2>1. PICK j \in 1 .. Len(s) - 1 : r[j] = y
    BY <1>4, <1>6, Listed DEF r
  <2>2. PICK l \in 1 .. Len(s) : s[l] = y /\ l # i
    BY <1>1, <1>7, <2>1
  <2>3. s[l] # s[i]
    BY <1>1, <2>2 DEF IsInjective
  <2> QED
    BY <1>1, <2>2, <2>3, Listed
<1>10. ASSUME NEW y \in ToSet(s) \ {x}
       PROVE  y \in ToSet(r)
  <2>1. PICK j \in 1 .. Len(s) : s[j] = y
    BY Listed
  <2>2. j # i
    BY <1>1, <2>1
  <2>3. CASE j < i
    BY <1>1, <1>4, <1>7, <2>1, <2>3, Listed DEF r
  <2>4. CASE j > i
    <3>1. j - 1 \in 1 .. Len(s) - 1 /\ r[j - 1] = s[j]
      BY <1>1, <1>7, <2>4
    <3> QED
      BY <3>1, <1>4, <2>1, Listed DEF r
  <2> QED
    BY <1>1, <2>2, <2>3, <2>4
<1> QED
  BY <1>1, <1>4, <1>5, <1>8, <1>9, <1>10 DEF r

(* A sequence with a new element before the others.                        *)
LEMMA PutFirst ==
  ASSUME NEW S, NEW s \in Seq(S), IsInjective(s), NEW k \in S, k \notin ToSet(s)
  PROVE  LET pushed == <<k>> \o s
         IN  /\ pushed \in Seq(S) /\ IsInjective(pushed)
             /\ Len(s) \in Nat /\ Len(pushed) = Len(s) + 1
             /\ ToSet(pushed) = ToSet(s) \cup {k}
<1> DEFINE pushed == <<k>> \o s
<1>1. /\ Len(s) \in Nat /\ DOMAIN s = 1 .. Len(s)
      /\ \A j \in 1 .. Len(s) : s[j] # k
  BY DEF ToSet
<1>2. /\ pushed \in Seq(S) /\ Len(pushed) = Len(s) + 1 /\ DOMAIN pushed = 1 .. Len(s) + 1
      /\ \A j \in 1 .. Len(s) + 1 : pushed[j] = IF j = 1 THEN k ELSE s[j - 1]
  BY <1>1
<1> HIDE DEF pushed
<1>3. IsInjective(pushed)
  <2> SUFFICES ASSUME NEW a \in 1 .. Len(s) + 1, NEW b \in 1 .. Len(s) + 1,
                      pushed[a] = pushed[b]
               PROVE  a = b
    BY <1>2 DEF IsInjective
  <2>1. \A j \in 1 .. Len(s) + 1 : j # 1 => j - 1 \in 1 .. Len(s)
    BY <1>1
  <2>2. \A j, l \in 1 .. Len(s) : s[j] = s[l] => j = l
    BY <1>1 DEF IsInjective
  <2> QED
    BY <1>1, <1>2, <2>1, <2>2
<1>4. \A j \in 1 .. Len(s) : pushed[j + 1] = s[j] /\ j + 1 \in 1 .. Len(s) + 1
  BY <1>1, <1>2
<1>5. pushed[1] = k /\ 1 \in 1 .. Len(s) + 1
  BY <1>1, <1>2
<1>6. \A x : (\E j \in 1 .. Len(s) + 1 : pushed[j] = x)
              <=> x = k \/ \E j \in 1 .. Len(s) : s[j] = x
  BY <1>1, <1>2, <1>4, <1>5
<1>7. \A x : x \in ToSet(pushed) <=> \E j \in 1 .. Len(s) + 1 : pushed[j] = x
  BY <1>2, Listed
<1>8. \A x : x \in ToSet(s) <=> \E j \in 1 .. Len(s) : s[j] = x
  BY Listed
<1>9. \A x : x \in ToSet(pushed) <=> x = k \/ x \in ToSet(s)
  BY <1>6, <1>7, <1>8, Zenon
<1> QED
  BY <1>1, <1>2, <1>3, <1>9 DEF pushed

(* A sequence with a new element after the others.                         *)
LEMMA PutLast ==
  ASSUME NEW S, NEW s \in Seq(S), IsInjective(s), NEW k \in S, k \notin ToSet(s)
  PROVE  LET longer == Append(s, k)
         IN  longer \in Seq(S) /\ IsInjective(longer) /\ ToSet(longer) = ToSet(s) \cup {k}
<1> DEFINE longer == Append(s, k)
<1>1. /\ Len(s) \in Nat /\ DOMAIN s = 1 .. Len(s)
      /\ \A j \in 1 .. Len(s) : s[j] # k
  BY DEF ToSet
<1>2. /\ longer \in Seq(S) /\ DOMAIN longer = 1 .. Len(s) + 1 /\ Len(longer) = Len(s) + 1
      /\ \A j \in 1 .. Len(s) + 1 : longer[j] = IF j = Len(s) + 1 THEN k ELSE s[j]
  BY <1>1
<1> HIDE DEF longer
<1>3. IsInjective(longer)
  BY <1>1, <1>2 DEF IsInjective
<1>4. \A x : (\E j \in 1 .. Len(s) + 1 : longer[j] = x)
              <=> x = k \/ \E j \in 1 .. Len(s) : s[j] = x
  BY <1>1, <1>2
<1>5. \A x : x \in ToSet(longer) <=> \E j \in 1 .. Len(s) + 1 : longer[j] = x
  BY <1>2, Listed
<1>6. \A x : x \in ToSet(s) <=> \E j \in 1 .. Len(s) : s[j] = x
  BY Listed
<1>7. \A x : x \in ToSet(longer) <=> x = k \/ x \in ToSet(s)
  BY <1>4, <1>5, <1>6, Zenon
<1> QED
  BY <1>2, <1>3, <1>7 DEF longer

(* LinkCache::find() moves a key to the front: the list has the same keys. *)
LEMMA MovedToFront ==
  ASSUME NEW s \in Seq(Keys), IsInjective(s), NEW k \in ToSet(s)
  PROVE  /\ ToFront(s, k) \in Seq(Keys) /\ IsInjective(ToFront(s, k))
         /\ Len(ToFront(s, k)) = Len(s) /\ ToSet(ToFront(s, k)) = ToSet(s)
<1> DEFINE w == LeftOut(s, k)
<1>1. /\ w \in Seq(Keys) /\ IsInjective(w) /\ ToSet(w) = ToSet(s) \ {k}
      /\ Len(s) \in Nat /\ Len(w) = Len(s) - 1
  BY Removed
<1>2. k \in Keys
  BY Listed
<1> HIDE DEF w
<1>3. /\ <<k>> \o w \in Seq(Keys) /\ IsInjective(<<k>> \o w)
      /\ Len(<<k>> \o w) = Len(w) + 1 /\ ToSet(<<k>> \o w) = ToSet(w) \cup {k}
  BY <1>1, <1>2, PutFirst
<1>4. Len(<<k>> \o w) = Len(s)
  BY <1>1, <1>3
<1> QED
  BY <1>1, <1>3, <1>4 DEF ToFront, w

(* LinkCache::add() puts a new key before the others and keeps kEntries.   *)
LEMMA PushedAndKept ==
  ASSUME NEW s \in Seq(Keys), IsInjective(s), NEW k \in Keys, k \notin ToSet(s),
         kEntries \in Nat
  PROVE  LET pushed == <<k>> \o s
             kept == SubSeq(pushed, 1, Min({Len(pushed), kEntries}))
         IN  /\ kept \in Seq(Keys) /\ IsInjective(kept) /\ Len(kept) <= kEntries
             /\ ToSet(kept) \subseteq ToSet(pushed)
             /\ ToSet(pushed) = ToSet(s) \cup {k}
<1> DEFINE pushed == <<k>> \o s
           m == Min({Len(pushed), kEntries})
           kept == SubSeq(pushed, 1, m)
<1>1. Len(s) \in Nat /\ DOMAIN s = 1 .. Len(s)
  BY LenProperties
<1>2. /\ pushed \in Seq(Keys) /\ IsInjective(pushed) /\ Len(pushed) = Len(s) + 1
      /\ DOMAIN pushed = 1 .. Len(s) + 1 /\ ToSet(pushed) = ToSet(s) \cup {k}
  BY <1>1, PutFirst, LenProperties
<1> HIDE DEF pushed
<1>3. m \in 0 .. Len(pushed) /\ m <= kEntries
  <2>1. CASE Len(pushed) <= kEntries
    <3>1. \E x \in {Len(pushed), kEntries} : \A y \in {Len(pushed), kEntries} : x <= y
      BY <2>1, <1>1, <1>2
    <3> QED
      BY <3>1, <1>1, <1>2 DEF Min
  <2>2. CASE kEntries <= Len(pushed)
    <3>1. \E x \in {Len(pushed), kEntries} : \A y \in {Len(pushed), kEntries} : x <= y
      BY <2>2, <1>1, <1>2
    <3> QED
      BY <3>1, <1>1, <1>2 DEF Min
  <2> QED
    BY <2>1, <2>2, <1>1, <1>2
<1> HIDE DEF m
<1>4. /\ kept \in Seq(Keys) /\ Len(kept) = m /\ DOMAIN kept = 1 .. m
      /\ \A j \in 1 .. m : kept[j] = pushed[j]
  BY <1>2, <1>3
<1> HIDE DEF kept
<1>5. IsInjective(kept)
  BY <1>2, <1>3, <1>4 DEF IsInjective
<1>6. ToSet(kept) \subseteq ToSet(pushed)
  BY <1>2, <1>3, <1>4 DEF ToSet
<1> QED
  BY <1>2, <1>3, <1>4, <1>5, <1>6 DEF kept, m, pushed

(* Where a thread stands: its process, its build and the name of its file. *)
LEMMA OwnPath ==
  ASSUME LinkAssumption, HeldIsRight, NEW t \in Linkers
  PROVE  /\ ProcessOf[t] \in Processes /\ OwnBuild(t) \in Builds
         /\ linkPc[t] # "idle" =>
              /\ key[t] \in Keys /\ Path(t) \in Names /\ BytesOf[key[t]] \in Nat
              /\ Linked(t) \in Builds \X Keys
<1>1. ProcessOf[t] \in Processes
  BY DEF LinkAssumption
<1>2. OwnBuild(t) \in Builds
  BY <1>1 DEF OwnBuild, Builds
<1>3. ASSUME linkPc[t] # "idle"
      PROVE  /\ key[t] \in Keys /\ Path(t) \in Names /\ BytesOf[key[t]] \in Nat
             /\ Linked(t) \in Builds \X Keys
  <2>1. key[t] \in Keys
    BY <1>3 DEF HeldIsRight
  <2>2. Linked(t) \in Builds \X Keys
    BY <1>2, <2>1 DEF Linked
  <2>3. Linked(t) \in DOMAIN PathOf
    BY <2>2 DEF LinkAssumption
  <2>4. Path(t) \in Names
    BY <2>3 DEF Path, Linked, Names
  <2> QED
    BY <2>1, <2>2, <2>4 DEF LinkAssumption
<1> QED
  BY <1>1, <1>2, <1>3

LEMMA InitLink ==
  ASSUME LinkAssumption, LinkInit
  PROVE  LinkIInv
<1>1. HeldIsRight
  BY DEF LinkInit, HeldIsRight
<1>2. FilesAreRight
  BY DEF LinkInit, FilesAreRight
<1>3. MemoryIsRight
  <2>1. \A p \in Processes : order[p] = << >> /\ entries[p] = << >>
    BY DEF LinkInit
  <2>2. << >> \in Seq(Keys) /\ Len(<< >>) = 0 /\ DOMAIN << >> = {}
    OBVIOUS
  <2>3. order \in [Processes -> Seq(Keys)] /\ DOMAIN entries = Processes
    BY <2>2 DEF LinkInit
  <2> QED
    BY <2>1, <2>2, <2>3 DEF MemoryIsRight, IsInjective, ToSet, LinkAssumption
<1> QED
  BY <1>1, <1>2, <1>3 DEF LinkIInv

(* A step of one thread within link() that leaves memory and files alone.  *)
LEMMA OneThread ==
  ASSUME HeldIsRight, NEW t \in Linkers, UNCHANGED key,
         NEW l \in {"idle", "find", "read", "touch", "store", "unlink", "rename", "add", "done"},
         NEW v, LinkGoto(t, l), UNCHANGED held \/ Hold(t, v),
         l # "idle" => key[t] \in Keys,
         l = "touch" => held'[t] \in File /\ held'[t].result = <<held'[t].build, held'[t].key>>,
         l \in {"store", "unlink", "rename", "add", "done"} => held'[t] = Linked(t)
  PROVE  HeldIsRight'
<1>1. /\ \A u \in Linkers \ {t} : held'[u] = held[u]
      /\ DOMAIN held' = Linkers
  BY DEF HeldIsRight, Hold
<1>2. linkPc' \in [Linkers -> {"idle", "find", "read", "touch", "store", "unlink", "rename", "add", "done"}]
  BY DEF HeldIsRight, LinkGoto
<1>3. linkPc'[t] = l /\ \A u \in Linkers \ {t} : linkPc'[u] = linkPc[u]
  BY DEF HeldIsRight, LinkGoto
<1>4. \A u \in Linkers : Linked(u)' = Linked(u)
  BY DEF Linked, OwnBuild
<1> QED
  BY <1>1, <1>2, <1>3, <1>4 DEF HeldIsRight

LEMMA NextLink ==
  ASSUME LinkAssumption, LinkIInv, [LinkNext]_linkVars
  PROVE  LinkIInv'
<1> USE DEF LinkIInv
<1>1. CASE UNCHANGED linkVars
  BY <1>1 DEF linkVars, memory, trimming, directory, HeldIsRight, FilesAreRight,
              MemoryIsRight, Linked, OwnBuild
<1>2. ASSUME NEW t \in Linkers, NEW k \in Keys, Link(t, k)
      PROVE  LinkIInv'
  <2>1. /\ key' = [key EXCEPT ![t] = k] /\ held' = [held EXCEPT ![t] = NoFile]
        /\ linkPc' = [linkPc EXCEPT ![t] = "find"] /\ UNCHANGED <<memory, directory>>
    BY <1>2 DEF Link, Hold, LinkGoto
  <2>2. \A u \in Linkers \ {t} : Linked(u)' = Linked(u)
    BY <2>1 DEF Linked, OwnBuild, HeldIsRight
  <2>3. HeldIsRight'
    BY <2>1, <2>2 DEF HeldIsRight
  <2> QED
    BY <2>1, <2>3 DEF FilesAreRight, MemoryIsRight, memory, directory
<1>3. ASSUME NEW t \in Linkers, Find(t)
      PROVE  LinkIInv'
  <2> DEFINE p == ProcessOf[t]
  <2>1. /\ linkPc[t] = "find" /\ p \in Processes /\ key[t] \in Keys
        /\ UNCHANGED <<key, entries, files>>
    BY <1>3, OwnPath DEF Find, directory
  <2>2. CASE key[t] \in DOMAIN entries[p]
    <3>1. /\ order' = [order EXCEPT ![p] = ToFront(@, key[t])]
          /\ Hold(t, entries[p][key[t]]) /\ LinkGoto(t, "done")
      BY <1>3, <2>2 DEF Find
    <3>2. entries[p][key[t]] = Linked(t)
      BY <2>1, <2>2 DEF MemoryIsRight, Linked, OwnBuild
    <3>3. HeldIsRight'
      BY <2>1, <3>1, <3>2, OneThread DEF Hold, HeldIsRight
    <3>4. /\ order[p] \in Seq(Keys) /\ IsInjective(order[p]) /\ key[t] \in ToSet(order[p])
          /\ DOMAIN order = Processes /\ Len(order[p]) <= kEntries
      BY <2>1, <2>2 DEF MemoryIsRight
    <3>5. /\ order'[p] \in Seq(Keys) /\ IsInjective(order'[p])
          /\ Len(order'[p]) <= kEntries /\ ToSet(order'[p]) = ToSet(order[p])
      BY <2>1, <3>1, <3>4, MovedToFront
    <3>6. \A q \in Processes \ {p} : order'[q] = order[q]
      BY <3>1, <3>4
    <3>7. order' \in [Processes -> Seq(Keys)]
      BY <2>1, <3>1, <3>5 DEF MemoryIsRight
    <3>8. MemoryIsRight'
      BY <2>1, <3>5, <3>6, <3>7 DEF MemoryIsRight
    <3> QED
      BY <2>1, <3>3, <3>8 DEF FilesAreRight
  <2>3. CASE key[t] \notin DOMAIN entries[p]
    <3>1. LinkGoto(t, "read") /\ UNCHANGED <<order, held>>
      BY <1>3, <2>3 DEF Find
    <3>2. HeldIsRight'
      BY <2>1, <3>1, OneThread
    <3> QED
      BY <2>1, <3>1, <3>2 DEF FilesAreRight, MemoryIsRight
  <2> QED
    BY <2>2, <2>3
<1>4. ASSUME NEW t \in Linkers, linkPc[t] # "idle", Compile(t), UNCHANGED key
      PROVE  HeldIsRight'
  <2>1. key[t] \in Keys /\ held' = [held EXCEPT ![t] = Linked(t)]
    BY <1>4, OwnPath DEF Compile, Hold
  <2>2. held'[t] = Linked(t)
    BY <2>1 DEF HeldIsRight
  <2>3. CASE key[t] \in Failing
    BY <1>4, <2>1, <2>2, <2>3, OneThread DEF Compile
  <2>4. CASE key[t] \notin Failing
    BY <1>4, <2>1, <2>2, <2>4, OneThread DEF Compile
  <2> QED
    BY <2>3, <2>4
<1>5. ASSUME NEW t \in Linkers, Read(t)
      PROVE  LinkIInv'
  <2>1. linkPc[t] = "read" /\ key[t] \in Keys /\ Path(t) \in Names /\ UNCHANGED <<key, memory, files>>
    BY <1>5, OwnPath DEF Read, directory
  <2>2. CASE files[Path(t)] = NoFile
    BY <1>4, <1>5, <2>1, <2>2 DEF Read, FilesAreRight, MemoryIsRight, memory
  <2>3. CASE files[Path(t)] # NoFile
    <3>1. Hold(t, files[Path(t)]) /\ LinkGoto(t, "touch")
      BY <1>5, <2>3 DEF Read
    <3>2. held'[t] = files[Path(t)]
      BY <3>1 DEF Hold, HeldIsRight
    <3>3. HeldIsRight'
      BY <2>1, <2>3, <3>1, <3>2, OneThread DEF FilesAreRight
    <3> QED
      BY <2>1, <3>3 DEF FilesAreRight, MemoryIsRight, memory
  <2> QED
    BY <2>2, <2>3
<1>6. ASSUME NEW t \in Linkers, Touch(t)
      PROVE  LinkIInv'
  <2>1. linkPc[t] = "touch" /\ key[t] \in Keys /\ UNCHANGED <<key, memory, files>>
    BY <1>6, OwnPath DEF Touch
  <2>2. CASE ~Matches(t)
    BY <1>4, <1>6, <2>1, <2>2 DEF Touch, FilesAreRight, MemoryIsRight, memory
  <2>3. CASE Matches(t)
    <3>1. Hold(t, held[t].result) /\ LinkGoto(t, "add")
      BY <1>6, <2>3 DEF Touch
    <3>2. held'[t] = Linked(t)
      BY <2>1, <2>3, <3>1 DEF Matches, Hold, HeldIsRight, Linked
    <3>3. HeldIsRight'
      BY <2>1, <3>1, <3>2, OneThread
    <3> QED
      BY <2>1, <3>3 DEF FilesAreRight, MemoryIsRight, memory
  <2> QED
    BY <2>2, <2>3
<1>7. ASSUME NEW t \in Linkers, TrimScan(t)
      PROVE  LinkIInv'
  <2>1. /\ linkPc[t] = "store" /\ key[t] \in Keys /\ held[t] = Linked(t)
        /\ UNCHANGED <<key, held, memory, directory>>
    BY <1>7, OwnPath DEF TrimScan, HeldIsRight
  <2>2. UNCHANGED linkPc \/ LinkGoto(t, "unlink")
    BY <1>7 DEF TrimScan
  <2>3. CASE UNCHANGED linkPc
    BY <2>1, <2>3 DEF HeldIsRight, FilesAreRight, MemoryIsRight, memory, directory, Linked, OwnBuild
  <2>4. CASE LinkGoto(t, "unlink")
    <3>1. HeldIsRight'
      BY <2>1, <2>4, OneThread
    <3> QED
      BY <2>1, <3>1 DEF FilesAreRight, MemoryIsRight, memory, directory
  <2> QED
    BY <2>2, <2>3, <2>4
<1>8. ASSUME NEW t \in Linkers, TrimUnlink(t)
      PROVE  LinkIInv'
  <2>1. /\ UNCHANGED <<linkPc, key, held, memory>>
        /\ UNCHANGED files \/ \E n : files' = [files EXCEPT ![n] = NoFile]
    BY <1>8 DEF TrimUnlink, directory
  <2>2. FilesAreRight'
    BY <2>1 DEF FilesAreRight
  <2> QED
    BY <2>1, <2>2 DEF HeldIsRight, MemoryIsRight, memory, Linked, OwnBuild
<1>9. ASSUME NEW t \in Linkers, TrimEnd(t)
      PROVE  LinkIInv'
  <2>1. /\ linkPc[t] = "unlink" /\ key[t] \in Keys /\ held[t] = Linked(t) /\ LinkGoto(t, "store")
        /\ UNCHANGED <<key, held, memory, directory>>
    BY <1>9, OwnPath DEF TrimEnd, HeldIsRight
  <2>2. HeldIsRight'
    BY <2>1, OneThread
  <2> QED
    BY <2>1, <2>2 DEF FilesAreRight, MemoryIsRight, memory, directory
<1>10. ASSUME NEW t \in Linkers, Write(t) \/ Discard(t)
       PROVE  LinkIInv'
  <2>1. /\ key[t] \in Keys /\ held[t] = Linked(t) /\ (LinkGoto(t, "rename") \/ LinkGoto(t, "add"))
        /\ UNCHANGED <<key, held, memory, directory>>
    BY <1>10, OwnPath DEF Write, Discard, HeldIsRight
  <2>2. HeldIsRight'
    BY <2>1, OneThread
  <2> QED
    BY <2>1, <2>2 DEF FilesAreRight, MemoryIsRight, memory, directory
<1>11. ASSUME NEW t \in Linkers, Rename(t)
       PROVE  LinkIInv'
  <2> DEFINE written == [build |-> OwnBuild(t), key |-> key[t], result |-> held[t],
                         bytes |-> BytesOf[key[t]]]
  <2>1. /\ linkPc[t] = "rename" /\ key[t] \in Keys /\ held[t] = Linked(t) /\ LinkGoto(t, "add")
        /\ files' = [files EXCEPT ![Path(t)] = written]
        /\ UNCHANGED <<key, held, memory>>
    BY <1>11, OwnPath DEF Rename, HeldIsRight
  <2>2. written \in File /\ written.result = <<written.build, written.key>>
    BY <2>1, OwnPath DEF File, Linked
  <2>3. HeldIsRight'
    BY <2>1, OneThread
  <2> HIDE DEF written
  <2>4. FilesAreRight'
    BY <2>1, <2>2 DEF FilesAreRight
  <2> QED
    BY <2>1, <2>3, <2>4 DEF MemoryIsRight, memory
<1>12. ASSUME NEW t \in Linkers, Add(t)
       PROVE  LinkIInv'
  <2> DEFINE p == ProcessOf[t]
             k == key[t]
             pushed == <<k>> \o order[p]
             kept == SubSeq(pushed, 1, Min({Len(pushed), kEntries}))
             dropped == ToSet(pushed) \ ToSet(kept)
             result == [j \in DOMAIN entries[p] \cup {k} |->
                          IF j \in DOMAIN entries[p] THEN entries[p][j] ELSE held[t]]
             rest == [j \in DOMAIN result \ dropped |-> result[j]]
  <2>1. /\ linkPc[t] = "add" /\ p \in Processes /\ k \in Keys /\ held[t] = Linked(t)
        /\ LinkGoto(t, "done") /\ UNCHANGED <<key, held, files>>
    BY <1>12, OwnPath DEF Add, HeldIsRight, directory
  <2>2. HeldIsRight'
    BY <2>1, OneThread
  <2>3. CASE k \in DOMAIN entries[p]
    BY <1>12, <2>1, <2>2, <2>3 DEF Add, FilesAreRight, MemoryIsRight, memory
  <2>4. CASE k \notin DOMAIN entries[p]
    <3>1. /\ order' = [order EXCEPT ![p] = kept]
          /\ entries' = [entries EXCEPT ![p] = rest]
      BY <1>12, <2>4 DEF Add
    <3>2. /\ order \in [Processes -> Seq(Keys)] /\ DOMAIN entries = Processes
          /\ order[p] \in Seq(Keys) /\ IsInjective(order[p])
          /\ DOMAIN entries[p] = ToSet(order[p])
          /\ \A j \in DOMAIN entries[p] : entries[p][j] = <<BuildOf[p], j>>
      BY <2>1 DEF MemoryIsRight
    <3>3. /\ kept \in Seq(Keys) /\ IsInjective(kept) /\ Len(kept) <= kEntries
          /\ ToSet(kept) \subseteq ToSet(pushed)
          /\ ToSet(pushed) = ToSet(order[p]) \cup {k}
      BY <2>1, <2>4, <3>2, PushedAndKept DEF LinkAssumption
    <3> HIDE DEF kept, pushed
    <3>4. /\ DOMAIN rest = ToSet(kept)
          /\ \A j \in DOMAIN rest : rest[j] = <<BuildOf[p], j>>
      BY <2>1, <3>2, <3>3 DEF Linked, OwnBuild
    <3> HIDE DEF rest
    <3>5. order'[p] = kept /\ entries'[p] = rest
      BY <2>1, <3>1, <3>2
    <3>6. /\ \A q \in Processes \ {p} : order'[q] = order[q] /\ entries'[q] = entries[q]
          /\ order' \in [Processes -> Seq(Keys)] /\ DOMAIN entries' = Processes
      BY <3>1, <3>2, <3>3
    <3>7. MemoryIsRight'
      <4> SUFFICES ASSUME NEW q \in Processes
                   PROVE  /\ IsInjective(order'[q]) /\ Len(order'[q]) <= kEntries
                          /\ DOMAIN entries'[q] = ToSet(order'[q])
                          /\ \A j \in DOMAIN entries'[q] : entries'[q][j] = <<BuildOf[q], j>>
        BY <3>6 DEF MemoryIsRight
      <4>1. CASE q = p
        <5> HIDE DEF p
        <5> QED
          BY <3>3, <3>4, <3>5, <4>1
      <4>2. CASE q # p
        <5> HIDE DEF p
        <5> QED
          BY <3>6, <4>2 DEF MemoryIsRight
      <4> QED
        BY <4>1, <4>2
    <3> QED
      BY <2>1, <2>2, <3>7 DEF FilesAreRight
  <2> QED
    BY <2>3, <2>4
<1>13. ASSUME NEW p \in Processes, Kill(p)
       PROVE  LinkIInv'
  <2> DEFINE mine == {t \in Linkers : ProcessOf[t] = p}
  <2>1. /\ linkPc' = [t \in Linkers |-> IF t \in mine THEN "idle" ELSE linkPc[t]]
        /\ held' = [t \in Linkers |-> IF t \in mine THEN NoFile ELSE held[t]]
        /\ key' = [t \in Linkers |-> IF t \in mine THEN NoFile ELSE key[t]]
        /\ order' = [order EXCEPT ![p] = << >>] /\ entries' = [entries EXCEPT ![p] = << >>]
        /\ UNCHANGED files
    BY <1>13 DEF Kill, directory
  <2> HIDE DEF mine
  <2>2. \A t \in Linkers \ mine : Linked(t)' = Linked(t)
    BY <2>1 DEF Linked, OwnBuild
  <2>3. HeldIsRight'
    BY <2>1, <2>2 DEF HeldIsRight
  <2>4. << >> \in Seq(Keys) /\ Len(<< >>) = 0 /\ DOMAIN << >> = {}
    OBVIOUS
  <2>5. order'[p] = << >> /\ entries'[p] = << >>
    BY <2>1 DEF MemoryIsRight
  <2>6. /\ \A q \in Processes \ {p} : order'[q] = order[q] /\ entries'[q] = entries[q]
        /\ order' \in [Processes -> Seq(Keys)] /\ DOMAIN entries' = Processes
    BY <2>1, <2>4 DEF MemoryIsRight
  <2>7. ToSet(<< >>) = {} /\ IsInjective(<< >>) /\ 0 <= kEntries
    BY <2>4 DEF ToSet, IsInjective, LinkAssumption
  <2>8. MemoryIsRight'
    BY <2>4, <2>5, <2>6, <2>7 DEF MemoryIsRight
  <2> QED
    BY <2>1, <2>3, <2>8 DEF FilesAreRight
<1> QED
  BY <1>1, <1>2, <1>3, <1>5, <1>6, <1>7, <1>8, <1>9, <1>10, <1>11, <1>12, <1>13 DEF LinkNext

(* For any processes, builds, keys and names: what link() returns is what  *)
(* compiling the thread's own inputs with its own build gives, whatever    *)
(* files other builds left under the same name and whichever process is    *)
(* killed meanwhile.                                                       *)
THEOREM LinksAreExact ==
  ASSUME LinkAssumption
  PROVE  LinkSpec => []LinkExact
<1>1. LinkIInv => LinkExact
  BY DEF LinkIInv, HeldIsRight, LinkExact
<1>2. LinkInit => LinkIInv
  BY InitLink
<1>3. LinkIInv /\ [LinkNext]_linkVars => LinkIInv'
  BY NextLink
<1> QED
  BY <1>1, <1>2, <1>3, PTL DEF LinkSpec

(* The list and the map of LinkCache hold the same keys, each once, and at *)
(* most kEntries of them.                                                  *)
THEOREM LinkMemoryCoherent ==
  ASSUME LinkAssumption
  PROVE  LinkSpec => []MemoryCoherent
<1>1. LinkIInv => MemoryCoherent
  BY DEF LinkIInv, MemoryIsRight, MemoryCoherent
<1>2. LinkInit => LinkIInv
  BY InitLink
<1>3. LinkIInv /\ [LinkNext]_linkVars => LinkIInv'
  BY NextLink
<1> QED
  BY <1>1, <1>2, <1>3, PTL DEF LinkSpec

(* The directory: a file that goes away has no place among the             *)
(* modification times ...                                                  *)
LEMMA NameLeaves ==
  ASSUME RecencyIsRight, DOMAIN files = Names, NEW n,
         files' = [files EXCEPT ![n] = NoFile], recency' = LeftOut(recency, n)
  PROVE  RecencyIsRight'
<1>1. /\ recency' \in Seq(Names) /\ IsInjective(recency')
      /\ ToSet(recency') = ToSet(recency) \ {n}
  BY Removed DEF RecencyIsRight
<1>2. \A m \in Names : files'[m] = IF m = n THEN NoFile ELSE files[m]
  OBVIOUS
<1> QED
  BY <1>1, <1>2 DEF RecencyIsRight

(* ... and a file that is written, or touched, has the last one.           *)
LEMMA NameArrives ==
  ASSUME RecencyIsRight, NEW n \in Names, recency' = MostRecent(n), files'[n] # NoFile,
         \A m \in Names \ {n} : files'[m] = files[m]
  PROVE  RecencyIsRight'
<1> DEFINE w == LeftOut(recency, n)
<1>1. w \in Seq(Names) /\ IsInjective(w) /\ ToSet(w) = ToSet(recency) \ {n}
  BY Removed DEF RecencyIsRight
<1> HIDE DEF w
<1>2. /\ Append(w, n) \in Seq(Names) /\ IsInjective(Append(w, n))
      /\ ToSet(Append(w, n)) = ToSet(w) \cup {n}
  BY <1>1, PutLast
<1>3. recency' = Append(w, n)
  BY DEF MostRecent, w
<1> QED
  BY <1>1, <1>2, <1>3 DEF RecencyIsRight

LEMMA InitDirectory ==
  ASSUME LinkInit
  PROVE  DirectoryIInv
<1>1. << >> \in Seq(Names) /\ DOMAIN << >> = {}
  OBVIOUS
<1>2. ToSet(<< >>) = {} /\ IsInjective(<< >>)
  BY <1>1 DEF ToSet, IsInjective
<1> QED
  BY <1>1, <1>2 DEF LinkInit, DirectoryIInv, RecencyIsRight

LEMMA NextDirectory ==
  ASSUME LinkAssumption, LinkIInv, DirectoryIInv, [LinkNext]_linkVars
  PROVE  DirectoryIInv'
<1> USE DEF LinkIInv, DirectoryIInv
<1>1. ASSUME UNCHANGED <<trimming, grown, directory>>
      PROVE  DirectoryIInv'
  BY <1>1 DEF trimming, directory, RecencyIsRight
<1>2. CASE UNCHANGED linkVars
  BY <1>1, <1>2 DEF linkVars
<1>3. ASSUME NEW t \in Linkers, \E k \in Keys : Link(t, k)
      PROVE  DirectoryIInv'
  BY <1>1, <1>3 DEF Link
<1>4. ASSUME NEW t \in Linkers, Find(t) \/ Read(t) \/ Write(t) \/ Discard(t) \/ Add(t)
      PROVE  DirectoryIInv'
  BY <1>1, <1>4 DEF Find, Read, Write, Discard, Add
<1>5. ASSUME NEW t \in Linkers, Touch(t)
      PROVE  DirectoryIInv'
  <2>1. /\ linkPc[t] = "touch" /\ Path(t) \in Names /\ UNCHANGED <<trimming, grown, files>>
        /\ recency' = recency \/ (recency' = MostRecent(Path(t)) /\ files[Path(t)] # NoFile)
    BY <1>5, OwnPath DEF Touch
  <2>2. CASE recency' = recency
    BY <1>1, <2>1, <2>2 DEF directory
  <2>3. CASE recency' = MostRecent(Path(t)) /\ files[Path(t)] # NoFile
    <3>1. RecencyIsRight'
      BY <2>1, <2>3, NameArrives
    <3> QED
      BY <2>1, <3>1 DEF trimming
  <2> QED
    BY <2>1, <2>2, <2>3
<1>6. ASSUME NEW t \in Linkers, TrimScan(t) \/ TrimEnd(t)
      PROVE  DirectoryIInv'
  <2>1. /\ UNCHANGED directory /\ grown' \subseteq grown
        /\ trim' \in [Processes -> {"no", "running", "done"}]
    BY <1>6 DEF TrimScan, TrimEnd
  <2> QED
    BY <2>1 DEF RecencyIsRight, directory
<1>7. ASSUME NEW t \in Linkers, TrimUnlink(t)
      PROVE  DirectoryIInv'
  <2>1. /\ UNCHANGED <<trim, grown>>
        /\ \/ UNCHANGED directory
           \/ \E n : files' = [files EXCEPT ![n] = NoFile] /\ recency' = LeftOut(recency, n)
    BY <1>7 DEF TrimUnlink
  <2>2. RecencyIsRight'
    BY <2>1, NameLeaves DEF RecencyIsRight, directory, FilesAreRight
  <2> QED
    BY <2>1, <2>2
<1>8. ASSUME NEW t \in Linkers, Rename(t)
      PROVE  DirectoryIInv'
  <2> DEFINE written == [build |-> OwnBuild(t), key |-> key[t], result |-> held[t],
                         bytes |-> BytesOf[key[t]]]
  <2>1. /\ linkPc[t] = "rename" /\ key[t] \in Keys /\ held[t] = Linked(t) /\ Path(t) \in Names
        /\ files' = [files EXCEPT ![Path(t)] = written] /\ recency' = MostRecent(Path(t))
        /\ grown' = grown \cup {p \in Processes : trim[p] = "running"} /\ UNCHANGED trim
    BY <1>8, OwnPath DEF Rename, HeldIsRight, trimming
  <2>2. written \in File
    BY <2>1, OwnPath DEF File, Linked
  <2> HIDE DEF written
  <2>3. files'[Path(t)] # NoFile /\ \A m \in Names \ {Path(t)} : files'[m] = files[m]
    BY <2>1, <2>2 DEF FilesAreRight, LinkAssumption
  <2>4. RecencyIsRight'
    BY <2>1, <2>3, NameArrives
  <2> QED
    BY <2>1, <2>4
<1>9. ASSUME NEW p \in Processes, Kill(p)
      PROVE  DirectoryIInv'
  BY <1>9 DEF Kill, RecencyIsRight, directory
<1> QED
  BY <1>2, <1>3, <1>4, <1>5, <1>6, <1>7, <1>8, <1>9 DEF LinkNext

(* The caches of link() as a whole: what a link returns, the memory of     *)
(* each process, and every file of the directory with its place among the  *)
(* modification times, by which trimDirectory() chooses what it removes.   *)
THEOREM LinksAreSound ==
  ASSUME LinkAssumption
  PROVE  LinkSpec => []LinkSound
<1>1. LinkIInv /\ DirectoryIInv => LinkSound
  BY DEF LinkIInv, DirectoryIInv, HeldIsRight, MemoryIsRight, RecencyIsRight,
         LinkSound, LinkTypeOK, LinkExact, MemoryCoherent
<1>2. LinkInit => LinkIInv /\ DirectoryIInv
  BY InitLink, InitDirectory
<1>3. LinkIInv /\ DirectoryIInv /\ [LinkNext]_linkVars => LinkIInv' /\ DirectoryIInv'
  BY NextLink, NextDirectory
<1> QED
  BY <1>1, <1>2, <1>3, PTL DEF LinkSpec

-----------------------------------------------------------------------------
(* The size of the directory.                                              *)

(* A file has as many bytes as its record says, and they are its own.      *)
LEMMA BytesOfOne ==
  ASSUME NEW n, files[n].bytes \in Nat
  PROVE  IsFiniteSet(BytesIn(n)) /\ Cardinality(BytesIn(n)) = files[n].bytes
<1> DEFINE k == files[n].bytes
           u == 1 .. k
<1>1. IsFiniteSet(u) /\ Cardinality(u) = k
  <2> HIDE DEF k
  <2>1. k \in Nat
    BY DEF k
  <2>2. IsFiniteSet(1 .. k) /\ Cardinality(1 .. k) = IF 1 > k THEN 0 ELSE k - 1 + 1
    BY <2>1, FS_Interval
  <2> QED
    BY <2>1, <2>2
<1>2. IsFiniteSet({n}) /\ Cardinality({n}) = 1
  BY FS_Singleton
<1>3. BytesIn(n) = {n} \X u
  BY DEF BytesIn
<1>a. k \in Nat
  OBVIOUS
<1> HIDE DEF u, k
<1>4. IsFiniteSet({n} \X u) /\ Cardinality({n} \X u) = Cardinality({n}) * Cardinality(u)
  BY <1>1, <1>2, FS_Product
<1>5. Cardinality({n} \X u) = k
  BY <1>a, <1>1, <1>2, <1>4
<1> QED
  BY <1>3, <1>4, <1>5 DEF k

LEMMA StoredIsCounted ==
  ASSUME IsFiniteSet(Stored)
  PROVE  DirectoryBytes \in Nat
BY FS_CardinalityType DEF DirectoryBytes

(* The directory lists the same files, of the same sizes.                  *)
LEMMA StoredStays ==
  ASSUME ToSet(recency)' = ToSet(recency), \A n \in ToSet(recency) : files'[n] = files[n]
  PROVE  Stored' = Stored /\ DirectoryBytes' = DirectoryBytes
<1>1. Stored' = Stored
  BY DEF Stored, BytesIn
<1> QED
  BY <1>1 DEF DirectoryBytes

(* One file less is that file's bytes less.                                *)
LEMMA StoredShrinks ==
  ASSUME NEW n \in ToSet(recency), files[n].bytes \in Nat, IsFiniteSet(Stored),
         ToSet(recency)' = ToSet(recency) \ {n},
         \A m \in ToSet(recency) \ {n} : files'[m] = files[m]
  PROVE  IsFiniteSet(Stored)' /\ DirectoryBytes' = DirectoryBytes - files[n].bytes
<1>1. Stored' = Stored \ BytesIn(n) /\ Stored \cap BytesIn(n) = BytesIn(n)
  BY DEF Stored, BytesIn
<1>2. Cardinality(BytesIn(n)) = files[n].bytes
  BY BytesOfOne
<1>3. /\ IsFiniteSet(Stored \ BytesIn(n))
      /\ Cardinality(Stored \ BytesIn(n)) =
           Cardinality(Stored) - Cardinality(Stored \cap BytesIn(n))
  BY FS_Difference
<1> QED
  BY <1>1, <1>2, <1>3 DEF DirectoryBytes

(* A store leaves finitely many bytes.                                     *)
LEMMA StoredGrows ==
  ASSUME NEW n, files'[n].bytes \in Nat, IsFiniteSet(Stored),
         ToSet(recency)' = ToSet(recency) \cup {n},
         \A m \in ToSet(recency) \ {n} : files'[m] = files[m]
  PROVE  IsFiniteSet(Stored)'
<1> DEFINE new == {n} \X (1 .. files'[n].bytes)
<1>1. IsFiniteSet(new)
  <2> DEFINE u == 1 .. files'[n].bytes
  <2>1. IsFiniteSet(u)
    BY FS_Interval
  <2>2. IsFiniteSet({n})
    BY FS_Singleton
  <2> HIDE DEF u
  <2>3. IsFiniteSet({n} \X u)
    BY <2>1, <2>2, FS_Product
  <2> QED
    BY <2>3 DEF u
<1>2. \A m \in ToSet(recency)' : BytesIn(m)' \subseteq Stored \cup new
  BY DEF Stored, BytesIn
<1>3. Stored' \subseteq Stored \cup new
  <2> SUFFICES ASSUME NEW x \in Stored'
               PROVE  x \in Stored \cup new
    OBVIOUS
  <2>1. PICK m \in ToSet(recency)' : x \in BytesIn(m)'
    BY DEF Stored
  <2> QED
    BY <2>1, <1>2
<1>4. IsFiniteSet(Stored \cup new)
  BY <1>1, FS_Union
<1> QED
  BY <1>3, <1>4, FS_Subset

-----------------------------------------------------------------------------
(* trimDirectory().                                                        *)
LEMMA InitTrim ==
  ASSUME LinkInit
  PROVE  TrimIInv
<1>1. << >> \in Seq([name : Names, bytes : Nat]) /\ DOMAIN << >> = {}
  OBVIOUS
<1>2. Stored = {}
  BY <1>1 DEF LinkInit, Stored, ToSet
<1>3. IsFiniteSet(Stored)
  BY <1>2, FS_EmptySet
<1> QED
  BY <1>1, <1>3 DEF LinkInit, TrimIInv, OneTrims

(* A step of one thread that neither starts nor ends a trim.               *)
LEMMA NobodyTrims ==
  ASSUME OneTrims, trim' = trim,
         \A t \in Linkers : linkPc'[t] = "unlink" => linkPc[t] = "unlink"
  PROVE  OneTrims'
BY DEF OneTrims

(* A step that leaves the trims alone and, but for a file's time, the      *)
(* directory too.                                                          *)
LEMMA TrimStays ==
  ASSUME TrimIInv, UNCHANGED <<trimming, grown, files>>,
         ToSet(recency)' = ToSet(recency),
         \A t \in Linkers : linkPc'[t] = "unlink" => linkPc[t] = "unlink"
  PROVE  TrimIInv'
<1>1. Stored' = Stored /\ DirectoryBytes' = DirectoryBytes
  BY StoredStays
<1>2. OneTrims'
  BY NobodyTrims DEF TrimIInv, trimming
<1>3. ASSUME NEW p \in Processes, ScanCovers(p)
      PROVE  ScanCovers(p)'
  BY <1>1, <1>3 DEF ScanCovers, trimming
<1> QED
  BY <1>1, <1>2, <1>3 DEF TrimIInv, trimming

(* A file that goes away is in no list; the scans of others still cover    *)
(* what is left.                                                           *)
LEMMA CoverStays ==
  ASSUME NEW p, ScanCovers(p), scan'[p] = scan[p], left'[p] = left[p],
         left[p] \in Int, IsFiniteSet(Stored), NEW n \in ToSet(recency), n \in DOMAIN files,
         files[n].bytes \in Nat,
         files' = [files EXCEPT ![n] = NoFile], ToSet(recency)' = ToSet(recency) \ {n}
  PROVE  ScanCovers(p)'
<1>1. \A m : m # n => files'[m] = files[m]
  OBVIOUS
<1>2. files'[n] = NoFile
  OBVIOUS
<1>3. DirectoryBytes \in Nat /\ DirectoryBytes' = DirectoryBytes - files[n].bytes
  BY <1>1, StoredShrinks, StoredIsCounted
<1>4. DirectoryBytes' <= left[p]
  <2> DEFINE d == DirectoryBytes
             b == files[n].bytes
  <2>1. d \in Nat /\ b \in Nat /\ d <= left[p] /\ DirectoryBytes' = d - b
    BY <1>3 DEF ScanCovers
  <2> HIDE DEF d, b
  <2> QED
    BY <2>1
<1>5. \A m \in ToSet(recency)' : \E i \in 1 .. Len(scan'[p]) : scan'[p][i].name = m
  BY DEF ScanCovers
<1>6. ASSUME NEW i \in 1 .. Len(scan[p]), files'[scan[p][i].name] # NoFile
      PROVE  files'[scan[p][i].name].bytes = scan[p][i].bytes
  BY <1>1, <1>2, <1>6 DEF ScanCovers
<1> QED
  BY <1>4, <1>5, <1>6 DEF ScanCovers

LEMMA AsSeq ==
  ASSUME NEW S, NEW k \in Nat, NEW f \in [1 .. k -> S]
  PROVE  f \in Seq(S) /\ Len(f) = k
OBVIOUS

LEMMA FirstAndRest ==
  ASSUME NEW S, NEW s \in Seq(S), s # << >>
  PROVE  /\ Len(s) \in Nat /\ Len(s) >= 1 /\ Head(s) = s[1] /\ Head(s) \in S
         /\ Tail(s) \in Seq(S) /\ Len(Tail(s)) = Len(s) - 1
         /\ \A i \in 1 .. Len(s) - 1 : Tail(s)[i] = s[i + 1]
OBVIOUS

(* trimDirectory() looks at what there is.                                 *)
LEMMA ScanStarts ==
  ASSUME LinkAssumption, LinkIInv, DirectoryIInv, TrimIInv, NEW t \in Linkers, TrimScan(t)
  PROVE  TrimIInv'
<1> DEFINE p == ProcessOf[t]
           found == [i \in DOMAIN recency |->
                       [name |-> recency[i], bytes |-> files[recency[i]].bytes]]
<1>1. /\ p \in Processes /\ linkPc[t] = "store" /\ trim[p] = "no"
      /\ UNCHANGED directory
  BY DEF TrimScan, LinkAssumption
<1>2. Stored' = Stored /\ DirectoryBytes' = DirectoryBytes
  BY <1>1, StoredStays DEF directory
<1>3. \A u \in Linkers : linkPc[u] = "unlink" => ProcessOf[u] # p
  BY <1>1 DEF TrimIInv, OneTrims
<1>4. CASE trim' = [trim EXCEPT ![p] = "done"] /\ UNCHANGED <<linkPc, scan, left, grown>>
  <2>1. \A q \in Processes : trim'[q] = "running" => q # p /\ trim[q] = "running"
    BY <1>1, <1>4 DEF DirectoryIInv
  <2>2. OneTrims'
    BY <1>1, <1>3, <1>4 DEF TrimIInv, OneTrims, LinkAssumption, DirectoryIInv
  <2>3. ASSUME NEW q \in Processes, ScanCovers(q)
        PROVE  ScanCovers(q)'
    BY <1>1, <1>2, <1>4, <2>3 DEF ScanCovers, directory
  <2> QED
    BY <1>2, <1>4, <2>1, <2>2, <2>3 DEF TrimIInv
<1>5. CASE /\ trim' = [trim EXCEPT ![p] = "running"]
           /\ scan' = [scan EXCEPT ![p] = found]
           /\ left' = [left EXCEPT ![p] = DirectoryBytes]
           /\ grown' = grown \ {p}
           /\ LinkGoto(t, "unlink")
  <2>1. Len(recency) \in Nat /\ DOMAIN recency = 1 .. Len(recency)
        /\ \A i \in 1 .. Len(recency) : recency[i] \in ToSet(recency)
    BY Listed DEF DirectoryIInv, RecencyIsRight
  <2>2. \A n \in ToSet(recency) : n \in Names /\ files[n] # NoFile /\ files[n].bytes \in Nat
    BY DEF DirectoryIInv, RecencyIsRight, LinkIInv, FilesAreRight, File
  <2>3. /\ found \in Seq([name : Names, bytes : Nat]) /\ Len(found) = Len(recency)
        /\ \A i \in 1 .. Len(recency) :
             found[i].name = recency[i] /\ found[i].bytes = files[recency[i]].bytes
    <3>1. \A i \in 1 .. Len(recency) :
            [name |-> recency[i], bytes |-> files[recency[i]].bytes] \in [name : Names, bytes : Nat]
      BY <2>1, <2>2
    <3>2. found \in [1 .. Len(recency) -> [name : Names, bytes : Nat]]
      BY <2>1, <3>1
    <3>3. \A i \in 1 .. Len(recency) :
            found[i].name = recency[i] /\ found[i].bytes = files[recency[i]].bytes
      BY <2>1
    <3> HIDE DEF found
    <3>4. found \in Seq([name : Names, bytes : Nat]) /\ Len(found) = Len(recency)
      BY <2>1, <3>2, AsSeq
    <3> QED
      BY <3>3, <3>4
  <2> HIDE DEF found
  <2>4. scan'[p] = found /\ left'[p] = DirectoryBytes /\ DirectoryBytes \in Nat
    BY <1>1, <1>5, StoredIsCounted DEF TrimIInv
  <2>5. \A n \in ToSet(recency) : \E i \in 1 .. Len(recency) : recency[i] = n
    BY Listed DEF DirectoryIInv, RecencyIsRight
  <2>6. ScanCovers(p)'
    <3> HIDE DEF p
    <3>1. \A n \in ToSet(recency) : \E i \in 1 .. Len(found) : found[i].name = n
      BY <2>3, <2>5
    <3>2. \A i \in 1 .. Len(found) : files[found[i].name].bytes = found[i].bytes
      BY <2>3
    <3>3. scan'[p] = found /\ files' = files /\ recency' = recency
      BY <1>1, <2>4 DEF directory
    <3>4. DirectoryBytes' <= left'[p]
      <4> DEFINE d == DirectoryBytes
      <4>1. d \in Nat /\ DirectoryBytes' = d /\ left'[p] = d
        BY <1>2, <2>4
      <4> HIDE DEF d
      <4> QED
        BY <4>1
    <3> QED
      BY <3>1, <3>2, <3>3, <3>4 DEF ScanCovers
  <2>7. ASSUME NEW q \in Processes \ {p}, ScanCovers(q)
        PROVE  ScanCovers(q)'
    <3>1. scan'[q] = scan[q] /\ left'[q] = left[q]
      BY <1>5, <2>7 DEF TrimIInv
    <3> QED
      BY <1>1, <1>2, <2>7, <3>1 DEF ScanCovers, directory
  <2>8. OneTrims'
    <3>1. \A u \in Linkers : linkPc'[u] = IF u = t THEN "unlink" ELSE linkPc[u]
      BY <1>5 DEF LinkGoto, LinkIInv, HeldIsRight
    <3>2. \A q \in Processes : trim'[q] = IF q = p THEN "running" ELSE trim[q]
      BY <1>5 DEF DirectoryIInv
    <3>3. \A u \in Linkers : ProcessOf[u] \in Processes
      BY DEF LinkAssumption
    <3>4. OneTrims
      BY DEF TrimIInv
    <3> QED
      BY <1>3, <3>1, <3>2, <3>3, <3>4 DEF OneTrims
  <2>9. \A q \in Processes \ {p} : trim'[q] = "running" /\ q \notin grown'
                                     => trim[q] = "running" /\ q \notin grown
    BY <1>5 DEF DirectoryIInv
  <2>10. scan' \in [Processes -> Seq([name : Names, bytes : Nat])]
    BY <1>5, <2>3 DEF TrimIInv
  <2>11. left' \in [Processes -> Int]
    <3> DEFINE d == DirectoryBytes
    <3>1. left' = [left EXCEPT ![p] = d] /\ d \in Nat /\ left \in [Processes -> Int]
      BY <1>5, <2>4 DEF TrimIInv
    <3> HIDE DEF d
    <3>2. d \in Int
      BY <3>1
    <3> HIDE DEF p
    <3> QED
      BY <3>1, <3>2
  <2> QED
    BY <1>2, <2>6, <2>7, <2>8, <2>9, <2>10, <2>11 DEF TrimIInv
<1> QED
  BY <1>4, <1>5 DEF TrimScan

(* One file of the scan is removed, or somebody was faster.                *)
LEMMA ScanGoesOn ==
  ASSUME LinkAssumption, LinkIInv, DirectoryIInv, DirectoryIInv', TrimIInv,
         NEW t \in Linkers, TrimUnlink(t)
  PROVE  TrimIInv'
<1> DEFINE p == ProcessOf[t]
           s == scan[p]
           n == Head(s).name
           b == Head(s).bytes
<1>1. /\ p \in Processes /\ scan' = [scan EXCEPT ![p] = Tail(s)]
      /\ s \in Seq([name : Names, bytes : Nat]) /\ s # << >>
      /\ UNCHANGED <<linkPc, trim, grown>>
  BY DEF TrimUnlink, TrimEnough, TrimIInv, LinkAssumption
<1>2. /\ Len(s) \in Nat /\ Len(s) >= 1 /\ Head(s) = s[1]
      /\ Tail(s) \in Seq([name : Names, bytes : Nat]) /\ Len(Tail(s)) = Len(s) - 1
      /\ \A i \in 1 .. Len(s) - 1 : Tail(s)[i] = s[i + 1]
      /\ n \in Names /\ b \in Nat
  <2> DEFINE R == [name : Names, bytes : Nat]
  <2>1. s \in Seq(R) /\ s # << >>
    BY <1>1
  <2>2. \A r \in R : r.name \in Names /\ r.bytes \in Nat
    OBVIOUS
  <2> HIDE DEF s, p, R
  <2>3. /\ Len(s) \in Nat /\ Len(s) >= 1 /\ Head(s) = s[1] /\ Head(s) \in R
        /\ Tail(s) \in Seq(R) /\ Len(Tail(s)) = Len(s) - 1
        /\ \A i \in 1 .. Len(s) - 1 : Tail(s)[i] = s[i + 1]
    BY <2>1, FirstAndRest
  <2> QED
    BY <2>2, <2>3 DEF R
<1>3. OneTrims'
  BY <1>1 DEF TrimIInv, OneTrims
<1>4. scan' \in [Processes -> Seq([name : Names, bytes : Nat])]
      /\ scan'[p] = Tail(s) /\ \A q \in Processes \ {p} : scan'[q] = scan[q]
  BY <1>1, <1>2 DEF TrimIInv
<1>5. \A m \in Names : m \in ToSet(recency) <=> files[m] # NoFile
  BY DEF DirectoryIInv, RecencyIsRight
<1>6. CASE files[n] = NoFile
  <2>1. UNCHANGED <<left, directory>>
    BY <1>6 DEF TrimUnlink
  <2>2. Stored' = Stored /\ DirectoryBytes' = DirectoryBytes
    BY <2>1, StoredStays DEF directory
  <2>3. ASSUME NEW q \in Processes \ {p}, ScanCovers(q)
        PROVE  ScanCovers(q)'
    BY <1>4, <2>1, <2>2, <2>3 DEF ScanCovers, directory
  <2>4. ASSUME ScanCovers(p)
        PROVE  ScanCovers(p)'
    <3>1. ASSUME NEW m \in ToSet(recency)
          PROVE  \E i \in 1 .. Len(Tail(s)) : Tail(s)[i].name = m
      <4>1. PICK j \in 1 .. Len(s) : s[j].name = m
        BY <2>4 DEF ScanCovers
      <4>2. m # n
        BY <1>2, <1>5, <1>6
      <4>3. j - 1 \in 1 .. Len(s) - 1 /\ (j - 1) + 1 = j
        BY <1>2, <4>1, <4>2
      <4> QED
        BY <1>2, <4>1, <4>3
    <3>2. ASSUME NEW i \in 1 .. Len(Tail(s)), files[Tail(s)[i].name] # NoFile
          PROVE  files[Tail(s)[i].name].bytes = Tail(s)[i].bytes
      <4>1. i + 1 \in 1 .. Len(s) /\ Tail(s)[i] = s[i + 1]
        BY <1>2
      <4> QED
        BY <2>4, <3>2, <4>1 DEF ScanCovers
    <3> QED
      BY <1>4, <2>1, <2>2, <2>4, <3>1, <3>2 DEF ScanCovers, directory
  <2> QED
    BY <1>1, <1>3, <1>4, <2>1, <2>2, <2>3, <2>4 DEF TrimIInv
<1>7. CASE files[n] # NoFile
  <2>1. /\ files' = [files EXCEPT ![n] = NoFile]
        /\ left' = [left EXCEPT ![p] = @ - b]
    BY <1>7 DEF TrimUnlink
  <2>2. /\ DOMAIN files = Names /\ files[n].bytes \in Nat
    BY <1>2, <1>7 DEF LinkIInv, FilesAreRight, File
  <2>3. n \in ToSet(recency) /\ ToSet(recency)' = ToSet(recency) \ {n}
    <3>1. ToSet(recency)' = {m \in Names : files'[m] # NoFile}
      BY DEF DirectoryIInv, RecencyIsRight
    <3>2. ToSet(recency) = {m \in Names : files[m] # NoFile}
      BY DEF DirectoryIInv, RecencyIsRight
    <3>3. \A m \in Names : files'[m] = IF m = n THEN NoFile ELSE files[m]
      BY <2>1, <2>2
    <3> HIDE DEF n
    <3> QED
      BY <1>2, <1>7, <3>1, <3>2, <3>3
  <2> HIDE DEF n, b, s
  <2>4. \A m \in ToSet(recency) \ {n} : files'[m] = files[m]
    BY <2>1
  <2>5. /\ IsFiniteSet(Stored)' /\ DirectoryBytes' = DirectoryBytes - files[n].bytes
        /\ DirectoryBytes \in Nat
    BY <2>2, <2>3, <2>4, StoredShrinks, StoredIsCounted DEF TrimIInv
  <2>6. /\ left' \in [Processes -> Int] /\ left'[p] = left[p] - b
        /\ \A q \in Processes \ {p} : left'[q] = left[q]
        /\ \A q \in Processes : left[q] \in Int
    BY <1>1, <1>2, <2>1 DEF TrimIInv
  <2>7. ASSUME NEW q \in Processes \ {p}, ScanCovers(q)
        PROVE  ScanCovers(q)'
    BY <1>2, <1>4, <2>1, <2>2, <2>3, <2>6, <2>7, CoverStays DEF TrimIInv
  <2>8. ASSUME ScanCovers(p)
        PROVE  ScanCovers(p)'
    <3>1. ASSUME NEW m \in ToSet(recency) \ {n}
          PROVE  \E i \in 1 .. Len(Tail(s)) : Tail(s)[i].name = m
      <4>1. PICK j \in 1 .. Len(s) : s[j].name = m
        BY <2>8 DEF ScanCovers, s
      <4>2. j # 1
        BY <1>2, <4>1 DEF n
      <4>3. j - 1 \in 1 .. Len(s) - 1 /\ (j - 1) + 1 = j
        BY <1>2, <4>1, <4>2
      <4> QED
        BY <1>2, <4>1, <4>3
    <3>2. ASSUME NEW i \in 1 .. Len(Tail(s)), files'[Tail(s)[i].name] # NoFile
          PROVE  files'[Tail(s)[i].name].bytes = Tail(s)[i].bytes
      <4>1. i + 1 \in 1 .. Len(s) /\ Tail(s)[i] = s[i + 1]
        BY <1>2
      <4>2. files'[n] = NoFile
        BY <1>2, <2>1, <2>2
      <4>3. files'[Tail(s)[i].name] = files[Tail(s)[i].name]
        BY <2>1, <3>2, <4>2
      <4> QED
        BY <2>8, <3>2, <4>1, <4>3 DEF ScanCovers, s
    <3>3. files[n].bytes = b
      <4>1. 1 \in 1 .. Len(s) /\ s[1].name = n /\ s[1].bytes = b
        BY <1>2 DEF n, b
      <4> QED
        BY <1>7, <2>8, <4>1 DEF ScanCovers, s
    <3>4. DirectoryBytes' <= left'[p]
      <4> DEFINE d == DirectoryBytes
      <4>1. d \in Nat /\ d <= left[p] /\ b \in Nat /\ left[p] \in Int
            /\ DirectoryBytes' = d - b /\ left'[p] = left[p] - b
        BY <1>1, <1>2, <2>5, <2>6, <2>8, <3>3 DEF ScanCovers
      <4> HIDE DEF d
      <4> QED
        BY <4>1
    <3> QED
      BY <1>4, <2>3, <3>1, <3>2, <3>4 DEF ScanCovers
  <2> QED
    BY <1>1, <1>3, <1>4, <2>5, <2>6, <2>7, <2>8 DEF TrimIInv
<1> QED
  BY <1>6, <1>7

LEMMA NextTrim ==
  ASSUME LinkAssumption, LinkIInv, DirectoryIInv, DirectoryIInv', TrimIInv, [LinkNext]_linkVars
  PROVE  TrimIInv'
<1>1. ASSUME UNCHANGED <<trimming, grown, directory>>,
             \A t \in Linkers : linkPc'[t] = "unlink" => linkPc[t] = "unlink"
      PROVE  TrimIInv'
  BY <1>1, TrimStays DEF directory
<1>2. CASE UNCHANGED linkVars
  BY <1>1, <1>2 DEF linkVars
<1>3. ASSUME NEW t \in Linkers, \E k \in Keys : Link(t, k)
      PROVE  TrimIInv'
  BY <1>1, <1>3 DEF Link, LinkGoto, LinkIInv, HeldIsRight
<1>4. ASSUME NEW t \in Linkers, Find(t) \/ Read(t) \/ Write(t) \/ Discard(t) \/ Add(t)
      PROVE  TrimIInv'
  <2>1. /\ UNCHANGED <<trimming, grown, directory>>
        /\ \E label \in {"done", "read", "add", "store", "touch", "rename"} : LinkGoto(t, label)
    BY <1>4 DEF Find, Read, Write, Discard, Add, Compile
  <2>2. \A u \in Linkers : linkPc'[u] = "unlink" => linkPc[u] = "unlink"
    BY <2>1 DEF LinkGoto, LinkIInv, HeldIsRight
  <2> QED
    BY <1>1, <2>1, <2>2
<1>5. ASSUME NEW t \in Linkers, Touch(t)
      PROVE  TrimIInv'
  <2>1. /\ UNCHANGED <<trimming, grown, files>>
        /\ \E label \in {"add", "store"} : LinkGoto(t, label)
    BY <1>5 DEF Touch, Compile
  <2>2. \A u \in Linkers : linkPc'[u] = "unlink" => linkPc[u] = "unlink"
    BY <2>1 DEF LinkGoto, LinkIInv, HeldIsRight
  <2>3. ToSet(recency)' = ToSet(recency)
    BY <2>1 DEF DirectoryIInv, RecencyIsRight
  <2> QED
    BY <2>1, <2>2, <2>3, TrimStays
<1>6. ASSUME NEW t \in Linkers, TrimScan(t)
      PROVE  TrimIInv'
  BY <1>6, ScanStarts
<1>7. ASSUME NEW t \in Linkers, TrimUnlink(t)
      PROVE  TrimIInv'
  BY <1>7, ScanGoesOn
<1>8. ASSUME NEW t \in Linkers, TrimEnd(t)
      PROVE  TrimIInv'
  <2> DEFINE p == ProcessOf[t]
  <2>1. /\ p \in Processes /\ linkPc[t] = "unlink"
        /\ trim' = [trim EXCEPT ![p] = "done"] /\ scan' = [scan EXCEPT ![p] = << >>]
        /\ left' = [left EXCEPT ![p] = 0] /\ grown' = grown \ {p}
        /\ LinkGoto(t, "store") /\ UNCHANGED directory
    BY <1>8 DEF TrimEnd, LinkAssumption
  <2> HIDE DEF p
  <2>2. Stored' = Stored /\ DirectoryBytes' = DirectoryBytes
    BY <2>1, StoredStays DEF directory
  <2>3. /\ \A q \in Processes : trim'[q] = IF q = p THEN "done" ELSE trim[q]
        /\ \A q \in Processes \ {p} : scan'[q] = scan[q] /\ left'[q] = left[q]
        /\ \A q \in Processes \ {p} : q \notin grown' => q \notin grown
    BY <2>1 DEF DirectoryIInv, TrimIInv
  <2>4. ASSUME NEW q \in Processes \ {p}, ScanCovers(q)
        PROVE  ScanCovers(q)'
    BY <2>1, <2>2, <2>3, <2>4 DEF ScanCovers, directory
  <2>5. OneTrims'
    <3>1. \A u \in Linkers : linkPc'[u] = IF u = t THEN "store" ELSE linkPc[u]
      BY <2>1 DEF LinkGoto, LinkIInv, HeldIsRight
    <3>2. \A u \in Linkers : linkPc'[u] = "unlink" => linkPc[u] = "unlink" /\ u # t
      BY <3>1
    <3>3. \A u \in Linkers : linkPc[u] = "unlink" /\ u # t => ProcessOf[u] # p
      BY <2>1 DEF TrimIInv, OneTrims, p
    <3>4. \A u \in Linkers : ProcessOf[u] \in Processes
      BY DEF LinkAssumption
    <3>5. OneTrims
      BY DEF TrimIInv
    <3> QED
      BY <2>3, <3>2, <3>3, <3>4, <3>5 DEF OneTrims
  <2>6. << >> \in Seq([name : Names, bytes : Nat]) /\ 0 \in Int
    OBVIOUS
  <2>7. scan' \in [Processes -> Seq([name : Names, bytes : Nat])]
    BY <2>1, <2>6 DEF TrimIInv
  <2>8. left' \in [Processes -> Int]
    BY <2>1, <2>6 DEF TrimIInv
  <2>9. \A q \in Processes : trim'[q] = "running" => q # p /\ trim[q] = "running"
    BY <2>3
  <2> QED
    BY <2>2, <2>3, <2>4, <2>5, <2>7, <2>8, <2>9 DEF TrimIInv
<1>9. ASSUME NEW t \in Linkers, Rename(t)
      PROVE  TrimIInv'
  <2> DEFINE n == Path(t)
             written == [build |-> OwnBuild(t), key |-> key[t], result |-> held[t],
                         bytes |-> BytesOf[key[t]]]
  <2>1. /\ n \in Names /\ BytesOf[key[t]] \in Nat
        /\ files' = [files EXCEPT ![n] = written]
        /\ grown' = grown \cup {p \in Processes : trim[p] = "running"}
        /\ LinkGoto(t, "add") /\ UNCHANGED trimming
    BY <1>9, OwnPath DEF Rename, LinkIInv
  <2>2. written.bytes \in Nat
    BY <2>1
  <2>3. DOMAIN files = Names
    BY DEF LinkIInv, FilesAreRight
  <2>4. written # NoFile
    <3>1. held[t] = Linked(t) /\ key[t] \in Keys
      BY <1>9 DEF Rename, LinkIInv, HeldIsRight
    <3>2. OwnBuild(t) \in Builds /\ Linked(t) \in Builds \X Keys
      BY <1>9, OwnPath DEF Rename, LinkIInv
    <3>3. written \in File
      BY <2>1, <3>1, <3>2 DEF File
    <3> HIDE DEF written
    <3> QED
      BY <3>3 DEF LinkAssumption
  <2> HIDE DEF n, written
  <2>5. files'[n] = written /\ \A m \in Names \ {n} : files'[m] = files[m]
    BY <2>1, <2>3
  <2>6. ToSet(recency)' = ToSet(recency) \cup {n} /\ ToSet(recency) \subseteq Names
    <3>1. ToSet(recency)' = {m \in Names : files'[m] # NoFile}
      BY DEF DirectoryIInv, RecencyIsRight
    <3>2. ToSet(recency) = {m \in Names : files[m] # NoFile}
      BY DEF DirectoryIInv, RecencyIsRight
    <3> QED
      BY <2>1, <2>4, <2>5, <3>1, <3>2
  <2>7. IsFiniteSet(Stored)'
    BY <2>2, <2>5, <2>6, StoredGrows DEF TrimIInv
  <2>8. \A u \in Linkers : linkPc'[u] = "unlink" => linkPc[u] = "unlink"
    BY <2>1 DEF LinkGoto, LinkIInv, HeldIsRight
  <2>9. OneTrims'
    BY <2>1, <2>8, NobodyTrims DEF TrimIInv, trimming
  <2>10. \A p \in Processes : trim'[p] = "running" => p \in grown'
    BY <2>1 DEF trimming
  <2> QED
    BY <2>1, <2>7, <2>9, <2>10 DEF TrimIInv, trimming
<1>10. ASSUME NEW p \in Processes, Kill(p)
       PROVE  TrimIInv'
  <2>1. /\ linkPc' = [t \in Linkers |-> IF ProcessOf[t] = p THEN "idle" ELSE linkPc[t]]
        /\ trim' = [trim EXCEPT ![p] = "no"] /\ scan' = [scan EXCEPT ![p] = << >>]
        /\ left' = [left EXCEPT ![p] = 0] /\ grown' = grown \ {p}
        /\ UNCHANGED directory
    BY <1>10 DEF Kill
  <2>2. Stored' = Stored /\ DirectoryBytes' = DirectoryBytes
    BY <2>1, StoredStays DEF directory
  <2>3. /\ \A q \in Processes : trim'[q] = IF q = p THEN "no" ELSE trim[q]
        /\ \A q \in Processes \ {p} : scan'[q] = scan[q] /\ left'[q] = left[q]
        /\ \A q \in Processes \ {p} : q \notin grown' => q \notin grown
    BY <2>1 DEF DirectoryIInv, TrimIInv
  <2>4. ASSUME NEW q \in Processes \ {p}, ScanCovers(q)
        PROVE  ScanCovers(q)'
    BY <2>1, <2>2, <2>3, <2>4 DEF ScanCovers, directory
  <2>5. OneTrims'
    <3>1. \A u \in Linkers : linkPc'[u] = "unlink" => linkPc[u] = "unlink" /\ ProcessOf[u] # p
      BY <2>1
    <3>2. \A u \in Linkers : ProcessOf[u] \in Processes
      BY DEF LinkAssumption
    <3>3. OneTrims
      BY DEF TrimIInv
    <3> QED
      BY <2>3, <3>1, <3>2, <3>3 DEF OneTrims
  <2>6. << >> \in Seq([name : Names, bytes : Nat]) /\ 0 \in Int
    OBVIOUS
  <2>7. scan' \in [Processes -> Seq([name : Names, bytes : Nat])]
    BY <2>1, <2>6 DEF TrimIInv
  <2>8. left' \in [Processes -> Int]
    BY <2>1, <2>6 DEF TrimIInv
  <2>9. \A q \in Processes : trim'[q] = "running" => q # p /\ trim[q] = "running"
    BY <2>3
  <2> QED
    BY <2>2, <2>3, <2>4, <2>5, <2>7, <2>8, <2>9 DEF TrimIInv
<1> QED
  BY <1>2, <1>3, <1>4, <1>5, <1>6, <1>7, <1>8, <1>9, <1>10 DEF LinkNext

(* What a trim that ends leaves.                                           *)
LEMMA EndOfTrim ==
  ASSUME LinkAssumption, LinkIInv, DirectoryIInv, TrimIInv
  PROVE  TrimKeeps
<1> SUFFICES ASSUME NEW t \in Linkers, TrimEnd(t), ProcessOf[t] \notin grown
             PROVE  DirectoryBytes <= KeepBytes
  BY DEF TrimKeeps
<1> DEFINE p == ProcessOf[t]
<1>1. /\ p \in Processes /\ TrimEnough(p) /\ ScanCovers(p) /\ left[p] \in Int
  BY DEF TrimEnd, LinkAssumption, TrimIInv, OneTrims
<1>2. DirectoryBytes \in Nat /\ KeepBytes \in Nat
  BY StoredIsCounted DEF TrimIInv, LinkAssumption
<1>3. CASE left[p] <= KeepBytes
  <2> DEFINE d == DirectoryBytes
  <2>1. d <= left[p] /\ d \in Nat
    BY <1>1, <1>2 DEF ScanCovers
  <2> HIDE DEF d, p
  <2>2. d <= KeepBytes
    BY <1>1, <1>2, <1>3, <2>1
  <2> QED
    BY <2>2 DEF d
<1>4. CASE scan[p] = << >>
  <2>1. Len(scan[p]) = 0
    BY <1>4
  <2>2. ToSet(recency) = {}
    BY <1>1, <2>1 DEF ScanCovers
  <2>3. Stored = {}
    BY <2>2 DEF Stored
  <2>4. DirectoryBytes = 0
    BY <2>3, FS_EmptySet DEF DirectoryBytes
  <2> QED
    BY <1>2, <2>4
<1> QED
  BY <1>1, <1>3, <1>4 DEF TrimEnough

(* trimDirectory(), for any processes, names, sizes of files and limits: a *)
(* trim leaves no more than kKeepBytes, also when several processes trim   *)
(* at once and remove each other's files, unless somebody stored a file    *)
(* after its scan.                                                         *)
THEOREM TrimsAreBounded ==
  ASSUME LinkAssumption
  PROVE  LinkSpec => TrimBounds
<1> DEFINE Sound == LinkIInv /\ DirectoryIInv /\ TrimIInv
<1>1. LinkInit => Sound
  BY InitLink, InitDirectory, InitTrim
<1>2. Sound /\ [LinkNext]_linkVars => Sound'
  BY NextLink, NextDirectory, NextTrim
<1>3. Sound => TrimKeeps
  BY EndOfTrim
<1>4. Sound /\ [LinkNext]_linkVars => [TrimKeeps]_linkVars
  BY <1>3
<1> HIDE DEF Sound
<1> QED
  BY <1>1, <1>2, <1>4, PTL DEF LinkSpec, TrimBounds
=============================================================================

------------------------------ MODULE MCShared --------------------------------
(***************************************************************************)
(* Small instances of what several threads, processes or windows share:    *)
(* the command stream and its textures, the link cache, the programs of a  *)
(* share group, the log, the files of games that the settings application  *)
(* changes, and on the side of Wine the scaling of windows, batches of     *)
(* calls, memory below 4 GB, WGL contexts and sync handles. They share no  *)
(* state: `part` says which of them a behaviour is of, and the variables   *)
(* of the others do not change.                                            *)
(***************************************************************************)
EXTENDS CommandStream, Programs, WglContexts, LinkCache, Log, OpenMWFix,
        UpscaleImports, CallBatches, SyncHandles, TLC

CONSTANTS one, two   \* the two of what a part has two of: threads, contexts

VARIABLE part

(* Two framebuffers that share a texture. *)
MCAttachments == "x" :> {"t", "u"} @@ "y" :> {"t"}

(* Two processes with one thread each, of two builds, and two more threads *)
(* of the first; a link of k3 fails.                                       *)
MCProcessOf == ("l1" :> "p1") @@ ("l2" :> "p2") @@ (one :> "p1") @@ (two :> "p1")
MCBuildOf == ("p1" :> "b1") @@ ("p2" :> "b2")
MCPathOf == (<<"b1", "k1">> :> "n1") @@ (<<"b1", "k2">> :> "n2") @@ (<<"b1", "k3">> :> "n2")
              @@ (<<"b2", "k1">> :> "n1") @@ (<<"b2", "k2">> :> "n3") @@ (<<"b2", "k3">> :> "n3")
MCBytesOf == ("k1" :> 3) @@ ("k2" :> 1) @@ ("k3" :> 1)

MCKinds == AllKinds
MCTexts == {[length |-> 1, version |-> 1], [length |-> 3, version |-> 2]}

-----------------------------------------------------------------------------
(* What makes a part of a component smaller than its constants do. *)

\* Few calls that use both framebuffers and textures, or more that use one.
FewCalls == now' < MaxCalls
OneFramebuffer ==
  /\ "x" \notin {stream'.render, stream'.clearTarget, stream'.discardTarget}
  /\ stream'.body["u"] = <<>> /\ stream'.prelude["u"] = 0

\* The one thread of each process, and links that succeed.
TwoProcesses ==
  /\ linkPc'[one] = "idle" /\ linkPc'[two] = "idle"
  /\ \A l \in Linkers : key'[l] # "k3"

\* The threads of one process, in a directory of their own.
OneProcess == linkPc'["l1"] = "idle" /\ linkPc'["l2"] = "idle"

\* Two contexts share one program, or one goes from one program to another.
OneProgram == program'["p2"] = program["p2"]
OneUsesPrograms ==
  \E c \in Contexts : task'[c] = None /\ current'[c] = None /\ stage'[c] = None /\ c \notin closed'

\* Two windows in one mode, one of them at the left edge, that one thread at
\* a time looks at, or one window in every mode that both look at.
OneLooks ==
  /\ mode' = DesktopWidth /\ sys'["v"].x = 0
  /\ \E t \in Lookers : \A u \in Lookers \ {t} : check'[u] = NotLooking
  /\ \A h \in TopWindows : asked'[h].w \in {0, 4} /\ mine'[h] # "q" /\ (sys'[h].up => sys'[h].hooked)
OneWindow == ~sys'["v"].up

-----------------------------------------------------------------------------
all == <<part, vars, linkVars, programsVars, logVars, minecraftVars, openmwVars,
         upscaleVars, importsVars, callsVars, memoryVars, contextsVars, handlesVars>>

\* The choices of a start that a behaviour of another part does not need.
OneStart ==
  /\ part # "minecraft" => cfg = [override |-> FALSE, jvm |-> Global, ours |-> Absent] /\ glue = "sdl3"
  /\ part # "calls" => \A t \in Callers : context[t] = 1

MCInit ==
  /\ part \in {"stream", "one framebuffer", "links", "threads", "programs", "switching", "log", "minecraft",
              "openmw", "upscale", "one window", "imports", "calls", "memory", "contexts",
              "handles"}
  /\ Init /\ ProgramsInit /\ ContextsInit /\ LinkInit /\ LogInit
  /\ MinecraftInit /\ OpenMWInit /\ UpscaleInit /\ ImportsInit
  /\ CallsInit /\ MemoryInit /\ HandlesInit
  /\ OneStart

MCNext ==
  /\ UNCHANGED part
  /\ \/ /\ part = "stream" /\ Next /\ FewCalls
        /\ UNCHANGED <<linkVars, programsVars, logVars, minecraftVars, openmwVars, upscaleVars,
                       importsVars, callsVars, memoryVars, contextsVars, handlesVars>>
     \/ /\ part = "one framebuffer" /\ Next /\ OneFramebuffer
        /\ UNCHANGED <<linkVars, programsVars, logVars, minecraftVars, openmwVars, upscaleVars,
                       importsVars, callsVars, memoryVars, contextsVars, handlesVars>>
     \/ /\ part = "links" /\ LinkNext /\ TwoProcesses
        /\ UNCHANGED <<vars, programsVars, logVars, minecraftVars, openmwVars, upscaleVars,
                       importsVars, callsVars, memoryVars, contextsVars, handlesVars>>
     \/ /\ part = "threads" /\ LinkNext /\ OneProcess
        /\ UNCHANGED <<vars, programsVars, logVars, minecraftVars, openmwVars, upscaleVars,
                       importsVars, callsVars, memoryVars, contextsVars, handlesVars>>
     \/ /\ part = "programs" /\ ProgramsNext /\ OneProgram
        /\ UNCHANGED <<vars, linkVars, logVars, minecraftVars, openmwVars, upscaleVars,
                       importsVars, callsVars, memoryVars, contextsVars, handlesVars>>
     \/ /\ part = "switching" /\ ProgramsNext /\ OneUsesPrograms
        /\ UNCHANGED <<vars, linkVars, logVars, minecraftVars, openmwVars, upscaleVars,
                       importsVars, callsVars, memoryVars, contextsVars, handlesVars>>
     \/ /\ part = "log" /\ LogNext
        /\ UNCHANGED <<vars, linkVars, programsVars, minecraftVars, openmwVars, upscaleVars,
                       importsVars, callsVars, memoryVars, contextsVars, handlesVars>>
     \/ /\ part = "minecraft" /\ MinecraftNext
        /\ UNCHANGED <<vars, linkVars, programsVars, logVars, openmwVars, upscaleVars,
                       importsVars, callsVars, memoryVars, contextsVars, handlesVars>>
     \/ /\ part = "openmw" /\ OpenMWNext
        /\ UNCHANGED <<vars, linkVars, programsVars, logVars, minecraftVars, upscaleVars,
                       importsVars, callsVars, memoryVars, contextsVars, handlesVars>>
     \/ /\ part = "upscale" /\ UpscaleNext /\ OneLooks
        /\ UNCHANGED <<vars, linkVars, programsVars, logVars, minecraftVars, openmwVars,
                       importsVars, callsVars, memoryVars, contextsVars, handlesVars>>
     \/ /\ part = "one window" /\ UpscaleNext /\ OneWindow
        /\ UNCHANGED <<vars, linkVars, programsVars, logVars, minecraftVars, openmwVars,
                       importsVars, callsVars, memoryVars, contextsVars, handlesVars>>
     \/ /\ part = "imports" /\ ImportsNext
        /\ UNCHANGED <<vars, linkVars, programsVars, logVars, minecraftVars, openmwVars,
                       upscaleVars, callsVars, memoryVars, contextsVars, handlesVars>>
     \/ /\ part = "calls" /\ CallsNext
        /\ UNCHANGED <<vars, linkVars, programsVars, logVars, minecraftVars, openmwVars,
                       upscaleVars, importsVars, memoryVars, contextsVars, handlesVars>>
     \/ /\ part = "memory" /\ MemoryNext
        /\ UNCHANGED <<vars, linkVars, programsVars, logVars, minecraftVars, openmwVars,
                       upscaleVars, importsVars, callsVars, contextsVars, handlesVars>>
     \/ /\ part = "contexts" /\ ContextsNext
        /\ UNCHANGED <<vars, linkVars, programsVars, logVars, minecraftVars, openmwVars,
                       upscaleVars, importsVars, callsVars, memoryVars, handlesVars>>
     \/ /\ part = "handles" /\ HandlesNext
        /\ UNCHANGED <<vars, linkVars, programsVars, logVars, minecraftVars, openmwVars,
                       upscaleVars, importsVars, callsVars, memoryVars, contextsVars>>

MCSpec == MCInit /\ [][MCNext]_all

(* The command stream alone. *)
StreamSpec == MCInit /\ part = "one framebuffer" /\ [][MCNext]_all

ASSUME SharedAssumption ==
  /\ ProgramsAssumption /\ WglAssumption /\ LinkAssumption /\ LogAssumption
  /\ GamesAssumption /\ UpscaleAssumption /\ ImportsAssumption /\ CallsAssumption
  /\ MemoryAssumption /\ HandlesAssumption

Sym == Permutations({one, two})
===============================================================================

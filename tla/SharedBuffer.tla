----------------------------- MODULE SharedBuffer -----------------------------
(***************************************************************************)
(* api/buffer.mm and the users of core::Buffer (objects.h): one buffer     *)
(* object, used by the contexts of a share group.  Its storage is shared   *)
(* memory: the CPU writes it while command buffers that read or write it   *)
(* are recorded or run.  An update of a buffer the GPU still uses renames  *)
(* it (new storage, or storage retired earlier), copies through staging    *)
(* memory in command order, or waits; serials of the last use and write,   *)
(* a shadow copy and scans keyed by a version decide what is current.      *)
(*                                                                         *)
(* Contents are the number of the call that wrote them, per part.  value   *)
(* is what GL says the contents are after the calls so far.  Every call    *)
(* runs under the share group's lock; a call that waits for the GPU is two *)
(* steps, between which the lock is kept or (waitForGpuUnlocked) released. *)
(* Sizes are one of two classes (large), storage never changes size.       *)
(***************************************************************************)
EXTENDS Integers, Sequences

CONSTANTS Contexts,      \* contexts of the share group, a thread each
          Storages,      \* Metal buffers there is memory for
          None,          \* no storage, no call
          Parts,         \* parts of the buffer an update may leave alone
          Ranges,        \* the parts a call may name
          InTurn,        \* contexts flush before another one uses the buffer
          MaxRetired,    \* Buffer::kMaxRetired (4 in the code)
          MaxCalls       \* bound: API calls in a behaviour

ASSUME BufferAssumption ==
  /\ None \notin Storages /\ Ranges \subseteq (SUBSET Parts) \ {{}}
  /\ InTurn \in BOOLEAN
  /\ MaxRetired \in Nat \ {0} /\ MaxCalls \in Nat

VARIABLES buffer,   \* the Buffer
          content,  \* what each storage holds
          value,    \* what GL says the buffer holds
          stream,   \* each context's command buffer being recorded
          queue,    \* command buffers committed, not complete, in order
          next,     \* the next serial
          waiting,  \* the call each context waits in
          now,      \* the number of API calls so far
          spoiled   \* history: what a call has left stale (see Spoilable)

vars == <<buffer, content, value, stream, queue, next, waiting, now, spoiled>>

(* What three calls of the code are known to leave stale. "contents": a    *)
(* glUnmapBuffer whose blit committed a deferred glFlush took the serial   *)
(* before, so that nothing waits for its copy. "shadow": a result written  *)
(* by the CPU (glReadPixels, a query) is not in the shadow there was, until *)
(* a shadow is started anew. "scan": a buffer deleted while mapped for     *)
(* writing keeps its version, until it is scanned again.                   *)
Spoilable == {"contents", "shadow", "scan"}

Unknown      == -1                          \* undefined contents
Calls    == 0 .. MaxCalls
Contents == [Parts -> Calls \cup {Unknown}]
Retired  == [mtl : Storages, serial : Nat]
Command  == [use : {"read", "write", "copy"}, from : Storages, to : Storages,
             parts : SUBSET Parts, values : Contents]
Recorded == [serial : Nat, commands : Seq(Command)]
Mapping  == [range : SUBSET Parts, writes : BOOLEAN, pointer : Storages \cup {None},
             staging : Storages \cup {None}]
Buffers  == [large : BOOLEAN,     \* over 256 KiB (and 4 MiB, up to 64 MiB), or below
             immutable : BOOLEAN, \* glBufferStorage, with GL_DYNAMIC_STORAGE_BIT
             mtl : Storages, lastUse : Nat, lastWrite : Nat, version : Nat,
             retired : Seq(Retired), retiredStaging : Seq(Retired),
             map : Mapping, shadowValid : BOOLEAN, shadow : Contents,
             scanVersion : Nat, scan : Contents]

Unmapped  == [range |-> {}, writes |-> FALSE, pointer |-> None, staging |-> None]
Undefined == [p \in Parts |-> Unknown]
NoBuffer  == [serial |-> 0, commands |-> <<>>]
Maps      == {"read", "write", "invalidateRange", "invalidateBuffer"}
Call      == [name : {"draw", "subData", "invalidate", "pack"} \cup Maps,
              range : SUBSET Parts]
Wait      == [call : Call, at : Calls, fresh : Storages \cup {None}, renames : BOOLEAN,
              serial : Nat]

TypeOK ==
  /\ buffer \in Buffers
  /\ Len(buffer.retired) <= MaxRetired /\ Len(buffer.retiredStaging) <= MaxRetired
  /\ content \in [Storages -> Contents] /\ value \in Contents
  /\ stream \in [Contexts -> Recorded] /\ queue \in Seq(Recorded) /\ next \in Nat
  /\ waiting \in [Contexts -> Wait \cup {None}]
  /\ now \in Calls /\ spoiled \subseteq Spoilable

Init ==
  /\ \E s \in Storages, large, immutable \in BOOLEAN :
       buffer = [large |-> large, immutable |-> immutable, mtl |-> s, lastUse |-> 0, lastWrite |-> 0, version |-> 1,
                 retired |-> <<>>, retiredStaging |-> <<>>, map |-> Unmapped,
                 shadowValid |-> FALSE, shadow |-> Undefined,
                 scanVersion |-> 0, scan |-> Undefined]
  /\ content = [s \in Storages |-> [p \in Parts |-> 0]]
  /\ value = [p \in Parts |-> 0]
  /\ stream = [c \in Contexts |-> NoBuffer] /\ queue = <<>> /\ next = 1
  /\ waiting = [c \in Contexts |-> None]
  /\ now = 0 /\ spoiled = {}

-----------------------------------------------------------------------------
(* Queue::isComplete(), and whether wait() blocks: not for a serial that   *)
(* another context has reserved.                                           *)
Reserved(s)  == s # 0 /\ \E c \in Contexts : stream[c].serial = s
Committed(s) == \E i \in DOMAIN queue : queue[i].serial = s
Complete(s)  == ~Reserved(s) /\ ~Committed(s)

(* Mutant: a wait is for whatever is not complete. *)
BlocksUntilComplete(s) == ~Complete(s)

Blocks(s) == Committed(s)

Busy   == ~Complete(buffer.lastUse)     \* gpuBusy()
Mapped == buffer.map # Unmapped

(* Contents a with the parts ps at call n. *)
Mark(a, ps, n) == [p \in Parts |-> IF p \in ps THEN n ELSE a[p]]

(* Contents a with the parts ps of b. *)
Merge(a, ps, b) == [p \in Parts |-> IF p \in ps THEN b[p] ELSE a[p]]

(* Storage in use: by the buffer, by its pools, by a call, or by commands. *)
Kept ==
  LET ofCommands(r) == UNION {{r.commands[i].from, r.commands[i].to} : i \in DOMAIN r.commands}
      ofPool(pool)  == {pool[i].mtl : i \in DOMAIN pool}
  IN {buffer.mtl, buffer.map.staging}
       \cup ofPool(buffer.retired) \cup ofPool(buffer.retiredStaging)
       \cup {waiting[c].fresh : c \in {d \in Contexts : waiting[d] # None}}
       \cup (UNION {ofCommands(stream[c]) : c \in Contexts})
       \cup (UNION {ofCommands(queue[i]) : i \in DOMAIN queue})

(* Mutant: retired storage is reused whether the GPU has done with it. *)
ReusableAnyTime(pool, i) == i \in DOMAIN pool

(* Retired storage whose last GPU use has completed; ... *)
Reusable(pool, i) == i \in DOMAIN pool /\ Complete(pool[i].serial)

(* ... takeRetired(): the first of it; newStorage(): else new storage, if  *)
(* there is memory.                                                        *)
Fresh(pool) ==
  LET first == {i \in DOMAIN pool : /\ Reusable(pool, i)
                                    /\ \A j \in DOMAIN pool : j < i => ~Reusable(pool, j)}
      new   == Storages \ Kept
  IN IF first # {} THEN {pool[i].mtl : i \in first}
     ELSE IF new # {} THEN new ELSE {None}

(* The storage s leaves the pool it was taken from. *)
Without(pool, s) ==
  IF \A i \in DOMAIN pool : pool[i].mtl # s THEN pool
  ELSE LET i == CHOOSE i \in DOMAIN pool : pool[i].mtl = s
       IN SubSeq(pool, 1, i - 1) \o SubSeq(pool, i + 1, Len(pool))

(* retire(): the oldest goes when the pool is full. *)
Retire(pool, s, serial) ==
  Append(IF Len(pool) >= MaxRetired THEN Tail(pool) ELSE pool, [mtl |-> s, serial |-> serial])

(* rename() once its waits are over; fresh is the storage it took, if any. *)
Renamed(b, fresh, keep) ==
  IF fresh = None THEN [b EXCEPT !.version = @ + 1]
  ELSE [b EXCEPT !.mtl = fresh, !.lastUse = 0, !.lastWrite = 0, !.version = @ + 1,
                 !.retired = IF b.lastUse = 0 THEN Without(@, fresh)
                             ELSE Retire(Without(@, fresh), b.mtl, b.lastUse),
                 !.shadowValid = @ /\ keep]

(* What the storages hold then: all but the parts skipped is copied. *)
RenamedContent(fresh, keep, skip) ==
  IF fresh = None \/ ~keep THEN content
  ELSE [content EXCEPT ![fresh] = Merge(content[buffer.mtl], skip, content[fresh])]

(* shadowWrite(). *)
ShadowWritten(b, ps, from) ==
  [b EXCEPT !.shadow = IF b.shadowValid THEN Merge(@, ps, from) ELSE @]

(* The command buffer s writes the buffer. *)
GpuWritten(b, s) == [b EXCEPT !.lastUse = s, !.lastWrite = s, !.version = @ + 1]

-----------------------------------------------------------------------------
(* A context's command buffer: serial(), recording, blit(true), flush().   *)
Opened(c) ==
  IF stream[c].serial # 0 THEN stream[c] ELSE [serial |-> next, commands |-> <<>>]

NextSerial(c) == IF stream[c].serial # 0 THEN next ELSE next + 1

Record(c, command) ==
  /\ stream' = [stream EXCEPT ![c] = [Opened(c) EXCEPT !.commands = Append(@, command)]]
  /\ next' = NextSerial(c)
  /\ UNCHANGED queue

(* blit(true) commits a glFlush that was deferred before it records. *)
Blit(c, command) ==
  \/ Record(c, command)
  \/ /\ queue' = Append(queue, Opened(c))
     /\ stream' = [stream EXCEPT ![c] = [serial |-> NextSerial(c), commands |-> <<command>>]]
     /\ next' = NextSerial(c) + 1

GpuWriteOf(ps, values) ==
  [use |-> "write", from |-> buffer.mtl, to |-> buffer.mtl, parts |-> ps, values |-> values]

Flush(c) ==
  IF stream[c].serial = 0 THEN UNCHANGED <<stream, queue>>
  ELSE /\ queue' = Append(queue, stream[c])
       /\ stream' = [stream EXCEPT ![c] = NoBuffer]

NoCommands == UNCHANGED <<stream, queue, next>>

(* waitForGpuUnlocked: MapBufferRange waits without the share group's lock. *)
WaitsUnlocked(w) == w.call.name \in Maps /\ ~w.renames

LockFree == \A d \in Contexts : waiting[d] # None => WaitsUnlocked(waiting[d])

CanCall(c) ==
  /\ now < MaxCalls
  /\ waiting[c] = None /\ LockFree
  /\ InTurn => \A d \in Contexts \ {c} : stream[d].serial = 0 /\ waiting[d] = None

-----------------------------------------------------------------------------
(* What the calls do once they have waited: w is the call, with what it    *)
(* found and took before.                                                  *)

(* Indices scanned for this version of the contents are not read again. *)
Scanned == buffer.scanVersion = buffer.version

(* drawElements: the indices are scanned, from the shadow if there is one, *)
(* which a wait for GPU writes starts; then the GPU reads the buffer.      *)
DrawRest(c, waited) ==
  LET started == IF waited THEN [buffer EXCEPT !.shadow = content[buffer.mtl],
                                               !.shadowValid = TRUE] ELSE buffer
      scanned == IF Scanned THEN buffer
                 ELSE [started EXCEPT !.scanVersion = buffer.version,
                         !.scan = IF started.shadowValid THEN started.shadow
                                  ELSE content[buffer.mtl]]
      stale   == IF waited /\ ~Scanned THEN spoiled \ {"shadow"} ELSE spoiled IN
  /\ Record(c, [use |-> "read", from |-> buffer.mtl, to |-> buffer.mtl, parts |-> Parts,
                values |-> value])
  /\ buffer' = [scanned EXCEPT !.lastUse = stream'[c].serial]
  /\ spoiled' = IF Scanned THEN spoiled
                ELSE IF started.shadowValid /\ "shadow" \in stale THEN stale \cup {"scan"}
                ELSE stale \ {"scan"}
  /\ UNCHANGED <<content, value>>

(* BufferSubData into the buffer's storage, renamed or not used by the GPU. *)
SubDataRest(w) ==
  LET ps    == w.call.range
      keep  == ps # Parts
      named == IF w.renames THEN Renamed(buffer, w.fresh, keep) ELSE buffer
      held  == IF w.renames THEN RenamedContent(w.fresh, keep, ps) ELSE content IN
  /\ content' = [held EXCEPT ![named.mtl] = Mark(@, ps, w.at)]
  /\ buffer' = [ShadowWritten(named, ps, Mark(Undefined, ps, w.at)) EXCEPT !.version = @ + 1]
  /\ value' = Mark(value, ps, w.at)
  /\ NoCommands /\ UNCHANGED spoiled

(* orphanBuffer(): the contents are undefined from here on. *)
InvalidateRest(w) ==
  /\ buffer' = Renamed(buffer, w.fresh, FALSE)
  /\ value' = Undefined
  /\ NoCommands /\ UNCHANGED <<content, spoiled>>

(* A result the CPU writes into a pixel pack or query buffer. *)
PackRest(w) ==
  /\ content' = [content EXCEPT ![buffer.mtl] = Mark(@, w.call.range, w.at)]
  /\ buffer' = [buffer EXCEPT !.version = @ + 1]
  /\ value' = Mark(value, w.call.range, w.at)
  /\ spoiled' = IF buffer.shadowValid THEN spoiled \cup {"shadow"} ELSE spoiled
  /\ NoCommands

(* Mutant: the buffer is not looked at again after the wait. *)
MapsAnyway == FALSE

(* Another context may have mapped the buffer during the wait. *)
MappedMeanwhile == Mapped

(* MapBufferRange of the buffer's storage. *)
MapRest(w) ==
  LET name    == w.call.name
      keep    == name = "invalidateRange"
      dropped == IF name = "invalidateBuffer" THEN Parts
                 ELSE IF keep THEN w.call.range ELSE {}
      named   == IF w.renames THEN Renamed(buffer, w.fresh, keep) ELSE buffer IN
  /\ IF MappedMeanwhile THEN UNCHANGED <<buffer, content, value>>
     ELSE /\ content' = IF w.renames THEN RenamedContent(w.fresh, keep, w.call.range)
                        ELSE content
          /\ buffer' = [named EXCEPT
               !.map = [range |-> w.call.range, writes |-> name # "read",
                        pointer |-> named.mtl, staging |-> None],
               !.shadowValid = @ /\ name = "read"]
          /\ value' = Mark(value, dropped, Unknown)
  /\ NoCommands /\ UNCHANGED spoiled

Rest(c, w, waited) ==
  CASE w.call.name = "draw"       -> DrawRest(c, waited)
    [] w.call.name = "subData"    -> SubDataRest(w)
    [] w.call.name = "invalidate" -> InvalidateRest(w)
    [] w.call.name = "pack"       -> PackRest(w)
    [] OTHER                      -> MapRest(w)

-----------------------------------------------------------------------------
(* Mutant: rename() does not wait for queued GPU writes. *)
RenameWaitsForUse(call, fresh) == IF fresh = None THEN buffer.lastUse ELSE 0

(* rename() without memory waits for the GPU's last use; to copy contents, *)
(* for its last write.                                                     *)
RenameWaits(call, fresh) ==
  IF fresh = None THEN buffer.lastUse
  ELSE IF call.name = "invalidateRange" \/ (call.name = "subData" /\ call.range # Parts)
    THEN buffer.lastWrite ELSE 0

(* What a call on the buffer's own storage waits for. *)
StorageWaits(call) ==
  CASE call.name = "draw"    -> IF Scanned \/ buffer.shadowValid THEN 0 ELSE buffer.lastWrite
    [] call.name = "read"    -> IF Busy THEN buffer.lastWrite ELSE 0
    [] call.name = "subData" -> 0
    [] OTHER                 -> buffer.lastUse

(* waitFor() and waitForGpuUnlocked() commit what they wait for. *)
Suspend(c, w) ==
  /\ IF stream[c].serial = w.serial \/ (WaitsUnlocked(w) /\ Reserved(w.serial))
       THEN Flush(c) ELSE UNCHANGED <<stream, queue>>
  /\ waiting' = [waiting EXCEPT ![c] = w]
  /\ UNCHANGED <<buffer, content, value, next, spoiled>>

(* A call that renames the buffer or not, and waits if it must. *)
Begin(c, call, renames) ==
  \E fresh \in IF renames THEN Fresh(buffer.retired) ELSE {None} :
    LET serial == IF renames THEN RenameWaits(call, fresh) ELSE StorageWaits(call)
        w      == [call |-> call, at |-> now + 1, fresh |-> fresh, renames |-> renames,
                   serial |-> serial] IN
    /\ now' = now + 1
    /\ IF Complete(serial) THEN Rest(c, w, FALSE) /\ UNCHANGED waiting ELSE Suspend(c, w)

(* The GPU is done, or the wait was for a serial another context records. *)
Resume(c) ==
  /\ waiting[c] # None /\ ~Blocks(waiting[c].serial)
  /\ \A d \in Contexts \ {c} : waiting[d] # None => WaitsUnlocked(waiting[d])
  /\ waiting' = [waiting EXCEPT ![c] = None]
  /\ Rest(c, waiting[c], TRUE)
  /\ UNCHANGED now

-----------------------------------------------------------------------------
(* The API calls. *)

Draw(c) ==
  /\ CanCall(c) /\ ~Mapped
  /\ Begin(c, [name |-> "draw", range |-> Parts], FALSE)

(* Small or whole-buffer updates are copy-on-write ... *)
SubDataRenames(ps) == Busy /\ ~buffer.immutable /\ ~Mapped /\ (ps = Parts \/ ~buffer.large)

SubData(c, ps) ==
  /\ CanCall(c) /\ ps \cap buffer.map.range = {}
  /\ SubDataRenames(ps) \/ ~Busy
  /\ Begin(c, [name |-> "subData", range |-> ps], SubDataRenames(ps))

(* ... others an ordered GPU copy from staging memory. *)
SubDataCopied(c, ps) ==
  /\ CanCall(c) /\ ps \cap buffer.map.range = {}
  /\ Busy /\ ~SubDataRenames(ps)
  /\ Blit(c, GpuWriteOf(ps, Mark(Undefined, ps, now + 1)))
  /\ buffer' = GpuWritten(ShadowWritten(buffer, ps, Mark(Undefined, ps, now + 1)),
                          stream'[c].serial)
  /\ value' = Mark(value, ps, now + 1)
  /\ now' = now + 1
  /\ UNCHANGED <<content, waiting, spoiled>>

(* BufferData of the same size: orphaning, if the GPU uses the storage.    *)
(* Without memory (buffer.mm:445) the buffer is left empty, with which a   *)
(* behaviour ends here.                                                    *)
Data(c) ==
  /\ CanCall(c) /\ ~buffer.immutable
  /\ LET unmapped == [buffer EXCEPT !.map = Unmapped, !.shadowValid = FALSE,
                                    !.version = @ + 1] IN
     \E mtl \in IF Busy THEN Fresh(buffer.retired) \ {None} ELSE {buffer.mtl} :
        /\ content' = [content EXCEPT ![mtl] = Mark(@, Parts, now + 1)]
        /\ buffer' =
             IF ~Busy THEN unmapped
             ELSE [unmapped EXCEPT !.mtl = mtl, !.lastUse = 0, !.lastWrite = 0,
                     !.retired = Retire(Without(@, mtl), buffer.mtl, buffer.lastUse)]
  /\ value' = Mark(value, Parts, now + 1)
  /\ now' = now + 1
  /\ NoCommands /\ UNCHANGED <<waiting, spoiled>>

Invalidate(c) ==
  /\ CanCall(c) /\ ~Mapped /\ Busy
  /\ Begin(c, [name |-> "invalidate", range |-> Parts], TRUE)

Pack(c, ps) ==
  /\ CanCall(c) /\ ~Mapped
  /\ Begin(c, [name |-> "pack", range |-> ps], FALSE)

(* CopyBufferSubData into the buffer: the shadow takes bytes the CPU knows. *)
CopyShadow(b, ps, known, n) ==
  IF known THEN ShadowWritten(b, ps, Mark(Undefined, ps, n))
  ELSE [b EXCEPT !.shadowValid = FALSE]

(* The GPU writes the buffer: a copy, whose source may be current on the   *)
(* CPU, or (known FALSE) a clear, a pixel transfer or shader stores.       *)
GpuWrite(c, ps, known) ==
  /\ CanCall(c) /\ ~Mapped
  /\ LET starts  == known /\ ~buffer.shadowValid /\ buffer.lastUse = 0 /\ ~buffer.large
         started == IF starts THEN [buffer EXCEPT !.shadow = content[buffer.mtl],
                                                  !.shadowValid = TRUE] ELSE buffer IN
     /\ Blit(c, GpuWriteOf(ps, Mark(Undefined, ps, now + 1)))
     /\ buffer' = GpuWritten(CopyShadow(started, ps, known, now + 1), stream'[c].serial)
     /\ spoiled' = IF starts THEN spoiled \ {"shadow"} ELSE spoiled
  /\ value' = Mark(value, ps, now + 1)
  /\ now' = now + 1
  /\ UNCHANGED <<content, waiting>>

(* MapBufferRange, of the buffer's storage, renamed where it may be, ... *)
Stages(name) == name = "invalidateRange" /\ Busy /\ buffer.large /\ ~buffer.immutable

MapRenames(name) ==
  name \in {"invalidateRange", "invalidateBuffer"} /\ Busy /\ ~buffer.immutable

Map(c, ps, name) ==
  /\ CanCall(c) /\ ~Mapped
  /\ Stages(name) => Fresh(buffer.retiredStaging) = {None}
  /\ Busy \/ name \in {"read", "write"}
  /\ Begin(c, [name |-> name, range |-> ps], MapRenames(name))

(* ... or of staging memory, while the GPU uses a large buffer. *)
MapStaged(c, ps) ==
  /\ CanCall(c) /\ ~Mapped /\ Stages("invalidateRange")
  /\ \E staging \in Fresh(buffer.retiredStaging) \ {None} :
       buffer' = [buffer EXCEPT
         !.map = [range |-> ps, writes |-> TRUE, pointer |-> staging, staging |-> staging],
         !.retiredStaging = Without(@, staging)]
  /\ value' = Mark(value, ps, Unknown)
  /\ now' = now + 1
  /\ NoCommands /\ UNCHANGED <<content, waiting, spoiled>>

(* The application writes through the pointer it was given. *)
WriteMapped(p) ==
  /\ now < MaxCalls
  /\ Mapped /\ buffer.map.writes /\ p \in buffer.map.range
  /\ content' = [content EXCEPT ![buffer.map.pointer] = Mark(@, {p}, now + 1)]
  /\ value' = Mark(value, {p}, now + 1)
  /\ now' = now + 1
  /\ NoCommands /\ UNCHANGED <<buffer, waiting, spoiled>>

(* UnmapBuffer, of the buffer's storage, ... *)
Unmap(c) ==
  /\ CanCall(c) /\ Mapped /\ buffer.map.staging = None
  /\ buffer' = [buffer EXCEPT !.map = Unmapped, !.version = @ + 1]
  /\ now' = now + 1
  /\ NoCommands /\ UNCHANGED <<content, value, waiting, spoiled>>

(* ... and of staging memory, which is copied into place: the serial is    *)
(* taken before the blit encoder.                                          *)
UnmapStaged(c) ==
  /\ CanCall(c) /\ Mapped /\ buffer.map.staging # None
  /\ LET map    == buffer.map
         serial == Opened(c).serial
         copied == GpuWritten(ShadowWritten(buffer, map.range, content[map.staging]), serial) IN
     /\ Blit(c, [use |-> "copy", from |-> map.staging, to |-> buffer.mtl,
                 parts |-> map.range, values |-> value])
     /\ spoiled' = IF queue' = queue THEN spoiled ELSE spoiled \cup {"contents"}
     /\ buffer' = [copied EXCEPT !.map = Unmapped,
                                 !.retiredStaging = Retire(@, map.staging, serial)]
  /\ now' = now + 1
  /\ UNCHANGED <<content, value, waiting>>

(* DeleteBuffers: unmapped; another vertex array still holds the buffer. *)
Delete(c) ==
  /\ CanCall(c) /\ Mapped
  /\ buffer' = [buffer EXCEPT !.map = Unmapped]
  /\ value' = IF buffer.map.staging = None THEN value ELSE Mark(value, buffer.map.range, Unknown)
  /\ spoiled' = IF Scanned /\ buffer.map.writes /\ buffer.map.staging = None
                THEN spoiled \cup {"scan"} ELSE spoiled
  /\ now' = now + 1
  /\ NoCommands /\ UNCHANGED <<content, waiting>>

(* glFlush, glFinish, or another commit of the context's commands. *)
Commit(c) ==
  /\ waiting[c] = None /\ LockFree /\ stream[c].serial # 0
  /\ Flush(c)
  /\ UNCHANGED <<buffer, content, value, next, waiting, now, spoiled>>

-----------------------------------------------------------------------------
(* The GPU runs the next command, or completes a command buffer. *)
Oldest == Head(queue).commands

RunCommand ==
  /\ queue # <<>> /\ Oldest # <<>>
  /\ LET k == Head(Oldest) IN
     content' = CASE k.use = "write" -> [content EXCEPT ![k.to] = Merge(@, k.parts, k.values)]
                  [] k.use = "copy"  -> [content EXCEPT ![k.to] = Merge(@, k.parts, content[k.from])]
                  [] OTHER           -> content
  /\ queue' = [queue EXCEPT ![1].commands = Tail(@)]
  /\ UNCHANGED <<buffer, value, stream, next, waiting, now, spoiled>>

CompleteOldest ==
  /\ queue # <<>> /\ Oldest = <<>>
  /\ queue' = Tail(queue)
  /\ UNCHANGED <<buffer, content, value, stream, next, waiting, now, spoiled>>

Done ==
  /\ now = MaxCalls /\ queue = <<>>
  /\ \A c \in Contexts : stream[c].serial = 0 /\ waiting[c] = None
  /\ UNCHANGED vars

Next ==
  \/ \E c \in Contexts :
       \/ Draw(c) \/ Data(c) \/ Invalidate(c) \/ Unmap(c) \/ UnmapStaged(c) \/ Delete(c)
       \/ \E ps \in Ranges :
            \/ SubData(c, ps) \/ SubDataCopied(c, ps) \/ Pack(c, ps) \/ MapStaged(c, ps)
            \/ \E known \in BOOLEAN : GpuWrite(c, ps, known)
            \/ \E name \in Maps : Map(c, ps, name)
       \/ Resume(c) \/ Commit(c)
  \/ \E p \in Parts : WriteMapped(p)
  \/ RunCommand \/ CompleteOldest
  \/ Done

(* The GPU runs what was committed, and a thread whose wait is over goes   *)
(* on.  No context need flush: it may be waiting for the lock.             *)
Fairness ==
  /\ WF_vars(RunCommand) /\ WF_vars(CompleteOldest)
  /\ \A c \in Contexts : WF_vars(Resume(c))

Spec == Init /\ [][Next]_vars
FairSpec == Spec /\ Fairness

-----------------------------------------------------------------------------
(* What the GPU reads is what the buffer held when the command was         *)
(* recorded: no CPU write, renaming or reuse of storage reaches commands   *)
(* recorded before it ("so in-flight work keeps the old contents").        *)
ReadsCurrent ==
  "contents" \notin spoiled /\ queue # <<>> /\ Oldest # <<>> /\ Head(Oldest).use \in {"read", "copy"} =>
    LET k == Head(Oldest) IN
    \A p \in k.parts : k.values[p] \in {Unknown, content[k.from][p]}

(* Once lastWriteSerial is complete the storage holds the contents: CPU    *)
(* reads wait for that one.                                                *)
ContentsCurrent ==
  "contents" \notin spoiled /\ Complete(buffer.lastWrite) =>
    \A p \in Parts \ (IF buffer.map.staging = None THEN {} ELSE buffer.map.range) :
      value[p] \in {Unknown, content[buffer.mtl][p]}

(* The shadow is "kept up to date by the CPU's writes; any other GPU write *)
(* or respecification invalidates it".                                     *)
ShadowCurrent ==
  spoiled \cap {"contents", "shadow"} = {} /\ buffer.shadowValid =>
    \A p \in Parts \ (IF buffer.map.staging = None THEN {} ELSE buffer.map.range) :
      value[p] \in {Unknown, buffer.shadow[p]}

(* version is "incremented whenever the contents change (keys derived      *)
(* caches)": what was scanned at this version is what would be now.        *)
ScanCurrent ==
  spoiled \cap {"contents", "scan"} = {} /\ Scanned /\ ~Mapped =>
    \A p \in Parts : value[p] \in {Unknown, buffer.scan[p]}

(* Every copy of the contents is current: the storage, the shadow and what *)
(* was scanned; no more storages are retired than MaxRetired.              *)
CopiesCurrent == TypeOK /\ ContentsCurrent /\ ShadowCurrent /\ ScanCurrent

(* The pointer the application has is into the buffer, or into its staging *)
(* memory.                                                                 *)
MapPointsAtBuffer ==
  Mapped => buffer.map.pointer \in {buffer.mtl, buffer.map.staging}

(* A call that waits to rename the buffer keeps the lock, and found the    *)
(* buffer unmapped.                                                        *)
Renames(w) == w.renames \/ w.call.name = "invalidate"

RenamesUnmapped ==
  \A c \in Contexts : waiting[c] # None /\ Renames(waiting[c]) => ~Mapped

IInv == TypeOK /\ MapPointsAtBuffer /\ RenamesUnmapped

(* A mapping lasts, and points at the buffer, until it is unmapped or the  *)
(* buffer respecified: no other call, of whichever context, replaces it or *)
(* the storage under it.                                                   *)
MappingLasts ==
  []MapPointsAtBuffer /\ [][Mapped => buffer'.map \in {buffer.map, Unmapped}]_vars

(* A call that waits for the GPU returns, though it may hold the share     *)
(* group's lock and wait for a serial another context has yet to commit.   *)
CallsReturn == \A c \in Contexts : waiting[c] # None ~> waiting[c] = None

=============================================================================

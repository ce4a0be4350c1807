# A specification of WineMetalGL

WineMetalGL runs OpenGL programs on Metal: a core library (`src/src/core`)
implements OpenGL over Metal, a Wine module (`src/src/wine`) carries the calls of
a Windows program to it, and an application (`src/src/settings-app`) installs and
updates both and keeps fixes of single games in place. This directory holds TLA+
models of what is hard to test there: the order and lifetime of GPU work, objects
several threads share, files several processes share, programs killed between two
steps, and the conversions of pixels with their short cuts. TLC checks the models
on small instances; TLAPS proves the main properties of twenty-three of them for
every value of their constants.

`PROJECT.json` lists components, runs, the mutated form of the code each property
rejects, the source lines of each definition, hazards, findings and theorems. To
check a run: `tlc -config <run>.cfg <module>.tla`; to check the proofs of a
module: `tlapm <module>.tla`.

## The system

| Component | State it keeps | Operations | Where it is hard |
|---|---|---|---|
| Command queue (`core/metal/queue.*`) | the next serial; serials reserved (being recorded) and in flight, under one mutex | create, commit, abandon, isComplete, isCommitted, wait, waitSignaled, waitIdle; a completed handler on a thread of Metal's | commits in another order than serials; handlers against the destructor; lost wake-ups |
| Command stream (`core/metal/command_stream.*`), one per context | the command buffer and encoder in progress, the pending clear, discards, deferred mipmaps and flushes, uploads ahead of the buffer, visibility slots | render, blit, compute, upload, clear, invalidate, flush, finish | calls recorded late or early by design, while any call may commit in its middle |
| Transient allocator (`core/metal/transient.*`), one per context | chunks with an offset and the last serial that used them | allocate | reuse of memory the GPU still reads |
| Window surface (`core/surface.*`) | the mailbox: slots with states and sequence numbers, a presenter thread, two GPU queues | swap, start and stop of the presenter | four kinds of threads on one condition variable, freed at the end |
| Buffer objects (`core/api/buffer.mm`, `core/objects.h`) | storage, serials of the last use and write, retired storages, mapping, shadow, scanned index ranges | glBufferData, SubData, CopySubData, Map, Unmap, Invalidate, Delete; draws | CPU writes against GPU reads; several contexts; waits that drop the lock |
| Share group, contexts (`core/share_group.*`, `context.*`, `driver.mm`) | the share-group lock, object names, which contexts are current | make current, destroy, every API call's lock | make-current runs outside the lock and flushes; glFlush depends on the number of contexts current |
| Queries and syncs (`core/api/query.mm`) | per query the visibility slots and serial; per sync a serial | begin, end, result; fence, client wait, status, wait | results of command buffers not committed yet; slots that run out |
| Draws (`core/draw.mm`) | caches per context, the serials it marks textures with | draw, clear | marks made before the call knows which command buffer it will be in |
| Textures, framebuffers (`core/texture_storage.mm`, `core/api/texture.mm`, ...) | storage, `touchSerial`, pending mipmaps | upload, copy, invalidate, blit | uploads that overtake the command buffer |
| Pipeline cache (`core/metal/pipeline_cache.*`) | pipelines and promises of them, predictions, an archive file | get, predict, save | two builders of one pipeline, predictions that fail |
| Programs (`core/program.mm`, `core/api/program.mm`) | shaders, programs, executables | compile, link, use, delete | the lock is released while compiling and linking |
| Link cache (`core/shader/link_file_cache.*`, `compiler.cpp`) | recent results in memory, files in a directory | load, store, touch, trim | several threads and processes, kills between steps |
| Formats, pixel transfer (`core/format`) | tables | conversions of texels, blocks, vertices | short cuts that must do what the conversion does |
| Log, crash reports (`core/util/log.*`, `crash.*`) | a ring of recent lines, the log file | emit, report | readers beside writers, two ways to open the file |
| Shader translation, compatibility profile | none that outlives a call, but for display lists | pure functions | semantics of the languages |
| Wine unix side (`wine/unix`) | contexts, windows and pbuffers under `wgl_lock`; debug messages per thread; memory and handles for 32-bit programs; the view of each window; the x87 sidecar | WGL calls, swaps, batches, placement | swaps outside the lock, windows destroyed meanwhile, blocks the main thread runs later |
| Wine PE side (`wine/pe`) | per thread the batch of calls; tracked windows; the scaled windows of UpscaleGL and its patched modules; pixel formats | batch, flush, make current, hooks of user32 | order against calls that are not batched; destroyed windows nobody tells of |
| Fixes for games, settings application (`settings-app`) | the settings file, copies of the application, Wines, launchers' settings, games' files | load, save, update, refresh, fix, undo | killed between any two steps; players and launchers change the same files |

**How they interact.** A GL call runs with its context's thread-local state
under the share group's lock (`ShareLock`), records into its context's command
stream, and returns. A stream asks the queue for a command buffer and its serial
when it first needs one, and commits it at a flush, a swap, a wait, or by itself.
Serials tie the rest together: buffers, textures, transient chunks, syncs and
queries remember the serial of the command buffer that uses them and ask the
queue whether it is complete, or wait for it, some of them with the share-group
lock released. Compiles and links release it too. Metal runs committed command
buffers in commit order and then calls their completed handlers on its own
threads. The Wine module calls the core from unix calls: a thread of the program
collects calls that have no result in a batch on the PE side, and one unix call
runs them all; messages of the core's debug output wait on the unix side until
the PE side fetches them. `wmgl_make_current` is called under the module's
`wgl_lock` and not under the share group's; it flushes the context it takes from
the thread and counts current contexts, which `glFlush` reads to decide whether
it may defer its commit. Swaps present after they released `wgl_lock`; the swap
of interval 0 hands a copy of the back buffer to a presenter thread with a queue
of its own. The settings application and the core meet in the settings file and
in the files of games; processes meet in the link cache's directory.

**What makes each correct**, in one line: a serial is reported complete only when
its work has run, and always once it has (queue); what runs is what the calls
said in their order, whatever is deferred or hoisted (stream); memory the GPU
will read is not written (allocator, buffers); frames are whole and in order, the
last is shown, and nothing is freed in use (surface); a flush or a wait a program
may rely on is not lost (contexts, syncs); a result counts exactly the draws of
its query (queries); what is used has an executable, whatever was deleted or
failed to link (programs); caches are invisible (pipelines, links); a short cut
does what the conversion does (formats); a context is current once and what is
presented exists (WGL); calls keep their order (batches); a kill between two
steps loses nothing of the player's (application).

## Modules

| Module | Models | Checked by | Proved in |
|---|---|---|---|
| `FenceContract` | what `queue.h` promises of a serial, abstractly | `queue`, as a property | |
| `GpuQueue` | `metal/queue.mm`, the end of a share group | `queue` | `GpuQueueProofs` |
| `CommandStream` | `metal/command_stream.mm` and its callers | `shared`, `stream_copy` | `CommandStreamProofs` |
| `TransientAllocator` | `metal/transient.mm` | `core` | `CoreProofs` |
| `OcclusionQueries` | occlusion queries and visibility slots | `core` | `CoreProofs` |
| `PipelineCache` | `metal/pipeline_cache.mm` | `core` | `CoreProofs` |
| `SharedBuffer` | `api/buffer.mm` with two contexts | `buffer`, `buffer_races`, `buffer_overwritten` | `SharedBufferProofs` |
| `Syncs` | `driver.mm`, glFlush, syncs | `syncs`, `syncs_wait` | `SyncsProofs` |
| `Programs` | `api/program.mm` | `shared` | `ProgramsProofs` |
| `Mailbox` | the presenter in `surface.mm` | `windows`, `mailbox_newest` | `MailboxProofs` |
| `WglContexts` | contexts, windows, swaps of the Wine module | `shared`, `windows` | `WglContextsProofs` |
| `LinkCache` | link results in memory and in files | `shared` | `ProgramsProofs` |
| `Log` | `util/log.cpp`, `util/crash.cpp` | `shared` | `MailboxProofs` |
| `CallBatches` | batches of calls, debug messages | `shared` | `WglContextsProofs` |
| `LowMemory`, `SyncHandles` | `unix_wow64.c` | `shared` | `SyncsProofs` |
| `UpscaleGL`, `UpscaleImports` | `upscalegl.c` | `shared` | `CommandStreamProofs` |
| `WindowHost` | `unix_window.m` | `windows` | `MailboxProofs` |
| `Sidecar` | `unix_x87.c` | `windows` | |
| `MinecraftFix`, `OpenMWFix` | `Arm64Fixes.swift` | `shared` | `CoreProofs` |
| `SettingsFile`, `AppUpdate`, `GameFixes` | the settings application and `util/settings.cpp` | `buffer` | `SharedBufferProofs` |
| `WineTargets` | `Installations.swift` | `buffer` | |
| `Formats`, `PixelTransfer`, `SmallFloats`, `BlockEncode`, `VertexDecode`, `PixelFormats` | `core/format`, `pe/wgl_formats.c` | `core`, `stored_alpha`, through `MCFormats` | |

Systems that share no state are checked in one run where their sizes allow it:
`MCCore`, `MCShared`, `MCStored` and `MCWindows` hold a variable `part` that says
which of them a behaviour is of; the variables of the others do not change. `MCShared`
extends the modules it checks, so that its properties are theirs, and the theorems'; a
part may allow fewer steps than its module, by a guard named for what it leaves out. The
other `MC` modules take some as instances. What a proof assumes of a module's constants is
an ASSUME of the module, or a definition (`LinkAssumption`, `CallsAssumption`,
`MemoryAssumption`, ...) and a hypothesis of the theorem; `SharedAssumption` of
`MCShared`, `PartsAssumption` of `MCCore` and `StoredAssumption` of `MCStored` have TLC
evaluate it. So TLC and TLAPS speak of the same definitions.

The modules meet at the serial. `GpuQueue` shows what may be said of one and
implements `FenceContract`; the other modules take from the contract that command
buffers are committed with a serial, run in the order of their commits and are
complete afterwards, and keep only that of the queue.

### GpuQueue and FenceContract

Variables are the queue's fields (`next_`, `reserved_`, `inflight_`, the holder
of `mutex_`), the program counters of the threads, Metal's list of command
buffers and the state of each completed handler. `commit()` is two steps,
because it releases the mutex before `[buffer commit]`; the handler is three
(erase under the lock, notify, unlock), because a comment in `commit()` makes the
safety of the queue's destruction depend on notifying under the lock. A wait is
evaluated and sleeps in one step under the mutex, and may wake up spuriously or
time out. `Close` destroys a context; the last one begins the destructor of the
share group with its `waitIdle()`. `FenceContract` gives each serial a state
(unused, recording, submitted, executed, dropped) and lets completion be
reported for executed or dropped work only; `GpuQueue` implements it under
`WorkState`.

Run `queue`: 2 threads, 3 serials, 2 command buffers Metal admits before
`commandBuffer` blocks (280,763 states). Two threads and three serials allow
commits out of serial order, a wait by one thread for the other's work, and an
abandoned serial between two committed ones; with 2 buffers the pool is full. The
fairness is that of the code: Metal runs what it was given and calls handlers,
a thread inside `commit()` or a wait goes on. No thread has to call anything.
`WaitsReturn` says that waits for settled work return and the destructor ends.

### SharedBuffer

One buffer object, two contexts. Contents are the number of the call that wrote
them, for two parts of the buffer; `value` is what GL says the contents are, the
commands of each context carry what they must read. A call that waits is two
steps; waits with the share-group lock kept stop other contexts' calls, the wait
of `MapBufferRange` does not. Small and large buffers, mutable and immutable
storage, are chosen in the initial state; storage is limited, so allocation can
fail as in the code.

The constant `InTurn` is about programs: a context flushes before another one uses
the buffer, as GL asks of programs that share objects. Everything the layer does is
in the model. `ReadsCurrent` says that a command reads what the buffer held when it was
recorded, whatever the CPU wrote, renamed or reused since; `CopiesCurrent` that the
storage, the shadow and the scanned ranges are current when the code takes them to be.
Three calls break that (see the divergences below), and the history `spoiled` records
where one did: "contents" from a glUnmapBuffer whose blit commits a deferred glFlush,
for good; "shadow" from a result the CPU packs into a buffer with a shadow, until a
shadow is started anew; "scan" from the deletion of a buffer mapped for writing, until
the next scan. Each property excuses what is recorded, and holds in all other states.

Run `buffer` (part "buffer" of `MCStored`): in turn, 3 storages, one retired at
most, 4 calls, symmetric in contexts, parts and storages. Immutable buffers are
large there: a small one differs from it only in that a copy into it may start a
shadow, as into mutable ones. Run `buffer_races`: everything allowed, 2 storages, 3
calls, any part alone (919,806 states); what holds then is `MappingLasts`, and
`CallsReturn` under the fairness of the GPU and of a thread whose wait is over: no
context has to flush, since it may be waiting for the lock.

### Syncs

Two threads, two contexts. Make-current and destroy are under `wgl_lock` and take
two steps, with other threads' GL calls in between. Draws, glFlush (deferred
when the counter of current contexts is at most one), commits of the layer's own,
glFinish, glFenceSync, glClientWaitSync with and without the flush bit and of
either context's sync, glGetSynciv and glWaitSync. The history variables say which
draws a sync covers, and whether a flush followed it. Clears kept pending, which
make a fence open a command buffer, are in `CommandStream`. `SyncsSound` says that
the counter is exact, that what a flush deferred is not stranded in a context that
is current nowhere, and that a sync signals only after its draws.

Run `syncs`: 2 serials (694,586 states), so that a context has committed work and
work being recorded, or each context one. Fairness: the GPU, and threads inside
make-current, destroy or a wait. `OwnWaitReturns` does not assume that anybody
makes another call: the wait itself has to commit what it waits for.

### Run `core`: MCCore

*Transient memory* (`TransientAllocator`): `allocate()` in its cases (append to the
current chunk, rewind a chunk, make a new one and drop old ones, no memory), with
the commits and completions that free regions. `regions` records what work not yet
complete may read. Chunk size 3, sizes 1, 2 and 4 (4 is larger than a chunk, the
case of a chunk of its own), alignment 2, 4 serials, 3 chunks.

*Queries* (`OcclusionQueries`): two queries, two targets that may be active
together, passes and command buffers that end at any call, draws of two sizes and
the layer's own draws. A slot's count is the set of draws Metal counted in it, so
that `ResultExact` says that every draw counted once and for the right queries. 3
slots (2 of them for queries; 4096 in the code), 3 samples per slot (2^31 in the
code), draws of 1 or 2, 6 calls: slots run out, and fill, within one query.

*Pipelines* (`PipelineCache`): two draws and a queue of predictions build the
pipelines of two programs and two states, one of which Metal refuses. A second
builder of a key waits for the first one's promise; a failed prediction is not
kept. Two states are learned and two pairs predicted at most (4096 and 96 of a
signature, `kMaxStates` and `kStatesPerSignature`, and 12000, `kMaxPredicted`, in the
code): the run reaches these limits but asks for no more; the proof is for any.
`PipelinesServed`: a draw has its pipeline whenever Metal can make it, and until the limit of predictions no pair of a program linked and a state learned is left
unpredicted.

*Formats* (`MCFormats` over six modules): a step takes one input, and the invariants
are about the input taken: every format of the table, every combination OpenGL ES
knows of formats and types, six groups of client data per transfer, blocks of two
texels, all small floats of a reduced width, and lists of up to two pixel formats.
`FormatsSound`, `ConversionsSound` and `BlocksSound` compare the short cuts with
the conversions they replace, and each conversion with reading back. Three short cuts of
`pixel_transfer.cpp` are left out: the table of packed 16-bit texels (790-820, 907-920),
FLOAT into RGBA16F (922-941) and the raw transfer of swapped bytes (942-956); and so are
the client formats GREEN_INTEGER, BLUE_INTEGER and ALPHA_INTEGER (647-651), which differ
from RED_INTEGER in the channel.

Fairness of the run: the GPU, an application that asked for a result, a builder at
work and a waiter whose builder is done; an application may turn to other work
instead. `Answered` says that who asks for a result, or waits for a pipeline, is
answered.

### Run `shared`: MCShared

Parts, each of what two threads (`one`, `two`, symmetric), contexts or processes
share:

- *stream*, *one framebuffer* (`CommandStream`): the stream is one record, changed by operators from a
  stream to a stream that are named as the functions of `command_stream.mm` and call
  each other as these do; the actions are the API calls and the commits of the
  layer's own. What a command does to textures is a list per texture, in the order
  the GPU will run it, each entry with the number of its call. That lets
  `RunsInOrder` compare the order of execution to the order of the calls, across
  clears kept for the next pass, mipmaps kept for the next encoder, uploads run
  ahead of the buffer and discards, and lets `FenceCovers` say which of them a fence
  covers. A call that commits in its middle (the deferred glFlush in
  `startRender()`, `commitLargeWork()`) does so in the model. `carries` marks a
  command buffer that has work of a call begun in an earlier one. 2 textures, 2
  framebuffers that share one, one texture with automatic mipmaps, 3 calls; and 4 calls
  with one texture and its framebuffer (*one framebuffer*): something deferred, a
  commit, a command that uses what was deferred, an upload. Both properties are proved
  for any number of calls.
- *programs*, *switching* (`Programs`): two contexts use one program and its shader,
  or one context goes from one program to another, while compiles and links run
  without the lock. Two sources, of which one compiles.
- *links*, *threads* (`LinkCache`): two processes of two builds, or two threads of one,
  link two or three keys, two of which share a file name; room for two results on
  disk and two in memory. Processes are killed anywhere.
- *log* (`Log`): two threads emit and crash; 2 slots in the ring, 2 reports, 3 events.
- *minecraft*, *openmw* (`MinecraftFix`, `OpenMWFix`): passes that put a fix in or take
  it out, one operation failing or the application killed at any step, the player
  and the launcher writing the same files.
- *upscale*, *one window*, *imports* (`UpscaleGL`, `UpscaleImports`): two windows in one
  mode, one of them at the left edge, that one thread at a time looks at (`OneLooks`); or
  one window in every mode, also that of the whole real width, at two places, that two
  threads look at while it changes; two procedures, a table of one; modules loaded at three
  addresses, two patched at most.
- *calls* (`CallBatches`): one thread with two contexts, 5 calls of nine kinds and
  make-current, batches of 4 bytes, a queue of one message. `SynchronousInCall` is a part
  of `BatchesSound` while every call that ran did so under the context that is current
  (`OneContext`).
- *memory*, *handles* (`LowMemory`, `SyncHandles`): chunks of three pages, sizes below,
  at and above a chunk, copies of two strings; two threads that make and delete syncs
  at two addresses, 4 in all.
- *contexts* (`WglContexts`): two threads, a window and pbuffers, two handles, two
  contexts or pbuffers made in all, a look for destroyed windows at every swap (every 64th
  in the code) that forgets one of them (16 in the code).

513,064 states, without liveness. Each bound is the least that lets the part's
hazard happen; twice the state space would not fit one run.

### Run `windows`: MCWindows

- *mailbox* (`Mailbox`): one action per stretch of code between lock operations: of
  the GL thread in `swapMailbox()` and `stopMailbox()`, of the presenter thread, of the
  two kinds of completed handlers (state change, then `notify_all`, with the lock held
  between them: the set `notifying`), and of the two GPU queues. `content` records the
  frame whose pixels a slot holds. 3 slots as in the code, 4 frames, so that all slots
  are used and one is used twice while others are presented.
- *contexts* (`WglContexts`): a window, one handle, and a look at every second swap, for
  what must happen in the end: the drawable of a destroyed window goes as long as any
  thread swaps.
- *host* (`WindowHost`): a host's placements, the blocks the main thread runs later,
  timers for holes, Cocoa windows that close and open, the end of the host. Two top
  levels, one hole, two Cocoa windows each, two queued blocks and timers.
- *sidecar* (`Sidecar`): the handshake with the x87 sidecar, which may die or hang at any
  step, 3 tries.

Fairness: each thread that can go on does, both GPU queues run, handlers and queued
blocks are called, one thread swaps again and again in *contexts*; nobody has to
make another call. `WaitsEnd`: a swap gets its slot, `stopMailbox()` returns, the
drawable goes. `Settles`: the presenter catches up again and again, and the program
goes on whatever the sidecar does. `ViewFollows`: a window that stays is shown where
it is, with its holes.
Of safety, *host* has `PlacedIsTrue` (a placement that is skipped because nothing
changed was not needed) and `GoneStaysOff` (a host that was destroyed never takes its
place again, whatever was queued before).

### Run `buffer`: the other parts of MCStored

*settings* (`SettingsFile`), *update* (`AppUpdate`), *targets* (`WineTargets`) and
*fixes* (`GameFixes`): the settings file with two lines edited by hand or by the
application, and processes that read it; three places of the application, one
read-only, and three versions; bottles and prefixes with two refresh tasks under way and two changes of
the disk; a game's file and its backup with two changes by others. The application
is killed between any two steps. `SettingsSound` says what each promises: a setting
written is read, an update is whole and never older, what is shown is on disk, a
backup is of a file no fix had touched.

## What is proved

TLAPS checks every leaf. The proofs assume what the modules' ASSUMEs and the
definitions named `...Assumption` say (positive bounds, sizes and alignments, finite
sets of threads, distinct null values), which TLC evaluates in the runs. One more
hypothesis stands for what the code needs of programs: `InTurn` of `SharedBuffer`, which
is TRUE in the run that checks the same properties. All other constants are arbitrary:
threads, contexts, objects, slots, frames, serials, chunks and sizes. Each proof has the same shape: an
inductive invariant, a lemma for each action saying that it keeps it, and theorems
that follow. Runs check the invariants of the proofs, too, or the properties they
contain.

**GpuQueueProofs.** `IInv` is `TypeOK` and five parts: *Bookkeeping* (the two sets
hold used serials and are disjoint), *OneOwner* (a serial is being recorded, or on
its way to Metal, by one thread, or in Metal's list once, and its handler is not
due), *HandlersPlaced* (where each handler is, against the sets and the mutex),
*Accounted* (a used serial in neither set was dropped or its handler has erased
it) and *Teardown* (who still uses the queue while the share group goes). None of
the properties is inductive: `SignaledIsDone` needs that complete serials are
accounted for, which needs that a handler erases only serials that are nobody's.
`SignaledIsSafe`, `DestructionIsSafe` and `CompletionStays` follow, and `Refinement`
proves that every step maps to a step of `FenceContract` or a stutter, for its
safety part.

**MailboxProofs.** `IInv` relates the phase of each thread to the slots' states and
to what both GPU queues hold: every pending slot is being copied into, by the
producer, the GPU or a handler, every presenting slot has one present, frames in
the lists are in order and newer than what was shown, ready slots are newer than
what was taken, and what a slot holds is its frame. `PresentsAreIntact`,
`FramesInOrder` and `FreeIsSafe` follow.

*WindowHost*: the block that ends a host is the last of its queue; the last placement
asked for is the last in the queue, or the last the main thread took; and while `placed`
is set the view is in the open Cocoa window of that one (`HostInvariance`). Hence
`PlacedStaysTrue`, and `DestroyedStaysOff`, for timers that fire after the end, too.

*Log*: `LogIInv` counts the places of a ring that any number of threads fill, and says of
each message a thread leaves to the history that it is in the file, on its way there
with a thread that still has to come to its place, or that its slot is being used
again. A report that ends has found nothing owed (`LogStaysSound`).

**CommandStreamProofs.** `Good(s, n, marks, f)` is what holds of a stream between any
two functions of it, in the middle of a call as well: a pending clear is later than
all that is recorded on its textures, what an upload ran ahead of is not there, what
waits is later than what was hoisted, and every use has marked its texture with the
serial of its buffer, or blocks hoisting. `Ok(s, c)` adds what is known of the call
`c`, above all whether the command buffer is the call's own or took over the work of
an earlier one (`carries`). Every stream function keeps `Ok`, with a frame of what it
leaves alone; `CallBegins` and `CallEnds` go from `IInv` to `Ok` and back.
`CommandsRunInOrder` and `FencesCoverWork` hold for any textures, targets,
attachments and number of calls.

*UpscaleGL*: `covering_count` is the cardinality of the windows that cover the screen,
and `WindowHolds` says what a window's entry means: its width is the one asked for, or
that of the screen, which scaled is the one asked for. The arithmetic is
`ThereAndBack`: `MulDiv` to real coordinates and back loses nothing, because the
program's display is not larger than the real one. Any number of threads look at a window
(`check_covering`, which reads without a lock and acts afterwards) while it is placed,
given a procedure or found by others; `CheckHolds` says what is left then of what they read.
A window is changed by one thread at a time, and not destroyed while it is looked at, as a
program that uses a handle sees to. `UpscaleSound` is silent on three cases the code
does get wrong or cannot tell apart: a width set while a thread looked into the placement
(`Unasked`), the whole real width asked for in a smaller mode, which the program does not
see (`Askable`), and a procedure set while another thread is about to put the
subclass in place (`Torn`). *UpscaleImports*: every module loaded since the start is
patched, except at addresses where another one was unloaded (`ModulesAreHooked`).

**CoreProofs.** *TransientAllocator*: to the two properties `IInv` adds that a region
ends where its chunk's used part ends or before, and that a chunk's last serial is at
least that of each of its regions: why a chunk whose last serial is complete may be
rewound. The arithmetic of alignment is a lemma (`AlignedUp`). `RegionsStayApart`,
`RegionsAreInChunks`. *OcclusionQueries*: the conjuncts of `ResultExact` are its
invariant. A slot is allocated to one set of active queries; nothing counts in a slot
before it is allocated; the encoder points at the active queries' slot, so each draw
is in a slot of each query it was drawn for, and only there (`QueriesExact`).
*PipelineCache*: what is kept is what Metal says of the key, a builder that others
wait for is at work on their key, and predictions that fail leave nothing behind
(`PipelinesServedAlways`).

*MinecraftFix*: the record in memory is the file's but for the moment of saving it, that
of an instance nobody disturbed is of a time without the fix, and none would bring back
other arguments than the player's. *OpenMWFix*: how many operations a pass has left says
which they are and what has been done to the game's files. `GamesAreKept`: the player's
arguments and the game's own SDL survive any kill, any operation that fails and
whatever the launcher writes in between.

**SyncsProofs.** Every sync covers what its serial does; a sync not committed has
the serial its context records; one thread at a time is in make-current or destroy,
for a context nobody else has; and the counter glFlush reads is the cardinality of the
contexts current or about to be. With these `SyncsSound` is inductive
(`SyncsSoundness`).

*SyncHandles*: an object has one handle, or one thread has it in hand on its way to a
handle or to its end, and a handle that goes out keeps its place in the table until it
is released (`HandlesStayExact`). *LowMemory*: the bits of a chunk are the pages of the
pieces in it, a reservation is one chunk or one large piece, and only the newest
chunk may be nobody's (`PiecesStayApart`, `StringsAreKept`, `OneSpareChunk`). `low_bytes`
is shown to be the cardinality of the set of units in use, so that a piece taken adds
its size and a piece given back takes it away. All of it is `Wow64StaysSound`.

**ProgramsProofs.** Counts are cardinalities of the sets of holders, users and stages;
an object has its name until it was deleted and nothing uses it; a link status means
an executable. `UsedHasExecutable` alone is not inductive: a program may come into use
while a link that will fail runs without the lock, and the step that ends the link
must find its users. `ProgramsSoundness` holds for any contexts, shaders and programs.

*LinkCache*: `LinkIInv` says what a thread holds at each point of `link()`, that what a
file holds is what the build and the key written in it make, and that a process
remembers results of its own build; `DirectoryIInv` that the order of modification times
lists the files there are. `LinksAreSound` follows for any processes, keys and builds, kills
included. `TrimIInv` is about the one trim of a process: while nobody stores, the rest
of its scan lists every file there is with its size, and `total` is not below what these
have together, though other processes remove files, too. The size of the directory is the
cardinality of a set, the bytes of its files, and `TrimsAreBounded` needs no
induction over sums.

**SharedBufferProofs.** A call that waits to rename the buffer keeps the lock and found
the buffer unmapped; calls that wait with the lock released rename nothing, and
glMapBufferRange looks at the mapping again after its wait. That makes mappings last
(`MappingsLast`), for any constants: whatever contexts, flushes and results do.
`Invariance` adds the types and the bound of the retired pools.

`ReadsAreCurrent` and `CopiesAreCurrent` are proved under `InTurn`, without which TLC
finds the divergences below, and with every behaviour of the layer. Their invariant `Right`
holds until `spoiled` has "contents", its parts about the shadow and the scan until
these are in it. It is about the commands recorded or queued and not yet run, in the order of
serial and place. What a command needs of a storage is what the last one before it wrote
there, or what the storage holds (`ReadsFollow`, `ReadsFind`); the serials kept with the
buffer and with each retired storage are not below those of the commands that use it
(`Covers`); and what GL says the contents are is what the last of them leaves, in the
storage, the shadow and the scans (`Shows`). A storage is in one place of the pools, and
a wait is for the serial that covers what its call goes on to do (`WaitsRight`).

*SettingsFile*: a name taken from the file was unset in the shell's environment, and all
others are as they were there (`EnvironmentCounts`). *AppUpdate*: no copy of the
application and no Wine is ahead of what was published, the pending key is of a release no
Wine is ahead of, and each step of an update rests on what the ones before it found out
(`UpdatesStaySound`, with any kill). *GameFixes*: a file that is neither MetalSharp's nor
put there by hand has a backup, which is never of a fixed file; the configuration has the
line once; and what a pass has said of a fix so far is so (`FixesStaySound`).

**WglContextsProofs.** A context is in one slot of the table; only windows that are
gone are forgotten; a window being presented is alive with its surface, or gone and
then bound by the presenter's own current context, which nobody else may delete. From
these follow `CurrentOnce` and `PresentsLive` (`ContextsStaySound`).

*CallBatches*: the calls of a thread that have not run are, in their order, in hand or in
the batch; messages not yet fetched wait in their order, and are fetched before the call
returns (`CallsStayInOrder`, `MessagesStayInOrder`). While one context is used
(`OneContext`; a step that ends in such a state began in one, `OneContextStays`), the
flags of the PE side are what the calls in hand will make of the core's, so that a call
that raises messages while they are synchronous is not left in a batch
(`BatchesAreSound`).

### Only model-checked

- Liveness (`WaitsReturn`, `CallsReturn`, `OwnWaitReturns`, `Answered`, `WaitsEnd`,
  `Settles`, `ViewFollows`) and the liveness part of `ImplementsContract`: fairness and
  ENABLED are out of the prover's reach.
- `FormatsSound`, `ConversionsSound`, `BlocksSound`: what folds and recursive functions
  compute over tables, texels and blocks needs induction over data.
- Two parts of `SettingsSound`: `WrittenIsRead`, about a filter of the file's lines
  (`SelectSeq`), and `TargetsSound` of `WineTargets`, about a list from which a recursive
  function takes doubles out. Its other three parts are proved.

## Divergences from the code's comments

Five runs expect a violation; each is a finding of `PROJECT.json`:

- `mailbox_newest`: the presenter may show an older frame than the newest finished.
- `stream_copy`: a commit inside a blit, dispatch or pass loses `hoistBlocked_`, and
  an upload overtakes a copy.
- `buffer_overwritten`: `lastUseSerial` is overwritten by an older command buffer.
- `syncs_wait`: glWaitSync does not order work after a glFlush that was deferred.
- `stored_alpha`: a raw copy of RGBA data into an RGB format keeps its alpha.

Others were met while modelling and are kept out of the runs by a condition, a bound
or an assumption the module states. In the command stream and buffers (to see one,
lift the condition and run TLC):

- *Attachments marked too early* (`draw.mm:487`): `RunsInOrder` without `~carries`. The
  draw is in the command buffer after the one its attachments are marked with, and an
  upload to one of them runs ahead of it.
- *A fence before work of earlier calls* (`command_stream.mm:613` and 440):
  `FenceCovers` without the exception for `carries`. `flush(true)` commits the
  fence's command buffer and keeps the clear for the next; a deferred flush that
  commits while deferred mipmaps are being recorded does the same to these.
- *Mipmaps of cleared contents* (`command_stream.mm:439`): `RunsInOrder` without the
  exception for `mipmaps`. The clear of the base level that comes after the upload
  runs before the mipmaps are generated.
- *Discards after later draws* (`command_stream.mm:113`): `RunsInOrder` without the
  exception for `discard`. An attachment invalidated for the next pass of one
  target is written through another one first.
- *Staging memory* (`texture_storage.mm:915`): memory is claimed for the command
  buffer open then, and the copy may be recorded in the next. Not in the model:
  the stream would have to carry the serial of each claim.
- *A write lost in `rename()`* (`buffer.mm:131`): `CopiesCurrent` with `InTurn`
  FALSE. The wait returns at once for a serial another context still records.
- *A stale shadow* (`framebuffer.mm:1005`, `query.mm:672`): `CopiesCurrent` without
  "shadow" in `ShadowCurrent`. Results written to a buffer do not drop the shadow.
- *A scan kept after unmapping* (`buffer.mm:227`): `CopiesCurrent` without "scan" in
  `ScanCurrent`. The version does not change.
- *The serial of a write-back* (`buffer.mm:682`): `ReadsCurrent` or `CopiesCurrent` without
  "contents". It is read before the call that may commit that buffer, a later CPU write
  does not wait for the copy, and the copy overwrites it.

In programs and formats:

- A desktop link takes a shader's source as it is, also when the application
  replaced it after the compile (`program.mm`); `LinkedWereCompiled` is stated of
  OpenGL ES.
- `copyTexSubImageCompatible()` (`es_formats.cpp`) refuses signed normalized sources for
  signed normalized textures that `copyTexImageFormat()` makes.
- The raw copy of `packPixels()` leaves signed normalized and float texels unclamped,
  though its comment and `framebuffer.mm:1066` ask for clamping.
- The BC1 encoder takes alpha below one half as clear also for the format without
  alpha (`block_encode.cpp:381`).

In the Wine module:

- A procedure set between `check_covering`'s reading of the old one and its
  SetWindowLong is lost, and a width set while it looks may be scaled for the screen's
  (`upscalegl.c`): see `Torn` and `Unasked` above.
- A module loaded at an address where another was unloaded keeps its imports
  (`upscalegl.c:20-24`): `LoadedArePatched` leaves such addresses out.
- A sync's handle is kept when the core takes its address again before it is released
  (`unix_wow64.c:296-300`).
- The sidecar's 30 second timeout resumes the program's threads while a sidecar that
  is only late may still patch (`unix_x87.c:40-42`, 83-85).

In the settings application:

- `updateEverywhere()` at launch runs before the search task has ended: bottles that
  Spotlight would find are missed, and `~/.wine` has no Wine yet. `~/.wine` always uses the
  first Wine of the list.
- Refresh tasks that end out of order leave an older list of Wines and CrossOvers, and
  may list a bottle that has gone. A bottle reached through a symbolic link and saved by
  its real path is listed twice. `busy` is reset by the first of two overlapping runs.
- A copy of the application built without a Developer ID puts the `.so` fix in again
  at each launch. A kill between its rename and codesign leaves the file unsigned and
  "in place". A kill during a copy that is no clone could leave part of a backup; the
  model takes copies to be APFS clones. The check for a running Wine races
  `apply-display-modes.sh`.
- A kill between `replaceItemAt` and the pending key, or during `updateEverywhere()`,
  leaves Wines on the old version until the next update. Two updaters at once could
  install a partial copy; the model has one at a time.
- An `autoexec.cfg` that is there but is no UTF-8 text is taken for absent and overwritten
  without a backup (`GamePatches.swift:142-153`); the model has no such file.
- `save()` rewrites log levels set by hand and drops `LOG_FILE`; edits made by hand
  while the application is open are lost at its next save. Of two lines with one name the
  application shows the last and the core uses the first. A variable that a process sets
  for its child under a name the file gave is dropped by the child.

## What is abstracted

- Pixels and bytes are the number of the call that produced them; sizes are
  classes (small and large) or small numbers; objects are model values. The formats'
  models have real components, at reduced widths.
- Each GL call under the share-group lock is one step, but for waits, compiles and
  links that release it, the two steps of make-current and of destroy, and the
  queue's own steps. A unix call of the Wine module is one step; what comes between
  unix calls is steps of its own.
- Time is a nondeterministic choice: timeouts, `commitLargeWork()`'s ages.
- Metal is modelled as the code relies on it: command buffers of a queue run and
  complete in commit order, handlers are called once each, commands of one
  command buffer run in order.
- Serials, sequence numbers and epochs are 64 bits wide and do not wrap in the
  models; a program does not live to see it.
- The retired list of a buffer is bounded by its length, not also by bytes
  (`buffer.mm:110` keeps only storages up to 16 MiB).
- Memory orders of the log's atomics are taken to be sequential.

- Failures that end what the model is about are left out of an action, which then is one
  that succeeded: no command buffer from Metal in `GpuQueue`'s `Create` (`queue.mm:81`),
  whose serial is reserved and committed all the same and never completes; no memory in
  `Data` (`buffer.mm:441-448`), after which the buffer is empty; a make-current the core
  refuses or a surface that cannot be made in `WglContexts` (`unix_wgl.c:281-292`, 592), and
  a 257th tracked window (`winemetalgl.c:421`); a settings file that cannot be written
  (`WineMetalGLSettings.swift:149-151`), where the application reports it and keeps what it
  shows (with it the run does not end in time).
- Two actions are coarser than the code. A link whose input check failed may run unlocked
  too in `Programs` (`api/program.mm:600-621` does not release the lock for it): more
  interleavings, same result.
  The report of a crash ends and takes the log's mutex in one step, and signals come between
  calls of the log, not while its mutex is held (`crash.cpp:274`).
- `WineTargets` has the CrossOver saved in the settings and those Spotlight finds, none in
  an Applications directory.

Not modelled and why: shader translation (text and module passes of a call, whose
hazards are in the semantics of other languages); the compatibility profile (a
single-threaded translation of fixed-function state); statistics and thread
priorities; the Wine module's log and fonts (conversions); the windows of the
settings application and the scripts it runs.

## Plan

1. *Done*: the core, its programs, pipelines, link cache and log, the Wine module, the
   settings application and the fixes are modelled and checked. The safety of
   twenty-three modules is proved: every safety property a passing run checks, but for
   what is under "Only model-checked".
2. Prove more: `WrittenIsRead` and `TargetsSound`, once lists are filtered in a form the
   prover reasons about; the conversions of `SmallFloats`, whose arithmetic needs no recursion.
3. Model more: timers and query buffers beside `OcclusionQueries`, the archive of
   pipelines, program pipelines' combined executables, memory DCs of the Wine module.

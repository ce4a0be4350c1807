---------------------------- MODULE CommandStream ----------------------------
(***************************************************************************)
(* core/metal/command_stream.mm and the callers whose correctness it       *)
(* carries: the command buffer one context records.  Draws, clears,        *)
(* uploads, copies and dispatches become Metal commands of that buffer,    *)
(* but not always at once, nor in the order of the API calls: a clear      *)
(* waits to be a load action, an upload runs ahead of the command buffer   *)
(* when that has not used the texture (Texture::touchSerial), a glFlush    *)
(* waits for the pass to end, an invalidated attachment is dropped when    *)
(* its pass ends or its next one starts, and mipmaps of GL_GENERATE_MIPMAP *)
(* textures are generated before the next command that may read them.      *)
(*                                                                         *)
(* Every API call is numbered (now).  The model keeps, per texture, the    *)
(* commands the buffer holds in the order the GPU runs them, each with the *)
(* number of the call it does the work of: the properties compare the two  *)
(* orders.  What a command does to a texture's contents is abstracted, as  *)
(* are the arguments of the Metal calls, and levels and slices.            *)
(***************************************************************************)
EXTENDS Integers, Sequences, FiniteSets

CONSTANTS Textures,       \* textures: attachments and sampled ones
          Targets,        \* framebuffers a context renders to
          Attachments,    \* the textures of each target, one at least
          NoTarget,       \* no target, not one of Targets
          Mipmapped,      \* textures with GL_GENERATE_MIPMAP
          MaxCalls        \* bound: API calls in a behaviour

ASSUME StreamAssumption ==
  /\ NoTarget \notin Targets
  /\ Attachments \in [Targets -> SUBSET Textures]
  /\ Mipmapped \subseteq Textures
  /\ MaxCalls \in Nat

VARIABLES stream,   \* the CommandStream
          touch,    \* Texture::touchSerial
          now,      \* the number of API calls so far
          fence,    \* the last glFenceSync: its serial and its number
          carries   \* history: buffer_ has work of a call that began in an
                    \* earlier one

vars == <<stream, touch, now, fence, carries>>

Calls   == 0 .. MaxCalls                \* 0: no call
Times   == [Textures -> Calls]          \* the call that did something to a texture
NoTimes == [t \in Textures |-> 0]
Uses    == {"draw", "sample", "clear", "upload", "copy", "dispatch", "mipmaps", "discard"}
Command == [use : Uses, at : Calls]

StreamState ==
  [serial        : Nat,                        \* serial_, 0 without buffer_
   next          : Nat,                        \* the serial Queue::create gives next
   last          : Nat,                        \* lastCommitted_
   render        : Targets \cup {NoTarget},    \* target_ of an open render_
   blit          : BOOLEAN,                    \* blit_ is open
   compute       : BOOLEAN,                    \* compute_ is open
   draws         : BOOLEAN,                    \* drawsInPass_
   recorded      : BOOLEAN,                    \* drawsSinceCommit_ > 0
   clearTarget   : Targets \cup {NoTarget},    \* pendingTarget_
   clear         : Times,                      \* pending_
   store         : Times,                      \* storeDiscard_
   discardTarget : Targets \cup {NoTarget},    \* discardTarget_
   load          : Times,                      \* loadDiscard_
   flushDeferred : BOOLEAN,                    \* flushDeferred_
   blocked       : BOOLEAN,                    \* hoistBlocked_
   mips          : Times,                      \* deferred_: Context::pendingMipmaps
   prelude       : Times,                      \* preludeUpload_: the last upload ahead
   body          : [Textures -> Seq(Command)]] \* what buffer_ does to each texture

TypeOK ==
  /\ stream \in StreamState
  /\ touch \in [Textures -> Nat]
  /\ now \in Calls
  /\ fence \in [serial : Nat, at : Calls]
  /\ carries \in BOOLEAN

Init ==
  /\ stream = [serial |-> 0, next |-> 1, last |-> 0, render |-> NoTarget,
               blit |-> FALSE, compute |-> FALSE, draws |-> FALSE,
               recorded |-> FALSE, clearTarget |-> NoTarget, clear |-> NoTimes,
               store |-> NoTimes, discardTarget |-> NoTarget, load |-> NoTimes,
               flushDeferred |-> FALSE, blocked |-> FALSE, mips |-> NoTimes,
               prelude |-> NoTimes, body |-> [t \in Textures |-> <<>>]]
  /\ touch = [t \in Textures |-> 0]
  /\ now = 0
  /\ fence = [serial |-> 0, at |-> 0]
  /\ carries = FALSE

-----------------------------------------------------------------------------
(* The stream's functions, as operators from a stream to a stream.         *)

AnyOf(times) == \E t \in Textures : times[t] # 0

(* times, with the textures ts at call n. *)
Mark(times, ts, n) == [t \in Textures |-> IF t \in ts THEN n ELSE times[t]]

(* The work of the calls `times` joins the command buffer. *)
Encode(s, use, times) ==
  [s EXCEPT !.body = [t \in Textures |->
     IF times[t] = 0 THEN s.body[t]
     ELSE Append(s.body[t], [use |-> use, at |-> times[t]])]]

(* commandBuffer() and serial(): a command buffer is being recorded. *)
Open(s) == IF s.serial # 0 THEN s
           ELSE [s EXCEPT !.serial = s.next, !.next = s.next + 1]

(* endEncoder(): a pass stores its attachments but the invalidated ones. *)
EndEncoder(s) ==
  Encode([s EXCEPT !.render = NoTarget, !.blit = FALSE, !.compute = FALSE,
                   !.store = NoTimes],
         "discard", IF s.render # NoTarget THEN s.store ELSE NoTimes)

(* startRender() once no glFlush is deferred: the pending clear of the     *)
(* target is its load actions; what was invalidated is not loaded.         *)
StartPass(s, g) ==
  LET ended  == EndEncoder(s)
      clears == IF s.clearTarget = g THEN s.clear ELSE NoTimes
      drops  == [t \in Textures |-> IF s.discardTarget = g /\ clears[t] = 0
                                      THEN s.load[t] ELSE 0]
      pass   == [Open(ended) EXCEPT
                   !.render = g, !.draws = FALSE,
                   !.load = NoTimes, !.store = NoTimes,
                   !.clear = IF s.clearTarget = g THEN NoTimes ELSE s.clear]
  IN Encode(Encode(pass, "discard", drops), "clear", clears)

(* The blit encoder in progress, or a new one. *)
BlitEncoder(s) ==
  IF s.blit THEN s ELSE [Open(EndEncoder(s)) EXCEPT !.blit = TRUE]

(* resolvePendingClear() while no glFlush is deferred. *)
ResolveInFlush(s) ==
  IF AnyOf(s.clear) THEN EndEncoder(StartPass(s, s.clearTarget)) ELSE s

(* runDeferred() and uploadBlit() while no glFlush is deferred: the pending *)
(* clear runs, then each texture's mipmaps are generated in a blit.         *)
RunDeferredInFlush(s) ==
  IF ~AnyOf(s.mips) THEN s
  ELSE Encode(BlitEncoder(ResolveInFlush(
                [s EXCEPT !.mips = NoTimes, !.blocked = TRUE, !.load = NoTimes])),
              "mipmaps", s.mips)

(* The prelude and then the command buffer, if there is one, are committed. *)
Commit(s) ==
  IF s.serial = 0 THEN [s EXCEPT !.prelude = NoTimes]
  ELSE [s EXCEPT !.prelude = NoTimes, !.last = s.serial, !.serial = 0,
                 !.recorded = FALSE, !.blocked = FALSE,
                 !.body = [t \in Textures |-> <<>>]]

(* flush(): the deferred work and the pending clear, unless it is kept, go *)
(* into what is committed.                                                 *)
Flush(s, keep) ==
  LET run == RunDeferredInFlush([s EXCEPT !.flushDeferred = FALSE])
  IN Commit(EndEncoder(IF keep THEN run ELSE ResolveInFlush(run)))

(* startRender(): a glFlush deferred while the last pass went on commits. *)
StartRender(s, g) ==
  StartPass(IF s.flushDeferred THEN Flush(s, TRUE) ELSE s, g)

(* resolvePendingClear(). *)
ResolvePendingClear(s) ==
  IF AnyOf(s.clear) THEN EndEncoder(StartRender(s, s.clearTarget)) ELSE s

(* uploadBlit(). *)
UploadBlit(s, keep) ==
  LET begun == [s EXCEPT !.load = NoTimes]
  IN IF s.blit /\ (keep \/ ~AnyOf(s.clear)) THEN begun
     ELSE BlitEncoder(EndEncoder(IF keep THEN begun ELSE ResolvePendingClear(begun)))

(* runDeferred(): runPendingMipmaps(), a blit() for each texture. *)
RunDeferred(s) ==
  IF ~AnyOf(s.mips) THEN s
  ELSE Encode(UploadBlit([s EXCEPT !.mips = NoTimes, !.blocked = TRUE], FALSE),
              "mipmaps", s.mips)

(* blit(). *)
Blit(s, keep) == UploadBlit([RunDeferred(s) EXCEPT !.blocked = TRUE], keep)

(* The compute encoder in progress, or a new one. *)
ComputeEncoder(s, keep) ==
  IF s.compute /\ (keep \/ ~AnyOf(s.clear)) THEN s
  ELSE [Open(EndEncoder(IF keep THEN s ELSE ResolvePendingClear(s)))
          EXCEPT !.compute = TRUE]

(* compute(). *)
Compute(s, keep) ==
  ComputeEncoder([RunDeferred(s) EXCEPT !.blocked = TRUE, !.load = NoTimes], keep)

(* The pass on g goes on, or one starts. *)
PassOn(s, g) ==
  IF s.render = g THEN [s EXCEPT !.store = NoTimes] ELSE StartRender(s, g)

(* A pending clear of another target than g runs. *)
ResolveOther(s, g) ==
  IF s.clearTarget # g THEN ResolvePendingClear(s) ELSE s

(* Mutant: a clear recorded for another target does not run first. *)
RenderDrawUnresolved(s, g) == PassOn(RunDeferred(s), g)

(* renderDraw(). *)
RenderDraw(s, g) == PassOn(ResolveOther(RunDeferred(s), g), g)

(* Draws to g that read ts, in the pass renderDraw() returned. *)
EncodeDraw(s, g, use, ts, n) ==
  LET sampled == Encode(s, use, Mark(NoTimes, ts, n))
  IN [Encode(sampled, "draw", Mark(NoTimes, Attachments[g], n))
        EXCEPT !.draws = TRUE, !.recorded = TRUE]

(* clearWithLoadAction(), unless the pass on g has draws. *)
ClearWithLoadAction(s, g, ts, n) ==
  LET resolved == ResolveOther(s, g)
      ended    == IF resolved.render = g THEN EndEncoder(resolved) ELSE resolved
  IN [ended EXCEPT !.clearTarget = g, !.clear = Mark(ended.clear, ts, n)]

(* pendingClearUses(). *)
PendingClearUses(s, t) == AnyOf(s.clear) /\ t \in Attachments[s.clearTarget]

-----------------------------------------------------------------------------
(* The API calls.  Each opens a command buffer where the code asks for     *)
(* serial(), and marks the textures it touches with the serial it got.     *)

Call == now < MaxCalls /\ now' = now + 1

(* commitLargeWork(): the draws recorded may be committed here, by their   *)
(* number and age, before the draw being validated.                        *)
LargeWork(s) == {s} \cup IF s.recorded THEN {Flush(s, TRUE)} ELSE {}

(* A draw: validate() builds the target, whose attachments it marks, and   *)
(* may commit; prepare() gets the encoder; bindTextures() marks what the   *)
(* draw samples, which may be in a later command buffer by then.           *)
Draw(g, ts) ==
  /\ Call
  /\ LET valid == Open(stream) IN
     \E s \in LargeWork(valid) :
        LET pass == RenderDraw(s, g) IN
        /\ touch' = Mark(Mark(touch, Attachments[g], valid.serial), ts, pass.serial)
        /\ stream' = EncodeDraw(pass, g, "sample", ts, now + 1)
  /\ UNCHANGED fence

(* A pass of the layer's own (glBlitFramebuffer as a draw, ...): render(). *)
OtherPass(g, ts) ==
  /\ Call
  /\ stream' = EncodeDraw(RenderDraw([stream EXCEPT !.blocked = TRUE], g),
                           g, "copy", ts, now + 1)
  /\ UNCHANGED <<touch, fence>>

(* glClear of attachments ts: full, a load action unless the pass has      *)
(* draws; masked or scissored, a draw.                                     *)
Clear(g, ts, full) ==
  /\ Call
  /\ LET valid == Open(stream) IN
     /\ touch' = Mark(touch, Attachments[g], valid.serial)
     /\ stream' =
          IF full /\ ~(valid.render = g /\ valid.draws)
            THEN ClearWithLoadAction(valid, g, ts, now + 1)
            ELSE [Encode(RenderDraw(valid, g), "draw", Mark(NoTimes, ts, now + 1))
                    EXCEPT !.draws = TRUE, !.recorded = TRUE]
  /\ UNCHANGED fence

(* glInvalidateFramebuffer of attachments ts. *)
Invalidate(g, ts) ==
  /\ Call
  /\ LET valid == Open(stream)
         kept  == IF valid.discardTarget = g THEN valid.load ELSE NoTimes IN
     /\ touch' = Mark(touch, Attachments[g], valid.serial)
     /\ stream' = IF valid.render = g
                    THEN [valid EXCEPT !.store = Mark(valid.store, ts, now + 1)]
                    ELSE [valid EXCEPT !.load = Mark(kept, ts, now + 1),
                                       !.discardTarget = g]
  /\ UNCHANGED fence

(* Whether an upload to t may run ahead of the command buffer. *)
Hoistable(s, t) == touch[t] # s.serial /\ ~PendingClearUses(s, t) /\ ~s.blocked

(* generateMipmapsAfterChange(): t's mipmaps are generated later. *)
DeferMipmaps(s, t, n) ==
  [s EXCEPT !.mips = Mark(s.mips, {t} \cap Mipmapped, n)]

(* glTexSubImage of the base level: uploadTexels() stages the texels for   *)
(* the command buffer, uploadFromBuffer() copies them ahead of it or in    *)
(* order, and generateMipmapsAfterChange() defers the mipmaps.             *)
Upload(t) ==
  /\ Call
  /\ LET valid  == Open(stream)
         ahead  == [valid EXCEPT !.load = NoTimes, !.prelude[t] = now + 1]
         inBody == Encode(UploadBlit(valid, ~PendingClearUses(valid, t)), "upload",
                          Mark(NoTimes, {t}, now + 1)) IN
     /\ stream' = DeferMipmaps(IF Hoistable(valid, t) THEN ahead ELSE inBody, t, now + 1)
     /\ touch' = IF Hoistable(valid, t) THEN touch
                 ELSE Mark(touch, {t}, valid.serial)
  /\ UNCHANGED fence

(* Copies between textures ts, or of buffers (no texture: the pending      *)
(* clear is kept), in a blit.                                              *)
Copy(ts) ==
  /\ Call
  /\ stream' = Encode(Blit(stream, ts = {}), "copy", Mark(NoTimes, ts, now + 1))
  /\ UNCHANGED <<touch, fence>>

(* glDispatchCompute of a program that uses the textures ts. *)
Dispatch(ts) ==
  /\ Call
  /\ stream' = Encode(Compute(stream, ts = {}), "dispatch", Mark(NoTimes, ts, now + 1))
  /\ UNCHANGED <<touch, fence>>

(* glFlush: deferred to the end of the pass while no other thread has a    *)
(* context current (ShareGroup::currentContexts), which may change at any  *)
(* time.                                                                   *)
GLFlush ==
  /\ Call
  /\ \/ stream' = [stream EXCEPT !.flushDeferred = TRUE]
     \/ stream' = Flush(stream, FALSE)
  /\ UNCHANGED <<touch, fence>>

(* glFinish, SwapBuffers, a wait for the commands' serial. *)
Finish ==
  /\ Call
  /\ stream' = Flush(stream, FALSE)
  /\ UNCHANGED <<touch, fence>>

(* Commits that keep the pending clear: a wait for a fence or query of     *)
(* commands whose glFlush was deferred (commitIfDeferred), and those the   *)
(* layer makes of its own accord: a wait for a buffer the GPU uses, a      *)
(* query's, glMemoryBarrier for indirect commands.                         *)
OwnCommit ==
  /\ Call
  /\ stream' = Flush(stream, TRUE)
  /\ UNCHANGED <<touch, fence>>

(* The encoder in progress ends: a timer or occlusion query, a barrier. *)
EndPass ==
  /\ Call
  /\ stream' = EndEncoder(stream)
  /\ UNCHANGED <<touch, fence>>

(* Mutant: only an open encoder counts as work. *)
FenceOfEncoder ==
  /\ Call
  /\ fence' = [serial |-> IF stream.render # NoTarget \/ stream.blit \/ stream.compute
                            THEN stream.serial ELSE stream.last,
               at |-> now + 1]
  /\ UNCHANGED <<stream, touch>>

(* glFenceSync: fenceSerial(). *)
Fence ==
  /\ Call
  /\ IF stream.serial # 0 \/ AnyOf(stream.clear)
       THEN /\ stream' = Open(stream)
            /\ fence' = [serial |-> Open(stream).serial, at |-> now + 1]
       ELSE /\ fence' = [serial |-> stream.last, at |-> now + 1]
            /\ UNCHANGED stream
  /\ UNCHANGED touch

(* What buffer_ takes over: a pending clear that a commit kept, or the     *)
(* rest of a call that found buffer_ committed in its middle, by a draw's  *)
(* commit of large work or a deferred glFlush.                             *)
TakeOver ==
  carries' = (/\ stream'.serial # 0
              /\ IF stream.serial = stream'.serial THEN carries
                 ELSE stream.serial # 0 \/ stream'.next > stream.next + 1 \/ AnyOf(stream.clear))

Done == now = MaxCalls /\ UNCHANGED vars

APICall ==
  \/ \E g \in Targets, ts \in SUBSET Textures : Draw(g, ts \ Attachments[g])
  \/ \E g \in Targets, ts \in SUBSET Textures : OtherPass(g, ts \ Attachments[g])
  \/ \E g \in Targets : \E ts \in (SUBSET Attachments[g]) \ {{}}, full \in BOOLEAN :
        Clear(g, ts, full)
  \/ \E g \in Targets : \E ts \in (SUBSET Attachments[g]) \ {{}} : Invalidate(g, ts)
  \/ \E t \in Textures : Upload(t)
  \/ \E ts \in SUBSET Textures : Copy(ts) \/ Dispatch(ts)
  \/ GLFlush \/ Finish \/ OwnCommit \/ EndPass \/ Fence

Next == (APICall /\ TakeOver) \/ Done

Spec == Init /\ [][Next]_vars

-----------------------------------------------------------------------------
(* Uploads recorded ahead of the command buffer replace nothing an earlier *)
(* command of it uses (the comment on preludeUpload), as long as the calls *)
(* whose work it has began in it: others marked their textures with the    *)
(* serial of the buffer committed before.                                  *)
UploadsInOrder ==
  ~carries =>
    \A t \in Textures : \A i \in DOMAIN stream.body[t] :
      stream.prelude[t] <= stream.body[t][i].at

(* The same for what draws sample, which bindTextures() marks. *)
SamplesBeforeUploads ==
  \A t \in Textures : \A i \in DOMAIN stream.body[t] :
    stream.body[t][i].use = "sample" => stream.prelude[t] <= stream.body[t][i].at

(* The same for what nothing marks: preludeUpload() is "nil once the       *)
(* command buffer has a blit or dispatch of its own", whichever calls it   *)
(* has.  The code does not do this: a deferred glFlush that commits inside *)
(* the copy clears the mark the copy had made.                             *)
Unmarked == {"copy", "dispatch", "mipmaps"}

CopiesBeforeUploads ==
  \A t \in Textures : \A i \in DOMAIN stream.body[t] :
    stream.body[t][i].use \in Unmarked => stream.prelude[t] <= stream.body[t][i].at

(* Two commands of the buffer on one texture, in the wrong order. *)
Swapped(s, t, i, j) == i < j /\ s.body[t][i].at > s.body[t][j].at

(* Draws, clears, uploads, copies and dispatches run in the order of their *)
(* calls: whatever waits (a pending clear) runs before what comes after.   *)
(* Mipmaps and discards may be late, as they are in the code: mipmaps after *)
(* a clear of their base level, a discard after a draw through another     *)
(* framebuffer.  An attachment may be dropped before an older clear or     *)
(* draw writes it, whose contents are undefined by then, and may not       *)
(* before an older read.                                                   *)
CallsInOrder(s) ==
  \A t \in Textures : \A i, j \in DOMAIN s.body[t] :
    Swapped(s, t, i, j) =>
      \/ s.body[t][j].use \in {"mipmaps", "discard"}
      \/ s.body[t][i].use = "discard" /\ s.body[t][j].use \notin Unmarked \cup {"sample"}

(* A fence covers the commands before it: none of them is still waiting,   *)
(* or recorded, in a command buffer after the fence's.  Pending clears and *)
(* deferred mipmaps are not among them in a buffer that took over work: a  *)
(* commit of the layer's own keeps a clear for later, and one inside the   *)
(* generation of mipmaps leaves these to the next buffer.                  *)
FenceCovers ==
  LET late(n)  == 0 < n /\ n < fence.at
      kept     == IF carries THEN {"discard", "clear", "mipmaps"} ELSE {"discard"}
      work(t)  == {stream.body[t][i] : i \in DOMAIN stream.body[t]} IN
  (\E t \in Textures : \/ late(stream.mips[t]) \/ late(stream.prelude[t])
                       \/ \E k \in work(t) : k.use \notin kept /\ late(k.at))
    => stream.serial # 0 /\ stream.serial <= fence.serial

-----------------------------------------------------------------------------
(* The inductive invariant behind RunsInOrder and FenceCovers, in parts    *)
(* that hold of the stream within a call as well: s is a stream after n    *)
(* calls, marks are the serials of the textures, f is a fence.             *)

(* The serial of the command buffer being recorded, or of the next one. *)
Recording(s) == IF s.serial # 0 THEN s.serial ELSE s.next

(* Serials are given in their order. *)
Serials(s, f) == s.serial < s.next /\ s.last < s.next /\ f.serial < s.next

(* Everything recorded or waiting is the work of calls made. *)
Past(s, n) ==
  \A t \in Textures :
    /\ s.clear[t] <= n /\ s.store[t] <= n /\ s.load[t] <= n
    /\ s.mips[t] <= n /\ s.prelude[t] <= n
    /\ \A i \in DOMAIN s.body[t] : s.body[t][i].at <= n

(* One encoder at most, of the command buffer being recorded: Metal aborts *)
(* on two, and on one left open at a commit.  Without a command buffer     *)
(* nothing is recorded, and no mipmaps wait.                               *)
Encoders(s) ==
  /\ ~(s.blit /\ s.compute)
  /\ s.render # NoTarget => ~s.blit /\ ~s.compute
  /\ s.serial = 0 => /\ s.render = NoTarget /\ ~s.blit /\ ~s.compute
                     /\ s.prelude = NoTimes /\ s.mips = NoTimes
                     /\ \A t \in Textures : s.body[t] = <<>>

(* A pending clear is of its target's attachments, is not of the pass in   *)
(* progress, and nothing recorded on its textures is later.                *)
PendingLast(s) ==
  /\ AnyOf(s.clear) => s.clearTarget # NoTarget /\ s.render # s.clearTarget
  /\ \A t \in Textures : s.clear[t] # 0 =>
       /\ t \in Attachments[s.clearTarget]
       /\ \A i \in DOMAIN s.body[t] :
            s.body[t][i].use # "discard" => s.body[t][i].at <= s.clear[t]

(* Commands that draws sampled through are not overtaken ... *)
SamplesKept(s) ==
  \A t \in Textures : \A i \in DOMAIN s.body[t] :
    s.body[t][i].use = "sample" => s.prelude[t] <= s.body[t][i].at

(* ... since what draws sample is marked with the serial of its buffer. *)
SamplesMarked(s, marks) ==
  \A t \in Textures : \A i \in DOMAIN s.body[t] :
    s.body[t][i].use = "sample" => marks[t] = s.serial

(* What waits for a texture is later than what was uploaded to it ahead of *)
(* the command buffer.  The pass in progress marked what it does not store.*)
WaitsLater(s, marks) ==
  \A t \in Textures :
    /\ s.clear[t] # 0 => s.prelude[t] <= s.clear[t]
    /\ s.store[t] # 0 => s.prelude[t] <= s.store[t] /\ s.render # NoTarget /\ marks[t] = s.serial
    /\ s.load[t] # 0 => /\ s.prelude[t] <= s.load[t]
                        /\ s.discardTarget # NoTarget /\ t \in Attachments[s.discardTarget]
    /\ s.mips[t] # 0 => s.prelude[t] <= s.mips[t] /\ t \in Mipmapped

(* A command buffer of calls that began in it: whatever it uses is marked, *)
(* or no upload runs ahead of it any more; what waits will use what is     *)
(* marked.                                                                 *)
OwnWork(s, marks) ==
  /\ \A t \in Textures :
       /\ s.body[t] # <<>> => s.blocked \/ marks[t] = Recording(s)
       /\ \A i \in DOMAIN s.body[t] : s.prelude[t] <= s.body[t][i].at
  /\ AnyOf(s.clear) => \A t \in Attachments[s.clearTarget] : marks[t] = Recording(s)

(* A command buffer begun after the fence has no work of before it, but    *)
(* what a buffer that takes over work may have (own: it does not).         *)
NoneLate(s, f, own) ==
  LET late(n) == 0 < n /\ n < f.at
      kept    == IF own THEN {"discard"} ELSE {"discard", "clear", "mipmaps"} IN
  f.serial < Recording(s) =>
    \A t \in Textures :
      /\ ~late(s.mips[t]) /\ ~late(s.prelude[t]) /\ (own => ~late(s.clear[t]))
      /\ \A i \in DOMAIN s.body[t] : s.body[t][i].use \notin kept => ~late(s.body[t][i].at)

Good(s, n, marks, f) ==
  /\ Serials(s, f) /\ Past(s, n) /\ Encoders(s) /\ PendingLast(s)
  /\ SamplesKept(s) /\ SamplesMarked(s, marks) /\ CallsInOrder(s) /\ WaitsLater(s, marks)

(* The command buffer being recorded took over nothing. *)
Own == stream.serial # 0 /\ ~carries

IInv ==
  /\ TypeOK
  /\ fence.at <= now
  /\ Good(stream, now, touch, fence)
  /\ stream.serial = 0 => ~stream.blocked /\ ~carries
  /\ Own => OwnWork(stream, touch)
  /\ NoneLate(stream, fence, Own)

(* The GPU runs what the calls ask for in an order that gives their        *)
(* results, and no encoder is left open: all of the above.                 *)
RunsInOrder == IInv /\ SamplesBeforeUploads /\ UploadsInOrder

=============================================================================

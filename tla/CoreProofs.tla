------------------------------ MODULE CoreProofs ------------------------------
(***************************************************************************)
(* Proofs about three parts of the core that share no state: the memory a  *)
(* context's command buffers hand out (TransientAllocator), its occlusion  *)
(* queries (OcclusionQueries), and the pipeline cache of a share group     *)
(* (PipelineCache), checked together on small instances in MCCore; and     *)
(* about what the settings application does to games (MinecraftFix,        *)
(* OpenMWFix), checked in MCShared.                                        *)
(***************************************************************************)
EXTENDS TransientAllocator, OcclusionQueries, PipelineCache, OpenMWFix, FiniteSetTheorems,
        SequenceTheorems, TLAPS

-----------------------------------------------------------------------------
(***************************************************************************)
(* Proofs about TransientAllocator, for chunks, sizes and alignments of    *)
(* every size: no two allocations of work that is not complete overlap.    *)
(***************************************************************************)

(* An aligned offset is not before the one it is for. *)
LEMMA AlignedUp ==
  ASSUME NEW n \in Nat, NEW a \in Nat \ {0}
  PROVE  Aligned(n, a) \in Nat /\ Aligned(n, a) >= n
<1> DEFINE x == n + a - 1
<1>1. x \in Nat /\ a \in Nat /\ a > 0
  OBVIOUS
<1>2. x \div a \in Nat /\ x % a \in 0 .. a - 1 /\ x = a * (x \div a) + (x % a)
  BY <1>1
<1> QED
  BY <1>1, <1>2, SMTT(30) DEF Aligned

(* A region taken above everything its chunk handed out for incomplete     *)
(* work overlaps none of them.                                             *)
LEMMA TakeDisjoint ==
  ASSUME IInv, NEW c, NEW start \in Nat, NEW size \in Nat,
         \A r \in regions : r.chunk = c => End(r) <= start,
         Take(c, start, size)
  PROVE  RegionsDisjoint'
<1> SUFFICES ASSUME NEW q \in regions', NEW r \in regions', q # r, q.chunk = r.chunk
             PROVE  End(q) <= r.start \/ End(r) <= q.start
  BY DEF RegionsDisjoint, End
<1> DEFINE new == [chunk |-> c, start |-> start, size |-> size, serial |-> serial]
<1>1. q \in regions \cup {new} /\ r \in regions \cup {new}
  BY DEF Take
<1>2. CASE q \in regions /\ r \in regions
  BY <1>2 DEF IInv, RegionsDisjoint
<1>3. CASE q = new /\ r \in regions
  BY <1>3 DEF End
<1>4. CASE q \in regions /\ r = new
  BY <1>4 DEF End
<1> QED
  BY <1>1, <1>2, <1>3, <1>4

LEMMA AppendStep ==
  ASSUME IInv, NEW size \in Sizes, NEW a \in Alignments, AppendRegion(size, a)
  PROVE  IInv'
<1> USE AllocatorAssumption DEF IInv
<1> DEFINE start == Aligned(chunks[current].used, a)
           new   == [chunk |-> current, start |-> start, size |-> size, serial |-> serial]
<1>1. size \in Nat \ {0} /\ a \in Nat \ {0}
  OBVIOUS
<1>2. current \in DOMAIN chunks /\ chunks[current] \in Chunk /\ current \in Nat
  BY DEF AppendRegion, Fits, TypeOK
<1>3. start \in Nat /\ start >= chunks[current].used
  BY <1>1, <1>2, AlignedUp DEF Chunk
<1>4. start + size <= chunks[current].length
  BY DEF AppendRegion, Fits
<1>5. /\ DOMAIN chunks' = DOMAIN chunks
      /\ \A c \in DOMAIN chunks : c # current => chunks'[c] = chunks[c]
      /\ chunks'[current] = [length |-> chunks[current].length, used |-> start + size,
                             last |-> Larger(chunks[current].last, serial)]
  BY <1>2 DEF AppendRegion, Chunk, TypeOK
<1>6. Larger(chunks[current].last, serial) = serial
  BY <1>2 DEF Larger, Recorded, Chunk, TypeOK
<1>7. regions' = regions \cup {new} /\ UNCHANGED <<current, serial, completed, made>>
  BY DEF AppendRegion, Take
<1>8. TypeOK'
  <2>1. chunks' \in [DOMAIN chunks' -> Chunk]
    BY <1>1, <1>2, <1>3, <1>5, <1>6 DEF TypeOK, Chunk, AppendRegion
  <2>2. new \in Region
    BY <1>1, <1>2, <1>3 DEF Region, TypeOK
  <2> QED
    BY <2>1, <2>2, <1>5, <1>7 DEF TypeOK
<1>9. Recorded'
  <2>1. \A c \in DOMAIN chunks' : chunks'[c].used <= chunks'[c].length /\ chunks'[c].last <= serial'
    BY <1>4, <1>5, <1>6, <1>7, <1>2 DEF Recorded, TypeOK, Chunk
  <2>2. ASSUME NEW r \in regions'
        PROVE  /\ completed' < r.serial /\ r.chunk \in DOMAIN chunks'
               /\ End(r) <= chunks'[r.chunk].used /\ r.serial <= chunks'[r.chunk].last
    <3>1. CASE r = new
      BY <3>1, <1>2, <1>5, <1>6, <1>7, <1>3, <1>1 DEF End, TypeOK
    <3>2. CASE r \in regions
      <4>1. /\ r \in Region /\ r.chunk \in DOMAIN chunks /\ completed < r.serial
            /\ End(r) <= chunks[r.chunk].used /\ r.serial <= chunks[r.chunk].last
        BY <3>2 DEF Recorded, TypeOK
      <4>2. CASE r.chunk = current
        <5>1. End(r) <= start + size
          BY <4>1, <4>2, <1>1, <1>2, <1>3 DEF End, Region, Chunk
        <5>2. r.serial <= serial
          BY <4>1, <4>2, <1>2 DEF Recorded, Region, Chunk, TypeOK
        <5> QED
          BY <5>1, <5>2, <4>1, <4>2, <1>5, <1>6, <1>7
      <4>3. CASE r.chunk # current
        BY <4>1, <4>3, <1>5, <1>7
      <4> QED
        BY <4>2, <4>3
    <3> QED
      BY <3>1, <3>2, <1>7
  <2> QED
    BY <2>1, <2>2 DEF Recorded, End
<1>10. RegionsDisjoint'
  <2>1. \A r \in regions : r.chunk = current => End(r) <= start
    BY <1>2, <1>3 DEF Recorded, TypeOK, Region, Chunk, End
  <2> QED
    BY <2>1, <1>1, <1>3, TakeDisjoint DEF AppendRegion
<1> QED
  BY <1>8, <1>9, <1>10

LEMMA RewindStep ==
  ASSUME IInv, NEW size \in Sizes, NEW a \in Alignments, Rewind(size, a)
  PROVE  IInv'
<1> USE AllocatorAssumption DEF IInv
<1>1. PICK c \in DOMAIN chunks :
         /\ Reusable(c, size)
         /\ chunks' = [chunks EXCEPT ![c].used = size, ![c].last = serial]
         /\ current' = c /\ Take(c, 0, size)
  BY DEF Rewind
<1> DEFINE new == [chunk |-> c, start |-> 0, size |-> size, serial |-> serial]
<1>2. size \in Nat \ {0} /\ c \in Nat /\ chunks[c] \in Chunk
  BY <1>1 DEF TypeOK
<1>3. /\ DOMAIN chunks' = DOMAIN chunks
      /\ \A d \in DOMAIN chunks : d # c => chunks'[d] = chunks[d]
      /\ chunks'[c] = [length |-> chunks[c].length, used |-> size, last |-> serial]
  BY <1>1, <1>2 DEF Chunk, TypeOK
<1>4. regions' = regions \cup {new} /\ UNCHANGED <<serial, completed, made>>
  BY <1>1 DEF Rewind, Take
<1>5. \A r \in regions : r.chunk # c
  BY <1>1, <1>2 DEF Reusable, IsComplete, Recorded, TypeOK, Region, Chunk
<1>6. TypeOK'
  <2>1. chunks' \in [DOMAIN chunks' -> Chunk]
    BY <1>1, <1>2, <1>3 DEF TypeOK, Chunk
  <2>2. new \in Region
    BY <1>2 DEF Region, TypeOK
  <2> QED
    BY <2>1, <2>2, <1>1, <1>3, <1>4 DEF TypeOK
<1>7. Recorded'
  <2>1. \A d \in DOMAIN chunks' : chunks'[d].used <= chunks'[d].length /\ chunks'[d].last <= serial'
    BY <1>1, <1>2, <1>3, <1>4 DEF Recorded, Reusable, TypeOK, Chunk
  <2>2. ASSUME NEW r \in regions'
        PROVE  /\ completed' < r.serial /\ r.chunk \in DOMAIN chunks'
               /\ End(r) <= chunks'[r.chunk].used /\ r.serial <= chunks'[r.chunk].last
    <3>1. CASE r = new
      BY <3>1, <1>2, <1>3, <1>4 DEF End, TypeOK
    <3>2. CASE r \in regions
      BY <3>2, <1>3, <1>4, <1>5 DEF Recorded, TypeOK
    <3> QED
      BY <3>1, <3>2, <1>4
  <2> QED
    BY <2>1, <2>2 DEF Recorded, End
<1>8. RegionsDisjoint'
  BY <1>1, <1>2, <1>5, TakeDisjoint
<1> QED
  BY <1>6, <1>7, <1>8

(* The chunks that stay hold every region of incomplete work. *)
LEMMA KeptHolds ==
  ASSUME IInv, NEW size, NEW r \in regions
  PROVE  r.chunk \in Kept(size)
BY DEF IInv, Kept, Recorded, IsComplete, TypeOK, Region, Chunk

LEMMA NewChunkStep ==
  ASSUME IInv, NEW size \in Sizes, NEW a \in Alignments, NewChunk(size, a)
  PROVE  IInv'
<1> USE AllocatorAssumption DEF IInv
<1> DEFINE c   == made + 1
           new == [chunk |-> c, start |-> 0, size |-> size, serial |-> serial]
<1>1. size \in Nat \ {0} /\ c \in Nat /\ c \notin DOMAIN chunks
  BY DEF TypeOK
<1>2. Kept(size) \subseteq DOMAIN chunks
  BY DEF Kept
<1>3. /\ DOMAIN chunks' = Kept(size) \cup {c}
      /\ \A d \in Kept(size) : chunks'[d] = chunks[d]
      /\ chunks'[c] = [length |-> Larger(ChunkSize, size), used |-> size, last |-> serial]
  BY <1>1, <1>2 DEF NewChunk
<1>4. /\ regions' = regions \cup {new} /\ made' = c /\ current' = c
      /\ UNCHANGED <<serial, completed>>
  BY DEF NewChunk, Take
<1>5. Larger(ChunkSize, size) \in Nat /\ size <= Larger(ChunkSize, size)
  BY <1>1 DEF Larger
<1>6. \A r \in regions : r.chunk \in Kept(size) /\ r.chunk # c
  BY <1>1, <1>2, KeptHolds
<1>7. TypeOK'
  <2>1. chunks' = [d \in DOMAIN chunks' |-> chunks'[d]]
    BY <1>3 DEF NewChunk
  <2>2. \A d \in DOMAIN chunks' : chunks'[d] \in Chunk
    BY <1>1, <1>2, <1>3, <1>5 DEF TypeOK, Chunk
  <2>3. DOMAIN chunks' \subseteq 1 .. made'
    BY <1>2, <1>3, <1>4 DEF TypeOK
  <2>4. new \in Region
    BY <1>1 DEF Region, TypeOK
  <2> QED
    BY <2>1, <2>2, <2>3, <2>4, <1>1, <1>3, <1>4 DEF TypeOK
<1>8. Recorded'
  <2>1. \A d \in DOMAIN chunks' : chunks'[d].used <= chunks'[d].length /\ chunks'[d].last <= serial'
    BY <1>2, <1>3, <1>4, <1>5 DEF Recorded, TypeOK
  <2>2. ASSUME NEW r \in regions'
        PROVE  /\ completed' < r.serial /\ r.chunk \in DOMAIN chunks'
               /\ End(r) <= chunks'[r.chunk].used /\ r.serial <= chunks'[r.chunk].last
    <3>1. CASE r = new
      BY <3>1, <1>1, <1>3, <1>4 DEF End, TypeOK
    <3>2. CASE r \in regions
      BY <3>2, <1>3, <1>4, <1>6 DEF Recorded
    <3> QED
      BY <3>1, <3>2, <1>4
  <2> QED
    BY <2>1, <2>2 DEF Recorded, End
<1>9. RegionsDisjoint'
  BY <1>1, <1>6, TakeDisjoint DEF NewChunk
<1> QED
  BY <1>7, <1>8, <1>9

LEMMA NoMemoryStep ==
  ASSUME IInv, NEW size \in Sizes, NEW a \in Alignments, NoMemory(size, a)
  PROVE  IInv'
<1> USE DEF IInv
<1>1. Kept(size) \subseteq DOMAIN chunks
  BY DEF Kept
<1>2. /\ DOMAIN chunks' = Kept(size) /\ \A d \in Kept(size) : chunks'[d] = chunks[d]
      /\ UNCHANGED <<current, serial, completed, made, regions>>
  BY DEF NoMemory
<1>3. \A r \in regions : r.chunk \in Kept(size)
  BY KeptHolds
<1>4. TypeOK'
  <2>1. chunks' \in [DOMAIN chunks' -> Chunk]
    BY <1>1, <1>2 DEF TypeOK, NoMemory
  <2>2. current' \in DOMAIN chunks' \cup {0}
    BY <1>2 DEF TypeOK, Kept
  <2> QED
    BY <2>1, <2>2, <1>1, <1>2 DEF TypeOK
<1>5. Recorded'
  BY <1>1, <1>2, <1>3 DEF Recorded, End
<1>6. RegionsDisjoint'
  BY <1>2 DEF RegionsDisjoint, End
<1> QED
  BY <1>4, <1>5, <1>6

LEMMA CommitStep == ASSUME IInv, Commit PROVE IInv'
<1>1. TypeOK'
  BY DEF IInv, Commit, TypeOK
<1>2. Recorded'
  BY DEF IInv, Commit, Recorded, TypeOK, Chunk, End
<1>3. RegionsDisjoint'
  BY DEF IInv, Commit, RegionsDisjoint, End
<1> QED
  BY <1>1, <1>2, <1>3 DEF IInv

LEMMA CompleteStep == ASSUME IInv, Complete PROVE IInv'
<1>1. TypeOK'
  BY DEF IInv, Complete, TypeOK
<1>2. Recorded'
  BY DEF IInv, Complete, Recorded, TypeOK, Region, End
<1>3. RegionsDisjoint'
  BY DEF IInv, Complete, RegionsDisjoint, End
<1> QED
  BY <1>1, <1>2, <1>3 DEF IInv

(* The invariant holds throughout: the allocator's bookkeeping matches the *)
(* regions in use (TransientAllocator::allocate).                          *)
THEOREM TransientInvariance == Spec => []IInv
<1>1. Init => IInv
  BY DEF Init, IInv, TypeOK, Recorded, RegionsDisjoint
<1>2. IInv /\ [Next]_vars => IInv'
  <2> SUFFICES ASSUME IInv, [Next]_vars PROVE IInv'
    OBVIOUS
  <2>1. ASSUME NEW size \in Sizes, NEW a \in Alignments,
               AppendRegion(size, a) \/ Rewind(size, a) \/ NewChunk(size, a) \/ NoMemory(size, a)
        PROVE  IInv'
    BY <2>1, AppendStep, RewindStep, NewChunkStep, NoMemoryStep
  <2>2. CASE Commit
    BY <2>2, CommitStep
  <2>3. CASE Complete
    BY <2>3, CompleteStep
  <2>4. CASE UNCHANGED vars
    BY <2>4 DEF IInv, TypeOK, Recorded, RegionsDisjoint, End, vars
  <2> QED
    BY <2>1, <2>2, <2>3, <2>4 DEF Next
<1> QED
  BY <1>1, <1>2, PTL DEF Spec

(* Memory that recorded or running work reads is not handed out again.     *)
THEOREM RegionsStayApart == Spec => []RegionsDisjoint
<1>1. IInv => RegionsDisjoint
  BY DEF IInv
<1> QED
  BY <1>1, TransientInvariance, PTL

(* Every region in use lies within a chunk the allocator keeps.            *)
THEOREM RegionsAreInChunks == Spec => []RegionsFit
<1>1. IInv => RegionsFit
  BY DEF IInv, RegionsFit, Recorded, TypeOK, Region, Chunk, End
<1> QED
  BY <1>1, TransientInvariance, PTL


-----------------------------------------------------------------------------
(***************************************************************************)
(* Proofs about OcclusionQueries, for any queries and targets, any number  *)
(* of slots from two on, and any bounds.                                   *)
(***************************************************************************)

-----------------------------------------------------------------------------
(***************************************************************************)
(* What the stream's functions do.  No slot that was allocated is one less.*)
(***************************************************************************)
Keeps(s, r) == \A n \in Nat, i \in Nat : Allocated(s, n, i) => Allocated(r, n, i)

LEMMA KeepsOn ==
  ASSUME NEW s, NEW r, NEW x, Keeps(s, r), Keeps(r, x)
  PROVE  Keeps(s, x)
BY DEF Keeps

LEMMA FlushedFits ==
  ASSUME QueriesAssumption, NEW s \in Stream, StreamFits(s)
  PROVE  LET r == Flushed(s) IN
         /\ r \in Stream /\ StreamFits(r) /\ Keeps(s, r)
         /\ r.serial = 0 /\ ~r.render /\ ~r.visibility
         /\ r.last = (IF s.serial = 0 THEN s.last ELSE s.serial)
         /\ r.pass = s.pass /\ r.wanted = s.wanted /\ r.usedBefore = s.usedBefore
<1> DEFINE r == Flushed(s)
<1>1. CASE s.serial = 0
  <2>1. r = [s EXCEPT !.render = FALSE]
    BY <1>1 DEF Flushed, EndPassOf
  <2>2. /\ r \in Stream
        /\ r.serial = 0 /\ ~r.render /\ r.last = s.last /\ r.pass = s.pass /\ r.wanted = s.wanted
        /\ r.usedBefore = s.usedBefore /\ r.visibility = s.visibility /\ r.used = s.used
    BY <1>1, <2>1 DEF Stream
  <2>3. ~r.visibility
    BY <1>1, <2>2 DEF StreamFits
  <2> HIDE DEF r
  <2> QED BY <1>1, <2>2, <2>3 DEF StreamFits, Keeps, Allocated, r
<1>2. CASE s.serial # 0
  <2>1. r = [s EXCEPT !.render = FALSE, !.last = s.serial, !.serial = 0, !.visibility = FALSE]
    BY <1>2 DEF Flushed, EndPassOf, Stream
  <2>2. /\ r \in Stream
        /\ r.serial = 0 /\ ~r.render /\ r.last = s.serial /\ r.pass = s.pass /\ r.wanted = s.wanted
        /\ r.usedBefore = s.usedBefore /\ ~r.visibility
    <3> HIDE DEF r
    <3>1. r \in Stream
      BY <2>1 DEF Stream
    <3>2. r.serial = 0 /\ ~r.render /\ r.last = s.serial /\ ~r.visibility
      BY <2>1 DEF Stream
    <3>3. r.pass = s.pass /\ r.wanted = s.wanted /\ r.usedBefore = s.usedBefore
      BY <2>1 DEF Stream
    <3> QED BY <3>1, <3>2, <3>3
  <2>3. s.serial \in Nat /\ s.last \in Nat /\ s.serial = s.last + 1
    BY <1>2 DEF StreamFits, Stream
  <2> HIDE DEF r
  <2>4. StreamFits(r)
    BY <2>2 DEF StreamFits
  <2>5. Keeps(s, r)
    BY <2>2, <2>3 DEF Keeps, Allocated
  <2> QED BY <1>2, <2>2, <2>4, <2>5 DEF r
<1> QED BY <1>1, <1>2

LEMMA StartPassFits ==
  ASSUME QueriesAssumption, NEW s \in Stream, StreamFits(s)
  PROVE  LET r == StartPass(s) IN
         /\ r \in Stream /\ StreamFits(r) /\ Keeps(s, r)
         /\ r.serial = s.last + 1 /\ r.render /\ r.last = s.last
         /\ r.pass = s.pass + 1 /\ r.offset = 0
         /\ r.wanted = s.wanted /\ r.usedBefore = s.usedBefore
         /\ r.passVisibility = (s.wanted \/ s.usedBefore)
         /\ r.passVisibility /\ SlotAvailable(s) => r.used < NSlots
<1> DEFINE r == StartPass(s)
           b == s.wanted \/ s.usedBefore
           u == IF b /\ ~s.visibility THEN 1 ELSE s.used
           v == s.visibility \/ b
           n == s.last + 1
           o == Opened(s)
<1>1. /\ s.serial \in Nat /\ s.last \in Nat /\ s.used \in 0 .. NSlots /\ s.pass \in Nat
      /\ NSlots \in Nat /\ NSlots > 1
  BY DEF Stream, QueriesAssumption
<1>2. o = [s EXCEPT !.serial = n]
  BY <1>1 DEF Opened, StreamFits, Stream
<1>3. b \in BOOLEAN /\ v \in BOOLEAN
  BY DEF Stream
<1>4. u \in 0 .. NSlots /\ n \in Nat /\ n # 0 /\ 0 \in Slots
  BY <1>1 DEF Slots
<1>5. r = [s EXCEPT !.serial = n, !.render = TRUE, !.pass = s.pass + 1, !.passVisibility = b,
                    !.visibility = v, !.used = u, !.offset = 0]
  <2>1. /\ o.pass = s.pass /\ o.visibility = s.visibility /\ o.used = s.used
    BY <1>2 DEF Stream
  <2>2. r = [o EXCEPT !.render = TRUE, !.pass = s.pass + 1, !.passVisibility = b,
                      !.visibility = v, !.used = u, !.offset = 0]
    BY <2>1 DEF StartPass
  <2> QED BY <1>2, <2>2 DEF Stream
<1>6. (s.visibility => s.used # 0) /\ (s.visibility => s.serial = n)
  BY DEF StreamFits
<1>7. (v => u # 0) /\ (b => v) /\ (b /\ SlotAvailable(s) => u < NSlots)
      /\ (s.visibility => v /\ u = s.used)
  BY <1>1, <1>6 DEF SlotAvailable
<1> HIDE DEF r, b, u, v, n, o
<1>8. /\ r \in Stream
      /\ r.serial = n /\ r.render /\ r.last = s.last /\ r.pass = s.pass + 1 /\ r.offset = 0
      /\ r.wanted = s.wanted /\ r.usedBefore = s.usedBefore /\ r.passVisibility = b
      /\ r.visibility = v /\ r.used = u
  <2>1. s.pass + 1 \in Nat
    BY <1>1
  <2>2. r \in Stream
    BY <1>3, <1>4, <1>5, <2>1 DEF Stream
  <2>3. r.serial = n /\ r.render /\ r.last = s.last /\ r.pass = s.pass + 1 /\ r.offset = 0
    BY <1>5 DEF Stream
  <2>4. /\ r.wanted = s.wanted /\ r.usedBefore = s.usedBefore /\ r.passVisibility = b
        /\ r.visibility = v /\ r.used = u
    BY <1>5 DEF Stream
  <2> QED BY <2>2, <2>3, <2>4
<1>9. StreamFits(r)
  BY <1>4, <1>7, <1>8 DEF StreamFits, n
<1>10. Keeps(s, r)
  BY <1>6, <1>7, <1>8 DEF Keeps, Allocated
<1> QED BY <1>7, <1>8, <1>9, <1>10 DEF r, b, n

LEMMA WantFits ==
  ASSUME NEW s \in Stream, StreamFits(s), NEW turnOn \in BOOLEAN
  PROVE  LET r == Want(s, turnOn) IN
         /\ r \in Stream /\ StreamFits(r) /\ Keeps(s, r)
         /\ r.serial = s.serial /\ r.last = s.last /\ r.pass = s.pass /\ r.offset = s.offset
         /\ r.wanted = turnOn /\ (r.render => s.render)
         /\ (r.render /\ turnOn => r.passVisibility)
<1> DEFINE r == Want(s, turnOn)
           x == s.usedBefore \/ turnOn
           e == s.render /\ (turnOn => s.passVisibility)
<1>1. x \in BOOLEAN /\ e \in BOOLEAN
  BY DEF Stream
<1>2. r = [s EXCEPT !.wanted = turnOn, !.usedBefore = x, !.render = e]
  BY DEF Want
<1> HIDE DEF r, x
<1>3. /\ r \in Stream
      /\ r.serial = s.serial /\ r.last = s.last /\ r.pass = s.pass /\ r.offset = s.offset
      /\ r.wanted = turnOn /\ r.render = e /\ r.passVisibility = s.passVisibility
      /\ r.visibility = s.visibility /\ r.used = s.used
  BY <1>1, <1>2 DEF Stream
<1>4. StreamFits(r)
  BY <1>3 DEF StreamFits
<1>5. Keeps(s, r)
  BY <1>3 DEF Keeps, Allocated
<1> QED BY <1>3, <1>4, <1>5 DEF r

LEMMA PassForFits ==
  ASSUME QueriesAssumption, NEW s \in Stream, StreamFits(s), NEW fresh \in BOOLEAN
  PROVE  LET r == PassFor(s, fresh) IN
         /\ r \in Stream /\ StreamFits(r) /\ Keeps(s, r)
         /\ r.render /\ r.serial = r.last + 1 /\ r.last = s.last /\ r.wanted = s.wanted
         /\ \/ r = s /\ s.render
            \/ /\ r.pass = s.pass + 1 /\ r.offset = 0
               /\ r.passVisibility = (s.wanted \/ s.usedBefore)
               /\ r.passVisibility /\ SlotAvailable(s) => r.used < NSlots
<1>1. CASE fresh \/ ~s.render
  BY <1>1, StartPassFits DEF PassFor
<1>2. CASE ~(fresh \/ ~s.render)
  BY <1>2 DEF PassFor, StreamFits, Keeps
<1> QED BY <1>1, <1>2

Count == [draws : SUBSET Calls, samples : Nat]

(* What a draw's count leaves alone, but for slot 0, and where it counts.  *)
CountsAt(r, c, s, n, size) ==
  /\ r \in [Serials -> [Slots -> Count]]
  /\ \A x \in Serials, i \in Slots \ {0} :
       ~(s.passVisibility /\ x = s.serial /\ i = s.offset) => r[x][i] = c[x][i]
  /\ s.passVisibility /\ s.offset # 0 =>
       /\ r[s.serial][s.offset].draws = c[s.serial][s.offset].draws \cup {n}
       /\ r[s.serial][s.offset].samples = c[s.serial][s.offset].samples + size

LEMMA CountedAt ==
  ASSUME QueriesAssumption, NEW c \in [Serials -> [Slots -> Count]], NEW s \in Stream,
         s.serial \in Serials, NEW starts \in BOOLEAN, NEW n \in Calls, NEW size \in Nat,
         NEW r, r = Counted(c, s, starts, n, size)
  PROVE  CountsAt(r, c, s, n, size)
<1> DEFINE begun == IF starts THEN [c EXCEPT ![s.serial][0] = Nowhere] ELSE c
           o == s.offset
           e == s.serial
           k == [draws |-> begun[e][o].draws \cup {n}, samples |-> begun[e][o].samples + size]
<1>1. 0 \in Slots /\ o \in Slots /\ Nowhere \in Count
  BY DEF QueriesAssumption, Slots, Stream, Nowhere, Count
<1>2. /\ begun \in [Serials -> [Slots -> Count]]
      /\ \A x \in Serials, i \in Slots \ {0} : begun[x][i] = c[x][i]
  BY <1>1
<1>3. r = IF ~s.passVisibility THEN begun ELSE [begun EXCEPT ![e][o] = k]
  BY DEF Counted
<1> HIDE DEF begun
<1>4. begun[e][o] \in Count
  BY <1>1, <1>2
<1>5. k \in Count
  BY <1>4 DEF Count
<1> HIDE DEF k
<1>6. r \in [Serials -> [Slots -> Count]]
  BY <1>1, <1>2, <1>3, <1>5
<1>7. ASSUME NEW x \in Serials, NEW i \in Slots \ {0}, ~(s.passVisibility /\ x = e /\ i = o)
      PROVE  r[x][i] = c[x][i]
  <2>1. r[x][i] = begun[x][i]
    BY <1>1, <1>2, <1>3, <1>7
  <2> QED BY <1>2, <2>1
<1>8. ASSUME s.passVisibility, o # 0
      PROVE  r[e][o].draws = c[e][o].draws \cup {n} /\ r[e][o].samples = c[e][o].samples + size
  <2>1. r[e][o] = k
    BY <1>1, <1>2, <1>3, <1>8
  <2>2. begun[e][o] = c[e][o]
    BY <1>1, <1>2, <1>8
  <2> QED BY <2>1, <2>2 DEF k
<1> QED BY <1>6, <1>7, <1>8 DEF CountsAt

-----------------------------------------------------------------------------
(***************************************************************************)
(* The invariant in parts.                                                 *)
(***************************************************************************)
CountsFit == SlotsAllocated /\ SlotIsCurrent /\ SlotsApart /\ DrawsCounted /\ NoWrap

LEMMA Parts ==
  ResultExact <=> QueriesTypeOK /\ Fitting /\ Counting /\ Lives /\ CountsFit /\ ResultIsDrawn
BY DEF ResultExact, CountsFit

LEMMA PartsAfter ==
  ASSUME QueriesTypeOK', Fitting', Counting', Lives', CountsFit', ResultIsDrawn'
  PROVE  ResultExact'
BY DEF ResultExact, CountsFit

LEMMA SlotTyped ==
  ASSUME QueriesTypeOK, NEW q \in Queries, NEW k \in query[q].slots
  PROVE  k \in Serials \X Slots /\ k[1] \in Nat /\ k[2] \in Nat
BY DEF QueriesTypeOK, Query, Serials, Slots

(* Steps that leave the queries and their slots alone: what goes on in the *)
(* stream ends the pass, if anything.                                      *)
LEMMA QuietStep ==
  ASSUME QueriesAssumption, ResultExact, UNCHANGED <<active, query, slot, epoch, counts, drawn>>,
         stream' \in Stream, StreamFits(stream'), Keeps(stream, stream'),
         stream' = stream \/ ~stream'.render,
         stream'.pass = stream.pass, stream'.wanted = stream.wanted,
         stream.last <= stream'.last, stream'.last <= now', now' \in 0 .. MaxCalls,
         done' \in Nat, done' <= stream'.last,
         asked' \subseteq {q \in Queries : q \notin Active /\ ~query[q].final}
  PROVE  ResultExact'
<1>1. QueriesTypeOK /\ Fitting /\ Counting /\ Lives /\ CountsFit /\ ResultIsDrawn
  BY Parts
<1>2. QueriesTypeOK'
  BY <1>1 DEF QueriesTypeOK
<1>3. Active' = Active
  BY DEF Active
<1>4. Fitting'
  <2>1. stream.last \in Nat /\ stream'.last \in Nat
    BY <1>1 DEF QueriesTypeOK, Stream
  <2>2. ASSUME NEW q \in Queries
        PROVE  query[q].pending <= stream'.last + 1
    <3>1. query[q].pending \in Nat
      BY <1>1 DEF QueriesTypeOK, Query
    <3> QED BY <1>1, <2>1, <3>1 DEF Fitting
  <2> QED BY <1>1, <2>2 DEF Fitting
<1>5. Counting'
  BY <1>1, <1>3 DEF Counting
<1>6. Lives'
  BY <1>1, <1>3 DEF Lives
<1>7. SlotsAllocated'
  <2>1. ASSUME NEW q \in Queries, NEW k \in query[q].slots
        PROVE  Allocated(stream', k[1], k[2])
    BY <1>1, SlotTyped DEF CountsFit, SlotsAllocated, Keeps
  <2>2. ASSUME NEW n \in Serials, NEW i \in Slots \ {0}, ~Allocated(stream', n, i)
        PROVE  counts[n][i] = Nowhere
    <3>1. n \in Nat /\ i \in Nat
      BY DEF QueriesAssumption, Serials, Slots
    <3>2. ~Allocated(stream, n, i)
      BY <2>2, <3>1 DEF Keeps
    <3> QED BY <1>1, <3>2 DEF CountsFit, SlotsAllocated
  <2> QED BY <2>1, <2>2 DEF SlotsAllocated
<1>8. SlotIsCurrent'
  BY <1>1, <1>3 DEF CountsFit, SlotIsCurrent, SlotCurrent
<1>9. (SlotsApart /\ DrawsCounted /\ NoWrap /\ ResultIsDrawn)'
  BY <1>1, <1>3 DEF CountsFit, SlotsApart, DrawsCounted, NoWrap, ResultIsDrawn
<1> QED BY <1>2, <1>4, <1>5, <1>6, <1>7, <1>8, <1>9, PartsAfter DEF CountsFit

(* A query takes its result: the draws in its slots are its draws. *)
LEMMA FinalStep ==
  ASSUME QueriesAssumption, ResultExact, NEW q \in Queries, q \notin Active, ~query[q].final,
         Ready(q), query' = Final(q), asked' = {}, now' \in 0 .. MaxCalls, now <= now',
         UNCHANGED <<active, slot, epoch, stream, counts, done, drawn>>
  PROVE  ResultExact'
<1>1. QueriesTypeOK /\ Fitting /\ Counting /\ Lives /\ CountsFit /\ ResultIsDrawn
  BY Parts
<1>2. query[q] \in Query /\ done \in Nat /\ Active' = Active
  BY <1>1 DEF QueriesTypeOK, Active
<1>3. ASSUME NEW k \in query[q].slots
      PROVE  HasCompleted(k[1]) /\ counts[k[1]][k[2]].draws \subseteq drawn[q]
  <2>1. k[1] \in Nat /\ query[q].pending \in Nat
    BY <1>1, <1>2, SlotTyped DEF Query
  <2>2. k[1] <= query[q].pending /\ query[q].pending <= done
    BY <1>1 DEF Fitting, Ready, HasCompleted
  <2> QED BY <1>1, <1>2, <2>1, <2>2 DEF HasCompleted, CountsFit, SlotsApart
<1>4. Sum(q) = drawn[q]
  <2>1. Sum(q) \subseteq drawn[q]
    BY <1>3 DEF Sum
  <2>2. drawn[q] \subseteq Sum(q)
    BY <1>1, <1>3 DEF CountsFit, DrawsCounted, Sum
  <2> QED BY <2>1, <2>2
<1>5. query' = [query EXCEPT ![q] = [query[q] EXCEPT !.final = TRUE, !.slots = {}, !.result = drawn[q]]]
  BY <1>4 DEF Final
<1>6. drawn[q] \in SUBSET Calls
  BY <1>1 DEF QueriesTypeOK
<1>7. /\ query' \in [Queries -> Query]
      /\ query'[q].final /\ query'[q].slots = {} /\ query'[q].result = drawn[q]
      /\ query'[q].pending = query[q].pending
      /\ \A o \in Queries \ {q} : query'[o] = query[o]
  <2> DEFINE r == [query[q] EXCEPT !.final = TRUE, !.slots = {}, !.result = drawn[q]]
  <2>1. r \in Query /\ r.final /\ r.slots = {} /\ r.result = drawn[q] /\ r.pending = query[q].pending
    BY <1>2, <1>6 DEF Query
  <2>2. query' = [query EXCEPT ![q] = r]
    BY <1>5
  <2> HIDE DEF r
  <2> QED BY <1>1, <2>1, <2>2 DEF QueriesTypeOK
<1>8. QueriesTypeOK'
  BY <1>1, <1>7 DEF QueriesTypeOK
<1>9. Fitting'
  <2>1. stream.last <= now'
    BY <1>1 DEF Fitting, QueriesTypeOK, Stream
  <2>2. ASSUME NEW o \in Queries
        PROVE  /\ query'[o].pending <= stream.last + 1
               /\ \A k \in query'[o].slots : k[1] <= query'[o].pending
    BY <1>1, <1>7 DEF Fitting
  <2> QED BY <1>1, <2>1, <2>2 DEF Fitting
<1>10. Counting'
  BY <1>1, <1>2 DEF Counting
<1>11. Lives'
  BY <1>1, <1>2, <1>7 DEF Lives
<1>12. SlotsAllocated'
  BY <1>1, <1>7 DEF CountsFit, SlotsAllocated
<1>13. SlotIsCurrent'
  BY <1>1, <1>2, <1>7 DEF CountsFit, SlotIsCurrent, SlotCurrent
<1>14. SlotsApart' /\ DrawsCounted' /\ NoWrap' /\ ResultIsDrawn'
  BY <1>1, <1>2, <1>7 DEF CountsFit, SlotsApart, DrawsCounted, NoWrap, ResultIsDrawn
<1> QED BY <1>8, <1>9, <1>10, <1>11, <1>12, <1>13, <1>14, PartsAfter DEF CountsFit

-----------------------------------------------------------------------------
(***************************************************************************)
(* The calls that are not draws.                                           *)
(***************************************************************************)
LEMMA NumbersFit ==
  ASSUME ResultExact
  PROVE  /\ stream \in Stream /\ StreamFits(stream) /\ stream.last \in Nat /\ done \in Nat
         /\ stream.last <= now /\ done <= stream.last /\ now \in 0 .. MaxCalls
         /\ asked \subseteq {q \in Queries : q \notin Active /\ ~query[q].final}
BY Parts DEF QueriesTypeOK, Stream, Fitting, Lives

LEMMA FlushStep ==
  ASSUME QueriesAssumption, ResultExact, UNCHANGED <<active, query, slot, epoch, counts, drawn, done>>,
         stream' = Flushed(stream), now < MaxCalls, now' = now + 1,
         asked' \subseteq {q \in Queries : q \notin Active /\ ~query[q].final}
  PROVE  ResultExact'
<1>1. /\ stream' \in Stream /\ StreamFits(stream') /\ Keeps(stream, stream') /\ ~stream'.render
      /\ stream'.pass = stream.pass /\ stream'.wanted = stream.wanted
      /\ stream'.last \in {stream.last, stream.last + 1}
  BY NumbersFit, FlushedFits DEF StreamFits
<1>2. /\ stream.last <= stream'.last /\ stream'.last <= now' /\ now' \in 0 .. MaxCalls
      /\ done' \in Nat /\ done' <= stream'.last
  BY <1>1, NumbersFit DEF QueriesAssumption
<1> QED BY <1>1, <1>2, QuietStep

LEMMA StepCommit ==
  ASSUME QueriesAssumption, ResultExact, CommitStream
  PROVE  ResultExact'
BY NumbersFit, FlushStep DEF CommitStream, Call

LEMMA StepEndPass ==
  ASSUME QueriesAssumption, ResultExact, EndPass
  PROVE  ResultExact'
<1>1. stream' = [stream EXCEPT !.render = FALSE]
  BY DEF EndPass, EndPassOf
<1>2. stream' \in Stream
  BY <1>1, NumbersFit DEF Stream
<1>3. /\ ~stream'.render /\ stream'.pass = stream.pass /\ stream'.wanted = stream.wanted
      /\ stream'.last = stream.last /\ stream'.serial = stream.serial
      /\ stream'.visibility = stream.visibility /\ stream'.used = stream.used
  BY <1>1, NumbersFit DEF Stream
<1>4. StreamFits(stream') /\ Keeps(stream, stream')
  BY <1>3, NumbersFit DEF StreamFits, Keeps, Allocated
<1>5. /\ stream'.last <= now' /\ now' \in 0 .. MaxCalls /\ stream.last <= stream'.last
      /\ done' \in Nat /\ done' <= stream'.last
  BY <1>3, NumbersFit DEF EndPass, Call, QueriesAssumption
<1>6. asked' \subseteq {q \in Queries : q \notin Active /\ ~query[q].final}
      /\ UNCHANGED <<active, query, slot, epoch, counts, drawn>>
  BY NumbersFit DEF EndPass
<1> QED BY <1>2, <1>3, <1>4, <1>5, <1>6, QuietStep

LEMMA StreamSame ==
  ASSUME QueriesAssumption, ResultExact,
         UNCHANGED <<active, query, slot, epoch, stream, counts, drawn>>,
         now' \in 0 .. MaxCalls, now <= now', done' \in Nat, done' <= stream.last,
         asked' \subseteq {q \in Queries : q \notin Active /\ ~query[q].final}
  PROVE  ResultExact'
<1>1. /\ stream' \in Stream /\ StreamFits(stream') /\ Keeps(stream, stream') /\ stream' = stream
  BY NumbersFit DEF Keeps
<1>2. stream.last <= stream'.last /\ stream'.last <= now' /\ done' <= stream'.last
  BY NumbersFit
<1> QED BY <1>1, <1>2, QuietStep

LEMMA StepAsk ==
  ASSUME QueriesAssumption, ResultExact, NEW q \in Queries, Ask(q)
  PROVE  ResultExact'
<1>1. /\ now < MaxCalls /\ now' = now + 1 /\ asked = {} /\ q \notin Active /\ ~query[q].final
      /\ UNCHANGED <<active, slot, epoch, counts, done, drawn>>
  BY DEF Ask
<1>2. now' \in 0 .. MaxCalls /\ now <= now'
  BY <1>1, NumbersFit DEF QueriesAssumption
<1>3. CASE Ready(q)
  BY <1>1, <1>2, <1>3, FinalStep DEF Ask
<1>4. CASE ~Ready(q)
  <2>1. asked' = {q} /\ query' = query /\ (stream' = stream \/ stream' = Flushed(stream))
    BY <1>4 DEF Ask, Submit
  <2>2. asked' \subseteq {o \in Queries : o \notin Active /\ ~query[o].final}
    BY <1>1, <2>1
  <2>3. CASE stream' = Flushed(stream)
    BY <1>1, <2>1, <2>2, <2>3, FlushStep
  <2>4. CASE stream' = stream
    BY <1>1, <1>2, <2>1, <2>2, <2>4, StreamSame, NumbersFit
  <2> QED BY <2>1, <2>3, <2>4
<1> QED BY <1>3, <1>4

LEMMA StepAnswer ==
  ASSUME QueriesAssumption, ResultExact, NEW q \in Queries, Answer(q)
  PROVE  ResultExact'
BY NumbersFit, FinalStep DEF Answer

LEMMA StepGiveUp ==
  ASSUME QueriesAssumption, ResultExact, NEW q \in Queries, GiveUp(q)
  PROVE  ResultExact'
BY NumbersFit, StreamSame DEF GiveUp

LEMMA StepCompleteNext ==
  ASSUME QueriesAssumption, ResultExact, CompleteNext
  PROVE  ResultExact'
BY NumbersFit, StreamSame DEF CompleteNext

LEMMA StepStutter ==
  ASSUME QueriesAssumption, ResultExact, UNCHANGED queryVars
  PROVE  ResultExact'
BY NumbersFit, StreamSame DEF queryVars

LEMMA StepBegin ==
  ASSUME QueriesAssumption, ResultExact, NEW q \in Queries, NEW t \in Targets, Begin(q, t)
  PROVE  ResultExact'
<1> DEFINE new == [NewQuery EXCEPT !.target = t]
<1>1. QueriesTypeOK /\ Fitting /\ Counting /\ Lives /\ CountsFit /\ ResultIsDrawn
  BY Parts
<1>2. /\ now < MaxCalls /\ asked = {} /\ now' = now + 1
      /\ active[t] = NoQuery /\ q \notin Active
      /\ active' = [active EXCEPT ![t] = q] /\ query' = [query EXCEPT ![q] = new]
      /\ epoch' = epoch + 1 /\ stream' = Want(stream, TRUE) /\ drawn' = [drawn EXCEPT ![q] = {}]
      /\ UNCHANGED <<slot, counts, done, asked>>
  BY DEF Begin, Call
<1>3. new \in Query /\ new.slots = {} /\ ~new.final /\ new.result = {} /\ new.pending = 0
  BY DEF Query, NewQuery
<1> HIDE DEF new
<1>4. /\ query' \in [Queries -> Query] /\ query'[q] = new
      /\ \A o \in Queries \ {q} : query'[o] = query[o]
      /\ drawn' \in [Queries -> SUBSET Calls] /\ drawn'[q] = {}
      /\ \A o \in Queries \ {q} : drawn'[o] = drawn[o]
  BY <1>1, <1>2, <1>3 DEF QueriesTypeOK
<1>5. /\ stream' \in Stream /\ StreamFits(stream') /\ Keeps(stream, stream')
      /\ stream'.serial = stream.serial /\ stream'.last = stream.last
      /\ stream'.pass = stream.pass /\ stream'.offset = stream.offset
      /\ stream'.wanted /\ (stream'.render => stream.render) /\ (stream'.render => stream'.passVisibility)
  BY <1>2, NumbersFit, WantFits
<1>6. /\ active' \in [Targets -> Queries \cup {NoQuery}] /\ active'[t] = q
      /\ \A u \in Targets \ {t} : active'[u] = active[u]
  BY <1>1, <1>2 DEF QueriesTypeOK
<1>7. q # NoQuery /\ Active' = Active \cup {q}
  BY <1>2, <1>6 DEF Active, QueriesAssumption
<1>8. QueriesTypeOK'
  <2>1. epoch' \in Nat /\ now' \in 0 .. MaxCalls
    BY <1>1, <1>2 DEF QueriesTypeOK, QueriesAssumption
  <2> QED BY <1>1, <1>2, <1>4, <1>5, <1>6, <2>1 DEF QueriesTypeOK
<1>9. slot.epoch < epoch'
  BY <1>1, <1>2 DEF QueriesTypeOK, Fitting
<1>10. Fitting'
  <2>1. stream.last <= now' /\ slot.epoch <= epoch'
    BY <1>1, <1>2 DEF QueriesTypeOK, Stream, Fitting
  <2>2. ASSUME NEW o \in Queries
        PROVE  /\ query'[o].pending <= stream.last + 1
               /\ \A k \in query'[o].slots : k[1] <= query'[o].pending
    BY <1>1, <1>3, <1>4, NumbersFit DEF Fitting
  <2> QED BY <1>1, <1>2, <1>5, <2>1, <2>2 DEF Fitting
<1>11. Counting'
  BY <1>5, <1>7 DEF Counting
<1>12. Lives'
  BY <1>1, <1>2, <1>3, <1>4, <1>6, <1>7 DEF Lives, Active
<1>13. SlotsAllocated'
  <2>1. ASSUME NEW o \in Queries, NEW k \in query'[o].slots
        PROVE  Allocated(stream', k[1], k[2])
    <3>1. o # q /\ k \in query[o].slots
      BY <1>3, <1>4, <2>1
    <3> QED BY <1>1, <1>5, <3>1, SlotTyped DEF CountsFit, SlotsAllocated, Keeps
  <2>2. ASSUME NEW n \in Serials, NEW i \in Slots \ {0}, ~Allocated(stream', n, i)
        PROVE  counts[n][i] = Nowhere
    BY <1>1, <1>5, <2>2 DEF CountsFit, SlotsAllocated, Keeps, Serials, Slots
  <2> QED BY <1>2, <2>1, <2>2 DEF SlotsAllocated
<1>14. SlotIsCurrent'
  <2>1. slot'.epoch # epoch' /\ slot' = slot /\ counts' = counts
    BY <1>1, <1>2, <1>9 DEF QueriesTypeOK
  <2> QED BY <1>1, <1>5, <2>1 DEF CountsFit, SlotIsCurrent, SlotCurrent
<1>15. SlotsApart' /\ DrawsCounted' /\ NoWrap'
  BY <1>1, <1>2, <1>3, <1>4 DEF CountsFit, SlotsApart, DrawsCounted, NoWrap
<1>16. ResultIsDrawn'
  BY <1>1, <1>4, <1>7 DEF ResultIsDrawn
<1> QED BY <1>8, <1>10, <1>11, <1>12, <1>13, <1>14, <1>15, <1>16, PartsAfter DEF CountsFit

(* The end of the counting for a target: no slot is current after it. *)
LEMMA EndVisibilityFits ==
  ASSUME QueriesAssumption, ResultExact, NEW t \in Targets, active[t] # NoQuery,
         active' = [active EXCEPT ![t] = NoQuery], EndVisibility(t)
  PROVE  /\ active' \in [Targets -> Queries \cup {NoQuery}]
         /\ active[t] \in Queries /\ active[t] \in Active /\ Active' = Active \ {active[t]}
         /\ \A u, v \in Targets : active'[u] # NoQuery /\ active'[u] = active'[v] => u = v
         /\ epoch' \in Nat /\ slot'.epoch < epoch' /\ slot'.pass = slot.pass /\ ~slot'.valid
         /\ slot' \in [valid : BOOLEAN, pass : Nat, epoch : Nat, bound : Nat]
         /\ stream' \in Stream /\ StreamFits(stream') /\ Keeps(stream, stream')
         /\ stream'.last = stream.last /\ stream'.pass = stream.pass
         /\ stream'.render => stream'.offset = 0
         /\ stream'.wanted = (Active' # {}) /\ (stream'.render /\ stream'.wanted => stream'.passVisibility)
<1>1. QueriesTypeOK /\ Fitting /\ Lives
  BY Parts
<1>2. /\ active' \in [Targets -> Queries \cup {NoQuery}] /\ active'[t] = NoQuery
      /\ \A u \in Targets \ {t} : active'[u] = active[u]
  BY <1>1 DEF QueriesTypeOK
<1>3. active[t] \in Queries /\ active[t] \in Active
  BY <1>1 DEF QueriesTypeOK, Active
<1>4. Active' = Active \ {active[t]}
  BY <1>1, <1>2 DEF Active, Lives
<1>5. \A u, v \in Targets : active'[u] # NoQuery /\ active'[u] = active'[v] => u = v
  BY <1>1, <1>2 DEF Lives
<1>6. ActiveBut(t) = Active'
  BY <1>2 DEF ActiveBut, Active
<1>7. /\ epoch' = epoch + 1 /\ slot' = [slot EXCEPT !.valid = FALSE]
      /\ slot \in [valid : BOOLEAN, pass : Nat, epoch : Nat, bound : Nat]
      /\ epoch \in Nat /\ slot.epoch <= epoch
  BY <1>1 DEF EndVisibility, QueriesTypeOK, Fitting
<1>8. /\ epoch' \in Nat /\ slot'.epoch < epoch' /\ slot'.pass = slot.pass /\ ~slot'.valid
      /\ slot' \in [valid : BOOLEAN, pass : Nat, epoch : Nat, bound : Nat]
  <2>1. slot' \in [valid : BOOLEAN, pass : Nat, epoch : Nat, bound : Nat]
    BY <1>7
  <2>2. slot'.epoch = slot.epoch /\ slot'.pass = slot.pass /\ ~slot'.valid /\ slot.epoch \in Nat
    BY <1>7
  <2> QED BY <1>7, <2>1, <2>2
<1> DEFINE s == IF stream.render /\ Suspends(stream) THEN [stream EXCEPT !.offset = 0] ELSE stream
<1>9. /\ s \in Stream /\ StreamFits(s) /\ Keeps(stream, s)
      /\ s.last = stream.last /\ s.pass = stream.pass /\ (s.render => s.offset = 0)
  <2>1. CASE stream.render /\ Suspends(stream)
    <3>1. s = [stream EXCEPT !.offset = 0] /\ 0 \in Slots
      BY <2>1 DEF Slots, QueriesAssumption
    <3> HIDE DEF s
    <3>2. /\ s \in Stream /\ s.offset = 0 /\ s.last = stream.last /\ s.pass = stream.pass
          /\ s.serial = stream.serial /\ s.render = stream.render
          /\ s.passVisibility = stream.passVisibility
          /\ s.visibility = stream.visibility /\ s.used = stream.used
      BY <3>1, NumbersFit DEF Stream
    <3> QED BY <3>2, NumbersFit DEF StreamFits, Keeps, Allocated
  <2>2. CASE ~(stream.render /\ Suspends(stream))
    BY <1>1, <2>2, NumbersFit DEF Suspends, Fitting, Keeps
  <2> QED BY <2>1, <2>2
<1>10. stream' = Want(s, Active' # {}) /\ (Active' # {}) \in BOOLEAN
  BY <1>6 DEF EndVisibility
<1> HIDE DEF s
<1>11. /\ stream' \in Stream /\ StreamFits(stream') /\ Keeps(s, stream')
       /\ stream'.last = s.last /\ stream'.pass = s.pass /\ stream'.offset = s.offset
       /\ stream'.wanted = (Active' # {}) /\ (stream'.render => s.render)
       /\ (stream'.render /\ stream'.wanted => stream'.passVisibility)
  <2> DEFINE w == Active' # {}
  <2>1. w \in BOOLEAN /\ stream' = Want(s, w)
    BY <1>10
  <2> HIDE DEF w
  <2>2. /\ stream' \in Stream /\ StreamFits(stream') /\ Keeps(s, stream')
        /\ stream'.last = s.last /\ stream'.pass = s.pass /\ stream'.offset = s.offset
        /\ stream'.wanted = w /\ (stream'.render => s.render)
        /\ (stream'.render /\ w => stream'.passVisibility)
    BY <1>9, <2>1, WantFits
  <2> QED BY <2>2 DEF w
<1>12. Keeps(stream, stream')
  BY <1>9, <1>11 DEF Keeps
<1> QED BY <1>2, <1>3, <1>4, <1>5, <1>8, <1>9, <1>11, <1>12

(* The query ended is another, or is itself but for being final, or has    *)
(* nothing to say.                                                         *)
LEMMA EndStep ==
  ASSUME QueriesAssumption, ResultExact, NEW t \in Targets, NEW q \in Queries,
         active[t] = q, active[t] # NoQuery, Call,
         active' = [active EXCEPT ![t] = NoQuery], EndVisibility(t),
         UNCHANGED <<counts, done, asked>>,
         query' \in [Queries -> Query], drawn' \in [Queries -> SUBSET Calls],
         \A o \in Queries \ {q} : query'[o] = query[o] /\ drawn'[o] = drawn[o],
         \/ /\ query'[q].slots = {} /\ drawn'[q] = {} /\ query'[q].result = {}
            /\ query'[q].pending <= stream.last + 1
         \/ /\ query'[q].slots = query[q].slots /\ query'[q].pending = query[q].pending
            /\ ~query'[q].final /\ query'[q].result = {} /\ drawn'[q] = drawn[q]
  PROVE  ResultExact'
<1>1. QueriesTypeOK /\ Fitting /\ Counting /\ Lives /\ CountsFit /\ ResultIsDrawn
  BY Parts
<1>2. /\ active' \in [Targets -> Queries \cup {NoQuery}]
      /\ q \in Active /\ Active' = Active \ {q}
      /\ \A u, v \in Targets : active'[u] # NoQuery /\ active'[u] = active'[v] => u = v
      /\ epoch' \in Nat /\ slot'.epoch < epoch' /\ slot'.pass = slot.pass /\ ~slot'.valid
      /\ slot' \in [valid : BOOLEAN, pass : Nat, epoch : Nat, bound : Nat]
      /\ stream' \in Stream /\ StreamFits(stream') /\ Keeps(stream, stream')
      /\ stream'.last = stream.last /\ stream'.pass = stream.pass
      /\ stream'.render => stream'.offset = 0
      /\ stream'.wanted = (Active' # {}) /\ (stream'.render /\ stream'.wanted => stream'.passVisibility)
  BY EndVisibilityFits
<1>3. QueriesTypeOK'
  <2>1. now' \in 0 .. MaxCalls
    BY <1>1 DEF QueriesTypeOK, Call, QueriesAssumption
  <2> QED BY <1>1, <1>2, <2>1 DEF QueriesTypeOK
<1>4. Fitting'
  <2>1. stream.last <= now'
    BY <1>1 DEF QueriesTypeOK, Stream, Fitting, Call
  <2>2. ASSUME NEW o \in Queries
        PROVE  /\ query'[o].pending <= stream.last + 1
               /\ \A k \in query'[o].slots : k[1] <= query'[o].pending
    <3>1. CASE o = q /\ query'[q].slots = {} /\ query'[q].pending <= stream.last + 1
      BY <3>1
    <3>2. CASE ~(o = q /\ query'[q].slots = {} /\ query'[q].pending <= stream.last + 1)
      <4>1. query'[o].pending = query[o].pending /\ query'[o].slots = query[o].slots
        BY <3>2
      <4> QED BY <1>1, <4>1 DEF Fitting
    <3> QED BY <3>1, <3>2
  <2>3. slot'.epoch <= epoch' /\ slot'.pass <= stream'.pass /\ stream'.last <= now' /\ done' <= stream'.last
    BY <1>1, <1>2, <2>1 DEF Fitting
  <2> QED BY <1>2, <2>2, <2>3 DEF Fitting
<1>5. Counting'
  BY <1>2 DEF Counting
<1>6. Lives'
  <2>1. q \notin asked /\ asked' = asked
    BY <1>1, <1>2 DEF Lives
  <2>2. q \notin Active'
    BY <1>2
  <2> QED BY <1>1, <1>2, <2>1, <2>2 DEF Lives
<1>7. SlotsAllocated'
  <2>1. ASSUME NEW o \in Queries, NEW k \in query'[o].slots
        PROVE  Allocated(stream', k[1], k[2])
    <3>1. k \in query[o].slots
      BY <2>1
    <3> QED BY <1>1, <1>2, <3>1, SlotTyped DEF CountsFit, SlotsAllocated, Keeps
  <2>2. ASSUME NEW n \in Serials, NEW i \in Slots \ {0}, ~Allocated(stream', n, i)
        PROVE  counts[n][i] = Nowhere
    BY <1>1, <1>2, <2>2 DEF CountsFit, SlotsAllocated, Keeps, Serials, Slots
  <2> QED BY <2>1, <2>2 DEF SlotsAllocated
<1>8. SlotIsCurrent'
  BY <1>2 DEF SlotIsCurrent, SlotCurrent
<1>9. SlotsApart' /\ NoWrap'
  BY <1>1 DEF CountsFit, SlotsApart, NoWrap
<1>10. DrawsCounted'
  <2>1. ~query[q].final /\ counts' = counts
    BY <1>1, <1>2 DEF Lives
  <2>2. ASSUME NEW o \in Queries, ~query'[o].final, NEW n \in drawn'[o]
        PROVE  ~query[o].final /\ n \in drawn[o] /\ query'[o].slots = query[o].slots
    BY <2>1, <2>2
  <2> QED BY <1>1, <2>1, <2>2 DEF CountsFit, DrawsCounted
<1>11. ResultIsDrawn'
  <2>1. ASSUME NEW o \in Queries \ Active', query'[o].final
        PROVE  query'[o].result = drawn'[o]
    <3>1. CASE o = q
      BY <2>1, <3>1
    <3>2. CASE o # q
      BY <1>1, <1>2, <2>1, <3>2 DEF ResultIsDrawn
    <3> QED BY <3>1, <3>2
  <2> QED BY <2>1 DEF ResultIsDrawn
<1> QED BY <1>3, <1>4, <1>5, <1>6, <1>7, <1>8, <1>9, <1>10, <1>11, PartsAfter DEF CountsFit

LEMMA StepEnd ==
  ASSUME QueriesAssumption, ResultExact, NEW t \in Targets, EndQuery(t)
  PROVE  ResultExact'
<1> DEFINE q == active[t]
           f == query[q].final \/ query[q].slots = {}
<1>1. QueriesTypeOK /\ Lives /\ CountsFit
  BY Parts
<1>2. /\ Call /\ active[t] # NoQuery /\ active' = [active EXCEPT ![t] = NoQuery] /\ EndVisibility(t)
      /\ query' = [query EXCEPT ![q] = [query[q] EXCEPT !.final = f]]
      /\ UNCHANGED <<counts, done, asked, drawn>>
  BY DEF EndQuery
<1>3. q \in Queries /\ q \in Active
  BY <1>1, <1>2 DEF QueriesTypeOK, Active
<1>4. /\ query[q] \in Query /\ ~query[q].final /\ query[q].result = {}
      /\ f \in BOOLEAN /\ (f <=> query[q].slots = {})
  BY <1>1, <1>3 DEF QueriesTypeOK, Lives
<1> DEFINE r == [query[q] EXCEPT !.final = f]
<1> HIDE DEF f
<1>5. /\ r \in Query /\ r.final = f /\ r.result = {}
      /\ r.slots = query[q].slots /\ r.pending = query[q].pending
  BY <1>4 DEF Query
<1>6. query' = [query EXCEPT ![q] = r]
  BY <1>2
<1> HIDE DEF r
<1>7. /\ query' \in [Queries -> Query] /\ query'[q] = r
      /\ \A o \in Queries \ {q} : query'[o] = query[o]
      /\ drawn' \in [Queries -> SUBSET Calls] /\ drawn' = drawn
  BY <1>1, <1>2, <1>3, <1>5, <1>6 DEF QueriesTypeOK
<1>8. f => drawn'[q] = {}
  BY <1>1, <1>3, <1>4, <1>7 DEF CountsFit, DrawsCounted
<1>9. active[t] = q
  OBVIOUS
<1> HIDE DEF q
<1>10. \/ /\ query'[q].slots = {} /\ drawn'[q] = {} /\ query'[q].result = {}
          /\ query'[q].pending <= stream.last + 1
       \/ /\ query'[q].slots = query[q].slots /\ query'[q].pending = query[q].pending
          /\ ~query'[q].final /\ query'[q].result = {} /\ drawn'[q] = drawn[q]
  <2>1. query[q].pending <= stream.last + 1
    BY <1>3, Parts DEF Fitting
  <2> QED BY <1>4, <1>5, <1>7, <1>8, <2>1
<1> QED BY <1>2, <1>3, <1>7, <1>9, <1>10, EndStep

LEMMA StepDelete ==
  ASSUME QueriesAssumption, ResultExact, NEW q \in Queries, NEW t \in Targets, Delete(q, t)
  PROVE  ResultExact'
<1>1. /\ Call /\ active[t] = q /\ active[t] # NoQuery
      /\ active' = [active EXCEPT ![t] = NoQuery] /\ EndVisibility(t)
      /\ query' = [query EXCEPT ![q] = NewQuery] /\ drawn' = [drawn EXCEPT ![q] = {}]
      /\ UNCHANGED <<counts, done, asked>>
  BY DEF Delete, QueriesAssumption
<1>2. /\ NewQuery \in Query /\ NewQuery.slots = {} /\ NewQuery.result = {}
      /\ NewQuery.pending <= stream.last + 1
  BY NumbersFit DEF NewQuery, Query
<1>3. /\ query' \in [Queries -> Query] /\ query'[q] = NewQuery
      /\ drawn' \in [Queries -> SUBSET Calls] /\ drawn'[q] = {}
      /\ \A o \in Queries \ {q} : query'[o] = query[o] /\ drawn'[o] = drawn[o]
  BY <1>1, <1>2, Parts DEF QueriesTypeOK
<1> QED BY <1>1, <1>2, <1>3, EndStep

-----------------------------------------------------------------------------
(***************************************************************************)
(* The draws.                                                              *)
(***************************************************************************)

(* The pass of a draw is the one in progress, or one no slot is of. *)
LEMMA PassFits ==
  ASSUME QueriesAssumption, ResultExact, Call, NEW fresh \in BOOLEAN,
         NEW r, r = stream \/ r = Flushed(stream)
  PROVE  LET p == PassFor(r, fresh) IN
         /\ p \in Stream /\ StreamFits(p) /\ Keeps(stream, p)
         /\ p.render /\ p.serial = p.last + 1 /\ p.serial \in Serials
         /\ stream.last <= p.last /\ p.last <= now' /\ now' \in Calls
         /\ stream.pass <= p.pass
         /\ (Active # {} => p.wanted /\ p.passVisibility)
         /\ (Active # {} /\ SlotAvailable(r) => p.used < NSlots)
         /\ \/ p = stream /\ r = stream /\ stream.render
            \/ p.offset = 0 /\ slot.pass < p.pass
<1> DEFINE p == PassFor(r, fresh)
<1>1. QueriesTypeOK /\ Fitting /\ Counting
  BY Parts
<1>2. /\ r \in Stream /\ StreamFits(r) /\ Keeps(stream, r)
      /\ r.last \in {stream.last, stream.last + 1}
      /\ r.pass = stream.pass /\ r.wanted = stream.wanted
      /\ (r = stream \/ ~r.render)
  <2>1. CASE r = stream
    BY <2>1, NumbersFit DEF Keeps
  <2>2. CASE r = Flushed(stream)
    BY <2>2, NumbersFit, FlushedFits DEF StreamFits
  <2> QED BY <2>1, <2>2
<1>3. /\ p \in Stream /\ StreamFits(p) /\ Keeps(r, p)
      /\ p.render /\ p.serial = p.last + 1 /\ p.last = r.last /\ p.wanted = r.wanted
      /\ \/ p = r /\ r.render
         \/ /\ p.pass = r.pass + 1 /\ p.offset = 0
            /\ p.passVisibility = (r.wanted \/ r.usedBefore)
            /\ p.passVisibility /\ SlotAvailable(r) => p.used < NSlots
  BY <1>2, PassForFits
<1> HIDE DEF p
<1>4. Keeps(stream, p)
  BY <1>2, <1>3, KeepsOn
<1>5. /\ stream.last <= p.last /\ p.last <= now' /\ now' \in Calls /\ p.serial \in Serials
  BY <1>2, <1>3, NumbersFit DEF Call, Calls, Serials, QueriesAssumption
<1>6. stream.pass \in Nat /\ slot.pass \in Nat /\ slot.pass <= stream.pass
  BY <1>1 DEF QueriesTypeOK, Stream, Fitting
<1>7. CASE p = r /\ r.render
  <2>1. p = stream /\ stream.render
    BY <1>2, <1>7
  <2>2. Active # {} => p.wanted /\ p.passVisibility
    BY <1>1, <2>1 DEF Counting
  <2>3. Active # {} /\ SlotAvailable(r) => p.used < NSlots
    BY <1>3, <1>7, <2>2 DEF SlotAvailable, StreamFits
  <2> QED BY <1>3, <1>4, <1>5, <1>6, <1>7, <2>1, <2>2, <2>3 DEF p
<1>8. CASE /\ p.pass = r.pass + 1 /\ p.offset = 0
           /\ p.passVisibility = (r.wanted \/ r.usedBefore)
           /\ p.passVisibility /\ SlotAvailable(r) => p.used < NSlots
  <2>1. stream.pass <= p.pass /\ slot.pass < p.pass
    BY <1>2, <1>6, <1>8
  <2>2. Active # {} => p.wanted /\ p.passVisibility
    BY <1>1, <1>2, <1>3, <1>8 DEF Counting
  <2> QED BY <1>3, <1>4, <1>5, <1>8, <2>1, <2>2 DEF p
<1> QED BY <1>3, <1>7, <1>8

(* The stream after a draw, and what a draw leaves alone. *)
Goes ==
  /\ stream' \in Stream /\ StreamFits(stream') /\ Keeps(stream, stream')
  /\ stream'.render /\ stream'.serial \in Serials
  /\ stream.last <= stream'.last /\ stream'.last <= now' /\ now' \in Calls
  /\ stream.pass <= stream'.pass
  /\ (Active # {} => stream'.wanted /\ stream'.passVisibility)
  /\ UNCHANGED <<active, epoch, done, asked>>

LEMMA GoesOn ==
  ASSUME QueriesAssumption, ResultExact, Goes,
         query' \in [Queries -> Query], drawn' \in [Queries -> SUBSET Calls],
         counts' \in [Serials -> [Slots -> Count]],
         slot' \in [valid : BOOLEAN, pass : Nat, epoch : Nat, bound : Nat],
         \A q \in Queries : query'[q].final = query[q].final /\ query'[q].result = query[q].result,
         \A q \in Queries \ Active : drawn'[q] = drawn[q],
         Active = {} => stream'.offset = 0
  PROVE  QueriesTypeOK' /\ Active' = Active /\ Counting' /\ Lives' /\ ResultIsDrawn'
<1>1. QueriesTypeOK /\ Lives /\ ResultIsDrawn
  BY Parts
<1>2. Active' = Active
  BY DEF Active, Goes
<1>3. QueriesTypeOK'
  <2>1. now' \in 0 .. MaxCalls
    BY DEF Goes, Calls, QueriesAssumption
  <2> QED BY <1>1, <2>1 DEF QueriesTypeOK, Goes, Count
<1>4. Counting'
  BY <1>2 DEF Counting, Goes
<1>5. Lives'
  BY <1>1, <1>2 DEF Lives, Goes
<1>6. ResultIsDrawn'
  BY <1>1, <1>2 DEF ResultIsDrawn
<1> QED BY <1>2, <1>3, <1>4, <1>5, <1>6

LEMMA DrawCounts ==
  ASSUME QueriesAssumption, QueriesTypeOK, Goes, NEW starts \in BOOLEAN, NEW size \in Nat,
         counts' = Counted(counts, stream', starts, now', size)
  PROVE  CountsAt(counts', counts, stream', now', size)
<1>1. counts \in [Serials -> [Slots -> Count]]
  BY DEF QueriesTypeOK, Count
<1>2. stream' \in Stream /\ stream'.serial \in Serials /\ now' \in Calls
  BY DEF Goes
<1> QED BY <1>1, <1>2, CountedAt

(* A draw for no query: the encoder counts in slot 0, or nowhere. *)
LEMMA ZeroStep ==
  ASSUME QueriesAssumption, ResultExact, Goes, UNCHANGED <<query, drawn>>,
         NEW starts \in BOOLEAN, NEW size \in Nat,
         counts' = Counted(counts, stream', starts, now', size), stream'.offset = 0,
         slot' \in [valid : BOOLEAN, pass : Nat, epoch : Nat, bound : Nat],
         slot'.pass = slot.pass, slot'.epoch = slot.epoch,
         ~(slot'.valid /\ slot'.pass = stream'.pass /\ slot'.epoch = epoch)
  PROVE  ResultExact'
<1>1. QueriesTypeOK /\ Fitting /\ Counting /\ Lives /\ CountsFit /\ ResultIsDrawn
  BY Parts
<1>2. /\ counts' \in [Serials -> [Slots -> Count]]
      /\ \A x \in Serials, i \in Slots \ {0} : counts'[x][i] = counts[x][i]
  BY <1>1, DrawCounts DEF CountsAt
<1>3. QueriesTypeOK' /\ Active' = Active /\ Counting' /\ Lives' /\ ResultIsDrawn'
  BY <1>1, <1>2, GoesOn DEF QueriesTypeOK
<1>4. Fitting'
  <2>1. /\ stream.last \in Nat /\ stream'.last \in Nat /\ stream.pass \in Nat /\ stream'.pass \in Nat
        /\ slot.pass \in Nat /\ done \in Nat
    BY <1>1, <1>3 DEF QueriesTypeOK, Stream
  <2>2. ASSUME NEW q \in Queries
        PROVE  query[q].pending <= stream'.last + 1
    <3>1. query[q].pending \in Nat /\ query[q].pending <= stream.last + 1
      BY <1>1 DEF QueriesTypeOK, Query, Fitting
    <3> QED BY <2>1, <3>1 DEF Goes
  <2> QED BY <1>1, <2>1, <2>2 DEF Fitting, Goes
<1>5. SlotsAllocated'
  <2>1. ASSUME NEW q \in Queries, NEW k \in query[q].slots
        PROVE  Allocated(stream', k[1], k[2])
    BY <1>1, SlotTyped DEF CountsFit, SlotsAllocated, Keeps, Goes
  <2>2. ASSUME NEW n \in Serials, NEW i \in Slots \ {0}, ~Allocated(stream', n, i)
        PROVE  counts'[n][i] = Nowhere
    <3>1. n \in Nat /\ i \in Nat
      BY DEF Serials, Slots
    <3>2. ~Allocated(stream, n, i)
      BY <2>2, <3>1 DEF Keeps, Goes
    <3>3. counts[n][i] = Nowhere
      BY <1>1, <3>2 DEF CountsFit, SlotsAllocated
    <3> QED
      BY <1>2, <3>3
  <2> QED BY <2>1, <2>2 DEF SlotsAllocated
<1>6. SlotIsCurrent'
  BY DEF SlotIsCurrent, SlotCurrent, Goes
<1>7. ASSUME NEW q \in Queries, NEW k \in query[q].slots
      PROVE  k[1] \in Serials /\ k[2] \in Slots \ {0} /\ counts'[k[1]][k[2]] = counts[k[1]][k[2]]
  BY <1>1, <1>2, SlotTyped DEF CountsFit, SlotsAllocated, Allocated
<1>8. SlotsApart' /\ DrawsCounted'
  BY <1>1, <1>7 DEF CountsFit, SlotsApart, DrawsCounted
<1>9. NoWrap'
  BY <1>1, <1>2 DEF CountsFit, NoWrap
<1> QED BY <1>3, <1>4, <1>5, <1>6, <1>8, <1>9, PartsAfter DEF CountsFit

(* A draw of the slot the encoder points at already. *)
LEMMA GrowStep ==
  ASSUME QueriesAssumption, ResultExact, Goes, query' = query, stream' = stream,
         SlotCurrent(stream), Active # {},
         NEW starts \in BOOLEAN, NEW size \in Nat, SlotFits(size),
         counts' = Counted(counts, stream', starts, now', size),
         slot' = [slot EXCEPT !.bound = @ + size],
         drawn' = [q \in Queries |-> IF q \in Active THEN drawn[q] \cup {now'} ELSE drawn[q]]
  PROVE  ResultExact'
<1> DEFINE e == stream.serial
           o == stream.offset
<1>1. QueriesTypeOK /\ Fitting /\ Counting /\ Lives /\ CountsFit /\ ResultIsDrawn
  BY Parts
<1>2. /\ stream \in Stream /\ e \in Serials /\ o \in Slots \ {0} /\ stream.render
      /\ stream.passVisibility /\ now' \in Calls
      /\ \A q \in Queries : q \in Active <=> <<e, o>> \in query[q].slots
      /\ counts[e][o].samples <= slot.bound
  <2>1. stream \in Stream /\ e \in Serials /\ stream.render /\ stream.passVisibility /\ now' \in Calls
    BY DEF Goes
  <2>2. o # 0 /\ slot.epoch = epoch
    BY <1>1, <2>1 DEF CountsFit, SlotIsCurrent, SlotCurrent
  <2>3. o \in Slots
    BY <2>1 DEF Stream
  <2> QED BY <1>1, <2>1, <2>2, <2>3 DEF CountsFit, SlotIsCurrent
<1>3. /\ counts' \in [Serials -> [Slots -> Count]]
      /\ \A x \in Serials, i \in Slots \ {0} : ~(x = e /\ i = o) => counts'[x][i] = counts[x][i]
      /\ counts'[e][o].draws = counts[e][o].draws \cup {now'}
      /\ counts'[e][o].samples = counts[e][o].samples + size
  <2>1. CountsAt(counts', counts, stream, now', size)
    BY <1>1, DrawCounts
  <2> QED BY <1>2, <2>1 DEF CountsAt
<1>4. /\ slot' \in [valid : BOOLEAN, pass : Nat, epoch : Nat, bound : Nat]
      /\ slot'.valid = slot.valid /\ slot'.pass = slot.pass /\ slot'.epoch = slot.epoch
      /\ slot'.bound = slot.bound + size /\ slot.bound \in Nat
  <2>1. slot \in [valid : BOOLEAN, pass : Nat, epoch : Nat, bound : Nat]
    BY <1>1 DEF QueriesTypeOK
  <2>2. slot.bound + size \in Nat
    BY <2>1
  <2> QED BY <2>1, <2>2
<1>5. /\ drawn' \in [Queries -> SUBSET Calls]
      /\ \A q \in Queries : drawn'[q] = IF q \in Active THEN drawn[q] \cup {now'} ELSE drawn[q]
  BY <1>1, <1>2 DEF QueriesTypeOK
<1>6. QueriesTypeOK' /\ Active' = Active /\ Counting' /\ Lives' /\ ResultIsDrawn'
  BY <1>1, <1>3, <1>4, <1>5, GoesOn DEF QueriesTypeOK
<1>7. Fitting'
  BY <1>1, <1>4 DEF Fitting, Goes
<1>8. SlotsAllocated'
  <2>1. Allocated(stream, e, o)
    BY <1>1, <1>2 DEF Allocated, Fitting, StreamFits
  <2>2. ASSUME NEW n \in Serials, NEW i \in Slots \ {0}, ~Allocated(stream, n, i)
        PROVE  counts'[n][i] = Nowhere
    BY <1>1, <1>3, <2>1, <2>2 DEF CountsFit, SlotsAllocated
  <2> QED BY <1>1, <2>2 DEF CountsFit, SlotsAllocated
<1>9. counts[e][o].samples \in Nat
  BY <1>1, <1>2 DEF QueriesTypeOK
<1>10. SlotIsCurrent'
  <2>1. counts'[e][o].samples <= slot'.bound
    BY <1>2, <1>3, <1>4, <1>9
  <2> QED BY <1>2, <1>4, <1>6, <2>1 DEF SlotIsCurrent, SlotCurrent, Goes
<1>11. ASSUME NEW q \in Queries, NEW k \in query[q].slots
       PROVE  /\ k[1] \in Serials /\ k[2] \in Slots \ {0} /\ k = <<k[1], k[2]>>
              /\ counts[k[1]][k[2]].draws \subseteq counts'[k[1]][k[2]].draws
              /\ counts'[k[1]][k[2]].draws \subseteq drawn'[q]
  <2>1. k[1] \in Serials /\ k[2] \in Slots \ {0} /\ k = <<k[1], k[2]>>
    BY <1>1, SlotTyped DEF CountsFit, SlotsAllocated, Allocated
  <2>2. counts[k[1]][k[2]].draws \subseteq drawn[q]
    BY <1>1 DEF CountsFit, SlotsApart
  <2>3. CASE k[1] = e /\ k[2] = o
    <3>1. q \in Active
      BY <1>2, <2>1, <2>3
    <3>2. counts'[k[1]][k[2]].draws = counts[k[1]][k[2]].draws \cup {now'}
      BY <1>3, <2>1, <2>3
    <3> QED BY <1>5, <2>1, <2>2, <3>1, <3>2
  <2>4. CASE ~(k[1] = e /\ k[2] = o)
    BY <1>3, <1>5, <2>1, <2>2, <2>4
  <2> QED BY <2>1, <2>3, <2>4
<1>12. SlotsApart'
  BY <1>11 DEF SlotsApart
<1>13. DrawsCounted'
  <2>1. ASSUME NEW q \in Queries, ~query[q].final, NEW n \in drawn'[q]
        PROVE  \E k \in query[q].slots : n \in counts'[k[1]][k[2]].draws
    <3>1. CASE n \in drawn[q]
      BY <1>1, <1>11, <2>1, <3>1 DEF CountsFit, DrawsCounted
    <3>2. CASE n \notin drawn[q]
      <4>1. q \in Active /\ n = now' /\ <<e, o>> \in query[q].slots
        BY <1>2, <1>5, <3>2
      <4>2. n \in counts'[e][o].draws
        BY <1>2, <1>3, <4>1
      <4> QED BY <4>1, <4>2
    <3> QED BY <3>1, <3>2
  <2> QED BY <2>1 DEF DrawsCounted
<1>14. NoWrap'
  <2>1. counts'[e][o].samples < Cap
    BY <1>2, <1>3, <1>4, <1>9 DEF SlotFits, QueriesAssumption
  <2>2. ASSUME NEW x \in Serials, NEW i \in Slots \ {0}
        PROVE  counts'[x][i].samples < Cap \/ \E n \in Calls : counts'[x][i].draws \subseteq {n}
    <3>1. CASE x = e /\ i = o
      BY <2>1, <3>1
    <3>2. CASE ~(x = e /\ i = o)
      BY <1>1, <1>3, <3>2 DEF CountsFit, NoWrap
    <3> QED BY <3>1, <3>2
  <2> QED BY <2>2 DEF NoWrap
<1> QED BY <1>6, <1>7, <1>8, <1>10, <1>12, <1>13, <1>14, PartsAfter DEF CountsFit

(* A slot taken is one no query has. *)
Taken(p) == [p EXCEPT !.offset = p.used, !.used = p.used + 1]

LEMMA TakenFits ==
  ASSUME QueriesAssumption, NEW p \in Stream, StreamFits(p), p.render, p.passVisibility,
         p.used < NSlots
  PROVE  LET r == Taken(p) IN
         /\ r \in Stream /\ StreamFits(r) /\ Keeps(p, r)
         /\ r.render /\ r.serial = p.serial /\ r.last = p.last /\ r.pass = p.pass
         /\ r.passVisibility /\ r.wanted = p.wanted
         /\ r.offset \in Slots \ {0} /\ Allocated(r, r.serial, r.offset)
         /\ ~Allocated(p, r.serial, r.offset)
<1> DEFINE r == Taken(p)
<1>1. /\ p.serial \in Nat /\ p.last \in Nat /\ p.serial = p.last + 1 /\ p.visibility
      /\ p.used # 0 /\ p.used \in Slots /\ p.used + 1 \in 0 .. NSlots /\ p.used \in Nat
  BY DEF Stream, StreamFits, Slots, QueriesAssumption
<1>2. r \in Stream
  BY <1>1 DEF Stream, Taken
<1>3. /\ r.render /\ r.serial = p.serial /\ r.last = p.last /\ r.pass = p.pass
      /\ r.passVisibility /\ r.wanted = p.wanted /\ r.visibility
      /\ r.offset = p.used /\ r.used = p.used + 1
  BY <1>1 DEF Stream, Taken
<1> HIDE DEF r
<1>4. StreamFits(r)
  BY <1>1, <1>3 DEF StreamFits
<1>5. Keeps(p, r)
  BY <1>1, <1>3 DEF Keeps, Allocated
<1>6. r.offset \in Slots \ {0} /\ Allocated(r, r.serial, r.offset) /\ ~Allocated(p, r.serial, r.offset)
  BY <1>1, <1>3 DEF Allocated
<1> QED BY <1>2, <1>3, <1>4, <1>5, <1>6 DEF r

(* The active queries are given slot o of command buffer e. *)
Gives(e, o) ==
  query' = [q \in Queries |->
    IF q \in Active
      THEN [query[q] EXCEPT !.slots = @ \cup {<<e, o>>}, !.pending = IF e > @ THEN e ELSE @]
      ELSE query[q]]

LEMMA Given ==
  ASSUME QueriesTypeOK, NEW e \in Serials, NEW o \in Slots, Gives(e, o), NEW q \in Queries
  PROVE  /\ query'[q] \in Query
         /\ query'[q].final = query[q].final /\ query'[q].result = query[q].result
         /\ query'[q].slots = IF q \in Active THEN query[q].slots \cup {<<e, o>>} ELSE query[q].slots
         /\ query'[q].pending = IF q \in Active /\ e > query[q].pending THEN e ELSE query[q].pending
<1>1. query[q] \in Query /\ e \in Nat
  BY DEF QueriesTypeOK, Serials
<1>2. CASE q \in Active
  <2> DEFINE n == IF e > query[q].pending THEN e ELSE query[q].pending
             k == query[q].slots \cup {<<e, o>>}
             r == [query[q] EXCEPT !.slots = k, !.pending = n]
  <2>1. n \in Nat /\ k \in SUBSET (Serials \X Slots)
    BY <1>1 DEF Query
  <2>2. query'[q] = r
    BY <1>1, <1>2 DEF Query, Gives
  <2> HIDE DEF n, k
  <2>3. /\ r \in Query /\ r.final = query[q].final /\ r.result = query[q].result
        /\ r.slots = k /\ r.pending = n
    BY <1>1, <2>1 DEF Query
  <2> QED BY <1>2, <2>2, <2>3 DEF n, k
<1>3. CASE q \notin Active
  BY <1>1, <1>3 DEF Gives
<1> QED BY <1>2, <1>3

LEMMA TakeStep ==
  ASSUME QueriesAssumption, ResultExact, Goes, Active # {},
         NEW e, NEW o, stream'.serial = e, stream'.offset = o, o \in Slots \ {0},
         e = stream'.last + 1,
         Allocated(stream', e, o), ~Allocated(stream, e, o),
         NEW starts \in BOOLEAN, NEW size \in Nat,
         counts' = Counted(counts, stream', starts, now', size),
         slot' = [valid |-> TRUE, pass |-> stream'.pass, epoch |-> epoch, bound |-> size],
         Gives(e, o),
         drawn' = [q \in Queries |-> IF q \in Active THEN drawn[q] \cup {now'} ELSE drawn[q]]
  PROVE  ResultExact'
<1>1. QueriesTypeOK /\ Fitting /\ Counting /\ Lives /\ CountsFit /\ ResultIsDrawn
  BY Parts
<1>2. /\ stream' \in Stream /\ e \in Serials /\ e \in Nat /\ o \in Nat /\ stream'.render
      /\ stream'.passVisibility /\ now' \in Calls
  BY DEF Goes, Serials, Slots
<1>3. /\ counts' \in [Serials -> [Slots -> Count]]
      /\ \A x \in Serials, i \in Slots \ {0} : ~(x = e /\ i = o) => counts'[x][i] = counts[x][i]
      /\ counts'[e][o].draws = {now'} /\ counts'[e][o].samples = size
  <2>1. counts[e][o] = Nowhere
    BY <1>1, <1>2 DEF CountsFit, SlotsAllocated
  <2>2. CountsAt(counts', counts, stream', now', size)
    BY <1>1, DrawCounts
  <2>3. counts'[e][o].draws = {} \cup {now'} /\ counts'[e][o].samples = 0 + size
    BY <1>2, <2>1, <2>2 DEF Nowhere, CountsAt
  <2> QED BY <1>2, <2>2, <2>3 DEF CountsAt
<1>4. /\ slot' \in [valid : BOOLEAN, pass : Nat, epoch : Nat, bound : Nat]
      /\ slot'.valid /\ slot'.pass = stream'.pass /\ slot'.epoch = epoch /\ slot'.bound = size
  <2>1. stream'.pass \in Nat /\ epoch \in Nat
    BY <1>1, <1>2 DEF QueriesTypeOK, Stream
  <2> QED BY <2>1
<1>5. /\ drawn' \in [Queries -> SUBSET Calls]
      /\ \A q \in Queries : drawn'[q] = IF q \in Active THEN drawn[q] \cup {now'} ELSE drawn[q]
  BY <1>1, <1>2 DEF QueriesTypeOK
<1>6. ASSUME NEW q \in Queries
      PROVE  /\ query'[q] \in Query
             /\ query'[q].final = query[q].final /\ query'[q].result = query[q].result
             /\ query'[q].slots = IF q \in Active THEN query[q].slots \cup {<<e, o>>} ELSE query[q].slots
             /\ query'[q].pending = IF q \in Active /\ e > query[q].pending THEN e ELSE query[q].pending
  BY <1>1, <1>2, Given
<1>7. query' \in [Queries -> Query]
  <2>1. query' = [q \in Queries |-> query'[q]]
    BY DEF Gives
  <2> QED BY <1>6, <2>1
<1>8. QueriesTypeOK' /\ Active' = Active /\ Counting' /\ Lives' /\ ResultIsDrawn'
  BY <1>3, <1>4, <1>5, <1>6, <1>7, GoesOn
<1>9. Fitting'
  <2>1. /\ stream.last \in Nat /\ stream'.last \in Nat /\ done \in Nat /\ epoch \in Nat /\ stream'.pass \in Nat
    BY <1>1, <1>2 DEF QueriesTypeOK, Stream
  <2>2. ASSUME NEW q \in Queries
        PROVE  /\ query'[q].pending <= stream'.last + 1
               /\ \A k \in query'[q].slots : k[1] <= query'[q].pending
    <3>1. query[q].pending \in Nat /\ query[q].pending <= stream.last + 1
      BY <1>1 DEF QueriesTypeOK, Query, Fitting
    <3>2. query'[q].pending \in Nat /\ query[q].pending <= query'[q].pending
          /\ query'[q].pending <= stream'.last + 1 /\ (q \in Active => e <= query'[q].pending)
      <4> DEFINE m == query[q].pending
      <4>1. m \in Nat /\ m <= stream'.last + 1
        BY <2>1, <3>1 DEF Goes
      <4>2. query'[q].pending = IF q \in Active /\ e > m THEN e ELSE m
        BY <1>6
      <4> HIDE DEF m
      <4>3. query'[q].pending \in Nat /\ m <= query'[q].pending
            /\ query'[q].pending <= stream'.last + 1 /\ (q \in Active => e <= query'[q].pending)
        BY <1>2, <4>1, <4>2
      <4> QED BY <4>3 DEF m
    <3>3. ASSUME NEW k \in query'[q].slots
          PROVE  k[1] <= query'[q].pending
      <4>1. CASE k \in query[q].slots
        <5>1. k[1] \in Nat /\ k[1] <= query[q].pending
          BY <1>1, <4>1, SlotTyped DEF Fitting
        <5> QED BY <3>1, <3>2, <5>1
      <4>2. CASE k \notin query[q].slots
        <5>1. q \in Active /\ k = <<e, o>>
          BY <1>6, <4>2
        <5> QED BY <3>2, <5>1
      <4> QED BY <4>1, <4>2
    <3> QED BY <3>2, <3>3
  <2> QED BY <1>1, <1>4, <2>1, <2>2 DEF Fitting, Goes
<1>10. ASSUME NEW q \in Queries, NEW k \in query[q].slots
       PROVE  /\ k[1] \in Serials /\ k[2] \in Slots \ {0} /\ Allocated(stream, k[1], k[2])
              /\ counts'[k[1]][k[2]] = counts[k[1]][k[2]]
  <2>1. k[1] \in Serials /\ k[2] \in Slots \ {0} /\ Allocated(stream, k[1], k[2])
    BY <1>1, SlotTyped DEF CountsFit, SlotsAllocated, Allocated
  <2>2. ~(k[1] = e /\ k[2] = o)
    BY <2>1
  <2> QED BY <1>3, <2>1, <2>2
<1>11. SlotsAllocated'
  <2>1. ASSUME NEW q \in Queries, NEW k \in query'[q].slots
        PROVE  Allocated(stream', k[1], k[2])
    <3>1. CASE k \in query[q].slots
      BY <1>10, <3>1 DEF Goes, Keeps, Serials, Slots
    <3>2. CASE k \notin query[q].slots
      <4>1. k = <<e, o>>
        BY <1>6, <3>2
      <4> QED BY <4>1
    <3> QED BY <3>1, <3>2
  <2>2. ASSUME NEW n \in Serials, NEW i \in Slots \ {0}, ~Allocated(stream', n, i)
        PROVE  counts'[n][i] = Nowhere
    <3>1. ~(n = e /\ i = o) /\ ~Allocated(stream, n, i)
      BY <2>2 DEF Goes, Keeps, Serials, Slots
    <3> QED BY <1>1, <1>3, <3>1 DEF CountsFit, SlotsAllocated
  <2> QED BY <2>1, <2>2 DEF SlotsAllocated
<1>12. SlotIsCurrent'
  <2>1. \A q \in Queries : q \in Active <=> <<e, o>> \in query'[q].slots
    <3>1. ASSUME NEW q \in Queries, <<e, o>> \in query[q].slots
          PROVE  FALSE
      BY <1>10, <3>1
    <3> QED BY <1>6, <3>1
  <2>2. counts'[e][o].samples <= slot'.bound
    BY <1>3, <1>4
  <2> QED BY <1>8, <2>1, <2>2 DEF SlotIsCurrent
<1>13. SlotsApart'
  <2>1. ASSUME NEW q \in Queries, NEW k \in query'[q].slots
        PROVE  counts'[k[1]][k[2]].draws \subseteq drawn'[q]
    <3>1. CASE k \in query[q].slots
      BY <1>1, <1>5, <1>10, <3>1 DEF CountsFit, SlotsApart
    <3>2. CASE k \notin query[q].slots
      <4>1. q \in Active /\ k = <<e, o>>
        BY <1>6, <3>2
      <4> QED BY <1>3, <1>5, <4>1
    <3> QED BY <3>1, <3>2
  <2> QED BY <2>1 DEF SlotsApart
<1>14. DrawsCounted'
  <2>1. ASSUME NEW q \in Queries, ~query[q].final, NEW n \in drawn'[q]
        PROVE  \E k \in query'[q].slots : n \in counts'[k[1]][k[2]].draws
    <3>1. CASE n \in drawn[q]
      <4>1. PICK k \in query[q].slots : n \in counts[k[1]][k[2]].draws
        BY <1>1, <2>1, <3>1 DEF CountsFit, DrawsCounted
      <4>2. k \in query'[q].slots /\ counts'[k[1]][k[2]] = counts[k[1]][k[2]]
        BY <1>6, <1>10
      <4> QED BY <4>1, <4>2
    <3>2. CASE n \notin drawn[q]
      <4>1. n = now' /\ <<e, o>> \in query'[q].slots
        BY <1>5, <1>6, <3>2
      <4> QED BY <1>3, <4>1
    <3> QED BY <3>1, <3>2
  <2> QED BY <1>6, <2>1 DEF DrawsCounted
<1>15. NoWrap'
  <2>1. ASSUME NEW x \in Serials, NEW i \in Slots \ {0}
        PROVE  counts'[x][i].samples < Cap \/ \E n \in Calls : counts'[x][i].draws \subseteq {n}
    <3>1. CASE x = e /\ i = o
      BY <1>2, <1>3, <3>1
    <3>2. CASE ~(x = e /\ i = o)
      <4>1. counts'[x][i] = counts[x][i]
        BY <1>3, <3>2
      <4> QED BY <1>1, <4>1 DEF CountsFit, NoWrap
    <3> QED BY <3>1, <3>2
  <2> QED BY <2>1 DEF NoWrap
<1> QED BY <1>8, <1>9, <1>11, <1>12, <1>13, <1>14, <1>15, PartsAfter DEF CountsFit

LEMMA StepDraw ==
  ASSUME QueriesAssumption, ResultExact, NEW size \in DrawSizes, NEW fresh \in BOOLEAN,
         Draw(size, fresh)
  PROVE  ResultExact'
<1> DEFINE r == Prepared(stream)
           p == PassFor(r, fresh)
           starts == p.pass # r.pass
           grows == SlotCurrent(p) /\ SlotFits(size)
           takes == Active # {} /\ ~grows /\ CanAllocate(p)
           points == IF takes THEN [p EXCEPT !.offset = p.used, !.used = p.used + 1] ELSE p
<1>1. QueriesTypeOK /\ Fitting /\ Counting /\ CountsFit
  BY Parts
<1>2. /\ Call /\ stream' = points
      /\ counts' = Counted(counts, stream', starts, now', size)
      /\ slot' = IF Active = {} THEN slot
                 ELSE IF grows THEN [slot EXCEPT !.bound = @ + size]
                 ELSE IF takes THEN [valid |-> TRUE, pass |-> p.pass, epoch |-> epoch, bound |-> size]
                 ELSE slot
      /\ query' = [q \in Queries |->
           IF takes /\ q \in Active
             THEN [query[q] EXCEPT !.slots = @ \cup {<<points.serial, points.offset>>},
                                   !.pending = IF points.serial > @ THEN points.serial ELSE @]
             ELSE query[q]]
      /\ drawn' = [q \in Queries |-> IF q \in Active THEN drawn[q] \cup {now'} ELSE drawn[q]]
      /\ UNCHANGED <<active, epoch, done, asked>>
  BY DEF Draw
<1>3. (r = stream \/ r = Flushed(stream)) /\ (Active # {} => SlotAvailable(r))
  BY FlushedFits, NumbersFit DEF Prepared, SlotAvailable
<1>4. /\ p \in Stream /\ StreamFits(p) /\ Keeps(stream, p)
      /\ p.render /\ p.serial = p.last + 1 /\ p.serial \in Serials
      /\ stream.last <= p.last /\ p.last <= now' /\ now' \in Calls
      /\ stream.pass <= p.pass
      /\ (Active # {} => p.wanted /\ p.passVisibility /\ p.used < NSlots)
      /\ \/ p = stream /\ r = stream /\ stream.render
         \/ p.offset = 0 /\ slot.pass < p.pass
  BY <1>2, <1>3, PassFits
<1>5. starts \in BOOLEAN /\ size \in Nat
  BY DEF QueriesAssumption
<1> HIDE DEF r, p, starts
<1>6. slot.pass \in Nat /\ p.pass \in Nat
  BY <1>1, <1>4 DEF QueriesTypeOK, Stream
<1>7. ~takes => Goes /\ stream' = p
  BY <1>2, <1>4 DEF Goes
<1>8. CASE Active = {}
  <2>1. stream' = p /\ slot' = slot /\ Goes
    BY <1>2, <1>7, <1>8
  <2>2. query' = query /\ drawn' = drawn
    <3>1. query' = [q \in Queries |-> query[q]] /\ drawn' = [q \in Queries |-> drawn[q]]
      BY <1>2, <1>8
    <3> QED BY <1>1, <3>1 DEF QueriesTypeOK
  <2>3. p.offset = 0 /\ ~SlotCurrent(p)
    <3>1. CASE p = stream /\ stream.render
      BY <1>1, <1>8, <3>1 DEF Counting, CountsFit, SlotIsCurrent
    <3>2. CASE p.offset = 0 /\ slot.pass < p.pass
      BY <1>6, <3>2 DEF SlotCurrent
    <3> QED BY <1>4, <3>1, <3>2
  <2>4. slot' \in [valid : BOOLEAN, pass : Nat, epoch : Nat, bound : Nat]
    BY <1>1, <2>1 DEF QueriesTypeOK
  <2> QED BY <1>2, <1>5, <2>1, <2>2, <2>3, <2>4, ZeroStep DEF SlotCurrent
<1>9. CASE Active # {} /\ grows
  <2>1. p = stream
    BY <1>4, <1>6, <1>9 DEF SlotCurrent
  <2>2. stream' = stream /\ slot' = [slot EXCEPT !.bound = @ + size] /\ Goes /\ SlotCurrent(stream) /\ SlotFits(size)
    BY <1>2, <1>7, <1>9, <2>1
  <2>3. query' = query
    <3>1. query' = [q \in Queries |-> query[q]]
      BY <1>2, <1>9
    <3> QED BY <1>1, <3>1 DEF QueriesTypeOK
  <2> QED BY <1>2, <1>5, <1>9, <2>2, <2>3, GrowStep
<1>10. CASE Active # {} /\ ~grows
  <2>1. takes
    BY <1>4, <1>10 DEF CanAllocate
  <2>2. stream' = Taken(p)
    BY <1>2, <2>1 DEF Taken
  <2>9. points = stream' /\ p.passVisibility /\ p.used < NSlots
    BY <1>2, <1>4, <1>10
  <2> DEFINE e == stream'.serial
             o == stream'.offset
  <2> HIDE DEF takes, grows, points
  <2>3. /\ stream' \in Stream /\ StreamFits(stream') /\ Keeps(p, stream')
        /\ stream'.render /\ e = p.serial /\ stream'.last = p.last /\ stream'.pass = p.pass
        /\ stream'.passVisibility /\ stream'.wanted = p.wanted
        /\ o \in Slots \ {0} /\ Allocated(stream', e, o) /\ ~Allocated(p, e, o)
    BY <1>4, <2>2, <2>9, TakenFits
  <2>4. Goes /\ e = stream'.last + 1
    BY <1>2, <1>4, <1>10, <2>3, KeepsOn DEF Goes
  <2>5. ~Allocated(stream, e, o)
    BY <1>4, <2>3 DEF Keeps, Serials, Slots
  <2>6. slot' = [valid |-> TRUE, pass |-> stream'.pass, epoch |-> epoch, bound |-> size]
    BY <1>2, <1>10, <2>1, <2>3
  <2>7. Gives(e, o)
    BY <1>2, <2>1, <2>9 DEF Gives
  <2> HIDE DEF e, o
  <2>8. stream'.serial = e /\ stream'.offset = o
    BY DEF e, o
  <2> QED BY <1>2, <1>5, <1>10, <2>3, <2>4, <2>5, <2>6, <2>7, <2>8, TakeStep
<1> QED BY <1>8, <1>9, <1>10

LEMMA StepInternalDraw ==
  ASSUME QueriesAssumption, ResultExact, NEW fresh \in BOOLEAN, InternalDraw(fresh)
  PROVE  ResultExact'
<1> DEFINE p == PassFor(stream, fresh)
           starts == p.pass # stream.pass
           points == IF Suspends(p) THEN [p EXCEPT !.offset = 0] ELSE p
           v == slot.valid /\ ~Suspends(p)
<1>1. QueriesTypeOK /\ Fitting /\ Counting /\ CountsFit
  BY Parts
<1>2. /\ Call /\ stream' = points
      /\ counts' = Counted(counts, stream', starts, now', 1)
      /\ slot' = [slot EXCEPT !.valid = v]
      /\ UNCHANGED <<active, query, epoch, done, asked, drawn>>
  BY DEF InternalDraw
<1>3. /\ p \in Stream /\ StreamFits(p) /\ Keeps(stream, p)
      /\ p.render /\ p.serial = p.last + 1 /\ p.serial \in Serials
      /\ stream.last <= p.last /\ p.last <= now' /\ now' \in Calls
      /\ stream.pass <= p.pass
      /\ (Active # {} => p.wanted /\ p.passVisibility)
      /\ \/ p = stream /\ stream.render
         \/ p.offset = 0 /\ slot.pass < p.pass
  BY <1>2, PassFits
<1>4. starts \in BOOLEAN /\ 1 \in Nat
  OBVIOUS
<1> HIDE DEF p, starts
<1>5. Goes /\ stream'.offset = 0 /\ stream'.pass = p.pass
  <2>1. CASE Suspends(p)
    <3>1. stream' = [p EXCEPT !.offset = 0] /\ 0 \in Slots
      BY <1>2, <2>1 DEF Slots, QueriesAssumption
    <3>2. /\ stream' \in Stream /\ stream'.offset = 0 /\ stream'.last = p.last /\ stream'.pass = p.pass
          /\ stream'.serial = p.serial /\ stream'.render = p.render
          /\ stream'.passVisibility = p.passVisibility /\ stream'.wanted = p.wanted
          /\ stream'.visibility = p.visibility /\ stream'.used = p.used
      BY <1>3, <3>1 DEF Stream
    <3>3. StreamFits(stream') /\ Keeps(stream, stream')
      BY <1>3, <3>2 DEF StreamFits, Keeps, Allocated
    <3> QED BY <1>2, <1>3, <3>2, <3>3 DEF Goes
  <2>2. CASE ~Suspends(p)
    <3>1. stream' = p
      BY <1>2, <2>2
    <3>2. p.offset = 0
      BY <1>1, <1>3, <2>2 DEF Suspends, Fitting
    <3> QED BY <1>2, <1>3, <3>1, <3>2 DEF Goes
  <2> QED BY <2>1, <2>2
<1>6. /\ slot' \in [valid : BOOLEAN, pass : Nat, epoch : Nat, bound : Nat]
      /\ slot'.pass = slot.pass /\ slot'.epoch = slot.epoch /\ slot'.valid = v
  <2>1. slot \in [valid : BOOLEAN, pass : Nat, epoch : Nat, bound : Nat]
    BY <1>1 DEF QueriesTypeOK
  <2>2. v \in BOOLEAN
    BY <2>1
  <2> HIDE DEF v
  <2>3. slot' = [slot EXCEPT !.valid = v]
    BY <1>2
  <2> QED BY <2>1, <2>2, <2>3
<1>7. ~(slot'.valid /\ slot'.pass = stream'.pass /\ slot'.epoch = epoch)
  BY <1>5, <1>6 DEF Suspends
<1> HIDE DEF points, v
<1> QED BY <1>2, <1>4, <1>5, <1>6, <1>7, ZeroStep

-----------------------------------------------------------------------------
LEMMA Begins ==
  ASSUME QueriesAssumption, QueriesInit
  PROVE  ResultExact
<1>1. 0 \in Slots /\ 0 \in 0 .. NSlots /\ 0 \in 0 .. MaxCalls
  BY DEF Slots, QueriesAssumption
<1>2. stream \in Stream
  BY <1>1 DEF QueriesInit, Stream
<1>3. /\ stream.serial = 0 /\ stream.last = 0 /\ ~stream.render /\ ~stream.visibility
      /\ stream.pass = 0 /\ epoch = 1 /\ done = 0 /\ now = 0 /\ asked = {}
      /\ slot.pass = 0 /\ slot.epoch = 0
  BY DEF QueriesInit
<1>4. Nowhere \in [draws : SUBSET Calls, samples : Nat] /\ NewQuery \in Query
  BY DEF Nowhere, NewQuery, Query
<1>5. /\ counts = [s \in Serials |-> [i \in Slots |-> Nowhere]]
      /\ query = [q \in Queries |-> NewQuery] /\ drawn = [q \in Queries |-> {}]
      /\ active = [t \in Targets |-> NoQuery]
  BY DEF QueriesInit
<1>6. QueriesTypeOK
  <2>1. /\ counts \in [Serials -> [Slots -> [draws : SUBSET Calls, samples : Nat]]]
        /\ query \in [Queries -> Query] /\ drawn \in [Queries -> SUBSET Calls]
        /\ active \in [Targets -> Queries \cup {NoQuery}]
    BY <1>4, <1>5
  <2>2. slot \in [valid : BOOLEAN, pass : Nat, epoch : Nat, bound : Nat]
    BY DEF QueriesInit
  <2> QED BY <1>1, <1>2, <1>3, <2>1, <2>2 DEF QueriesTypeOK
<1>7. Active = {}
  BY <1>5 DEF Active
<1>8. \A q \in Queries : /\ query[q].slots = {} /\ query[q].pending = 0 /\ ~query[q].final
                         /\ query[q].result = {} /\ drawn[q] = {}
  BY <1>5 DEF NewQuery
<1>9. \A n \in Serials, i \in Slots : counts[n][i] = Nowhere
  BY <1>5
<1>10. Fitting /\ Counting
  BY <1>3, <1>7, <1>8 DEF Fitting, Counting, StreamFits
<1>11. Lives
  BY <1>3, <1>5, <1>7, <1>8 DEF Lives
<1>12. SlotsAllocated /\ SlotIsCurrent /\ SlotsApart /\ DrawsCounted /\ ResultIsDrawn
  BY <1>3, <1>8, <1>9 DEF SlotsAllocated, SlotIsCurrent, SlotsApart, DrawsCounted, ResultIsDrawn
<1>13. NoWrap
  BY <1>9 DEF NoWrap, Nowhere, QueriesAssumption
<1> QED BY <1>6, <1>10, <1>11, <1>12, <1>13 DEF ResultExact

(***************************************************************************)
(* The result of a query is of exactly the application's draws made while  *)
(* the query was active, whatever passes, command buffers and slots those  *)
(* were in, and no slot counts more than it can hold (ResultExact), for    *)
(* any number of queries, slots and calls.                                 *)
(***************************************************************************)
THEOREM QueriesExact ==
  ASSUME QueriesAssumption
  PROVE  QueriesSpec => []ResultExact
<1>1. QueriesInit => ResultExact
  BY Begins
<1>2. ResultExact /\ [QueriesNext]_queryVars => ResultExact'
  <2> SUFFICES ASSUME ResultExact, [QueriesNext]_queryVars
               PROVE  ResultExact'
    OBVIOUS
  <2>1. ASSUME NEW size \in DrawSizes, NEW fresh \in BOOLEAN, Draw(size, fresh)
        PROVE  ResultExact'
    BY <2>1, StepDraw
  <2>2. ASSUME NEW fresh \in BOOLEAN, InternalDraw(fresh)
        PROVE  ResultExact'
    BY <2>2, StepInternalDraw
  <2>3. ASSUME NEW q \in Queries, NEW t \in Targets, Begin(q, t) \/ Delete(q, t)
        PROVE  ResultExact'
    BY <2>3, StepBegin, StepDelete
  <2>4. ASSUME NEW q \in Queries, Ask(q) \/ Answer(q) \/ GiveUp(q)
        PROVE  ResultExact'
    BY <2>4, StepAsk, StepAnswer, StepGiveUp
  <2>5. ASSUME NEW t \in Targets, EndQuery(t)
        PROVE  ResultExact'
    BY <2>5, StepEnd
  <2>6. CASE CommitStream \/ EndPass \/ CompleteNext
    BY <2>6, StepCommit, StepEndPass, StepCompleteNext
  <2>7. CASE Done \/ UNCHANGED queryVars
    BY <2>7, StepStutter DEF Done
  <2> QED BY <2>1, <2>2, <2>3, <2>4, <2>5, <2>6, <2>7 DEF QueriesNext
<1> QED BY <1>1, <1>2, PTL DEF QueriesSpec


-----------------------------------------------------------------------------
(***************************************************************************)
(* Proofs about PipelineCache, for any threads, queues, programs, states   *)
(* and keys that Metal creates pipelines for.                              *)
(***************************************************************************)

-----------------------------------------------------------------------------
(* A step of builder b changes what is said of b, and of no other. *)
Built(b) ==
  LET creatable == want[b] \in Creatable IN
  /\ pc[b] # "idle" => want[b] \in Keys
  /\ pc[b] = "wait" => b \in Draws
  /\ answer[b] = "made" => creatable
  /\ pc[b] \in {"publish", "fulfil"} => \/ answer[b] = "made"
                                        \/ answer[b] = "nil" /\ (creatable => b \in Queues)
  /\ answer[b] = "made" /\ pc[b] # "publish" => render[want[b]] # Unset
  /\ pc[b] = "fulfil" /\ b \in Draws => render[want[b]] # Unset

LEMMA BuildingIsAll == Building <=> \A b \in Builders : Built(b)
BY DEF Building, Built

(* What becomes of the draws' pipelines follows from what is kept. *)
LEMMA ServedFromKept ==
  ASSUME PipelineAssumption, PipelineTypeOK, KeptIsTrue, Building,
         \A d \in Draws : pc[d] = "idle" /\ want[d] \in Creatable => answer[d] = "made"
  PROVE  DrawsServed
BY DEF PipelineAssumption, PipelineTypeOK, KeptIsTrue, Building, DrawsServed, Builders

LEMMA CacheBegins ==
  ASSUME PipelineAssumption, PipelineInit
  PROVE  PipelinesServed
<1>1. PipelineTypeOK
  BY DEF PipelineInit, PipelineTypeOK
<1>2. KeptIsTrue /\ WaitsForBuilder /\ PairsPredicted
  BY DEF PipelineInit, KeptIsTrue, WaitsForBuilder, PairsPredicted
<1>3. Building /\ DrawsServed
  BY DEF PipelineInit, Building, DrawsServed, PipelineAssumption, Builders
<1> QED BY <1>1, <1>2, <1>3 DEF PipelinesServed

LEMMA StepDrawStarts ==
  ASSUME PipelineAssumption, PipelinesServed, NEW d \in Draws, NEW k \in Keys, DrawStarts(d, k)
  PROVE  PipelinesServed'
<1>1. PipelineTypeOK /\ KeptIsTrue /\ Building /\ WaitsForBuilder /\ DrawsServed /\ PairsPredicted
  BY DEF PipelinesServed
<1>2. d \in Builders /\ pc[d] = "idle"
      /\ pc' = [pc EXCEPT ![d] = "look"] /\ want' = [want EXCEPT ![d] = k]
      /\ answer' = [answer EXCEPT ![d] = Unset]
      /\ UNCHANGED <<render, building, waits, programs, states, predicted, work, queue>>
  BY DEF DrawStarts, Builders, prediction
<1>3. PipelineTypeOK'
  BY <1>1, <1>2 DEF PipelineTypeOK
<1>4. KeptIsTrue' /\ PairsPredicted'
  BY <1>1, <1>2 DEF KeptIsTrue, PairsPredicted, Full
<1>5. Building'
  BY <1>1, <1>2 DEF PipelineTypeOK, Building, PipelineAssumption
<1>6. WaitsForBuilder'
  BY <1>1, <1>2 DEF PipelineTypeOK, WaitsForBuilder
<1>7. DrawsServed'
  BY <1>1, <1>2 DEF PipelineTypeOK, DrawsServed, Builders
<1> QED BY <1>3, <1>4, <1>5, <1>6, <1>7 DEF PipelinesServed

LEMMA StepPredictionStarts ==
  ASSUME PipelineAssumption, PipelinesServed, NEW q \in Queues, PredictionStarts(q)
  PROVE  PipelinesServed'
<1>1. PipelineTypeOK /\ KeptIsTrue /\ Building /\ WaitsForBuilder /\ DrawsServed /\ PairsPredicted
  BY DEF PipelinesServed
<1> DEFINE k == Head(queue[q])
           t == Tail(queue[q])
<1>2. q \in Builders /\ pc[q] = "idle" /\ q \notin Draws
      /\ pc' = [pc EXCEPT ![q] = "look"] /\ want' = [want EXCEPT ![q] = k]
      /\ answer' = [answer EXCEPT ![q] = Unset] /\ queue' = [queue EXCEPT ![q] = t]
      /\ UNCHANGED <<render, building, waits, programs, states, predicted, work>>
  BY DEF PredictionStarts, Builders, PipelineAssumption
<1>3. k \in Keys /\ t \in Seq(Keys)
  <2>1. queue[q] \in Seq(Keys) /\ queue[q] # <<>>
    BY <1>1 DEF PipelineTypeOK, PredictionStarts
  <2> QED BY <2>1
<1> HIDE DEF k, t
<1>4. PipelineTypeOK'
  BY <1>1, <1>2, <1>3 DEF PipelineTypeOK
<1>5. KeptIsTrue' /\ PairsPredicted'
  BY <1>1, <1>2 DEF KeptIsTrue, PairsPredicted, Full
<1>6. Building'
  BY <1>1, <1>2, <1>3 DEF PipelineTypeOK, Building, PipelineAssumption
<1>7. WaitsForBuilder'
  BY <1>1, <1>2 DEF PipelineTypeOK, WaitsForBuilder
<1>8. DrawsServed'
  BY <1>1, <1>2 DEF PipelineTypeOK, DrawsServed, Builders
<1> QED BY <1>4, <1>5, <1>6, <1>7, <1>8 DEF PipelinesServed

LEMMA StepLook ==
  ASSUME PipelineAssumption, PipelinesServed, NEW b \in Builders, Look(b)
  PROVE  PipelinesServed'
<1> DEFINE k == want[b]
<1>1. PipelineTypeOK /\ KeptIsTrue /\ Building /\ WaitsForBuilder /\ DrawsServed /\ PairsPredicted
  BY DEF PipelinesServed
<1>2. pc[b] = "look" /\ k \in Keys
      /\ UNCHANGED <<want, render, programs, states, predicted, work, queue>>
  BY <1>1 DEF Look, Building, prediction
<1>3. KeptIsTrue' /\ PairsPredicted'
  BY <1>1, <1>2 DEF KeptIsTrue, PairsPredicted, Full
<1>4. CASE render[k] # Unset
  <2>1. answer' = [answer EXCEPT ![b] = render[k]] /\ pc' = [pc EXCEPT ![b] = "idle"]
        /\ UNCHANGED <<building, waits>>
    BY <1>4 DEF Look
  <2>2. PipelineTypeOK'
    BY <1>1, <1>2, <2>1 DEF PipelineTypeOK
  <2>3. Building'
    BY <1>1, <1>2, <1>4, <2>1 DEF PipelineTypeOK, Building, KeptIsTrue
  <2>4. WaitsForBuilder'
    BY <1>1, <1>2, <2>1 DEF PipelineTypeOK, WaitsForBuilder
  <2>5. DrawsServed'
    BY <1>1, <1>2, <1>4, <2>1 DEF PipelineTypeOK, DrawsServed, KeptIsTrue, Builders
  <2> QED BY <1>3, <2>2, <2>3, <2>4, <2>5 DEF PipelinesServed
<1>5. CASE render[k] = Unset /\ building[k] # Unset
  <2>1. UNCHANGED <<answer, building>>
    BY <1>5 DEF Look
  <2>2. CASE b \in Queues
    <3>1. pc' = [pc EXCEPT ![b] = "idle"] /\ UNCHANGED waits /\ b \notin Draws
      BY <1>5, <2>2 DEF Look, PipelineAssumption
    <3>2. PipelineTypeOK'
      BY <1>1, <1>2, <2>1, <3>1 DEF PipelineTypeOK
    <3>3. Building'
      BY <1>1, <1>2, <2>1, <3>1 DEF PipelineTypeOK, Building
    <3>4. WaitsForBuilder'
      BY <1>1, <1>2, <2>1, <3>1 DEF PipelineTypeOK, WaitsForBuilder
    <3>5. DrawsServed'
      BY <1>1, <1>2, <2>1, <3>1 DEF PipelineTypeOK, DrawsServed, Builders
    <3> QED BY <1>3, <3>2, <3>3, <3>4, <3>5 DEF PipelinesServed
  <2>3. CASE b \notin Queues
    <3>1. pc' = [pc EXCEPT ![b] = "wait"] /\ waits' = [waits EXCEPT ![b] = building[k]] /\ b \in Draws
      BY <1>5, <2>3 DEF Look, Builders
    <3>2. PipelineTypeOK'
      BY <1>1, <1>2, <2>1, <3>1 DEF PipelineTypeOK
    <3>3. Building'
      BY <1>1, <1>2, <2>1, <3>1 DEF PipelineTypeOK, Building
    <3>4. WaitsForBuilder'
      <4>1. building[k] \in Builders /\ want[building[k]] = k /\ pc[building[k]] \in {"create", "publish"}
        BY <1>1, <1>2, <1>5 DEF PipelineTypeOK, WaitsForBuilder
      <4> QED BY <1>1, <1>2, <2>1, <3>1, <4>1 DEF PipelineTypeOK, WaitsForBuilder
    <3>5. DrawsServed'
      BY <1>1, <1>2, <2>1, <3>1 DEF PipelineTypeOK, DrawsServed, Builders
    <3> QED BY <1>3, <3>2, <3>3, <3>4, <3>5 DEF PipelinesServed
  <2> QED BY <2>2, <2>3
<1>6. CASE render[k] = Unset /\ building[k] = Unset
  <2>1. building' = [building EXCEPT ![k] = b] /\ pc' = [pc EXCEPT ![b] = "create"]
        /\ UNCHANGED <<answer, waits>>
    BY <1>6 DEF Look
  <2>2. PipelineTypeOK'
    BY <1>1, <1>2, <2>1 DEF PipelineTypeOK
  <2>3. Building'
    BY <1>1, <1>2, <2>1 DEF PipelineTypeOK, Building
  <2>4. WaitsForBuilder'
    BY <1>1, <1>2, <2>1 DEF PipelineTypeOK, WaitsForBuilder
  <2>5. DrawsServed'
    BY <1>1, <1>2, <2>1 DEF PipelineTypeOK, DrawsServed, Builders
  <2> QED BY <1>3, <2>2, <2>3, <2>4, <2>5 DEF PipelinesServed
<1> QED BY <1>4, <1>5, <1>6

LEMMA StepWoken ==
  ASSUME PipelineAssumption, PipelinesServed, NEW d \in Draws, Woken(d)
  PROVE  PipelinesServed'
<1> DEFINE k == want[d]
<1>1. PipelineTypeOK /\ KeptIsTrue /\ Building /\ WaitsForBuilder /\ DrawsServed /\ PairsPredicted
  BY DEF PipelinesServed
<1>2. d \in Builders /\ pc[d] = "wait" /\ waits[d] = Unset /\ k \in Keys
      /\ UNCHANGED <<want, render, waits, programs, states, predicted, work, queue>>
  BY <1>1 DEF Woken, Building, Builders, prediction
<1>3. KeptIsTrue' /\ PairsPredicted'
  BY <1>1, <1>2 DEF KeptIsTrue, PairsPredicted, Full
<1>4. CASE answer[d] = "made" \/ render[k] # Unset
  <2> DEFINE a == IF answer[d] = "made" THEN answer[d] ELSE render[k]
  <2>1. answer' = [answer EXCEPT ![d] = a] /\ pc' = [pc EXCEPT ![d] = "idle"] /\ UNCHANGED building
    BY <1>4 DEF Woken
  <2>2. a \in {"made", "nil", Unset} /\ (a = "made" <=> k \in Creatable) /\ (a = "made" => render[k] # Unset)
    BY <1>1, <1>2, <1>4 DEF PipelineTypeOK, KeptIsTrue, Building
  <2> HIDE DEF a
  <2>3. PipelineTypeOK'
    BY <1>1, <1>2, <2>1, <2>2 DEF PipelineTypeOK
  <2>4. Building'
    BY <1>1, <1>2, <2>1, <2>2 DEF PipelineTypeOK, Building
  <2>5. WaitsForBuilder'
    BY <1>1, <1>2, <2>1 DEF PipelineTypeOK, WaitsForBuilder
  <2>6. DrawsServed'
    BY <1>1, <1>2, <2>1, <2>2 DEF PipelineTypeOK, DrawsServed, KeptIsTrue, Builders
  <2> QED BY <1>3, <2>3, <2>4, <2>5, <2>6 DEF PipelinesServed
<1>5. CASE ~(answer[d] = "made" \/ render[k] # Unset)
  <2>1. building' = [building EXCEPT ![k] = d] /\ pc' = [pc EXCEPT ![d] = "create"] /\ UNCHANGED answer
    BY <1>5 DEF Woken
  <2>2. PipelineTypeOK'
    BY <1>1, <1>2, <2>1 DEF PipelineTypeOK
  <2>3. Building'
    BY <1>1, <1>2, <2>1 DEF PipelineTypeOK, Building
  <2>4. WaitsForBuilder'
    BY <1>1, <1>2, <2>1 DEF PipelineTypeOK, WaitsForBuilder
  <2>5. DrawsServed'
    BY <1>1, <1>2, <2>1 DEF PipelineTypeOK, DrawsServed, Builders
  <2> QED BY <1>3, <2>2, <2>3, <2>4, <2>5 DEF PipelinesServed
<1> QED BY <1>4, <1>5

LEMMA StepCreate ==
  ASSUME PipelineAssumption, PipelinesServed, NEW b \in Builders, Create(b)
  PROVE  PipelinesServed'
<1>1. PipelineTypeOK /\ KeptIsTrue /\ Building /\ WaitsForBuilder /\ DrawsServed /\ PairsPredicted
  BY DEF PipelinesServed
<1>2. PICK r \in {"made", "nil"} :
        /\ r = "made" => want[b] \in Creatable
        /\ r = "nil" => want[b] \notin Creatable \/ b \in Queues
        /\ answer' = [answer EXCEPT ![b] = r]
  BY DEF Create
<1>3. pc[b] = "create" /\ pc' = [pc EXCEPT ![b] = "publish"]
      /\ UNCHANGED <<want, render, building, waits, programs, states, predicted, work, queue>>
  BY DEF Create, prediction
<1>4. PipelineTypeOK'
  BY <1>1, <1>2, <1>3 DEF PipelineTypeOK
<1>5. KeptIsTrue' /\ PairsPredicted'
  BY <1>1, <1>3 DEF KeptIsTrue, PairsPredicted, Full
<1>6. Building'
  BY <1>1, <1>2, <1>3 DEF PipelineTypeOK, Building
<1>7. WaitsForBuilder'
  BY <1>1, <1>3 DEF PipelineTypeOK, WaitsForBuilder
<1>8. DrawsServed'
  BY <1>1, <1>2, <1>3 DEF PipelineTypeOK, DrawsServed, Builders
<1> QED BY <1>4, <1>5, <1>6, <1>7, <1>8 DEF PipelinesServed

LEMMA StepPublish ==
  ASSUME PipelineAssumption, PipelinesServed, NEW b \in Builders, Publish(b)
  PROVE  PipelinesServed'
<1> DEFINE k == want[b]
           r == IF render[k] = Unset /\ (answer[b] = "made" \/ b \in Draws) THEN answer[b] ELSE render[k]
<1>1. PipelineTypeOK /\ KeptIsTrue /\ Building /\ WaitsForBuilder /\ DrawsServed /\ PairsPredicted
  BY DEF PipelinesServed
<1>2. pc[b] = "publish" /\ pc' = [pc EXCEPT ![b] = "fulfil"]
      /\ render' = [render EXCEPT ![k] = r] /\ building' = [building EXCEPT ![k] = Unset]
      /\ UNCHANGED <<want, answer, waits, programs, states, predicted, work, queue>>
  BY DEF Publish, prediction
<1>3. /\ k \in Keys /\ r \in {"made", "nil", Unset} /\ (render[k] # Unset => r = render[k])
      /\ r # Unset => (r = "made" <=> k \in Creatable)
      /\ (answer[b] = "made" \/ b \in Draws) => r # Unset
  <2>1. k \in Keys
    BY <1>1, <1>2 DEF Building
  <2>2. answer[b] \in {"made", "nil"} /\ (answer[b] = "made" => k \in Creatable)
        /\ (answer[b] = "nil" /\ b \in Draws => k \notin Creatable)
    BY <1>1, <1>2 DEF Building, PipelineAssumption
  <2>3. render[k] \in {"made", "nil", Unset} /\ (render[k] # Unset => (render[k] = "made" <=> k \in Creatable))
    BY <1>1, <2>1 DEF PipelineTypeOK, KeptIsTrue
  <2>4. Unset \notin {"made", "nil"}
    BY DEF PipelineAssumption
  <2> QED BY <2>1, <2>2, <2>3, <2>4
<1> HIDE DEF r
<1>4. PipelineTypeOK'
  BY <1>1, <1>2, <1>3 DEF PipelineTypeOK
<1>5. /\ render'[k] = r /\ \A x \in Keys \ {k} : render'[x] = render[x]
      /\ pc'[b] = "fulfil" /\ \A x \in Builders \ {b} : pc'[x] = pc[x]
  BY <1>1, <1>2, <1>3 DEF PipelineTypeOK
<1>6. \A x \in Keys : render[x] # Unset => render'[x] = render[x]
  BY <1>3, <1>5
<1>7. KeptIsTrue'
  BY <1>1, <1>3, <1>5 DEF KeptIsTrue
<1>8. PairsPredicted'
  <2>1. \A p \in programs, s \in states : <<p, s>> \in Keys
    BY <1>1 DEF PipelineTypeOK, Keys
  <2> QED BY <1>1, <1>2, <1>6, <2>1 DEF PairsPredicted, Full
<1>9. Building'
  <2>1. ASSUME NEW x \in Builders
        PROVE  Built(x)'
    <3>1. Built(x) /\ (answer[x] = "made" => want[x] \in Keys)
      BY <1>1, BuildingIsAll DEF Built, PipelineAssumption
    <3>2. CASE x = b
      BY <1>2, <1>3, <1>5, <3>1, <3>2 DEF Built
    <3>3. CASE x # b
      <4>1. pc'[x] = pc[x] /\ want'[x] = want[x] /\ answer'[x] = answer[x]
        BY <1>2, <1>5, <3>3
      <4>2. want[x] \in Keys /\ render[want[x]] # Unset => render'[want[x]] # Unset
        BY <1>6
      <4> QED BY <3>1, <4>1, <4>2 DEF Built
    <3> QED BY <3>2, <3>3
  <2> QED BY <2>1 DEF Building, Built
<1>10. WaitsForBuilder'
  BY <1>1, <1>2, <1>3 DEF PipelineTypeOK, WaitsForBuilder
<1>11. DrawsServed'
  BY <1>1, <1>2, <1>5, <1>6 DEF DrawsServed, Builders, PipelineAssumption
<1> QED BY <1>4, <1>7, <1>8, <1>9, <1>10, <1>11 DEF PipelinesServed

LEMMA StepFulfil ==
  ASSUME PipelineAssumption, PipelinesServed, NEW b \in Builders, Fulfil(b)
  PROVE  PipelinesServed'
<1> DEFINE k == want[b]
           s == want[b][2]
           new == LearnsFrom(b) /\ s \notin states
<1>1. PipelineTypeOK /\ KeptIsTrue /\ Building /\ WaitsForBuilder /\ DrawsServed /\ PairsPredicted
  BY DEF PipelinesServed
<1>2. /\ pc[b] = "fulfil" /\ pc' = [pc EXCEPT ![b] = "idle"]
      /\ answer' = [x \in Builders |-> IF x \in Draws /\ waits[x] = b THEN answer[b] ELSE answer[x]]
      /\ waits' = [d \in Draws |-> IF waits[d] = b THEN Unset ELSE waits[d]]
      /\ \/ /\ new /\ states' = states \cup {s}
            /\ work' = work \cup {<<p, s>> : p \in programs \ {want[b][1]}}
         \/ UNCHANGED <<states, work>>
      /\ UNCHANGED <<want, render, building, programs, predicted, queue>>
  BY DEF Fulfil
<1>3. k \in Keys /\ s \in States /\ k = <<k[1], s>> /\ k[1] \in ProgramSet
  BY <1>1, <1>2 DEF Building, Keys
<1>4. answer[b] \in {"made", "nil"} /\ (answer[b] = "made" => k \in Creatable)
      /\ (answer[b] = "made" \/ b \in Draws => render[k] # Unset)
      /\ (b \in Draws /\ k \in Creatable => answer[b] = "made")
  BY <1>1, <1>2 DEF Building, PipelineAssumption
<1>5. /\ pc'[b] = "idle" /\ \A x \in Builders \ {b} : pc'[x] = pc[x]
      /\ \A d \in Draws : waits[d] = b => pc[d] = "wait" /\ want[d] = k /\ d # b
  BY <1>1, <1>2 DEF PipelineTypeOK, WaitsForBuilder, Builders, PipelineAssumption
<1>6. PipelineTypeOK'
  <2>1. answer' \in [Builders -> {"made", "nil", Unset}] /\ waits' \in [Draws -> Builders \cup {Unset}]
    BY <1>1, <1>2, <1>4 DEF PipelineTypeOK
  <2>2. states' \subseteq States /\ work' \subseteq Keys
    BY <1>1, <1>2, <1>3 DEF PipelineTypeOK, Keys
  <2> QED BY <1>1, <1>2, <2>1, <2>2 DEF PipelineTypeOK
<1>7. KeptIsTrue'
  BY <1>1, <1>2 DEF KeptIsTrue
<1>8. Building'
  <2>1. ASSUME NEW x \in Builders
        PROVE  Built(x)'
    <3>1. Built(x)
      BY <1>1, BuildingIsAll
    <3>2. answer'[x] = IF x \in Draws /\ waits[x] = b THEN answer[b] ELSE answer[x]
      BY <1>2
    <3>3. CASE x \in Draws /\ waits[x] = b
      <4>1. pc'[x] = "wait" /\ want[x] = k /\ answer'[x] = answer[b]
        BY <1>5, <3>2, <3>3
      <4> QED BY <1>2, <1>3, <1>4, <3>3, <4>1 DEF Built
    <3>4. CASE ~(x \in Draws /\ waits[x] = b)
      <4>1. answer'[x] = answer[x] /\ want'[x] = want[x] /\ render' = render
        BY <1>2, <3>2, <3>4
      <4>2. CASE x = b
        BY <1>2, <1>3, <1>4, <1>5, <4>1, <4>2 DEF Built
      <4>3. CASE x # b
        BY <1>5, <3>1, <4>1, <4>3 DEF Built
      <4> QED BY <4>2, <4>3
    <3> QED BY <3>3, <3>4
  <2> QED BY <2>1 DEF Building, Built
<1>9. WaitsForBuilder'
  BY <1>1, <1>2, <1>5 DEF PipelineTypeOK, WaitsForBuilder
<1>10. DrawsServed'
  <2>1. ASSUME NEW d \in Draws, pc'[d] = "idle", want[d] \in Creatable
        PROVE  answer'[d] = "made"
    <3>1. d \in Builders /\ waits[d] # b
      BY <1>5, <2>1 DEF Builders
    <3>2. answer'[d] = answer[d]
      BY <1>2, <3>1
    <3>3. CASE d = b
      BY <1>4, <2>1, <3>2, <3>3
    <3>4. CASE d # b
      BY <1>1, <1>5, <2>1, <3>1, <3>2, <3>4 DEF DrawsServed
    <3> QED BY <3>3, <3>4
  <2>2. \A d \in Draws : d \in Builders
    BY DEF Builders
  <2> QED BY <1>2, <1>6, <1>7, <1>8, <2>1, <2>2
          DEF DrawsServed, Building, KeptIsTrue, PipelineAssumption
<1>11. PairsPredicted'
  <2>1. CASE UNCHANGED <<states, work>>
    BY <1>1, <1>2, <2>1 DEF PairsPredicted, Full
  <2>2. CASE new /\ states' = states \cup {s}
             /\ work' = work \cup {<<p, s>> : p \in programs \ {want[b][1]}}
    <3>1. ASSUME NEW p \in programs, NEW z \in states'
          PROVE  Full \/ <<p, z>> \in predicted \cup work' \/ render[<<p, z>>] # Unset
      <4>1. CASE z \in states
        BY <1>1, <2>2, <4>1 DEF PairsPredicted
      <4>2. CASE z = s /\ p # k[1]
        BY <2>2, <4>2
      <4>3. CASE z = s /\ p = k[1]
        BY <1>3, <1>4, <2>2, <4>3 DEF LearnsFrom
      <4> QED BY <2>2, <4>1, <4>2, <4>3
    <3> QED BY <1>2, <3>1 DEF PairsPredicted, Full
  <2> QED BY <1>2, <2>1, <2>2
<1> QED BY <1>6, <1>7, <1>8, <1>9, <1>10, <1>11 DEF PipelinesServed

LEMMA StepLinked ==
  ASSUME PipelineAssumption, PipelinesServed, NEW p \in ProgramSet, Linked(p)
  PROVE  PipelinesServed'
<1>1. PipelineTypeOK /\ KeptIsTrue /\ Building /\ WaitsForBuilder /\ DrawsServed /\ PairsPredicted
  BY DEF PipelinesServed
<1>2. /\ programs' = programs \cup {p} /\ work' = work \cup {<<p, s>> : s \in states}
      /\ UNCHANGED <<pc, want, answer, render, building, waits, states, predicted, queue>>
  BY DEF Linked, building_vars
<1>3. PipelineTypeOK'
  BY <1>1, <1>2 DEF PipelineTypeOK, Keys
<1>4. KeptIsTrue' /\ Building' /\ WaitsForBuilder' /\ DrawsServed'
  BY <1>1, <1>2 DEF KeptIsTrue, Building, WaitsForBuilder, DrawsServed
<1>5. PairsPredicted'
  BY <1>1, <1>2 DEF PairsPredicted, Full
<1> QED BY <1>3, <1>4, <1>5 DEF PipelinesServed

LEMMA StepPredict ==
  ASSUME PipelineAssumption, PipelinesServed, NEW k \in Keys, Predict(k)
  PROVE  PipelinesServed'
<1>1. PipelineTypeOK /\ KeptIsTrue /\ Building /\ WaitsForBuilder /\ DrawsServed /\ PairsPredicted
  BY DEF PipelinesServed
<1>2. /\ work' = work \ {k}
      /\ \/ Full /\ predicted' = predicted
         \/ predicted' = predicted \cup {k} /\ ~Full
         \/ predicted' = predicted /\ k \in predicted
      /\ UNCHANGED <<pc, want, answer, render, building, waits, programs, states>>
  BY DEF Predict, building_vars
<1>3. queue' \in [Queues -> Seq(Keys)]
  <2>1. CASE queue' = queue
    BY <1>1, <2>1 DEF PipelineTypeOK
  <2>2. CASE \E q \in Queues : queue' = [queue EXCEPT ![q] = Append(@, k)]
    <3>1. PICK q \in Queues : queue' = [queue EXCEPT ![q] = Append(queue[q], k)]
      BY <2>2
    <3>2. Append(queue[q], k) \in Seq(Keys)
      <4>1. queue[q] \in Seq(Keys)
        BY <1>1 DEF PipelineTypeOK
      <4> QED BY <4>1
    <3> QED BY <1>1, <3>1, <3>2 DEF PipelineTypeOK
  <2> QED BY <2>1, <2>2 DEF Predict
<1>4. PipelineTypeOK'
  BY <1>1, <1>2, <1>3 DEF PipelineTypeOK
<1>5. KeptIsTrue' /\ Building' /\ WaitsForBuilder' /\ DrawsServed'
  BY <1>1, <1>2 DEF KeptIsTrue, Building, WaitsForBuilder, DrawsServed
<1>6. PairsPredicted'
  BY <1>1, <1>2 DEF PairsPredicted, Full
<1> QED BY <1>4, <1>5, <1>6 DEF PipelinesServed

(***************************************************************************)
(* A draw whose pipeline Metal can create gets it and it is kept, a draw   *)
(* waits only for a builder at work on its key, and no pair of a program   *)
(* and a state seen is forgotten, however the threads interleave.          *)
(***************************************************************************)
THEOREM PipelinesServedAlways ==
  ASSUME PipelineAssumption
  PROVE  PipelineSpec => []PipelinesServed
<1>1. PipelineInit => PipelinesServed
  BY CacheBegins
<1>2. PipelinesServed /\ [PipelineNext]_pipelineVars => PipelinesServed'
  <2> SUFFICES ASSUME PipelinesServed, [PipelineNext]_pipelineVars
               PROVE  PipelinesServed'
    OBVIOUS
  <2>1. ASSUME NEW d \in Draws, Woken(d) \/ \E k \in Keys : DrawStarts(d, k)
        PROVE  PipelinesServed'
    BY <2>1, StepWoken, StepDrawStarts
  <2>2. ASSUME NEW q \in Queues, PredictionStarts(q)
        PROVE  PipelinesServed'
    BY <2>2, StepPredictionStarts
  <2>3. ASSUME NEW b \in Builders, Step(b)
        PROVE  PipelinesServed'
    BY <2>3, StepLook, StepCreate, StepPublish, StepFulfil DEF Step
  <2>4. ASSUME NEW p \in ProgramSet, Linked(p)
        PROVE  PipelinesServed'
    BY <2>4, StepLinked
  <2>5. ASSUME NEW k \in Keys, Predict(k)
        PROVE  PipelinesServed'
    BY <2>5, StepPredict
  <2>6. CASE UNCHANGED pipelineVars
    <3>1. UNCHANGED <<pc, want, answer, render, building, waits, programs, states, predicted, work, queue>>
      BY <2>6 DEF pipelineVars, building_vars, prediction
    <3>2. PipelineTypeOK' /\ KeptIsTrue' /\ WaitsForBuilder' /\ PairsPredicted'
      BY <3>1 DEF PipelinesServed, PipelineTypeOK, KeptIsTrue, WaitsForBuilder, PairsPredicted, Full
    <3>3. Building' /\ DrawsServed'
      BY <3>1 DEF PipelinesServed, Building, DrawsServed
    <3> QED BY <3>2, <3>3 DEF PipelinesServed
  <2> QED BY <2>1, <2>2, <2>3, <2>4, <2>5, <2>6 DEF PipelineNext
<1> QED BY <1>1, <1>2, PTL DEF PipelineSpec

-----------------------------------------------------------------------------
(***************************************************************************)
(* MinecraftFix and OpenMWFix, for any arguments and any binaries.         *)
(***************************************************************************)

LEMMA InitMinecraft ==
  ASSUME MinecraftAssumption, MinecraftInit
  PROVE  MinecraftIInv
<1>1. cfg \in InstanceCfg /\ cfg.jvm \in Arguments /\ cfg.ours = Absent
  BY DEF MinecraftInit, InstanceCfg
<1>2. own \in [override : BOOLEAN, jvm : Arguments]
  BY <1>1 DEF MinecraftInit, InstanceCfg
<1>3. Shown = cfg
  BY DEF MinecraftInit, Shown
<1> QED
  BY <1>1, <1>2, <1>3 DEF MinecraftInit, MinecraftIInv, MinecraftTypeOK, RecordsFit, OwnIsShown,
                          Effective, Restores

LEMMA NextMinecraft ==
  ASSUME MinecraftAssumption, MinecraftIInv, [MinecraftNext]_minecraftVars
  PROVE  MinecraftIInv'
<1> USE DEF MinecraftIInv, MinecraftTypeOK
<1>1. Absent \notin InstanceCfg /\ Global \in Arguments \cup {Absent}
  BY DEF MinecraftAssumption
<1>2. CASE UNCHANGED minecraftVars
  BY <1>2 DEF minecraftVars, prism, RecordsFit, OwnIsShown, Shown, Effective, Restores
<1>3. CASE LauncherOpens
  <2>1. /\ launcher = Absent /\ launcher' = cfg
        /\ UNCHANGED <<phase, wanted, cfg, glue, launcherSeen, own, record, recordFile, disturbed>>
    BY <1>3 DEF LauncherOpens
  <2>2. Shown' = Shown
    BY <1>1, <2>1 DEF Shown
  <2>3. OwnIsShown'
    BY <2>1, <2>2 DEF OwnIsShown, Effective, Restores
  <2> QED
    BY <2>1, <2>3 DEF RecordsFit
<1>4. CASE LauncherEdits
  <2>1. /\ launcher # Absent
        /\ UNCHANGED <<phase, wanted, cfg, glue, launcherSeen, record, recordFile, disturbed>>
    BY <1>4 DEF LauncherEdits
  <2>2. CASE \E j \in Arguments : /\ launcher' = [launcher EXCEPT !.override = TRUE, !.jvm = j]
                                /\ own' = [override |-> TRUE, jvm |-> j]
    <3>1. PICK j \in Arguments : /\ launcher' = [launcher EXCEPT !.override = TRUE, !.jvm = j]
                               /\ own' = [override |-> TRUE, jvm |-> j]
      BY <2>2
    <3>2. launcher' \in InstanceCfg /\ launcher'.override /\ launcher'.jvm = j
      BY <2>1, <3>1 DEF InstanceCfg
    <3>3. Shown' = launcher'
      BY <1>1, <3>2 DEF Shown
    <3>4. OwnIsShown'
      BY <3>1, <3>2, <3>3 DEF OwnIsShown, Effective
    <3> QED
      BY <2>1, <3>1, <3>2, <3>4 DEF RecordsFit
  <2>3. CASE launcher.override /\ launcher' = [launcher EXCEPT !.override = FALSE]
             /\ own' = [own EXCEPT !.override = FALSE]
    <3>1. launcher' \in InstanceCfg /\ own' \in [override : BOOLEAN, jvm : Arguments] /\ ~own'.override
      BY <2>1, <2>3 DEF InstanceCfg
    <3> QED
      BY <2>1, <3>1 DEF RecordsFit, OwnIsShown
  <2> QED
    BY <1>4, <2>2, <2>3 DEF LauncherEdits
<1>5. CASE LauncherQuits
  <2>1. /\ launcher # Absent /\ launcher' = Absent /\ cfg' = launcher
        /\ disturbed' \in BOOLEAN
        /\ ~disturbed' => ~disturbed /\ launcher.ours = cfg.ours
        /\ UNCHANGED <<phase, wanted, glue, launcherSeen, own, record, recordFile>>
    BY <1>5 DEF LauncherQuits
  <2>2. Shown' = Shown /\ Shown' = cfg'
    BY <2>1 DEF Shown
  <2>3. OwnIsShown'
    BY <2>1, <2>2 DEF OwnIsShown, Effective, Restores
  <2>4. RecordsFit'
    BY <2>1 DEF RecordsFit
  <2> QED
    BY <2>1, <2>3, <2>4
<1>6. CASE \E g \in Glues : InstanceUpdated(g)
  BY <1>6 DEF InstanceUpdated, RecordsFit, OwnIsShown, Shown, Effective, Restores
<1>7. CASE \E on \in BOOLEAN : Apply(on)
  <2>1. /\ phase = "idle" /\ phase' = "minecraft" /\ record' = recordFile
        /\ launcherSeen' = (launcher # Absent)
        /\ UNCHANGED <<cfg, glue, launcher, own, recordFile, disturbed>>
    BY <1>7 DEF Apply
  <2>2. Shown' = Shown /\ (~launcherSeen' => Shown' = cfg')
    BY <2>1 DEF Shown
  <2>3. OwnIsShown'
    BY <2>1, <2>2 DEF OwnIsShown, Effective, Restores
  <2>4. RecordsFit'
    BY <2>1 DEF RecordsFit
  <2> QED
    BY <2>1, <2>3, <2>4
<1>8. CASE PatchPrism
  <2>1. /\ phase = "minecraft" /\ phase' = "save" /\ record = recordFile
        /\ UNCHANGED <<wanted, glue, launcher, launcherSeen, own, recordFile, disturbed>>
    BY <1>8 DEF PatchPrism, RecordsFit
  <2>2. CASE UNCHANGED <<cfg, record>>
    <3>1. Shown' = Shown
      BY <2>1, <2>2 DEF Shown
    <3> QED
      BY <2>1, <2>2, <3>1 DEF RecordsFit, OwnIsShown, Effective, Restores
  <2>3. CASE ~launcherSeen /\ SetPrism
    <3>1. /\ cfg' = [override |-> TRUE, jvm |-> IF cfg.override THEN cfg.jvm ELSE Global, ours |-> glue]
          /\ record' = IF record = Absent THEN cfg ELSE record
      BY <2>3 DEF SetPrism
    <3>2. /\ cfg' \in InstanceCfg /\ cfg'.override /\ Effective(cfg') = Effective(cfg)
          /\ record' \in InstanceCfg
      BY <1>1, <3>1 DEF InstanceCfg, Effective, RecordsFit
    <3>3. RecordsFit'
      BY <1>1, <2>1, <3>1, <3>2 DEF RecordsFit
    <3>4. OwnIsShown'
      <4>1. CASE launcher = Absent
        <5>1. Shown = cfg /\ Shown' = cfg'
          BY <2>1, <4>1 DEF Shown
        <5> QED
          BY <2>1, <3>2, <5>1 DEF OwnIsShown, Effective
      <4>2. CASE launcher # Absent
        <5>1. Shown' = Shown
          BY <2>1, <4>2 DEF Shown
        <5>2. own.override => Shown.override \/ ~(Restores(record') \/ Restores(recordFile))
          BY <2>1, <2>3, <3>1 DEF OwnIsShown, Restores
        <5> QED
          BY <2>1, <5>1, <5>2 DEF OwnIsShown, Effective, Restores
      <4> QED
        BY <4>1, <4>2
    <3> QED
      BY <2>1, <3>2, <3>3, <3>4
  <2>4. CASE record # Absent /\ RestorePrism
    <3> DEFINE before == IF record.override THEN record.jvm ELSE Global
    <3>1. /\ cfg' = IF cfg.jvm = before THEN record ELSE [cfg EXCEPT !.ours = Absent]
          /\ record' = Absent /\ record \in InstanceCfg
      BY <2>4 DEF RestorePrism, RecordsFit
    <3>2. cfg' \in InstanceCfg /\ (~disturbed => cfg'.ours = Absent)
      BY <2>4, <3>1 DEF InstanceCfg, RecordsFit
    <3>3. RecordsFit'
      BY <2>1, <3>1, <3>2 DEF RecordsFit
    <3>4. OwnIsShown'
      <4>1. CASE launcher = Absent
        <5>1. Shown = cfg /\ Shown' = cfg'
          BY <2>1, <4>1 DEF Shown
        <5>2. CASE cfg.jvm # before
          <6>1. cfg'.override = cfg.override /\ cfg'.jvm = cfg.jvm
            BY <3>1, <5>2 DEF InstanceCfg
          <6> QED
            BY <2>1, <3>1, <5>1, <6>1 DEF OwnIsShown, Effective, Restores
        <5>3. CASE cfg.jvm = before
          <6>1. cfg' = record /\ Effective(record) = cfg.jvm
            BY <3>1, <5>3 DEF Effective
          <6>2. ASSUME own.override
                PROVE  Effective(record) = own.jvm
            <7>1. CASE cfg.override
              BY <5>1, <6>1, <6>2, <7>1 DEF OwnIsShown, Effective
            <7>2. CASE ~cfg.override
              BY <2>4, <5>1, <6>2, <7>2 DEF OwnIsShown, Effective, Restores
            <7> QED
              BY <7>1, <7>2
          <6>3. record.override \/ ~(Restores(Absent) \/ Restores(recordFile))
            BY <2>1 DEF Restores
          <6> QED
            BY <2>1, <3>1, <5>1, <6>1, <6>2, <6>3 DEF OwnIsShown, Effective, Restores
        <5> QED
          BY <5>2, <5>3
      <4>2. CASE launcher # Absent
        <5>1. Shown' = Shown
          BY <2>1, <4>2 DEF Shown
        <5> QED
          BY <2>1, <3>1, <5>1 DEF OwnIsShown, Effective, Restores
      <4> QED
        BY <4>1, <4>2
    <3> QED
      BY <2>1, <3>1, <3>2, <3>3, <3>4
  <2> QED
    BY <1>8, <2>2, <2>3, <2>4 DEF PatchPrism
<1>9. CASE PatchFails
  BY <1>9 DEF PatchFails, prism, RecordsFit, OwnIsShown, Shown, Effective, Restores
<1>10. CASE SaveRecord
  BY <1>10 DEF SaveRecord, RecordsFit, OwnIsShown, Shown, Effective, Restores
<1>11. CASE Killed
  <2>1. /\ phase' = "idle" /\ record' = recordFile /\ launcherSeen' = FALSE
        /\ disturbed' \in BOOLEAN /\ (~disturbed' => ~disturbed /\ record = recordFile)
        /\ UNCHANGED <<wanted, cfg, glue, launcher, own, recordFile>>
    BY <1>11 DEF Killed
  <2> QED
    BY <2>1 DEF RecordsFit, OwnIsShown, Shown, Effective, Restores
<1> QED
  BY <1>2, <1>3, <1>4, <1>5, <1>6, <1>7, <1>8, <1>9, <1>10, <1>11 DEF MinecraftNext

LEMMA MinecraftIsKept ==
  ASSUME MinecraftAssumption, MinecraftIInv
  PROVE  MinecraftKept
<1>1. OwnArgumentsKept
  BY DEF MinecraftIInv, OwnIsShown, OwnArgumentsKept, Shown
<1>2. OursAreRecorded
  BY DEF MinecraftIInv, RecordsFit, OursAreRecorded
<1> QED
  BY <1>1, <1>2 DEF MinecraftIInv, MinecraftKept

(* MachO.replaceDylib(): each call points one more binary to the library.  *)
LEMMA OneMoreLoads ==
  ASSUME GamesAssumption, OpenMWTypeOK, NEW library \in {"opengl", "stubs"},
         app' = Rewrite(app, library)
  PROVE  /\ app' \in Apps
         /\ app'.sdl = app.sdl /\ app'.real = app.real /\ app'.added = app.added
         /\ Cardinality(Unlike(library)) \in Nat /\ Cardinality(Unlike(library)') \in Nat
         /\ Cardinality(Unlike(library)) > 0 =>
              Cardinality(Unlike(library)') = Cardinality(Unlike(library)) - 1
         /\ Cardinality(Unlike(library)) = 0 => Cardinality(Unlike(library)') = 0
<1> DEFINE U == Unlike(library)
           c == CHOOSE b \in Binaries : app.loads[b] # library
<1>1. IsFiniteSet(U) /\ Cardinality(U) \in Nat /\ app \in Apps
  BY FS_Subset, FS_CardinalityType DEF Unlike, GamesAssumption, OpenMWTypeOK
<1>2. CASE U = {}
  <2>1. app' = app
    BY <1>2 DEF Rewrite, Unlike
  <2>2. Unlike(library)' = U /\ Cardinality(U) = 0
    BY <1>2, <2>1, FS_EmptySet DEF Unlike
  <2> QED
    BY <1>1, <2>1, <2>2
<1>3. CASE U # {}
  <2>1. c \in U /\ c \in Binaries
    BY <1>3 DEF Unlike
  <2>2. app' = [app EXCEPT !.loads[c] = library, !.signed = FALSE]
    BY <1>3 DEF Rewrite, Unlike
  <2> HIDE DEF c
  <2>3. /\ app' \in Apps
        /\ app'.sdl = app.sdl /\ app'.real = app.real /\ app'.added = app.added
        /\ \A b \in Binaries : app'.loads[b] = IF b = c THEN library ELSE app.loads[b]
    <3> DEFINE l == [app.loads EXCEPT ![c] = library]
    <3>1. app.loads \in [Binaries -> {"opengl", "stubs"}]
      BY <1>1 DEF Apps
    <3>2. /\ l \in [Binaries -> {"opengl", "stubs"}]
          /\ \A b \in Binaries : l[b] = IF b = c THEN library ELSE app.loads[b]
      BY <2>1, <3>1
    <3>3. app' = [app EXCEPT !.loads = l, !.signed = FALSE]
      BY <1>1, <2>2 DEF Apps
    <3> HIDE DEF l
    <3> QED
      BY <1>1, <3>2, <3>3 DEF Apps
  <2>4. Unlike(library)' = U \ {c}
    BY <2>1, <2>3 DEF Unlike
  <2>5. Cardinality(U \ {c}) = Cardinality(U) - 1
    BY <1>1, <2>1, FS_RemoveElement
  <2>6. Cardinality(U \ {c}) \in Nat
    BY <1>1, FS_Subset, FS_CardinalityType
  <2>7. Cardinality(U) # 0
    BY <1>1, <1>3, FS_EmptySet
  <2> HIDE DEF U
  <2>8. Cardinality(Unlike(library)') = Cardinality(U) - 1 /\ Cardinality(Unlike(library)') \in Nat
    BY <2>4, <2>5, <2>6
  <2> QED
    BY <1>1, <2>3, <2>7, <2>8 DEF U
<1> QED
  BY <1>2, <1>3

(* The binaries that load something else are no more than there are.       *)
LEMMA UnlikeFits ==
  ASSUME GamesAssumption, NEW library
  PROVE  /\ Binds \in Nat /\ Cardinality(Unlike(library)) \in 0 .. Binds
         /\ Cardinality(Unlike(library)) = 0 => \A b \in Binaries : app.loads[b] = library
<1>1. IsFiniteSet(Binaries)
  BY DEF GamesAssumption
<1>2. Unlike(library) \subseteq Binaries
  BY DEF Unlike
<1>3. /\ IsFiniteSet(Unlike(library)) /\ Cardinality(Unlike(library)) <= Cardinality(Binaries)
      /\ Cardinality(Binaries) \in Nat /\ Cardinality(Unlike(library)) \in Nat
  BY <1>1, <1>2, FS_Subset, FS_CardinalityType
<1>4. Cardinality(Unlike(library)) = 0 => Unlike(library) = {}
  BY <1>3, FS_EmptySet
<1> QED
  BY <1>3, <1>4 DEF Binds, Unlike

LEMMA UnlikeFitsAfter ==
  ASSUME GamesAssumption, NEW library
  PROVE  /\ Cardinality(Unlike(library)') \in 0 .. Binds
         /\ Cardinality(Unlike(library)') = 0 => \A b \in Binaries : app'.loads[b] = library
<1>1. IsFiniteSet(Binaries)
  BY DEF GamesAssumption
<1>2. Unlike(library)' \subseteq Binaries
  BY DEF Unlike
<1>3. /\ IsFiniteSet(Unlike(library)') /\ Cardinality(Unlike(library)') <= Cardinality(Binaries)
      /\ Cardinality(Binaries) \in Nat /\ Cardinality(Unlike(library)') \in Nat
  BY <1>1, <1>2, FS_Subset, FS_CardinalityType
<1>4. Cardinality(Unlike(library)') = 0 => Unlike(library)' = {}
  BY <1>3, FS_EmptySet
<1> QED
  BY <1>3, <1>4 DEF Binds, Unlike

(* The operations that openmwFix() goes through.                           *)
LEMMA ThenBinaries ==
  ASSUME GamesAssumption, NEW p \in Seq(Operations), NEW library \in Operations
  PROVE  LET q == p \o [i \in 1..Cardinality(Binaries) |-> library] \o <<"sign">>
         IN  /\ q \in Seq(Operations) /\ Len(q) = Len(p) + Binds + 1 /\ Binds \in Nat /\ Len(p) \in Nat
             /\ \A i \in 1 .. Len(p) + Binds + 1 :
                  q[i] = IF i <= Len(p) THEN p[i]
                         ELSE IF i = Len(p) + Binds + 1 THEN "sign" ELSE library
<1> DEFINE n == Cardinality(Binaries)
           s == [i \in 1 .. n |-> library]
           r == p \o s
           q == r \o <<"sign">>
           k == Len(p)
<1>1. n \in Nat /\ n = Binds /\ k \in Nat
  BY UnlikeFits, LenProperties DEF Binds
<1>0. "sign" \in Operations
  BY DEF Operations
<1> HIDE DEF n, k
<1>2. s \in Seq(Operations) /\ Len(s) = n /\ \A i \in 1 .. n : s[i] = library
  BY <1>1
<1> HIDE DEF s
<1>3. /\ r \in Seq(Operations) /\ Len(r) = k + n
      /\ \A i \in 1 .. k + n : r[i] = IF i <= k THEN p[i] ELSE library
  <2>1. /\ r \in Seq(Operations) /\ Len(r) = k + n
        /\ \A i \in 1 .. k + n : r[i] = IF i <= k THEN p[i] ELSE s[i - k]
    BY <1>1, <1>2, ConcatProperties DEF k
  <2>2. \A i \in 1 .. k + n : ~(i <= k) => i - k \in 1 .. n
    BY <1>1
  <2> QED
    BY <1>2, <2>1, <2>2
<1> HIDE DEF r
<1>4. /\ q \in Seq(Operations) /\ Len(q) = k + n + 1
      /\ \A i \in 1 .. k + n + 1 : q[i] = IF i <= k + n THEN r[i] ELSE "sign"
  BY <1>0, <1>1, <1>3
<1> HIDE DEF q
<1>5. \A i \in 1 .. k + n + 1 :
        q[i] = IF i <= k THEN p[i] ELSE IF i = k + n + 1 THEN "sign" ELSE library
  BY <1>1, <1>3, <1>4
<1> QED
  BY <1>1, <1>4, <1>5 DEF q, r, s, n, k

LEMMA PutInBegins ==
  ASSUME GamesAssumption
  PROVE  /\ PutIn \in Seq(Operations) /\ Binds \in Nat
         /\ Len(PutIn) = IF Patched(app) THEN Binds + 4 ELSE Binds + 5
         /\ \A i \in 1 .. Len(PutIn) : InPutIn(PutIn[i], Len(PutIn) - i)
<1> DEFINE a == <<"sdl", "libwmglhost", "libwinemetalgl">>
           q(p) == p \o [i \in 1..Cardinality(Binaries) |-> "stubs"] \o <<"sign">>
<1>1. a \in Seq(Operations) /\ Len(a) = 3 /\ a[1] = "sdl" /\ a[2] = "libwmglhost" /\ a[3] = "libwinemetalgl"
  BY DEF Operations, Added
<1>2. Binds \in Nat /\ "stubs" \in Operations
  BY UnlikeFits DEF Operations
<1>3. CASE Patched(app)
  <2>1. PutIn = q(<< >> \o a)
    BY <1>3 DEF PutIn
  <2> HIDE DEF a
  <2>2. << >> \o a = a
    BY <1>1, ConcatEmptySeq
  <2> DEFINE b == q(a)
  <2>3. PutIn = b
    BY <2>1, <2>2
  <2> DEFINE n == Binds
  <2>a. /\ b \in Seq(Operations) /\ Len(b) = Len(a) + n + 1
        /\ \A j \in 1 .. Len(a) + n + 1 :
             b[j] = IF j <= Len(a) THEN a[j] ELSE IF j = Len(a) + n + 1 THEN "sign" ELSE "stubs"
    BY <1>1, <1>2, ThenBinaries
  <2> HIDE DEF b
  <2>b. /\ b \in Seq(Operations) /\ Len(b) = 3 + n + 1
        /\ \A j \in 1 .. 3 + n + 1 :
             b[j] = IF j <= 3 THEN a[j] ELSE IF j = 3 + n + 1 THEN "sign" ELSE "stubs"
    BY <1>1, <1>2, <2>a
  <2>c. n \in Nat /\ n = Binds
    BY <1>1, <1>2
  <2> HIDE DEF n
  <2>d. ASSUME NEW i \in 1 .. 3 + n + 1
        PROVE  InPutIn(b[i], 3 + n + 1 - i)
    <3>1. b[i] = IF i <= 3 THEN a[i] ELSE IF i = 3 + n + 1 THEN "sign" ELSE "stubs"
      BY <2>b, <2>d
    <3>2. /\ 3 + n + 1 - i # n + 4
          /\ 3 + n + 1 - i = n + 3 => i = 1
          /\ 3 + n + 1 - i = n + 2 => i = 2
          /\ 3 + n + 1 - i = n + 1 => i = 3
          /\ 3 + n + 1 - i \in 1 .. n => ~(i <= 3) /\ i # 3 + n + 1
          /\ 3 + n + 1 - i = 0 => ~(i <= 3) /\ i = 3 + n + 1
      BY <2>c, <2>d
    <3> QED
      BY <1>1, <1>2, <2>c, <3>1, <3>2 DEF InPutIn
  <2> QED
    BY <1>3, <2>3, <2>b, <2>c, <2>d
<1>4. CASE ~Patched(app)
  <2> DEFINE c == <<"keep_real">> \o a
             b == q(c)
  <2>1. PutIn = b
    BY <1>4 DEF PutIn
  <2> DEFINE d == <<"keep_real">>
  <2>2. d \in Seq(Operations) /\ Len(d) = 1 /\ d[1] = "keep_real"
    BY DEF Operations
  <2>3. c = d \o a
    OBVIOUS
  <2> HIDE DEF a, c, d
  <2>4. /\ d \o a \in Seq(Operations) /\ Len(d \o a) = Len(d) + Len(a)
        /\ \A i \in 1 .. Len(d) + Len(a) : (d \o a)[i] = IF i <= Len(d) THEN d[i] ELSE a[i - Len(d)]
    BY <1>1, <2>2, ConcatProperties
  <2>5. /\ c \in Seq(Operations) /\ Len(c) = 4 /\ c[1] = "keep_real" /\ c[2] = "sdl"
        /\ c[3] = "libwmglhost" /\ c[4] = "libwinemetalgl"
    <3> DEFINE l == Len(d)
               m == Len(a)
    <3>1. l = 1 /\ m = 3
      BY <1>1, <2>2
    <3>2. c \in Seq(Operations) /\ Len(c) = l + m
          /\ \A i \in 1 .. l + m : c[i] = IF i <= l THEN d[i] ELSE a[i - l]
      BY <2>3, <2>4
    <3> HIDE DEF l, m
    <3>3. Len(c) = 4 /\ \A i \in 1 .. 4 : c[i] = IF i <= 1 THEN d[i] ELSE a[i - 1]
      BY <3>1, <3>2
    <3>4. c[1] = d[1] /\ c[2] = a[1] /\ c[3] = a[2] /\ c[4] = a[3]
      BY <3>3
    <3> QED
      BY <1>1, <2>2, <3>2, <3>3, <3>4
  <2> DEFINE n == Binds
  <2>a. /\ b \in Seq(Operations) /\ Len(b) = Len(c) + n + 1
        /\ \A j \in 1 .. Len(c) + n + 1 :
             b[j] = IF j <= Len(c) THEN c[j] ELSE IF j = Len(c) + n + 1 THEN "sign" ELSE "stubs"
    BY <1>2, <2>5, ThenBinaries
  <2> HIDE DEF b
  <2>b. /\ b \in Seq(Operations) /\ Len(b) = 4 + n + 1
        /\ \A j \in 1 .. 4 + n + 1 :
             b[j] = IF j <= 4 THEN c[j] ELSE IF j = 4 + n + 1 THEN "sign" ELSE "stubs"
    BY <1>2, <2>5, <2>a
  <2>c. n \in Nat /\ n = Binds
    BY <1>2, <2>5
  <2> HIDE DEF n
  <2>d. ASSUME NEW i \in 1 .. 4 + n + 1
        PROVE  InPutIn(b[i], 4 + n + 1 - i)
    <3>1. b[i] = IF i <= 4 THEN c[i] ELSE IF i = 4 + n + 1 THEN "sign" ELSE "stubs"
      BY <2>b, <2>d
    <3>2. /\ 4 + n + 1 - i = n + 4 => i = 1
          /\ 4 + n + 1 - i = n + 3 => i = 2
          /\ 4 + n + 1 - i = n + 2 => i = 3
          /\ 4 + n + 1 - i = n + 1 => i = 4
          /\ 4 + n + 1 - i \in 1 .. n => ~(i <= 4) /\ i # 4 + n + 1
          /\ 4 + n + 1 - i = 0 => ~(i <= 4) /\ i = 4 + n + 1
      BY <2>c, <2>d
    <3> QED
      BY <1>2, <2>5, <2>c, <3>1, <3>2 DEF InPutIn
  <2> QED
    BY <1>4, <2>1, <2>b, <2>c, <2>d
<1> QED
  BY <1>3, <1>4

LEMMA TakeOutBegins ==
  ASSUME GamesAssumption
  PROVE  /\ TakeOut \in Seq(Operations) /\ Binds \in Nat /\ Len(TakeOut) = Binds + 4
         /\ \A i \in 1 .. Len(TakeOut) : InTakeOut(TakeOut[i], Len(TakeOut) - i)
<1> DEFINE a == <<"sdl_back", "remove_real", "remove_added">>
           b == a \o [i \in 1..Cardinality(Binaries) |-> "opengl"] \o <<"sign">>
<1>1. a \in Seq(Operations) /\ Len(a) = 3 /\ a[1] = "sdl_back" /\ a[2] = "remove_real" /\ a[3] = "remove_added"
  BY DEF Operations
<1>2. Binds \in Nat /\ "opengl" \in Operations
  BY UnlikeFits DEF Operations
<1>3. TakeOut = b
  BY DEF TakeOut
<1> HIDE DEF a
<1> DEFINE n == Binds
<1>a. /\ b \in Seq(Operations) /\ Len(b) = Len(a) + n + 1
      /\ \A j \in 1 .. Len(a) + n + 1 :
           b[j] = IF j <= Len(a) THEN a[j] ELSE IF j = Len(a) + n + 1 THEN "sign" ELSE "opengl"
  BY <1>1, <1>2, ThenBinaries
<1> HIDE DEF b
<1>b. /\ b \in Seq(Operations) /\ Len(b) = 3 + n + 1
      /\ \A j \in 1 .. 3 + n + 1 :
           b[j] = IF j <= 3 THEN a[j] ELSE IF j = 3 + n + 1 THEN "sign" ELSE "opengl"
  BY <1>1, <1>2, <1>a
<1>c. n \in Nat /\ n = Binds
  BY <1>1, <1>2
<1> HIDE DEF n
<1>d. ASSUME NEW i \in 1 .. 3 + n + 1
      PROVE  InTakeOut(b[i], 3 + n + 1 - i)
  <2>1. b[i] = IF i <= 3 THEN a[i] ELSE IF i = 3 + n + 1 THEN "sign" ELSE "opengl"
    BY <1>b, <1>d
  <2>2. /\ 3 + n + 1 - i # n + 4
        /\ 3 + n + 1 - i = n + 3 => i = 1
        /\ 3 + n + 1 - i = n + 2 => i = 2
        /\ 3 + n + 1 - i = n + 1 => i = 3
        /\ 3 + n + 1 - i \in 1 .. n => ~(i <= 3) /\ i # 3 + n + 1
        /\ 3 + n + 1 - i = 0 => ~(i <= 3) /\ i = 3 + n + 1
    BY <1>c, <1>d
  <2> QED
    BY <1>1, <1>2, <1>c, <2>1, <2>2 DEF InTakeOut
<1> QED
  BY <1>3, <1>b, <1>c, <1>d

LEMMA InitOpenMW ==
  ASSUME GamesAssumption, OpenMWInit
  PROVE  OpenMWIInv
<1>1. Original \in Apps /\ Original.sdl = "original" /\ Original.real = Absent
  BY DEF Original, Apps
<1>2. << >> \in Seq(Operations)
  OBVIOUS
<1> QED
  BY <1>1, <1>2 DEF OpenMWInit, OpenMWIInv, OpenMWTypeOK, OpenMWConsistent, GamesAssumption, Patched

(* What is left after one operation more.                                  *)
LEMMA OneLess ==
  ASSUME todo \in Seq(Operations), Left >= 1, Binds \in Nat, todo' = Tail(todo)
  PROVE  /\ todo' \in Seq(Operations) /\ Left \in Nat /\ Left' = Left - 1
         /\ \A i \in 1 .. Left - 1 : todo'[i] = todo[i + 1] /\ Left' - i = Left - (i + 1)
         /\ Head(todo) = todo[1]
<1>1. Len(todo) \in Nat
  BY LenProperties
<1>2. todo # << >>
  BY <1>1 DEF Left
<1>3. /\ Tail(todo) \in Seq(Operations) /\ Len(Tail(todo)) = Len(todo) - 1
      /\ \A i \in 1 .. Len(todo) - 1 : Tail(todo)[i] = todo[i + 1]
  BY <1>2, HeadTailProperties
<1>4. Head(todo) = todo[1]
  OBVIOUS
<1> QED
  BY <1>1, <1>3, <1>4 DEF Left

LEMMA PutInStep ==
  ASSUME GamesAssumption, OpenMWIInv, openmwPhase = "files", openmwWanted, FileOperation
  PROVE  OpenMWIInv'
<1> DEFINE r == Left
           n == Binds
           U == Cardinality(Unlike("stubs"))
<1>1. /\ PutInGoesOn /\ app \in Apps /\ todo \in Seq(Operations)
      /\ app.real \in {"original", Absent} /\ (~Patched(app) => app.sdl = "original")
      /\ app' = Operate(Head(todo), app) /\ todo' = Tail(todo) /\ openmwWanted' = openmwWanted
      /\ outcome = Absent
  BY DEF OpenMWIInv, OpenMWTypeOK, FileOperation
<1>2. /\ n \in Nat /\ U \in 0 .. n /\ Cardinality(Unlike("stubs")') \in 0 .. n
      /\ Cardinality(Unlike("stubs")') = 0 => \A b \in Binaries : app'.loads[b] = "stubs"
  BY UnlikeFits, UnlikeFitsAfter
<1>3. r \in 1 .. n + 5
  BY <1>1 DEF PutInGoesOn
<1>4. /\ todo' \in Seq(Operations) /\ Left' = r - 1 /\ Head(todo) = todo[1]
      /\ \A i \in 1 .. r - 1 : todo'[i] = todo[i + 1] /\ Left' - i = r - (i + 1)
  <2>1. Left >= 1
    BY <1>2, <1>3
  <2> QED
    BY <1>1, <1>2, <2>1, OneLess
<1>5. /\ r = n + 5 => todo[1] = "keep_real"
      /\ r = n + 4 => todo[1] = "sdl"
      /\ r = n + 3 => todo[1] = "libwmglhost"
      /\ r = n + 2 => todo[1] = "libwinemetalgl"
      /\ r \in 2 .. n + 1 => todo[1] = "stubs"
      /\ r = 1 => todo[1] = "sign"
  <2>1. 1 \in 1 .. r
    BY <1>2, <1>3
  <2>2. InPutIn(todo[1], r - 1)
    BY <1>1, <2>1 DEF PutInGoesOn
  <2>3. Binds = n
    OBVIOUS
  <2> HIDE DEF r, n
  <2>4. /\ r = n + 5 <=> r - 1 = n + 4
        /\ r = n + 4 <=> r - 1 = n + 3
        /\ r = n + 3 <=> r - 1 = n + 2
        /\ r = n + 2 <=> r - 1 = n + 1
        /\ r \in 2 .. n + 1 <=> r - 1 \in 1 .. n
        /\ r = 1 <=> r - 1 = 0
    BY <1>2, <1>3
  <2> QED
    BY <2>2, <2>3, <2>4 DEF InPutIn
<1>6. \A i \in 1 .. r - 1 : InPutIn(todo'[i], Left' - i)
  <2> SUFFICES ASSUME NEW i \in 1 .. r - 1
               PROVE  InPutIn(todo'[i], Left' - i)
    OBVIOUS
  <2>1. i + 1 \in 1 .. r
    BY <1>3
  <2>2. InPutIn(todo[i + 1], r - (i + 1))
    BY <1>1, <2>1 DEF PutInGoesOn
  <2> QED
    BY <1>4, <2>2
<1>7. /\ app' \in Apps /\ app'.real \in {"original", Absent}
      /\ ~Patched(app)' => app'.sdl = "original"
      /\ r = 1 => openmwPhase' = "idle" /\ outcome' = "applied"
      /\ r # 1 => openmwPhase' = "files" /\ outcome' = Absent
      /\ IF r = n + 5 THEN Patched(app)' ELSE app'.real = app.real
      /\ IF r = n + 4 THEN app'.sdl = "glue" ELSE app'.sdl = app.sdl
      /\ app.added \subseteq app'.added
      /\ r = n + 3 => "libwmglhost" \in app'.added
      /\ r = n + 2 => "libwinemetalgl" \in app'.added
      /\ Cardinality(Unlike("stubs")') < r - 1 \/ r = 1
      /\ r = 1 => app'.signed /\ Cardinality(Unlike("stubs")') = 0
  <2>0. /\ r = 1 => openmwPhase' = "idle" /\ outcome' = "applied"
        /\ r # 1 => openmwPhase' = "files" /\ outcome' = Absent
    BY <1>1 DEF FileOperation, Left
  <2>a. /\ U < r /\ (IF r = n + 5 THEN ~Patched(app) ELSE Patched(app))
    BY <1>1 DEF PutInGoesOn
  <2>b. app'.loads = app.loads => Cardinality(Unlike("stubs")') = U
    BY DEF Unlike
  <2>c. app' = Operate(todo[1], app)
    BY <1>1, <1>4
  <2>d. Absent # "original" /\ Absent # "glue"
    BY DEF GamesAssumption
  <2> HIDE DEF r, n, U
  <2>1. CASE r = n + 5
    <3>1. app' = [app EXCEPT !.real = app.sdl]
      BY <1>5, <2>1, <2>c DEF Operate, Added
    <3>2. app' \in Apps /\ app'.real = "original" /\ app'.sdl = app.sdl /\ app'.added = app.added
          /\ app'.loads = app.loads
      BY <1>1, <2>1, <2>a, <3>1 DEF Apps
    <3> QED
      BY <1>2, <2>0, <2>1, <2>b, <2>d, <3>2 DEF Patched
  <2>2. CASE r = n + 4
    <3>1. app' = [app EXCEPT !.sdl = "glue", !.signed = FALSE]
      BY <1>5, <2>2, <2>c DEF Operate, Added
    <3>2. app' \in Apps /\ app'.real = app.real /\ app'.sdl = "glue" /\ app'.added = app.added
          /\ app'.loads = app.loads
      BY <1>1, <3>1 DEF Apps
    <3> QED
      BY <1>1, <1>2, <2>0, <2>2, <2>a, <2>b, <3>2 DEF Patched
  <2>3. CASE r \in {n + 2, n + 3}
    <3> DEFINE d == IF r = n + 3 THEN "libwmglhost" ELSE "libwinemetalgl"
    <3>1. app' = [app EXCEPT !.added = @ \cup {d}, !.signed = FALSE]
      <4>1. todo[1] = d
        BY <1>2, <1>5, <2>3
      <4> QED
        BY <2>c, <4>1 DEF Operate, Added
    <3>2. app' \in Apps /\ app'.real = app.real /\ app'.sdl = app.sdl /\ app'.added = app.added \cup {d}
          /\ app'.loads = app.loads
      <4>1. d \in Added
        BY DEF Added
      <4> HIDE DEF d
      <4>2. app.added \cup {d} \in SUBSET Added
        BY <1>1, <4>1 DEF Apps
      <4> QED
        BY <1>1, <3>1, <4>2 DEF Apps
    <3> QED
      BY <1>1, <1>2, <2>0, <2>3, <2>a, <2>b, <3>2 DEF Patched
  <2>4. CASE r = 1
    <3>1. app' = [app EXCEPT !.signed = TRUE]
      BY <1>2, <1>5, <2>4, <2>c DEF Operate, Added
    <3>2. app' \in Apps /\ app'.real = app.real /\ app'.sdl = app.sdl /\ app'.added = app.added
          /\ app'.loads = app.loads /\ app'.signed
      BY <1>1, <3>1 DEF Apps
    <3> QED
      BY <1>1, <1>2, <2>0, <2>4, <2>a, <2>b, <3>2 DEF Patched
  <2>5. CASE r \in 2 .. n + 1
    <3>1. app' = Rewrite(app, "stubs")
      <4>1. todo[1] = "stubs"
        BY <1>2, <1>5, <2>5
      <4> QED
        BY <2>c, <4>1 DEF Operate, Added
    <3>2. /\ app' \in Apps
          /\ app'.sdl = app.sdl /\ app'.real = app.real /\ app'.added = app.added
          /\ U > 0 => Cardinality(Unlike("stubs")') = U - 1
          /\ U = 0 => Cardinality(Unlike("stubs")') = 0
      BY <1>1, <3>1, OneMoreLoads DEF OpenMWTypeOK, U
    <3>3. Cardinality(Unlike("stubs")') < r - 1
      BY <1>2, <2>5, <2>a, <3>2
    <3> QED
      BY <1>1, <1>2, <2>0, <2>5, <2>a, <3>2, <3>3 DEF Patched
  <2> QED
    BY <1>2, <1>3, <2>1, <2>2, <2>3, <2>4, <2>5
<1>8. /\ r < n + 4 => app.sdl = "glue"
      /\ r < n + 3 => "libwmglhost" \in app.added
      /\ r < n + 2 => app.added = Added
      /\ IF r = n + 5 THEN ~Patched(app) ELSE Patched(app)
  BY <1>1 DEF PutInGoesOn
<1>9. /\ Binds' = n /\ app'.added \subseteq Added
  BY <1>7 DEF Binds, Apps
<1> HIDE DEF r, n, U
<1>10. /\ r - 1 < n + 4 => app'.sdl = "glue"
       /\ r - 1 < n + 3 => "libwmglhost" \in app'.added
       /\ r - 1 < n + 2 => app'.added = Added
       /\ Patched(app)'
  BY <1>2, <1>3, <1>7, <1>8, <1>9 DEF Patched, Added
<1>11. CASE r = 1
  <2>1. Whole(app)' /\ app'.signed /\ app'.real = "original"
    BY <1>2, <1>7, <1>10, <1>11 DEF Whole, Patched
  <2>2. OpenMWConsistent'
    BY <1>7, <1>11, <2>1 DEF OpenMWConsistent
  <2> QED
    BY <1>1, <1>4, <1>7, <1>11, <2>2 DEF OpenMWIInv, OpenMWTypeOK
<1>12. CASE r # 1
  <2>1. PutInGoesOn'
    <3>1. Left' \in 1 .. Binds' + 5 /\ Left' # n + 5 /\ Left' = r - 1
      BY <1>2, <1>3, <1>4, <1>9, <1>12
    <3> QED
      BY <1>4, <1>6, <1>7, <1>9, <1>10, <1>12, <3>1 DEF PutInGoesOn
  <2>2. OpenMWConsistent'
    BY <1>7, <1>12 DEF OpenMWConsistent, Patched
  <2> QED
    BY <1>1, <1>4, <1>7, <1>12, <2>1, <2>2 DEF OpenMWIInv, OpenMWTypeOK
<1> QED
  BY <1>11, <1>12

LEMMA TakeOutStep ==
  ASSUME GamesAssumption, OpenMWIInv, openmwPhase = "files", ~openmwWanted, FileOperation
  PROVE  OpenMWIInv'
<1> DEFINE r == Left
           n == Binds
           U == Cardinality(Unlike("opengl"))
<1>1. /\ TakeOutGoesOn /\ app \in Apps /\ todo \in Seq(Operations)
      /\ app.real \in {"original", Absent} /\ (~Patched(app) => app.sdl = "original")
      /\ app' = Operate(Head(todo), app) /\ todo' = Tail(todo) /\ openmwWanted' = openmwWanted
      /\ outcome = Absent
      /\ openmwWanted \in BOOLEAN
  BY DEF OpenMWIInv, OpenMWTypeOK, FileOperation
<1>2. /\ n \in Nat /\ U \in 0 .. n /\ Cardinality(Unlike("opengl")') \in 0 .. n
      /\ Cardinality(Unlike("opengl")') = 0 => \A b \in Binaries : app'.loads[b] = "opengl"
  BY UnlikeFits, UnlikeFitsAfter
<1>3. r \in 1 .. n + 4
  BY <1>1 DEF TakeOutGoesOn
<1>4. /\ todo' \in Seq(Operations) /\ Left' = r - 1 /\ Head(todo) = todo[1]
      /\ \A i \in 1 .. r - 1 : todo'[i] = todo[i + 1] /\ Left' - i = r - (i + 1)
  <2>1. Left >= 1
    BY <1>2, <1>3
  <2> QED
    BY <1>1, <1>2, <2>1, OneLess
<1>5. /\ r = n + 4 => todo[1] = "sdl_back"
      /\ r = n + 3 => todo[1] = "remove_real"
      /\ r = n + 2 => todo[1] = "remove_added"
      /\ r \in 2 .. n + 1 => todo[1] = "opengl"
      /\ r = 1 => todo[1] = "sign"
  <2>1. 1 \in 1 .. r
    BY <1>2, <1>3
  <2>2. InTakeOut(todo[1], r - 1)
    BY <1>1, <2>1 DEF TakeOutGoesOn
  <2>3. Binds = n
    OBVIOUS
  <2> HIDE DEF r, n
  <2>4. /\ r = n + 4 <=> r - 1 = n + 3
        /\ r = n + 3 <=> r - 1 = n + 2
        /\ r = n + 2 <=> r - 1 = n + 1
        /\ r \in 2 .. n + 1 <=> r - 1 \in 1 .. n
        /\ r = 1 <=> r - 1 = 0
    BY <1>2, <1>3
  <2> QED
    BY <2>2, <2>3, <2>4 DEF InTakeOut
<1>6. \A i \in 1 .. r - 1 : InTakeOut(todo'[i], Left' - i)
  <2> SUFFICES ASSUME NEW i \in 1 .. r - 1
               PROVE  InTakeOut(todo'[i], Left' - i)
    OBVIOUS
  <2>1. i + 1 \in 1 .. r
    BY <1>3
  <2>2. InTakeOut(todo[i + 1], r - (i + 1))
    BY <1>1, <2>1 DEF TakeOutGoesOn
  <2> QED
    BY <1>4, <2>2
<1>7. /\ app' \in Apps /\ app'.real \in {"original", Absent}
      /\ ~Patched(app)' => app'.sdl = "original"
      /\ r = 1 => openmwPhase' = "idle" /\ outcome' = "removed"
      /\ r # 1 => openmwPhase' = "files" /\ outcome' = Absent
      /\ IF r = n + 3 THEN ~Patched(app)' ELSE app'.real = app.real
      /\ IF r = n + 4 THEN app'.sdl = "original" ELSE app'.sdl = app.sdl
      /\ IF r = n + 2 THEN app'.added = {} ELSE app'.added = app.added
      /\ Cardinality(Unlike("opengl")') < r - 1 \/ r = 1
      /\ r = 1 => app'.signed /\ Cardinality(Unlike("opengl")') = 0
  <2>0. /\ r = 1 => openmwPhase' = "idle" /\ outcome' = "removed"
        /\ r # 1 => openmwPhase' = "files" /\ outcome' = Absent
    BY <1>1 DEF FileOperation, Left
  <2>a. /\ U < r /\ (r > n + 2 => Patched(app)) /\ (r < n + 4 => app.sdl = "original")
    BY <1>1 DEF TakeOutGoesOn
  <2>b. app'.loads = app.loads => Cardinality(Unlike("opengl")') = U
    BY DEF Unlike
  <2>c. app' = Operate(todo[1], app)
    BY <1>1, <1>4
  <2>d. Absent # "original" /\ Absent # "glue"
    BY DEF GamesAssumption
  <2> HIDE DEF r, n, U
  <2>1. CASE r = n + 4
    <3>1. app' = [app EXCEPT !.sdl = app.real, !.signed = FALSE]
      BY <1>5, <2>1, <2>c DEF Operate, Added
    <3>2. app.real = "original"
      BY <1>1, <1>2, <2>1, <2>a DEF Patched
    <3>3. app' \in Apps /\ app'.real = app.real /\ app'.sdl = "original" /\ app'.added = app.added
          /\ app'.loads = app.loads
      BY <1>1, <3>1, <3>2 DEF Apps
    <3> QED
      BY <1>1, <1>2, <2>0, <2>1, <2>b, <3>3 DEF Patched
  <2>2. CASE r = n + 3
    <3>1. app' = [app EXCEPT !.real = Absent]
      BY <1>5, <2>2, <2>c DEF Operate, Added
    <3>2. app' \in Apps /\ app'.real = Absent /\ app'.sdl = app.sdl /\ app'.added = app.added
          /\ app'.loads = app.loads
      BY <1>1, <3>1 DEF Apps
    <3> QED
      BY <1>2, <2>0, <2>2, <2>a, <2>b, <3>2 DEF Patched
  <2>3. CASE r = n + 2
    <3>1. app' = [app EXCEPT !.added = {}]
      BY <1>5, <2>3, <2>c DEF Operate, Added
    <3>2. app' \in Apps /\ app'.real = app.real /\ app'.sdl = app.sdl /\ app'.added = {}
          /\ app'.loads = app.loads
      BY <1>1, <3>1 DEF Apps
    <3> QED
      BY <1>1, <1>2, <2>0, <2>3, <2>b, <3>2 DEF Patched
  <2>4. CASE r = 1
    <3>1. app' = [app EXCEPT !.signed = TRUE]
      BY <1>5, <2>4, <2>c DEF Operate, Added
    <3>2. app' \in Apps /\ app'.real = app.real /\ app'.sdl = app.sdl /\ app'.added = app.added
          /\ app'.loads = app.loads /\ app'.signed
      BY <1>1, <3>1 DEF Apps
    <3> QED
      BY <1>1, <1>2, <2>0, <2>4, <2>a, <2>b, <3>2 DEF Patched
  <2>5. CASE r \in 2 .. n + 1
    <3>1. app' = Rewrite(app, "opengl")
      BY <1>5, <2>5, <2>c DEF Operate, Added
    <3>2. /\ app' \in Apps
          /\ app'.sdl = app.sdl /\ app'.real = app.real /\ app'.added = app.added
          /\ U > 0 => Cardinality(Unlike("opengl")') = U - 1
          /\ U = 0 => Cardinality(Unlike("opengl")') = 0
      BY <1>1, <3>1, OneMoreLoads DEF OpenMWTypeOK, U
    <3>3. Cardinality(Unlike("opengl")') < r - 1
      BY <1>2, <2>5, <2>a, <3>2
    <3> QED
      BY <1>1, <1>2, <2>0, <2>5, <2>a, <3>2, <3>3 DEF Patched
  <2> QED
    BY <1>2, <1>3, <2>1, <2>2, <2>3, <2>4, <2>5
<1>8. /\ r > n + 2 => Patched(app)
      /\ r < n + 4 => app.sdl = "original"
      /\ r < n + 3 => ~Patched(app)
      /\ r < n + 2 => app.added = {}
  BY <1>1 DEF TakeOutGoesOn
<1>9. Binds' = n
  BY DEF Binds
<1> HIDE DEF r, n, U
<1>10. /\ r - 1 > n + 2 => Patched(app)'
       /\ r - 1 < n + 4 => app'.sdl = "original"
       /\ r - 1 < n + 3 => ~Patched(app)'
       /\ r - 1 < n + 2 => app'.added = {}
  BY <1>2, <1>3, <1>7, <1>8 DEF Patched
<1>11. CASE r = 1
  <2>1. app' = Original
    <3>1. /\ app'.sdl = "original" /\ app'.real = Absent /\ app'.added = {} /\ app'.signed = TRUE
          /\ \A b \in Binaries : app'.loads[b] = "opengl"
      BY <1>2, <1>7, <1>10, <1>11 DEF Patched, Apps
    <3>2. app'.loads = [b \in Binaries |-> "opengl"]
      BY <1>7, <3>1 DEF Apps
    <3> QED
      BY <1>7, <3>1, <3>2 DEF Apps, Original
  <2>2. OpenMWConsistent'
    BY <1>7, <1>11, <2>1 DEF OpenMWConsistent, Original
  <2> QED
    BY <1>1, <1>4, <1>7, <1>11, <2>2 DEF OpenMWIInv, OpenMWTypeOK
<1>12. CASE r # 1
  <2>1. TakeOutGoesOn'
    <3>1. Left' \in 1 .. Binds' + 4 /\ Left' = r - 1
      BY <1>2, <1>3, <1>4, <1>9, <1>12
    <3> QED
      BY <1>4, <1>6, <1>7, <1>9, <1>10, <1>12, <3>1 DEF TakeOutGoesOn
  <2>2. OpenMWConsistent'
    BY <1>7, <1>12 DEF OpenMWConsistent, Patched
  <2> QED
    BY <1>1, <1>4, <1>7, <1>12, <2>1, <2>2 DEF OpenMWIInv, OpenMWTypeOK
<1> QED
  BY <1>11, <1>12

LEMMA NextOpenMW ==
  ASSUME GamesAssumption, OpenMWIInv, [OpenMWNext]_openmwVars
  PROVE  OpenMWIInv'
<1>1. CASE UNCHANGED openmwVars
  BY <1>1 DEF openmwVars, OpenMWIInv, OpenMWTypeOK, OpenMWConsistent, Patched, Whole,
              PutInGoesOn, TakeOutGoesOn, InPutIn, InTakeOut, Left, Binds, Unlike
<1>2. CASE AppReplaced
  <2>1. /\ openmwPhase' = "idle" /\ app' = Original
        /\ UNCHANGED <<openmwWanted, todo, outcome>>
    BY <1>2 DEF AppReplaced
  <2>2. Original \in Apps /\ Original.sdl = "original" /\ Original.real = Absent
    BY DEF Original, Apps
  <2> QED
    BY <2>1, <2>2 DEF OpenMWIInv, OpenMWTypeOK, OpenMWConsistent, Patched
<1>3. CASE (\E on \in BOOLEAN : OpenMWApply(on)) \/ OpenMWKilled \/ OperationFails
  <2>1. /\ openmwPhase' \in {"idle", "openmw"} /\ openmwWanted' \in BOOLEAN /\ app' = app
        /\ todo' \in Seq(Operations) /\ outcome' \in {Absent, "failed"}
    BY <1>3, EmptySeq DEF OpenMWApply, OpenMWKilled, OperationFails, OpenMWIInv
  <2>2. /\ outcome' # "applied" /\ outcome' # "removed"
        /\ openmwPhase' # "idle" => outcome' = Absent
    BY <1>3, <2>1 DEF GamesAssumption, OpenMWApply, OpenMWKilled, OperationFails
  <2> QED
    BY <2>1, <2>2 DEF OpenMWIInv, OpenMWTypeOK, OpenMWConsistent, Patched
<1>4. CASE StartOpenMW
  <2>1. openmwPhase = "openmw" /\ UNCHANGED <<openmwWanted, app>>
    BY <1>4 DEF StartOpenMW
  <2>2. Cardinality(Unlike("stubs")') \in 0 .. Binds /\ Cardinality(Unlike("opengl")') \in 0 .. Binds
    BY UnlikeFitsAfter
  <2>3. Binds' = Binds /\ Patched(app)' = Patched(app) /\ Binds \in Nat
    BY <2>1, UnlikeFits DEF Binds, Patched
  <2>4. CASE openmwPhase' = "idle" /\ UNCHANGED todo /\ outcome' \in {outcome, "inPlace", "waiting"}
    <3>1. outcome = Absent /\ Absent # "applied" /\ Absent # "removed"
      BY <2>1 DEF OpenMWIInv, GamesAssumption
    <3>2. outcome' # "applied" /\ outcome' # "removed"
      BY <2>4, <3>1
    <3>3. OpenMWConsistent'
      BY <2>1, <3>2 DEF OpenMWIInv, OpenMWConsistent
    <3> QED
      BY <2>1, <2>4, <3>3 DEF OpenMWIInv, OpenMWTypeOK, Patched
  <2>5. CASE /\ openmwWanted /\ openmwPhase' = "files" /\ todo' = PutIn /\ UNCHANGED outcome
    <3>1. /\ todo' \in Seq(Operations)
          /\ Left' = IF Patched(app) THEN Binds + 4 ELSE Binds + 5
          /\ \A i \in 1 .. Left' : InPutIn(todo'[i], Left' - i)
      BY <2>5, PutInBegins DEF Left
    <3>2. PutInGoesOn'
      <4> DEFINE k == Left'
                 n == Binds
                 u == Cardinality(Unlike("stubs")')
      <4>1. /\ n \in Nat /\ u \in 0 .. n /\ Binds' = n /\ k \in {n + 4, n + 5}
            /\ k = n + 5 <=> ~Patched(app)'
        BY <2>2, <2>3, <3>1
      <4>2. k \in 1 .. n + 5 /\ u < k /\ ~(k < n + 4) /\ ~(k < n + 3) /\ ~(k < n + 2)
        <5> HIDE DEF k, n, u
        <5> QED
          BY <4>1
      <4>3. \A i \in 1 .. k : InPutIn(todo'[i], k - i)
        BY <3>1
      <4>4. k = Left' /\ u = Cardinality(Unlike("stubs")')
        OBVIOUS
      <4> HIDE DEF k, n, u
      <4> QED
        BY <4>1, <4>2, <4>3, <4>4 DEF PutInGoesOn
    <3> QED
      BY <2>1, <2>5, <3>1, <3>2 DEF OpenMWIInv, OpenMWTypeOK, OpenMWConsistent, Patched
  <2>6. CASE /\ ~openmwWanted /\ Patched(app) /\ openmwPhase' = "files" /\ todo' = TakeOut
             /\ UNCHANGED outcome
    <3>1. /\ todo' \in Seq(Operations) /\ Left' = Binds + 4
          /\ \A i \in 1 .. Left' : InTakeOut(todo'[i], Left' - i)
      BY <2>6, TakeOutBegins DEF Left
    <3>2. TakeOutGoesOn'
      BY <2>1, <2>2, <2>3, <2>6, <3>1 DEF TakeOutGoesOn
    <3> QED
      BY <2>1, <2>6, <3>1, <3>2 DEF OpenMWIInv, OpenMWTypeOK, OpenMWConsistent, Patched
  <2> QED
    BY <1>4, <2>4, <2>5, <2>6 DEF StartOpenMW
<1>5. CASE FileOperation
  <2>1. openmwPhase = "files"
    BY <1>5 DEF FileOperation
  <2> QED
    BY <1>5, <2>1, PutInStep, TakeOutStep
<1> QED
  BY <1>1, <1>2, <1>3, <1>4, <1>5 DEF OpenMWNext

(* For any arguments, launchers' settings and binaries: whenever the       *)
(* application is killed, a file operation fails or the launcher writes    *)
(* over it, the player's own JVM arguments are kept and the fix's are on   *)
(* record, the game's own SDL is never lost, and a pass that says it put   *)
(* the OpenMW fix in or took it out did all of it, whatever earlier passes *)
(* left half done.                                                         *)
THEOREM GamesAreKept ==
  ASSUME GamesAssumption
  PROVE  MinecraftSpec /\ OpenMWSpec => []GamesKept
<1>1. MinecraftAssumption
  BY DEF GamesAssumption
<1>2. MinecraftInit => MinecraftIInv
  BY <1>1, InitMinecraft
<1>3. MinecraftIInv /\ [MinecraftNext]_minecraftVars => MinecraftIInv'
  BY <1>1, NextMinecraft
<1>4. OpenMWInit => OpenMWIInv
  BY InitOpenMW
<1>5. OpenMWIInv /\ [OpenMWNext]_openmwVars => OpenMWIInv'
  BY NextOpenMW
<1>6. MinecraftIInv /\ OpenMWIInv => GamesKept
  BY <1>1, MinecraftIsKept DEF OpenMWIInv, GamesKept
<1> QED
  BY <1>2, <1>3, <1>4, <1>5, <1>6, PTL DEF MinecraftSpec, OpenMWSpec
=============================================================================

-------------------------- MODULE TransientAllocator --------------------------
(***************************************************************************)
(* core/metal/transient.mm: a context's memory for per-draw data.  Each    *)
(* allocation is for work recorded in a command buffer, named by its       *)
(* serial; chunks only append, and are rewound once the last command       *)
(* buffer that used them has completed.                                    *)
(*                                                                         *)
(* Chunks are named in the order they are made, which is the order of      *)
(* chunks_: `current` names the chunk current_ is the index of, through    *)
(* the index adjustment when chunks before it go.                          *)
(*                                                                         *)
(* The command buffers of the context complete in the order of their       *)
(* commits (GpuQueue), so `completed` stands for Queue::isComplete().  The *)
(* model keeps the regions that work recorded or in flight still reads.    *)
(***************************************************************************)
EXTENDS Integers

CONSTANTS ChunkSize,   \* kChunkSize, in units of the smallest allocation
          Sizes,       \* sizes asked for
          Alignments,  \* alignments asked for
          MaxSerial,   \* bound: command buffers recorded
          MaxChunks    \* bound: Metal buffers made

ASSUME AllocatorAssumption ==
  /\ ChunkSize \in Nat \ {0}
  /\ Sizes \subseteq Nat \ {0} /\ Alignments \subseteq Nat \ {0}
  /\ MaxSerial \in Nat \ {0} /\ MaxChunks \in Nat

VARIABLES chunks,     \* chunks_: the chunk of each name
          current,    \* the chunk at current_, 0 for SIZE_MAX
          serial,     \* the command buffer being recorded
          completed,  \* the last one the GPU completed
          made,       \* chunks made so far
          regions     \* history: the regions allocated for work not complete

vars == <<chunks, current, serial, completed, made, regions>>

Chunk  == [length : Nat, used : Nat, last : Nat]
Region == [chunk : Nat, start : Nat, size : Nat, serial : Nat]

TypeOK ==
  /\ made \in Nat
  /\ DOMAIN chunks \subseteq 1 .. made
  /\ chunks \in [DOMAIN chunks -> Chunk]
  /\ current \in DOMAIN chunks \cup {0}
  /\ serial \in Nat /\ completed \in Nat /\ completed < serial
  /\ regions \subseteq Region

Init ==
  /\ chunks = [c \in {} |-> [length |-> 0, used |-> 0, last |-> 0]]
  /\ current = 0 /\ made = 0
  /\ serial = 1 /\ completed = 0
  /\ regions = {}

-----------------------------------------------------------------------------
IsComplete(s) == s <= completed

(* The first multiple of an alignment from n on. *)
Aligned(n, a) == ((n + a - 1) \div a) * a

(* The current chunk has room. *)
Fits(size, a) ==
  current # 0 /\ Aligned(chunks[current].used, a) + size <= chunks[current].length

(* Mutant: a chunk of the command buffer being recorded may be rewound. *)
ReusableByOlder(c, size) ==
  c # current /\ chunks[c].length >= size /\ IsComplete(chunks[c].last - 1)

(* A chunk other than the current one, its work complete. *)
Reusable(c, size) ==
  /\ c # current /\ chunks[c].length >= size
  /\ chunks[c].last # serial /\ IsComplete(chunks[c].last)

(* The region is the work's until the command buffer completes. *)
Take(c, start, size) ==
  regions' = regions \cup {[chunk |-> c, start |-> start, size |-> size, serial |-> serial]}

Larger(a, b) == IF a > b THEN a ELSE b

(* allocate(), in the current chunk. *)
AppendRegion(size, a) ==
  /\ Fits(size, a)
  /\ LET start == Aligned(chunks[current].used, a) IN
     /\ chunks' = [chunks EXCEPT ![current].used = start + size,
                                 ![current].last = Larger(chunks[current].last, serial)]
     /\ Take(current, start, size)
  /\ UNCHANGED <<current, serial, completed, made>>

(* allocate(), rewinding the first chunk whose work is complete. *)
Rewind(size, a) ==
  /\ ~Fits(size, a)
  /\ \E c \in DOMAIN chunks :
       /\ Reusable(c, size)
       /\ \A d \in DOMAIN chunks : d < c => ~Reusable(d, size)
       /\ chunks' = [chunks EXCEPT ![c].used = size, ![c].last = serial]
       /\ current' = c
       /\ Take(c, 0, size)
  /\ UNCHANGED <<serial, completed, made>>

(* Chunks made for one large allocation go, once their work is done, when  *)
(* another one needs a chunk.                                              *)
Kept(size) ==
  {c \in DOMAIN chunks : \/ size <= ChunkSize \/ c = current
                         \/ chunks[c].length <= ChunkSize
                         \/ ~IsComplete(chunks[c].last)}

(* allocate(), in a new chunk. *)
NewChunk(size, a) ==
  /\ ~Fits(size, a)
  /\ \A c \in DOMAIN chunks : ~Reusable(c, size)
  /\ made < MaxChunks
  /\ made' = made + 1
  /\ chunks' = [c \in Kept(size) \cup {made + 1} |->
                 IF c = made + 1
                   THEN [length |-> Larger(ChunkSize, size), used |-> size, last |-> serial]
                   ELSE chunks[c]]
  /\ current' = made + 1
  /\ Take(made + 1, 0, size)
  /\ UNCHANGED <<serial, completed>>

(* allocate(), when there is no memory for a new chunk. *)
NoMemory(size, a) ==
  /\ ~Fits(size, a)
  /\ \A c \in DOMAIN chunks : ~Reusable(c, size)
  /\ chunks' = [c \in Kept(size) |-> chunks[c]]
  /\ UNCHANGED <<current, serial, completed, made, regions>>

(* The command buffer is committed; the next one is recorded. *)
Commit ==
  /\ serial < MaxSerial
  /\ serial' = serial + 1
  /\ UNCHANGED <<chunks, current, completed, made, regions>>

(* The GPU completes the oldest command buffer in flight. *)
Complete ==
  /\ completed + 1 < serial
  /\ completed' = completed + 1
  /\ regions' = {r \in regions : r.serial > completed + 1}
  /\ UNCHANGED <<chunks, current, serial, made>>

Next ==
  \/ \E size \in Sizes, a \in Alignments :
        \/ AppendRegion(size, a) \/ Rewind(size, a)
        \/ NewChunk(size, a) \/ NoMemory(size, a)
  \/ Commit \/ Complete

Spec == Init /\ [][Next]_vars

-----------------------------------------------------------------------------
End(r) == r.start + r.size

(* Memory that recorded or running work reads is not handed out again:     *)
(* "earlier regions of a chunk stay valid while their command buffers run".*)
RegionsDisjoint ==
  \A q, r \in regions : q # r /\ q.chunk = r.chunk => End(q) <= r.start \/ End(r) <= q.start

(* A region lies within its chunk, which is kept while the work runs. *)
RegionsFit ==
  \A r \in regions : r.chunk \in DOMAIN chunks /\ End(r) <= chunks[r.chunk].length

(* The inductive invariant: every region lies below what its chunk handed  *)
(* out, and its work is no later than the chunk's last serial says.        *)
Recorded ==
  /\ \A c \in DOMAIN chunks :
       chunks[c].used <= chunks[c].length /\ chunks[c].last <= serial
  /\ \A r \in regions :
       /\ completed < r.serial
       /\ r.chunk \in DOMAIN chunks
       /\ End(r) <= chunks[r.chunk].used /\ r.serial <= chunks[r.chunk].last

IInv == TypeOK /\ Recorded /\ RegionsDisjoint

=============================================================================

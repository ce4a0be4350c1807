------------------------------- MODULE LowMemory -------------------------------
(***************************************************************************)
(* Memory below 4 GB for a 32-bit program (wine/unix/unix_wow64.c): buffer *)
(* storage in shared chunks or in reservations of its own, and copies of   *)
(* the core's strings, which share pieces of that storage. Each operation  *)
(* holds its lock throughout and is one step.                              *)
(*                                                                         *)
(* Sizes are counted in units, of which a page has PageUnits.              *)
(***************************************************************************)
EXTENDS Integers, Sequences, FiniteSets, FiniteSetsExt

CONSTANTS
    ChunkPages,     \* 64: pages of a chunk
    PageUnits,      \* CHUNK_PAGE
    Sizes,          \* of the storage buffers ask for
    Room,           \* reservations there is room for below 4 GB
    MaxPieces,      \* pieces in use at a time
    StringSources,  \* addresses of the core's strings
    Texts,          \* what may be there: sets of [length, version]
    MaxCopies       \* copies of strings made in all

VARIABLES
    chunks,       \* newest first: [base, used]
    reserved,     \* bases of reservations
    storage,      \* pieces in use: [of, base, first, size]
    low_bytes,
    strings,      \* copies, oldest first: [source, text, page, at]
    string_page,  \* the piece strings are copied to
    string_room   \* what is free of it
memoryVars == <<chunks, reserved, storage, low_bytes, strings, string_page, string_room>>

NoPage == [of |-> "none"]
Large(size) == 2 * size > ChunkPages * PageUnits
\* Mutant: a piece's last, partial page is not its own.
PagesDown(size) == size \div PageUnits

Pages(size) == (size + PageUnits - 1) \div PageUnits
PagesOf(piece) == piece.first .. piece.first + Pages(piece.size) - 1

MemoryInit ==
    /\ chunks = <<>> /\ reserved = {} /\ storage = {} /\ low_bytes = 0
    /\ strings = <<>> /\ string_page = NoPage /\ string_room = 0

-----------------------------------------------------------------------------
FreeBases == 1..Room \ reserved

\* chunk_alloc: where a chunk has a run of free pages.
Runs(chunk, pages) == {f \in 0..ChunkPages - pages : f..f + pages - 1 \cap chunk.used = {}}
Roomy(pages) == {i \in DOMAIN chunks : Runs(chunks[i], pages) # {}}

\* low_alloc: the piece it gives, and what it reserved for it.
Take(piece) == storage' = storage \cup {piece} /\ low_bytes' = low_bytes + piece.size
AllocLarge(of, size, piece) ==
    /\ Large(size) /\ FreeBases # {}
    /\ piece = [of |-> of, base |-> Min(FreeBases), first |-> 0, size |-> size]
    /\ Take(piece) /\ reserved' = reserved \cup {piece.base} /\ UNCHANGED chunks
AllocInChunk(of, size, piece) ==
    LET i == Min(Roomy(Pages(size)))
    IN  /\ ~Large(size) /\ Roomy(Pages(size)) # {}
        /\ piece = [of |-> of, base |-> chunks[i].base, first |-> Min(Runs(chunks[i], Pages(size))), size |-> size]
        /\ Take(piece) /\ chunks' = [chunks EXCEPT ![i].used = @ \cup PagesOf(piece)] /\ UNCHANGED reserved
AllocNewChunk(of, size, piece) ==
    /\ ~Large(size) /\ Roomy(Pages(size)) = {} /\ FreeBases # {}
    /\ piece = [of |-> of, base |-> Min(FreeBases), first |-> 0, size |-> size]
    /\ Take(piece) /\ reserved' = reserved \cup {piece.base}
    /\ chunks' = <<[base |-> piece.base, used |-> PagesOf(piece)]>> \o chunks
Pieces(of, size) == {[of |-> of, base |-> b, first |-> f, size |-> size] : b \in 1..Room, f \in 0..ChunkPages - 1}
LowAlloc(of, size, piece) ==
    AllocLarge(of, size, piece) \/ AllocInChunk(of, size, piece) \/ AllocNewChunk(of, size, piece)

BufferStorage(size) ==
    /\ Cardinality(storage) < MaxPieces
    /\ \E piece \in Pieces("buffer", size) : LowAlloc("buffer", size, piece)
    /\ UNCHANGED <<strings, string_page, string_room>>

\* low_free: an empty chunk is released unless it is the newest.
FreeStorage(piece) ==
    LET c == CHOOSE i \in DOMAIN chunks : chunks[i].base = piece.base
        used == chunks[c].used \ PagesOf(piece)
    IN  /\ piece.of = "buffer"
        /\ storage' = storage \ {piece}
        /\ low_bytes' = low_bytes - piece.size
        /\ IF Large(piece.size)
           THEN reserved' = reserved \ {piece.base} /\ UNCHANGED chunks
           ELSE IF used = {} /\ c # 1
           THEN /\ chunks' = SubSeq(chunks, 1, c - 1) \o SubSeq(chunks, c + 1, Len(chunks))
                /\ reserved' = reserved \ {piece.base}
           ELSE chunks' = [chunks EXCEPT ![c].used = used] /\ UNCHANGED reserved
        /\ UNCHANGED <<strings, string_page, string_room>>

-----------------------------------------------------------------------------
\* wow64_string: the copy made before, or a new one, in what is left of the
\* page or in a new page; without room for a page the program gets no string,
\* and what was left of the old page is given up.
Copied(source, text) == \E i \in DOMAIN strings : strings[i].source = source /\ strings[i].text = text
CopyString(source, text, page, at) == strings' = Append(strings, [source |-> source, text |-> text, page |-> page, at |-> at])
CopyToPage(source, text) ==
    /\ text.length <= string_room
    /\ CopyString(source, text, string_page, string_page.size - string_room)
    /\ string_room' = string_room - text.length
    /\ UNCHANGED <<chunks, reserved, storage, low_bytes, string_page>>
CopyToNewPage(source, text) ==
    LET size == IF text.length > PageUnits THEN text.length ELSE PageUnits IN
    /\ text.length > string_room
    /\ \E piece \in Pieces("strings", size) :
          /\ LowAlloc("strings", size, piece)
          /\ CopyString(source, text, piece, 0)
          /\ string_page' = piece
          /\ string_room' = size - text.length
NoString(source, text) ==
    /\ text.length > string_room /\ FreeBases = {}
    /\ LET size == IF text.length > PageUnits THEN text.length ELSE PageUnits
       IN  Large(size) \/ Roomy(Pages(size)) = {}
    /\ string_page' = NoPage /\ string_room' = 0
    /\ UNCHANGED <<chunks, reserved, storage, low_bytes, strings>>

String(source, text) ==
    /\ ~Copied(source, text) /\ Len(strings) < MaxCopies
    /\ CopyToPage(source, text) \/ CopyToNewPage(source, text) \/ NoString(source, text)

MemoryNext ==
    \/ \E size \in Sizes : BufferStorage(size)
    \/ \E piece \in storage : FreeStorage(piece)
    \/ \E source \in StringSources, text \in Texts : String(source, text)

MemorySpec == MemoryInit /\ [][MemoryNext]_memoryVars

-----------------------------------------------------------------------------
\* No two pieces in use overlap, a piece's chunk is reserved and knows its
\* pages are used, and pages nothing uses are free again (chunk_alloc,
\* chunk_free: a chunk's bits are set and cleared by ranges of pages).
PiecesApart ==
    /\ \A p, q \in storage : p # q /\ p.base = q.base => PagesOf(p) \cap PagesOf(q) = {}
    /\ \A p \in storage : p.base \in reserved
    /\ \A i \in DOMAIN chunks :
          chunks[i].used = UNION {PagesOf(p) : p \in {q \in storage : q.base = chunks[i].base}}

\* What is reserved is in use, but for one chunk at most, and low_bytes is
\* what the pieces add up to.
OneSpare == Cardinality({b \in reserved : \A p \in storage : p.base # b}) <= 1
UnitsOf(p) == {p} \X (1 .. p.size)
Units == UNION {UnitsOf(p) : p \in storage}
NothingLeaks == OneSpare /\ low_bytes = Cardinality(Units)

\* A string the program was given stays what it was: no later copy and no
\* buffer's storage lies over it.
StringsStay ==
    \A i, j \in DOMAIN strings :
        /\ strings[i].page \in storage
        /\ strings[i].at + strings[i].text.length <= strings[i].page.size
        /\ i < j /\ strings[i].page = strings[j].page =>
              strings[i].at + strings[i].text.length <= strings[j].at

-----------------------------------------------------------------------------
MemoryAssumption ==
    /\ ChunkPages \in Nat /\ PageUnits \in Nat \ {0} /\ Room \in Nat
    /\ Sizes \subseteq Nat \ {0}
    /\ \A text \in Texts : text.length \in Nat \ {0}

Piece == [of : {"buffer", "strings"}, base : 1..Room, first : Nat, size : Nat \ {0}]
Chunk == [base : 1..Room, used : SUBSET Nat]
MemoryTypeOK ==
    /\ storage \subseteq Piece /\ reserved \subseteq 1..Room
    /\ chunks \in Seq(Chunk) /\ low_bytes \in Int
    /\ strings \in Seq([source : StringSources, text : Texts, page : Piece, at : Nat])
    /\ string_room \in Nat /\ string_page \in Piece \cup {NoPage}

\* A reservation is one chunk or one large piece, and the newest chunk alone
\* may be empty.
IsChunk(b) == \E i \in DOMAIN chunks : chunks[i].base = b
ReservedRight ==
    /\ \A i, j \in DOMAIN chunks : chunks[i].base = chunks[j].base => i = j
    /\ \A i \in DOMAIN chunks : chunks[i].base \in reserved /\ (i # 1 => chunks[i].used # {})
    /\ \A p \in storage : IsChunk(p.base) <=> ~Large(p.size)
    /\ \A p, q \in storage : Large(p.size) /\ p.base = q.base => p = q
    /\ \A b \in reserved : IsChunk(b) \/ \E p \in storage : p.base = b

\* The copies on the current page end where its free room begins.
PageRight ==
    /\ \A i \in DOMAIN strings : strings[i].page.of = "strings"
    /\ string_page = NoPage => string_room = 0
    /\ string_page # NoPage =>
          /\ string_page \in storage /\ string_page.of = "strings" /\ string_room <= string_page.size
          /\ \A i \in DOMAIN strings : strings[i].page = string_page =>
                strings[i].at + strings[i].text.length + string_room <= string_page.size

Counted == IsFiniteSet(Units) /\ low_bytes = Cardinality(Units)
MemoryIInv == MemoryTypeOK /\ PiecesApart /\ ReservedRight /\ StringsStay /\ PageRight
=============================================================================

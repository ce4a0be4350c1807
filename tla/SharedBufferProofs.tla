-------------------------- MODULE SharedBufferProofs --------------------------
(***************************************************************************)
(* Proofs about SharedBuffer, for any contexts, storages, parts and bounds.*)
(* First what holds whatever the contexts do; then, where contexts take    *)
(* turns, that every copy of the contents is current and every command of  *)
(* the GPU reads what it was meant to, but for what a call of the code is  *)
(* known to leave stale (spoiled).                                         *)
(* Last, what the settings application keeps on disk: the settings file,   *)
(* the application itself and the games it fixes.                          *)
(***************************************************************************)
EXTENDS SharedBuffer, SettingsFile, AppUpdate, GameFixes, TLAPS

-----------------------------------------------------------------------------
(***************************************************************************)
(* What the functions of contents, pools and the buffer return.            *)
(***************************************************************************)

LEMMA MarkTyped ==
  ASSUME NEW a \in Contents, NEW ps, NEW n \in Calls \cup {Unknown}
  PROVE  Mark(a, ps, n) \in Contents
BY DEF Mark, Contents

LEMMA MergeTyped ==
  ASSUME NEW a \in Contents, NEW ps, NEW b \in Contents
  PROVE  Merge(a, ps, b) \in Contents
BY DEF Merge, Contents

LEMMA UndefinedTyped == Undefined \in Contents
BY DEF Undefined, Contents

(* A pool a buffer may have. *)
Pool == {pool \in Seq(Retired) : Len(pool) <= MaxRetired}

LEMMA Joined ==
  ASSUME NEW S, NEW a \in Seq(S), NEW b \in Seq(S)
  PROVE  a \o b \in Seq(S) /\ Len(a \o b) = Len(a) + Len(b)
OBVIOUS

LEMMA WithoutFits ==
  ASSUME BufferAssumption, NEW pool \in Pool, NEW s
  PROVE  Without(pool, s) \in Pool
<1>1. pool \in Seq(Retired) /\ Len(pool) \in Nat /\ Len(pool) <= MaxRetired
  BY DEF Pool
<1>2. CASE \A i \in DOMAIN pool : pool[i].mtl # s
  BY <1>2 DEF Without
<1>3. CASE ~\A i \in DOMAIN pool : pool[i].mtl # s
  <2> DEFINE i == CHOOSE i \in DOMAIN pool : pool[i].mtl = s
             a == SubSeq(pool, 1, i - 1)
             b == SubSeq(pool, i + 1, Len(pool))
  <2>1. i \in DOMAIN pool
    BY <1>3
  <2> HIDE DEF i
  <2>2. i \in 1 .. Len(pool)
    BY <1>1, <2>1
  <2>3. a \in Seq(Retired) /\ Len(a) = i - 1
    BY <1>1, <2>2
  <2>4. b \in Seq(Retired) /\ Len(b) = Len(pool) - i
    BY <1>1, <2>2
  <2> HIDE DEF a, b
  <2>5. a \o b \in Seq(Retired) /\ Len(a \o b) = Len(pool) - 1
    <3>1. a \o b \in Seq(Retired) /\ Len(a \o b) = Len(a) + Len(b)
      BY <2>3, <2>4, Joined
    <3> QED BY <1>1, <2>2, <2>3, <2>4, <3>1
  <2>6. Without(pool, s) = a \o b
    BY <1>3 DEF Without, a, b, i
  <2>7. Len(a \o b) <= MaxRetired
    BY <1>1, <2>5 DEF BufferAssumption
  <2> QED BY <2>5, <2>6, <2>7 DEF Pool
<1> QED BY <1>2, <1>3

LEMMA RetireFits ==
  ASSUME BufferAssumption, NEW pool \in Pool, NEW s \in Storages, NEW serial \in Nat
  PROVE  Retire(pool, s, serial) \in Pool
<1> DEFINE r == [mtl |-> s, serial |-> serial]
           rest == IF Len(pool) >= MaxRetired THEN Tail(pool) ELSE pool
<1>1. r \in Retired /\ MaxRetired \in Nat \ {0}
  BY DEF Retired, BufferAssumption
<1>2. pool \in Seq(Retired) /\ Len(pool) \in Nat /\ Len(pool) <= MaxRetired
  BY DEF Pool
<1>3. rest \in Seq(Retired) /\ Len(rest) < MaxRetired
  <2>1. CASE Len(pool) >= MaxRetired
    <3>1. pool # <<>>
      BY <1>1, <1>2, <2>1
    <3>2. Tail(pool) \in Seq(Retired) /\ Len(Tail(pool)) = Len(pool) - 1
      BY <1>2, <3>1
    <3> QED BY <1>1, <1>2, <2>1, <3>2
  <2>2. CASE ~(Len(pool) >= MaxRetired)
    BY <1>1, <1>2, <2>2
  <2> QED BY <2>1, <2>2
<1> HIDE DEF rest, r
<1>4. Append(rest, r) \in Seq(Retired) /\ Len(Append(rest, r)) <= MaxRetired
  BY <1>1, <1>3
<1>5. Retire(pool, s, serial) = Append(rest, r)
  BY DEF Retire, rest, r
<1> QED BY <1>4, <1>5 DEF Pool

LEMMA FreshTyped ==
  ASSUME NEW pool \in Pool, NEW s \in Fresh(pool)
  PROVE  s \in Storages \cup {None}
<1>1. \A i \in DOMAIN pool : pool[i].mtl \in Storages
  <2>1. pool \in Seq(Retired)
    BY DEF Pool
  <2>2. \A i \in DOMAIN pool : pool[i] \in Retired
    BY <2>1
  <2> QED BY <2>2 DEF Retired
<1> DEFINE first == {i \in DOMAIN pool : /\ Reusable(pool, i)
                                       /\ \A j \in DOMAIN pool : j < i => ~Reusable(pool, j)}
           new   == Storages \ Kept
<1>2. first \subseteq DOMAIN pool /\ new \subseteq Storages
  OBVIOUS
<1>3. s \in IF first # {} THEN {pool[i].mtl : i \in first} ELSE IF new # {} THEN new ELSE {None}
  BY DEF Fresh
<1> HIDE DEF first, new
<1> QED BY <1>1, <1>2, <1>3

(* A buffer there may be. *)
Fits(b) == b \in Buffers /\ b.retired \in Pool /\ b.retiredStaging \in Pool

LEMMA RenamedFits ==
  ASSUME BufferAssumption, NEW b, Fits(b), NEW fresh \in Storages \cup {None}, NEW keep \in BOOLEAN
  PROVE  LET r == Renamed(b, fresh, keep) IN
         /\ Fits(r) /\ r.map = b.map
         /\ r.mtl = IF fresh = None THEN b.mtl ELSE fresh
<1>1. CASE fresh = None
  <2> DEFINE r == [b EXCEPT !.version = @ + 1]
  <2>1. r \in Buffers
    <3>1. b \in Buffers /\ b.version + 1 \in Nat
      BY DEF Fits, Buffers
    <3> QED BY <3>1 DEF Buffers
  <2>2. r.map = b.map /\ r.mtl = b.mtl /\ r.retired = b.retired /\ r.retiredStaging = b.retiredStaging
    BY DEF Fits, Buffers
  <2>3. Renamed(b, fresh, keep) = r
    BY <1>1 DEF Renamed
  <2> HIDE DEF r
  <2> QED BY <1>1, <2>1, <2>2, <2>3 DEF Fits
<1>2. CASE fresh # None
  <2> DEFINE pool == IF b.lastUse = 0 THEN Without(b.retired, fresh)
                     ELSE Retire(Without(b.retired, fresh), b.mtl, b.lastUse)
             r == [b EXCEPT !.mtl = fresh, !.lastUse = 0, !.lastWrite = 0, !.version = @ + 1,
                            !.retired = pool, !.shadowValid = @ /\ keep]
  <2>1. b.mtl \in Storages /\ b.lastUse \in Nat /\ b.shadowValid \in BOOLEAN /\ b.version \in Nat
    BY DEF Fits, Buffers
  <2>2. pool \in Pool
    BY <2>1, WithoutFits, RetireFits DEF Fits
  <2> HIDE DEF pool
  <2>3. pool \in Seq(Retired)
    BY <2>2 DEF Pool
  <2>4. b \in Buffers
    BY DEF Fits
  <2>5. r.retired = pool /\ r.retiredStaging = b.retiredStaging /\ r.map = b.map /\ r.mtl = fresh
    BY <2>4 DEF Buffers
  <2>6. (b.shadowValid /\ keep) \in BOOLEAN /\ fresh \in Storages /\ b.version + 1 \in Nat
    BY <1>2, <2>1
  <2>7. r \in Buffers
    BY <2>3, <2>4, <2>6 DEF Buffers
  <2>8. Renamed(b, fresh, keep) = r
    BY <1>2 DEF Renamed, pool
  <2> QED BY <1>2, <2>2, <2>5, <2>7, <2>8 DEF Fits
<1> QED BY <1>1, <1>2

LEMMA RenamedContentTyped ==
  ASSUME TypeOK, NEW fresh \in Storages \cup {None}, NEW keep \in BOOLEAN, NEW skip
  PROVE  RenamedContent(fresh, keep, skip) \in [Storages -> Contents]
BY MergeTyped DEF TypeOK, Buffers, RenamedContent

LEMMA ShadowWrittenFits ==
  ASSUME NEW b, Fits(b), NEW ps, NEW from \in Contents
  PROVE  LET r == ShadowWritten(b, ps, from) IN
         Fits(r) /\ r.map = b.map /\ r.mtl = b.mtl
<1>1. (IF b.shadowValid THEN Merge(b.shadow, ps, from) ELSE b.shadow) \in Contents
  BY MergeTyped DEF Fits, Buffers
<1> QED BY <1>1 DEF ShadowWritten, Fits, Buffers

(* The contents changed. *)
LEMMA VersionFits ==
  ASSUME NEW b, Fits(b), NEW r, r = [b EXCEPT !.version = @ + 1]
  PROVE  Fits(r) /\ r.map = b.map /\ r.mtl = b.mtl
<1>1. b \in Buffers /\ b.version + 1 \in Nat
  BY DEF Fits, Buffers
<1>2. r \in Buffers
  BY <1>1 DEF Buffers
<1>3. /\ r.map = b.map /\ r.mtl = b.mtl /\ r.retired = b.retired
      /\ r.retiredStaging = b.retiredStaging
  BY <1>1 DEF Buffers
<1> QED BY <1>2, <1>3 DEF Fits

LEMMA GpuWrittenFits ==
  ASSUME NEW b, Fits(b), NEW s \in Nat
  PROVE  LET r == GpuWritten(b, s) IN
         Fits(r) /\ r.map = b.map /\ r.mtl = b.mtl /\ r.retiredStaging = b.retiredStaging
<1>1. b \in Buffers /\ b.version + 1 \in Nat
  BY DEF Fits, Buffers
<1> DEFINE r == [b EXCEPT !.lastUse = s, !.lastWrite = s, !.version = @ + 1]
<1>2. r \in Buffers
  BY <1>1 DEF Buffers
<1>3. /\ r.map = b.map /\ r.mtl = b.mtl /\ r.retired = b.retired
      /\ r.retiredStaging = b.retiredStaging
  BY <1>1 DEF Buffers
<1> QED BY <1>2, <1>3 DEF GpuWritten, Fits

LEMMA CopyShadowFits ==
  ASSUME NEW b, Fits(b), NEW ps, NEW known \in BOOLEAN, NEW n \in Calls
  PROVE  LET r == CopyShadow(b, ps, known, n) IN
         Fits(r) /\ r.map = b.map /\ r.mtl = b.mtl
<1>1. CASE known
  BY <1>1, ShadowWrittenFits, UndefinedTyped, MarkTyped DEF CopyShadow
<1>2. CASE ~known
  BY <1>2 DEF CopyShadow, Fits, Buffers
<1> QED BY <1>1, <1>2

-----------------------------------------------------------------------------
(***************************************************************************)
(* What the functions of the command stream return.                        *)
(***************************************************************************)
StreamTyped ==
  stream \in [Contexts -> Recorded] /\ queue \in Seq(Recorded) /\ next \in Nat

LEMMA OpenedTyped ==
  ASSUME StreamTyped, NEW c \in Contexts
  PROVE  /\ Opened(c) \in Recorded /\ NextSerial(c) \in Nat
         /\ Opened(c).serial \in Nat /\ Opened(c).commands \in Seq(Command)
<1>1. stream[c] \in Recorded /\ next \in Nat
  BY DEF StreamTyped
<1>2. Opened(c) \in Recorded
  BY <1>1 DEF Opened, Recorded
<1>3. NextSerial(c) \in Nat
  BY <1>1 DEF NextSerial
<1> QED BY <1>2, <1>3 DEF Recorded

LEMMA RecordTyped ==
  ASSUME StreamTyped, NEW c \in Contexts, NEW k \in Command, Record(c, k)
  PROVE  StreamTyped' /\ stream'[c].serial \in Nat
<1> DEFINE r == [Opened(c) EXCEPT !.commands = Append(@, k)]
<1>1. Opened(c) \in Recorded /\ NextSerial(c) \in Nat /\ Opened(c).commands \in Seq(Command)
  BY OpenedTyped
<1>2. Append(Opened(c).commands, k) \in Seq(Command)
  BY <1>1
<1>3. r \in Recorded
  BY <1>1, <1>2 DEF Recorded
<1>4. stream' = [stream EXCEPT ![c] = r]
  BY DEF Record
<1> HIDE DEF r
<1>5. stream' \in [Contexts -> Recorded] /\ stream'[c] = r
  BY <1>3, <1>4 DEF StreamTyped
<1> QED BY <1>1, <1>3, <1>5 DEF StreamTyped, Record, Recorded

LEMMA BlitTyped ==
  ASSUME StreamTyped, NEW c \in Contexts, NEW k \in Command, Blit(c, k)
  PROVE  StreamTyped' /\ stream'[c].serial \in Nat
<1>1. CASE Record(c, k)
  BY <1>1, RecordTyped
<1>2. CASE /\ queue' = Append(queue, Opened(c))
           /\ stream' = [stream EXCEPT ![c] = [serial |-> NextSerial(c), commands |-> <<k>>]]
           /\ next' = NextSerial(c) + 1
  <2> DEFINE r == [serial |-> NextSerial(c), commands |-> <<k>>]
  <2>1. Opened(c) \in Recorded /\ NextSerial(c) \in Nat
    BY OpenedTyped
  <2>2. r \in Recorded /\ r.serial \in Nat
    BY <2>1 DEF Recorded
  <2> HIDE DEF r
  <2>3. stream' \in [Contexts -> Recorded] /\ stream'[c] = r
    BY <1>2, <2>2 DEF StreamTyped, r
  <2>4. queue' \in Seq(Recorded)
    BY <1>2, <2>1 DEF StreamTyped
  <2> QED BY <1>2, <2>1, <2>2, <2>3, <2>4 DEF StreamTyped
<1> QED BY <1>1, <1>2 DEF Blit

LEMMA NoBufferTyped == NoBuffer \in Recorded
BY DEF NoBuffer, Recorded

LEMMA FlushTyped ==
  ASSUME StreamTyped, NEW c \in Contexts, Flush(c), next' = next
  PROVE  StreamTyped'
BY NoBufferTyped DEF StreamTyped, Flush

LEMMA GpuWriteTyped ==
  ASSUME TypeOK, NEW ps \in SUBSET Parts, NEW values \in Contents
  PROVE  GpuWriteOf(ps, values) \in Command
BY DEF TypeOK, Buffers, GpuWriteOf, Command

-----------------------------------------------------------------------------
(***************************************************************************)
(* What the calls do: types are kept, the pointer the application has is   *)
(* into the buffer, and a mapping goes or stays.                           *)
(***************************************************************************)
MemoryTyped == Fits(buffer) /\ content \in [Storages -> Contents] /\ value \in Contents

CoreTyped == MemoryTyped /\ StreamTyped
               /\ waiting \in [Contexts -> Wait \cup {None}] /\ now \in Calls

LEMMA TypeOKIs ==
  TypeOK <=> CoreTyped /\ spoiled \subseteq Spoilable
<1>1. ASSUME NEW pool \in Seq(Retired)
      PROVE  pool \in Pool <=> Len(pool) <= MaxRetired
  BY DEF Pool
<1>2. ASSUME buffer \in Buffers
      PROVE  buffer.retired \in Seq(Retired) /\ buffer.retiredStaging \in Seq(Retired)
  BY <1>2 DEF Buffers
<1> QED BY <1>1, <1>2 DEF TypeOK, CoreTyped, MemoryTyped, StreamTyped, Fits

(* What a step does to a mapping. *)
MapLasts == Mapped => buffer'.map \in {buffer.map, Unmapped}

Kind(b, r) == r.map = b.map /\ r.mtl = b.mtl

LEMMA KindLasts ==
  ASSUME MapPointsAtBuffer, Kind(buffer, buffer')
  PROVE  MapPointsAtBuffer' /\ MapLasts
BY DEF MapPointsAtBuffer, MapLasts, Mapped, Kind

LEMMA UnmappedLasts ==
  ASSUME ~Mapped, buffer'.map = buffer.map
  PROVE  MapPointsAtBuffer' /\ MapLasts
BY DEF MapPointsAtBuffer, MapLasts, Mapped

LEMMA DrawRestKeeps ==
  ASSUME BufferAssumption, TypeOK, MapPointsAtBuffer, NEW c \in Contexts, NEW waited \in BOOLEAN,
         DrawRest(c, waited)
  PROVE  MemoryTyped' /\ StreamTyped' /\ MapPointsAtBuffer' /\ MapLasts
<1> DEFINE started == IF waited THEN [buffer EXCEPT !.shadow = content[buffer.mtl],
                                                    !.shadowValid = TRUE] ELSE buffer
           scanned == IF Scanned THEN buffer
                      ELSE [started EXCEPT !.scanVersion = buffer.version,
                              !.scan = IF started.shadowValid THEN started.shadow
                                       ELSE content[buffer.mtl]]
           k       == [use |-> "read", from |-> buffer.mtl, to |-> buffer.mtl, parts |-> Parts,
                       values |-> value]
<1>1. /\ MemoryTyped /\ StreamTyped /\ buffer \in Buffers
      /\ buffer.mtl \in Storages /\ content[buffer.mtl] \in Contents /\ buffer.version \in Nat
  BY TypeOKIs DEF CoreTyped, MemoryTyped, Fits, Buffers
<1>2. started \in Buffers /\ Kind(buffer, started) /\ started.retired = buffer.retired
      /\ started.retiredStaging = buffer.retiredStaging
  BY <1>1 DEF Buffers, Kind
<1> HIDE DEF started
<1>3. (IF started.shadowValid THEN started.shadow ELSE content[buffer.mtl]) \in Contents
  BY <1>1, <1>2 DEF Buffers
<1>4. scanned \in Buffers /\ Kind(buffer, scanned) /\ scanned.retired = buffer.retired
      /\ scanned.retiredStaging = buffer.retiredStaging
  BY <1>1, <1>2, <1>3 DEF Buffers, Kind
<1>5. k \in Command
  BY <1>1 DEF MemoryTyped, Command
<1>6. Record(c, k) /\ buffer' = [scanned EXCEPT !.lastUse = stream'[c].serial]
      /\ UNCHANGED <<content, value>>
  BY DEF DrawRest, started
<1> HIDE DEF scanned, k
<1>7. StreamTyped' /\ stream'[c].serial \in Nat
  BY <1>1, <1>5, <1>6, RecordTyped
<1>8. buffer' \in Buffers /\ Kind(buffer, buffer') /\ buffer'.retired = buffer.retired
      /\ buffer'.retiredStaging = buffer.retiredStaging
  BY <1>4, <1>6, <1>7 DEF Buffers, Kind
<1>9. MemoryTyped'
  BY <1>1, <1>6, <1>8 DEF MemoryTyped, Fits
<1> QED BY <1>7, <1>8, <1>9, KindLasts

LEMMA SubDataRestKeeps ==
  ASSUME BufferAssumption, TypeOK, MapPointsAtBuffer, NEW w \in Wait, w.renames => ~Mapped,
         SubDataRest(w)
  PROVE  MemoryTyped' /\ StreamTyped' /\ MapPointsAtBuffer' /\ MapLasts
<1> DEFINE ps    == w.call.range
           keep  == ps # Parts
           named == IF w.renames THEN Renamed(buffer, w.fresh, keep) ELSE buffer
           held  == IF w.renames THEN RenamedContent(w.fresh, keep, ps) ELSE content
           mark  == Mark(Undefined, ps, w.at)
           r     == ShadowWritten(named, ps, mark)
<1>1. /\ MemoryTyped /\ StreamTyped /\ w.fresh \in Storages \cup {None} /\ w.at \in Calls
      /\ Fits(buffer) /\ value \in Contents /\ content \in [Storages -> Contents]
  BY TypeOKIs DEF CoreTyped, MemoryTyped, Wait
<1>2. Fits(named) /\ named.map = buffer.map /\ (~w.renames => named.mtl = buffer.mtl)
  BY <1>1, RenamedFits
<1>3. held \in [Storages -> Contents]
  BY <1>1, RenamedContentTyped
<1>4. mark \in Contents
  BY <1>1, UndefinedTyped, MarkTyped
<1> HIDE DEF named, held, mark
<1>5. Fits(r) /\ r.map = named.map /\ r.mtl = named.mtl
  BY <1>2, <1>4, ShadowWrittenFits
<1>6. /\ content' = [held EXCEPT ![named.mtl] = Mark(@, ps, w.at)]
      /\ buffer' = [r EXCEPT !.version = @ + 1]
      /\ value' = Mark(value, ps, w.at) /\ UNCHANGED <<stream, queue, next>>
  BY DEF SubDataRest, NoCommands, named, held, mark
<1> HIDE DEF r
<1>7. Fits(buffer') /\ buffer'.map = r.map /\ buffer'.mtl = r.mtl
  BY <1>5, <1>6, VersionFits
<1>8. content' \in [Storages -> Contents]
  <2>1. named.mtl \in Storages
    BY <1>2 DEF Fits, Buffers
  <2>2. Mark(held[named.mtl], ps, w.at) \in Contents
    BY <1>1, <1>3, <2>1, MarkTyped
  <2> QED BY <1>3, <1>6, <2>1, <2>2
<1>9. value' \in Contents
  BY <1>1, <1>6, MarkTyped
<1>10. MapPointsAtBuffer' /\ MapLasts
  <2>1. CASE w.renames
    BY <1>2, <1>5, <1>7, <2>1, UnmappedLasts
  <2>2. CASE ~w.renames
    BY <1>2, <1>5, <1>7, <2>2, KindLasts DEF Kind
  <2> QED BY <2>1, <2>2
<1> QED BY <1>1, <1>6, <1>7, <1>8, <1>9, <1>10 DEF MemoryTyped, StreamTyped

LEMMA InvalidateRestKeeps ==
  ASSUME BufferAssumption, TypeOK, NEW w \in Wait, ~Mapped, InvalidateRest(w)
  PROVE  MemoryTyped' /\ StreamTyped' /\ MapPointsAtBuffer' /\ MapLasts
<1>1. MemoryTyped /\ StreamTyped /\ w.fresh \in Storages \cup {None} /\ Fits(buffer)
  BY TypeOKIs DEF CoreTyped, MemoryTyped, Wait
<1>2. /\ buffer' = Renamed(buffer, w.fresh, FALSE) /\ value' = Undefined
      /\ UNCHANGED <<content, stream, queue, next>>
  BY DEF InvalidateRest, NoCommands
<1>3. Fits(buffer') /\ buffer'.map = buffer.map
  BY <1>1, <1>2, RenamedFits
<1> QED BY <1>1, <1>2, <1>3, UndefinedTyped, UnmappedLasts DEF MemoryTyped, StreamTyped

LEMMA PackRestKeeps ==
  ASSUME BufferAssumption, TypeOK, MapPointsAtBuffer, NEW w \in Wait, PackRest(w)
  PROVE  MemoryTyped' /\ StreamTyped' /\ MapPointsAtBuffer' /\ MapLasts
<1>1. /\ MemoryTyped /\ StreamTyped /\ w.at \in Calls /\ buffer.mtl \in Storages
      /\ Fits(buffer) /\ value \in Contents /\ content \in [Storages -> Contents]
  BY TypeOKIs DEF CoreTyped, MemoryTyped, Wait, Fits, Buffers
<1>2. /\ content' = [content EXCEPT ![buffer.mtl] = Mark(@, w.call.range, w.at)]
      /\ buffer' = [buffer EXCEPT !.version = @ + 1]
      /\ value' = Mark(value, w.call.range, w.at) /\ UNCHANGED <<stream, queue, next>>
  BY DEF PackRest, NoCommands
<1>3. Fits(buffer') /\ Kind(buffer, buffer')
  BY <1>1, <1>2, VersionFits DEF Kind
<1>4. Mark(content[buffer.mtl], w.call.range, w.at) \in Contents /\ value' \in Contents
  BY <1>1, <1>2, MarkTyped
<1>5. content' \in [Storages -> Contents]
  BY <1>1, <1>2, <1>4
<1> QED BY <1>1, <1>2, <1>3, <1>4, <1>5, KindLasts DEF MemoryTyped, StreamTyped

LEMMA MapRestKeeps ==
  ASSUME BufferAssumption, TypeOK, MapPointsAtBuffer, NEW w \in Wait, w.renames => ~Mapped,
         w.call.name \in Maps, MapRest(w)
  PROVE  MemoryTyped' /\ StreamTyped' /\ MapPointsAtBuffer' /\ MapLasts
<1> DEFINE name    == w.call.name
           keep    == name = "invalidateRange"
           dropped == IF name = "invalidateBuffer" THEN Parts
                      ELSE IF keep THEN w.call.range ELSE {}
           named   == IF w.renames THEN Renamed(buffer, w.fresh, keep) ELSE buffer
           map     == [range |-> w.call.range, writes |-> name # "read",
                       pointer |-> named.mtl, staging |-> None]
<1>1. /\ MemoryTyped /\ StreamTyped /\ w.fresh \in Storages \cup {None}
      /\ w.call.range \in SUBSET Parts
      /\ Fits(buffer) /\ value \in Contents /\ content \in [Storages -> Contents]
  BY TypeOKIs DEF CoreTyped, MemoryTyped, Wait, Call
<1>2. UNCHANGED <<stream, queue, next>>
  BY DEF MapRest, NoCommands
<1>3. CASE Mapped
  <2>1. UNCHANGED <<buffer, content, value>>
    BY <1>3 DEF MapRest, MappedMeanwhile
  <2> QED BY <1>1, <1>2, <2>1, KindLasts DEF Kind, MemoryTyped, StreamTyped
<1>4. CASE ~Mapped
  <2>1. Fits(named)
    BY <1>1, RenamedFits
  <2>2. named.mtl \in Storages
    BY <2>1 DEF Fits, Buffers
  <2>3. map \in Mapping
    BY <1>1, <2>2 DEF Mapping
  <2>4. /\ content' = IF w.renames THEN RenamedContent(w.fresh, keep, w.call.range) ELSE content
        /\ buffer' = [named EXCEPT !.map = map, !.shadowValid = @ /\ name = "read"]
        /\ value' = Mark(value, dropped, Unknown)
    BY <1>4 DEF MapRest, MappedMeanwhile
  <2> HIDE DEF named
  <2>5. content' \in [Storages -> Contents]
    BY <1>1, <2>4, RenamedContentTyped
  <2>6. value' \in Contents
    BY <1>1, <2>4, MarkTyped
  <2> HIDE DEF map
  <2>7. Fits(buffer') /\ buffer'.map = map /\ buffer'.mtl = named.mtl
    BY <2>1, <2>3, <2>4 DEF Fits, Buffers
  <2>8. map.pointer = named.mtl
    BY DEF map
  <2>9. MapPointsAtBuffer' /\ MapLasts
    BY <1>4, <2>7, <2>8 DEF MapPointsAtBuffer, MapLasts, Mapped
  <2> QED BY <1>1, <1>2, <2>5, <2>6, <2>7, <2>9 DEF MemoryTyped, StreamTyped
<1> QED BY <1>3, <1>4

LEMMA RestKeeps ==
  ASSUME BufferAssumption, TypeOK, MapPointsAtBuffer, NEW c \in Contexts, NEW w \in Wait,
         NEW waited \in BOOLEAN, Renames(w) => ~Mapped, Rest(c, w, waited)
  PROVE  MemoryTyped' /\ StreamTyped' /\ MapPointsAtBuffer' /\ MapLasts
<1>1. w.call.name \in {"draw", "subData", "invalidate", "pack"} \cup Maps
  BY DEF Wait, Call
<1>2. CASE w.call.name = "draw"
  BY <1>2, DrawRestKeeps DEF Rest
<1>3. CASE w.call.name = "subData"
  BY <1>3, SubDataRestKeeps DEF Rest, Renames
<1>4. CASE w.call.name = "invalidate"
  BY <1>4, InvalidateRestKeeps DEF Rest, Renames
<1>5. CASE w.call.name = "pack"
  BY <1>5, PackRestKeeps DEF Rest
<1>6. CASE w.call.name \in Maps
  <2>1. w.call.name \notin {"draw", "subData", "invalidate", "pack"}
    BY <1>6 DEF Maps
  <2>2. MapRest(w)
    BY <2>1 DEF Rest
  <2> QED BY <1>6, <2>2, MapRestKeeps DEF Renames
<1> QED BY <1>1, <1>2, <1>3, <1>4, <1>5, <1>6

-----------------------------------------------------------------------------
(***************************************************************************)
(* The steps. What a call that waits without the lock waits for renames    *)
(* nothing; while another one waits no call begins or goes on.             *)
(***************************************************************************)
Goal == CoreTyped' /\ MapPointsAtBuffer' /\ RenamesUnmapped' /\ MapLasts

LEMMA UnlockedRenamesNone ==
  ASSUME NEW w, WaitsUnlocked(w)
  PROVE  ~Renames(w)
BY DEF WaitsUnlocked, Renames, Maps

(* A step of c that leaves who waits alone, or changes what c waits for.   *)
LEMMA StepOf ==
  ASSUME IInv, NEW c \in Contexts, MemoryTyped', StreamTyped', MapPointsAtBuffer', MapLasts,
         now' \in Calls, waiting' \in [Contexts -> Wait \cup {None}],
         \A d \in Contexts \ {c} : waiting'[d] = waiting[d],
         \A d \in Contexts \ {c} : waiting[d] # None => WaitsUnlocked(waiting[d]),
         waiting'[c] # None /\ Renames(waiting'[c]) => ~Mapped'
  PROVE  Goal
<1>1. RenamesUnmapped'
  BY UnlockedRenamesNone DEF IInv, RenamesUnmapped
<1> QED BY <1>1 DEF Goal, CoreTyped

(* A call that is one step. *)
LEMMA CallOf ==
  ASSUME IInv, NEW c \in Contexts, CanCall(c), now' = now + 1, waiting' = waiting,
         MemoryTyped', StreamTyped', MapPointsAtBuffer', MapLasts
  PROVE  Goal
<1>1. /\ now' \in Calls /\ waiting' \in [Contexts -> Wait \cup {None}] /\ waiting'[c] = None
      /\ \A d \in Contexts \ {c} : waiting[d] # None => WaitsUnlocked(waiting[d])
  BY BufferAssumption DEF IInv, TypeOK, CanCall, LockFree, Calls, BufferAssumption
<1> QED BY <1>1, StepOf

LEMMA SerialTyped ==
  ASSUME TypeOK, NEW call, NEW fresh
  PROVE  RenameWaits(call, fresh) \in Nat /\ StorageWaits(call) \in Nat
<1>1. buffer.lastUse \in Nat /\ buffer.lastWrite \in Nat
  BY DEF TypeOK, Buffers
<1>2. RenameWaits(call, fresh) \in Nat
  BY <1>1 DEF RenameWaits
<1>3. StorageWaits(call) \in Nat
  BY <1>1 DEF StorageWaits
<1> QED BY <1>2, <1>3

LEMMA SuspendKeeps ==
  ASSUME IInv, NEW c \in Contexts, CanCall(c), now' = now + 1, NEW w \in Wait,
         Renames(w) => ~Mapped, Suspend(c, w)
  PROVE  Goal
<1>1. MemoryTyped /\ StreamTyped /\ MapPointsAtBuffer
  BY TypeOKIs DEF CoreTyped, IInv
<1>2. UNCHANGED <<buffer, content, value, next>> /\ waiting' = [waiting EXCEPT ![c] = w]
  BY DEF Suspend
<1>3. StreamTyped'
  BY <1>1, <1>2, FlushTyped DEF Suspend, StreamTyped
<1>4. MemoryTyped' /\ MapPointsAtBuffer' /\ MapLasts
  BY <1>1, <1>2 DEF MemoryTyped, Fits, MapPointsAtBuffer, MapLasts, Mapped
<1>5. /\ now' \in Calls /\ waiting' \in [Contexts -> Wait \cup {None}] /\ waiting'[c] = w
      /\ \A d \in Contexts \ {c} : waiting'[d] = waiting[d]
      /\ \A d \in Contexts \ {c} : waiting[d] # None => WaitsUnlocked(waiting[d])
  BY <1>2, BufferAssumption DEF IInv, TypeOK, CanCall, LockFree, Calls, BufferAssumption
<1>6. Mapped' <=> Mapped
  BY <1>2 DEF Mapped
<1> QED BY <1>3, <1>4, <1>5, <1>6, StepOf

LEMMA BeginKeeps ==
  ASSUME BufferAssumption, IInv, NEW c \in Contexts, CanCall(c), NEW call \in Call,
         NEW renames \in BOOLEAN, renames \/ call.name = "invalidate" => ~Mapped,
         Begin(c, call, renames)
  PROVE  Goal
<1>1. PICK fresh \in IF renames THEN Fresh(buffer.retired) ELSE {None} :
        LET serial == IF renames THEN RenameWaits(call, fresh) ELSE StorageWaits(call)
            w      == [call |-> call, at |-> now + 1, fresh |-> fresh, renames |-> renames,
                       serial |-> serial] IN
        /\ now' = now + 1
        /\ IF Complete(serial) THEN Rest(c, w, FALSE) /\ UNCHANGED waiting ELSE Suspend(c, w)
  BY DEF Begin
<1> DEFINE serial == IF renames THEN RenameWaits(call, fresh) ELSE StorageWaits(call)
           w      == [call |-> call, at |-> now + 1, fresh |-> fresh, renames |-> renames,
                      serial |-> serial]
<1>2. TypeOK /\ MapPointsAtBuffer /\ buffer.retired \in Pool
  BY TypeOKIs DEF CoreTyped, IInv, MemoryTyped, Fits
<1>3. fresh \in Storages \cup {None}
  BY <1>1, <1>2, FreshTyped
<1>4. serial \in Nat
  BY <1>2, SerialTyped
<1>5. now + 1 \in Calls
  BY <1>2 DEF TypeOK, CanCall, Calls
<1> HIDE DEF serial
<1>6. w \in Wait /\ w.renames = renames /\ w.call = call
  BY <1>3, <1>4, <1>5 DEF Wait
<1>7. now' = now + 1 /\ ((Rest(c, w, FALSE) /\ waiting' = waiting) \/ Suspend(c, w))
  BY <1>1 DEF serial
<1> HIDE DEF w
<1>8. Renames(w) => ~Mapped
  BY <1>6 DEF Renames
<1>9. CASE Rest(c, w, FALSE) /\ waiting' = waiting
  <2>1. MemoryTyped' /\ StreamTyped' /\ MapPointsAtBuffer' /\ MapLasts
    BY <1>2, <1>6, <1>8, <1>9, RestKeeps
  <2> QED BY <1>7, <1>9, <2>1, CallOf
<1>10. CASE Suspend(c, w)
  BY <1>6, <1>7, <1>8, <1>10, SuspendKeeps
<1> QED BY <1>7, <1>9, <1>10

LEMMA StepResume ==
  ASSUME BufferAssumption, IInv, NEW c \in Contexts, Resume(c)
  PROVE  Goal
<1>1. TypeOK /\ MapPointsAtBuffer /\ waiting \in [Contexts -> Wait \cup {None}]
  BY DEF IInv, TypeOK
<1>2. waiting[c] \in Wait /\ (Renames(waiting[c]) => ~Mapped)
  BY <1>1 DEF Resume, IInv, RenamesUnmapped
<1>3. MemoryTyped' /\ StreamTyped' /\ MapPointsAtBuffer' /\ MapLasts
  BY <1>1, <1>2, RestKeeps DEF Resume
<1>4. /\ now' \in Calls /\ waiting' \in [Contexts -> Wait \cup {None}] /\ waiting'[c] = None
      /\ \A d \in Contexts \ {c} : waiting'[d] = waiting[d]
      /\ \A d \in Contexts \ {c} : waiting[d] # None => WaitsUnlocked(waiting[d])
  BY <1>1 DEF Resume, TypeOK
<1> QED BY <1>3, <1>4, StepOf

LEMMA StepDraw ==
  ASSUME BufferAssumption, IInv, NEW c \in Contexts, Draw(c)
  PROVE  Goal
<1>1. [name |-> "draw", range |-> Parts] \in Call
  BY DEF Call
<1> QED BY <1>1, BeginKeeps DEF Draw

LEMMA StepSubData ==
  ASSUME BufferAssumption, IInv, NEW c \in Contexts, NEW ps \in Ranges, SubData(c, ps)
  PROVE  Goal
<1>1. [name |-> "subData", range |-> ps] \in Call
  BY DEF Call, BufferAssumption
<1>2. SubDataRenames(ps) \in BOOLEAN /\ (SubDataRenames(ps) => ~Mapped)
  BY DEF SubDataRenames
<1> QED BY <1>1, <1>2, BeginKeeps DEF SubData

LEMMA StepInvalidate ==
  ASSUME BufferAssumption, IInv, NEW c \in Contexts, Invalidate(c)
  PROVE  Goal
<1>1. [name |-> "invalidate", range |-> Parts] \in Call
  BY DEF Call
<1> QED BY <1>1, BeginKeeps DEF Invalidate

LEMMA StepPack ==
  ASSUME BufferAssumption, IInv, NEW c \in Contexts, NEW ps \in Ranges, Pack(c, ps)
  PROVE  Goal
<1>1. [name |-> "pack", range |-> ps] \in Call
  BY DEF Call, BufferAssumption
<1> QED BY <1>1, BeginKeeps DEF Pack

LEMMA StepMap ==
  ASSUME BufferAssumption, IInv, NEW c \in Contexts, NEW ps \in Ranges, NEW name \in Maps,
         Map(c, ps, name)
  PROVE  Goal
<1>1. [name |-> name, range |-> ps] \in Call
  BY DEF Call, BufferAssumption
<1>2. MapRenames(name) \in BOOLEAN
  BY DEF MapRenames
<1> QED BY <1>1, <1>2, BeginKeeps DEF Map

LEMMA StepSubDataCopied ==
  ASSUME BufferAssumption, IInv, NEW c \in Contexts, NEW ps \in Ranges, SubDataCopied(c, ps)
  PROVE  Goal
<1> DEFINE mark == Mark(Undefined, ps, now + 1)
           b    == ShadowWritten(buffer, ps, mark)
           k    == GpuWriteOf(ps, mark)
<1>1. /\ MemoryTyped /\ StreamTyped /\ TypeOK /\ MapPointsAtBuffer /\ Fits(buffer)
      /\ ps \in SUBSET Parts /\ now + 1 \in Calls /\ value \in Contents
  BY TypeOKIs DEF CoreTyped, IInv, MemoryTyped, BufferAssumption, SubDataCopied, CanCall, Calls
<1>2. mark \in Contents
  BY <1>1, UndefinedTyped, MarkTyped
<1> HIDE DEF mark
<1>3. Fits(b) /\ Kind(buffer, b)
  BY <1>1, <1>2, ShadowWrittenFits DEF Kind
<1>4. k \in Command
  BY <1>1, <1>2, GpuWriteTyped
<1>5. /\ CanCall(c) /\ Blit(c, k) /\ buffer' = GpuWritten(b, stream'[c].serial)
      /\ value' = Mark(value, ps, now + 1) /\ now' = now + 1 /\ UNCHANGED <<content, waiting>>
  BY DEF SubDataCopied, mark
<1> HIDE DEF b, k
<1>6. StreamTyped' /\ stream'[c].serial \in Nat
  BY <1>1, <1>4, <1>5, BlitTyped
<1>7. Fits(buffer') /\ Kind(buffer, buffer')
  BY <1>3, <1>5, <1>6, GpuWrittenFits DEF Kind
<1>8. MemoryTyped'
  BY <1>1, <1>5, <1>7, MarkTyped DEF MemoryTyped
<1> QED BY <1>1, <1>5, <1>6, <1>7, <1>8, KindLasts, CallOf

LEMMA StepGpuWrite ==
  ASSUME BufferAssumption, IInv, NEW c \in Contexts, NEW ps \in Ranges, NEW known \in BOOLEAN,
         GpuWrite(c, ps, known)
  PROVE  Goal
<1> DEFINE mark    == Mark(Undefined, ps, now + 1)
           starts  == known /\ ~buffer.shadowValid /\ buffer.lastUse = 0 /\ ~buffer.large
           started == IF starts THEN [buffer EXCEPT !.shadow = content[buffer.mtl],
                                                    !.shadowValid = TRUE] ELSE buffer
           b       == CopyShadow(started, ps, known, now + 1)
           k       == GpuWriteOf(ps, mark)
<1>1. /\ MemoryTyped /\ StreamTyped /\ TypeOK /\ MapPointsAtBuffer /\ Fits(buffer)
      /\ ps \in SUBSET Parts /\ now + 1 \in Calls /\ value \in Contents
  BY TypeOKIs DEF CoreTyped, IInv, MemoryTyped, BufferAssumption, GpuWrite, CanCall, Calls
<1>2. mark \in Contents /\ content[buffer.mtl] \in Contents
  BY <1>1, UndefinedTyped, MarkTyped DEF MemoryTyped, Fits, Buffers
<1>3. Fits(started) /\ Kind(buffer, started)
  BY <1>1, <1>2 DEF Fits, Buffers, Kind
<1> HIDE DEF mark, started
<1>4. Fits(b) /\ Kind(buffer, b)
  BY <1>1, <1>3, CopyShadowFits DEF Kind
<1>5. k \in Command
  BY <1>1, <1>2, GpuWriteTyped
<1>6. /\ CanCall(c) /\ Blit(c, k) /\ buffer' = GpuWritten(b, stream'[c].serial)
      /\ value' = Mark(value, ps, now + 1) /\ now' = now + 1 /\ UNCHANGED <<content, waiting>>
  BY DEF GpuWrite, mark, started
<1> HIDE DEF b, k
<1>7. StreamTyped' /\ stream'[c].serial \in Nat
  BY <1>1, <1>5, <1>6, BlitTyped
<1>8. Fits(buffer') /\ Kind(buffer, buffer')
  BY <1>4, <1>6, <1>7, GpuWrittenFits DEF Kind
<1>9. MemoryTyped'
  BY <1>1, <1>6, <1>8, MarkTyped DEF MemoryTyped
<1> QED BY <1>1, <1>6, <1>7, <1>8, <1>9, KindLasts, CallOf

(* BufferData and UnmapBuffer end the mapping. *)
LEMMA EndsMapping ==
  ASSUME buffer'.map = Unmapped
  PROVE  MapPointsAtBuffer' /\ MapLasts
BY DEF MapPointsAtBuffer, MapLasts, Mapped

LEMMA UnmappedTyped == Unmapped \in Mapping
BY DEF Unmapped, Mapping

LEMMA StepData ==
  ASSUME BufferAssumption, IInv, NEW c \in Contexts, Data(c)
  PROVE  Goal
<1> DEFINE unmapped == [buffer EXCEPT !.map = Unmapped, !.shadowValid = FALSE, !.version = @ + 1]
<1>1. /\ MemoryTyped /\ StreamTyped /\ Fits(buffer) /\ now + 1 \in Calls /\ value \in Contents
      /\ content \in [Storages -> Contents]
  BY TypeOKIs DEF CoreTyped, IInv, TypeOK, MemoryTyped, Data, CanCall, Calls
<1>2. PICK mtl \in IF Busy THEN Fresh(buffer.retired) \ {None} ELSE {buffer.mtl} :
        /\ content' = [content EXCEPT ![mtl] = Mark(@, Parts, now + 1)]
        /\ buffer' =
             IF ~Busy THEN unmapped
             ELSE [unmapped EXCEPT !.mtl = mtl, !.lastUse = 0, !.lastWrite = 0,
                     !.retired = Retire(Without(@, mtl), buffer.mtl, buffer.lastUse)]
  BY DEF Data
<1>3. /\ CanCall(c) /\ value' = Mark(value, Parts, now + 1) /\ now' = now + 1
      /\ UNCHANGED <<stream, queue, next, waiting>>
  BY DEF Data, NoCommands
<1>4. buffer.mtl \in Storages /\ buffer.lastUse \in Nat /\ buffer.retired \in Pool
  BY <1>1 DEF Fits, Buffers
<1>5. mtl \in Storages
  BY <1>4, FreshTyped
<1>6. Fits(unmapped) /\ unmapped.map = Unmapped /\ unmapped.retired = buffer.retired
  <2>1. buffer \in Buffers /\ buffer.version + 1 \in Nat
    BY <1>1 DEF Fits, Buffers
  <2>2. unmapped \in Buffers
    BY <2>1, UnmappedTyped DEF Buffers
  <2>3. /\ unmapped.map = Unmapped /\ unmapped.retired = buffer.retired
        /\ unmapped.retiredStaging = buffer.retiredStaging
    BY <2>1 DEF Buffers
  <2> QED BY <1>1, <2>2, <2>3 DEF Fits
<1> HIDE DEF unmapped
<1>7. Fits(buffer') /\ buffer'.map = Unmapped
  <2>1. CASE ~Busy
    BY <1>2, <1>6, <2>1
  <2>2. CASE Busy
    <3> DEFINE pool == Retire(Without(buffer.retired, mtl), buffer.mtl, buffer.lastUse)
    <3>1. pool \in Pool
      BY <1>4, WithoutFits, RetireFits
    <3>2. buffer' = [unmapped EXCEPT !.mtl = mtl, !.lastUse = 0, !.lastWrite = 0, !.retired = pool]
      BY <1>2, <1>6, <2>2
    <3> HIDE DEF pool
    <3>3. pool \in Seq(Retired) /\ unmapped \in Buffers
      BY <1>6, <3>1 DEF Pool, Fits
    <3>4. buffer' \in Buffers
      BY <1>5, <3>2, <3>3 DEF Buffers
    <3>5. /\ buffer'.map = unmapped.map /\ buffer'.retired = pool
          /\ buffer'.retiredStaging = unmapped.retiredStaging
      BY <3>2, <3>3 DEF Buffers
    <3> QED BY <1>6, <3>1, <3>4, <3>5 DEF Fits
  <2> QED BY <2>1, <2>2
<1>8. content' \in [Storages -> Contents]
  <2>1. Mark(content[mtl], Parts, now + 1) \in Contents
    BY <1>1, <1>5, MarkTyped
  <2> QED BY <1>1, <1>2, <1>5, <2>1
<1>9. MemoryTyped' /\ StreamTyped'
  BY <1>1, <1>3, <1>7, <1>8, MarkTyped DEF MemoryTyped, StreamTyped
<1> QED BY <1>3, <1>7, <1>9, EndsMapping, CallOf

LEMMA StepUnmap ==
  ASSUME BufferAssumption, IInv, NEW c \in Contexts, Unmap(c)
  PROVE  Goal
<1>1. MemoryTyped /\ StreamTyped /\ Fits(buffer)
  BY TypeOKIs DEF CoreTyped, IInv, MemoryTyped
<1>2. /\ CanCall(c) /\ buffer' = [buffer EXCEPT !.map = Unmapped, !.version = @ + 1]
      /\ now' = now + 1 /\ UNCHANGED <<stream, queue, next, content, value, waiting>>
  BY DEF Unmap, NoCommands
<1>3. Fits(buffer') /\ buffer'.map = Unmapped
  <2>1. buffer \in Buffers /\ buffer.version + 1 \in Nat
    BY <1>1 DEF Fits, Buffers
  <2>2. buffer' \in Buffers
    BY <1>2, <2>1, UnmappedTyped DEF Buffers
  <2>3. /\ buffer'.map = Unmapped /\ buffer'.retired = buffer.retired
        /\ buffer'.retiredStaging = buffer.retiredStaging
    BY <1>2, <2>1 DEF Buffers
  <2> QED BY <1>1, <2>2, <2>3 DEF Fits
<1>4. MemoryTyped' /\ StreamTyped'
  BY <1>1, <1>2, <1>3 DEF MemoryTyped, StreamTyped
<1> QED BY <1>2, <1>3, <1>4, EndsMapping, CallOf

LEMMA StepDelete ==
  ASSUME BufferAssumption, IInv, NEW c \in Contexts, Delete(c)
  PROVE  Goal
<1>1. MemoryTyped /\ StreamTyped /\ Fits(buffer) /\ value \in Contents
  BY TypeOKIs DEF CoreTyped, IInv, MemoryTyped
<1>2. /\ CanCall(c) /\ buffer' = [buffer EXCEPT !.map = Unmapped]
      /\ now' = now + 1 /\ UNCHANGED <<stream, queue, next, content, waiting>>
      /\ value' \in {value, Mark(value, buffer.map.range, Unknown)}
  BY DEF Delete, NoCommands
<1>3. Fits(buffer') /\ buffer'.map = Unmapped
  BY <1>1, <1>2, UnmappedTyped DEF Fits, Buffers
<1>4. value' \in Contents
  BY <1>1, <1>2, MarkTyped
<1>5. MemoryTyped' /\ StreamTyped'
  BY <1>1, <1>2, <1>3, <1>4 DEF MemoryTyped, StreamTyped
<1> QED BY <1>2, <1>3, <1>5, EndsMapping, CallOf

LEMMA StepMapStaged ==
  ASSUME BufferAssumption, IInv, NEW c \in Contexts, NEW ps \in Ranges, MapStaged(c, ps)
  PROVE  Goal
<1>1. MemoryTyped /\ StreamTyped /\ Fits(buffer) /\ value \in Contents /\ ps \in SUBSET Parts
  BY TypeOKIs DEF CoreTyped, IInv, MemoryTyped, BufferAssumption
<1>2. PICK staging \in Fresh(buffer.retiredStaging) \ {None} :
        buffer' = [buffer EXCEPT
          !.map = [range |-> ps, writes |-> TRUE, pointer |-> staging, staging |-> staging],
          !.retiredStaging = Without(@, staging)]
  BY DEF MapStaged
<1>3. /\ CanCall(c) /\ ~Mapped /\ now' = now + 1
      /\ UNCHANGED <<stream, queue, next, content, waiting>>
      /\ value' = Mark(value, ps, Unknown)
  BY DEF MapStaged, NoCommands
<1> DEFINE map  == [range |-> ps, writes |-> TRUE, pointer |-> staging, staging |-> staging]
           pool == Without(buffer.retiredStaging, staging)
<1>4. staging \in Storages
  BY <1>1, <1>2, FreshTyped DEF Fits
<1>5. map \in Mapping /\ map.pointer = map.staging
  BY <1>1, <1>4 DEF Mapping
<1>6. pool \in Pool /\ pool \in Seq(Retired)
  BY <1>1, WithoutFits DEF Fits, Pool
<1>7. buffer' = [buffer EXCEPT !.map = map, !.retiredStaging = pool]
  BY <1>2
<1> HIDE DEF map, pool
<1>8. Fits(buffer') /\ buffer'.map = map
  BY <1>1, <1>5, <1>6, <1>7 DEF Fits, Buffers
<1>9. MapPointsAtBuffer' /\ MapLasts
  BY <1>3, <1>5, <1>8 DEF MapPointsAtBuffer, MapLasts, Mapped
<1>10. MemoryTyped' /\ StreamTyped'
  BY <1>1, <1>3, <1>8, MarkTyped DEF MemoryTyped, StreamTyped
<1> QED BY <1>3, <1>9, <1>10, CallOf

LEMMA StepUnmapStaged ==
  ASSUME BufferAssumption, IInv, NEW c \in Contexts, UnmapStaged(c)
  PROVE  Goal
<1> DEFINE map    == buffer.map
           serial == Opened(c).serial
           b      == ShadowWritten(buffer, map.range, content[map.staging])
           copied == GpuWritten(b, serial)
           pool   == Retire(copied.retiredStaging, map.staging, serial)
           k      == [use |-> "copy", from |-> map.staging, to |-> buffer.mtl,
                      parts |-> map.range, values |-> value]
<1>1. /\ MemoryTyped /\ StreamTyped /\ Fits(buffer) /\ value \in Contents
      /\ content \in [Storages -> Contents]
  BY TypeOKIs DEF CoreTyped, IInv, MemoryTyped
<1>2. map.staging \in Storages /\ map.range \in SUBSET Parts /\ buffer.mtl \in Storages
  BY <1>1 DEF UnmapStaged, Fits, Buffers, Mapping
<1>3. serial \in Nat
  BY <1>1, OpenedTyped
<1>4. Fits(b)
  BY <1>1, <1>2, ShadowWrittenFits
<1> HIDE DEF b, serial
<1>5. Fits(copied)
  BY <1>3, <1>4, GpuWrittenFits
<1>6. k \in Command
  BY <1>1, <1>2 DEF Command
<1> HIDE DEF copied
<1>7. pool \in Pool /\ pool \in Seq(Retired)
  BY <1>2, <1>3, <1>5, RetireFits DEF Fits, Pool
<1>8. /\ CanCall(c) /\ Blit(c, k) /\ now' = now + 1
      /\ buffer' = [copied EXCEPT !.map = Unmapped, !.retiredStaging = pool]
      /\ UNCHANGED <<content, value, waiting>>
  <2>1. copied \in Buffers
    BY <1>5 DEF Fits
  <2> QED BY <2>1 DEF UnmapStaged, copied, b, serial
<1> HIDE DEF k, pool
<1>9. StreamTyped'
  BY <1>1, <1>6, <1>8, BlitTyped DEF BufferAssumption
<1>10. Fits(buffer') /\ buffer'.map = Unmapped
  BY <1>5, <1>7, <1>8, UnmappedTyped DEF Fits, Buffers
<1>11. MemoryTyped'
  BY <1>1, <1>8, <1>10 DEF MemoryTyped
<1> QED BY <1>8, <1>9, <1>10, <1>11, EndsMapping, CallOf

(* Steps that change neither the buffer nor who waits. *)
LEMMA QuietStep ==
  ASSUME IInv, MemoryTyped', StreamTyped', UNCHANGED <<buffer, waiting>>, now' \in Calls
  PROVE  Goal
<1>1. RenamesUnmapped' /\ MapPointsAtBuffer' /\ MapLasts
  BY DEF IInv, RenamesUnmapped, MapPointsAtBuffer, MapLasts, Mapped
<1> QED BY <1>1 DEF Goal, CoreTyped, IInv, TypeOK

LEMMA StepWriteMapped ==
  ASSUME BufferAssumption, IInv, NEW p \in Parts, WriteMapped(p)
  PROVE  Goal
<1>1. /\ MemoryTyped /\ StreamTyped /\ now + 1 \in Calls /\ value \in Contents
      /\ content \in [Storages -> Contents] /\ Fits(buffer)
  BY TypeOKIs DEF CoreTyped, IInv, TypeOK, MemoryTyped, WriteMapped, Calls
<1>2. /\ content' = [content EXCEPT ![buffer.map.pointer] = Mark(@, {p}, now + 1)]
      /\ value' = Mark(value, {p}, now + 1) /\ now' = now + 1
      /\ UNCHANGED <<stream, queue, next, buffer, waiting>>
  BY DEF WriteMapped, NoCommands
<1>3. content' \in [Storages -> Contents]
  <2>1. \A s \in Storages : Mark(content[s], {p}, now + 1) \in Contents
    BY <1>1, MarkTyped
  <2> QED BY <1>1, <1>2, <2>1
<1>4. MemoryTyped' /\ StreamTyped'
  BY <1>1, <1>2, <1>3, MarkTyped DEF MemoryTyped, StreamTyped, Fits
<1> QED BY <1>1, <1>2, <1>4, QuietStep

LEMMA StepCommit ==
  ASSUME IInv, NEW c \in Contexts, Commit(c)
  PROVE  Goal
<1>1. MemoryTyped /\ StreamTyped /\ now \in Calls
  BY TypeOKIs DEF CoreTyped, IInv, TypeOK
<1>2. Flush(c) /\ UNCHANGED <<buffer, content, value, next, waiting, now>>
  BY DEF Commit
<1> QED BY <1>1, <1>2, FlushTyped, QuietStep DEF MemoryTyped, Fits

LEMMA StepRunCommand ==
  ASSUME IInv, RunCommand
  PROVE  Goal
<1> DEFINE k == Head(Oldest)
<1>1. /\ MemoryTyped /\ StreamTyped /\ now \in Calls /\ content \in [Storages -> Contents]
      /\ queue \in Seq(Recorded) /\ queue # <<>>
  BY TypeOKIs DEF CoreTyped, IInv, TypeOK, MemoryTyped, RunCommand
<1>2. Head(queue) \in Recorded /\ 1 \in DOMAIN queue /\ Head(queue) = queue[1]
  BY <1>1
<1>3. Oldest \in Seq(Command) /\ Oldest # <<>> /\ Oldest = queue[1].commands
  BY <1>2 DEF Recorded, Oldest, RunCommand
<1>4. k \in Command /\ Tail(Oldest) \in Seq(Command)
  BY <1>3
<1>5. /\ content' = CASE k.use = "write" -> [content EXCEPT ![k.to] = Merge(@, k.parts, k.values)]
                       [] k.use = "copy"  -> [content EXCEPT ![k.to] = Merge(@, k.parts, content[k.from])]
                       [] OTHER           -> content
      /\ queue' = [queue EXCEPT ![1].commands = Tail(@)]
      /\ UNCHANGED <<buffer, value, stream, next, waiting, now>>
  BY DEF RunCommand
<1> HIDE DEF k
<1>6. k.to \in Storages /\ k.from \in Storages /\ k.values \in Contents
  BY <1>4 DEF Command
<1>7. /\ Merge(content[k.to], k.parts, k.values) \in Contents
      /\ Merge(content[k.to], k.parts, content[k.from]) \in Contents
  BY <1>1, <1>6, MergeTyped
<1>8. content' \in [Storages -> Contents]
  BY <1>1, <1>5, <1>7
<1>9. queue' \in Seq(Recorded)
  <2> DEFINE r == [queue[1] EXCEPT !.commands = Tail(@)]
  <2>1. r \in Recorded
    BY <1>2, <1>3, <1>4 DEF Recorded
  <2>2. queue' = [queue EXCEPT ![1] = r]
    BY <1>5
  <2> HIDE DEF r
  <2> QED BY <1>1, <1>2, <2>1, <2>2
<1>10. MemoryTyped' /\ StreamTyped'
  BY <1>1, <1>5, <1>8, <1>9 DEF MemoryTyped, StreamTyped, Fits
<1> QED BY <1>1, <1>5, <1>10, QuietStep

LEMMA StepCompleteOldest ==
  ASSUME IInv, CompleteOldest
  PROVE  Goal
<1>1. MemoryTyped /\ StreamTyped /\ now \in Calls
  BY TypeOKIs DEF CoreTyped, IInv, TypeOK
<1>2. queue' = Tail(queue) /\ queue # <<>> /\ UNCHANGED <<buffer, content, value, stream, next, waiting, now>>
  BY DEF CompleteOldest
<1>3. StreamTyped'
  BY <1>1, <1>2 DEF StreamTyped
<1> QED BY <1>1, <1>2, <1>3, QuietStep DEF MemoryTyped, Fits

LEMMA StepStutter ==
  ASSUME IInv, UNCHANGED vars
  PROVE  Goal
<1>1. MemoryTyped /\ StreamTyped /\ now \in Calls
  BY TypeOKIs DEF CoreTyped, IInv, TypeOK
<1> QED BY <1>1, QuietStep DEF vars, MemoryTyped, StreamTyped, Fits

-----------------------------------------------------------------------------
LEMMA Begins ==
  ASSUME BufferAssumption, Init
  PROVE  IInv
<1>1. PICK s \in Storages, large \in BOOLEAN, immutable \in BOOLEAN :
       buffer = [large |-> large, immutable |-> immutable, mtl |-> s, lastUse |-> 0,
                 lastWrite |-> 0, version |-> 1,
                 retired |-> <<>>, retiredStaging |-> <<>>, map |-> Unmapped,
                 shadowValid |-> FALSE, shadow |-> Undefined,
                 scanVersion |-> 0, scan |-> Undefined]
  BY DEF Init
<1>2. <<>> \in Seq(Retired) /\ Len(<<>>) = 0 /\ MaxRetired \in Nat
  BY DEF BufferAssumption
<1>3. buffer \in Buffers
  BY <1>1, <1>2, UndefinedTyped, UnmappedTyped DEF Buffers
<1>4. [p \in Parts |-> 0] \in Contents /\ 0 \in Calls
  BY DEF Contents, Calls, BufferAssumption
<1>5. TypeOK
  BY <1>1, <1>2, <1>3, <1>4, NoBufferTyped DEF Init, TypeOK
<1>6. MapPointsAtBuffer /\ RenamesUnmapped
  BY <1>1 DEF Init, MapPointsAtBuffer, RenamesUnmapped, Mapped
<1> QED BY <1>5, <1>6 DEF IInv

(* What a call leaves stale is one of the three things it may; contents    *)
(* that are behind stay so.                                                *)
SpoilsOnly == spoiled' \subseteq Spoilable /\ ("contents" \in spoiled => "contents" \in spoiled')

LEMMA Spoils ==
  ASSUME TypeOK, [Next]_vars
  PROVE  SpoilsOnly
<1>1. spoiled \subseteq Spoilable
  BY DEF TypeOK
<1>2. ASSUME NEW c \in Contexts, NEW w, NEW waited, Rest(c, w, waited)
      PROVE  SpoilsOnly
  <2>1. CASE w.call.name = "draw"
    BY <1>1, <1>2, <2>1 DEF SpoilsOnly, Rest, DrawRest, Spoilable
  <2>2. CASE w.call.name = "pack"
    BY <1>1, <1>2, <2>2 DEF SpoilsOnly, Rest, PackRest, Spoilable
  <2>3. CASE w.call.name \notin {"draw", "pack"}
    BY <1>1, <1>2, <2>3 DEF SpoilsOnly, Rest, SubDataRest, InvalidateRest, MapRest
  <2> QED BY <2>1, <2>2, <2>3
<1>3. ASSUME NEW c \in Contexts, NEW call, NEW renames, Begin(c, call, renames)
      PROVE  SpoilsOnly
  BY <1>1, <1>2, <1>3 DEF SpoilsOnly, Begin, Suspend
<1>4. ASSUME NEW c \in Contexts,
             Draw(c) \/ Data(c) \/ Invalidate(c) \/ Unmap(c) \/ UnmapStaged(c) \/ Delete(c)
      PROVE  SpoilsOnly
  BY <1>1, <1>3, <1>4 DEF SpoilsOnly, Draw, Data, Invalidate, Unmap, UnmapStaged, Delete, Spoilable
<1>5. ASSUME NEW c \in Contexts, NEW ps \in Ranges,
             SubData(c, ps) \/ SubDataCopied(c, ps) \/ Pack(c, ps) \/ MapStaged(c, ps)
      PROVE  SpoilsOnly
  BY <1>1, <1>3, <1>5 DEF SpoilsOnly, SubData, SubDataCopied, Pack, MapStaged
<1>6. ASSUME NEW c \in Contexts, NEW ps \in Ranges, NEW known \in BOOLEAN, GpuWrite(c, ps, known)
      PROVE  SpoilsOnly
  BY <1>1, <1>6 DEF SpoilsOnly, GpuWrite
<1>7. ASSUME NEW c \in Contexts, NEW ps \in Ranges, NEW name \in Maps, Map(c, ps, name)
      PROVE  SpoilsOnly
  BY <1>3, <1>7 DEF SpoilsOnly, Map
<1>8. ASSUME NEW c \in Contexts, Resume(c) \/ Commit(c)
      PROVE  SpoilsOnly
  BY <1>1, <1>2, <1>8 DEF SpoilsOnly, Resume, Commit
<1>9. CASE (\E p \in Parts : WriteMapped(p)) \/ RunCommand \/ CompleteOldest \/ Done \/ UNCHANGED vars
  BY <1>1, <1>9 DEF SpoilsOnly, WriteMapped, RunCommand, CompleteOldest, Done, vars
<1> QED BY <1>4, <1>5, <1>6, <1>7, <1>8, <1>9 DEF Next

LEMMA NextKeeps ==
  ASSUME BufferAssumption, IInv, [Next]_vars
  PROVE  IInv' /\ MapLasts
<1> SUFFICES Goal
  BY Spoils, TypeOKIs DEF SpoilsOnly, Goal, IInv, CoreTyped, MemoryTyped, StreamTyped, TypeOK, Fits, Pool
<1>1. ASSUME NEW c \in Contexts, Draw(c) \/ Data(c) \/ Invalidate(c) \/ Unmap(c) \/ UnmapStaged(c) \/ Delete(c)
      PROVE  Goal
  BY <1>1, StepDraw, StepData, StepInvalidate, StepUnmap, StepUnmapStaged, StepDelete
<1>2. ASSUME NEW c \in Contexts, NEW ps \in Ranges,
             SubData(c, ps) \/ SubDataCopied(c, ps) \/ Pack(c, ps) \/ MapStaged(c, ps)
      PROVE  Goal
  BY <1>2, StepSubData, StepSubDataCopied, StepPack, StepMapStaged
<1>3. ASSUME NEW c \in Contexts, NEW ps \in Ranges, NEW known \in BOOLEAN, GpuWrite(c, ps, known)
      PROVE  Goal
  BY <1>3, StepGpuWrite
<1>4. ASSUME NEW c \in Contexts, NEW ps \in Ranges, NEW name \in Maps, Map(c, ps, name)
      PROVE  Goal
  BY <1>4, StepMap
<1>5. ASSUME NEW c \in Contexts, Resume(c) \/ Commit(c)
      PROVE  Goal
  BY <1>5, StepResume, StepCommit
<1>6. ASSUME NEW p \in Parts, WriteMapped(p)
      PROVE  Goal
  BY <1>6, StepWriteMapped
<1>7. CASE RunCommand \/ CompleteOldest
  BY <1>7, StepRunCommand, StepCompleteOldest
<1>8. CASE Done \/ UNCHANGED vars
  BY <1>8, StepStutter DEF Done
<1> QED BY <1>1, <1>2, <1>3, <1>4, <1>5, <1>6, <1>7, <1>8 DEF Next

(* The types, where the mapping points, and that a call that waits to      *)
(* rename the buffer found it unmapped.                                    *)
THEOREM Invariance == Spec => []IInv
<1>1. Init => IInv
  BY Begins, BufferAssumption
<1>2. IInv /\ [Next]_vars => IInv'
  BY NextKeeps, BufferAssumption
<1> QED BY <1>1, <1>2, PTL DEF Spec

(* For any contexts, storages and parts: the pointer an application maps   *)
(* stays good, and its mapping lasts until it is unmapped or the buffer is *)
(* respecified, whichever calls of other contexts wait without the lock    *)
(* meanwhile (glMapBufferRange, waitForGpuUnlocked).                       *)
THEOREM MappingsLast == Spec => MappingLasts
<1>1. IInv => MapPointsAtBuffer
  BY DEF IInv
<1>2. IInv /\ [Next]_vars => [Mapped => buffer'.map \in {buffer.map, Unmapped}]_vars
  BY NextKeeps, BufferAssumption DEF MapLasts
<1> QED BY <1>1, <1>2, Invariance, PTL DEF Spec, MappingLasts

-----------------------------------------------------------------------------
(***************************************************************************)
(* What the contents rest on, where contexts take turns.                   *)
(***************************************************************************)
(* Command buffers not complete, and each command of them not yet run.     *)
Pending == {queue[i] : i \in DOMAIN queue}
             \cup {stream[c] : c \in {d \in Contexts : stream[d].serial # 0}}

At(r, j) == [serial |-> r.serial, at |-> j, command |-> r.commands[j]]

Points == UNION {{At(r, j) : j \in DOMAIN r.commands} : r \in Pending}

Point == [serial : Nat, at : Nat, command : Command]

Before(x, y) == x.serial < y.serial \/ (x.serial = y.serial /\ x.at < y.at)

Refers(x, s)    == s \in {x.command.from, x.command.to}
Writes(x, s, p) == x.command.use # "read" /\ x.command.to = s /\ p \in x.command.parts
Needs(x, s, p)  == /\ x.command.use # "write" /\ x.command.from = s
                   /\ p \in x.command.parts /\ x.command.values[p] # Unknown

(* One context at a time records or waits; serials are handed out in turn. *)
Turn ==
  \A c, d \in Contexts :
    c # d /\ (stream[c].serial # 0 \/ waiting[c] # None)
      => stream[d].serial = 0 /\ waiting[d] = None

Recording == IF \E c \in Contexts : stream[c].serial # 0 THEN 1 ELSE 0

InOrder ==
  /\ next > 0
  /\ \A c \in Contexts : stream[c].serial \in {0, next - 1}
  /\ \A i \in DOMAIN queue :
       queue[i].serial > 0 /\ queue[i].serial = next - 1 - Recording - (Len(queue) - i)

(* No storage is in two places.                                            *)
Entries(pool)  == {pool[i] : i \in DOMAIN pool}
OfPool(pool)   == {pool[i].mtl : i \in DOMAIN pool}
Distinct(pool) == \A i, j \in DOMAIN pool : pool[i].mtl = pool[j].mtl => i = j

Apart(b) ==
  /\ Distinct(b.retired) /\ Distinct(b.retiredStaging)
  /\ OfPool(b.retired) \cap OfPool(b.retiredStaging) = {}
  /\ {b.mtl, b.map.staging} \cap (OfPool(b.retired) \cup OfPool(b.retiredStaging)) = {}
  /\ b.map.staging # b.mtl

(* The buffer's serials have been handed out.                              *)
Given(b, n) ==
  /\ b.lastWrite <= b.lastUse /\ b.lastUse < n /\ b.scanVersion <= b.version
  /\ \A e \in Entries(b.retired) \cup Entries(b.retiredStaging) : e.serial < n

(* The application writes the buffer's storage through its pointer.        *)
InPlace(b) == b.map # Unmapped /\ b.map.writes /\ b.map.staging = None

MappingRight(b) ==
  b.map # Unmapped =>
    /\ b.map.pointer = IF b.map.staging = None THEN b.mtl ELSE b.map.staging
    /\ b.map.staging # None => b.map.writes
    /\ InPlace(b) => ~b.shadowValid

(* Serials cover what the command x uses; none uses staging memory that is *)
(* mapped, nor reads or overwrites what is mapped for writing.             *)
Covers(b, x) ==
  /\ Refers(x, b.mtl) => x.serial <= b.lastUse
  /\ x.command.use # "read" /\ x.command.to = b.mtl => x.serial <= b.lastWrite
  /\ \A e \in Entries(b.retired) \cup Entries(b.retiredStaging) :
       Refers(x, e.mtl) => x.serial <= e.serial
  /\ b.map.staging # None => ~Refers(x, b.map.staging)
  /\ InPlace(b) /\ Refers(x, b.mtl) =>
       x.command.use = "write" /\ x.command.parts \cap b.map.range = {}

(* No command that is pending uses the storage s.                          *)
Free(s) == \A x \in Points : ~Refers(x, s)

WaitSerial(w) ==
  IF w.renames THEN RenameWaits(w.call, w.fresh)
  ELSE IF w.call.name \in {"draw", "read"} THEN buffer.lastWrite ELSE buffer.lastUse

TakenRight(w) ==
  w.fresh # None =>
    w.renames /\ w.fresh \notin OfPool(buffer.retiredStaging) \cup {buffer.mtl} /\ Free(w.fresh)

(* A call that waits waits for what it needs, and takes storage no command *)
(* uses.                                                                   *)
WaitRight(w) ==
  /\ ~Mapped /\ ~Reserved(w.serial) /\ w.serial = WaitSerial(w) /\ TakenRight(w)
  /\ w.call.name \in {"subData", "invalidate"} => w.renames
  /\ w.renames => w.call.name \notin {"draw", "read", "write", "pack"}

WaitsRight == \A c \in Contexts : waiting[c] # None => WaitRight(waiting[c])

(* What a command of P needs is what the last one of P before it that      *)
(* writes it wrote, or what the storage holds.                             *)
ReadsFollow(P) ==
  \A q, r \in P, s \in Storages, p \in Parts :
    Before(q, r) /\ Writes(q, s, p) /\ Needs(r, s, p) =>
      \/ q.command.values[p] = r.command.values[p]
      \/ \E m \in P : Before(q, m) /\ Before(m, r) /\ Writes(m, s, p)

ReadsFind(P, held) ==
  \A r \in P, s \in Storages, p \in Parts :
    Needs(r, s, p) =>
      \/ held[s][p] = r.command.values[p]
      \/ \E m \in P : Before(m, r) /\ Writes(m, s, p)

(* Once P has run the storage s holds the parts ps of a, where known.      *)
WillHold(P, s, held, ps, a) ==
  \A p \in ps : a[p] # Unknown =>
    /\ held[s][p] = a[p] \/ \E m \in P : Writes(m, s, p)
    /\ \A q \in P : Writes(q, s, p) =>
         q.command.values[p] = a[p] \/ \E m \in P : Before(q, m) /\ Writes(m, s, p)

(* The parts ps that are known in a are in b.                              *)
Agrees(ps, a, b) == \A p \in ps : a[p] \in {Unknown, b[p]}

Staged(b) == IF b.map.staging = None THEN {} ELSE b.map.range

(* The shadow, and what was scanned, have the contents v, but for what of  *)
(* them is stale, and what the application is writing in place.            *)
ShadowShows(b, v, stale) ==
  b.shadowValid /\ "shadow" \notin stale => Agrees(Parts \ Staged(b), v, b.shadow)

ScanShows(b, v, stale) ==
  b.scanVersion = b.version /\ ~InPlace(b) /\ "scan" \notin stale
    => Agrees(Parts \ Staged(b), v, b.scan)

(* The buffer b of the storages held, once P has run, has the contents v.  *)
Shows(P, b, held, v, stale) ==
  /\ WillHold(P, b.mtl, held, Parts \ Staged(b), v)
  /\ b.map.staging # None => Agrees(b.map.range, v, held[b.map.staging])
  /\ ShadowShows(b, v, stale) /\ ScanShows(b, v, stale)

BufferRight(P, b, n) ==
  Apart(b) /\ Given(b, n) /\ MappingRight(b) /\ \A x \in P : Covers(b, x)

-----------------------------------------------------------------------------
(***************************************************************************)
(* The command buffers, their serials and the commands pending.            *)
(***************************************************************************)
Alone(c) == \A d \in Contexts \ {c} : stream[d].serial = 0 /\ waiting[d] = None

LEMMA PointIs ==
  ASSUME NEW x
  PROVE  x \in Points <=> \E r \in Pending : \E j \in DOMAIN r.commands : x = At(r, j)
BY DEF Points

LEMMA PendingIs ==
  ASSUME NEW r
  PROVE  r \in Pending <=> \/ \E i \in DOMAIN queue : r = queue[i]
                           \/ \E c \in Contexts : stream[c].serial # 0 /\ r = stream[c]
BY DEF Pending

LEMMA PendingTyped ==
  ASSUME StreamTyped, NEW r \in Pending
  PROVE  r \in Recorded /\ r.serial \in Nat /\ r.commands \in Seq(Command)
<1>1. queue \in Seq(Recorded) /\ stream \in [Contexts -> Recorded]
  BY DEF StreamTyped
<1>2. r \in Recorded
  BY <1>1, PendingIs
<1> QED BY <1>2 DEF Recorded

LEMMA PointTyped ==
  ASSUME StreamTyped, NEW x \in Points
  PROVE  x \in Point
<1>0. PICK r \in Pending : \E j \in DOMAIN r.commands : x = At(r, j)
  BY PointIs
<1>1. PICK j \in DOMAIN r.commands : x = At(r, j)
  BY <1>0
<1>2. r.serial \in Nat /\ r.commands \in Seq(Command)
  BY PendingTyped
<1>3. j \in Nat /\ r.commands[j] \in Command
  BY <1>2
<1> QED BY <1>1, <1>2, <1>3 DEF At, Point

(* Each pending command buffer has a serial of its own, and those after it *)
(* are pending too.                                                        *)
LEMMA PendingSerials ==
  ASSUME StreamTyped, InOrder, NEW r \in Pending
  PROVE  0 < r.serial /\ r.serial < next
<1>1. next \in Nat /\ queue \in Seq(Recorded) /\ Recording \in {0, 1} /\ Len(queue) \in Nat
  BY DEF StreamTyped, Recording
<1>2. CASE \E i \in DOMAIN queue : r = queue[i]
  <2>1. PICK i \in 1 .. Len(queue) : r = queue[i]
    BY <1>1, <1>2
  <2>2. queue[i].serial > 0 /\ queue[i].serial = next - 1 - Recording - (Len(queue) - i)
    BY <1>1, <2>1 DEF InOrder
  <2> QED BY <1>1, <2>1, <2>2
<1>3. CASE \E c \in Contexts : stream[c].serial # 0 /\ r = stream[c]
  <2>1. r.serial = next - 1 /\ next - 1 # 0 /\ next > 0
    BY <1>3 DEF InOrder
  <2> QED BY <1>1, <2>1
<1> QED BY <1>2, <1>3, PendingIs

LEMMA Later ==
  ASSUME StreamTyped, InOrder, NEW r \in Pending, NEW n \in r.serial .. (next - 1)
  PROVE  Reserved(n) \/ Committed(n)
<1>1. next \in Nat /\ queue \in Seq(Recorded) /\ Recording \in {0, 1} /\ Len(queue) \in Nat
      /\ DOMAIN queue = 1 .. Len(queue)
  BY DEF StreamTyped, Recording
<1>2. r.serial \in Nat /\ 0 < r.serial
  BY PendingTyped, PendingSerials
<1>3. CASE n = next - 1 /\ Recording = 1
  BY <1>1, <1>2, <1>3 DEF Recording, Reserved, InOrder
<1>4. CASE ~(n = next - 1 /\ Recording = 1)
  <2>1. PICK i \in 1 .. Len(queue) : r = queue[i]
    <3>1. n = next - 1 => Recording = 0
      BY <1>1, <1>4
    <3>2. ASSUME NEW c \in Contexts, stream[c].serial # 0, r = stream[c]
          PROVE  FALSE
      <4>1. Recording = 1 /\ r.serial = next - 1
        BY <3>2 DEF Recording, InOrder
      <4> QED BY <1>1, <1>2, <3>1, <4>1
    <3> QED BY <1>1, <3>2, PendingIs
  <2>2. r.serial = next - 1 - Recording - (Len(queue) - i)
    BY <1>1, <2>1 DEF InOrder
  <2> DEFINE j == i + (n - r.serial)
  <2>3. j \in 1 .. Len(queue)
    BY <1>1, <1>2, <1>4, <2>2
  <2>4. queue[j].serial = next - 1 - Recording - (Len(queue) - j)
    BY <1>1, <2>3 DEF InOrder
  <2>5. queue[j].serial = n
    BY <1>1, <1>2, <2>2, <2>4
  <2> QED BY <1>1, <2>3, <2>5 DEF Committed
<1> QED BY <1>3, <1>4

(* What is complete when a serial is.                                      *)
Past(n) == \A x \in Points : n < x.serial

LEMMA CompletePast ==
  ASSUME StreamTyped, InOrder, NEW n \in Nat, n < next, Complete(n)
  PROVE  Past(n)
<1> SUFFICES ASSUME NEW x \in Points, ~(n < x.serial)
             PROVE  FALSE
  BY DEF Past
<1>1. PICK r \in Pending : x.serial = r.serial
  BY PointIs DEF At
<1>2. r.serial \in Nat /\ next \in Nat
  BY PendingTyped DEF StreamTyped
<1>3. n \in r.serial .. (next - 1)
  BY <1>1, <1>2
<1> QED BY <1>3, Later DEF Complete

(* The command k is recorded with the serial s, after those pending.       *)
Adds(k, s) ==
  \E n \in Nat : LET y == [serial |-> s, at |-> n, command |-> k] IN
    Points' = Points \cup {y} /\ \A x \in Points : Before(x, y)

LEMMA QueueBefore ==
  ASSUME StreamTyped, InOrder, NEW i \in DOMAIN queue, NEW c \in Contexts, stream[c].serial # 0
  PROVE  queue[i].serial < stream[c].serial
<1>1. next \in Nat /\ queue \in Seq(Recorded) /\ Recording = 1 /\ Len(queue) \in Nat
      /\ i \in 1 .. Len(queue)
  BY DEF StreamTyped, Recording
<1>2. stream[c].serial = next - 1 /\ queue[i].serial = next - 1 - Recording - (Len(queue) - i)
  BY DEF InOrder
<1> QED BY <1>1, <1>2

(* Where c alone records: it opens its command buffer or has one.          *)
LEMMA Opens ==
  ASSUME StreamTyped, InOrder, NEW c \in Contexts, Alone(c)
  PROVE  /\ Opened(c) \in Recorded /\ Opened(c).serial \in Nat
         /\ Opened(c).commands \in Seq(Command)
         /\ NextSerial(c) \in Nat /\ Opened(c).serial = NextSerial(c) - 1
         /\ Opened(c).serial > 0 /\ next <= NextSerial(c)
         /\ \A i \in DOMAIN queue :
              queue[i].serial = Opened(c).serial - 1 - (Len(queue) - i)
         /\ Pending = {queue[i] : i \in DOMAIN queue}
                        \cup (IF stream[c].serial # 0 THEN {stream[c]} ELSE {})
<1>1. next \in Nat /\ next > 0 /\ queue \in Seq(Recorded) /\ Len(queue) \in Nat
      /\ DOMAIN queue = 1 .. Len(queue)
  BY DEF StreamTyped, InOrder
<1>2. CASE stream[c].serial # 0
  <2>1. Recording = 1 /\ stream[c].serial = next - 1
    BY <1>2 DEF Recording, InOrder
  <2>2. Opened(c) = stream[c] /\ NextSerial(c) = next
    BY <1>2 DEF Opened, NextSerial
  <2>3. \A i \in DOMAIN queue : queue[i].serial = next - 1 - Recording - (Len(queue) - i)
    BY DEF InOrder
  <2>4. Pending = {queue[i] : i \in DOMAIN queue} \cup {stream[c]}
    BY <1>2 DEF Pending, Alone
  <2>5. \A i \in DOMAIN queue : queue[i].serial = Opened(c).serial - 1 - (Len(queue) - i)
    BY <1>1, <2>1, <2>2, <2>3
  <2> QED BY <1>1, <1>2, <2>1, <2>2, <2>4, <2>5, OpenedTyped
<1>3. CASE stream[c].serial = 0
  <2>1. Recording = 0
    BY <1>3 DEF Recording, Alone
  <2>2. Opened(c).serial = next /\ NextSerial(c) = next + 1
    BY <1>3 DEF Opened, NextSerial
  <2>3. \A i \in DOMAIN queue : queue[i].serial = next - 1 - Recording - (Len(queue) - i)
    BY DEF InOrder
  <2>4. Pending = {queue[i] : i \in DOMAIN queue}
    BY <1>3 DEF Pending, Alone
  <2>5. \A i \in DOMAIN queue : queue[i].serial = Opened(c).serial - 1 - (Len(queue) - i)
    BY <1>1, <2>1, <2>2, <2>3
  <2> QED BY <1>1, <1>3, <2>2, <2>4, <2>5, OpenedTyped
<1> QED BY <1>2, <1>3

(* In order again, with c's command buffer open.                           *)
LEMMA OrderedOpen ==
  ASSUME NEW c \in Contexts, \A d \in Contexts \ {c} : stream'[d].serial = 0,
         next' \in Nat, next' > 1, stream'[c].serial = next' - 1,
         queue' \in Seq(Recorded),
         \A i \in DOMAIN queue' :
           queue'[i].serial > 0 /\ queue'[i].serial = stream'[c].serial - 1 - (Len(queue') - i)
  PROVE  InOrder'
<1>0. next' > 0 /\ stream'[c].serial # 0
  <2>1. next' - 1 # 0 /\ next' > 0
    OBVIOUS
  <2> QED BY <2>1
<1>1. Recording' = 1
  BY <1>0 DEF Recording
<1>2. Len(queue') \in Nat /\ DOMAIN queue' = 1 .. Len(queue')
  OBVIOUS
<1>3. \A i \in DOMAIN queue' : queue'[i].serial = next' - 1 - Recording' - (Len(queue') - i)
  BY <1>1, <1>2
<1>4. next' > 0 /\ \A d \in Contexts : stream'[d].serial \in {0, next' - 1}
  BY <1>0
<1> QED BY <1>3, <1>4 DEF InOrder

LEMMA Records ==
  ASSUME StreamTyped, InOrder, NEW c \in Contexts, Alone(c), NEW k \in Command, Record(c, k)
  PROVE  /\ InOrder' /\ Adds(k, stream'[c].serial) /\ stream'[c].serial = Opened(c).serial
         /\ stream'[c].serial = next' - 1 /\ next <= next'
         /\ \A d \in Contexts \ {c} : stream'[d].serial = 0
<1> DEFINE o == Opened(c)
           r == [o EXCEPT !.commands = Append(@, k)]
           n == Len(o.commands) + 1
           y == [serial |-> o.serial, at |-> n, command |-> k]
<1>1. /\ o \in Recorded /\ o.serial \in Nat /\ o.commands \in Seq(Command)
      /\ NextSerial(c) \in Nat /\ o.serial = NextSerial(c) - 1 /\ o.serial > 0
      /\ next <= NextSerial(c)
      /\ \A i \in DOMAIN queue : queue[i].serial = o.serial - 1 - (Len(queue) - i)
      /\ Pending = {queue[i] : i \in DOMAIN queue}
                     \cup (IF stream[c].serial # 0 THEN {stream[c]} ELSE {})
  BY Opens
<1>2. stream' = [stream EXCEPT ![c] = r] /\ next' = NextSerial(c) /\ queue' = queue
  BY DEF Record
<1>3. r.serial = o.serial /\ r.commands = Append(o.commands, k)
  BY <1>1 DEF Recorded
<1>4. o = stream[c] \/ (stream[c].serial = 0 /\ o.commands = <<>>)
  BY DEF Opened
<1>5. stream \in [Contexts -> Recorded] /\ queue \in Seq(Recorded) /\ next \in Nat
  BY DEF StreamTyped
<1> HIDE DEF o, r
<1>6. stream'[c] = r /\ \A d \in Contexts \ {c} : stream'[d] = stream[d] /\ stream'[d].serial = 0
  BY <1>2, <1>5 DEF Alone
<1>7. InOrder'
  <2>1. \A i \in DOMAIN queue : queue[i].serial > 0
    BY DEF InOrder
  <2>2. next' \in Nat /\ next' > 1 /\ stream'[c].serial = next' - 1
    BY <1>1, <1>2, <1>3, <1>6
  <2>3. \A i \in DOMAIN queue' : /\ queue'[i].serial > 0
                               /\ queue'[i].serial = stream'[c].serial - 1 - (Len(queue') - i)
    BY <1>1, <1>2, <1>3, <1>6, <2>1
  <2> QED BY <1>2, <1>5, <1>6, <2>2, <2>3, OrderedOpen
<1>8. Pending' = {queue[i] : i \in DOMAIN queue} \cup {r}
  BY <1>1, <1>2, <1>3, <1>6 DEF Pending
<1>9. DOMAIN r.commands = (DOMAIN o.commands) \cup {n} /\ r.commands[n] = k
      /\ \A j \in DOMAIN o.commands : r.commands[j] = o.commands[j] /\ j < n
  BY <1>1, <1>3
<1>10. {At(r, j) : j \in DOMAIN r.commands} = {At(o, j) : j \in DOMAIN o.commands} \cup {y}
  BY <1>3, <1>9 DEF At
<1> DEFINE others == UNION {{At(q, j) : j \in DOMAIN q.commands} : q \in {queue[i] : i \in DOMAIN queue}}
<1>11. Points' = others \cup {At(r, j) : j \in DOMAIN r.commands}
  BY <1>8 DEF Points
<1>12. Points = others \cup {At(o, j) : j \in DOMAIN o.commands}
  <2>1. CASE stream[c].serial # 0
    <3>1. Pending = {queue[i] : i \in DOMAIN queue} \cup {o}
      BY <1>1, <1>4, <2>1
    <3> QED BY <3>1 DEF Points
  <2>2. CASE stream[c].serial = 0
    <3>1. Pending = {queue[i] : i \in DOMAIN queue} /\ (o = stream[c] => o.serial = 0)
      BY <1>1, <2>2
    <3>2. o.commands = <<>>
      BY <1>1, <1>4, <3>1
    <3>3. {At(o, j) : j \in DOMAIN o.commands} = {}
      BY <3>2
    <3> QED BY <3>1, <3>3 DEF Points
  <2> QED BY <2>1, <2>2
<1>13. ASSUME NEW x \in Points PROVE Before(x, y)
  <2>1. CASE x \in others
    <3>1. PICK i \in DOMAIN queue : x.serial = queue[i].serial
      BY <2>1 DEF At
    <3>2. queue[i].serial < o.serial
      BY <1>1, <1>5
    <3> QED BY <3>1, <3>2 DEF Before
  <2>2. CASE x \in {At(o, j) : j \in DOMAIN o.commands}
    BY <1>9, <2>2 DEF At, Before
  <2> QED BY <1>12, <2>1, <2>2
<1>14. Adds(k, o.serial)
  <2>1. Points' = Points \cup {y}
    BY <1>10, <1>11, <1>12
  <2>2. n \in Nat
    BY <1>1
  <2> HIDE DEF n
  <2> QED BY <1>13, <2>1, <2>2 DEF Adds
<1>15. stream'[c].serial = o.serial /\ next' = NextSerial(c)
  BY <1>2, <1>3, <1>6
<1>16. o.serial = NextSerial(c) - 1
  BY <1>1
<1> QED BY <1>1, <1>6, <1>7, <1>14, <1>15, <1>16 DEF o

LEMMA Appended ==
  ASSUME NEW S, NEW s \in Seq(S), NEW e \in S
  PROVE  /\ Append(s, e) \in Seq(S) /\ Len(Append(s, e)) = Len(s) + 1
         /\ {Append(s, e)[i] : i \in DOMAIN Append(s, e)} = {s[i] : i \in DOMAIN s} \cup {e}
         /\ \A i \in DOMAIN Append(s, e) :
              \/ i \in DOMAIN s /\ Append(s, e)[i] = s[i]
              \/ i = Len(s) + 1 /\ Append(s, e)[i] = e
<1> DEFINE t == Append(s, e)
<1>1. /\ t \in Seq(S) /\ Len(t) = Len(s) + 1 /\ Len(s) \in Nat
      /\ DOMAIN t = 1 .. (Len(s) + 1) /\ DOMAIN s = 1 .. Len(s)
  OBVIOUS
<1>2. t[Len(s) + 1] = e /\ \A i \in DOMAIN s : t[i] = s[i]
  OBVIOUS
<1> HIDE DEF t
<1>3. DOMAIN t = DOMAIN s \cup {Len(s) + 1}
  BY <1>1
<1>4. {t[i] : i \in DOMAIN t} = {s[i] : i \in DOMAIN s} \cup {e}
  BY <1>2, <1>3
<1> QED BY <1>1, <1>2, <1>3, <1>4 DEF t

LEMMA Commits ==
  ASSUME StreamTyped, InOrder, NEW c \in Contexts, Alone(c), NEW k \in Command,
         queue' = Append(queue, Opened(c)),
         stream' = [stream EXCEPT ![c] = [serial |-> NextSerial(c), commands |-> <<k>>]],
         next' = NextSerial(c) + 1
  PROVE  /\ InOrder' /\ Adds(k, stream'[c].serial) /\ stream'[c].serial = next' - 1 /\ next <= next'
         /\ \A d \in Contexts \ {c} : stream'[d].serial = 0
<1> DEFINE o == Opened(c)
           n == NextSerial(c)
           r == [serial |-> n, commands |-> <<k>>]
           y == [serial |-> n, at |-> 1, command |-> k]
<1>1. /\ o \in Recorded /\ o.serial \in Nat /\ o.commands \in Seq(Command)
      /\ n \in Nat /\ o.serial = n - 1 /\ o.serial > 0 /\ next <= n
      /\ \A i \in DOMAIN queue : queue[i].serial = o.serial - 1 - (Len(queue) - i)
      /\ Pending = {queue[i] : i \in DOMAIN queue}
                     \cup (IF stream[c].serial # 0 THEN {stream[c]} ELSE {})
  BY Opens
<1>2. stream' = [stream EXCEPT ![c] = r] /\ next' = n + 1 /\ queue' = Append(queue, o)
  OBVIOUS
<1>3. r.serial = n /\ r.commands = <<k>> /\ {At(r, j) : j \in DOMAIN r.commands} = {y}
  BY DEF At
<1>4. o = stream[c] \/ (stream[c].serial = 0 /\ o.commands = <<>>)
  BY DEF Opened
<1>5. stream \in [Contexts -> Recorded] /\ queue \in Seq(Recorded) /\ next \in Nat
      /\ Len(queue) \in Nat /\ DOMAIN queue = 1 .. Len(queue)
  BY DEF StreamTyped
<1> HIDE DEF o, r, n
<1>6. stream'[c] = r /\ \A d \in Contexts \ {c} : stream'[d] = stream[d] /\ stream'[d].serial = 0
  BY <1>2, <1>5 DEF Alone
<1>7. /\ queue' \in Seq(Recorded) /\ Len(queue') = Len(queue) + 1
      /\ {queue'[i] : i \in DOMAIN queue'} = {queue[i] : i \in DOMAIN queue} \cup {o}
      /\ \A i \in DOMAIN queue' : \/ i \in DOMAIN queue /\ queue'[i] = queue[i]
                                  \/ i = Len(queue) + 1 /\ queue'[i] = o
  <2> DEFINE t == Append(queue, o)
  <2>1. /\ t \in Seq(Recorded) /\ Len(t) = Len(queue) + 1
        /\ {t[i] : i \in DOMAIN t} = {queue[i] : i \in DOMAIN queue} \cup {o}
        /\ \A i \in DOMAIN t : \/ i \in DOMAIN queue /\ t[i] = queue[i]
                               \/ i = Len(queue) + 1 /\ t[i] = o
    BY <1>1, <1>5, Appended
  <2>2. queue' = t
    BY <1>2
  <2> HIDE DEF t
  <2> QED BY <2>1, <2>2
<1>8. InOrder'
  <2>1. next' \in Nat /\ next' > 1 /\ stream'[c].serial = next' - 1
    BY <1>1, <1>2, <1>3, <1>6
  <2>2. ASSUME NEW i \in DOMAIN queue'
        PROVE  /\ queue'[i].serial > 0
               /\ queue'[i].serial = stream'[c].serial - 1 - (Len(queue') - i)
    <3>1. CASE i \in DOMAIN queue /\ queue'[i] = queue[i]
      <4>1. queue[i].serial > 0 /\ queue[i].serial = o.serial - 1 - (Len(queue) - i)
        BY <1>1, <3>1 DEF InOrder
      <4> QED BY <1>1, <1>2, <1>3, <1>5, <1>6, <1>7, <3>1, <4>1
    <3>2. CASE i = Len(queue) + 1 /\ queue'[i] = o
      BY <1>1, <1>3, <1>5, <1>6, <1>7, <3>2
    <3> QED BY <1>7, <3>1, <3>2
  <2> QED BY <1>6, <1>7, <2>1, <2>2, OrderedOpen
<1>9. Pending' = ({queue[i] : i \in DOMAIN queue} \cup {o}) \cup {r}
  <2>1. {stream'[d] : d \in {e \in Contexts : stream'[e].serial # 0}} = {r}
    <3>1. {e \in Contexts : stream'[e].serial # 0} = {c}
      <4>1. stream'[c].serial # 0
        BY <1>1, <1>3, <1>6
      <4> QED BY <1>6, <4>1
    <3> QED BY <1>6, <3>1
  <2> QED BY <1>7, <2>1 DEF Pending
<1> DEFINE others == UNION {{At(q, j) : j \in DOMAIN q.commands} : q \in {queue[i] : i \in DOMAIN queue}}
<1>10. Points' = (others \cup {At(o, j) : j \in DOMAIN o.commands}) \cup {y}
  BY <1>3, <1>9 DEF Points
<1>11. Points = others \cup {At(o, j) : j \in DOMAIN o.commands}
  <2>1. CASE stream[c].serial # 0
    <3>1. Pending = {queue[i] : i \in DOMAIN queue} \cup {o}
      BY <1>1, <1>4, <2>1
    <3> QED BY <3>1 DEF Points
  <2>2. CASE stream[c].serial = 0
    <3>1. Pending = {queue[i] : i \in DOMAIN queue} /\ (o = stream[c] => o.serial = 0)
      BY <1>1, <2>2
    <3>2. o.commands = <<>>
      BY <1>1, <1>4, <3>1
    <3>3. {At(o, j) : j \in DOMAIN o.commands} = {}
      BY <3>2
    <3> QED BY <3>1, <3>3 DEF Points
  <2> QED BY <2>1, <2>2
<1>12. ASSUME NEW x \in Points PROVE Before(x, y)
  <2>1. CASE x \in others
    <3>1. PICK i \in DOMAIN queue : x.serial = queue[i].serial
      BY <2>1 DEF At
    <3>2. queue[i].serial < n
      BY <1>1, <1>5
    <3> QED BY <3>1, <3>2 DEF Before
  <2>2. CASE x \in {At(o, j) : j \in DOMAIN o.commands}
    <3>1. x.serial = o.serial
      BY <2>2 DEF At
    <3> QED BY <1>1, <3>1 DEF Before
  <2> QED BY <1>11, <2>1, <2>2
<1>13. Adds(k, n)
  BY <1>10, <1>11, <1>12 DEF Adds
<1>14. stream'[c].serial = n /\ next' = n + 1
  BY <1>2, <1>3, <1>6
<1>15. n = (n + 1) - 1 /\ next <= n + 1
  BY <1>1, <1>5
<1> QED BY <1>6, <1>8, <1>13, <1>14, <1>15

LEMMA Blits ==
  ASSUME StreamTyped, InOrder, NEW c \in Contexts, Alone(c), NEW k \in Command,
         Blit(c, k)
  PROVE  /\ InOrder' /\ Adds(k, stream'[c].serial)
         /\ stream'[c].serial = next' - 1 /\ next <= next'
         /\ \A d \in Contexts \ {c} : stream'[d].serial = 0
<1>1. CASE Record(c, k)
  BY <1>1, Records
<1>2. CASE /\ queue' = Append(queue, Opened(c))
           /\ stream' = [stream EXCEPT ![c] = [serial |-> NextSerial(c), commands |-> <<k>>]]
           /\ next' = NextSerial(c) + 1
  BY <1>2, Commits
<1> QED BY <1>1, <1>2 DEF Blit

LEMMA Flushes ==
  ASSUME StreamTyped, InOrder, NEW c \in Contexts, Alone(c), Flush(c), next' = next
  PROVE  /\ InOrder' /\ Points' = Points
         /\ \A d \in Contexts : stream'[d].serial = 0 \/ stream'[d] = stream[d]
         /\ stream[c].serial # 0 => \A d \in Contexts : stream'[d].serial = 0
<1>1. /\ queue \in Seq(Recorded) /\ Len(queue) \in Nat /\ DOMAIN queue = 1 .. Len(queue)
      /\ stream \in [Contexts -> Recorded] /\ next \in Nat
  BY DEF StreamTyped
<1>2. CASE stream[c].serial = 0
  <2>1. stream' = stream /\ queue' = queue
    BY <1>2 DEF Flush
  <2> QED BY <1>2, <2>1 DEF InOrder, Recording, Points, Pending
<1>3. CASE stream[c].serial # 0
  <2> DEFINE o == stream[c]
  <2>1. queue' = Append(queue, o) /\ stream' = [stream EXCEPT ![c] = NoBuffer]
    BY <1>3 DEF Flush
  <2>2. \A d \in Contexts : stream'[d].serial = 0
    BY <1>1, <2>1 DEF Alone, NoBuffer
  <2>3. o \in Recorded /\ o.serial = next - 1 /\ Recording = 1 /\ o.serial > 0
    <3>1. o \in Recorded /\ o.serial = next - 1 /\ Recording = 1 /\ o.serial # 0
      BY <1>1, <1>3 DEF InOrder, Recording
    <3> QED BY <1>1, <3>1 DEF InOrder
  <2> HIDE DEF o
  <2>4. /\ queue' \in Seq(Recorded) /\ Len(queue') = Len(queue) + 1
        /\ {queue'[i] : i \in DOMAIN queue'} = {queue[i] : i \in DOMAIN queue} \cup {o}
        /\ \A i \in DOMAIN queue' : \/ i \in DOMAIN queue /\ queue'[i] = queue[i]
                                    \/ i = Len(queue) + 1 /\ queue'[i] = o
    <3> DEFINE t == Append(queue, o)
    <3>1. /\ t \in Seq(Recorded) /\ Len(t) = Len(queue) + 1
          /\ {t[i] : i \in DOMAIN t} = {queue[i] : i \in DOMAIN queue} \cup {o}
          /\ \A i \in DOMAIN t : \/ i \in DOMAIN queue /\ t[i] = queue[i]
                                 \/ i = Len(queue) + 1 /\ t[i] = o
      BY <1>1, <2>3, Appended
    <3>2. queue' = t
      BY <2>1
    <3> HIDE DEF t
    <3> QED BY <3>1, <3>2
  <2>5. Recording' = 0
    BY <2>2 DEF Recording
  <2>6. InOrder'
    <3>1. ASSUME NEW i \in DOMAIN queue'
          PROVE  /\ queue'[i].serial > 0
                 /\ queue'[i].serial = next' - 1 - Recording' - (Len(queue') - i)
      <4>1. CASE i \in DOMAIN queue /\ queue'[i] = queue[i]
        <5>1. queue[i].serial > 0 /\ queue[i].serial = next - 1 - Recording - (Len(queue) - i)
          BY <4>1 DEF InOrder
        <5> QED BY <1>1, <2>3, <2>4, <2>5, <4>1, <5>1
      <4>2. CASE i = Len(queue) + 1 /\ queue'[i] = o
        BY <1>1, <2>3, <2>4, <2>5, <4>2
      <4> QED BY <2>4, <4>1, <4>2
    <3> QED BY <2>2, <3>1 DEF InOrder
  <2>7. Pending' = Pending
    <3>1. {stream[d] : d \in {e \in Contexts : stream[e].serial # 0}} = {o}
      <4>1. {e \in Contexts : stream[e].serial # 0} = {c}
        BY <1>3 DEF Alone
      <4> QED BY <4>1 DEF o
    <3>2. {stream'[d] : d \in {e \in Contexts : stream'[e].serial # 0}} = {}
      BY <2>2
    <3> QED BY <2>4, <3>1, <3>2 DEF Pending
  <2> QED BY <2>2, <2>6, <2>7 DEF Points
<1> QED BY <1>2, <1>3

(* The command h has run: f takes each of the others to what it is now.    *)
Runs(h, f) ==
  /\ h \in Points /\ f \in [Points \ {h} -> Points']
  /\ \A z \in Points' : \E x \in Points \ {h} : z = f[x]
  /\ \A x \in Points \ {h} : /\ f[x].command = x.command /\ f[x].serial = x.serial
                             /\ Before(h, x)
  /\ \A x, y \in Points \ {h} : Before(f[x], f[y]) <=> Before(x, y)

LEMMA Tailed ==
  ASSUME NEW S, NEW s \in Seq(S), s # <<>>
  PROVE  /\ Tail(s) \in Seq(S) /\ Len(Tail(s)) = Len(s) - 1
         /\ DOMAIN s = 1 .. Len(s) /\ DOMAIN Tail(s) = 1 .. (Len(s) - 1)
         /\ Len(s) \in Nat /\ Len(s) > 0 /\ Head(s) = s[1] /\ Head(s) \in S
         /\ \A j \in DOMAIN Tail(s) : Tail(s)[j] = s[j + 1]
OBVIOUS

(* A record of the queue is before the others of it, and those being       *)
(* recorded.                                                               *)
LEMMA HeadFirst ==
  ASSUME StreamTyped, InOrder, queue # <<>>, NEW r \in Pending
  PROVE  /\ 1 \in DOMAIN queue /\ queue[1] \in Pending
         /\ r = queue[1] \/ queue[1].serial < r.serial
<1>1. /\ queue \in Seq(Recorded) /\ Len(queue) \in Nat /\ DOMAIN queue = 1 .. Len(queue)
      /\ next \in Nat /\ Len(queue) > 0 /\ Recording \in {0, 1}
  BY DEF StreamTyped, Recording
<1>2. 1 \in DOMAIN queue /\ queue[1] \in Pending
  BY <1>1, PendingIs
<1>3. ASSUME NEW i \in DOMAIN queue, r = queue[i]
      PROVE  r = queue[1] \/ queue[1].serial < r.serial
  <2>1. /\ queue[i].serial = next - 1 - Recording - (Len(queue) - i)
        /\ queue[1].serial = next - 1 - Recording - (Len(queue) - 1)
    BY <1>2 DEF InOrder
  <2>2. CASE i = 1
    BY <1>3, <2>2
  <2>3. CASE i # 1
    BY <1>1, <1>3, <2>1, <2>3
  <2> QED BY <2>2, <2>3
<1>4. ASSUME NEW c \in Contexts, stream[c].serial # 0, r = stream[c]
      PROVE  queue[1].serial < r.serial
  BY <1>2, <1>4, QueueBefore
<1> QED BY <1>2, <1>3, <1>4, PendingIs

LEMMA Replaced ==
  ASSUME NEW S, NEW s \in Seq(S), NEW i \in DOMAIN s, NEW e \in S
  PROVE  LET t == [s EXCEPT ![i] = e] IN
         /\ t \in Seq(S) /\ Len(t) = Len(s) /\ DOMAIN t = DOMAIN s
         /\ t[i] = e /\ \A j \in DOMAIN s : j # i => t[j] = s[j]
OBVIOUS

LEMMA RunsOldest ==
  ASSUME StreamTyped, InOrder, RunCommand
  PROVE  /\ InOrder'
         /\ \E h, f : h.command = Head(Oldest) /\ Runs(h, f)
<1> DEFINE r == queue[1]
           q == [r EXCEPT !.commands = Tail(@)]
           h == At(r, 1)
           g(x) == [serial |-> x.serial, at |-> x.at - 1, command |-> x.command]
           f == [x \in Points \ {h} |-> IF x.serial = h.serial THEN g(x) ELSE x]
<1>1. /\ queue \in Seq(Recorded) /\ Len(queue) \in Nat /\ DOMAIN queue = 1 .. Len(queue)
      /\ queue # <<>> /\ Len(queue) > 0 /\ 1 \in DOMAIN queue /\ Head(queue) = r
      /\ UNCHANGED <<stream, next, waiting>> /\ queue' = [queue EXCEPT ![1].commands = Tail(@)]
  BY DEF StreamTyped, RunCommand
<1>2. r \in Recorded /\ r.commands \in Seq(Command) /\ r.commands # <<>> /\ r.serial \in Nat
      /\ Oldest = r.commands /\ r \in Pending
  <2>1. r \in Recorded
    BY <1>1
  <2>2. Oldest = r.commands /\ r.commands # <<>>
    BY <1>1 DEF RunCommand, Oldest
  <2>3. r \in Pending
    BY <1>1, PendingIs
  <2> HIDE DEF r
  <2> QED BY <2>1, <2>2, <2>3 DEF Recorded
<1>3. /\ Tail(r.commands) \in Seq(Command)
      /\ DOMAIN r.commands = 1 .. Len(r.commands)
      /\ DOMAIN Tail(r.commands) = 1 .. (Len(r.commands) - 1)
      /\ Len(r.commands) \in Nat /\ Len(r.commands) > 0
      /\ Head(r.commands) = r.commands[1]
      /\ \A j \in DOMAIN Tail(r.commands) : Tail(r.commands)[j] = r.commands[j + 1]
  BY <1>2, Tailed
<1>4. /\ q \in Recorded /\ q.serial = r.serial /\ q.commands = Tail(r.commands)
      /\ queue' = [queue EXCEPT ![1] = q]
  BY <1>1, <1>2, <1>3 DEF Recorded
<1> HIDE DEF r, q
<1>5. /\ queue' \in Seq(Recorded) /\ Len(queue') = Len(queue) /\ DOMAIN queue' = DOMAIN queue
      /\ queue'[1] = q /\ \A i \in DOMAIN queue : i # 1 => queue'[i] = queue[i]
  <2> DEFINE t == [queue EXCEPT ![1] = q]
  <2>1. queue \in Seq(Recorded) /\ 1 \in DOMAIN queue /\ q \in Recorded
    BY <1>1, <1>4
  <2>2. /\ t \in Seq(Recorded) /\ Len(t) = Len(queue) /\ DOMAIN t = DOMAIN queue
        /\ t[1] = q /\ \A j \in DOMAIN queue : j # 1 => t[j] = queue[j]
    BY <2>1, Replaced
  <2>3. queue' = t
    BY <1>4
  <2> HIDE DEF t
  <2> QED BY <2>2, <2>3
<1>6. InOrder'
  <2>1. Recording' = Recording
    BY <1>1 DEF Recording
  <2>2. \A i \in DOMAIN queue : queue'[i].serial = queue[i].serial
    BY <1>4, <1>5 DEF r
  <2> QED BY <1>1, <1>5, <2>1, <2>2 DEF InOrder
<1>7. \A t \in Pending : t = r \/ r.serial < t.serial
  BY <1>1, HeadFirst DEF r
<1>8. ASSUME NEW t
      PROVE  t \in Pending' <=> t = q \/ (t \in Pending /\ t # r)
  <2>1. ASSUME NEW i \in DOMAIN queue, i # 1
        PROVE  queue[i] # r
    <3>1. /\ queue[i].serial = next - 1 - Recording - (Len(queue) - i)
          /\ r.serial = next - 1 - Recording - (Len(queue) - 1)
      BY <1>1 DEF InOrder, r
    <3>2. Recording \in {0, 1} /\ next \in Nat
      BY DEF Recording, StreamTyped
    <3> QED BY <1>1, <2>1, <3>1, <3>2
  <2>2. ASSUME NEW c \in Contexts, stream[c].serial # 0
        PROVE  stream[c] # r
    <3>1. r.serial < stream[c].serial
      BY <1>1, <2>2, QueueBefore DEF r
    <3> QED BY <1>2, <3>1
  <2>3. t \in Pending' <=> \/ \E i \in DOMAIN queue : t = queue'[i]
                           \/ \E c \in Contexts : stream[c].serial # 0 /\ t = stream[c]
    BY <1>1, <1>5 DEF Pending
  <2>4. t \in Pending <=> \/ \E i \in DOMAIN queue : t = queue[i]
                          \/ \E c \in Contexts : stream[c].serial # 0 /\ t = stream[c]
    BY PendingIs
  <2>5. (\E i \in DOMAIN queue : t = queue'[i])
          <=> t = q \/ (\E i \in DOMAIN queue : i # 1 /\ t = queue[i])
    BY <1>1, <1>5
  <2>6. (\E i \in DOMAIN queue : t = queue[i])
          <=> t = r \/ (\E i \in DOMAIN queue : i # 1 /\ t = queue[i])
    BY <1>1 DEF r
  <2> QED BY <2>1, <2>2, <2>3, <2>4, <2>5, <2>6
<1>9. /\ h.serial = r.serial /\ h.at = 1 /\ h.command = Head(r.commands) /\ h \in Points
  BY <1>2, <1>3, PointIs DEF At
<1> HIDE DEF h
<1>10. ASSUME NEW x \in Points \ {h}
       PROVE  \/ \E j \in DOMAIN Tail(r.commands) :
                   x = At(r, j + 1) /\ g(x) = At(q, j) /\ x.serial = h.serial /\ f[x] = g(x)
              \/ /\ h.serial < x.serial /\ x.serial # h.serial /\ f[x] = x
                 /\ \E t \in Pending \ {r} : \E j \in DOMAIN t.commands : x = At(t, j)
  <2>1. PICK t \in Pending : \E j \in DOMAIN t.commands : x = At(t, j)
    BY PointIs
  <2>2. PICK j \in DOMAIN t.commands : x = At(t, j)
    BY <2>1
  <2>3. CASE t = r
    <3>1. j # 1
      BY <1>3, <2>2, <2>3 DEF h
    <3>2. j - 1 \in DOMAIN Tail(r.commands) /\ (j - 1) + 1 = j
      BY <1>3, <2>2, <2>3, <3>1
    <3>3. x.serial = h.serial /\ x.at = j /\ x.command = r.commands[j]
      BY <1>9, <2>2, <2>3 DEF At
    <3>4. g(x) = At(q, j - 1)
      BY <1>3, <1>4, <3>2, <3>3, <1>9 DEF At
    <3> QED BY <2>2, <2>3, <3>2, <3>3, <3>4
  <2>4. CASE t # r
    <3>1. r.serial < t.serial /\ x.serial = t.serial /\ t.serial \in Nat
      BY <1>7, <2>2, <2>4, PendingTyped DEF At
    <3> QED BY <1>2, <1>9, <2>2, <2>4, <3>1
  <2> QED BY <2>3, <2>4
<1>11. ASSUME NEW x \in Points \ {h}
       PROVE  /\ f[x] \in Points' /\ f[x].command = x.command /\ f[x].serial = x.serial
              /\ Before(h, x)
  <2>1. ASSUME NEW j \in DOMAIN Tail(r.commands), x = At(r, j + 1), g(x) = At(q, j),
               x.serial = h.serial, f[x] = g(x)
        PROVE  /\ f[x] \in Points' /\ f[x].command = x.command /\ f[x].serial = x.serial
               /\ Before(h, x)
    <3>1. q \in Pending' /\ j \in DOMAIN q.commands
      BY <1>4, <1>8
    <3>2. f[x] \in Points'
      BY <2>1, <3>1 DEF Points
    <3>3. x.at = j + 1 /\ 1 < j + 1
      BY <1>3, <2>1 DEF At
    <3> QED BY <1>9, <2>1, <3>2, <3>3 DEF Before
  <2>2. ASSUME h.serial < x.serial, f[x] = x, NEW t \in Pending \ {r}, NEW j \in DOMAIN t.commands,
               x = At(t, j)
        PROVE  f[x] \in Points' /\ Before(h, x)
    <3>1. t \in Pending'
      BY <1>8
    <3> QED BY <2>2, <3>1 DEF Points, Before
  <2> HIDE DEF f, g
  <2> QED BY <1>10, <2>1, <2>2
<1>12. ASSUME NEW z \in Points'
       PROVE  \E x \in Points \ {h} : z = f[x]
  <2>1. PICK t \in Pending' : \E j \in DOMAIN t.commands : z = At(t, j)
    BY DEF Points
  <2>2. PICK j \in DOMAIN t.commands : z = At(t, j)
    BY <2>1
  <2>3. CASE t = q
    <3>0. j \in DOMAIN Tail(r.commands) /\ z = At(q, j)
      BY <1>4, <2>2, <2>3
    <3>1. j \in DOMAIN Tail(r.commands) /\ j + 1 \in DOMAIN r.commands /\ j \in Nat /\ j # 0
      BY <1>3, <3>0
    <3> DEFINE x == At(r, j + 1)
    <3>2. x.at = j + 1 /\ x.serial = h.serial /\ x.command = r.commands[j + 1]
      BY <1>9 DEF At
    <3>3. x \in Points \ {h}
      <4>1. x \in Points
        BY <1>2, <3>1, PointIs
      <4> QED BY <1>9, <3>1, <3>2, <4>1
    <3>4. g(x) = z
      <4>1. z = [serial |-> q.serial, at |-> j, command |-> Tail(r.commands)[j]]
        BY <1>4, <3>0 DEF At
      <4>2. x.at - 1 = j /\ x.serial = q.serial /\ x.command = Tail(r.commands)[j]
        BY <1>3, <1>4, <1>9, <3>1, <3>2
      <4> QED BY <4>1, <4>2
    <3> HIDE DEF x, g
    <3> QED BY <3>2, <3>3, <3>4
  <2>4. CASE t \in Pending /\ t # r
    <3>1. z \in Points /\ z.serial = t.serial
      BY <2>2, <2>4, PointIs DEF At
    <3>2. r.serial < t.serial /\ t.serial \in Nat
      BY <1>7, <2>4, PendingTyped
    <3>3. z.serial # h.serial
      BY <1>2, <1>9, <3>1, <3>2
    <3> QED BY <3>1, <3>3
  <2> QED BY <1>8, <2>1, <2>3, <2>4
<1>13. ASSUME NEW x \in Points \ {h}, NEW y \in Points \ {h}
       PROVE  Before(f[x], f[y]) <=> Before(x, y)
  <2>1. x \in Point /\ y \in Point /\ h.serial \in Nat
    BY <1>2, <1>9, PointTyped
  <2>2. x.serial \in Nat /\ x.at \in Nat /\ y.serial \in Nat /\ y.at \in Nat
    BY <2>1 DEF Point
  <2>3. f[x].serial = x.serial /\ f[y].serial = y.serial
    BY <1>11
  <2>4. /\ f[x].at = IF x.serial = h.serial THEN x.at - 1 ELSE x.at
        /\ f[y].at = IF y.serial = h.serial THEN y.at - 1 ELSE y.at
    OBVIOUS
  <2> HIDE DEF f, g
  <2> QED BY <2>1, <2>2, <2>3, <2>4 DEF Before
<1>14. f \in [Points \ {h} -> Points']
  BY <1>11
<1> HIDE DEF f, g
<1>15. Runs(h, f)
  BY <1>9, <1>11, <1>12, <1>13, <1>14 DEF Runs
<1>16. h.command = Head(Oldest)
  BY <1>2, <1>9
<1> QED BY <1>6, <1>15, <1>16

LEMMA Completes ==
  ASSUME StreamTyped, InOrder, CompleteOldest
  PROVE  InOrder' /\ Points' = Points
<1>1. /\ queue \in Seq(Recorded) /\ queue # <<>> /\ next \in Nat
      /\ UNCHANGED <<stream, next, waiting>> /\ queue' = Tail(queue)
  BY DEF StreamTyped, CompleteOldest
<1>2. /\ queue' \in Seq(Recorded) /\ Len(queue') = Len(queue) - 1 /\ Len(queue) \in Nat
      /\ DOMAIN queue = 1 .. Len(queue) /\ DOMAIN queue' = 1 .. (Len(queue) - 1)
      /\ Head(queue) = queue[1] /\ Len(queue) > 0
      /\ \A i \in DOMAIN queue' : queue'[i] = queue[i + 1]
  BY <1>1, Tailed
<1>3. Recording' = Recording /\ Recording \in {0, 1}
  BY <1>1 DEF Recording
<1>4. InOrder'
  <2>1. ASSUME NEW i \in DOMAIN queue'
        PROVE  /\ queue'[i].serial > 0
               /\ queue'[i].serial = next' - 1 - Recording' - (Len(queue') - i)
    <3>1. i + 1 \in DOMAIN queue /\ queue'[i] = queue[i + 1]
      BY <1>2
    <3>2. /\ queue[i + 1].serial > 0
          /\ queue[i + 1].serial = next - 1 - Recording - (Len(queue) - (i + 1))
      BY <3>1 DEF InOrder
    <3> QED BY <1>1, <1>2, <1>3, <3>1, <3>2
  <2> QED BY <1>1, <2>1 DEF InOrder
<1>5. ASSUME NEW t
      PROVE  t \in Pending <=> t = queue[1] \/ t \in Pending'
  <2>1. (\E i \in DOMAIN queue : t = queue[i])
          <=> t = queue[1] \/ (\E i \in DOMAIN queue' : t = queue'[i])
    <3>1. ASSUME NEW i \in DOMAIN queue
          PROVE  queue[i] = queue[1] \/ \E j \in DOMAIN queue' : queue[i] = queue'[j]
      <4>1. CASE i = 1
        BY <4>1
      <4>2. CASE i # 1
        <5>1. i - 1 \in DOMAIN queue' /\ (i - 1) + 1 = i
          BY <1>2, <4>2
        <5> QED BY <1>2, <5>1
      <4> QED BY <4>1, <4>2
    <3>2. 1 \in DOMAIN queue /\ \A i \in DOMAIN queue' : i + 1 \in DOMAIN queue
      BY <1>2
    <3> QED BY <1>2, <3>1, <3>2
  <2> QED BY <1>1, <2>1 DEF Pending
<1>6. queue[1].commands = <<>>
  BY <1>2 DEF CompleteOldest, Oldest
<1>7. {At(queue[1], j) : j \in DOMAIN queue[1].commands} = {}
  BY <1>6
<1>8. Pending = Pending' \cup {queue[1]}
  BY <1>5
<1> QED BY <1>4, <1>7, <1>8 DEF Points

-----------------------------------------------------------------------------
(***************************************************************************)
(* What commands read and storages will hold, as commands are recorded and *)
(* run and the CPU writes.                                                 *)
(***************************************************************************)
LEMMA NotBefore ==
  ASSUME NEW x \in Point, NEW y \in Point, Before(x, y)
  PROVE  ~Before(y, x) /\ ~Before(y, y) /\ x # y
<1>1. x.serial \in Nat /\ x.at \in Nat /\ y.serial \in Nat /\ y.at \in Nat
  BY DEF Point
<1> QED BY <1>1 DEF Before

LEMMA LastReads ==
  ASSUME NEW P \in SUBSET Point, NEW y \in Point, \A x \in P : Before(x, y), NEW held,
         ReadsFollow(P), ReadsFind(P, held),
         y.command.use # "write" =>
           WillHold(P, y.command.from, held, y.command.parts, y.command.values)
  PROVE  ReadsFollow(P \cup {y}) /\ ReadsFind(P \cup {y}, held)
<1>1. \A x \in P \cup {y} : ~Before(y, x)
  <2>1. ~Before(y, y)
    BY DEF Before, Point
  <2> QED BY <2>1, NotBefore
<1>2. ASSUME NEW q \in P \cup {y}, NEW r \in P \cup {y}, NEW s \in Storages, NEW p \in Parts,
             Before(q, r), Writes(q, s, p), Needs(r, s, p)
      PROVE  \/ q.command.values[p] = r.command.values[p]
             \/ \E m \in P \cup {y} : Before(q, m) /\ Before(m, r) /\ Writes(m, s, p)
  <2>1. q \in P
    BY <1>1, <1>2
  <2>2. CASE r \in P
    BY <1>2, <2>1, <2>2 DEF ReadsFollow
  <2>3. CASE r = y
    <3>1. /\ WillHold(P, s, held, y.command.parts, y.command.values)
          /\ p \in y.command.parts /\ y.command.values[p] # Unknown
      BY <1>2, <2>3 DEF Needs
    <3>2. q.command.values[p] = y.command.values[p] \/ \E m \in P : Before(q, m) /\ Writes(m, s, p)
      BY <1>2, <2>1, <3>1 DEF WillHold
    <3> QED BY <2>3, <3>2
  <2> QED BY <2>2, <2>3
<1>3. ASSUME NEW r \in P \cup {y}, NEW s \in Storages, NEW p \in Parts, Needs(r, s, p)
      PROVE  \/ held[s][p] = r.command.values[p]
             \/ \E m \in P \cup {y} : Before(m, r) /\ Writes(m, s, p)
  <2>1. CASE r \in P
    BY <1>3, <2>1 DEF ReadsFind
  <2>2. CASE r = y
    <3>1. /\ WillHold(P, s, held, y.command.parts, y.command.values)
          /\ p \in y.command.parts /\ y.command.values[p] # Unknown
      BY <1>3, <2>2 DEF Needs
    <3>2. held[s][p] = y.command.values[p] \/ \E m \in P : Writes(m, s, p)
      BY <3>1 DEF WillHold
    <3> QED BY <2>2, <3>2
  <2> QED BY <2>1, <2>2
<1> QED BY <1>2, <1>3 DEF ReadsFollow, ReadsFind

LEMMA LastHolds ==
  ASSUME NEW P \in SUBSET Point, NEW y \in Point, \A x \in P : Before(x, y), NEW held,
         NEW s, NEW ps, NEW a, NEW qs, NEW b, WillHold(P, s, held, ps, a),
         \A p \in qs : b[p] # Unknown =>
           \/ Writes(y, s, p) /\ y.command.values[p] = b[p]
           \/ ~Writes(y, s, p) /\ p \in ps /\ a[p] = b[p]
  PROVE  WillHold(P \cup {y}, s, held, qs, b)
<1> SUFFICES ASSUME NEW p \in qs, b[p] # Unknown
             PROVE  /\ held[s][p] = b[p] \/ \E m \in P \cup {y} : Writes(m, s, p)
                    /\ \A q \in P \cup {y} : Writes(q, s, p) =>
                         \/ q.command.values[p] = b[p]
                         \/ \E m \in P \cup {y} : Before(q, m) /\ Writes(m, s, p)
  BY DEF WillHold
<1>1. CASE Writes(y, s, p) /\ y.command.values[p] = b[p]
  BY <1>1
<1>2. CASE ~Writes(y, s, p) /\ p \in ps /\ a[p] = b[p]
  <2>1. /\ held[s][p] = b[p] \/ \E m \in P : Writes(m, s, p)
        /\ \A q \in P : Writes(q, s, p) =>
             \/ q.command.values[p] = b[p]
             \/ \E m \in P : Before(q, m) /\ Writes(m, s, p)
    BY <1>2 DEF WillHold
  <2> QED BY <1>2, <2>1
<1> QED BY <1>1, <1>2

(* Nothing pending writes s: it holds the contents already.                *)
LEMMA HoldsNow ==
  ASSUME NEW P, NEW s, NEW held, NEW ps, NEW a, \A x \in P, p \in ps : ~Writes(x, s, p)
  PROVE  WillHold(P, s, held, ps, a) <=> Agrees(ps, a, held[s])
BY DEF WillHold, Agrees

LEMMA CpuReads ==
  ASSUME NEW P, NEW held, NEW then, ReadsFind(P, held),
         \A r \in P, s \in Storages, p \in Parts : Needs(r, s, p) => then[s][p] = held[s][p]
  PROVE  ReadsFind(P, then)
BY DEF ReadsFind

LEMMA CpuHolds ==
  ASSUME NEW P, NEW s, NEW held, NEW then, NEW ps, NEW a, NEW qs, NEW b,
         WillHold(P, s, held, ps, a),
         \A p \in qs : b[p] # Unknown => p \in ps /\ a[p] = b[p] /\ then[s][p] = held[s][p]
  PROVE  WillHold(P, s, then, qs, b)
BY DEF WillHold

(* What the storages hold when h has run.                                  *)
Ran(h, held, then) ==
  \A s \in Storages, p \in Parts :
    IF Writes(h, s, p) THEN h.command.values[p] \in {Unknown, then[s][p]}
    ELSE then[s][p] = held[s][p]

LEMMA RanReads ==
  ASSUME NEW h, NEW f, Runs(h, f), Points \in SUBSET Point, NEW held, NEW then, Ran(h, held, then),
         ReadsFollow(Points), ReadsFind(Points, held)
  PROVE  ReadsFollow(Points') /\ ReadsFind(Points', then)
<1>1. /\ h \in Points /\ \A x \in Points \ {h} : f[x] \in Points'
      /\ \A z \in Points' : \E x \in Points \ {h} : z = f[x]
      /\ \A x \in Points \ {h} : f[x].command = x.command /\ Before(h, x)
      /\ \A x, y \in Points \ {h} : Before(f[x], f[y]) <=> Before(x, y)
  BY DEF Runs
<1>2. \A x \in Points : ~Before(x, h)
  <2>1. ~Before(h, h)
    BY <1>1 DEF Before, Point
  <2> QED BY <1>1, <2>1, NotBefore
<1>3. ASSUME NEW z \in Points', NEW t \in Points', NEW s \in Storages, NEW p \in Parts,
             Before(z, t), Writes(z, s, p), Needs(t, s, p)
      PROVE  \/ z.command.values[p] = t.command.values[p]
             \/ \E m \in Points' : Before(z, m) /\ Before(m, t) /\ Writes(m, s, p)
  <2>1. PICK x \in Points \ {h}, y \in Points \ {h} : z = f[x] /\ t = f[y]
    BY <1>1
  <2>2. Before(x, y) /\ Writes(x, s, p) /\ Needs(y, s, p)
    BY <1>1, <1>3, <2>1 DEF Writes, Needs
  <2>3. CASE x.command.values[p] = y.command.values[p]
    BY <1>1, <2>1, <2>3
  <2>4. ASSUME NEW m \in Points, Before(x, m), Before(m, y), Writes(m, s, p)
        PROVE  \E n \in Points' : Before(z, n) /\ Before(n, t) /\ Writes(n, s, p)
    <3>1. m # h
      BY <1>2, <2>4
    <3>2. f[m] \in Points' /\ Before(f[x], f[m]) /\ Before(f[m], f[y]) /\ Writes(f[m], s, p)
      BY <1>1, <2>4, <3>1 DEF Writes
    <3> QED BY <2>1, <3>2
  <2> QED BY <2>2, <2>3, <2>4 DEF ReadsFollow
<1>4. ASSUME NEW t \in Points', NEW s \in Storages, NEW p \in Parts, Needs(t, s, p)
      PROVE  \/ then[s][p] = t.command.values[p]
             \/ \E m \in Points' : Before(m, t) /\ Writes(m, s, p)
  <2>1. PICK y \in Points \ {h} : t = f[y]
    BY <1>1
  <2>2. Needs(y, s, p) /\ y.command.values[p] = t.command.values[p] /\ Before(h, y)
        /\ y.command.values[p] # Unknown
    BY <1>1, <1>4, <2>1 DEF Needs
  <2>3. ASSUME NEW m \in Points \ {h}, Before(m, y), Writes(m, s, p)
        PROVE  \E n \in Points' : Before(n, t) /\ Writes(n, s, p)
    <3>1. f[m] \in Points' /\ Before(f[m], f[y]) /\ Writes(f[m], s, p)
      BY <1>1, <2>3 DEF Writes
    <3> QED BY <2>1, <3>1
  <2>4. CASE Writes(h, s, p)
    <3>1. \/ h.command.values[p] = y.command.values[p]
          \/ \E m \in Points : Before(h, m) /\ Before(m, y) /\ Writes(m, s, p)
      BY <1>1, <2>2, <2>4 DEF ReadsFollow
    <3>2. h.command.values[p] = y.command.values[p] => then[s][p] = t.command.values[p]
      BY <2>2, <2>4 DEF Ran
    <3> QED BY <1>2, <2>3, <3>1, <3>2
  <2>5. CASE ~Writes(h, s, p)
    <3>1. then[s][p] = held[s][p]
      BY <2>5 DEF Ran
    <3>2. \/ held[s][p] = y.command.values[p]
          \/ \E m \in Points : Before(m, y) /\ Writes(m, s, p)
      BY <2>2 DEF ReadsFind
    <3> QED BY <2>2, <2>3, <2>5, <3>1, <3>2
  <2> QED BY <2>4, <2>5
<1> QED BY <1>3, <1>4 DEF ReadsFollow, ReadsFind

LEMMA RanHolds ==
  ASSUME NEW h, NEW f, Runs(h, f), Points \in SUBSET Point, NEW held, NEW then, Ran(h, held, then),
         NEW s \in Storages, NEW ps \in SUBSET Parts, NEW a, WillHold(Points, s, held, ps, a)
  PROVE  WillHold(Points', s, then, ps, a)
<1>1. /\ h \in Points /\ \A x \in Points \ {h} : f[x] \in Points'
      /\ \A z \in Points' : \E x \in Points \ {h} : z = f[x]
      /\ \A x \in Points \ {h} : f[x].command = x.command /\ Before(h, x)
      /\ \A x, y \in Points \ {h} : Before(f[x], f[y]) <=> Before(x, y)
  BY DEF Runs
<1>2. \A x \in Points : ~Before(x, h)
  <2>1. ~Before(h, h)
    BY <1>1 DEF Before, Point
  <2> QED BY <1>1, <2>1, NotBefore
<1> SUFFICES ASSUME NEW p \in ps, a[p] # Unknown
             PROVE  /\ then[s][p] = a[p] \/ \E m \in Points' : Writes(m, s, p)
                    /\ \A z \in Points' : Writes(z, s, p) =>
                         \/ z.command.values[p] = a[p]
                         \/ \E m \in Points' : Before(z, m) /\ Writes(m, s, p)
  BY DEF WillHold
<1>3. /\ held[s][p] = a[p] \/ \E m \in Points : Writes(m, s, p)
      /\ \A q \in Points : Writes(q, s, p) =>
           q.command.values[p] = a[p] \/ \E m \in Points : Before(q, m) /\ Writes(m, s, p)
  BY DEF WillHold
<1>4. \A m \in Points \ {h} : Writes(m, s, p) => f[m] \in Points' /\ Writes(f[m], s, p)
  BY <1>1 DEF Writes
<1>5. then[s][p] = a[p] \/ \E m \in Points' : Writes(m, s, p)
  <2>1. CASE Writes(h, s, p)
    <3>1. h.command.values[p] = a[p] => then[s][p] = a[p]
      BY <2>1 DEF Ran
    <3>2. h.command.values[p] = a[p] \/ \E m \in Points : Before(h, m) /\ Writes(m, s, p)
      BY <1>1, <1>3, <2>1
    <3> QED BY <1>2, <1>4, <3>1, <3>2
  <2>2. CASE ~Writes(h, s, p)
    <3>1. then[s][p] = held[s][p]
      BY <2>2 DEF Ran
    <3> QED BY <1>3, <1>4, <2>2, <3>1
  <2> QED BY <2>1, <2>2
<1>6. ASSUME NEW z \in Points', Writes(z, s, p)
      PROVE  z.command.values[p] = a[p] \/ \E m \in Points' : Before(z, m) /\ Writes(m, s, p)
  <2>1. PICK x \in Points \ {h} : z = f[x]
    BY <1>1
  <2>2. Writes(x, s, p) /\ x.command = z.command
    BY <1>1, <1>6, <2>1 DEF Writes
  <2>3. ASSUME NEW m \in Points, Before(x, m), Writes(m, s, p)
        PROVE  \E n \in Points' : Before(z, n) /\ Writes(n, s, p)
    <3>1. m # h
      BY <1>2, <2>3
    <3>2. f[m] \in Points' /\ Before(f[x], f[m]) /\ Writes(f[m], s, p)
      BY <1>1, <1>4, <2>3, <3>1
    <3> QED BY <2>1, <3>2
  <2> QED BY <1>3, <2>2, <2>3
<1> QED BY <1>5, <1>6

-----------------------------------------------------------------------------
(***************************************************************************)
(* The pools: what is in them when storage is taken and retired.           *)
(***************************************************************************)
LEMMA InPool ==
  ASSUME NEW pool, NEW s
  PROVE  s \in OfPool(pool) <=> \E e \in Entries(pool) : e.mtl = s
BY DEF OfPool, Entries

LEMMA EntryTyped ==
  ASSUME NEW pool \in Pool
  PROVE  /\ \A e \in Entries(pool) : e \in Retired /\ e.mtl \in Storages /\ e.serial \in Nat
         /\ OfPool(pool) \subseteq Storages
<1>1. pool \in Seq(Retired)
  BY DEF Pool
<1>2. \A i \in DOMAIN pool : pool[i] \in Retired
  BY <1>1
<1> QED BY <1>2 DEF Retired, Entries, OfPool

LEMMA WithoutEntries ==
  ASSUME NEW pool \in Pool, Distinct(pool), NEW s
  PROVE  LET r == Without(pool, s) IN
         /\ Entries(r) \subseteq Entries(pool) /\ OfPool(r) \subseteq OfPool(pool)
         /\ Distinct(r) /\ s \notin OfPool(r)
<1>1. pool \in Seq(Retired) /\ Len(pool) \in Nat /\ DOMAIN pool = 1 .. Len(pool)
  BY DEF Pool
<1>2. CASE \A i \in DOMAIN pool : pool[i].mtl # s
  BY <1>2 DEF Without, OfPool
<1>3. CASE ~\A i \in DOMAIN pool : pool[i].mtl # s
  <2> DEFINE i == CHOOSE i \in DOMAIN pool : pool[i].mtl = s
             a == SubSeq(pool, 1, i - 1)
             b == SubSeq(pool, i + 1, Len(pool))
             r == a \o b
             g(j) == IF j < i THEN j ELSE j + 1
  <2>1. i \in DOMAIN pool /\ pool[i].mtl = s
    BY <1>3
  <2>2. Without(pool, s) = r
    BY <1>3 DEF Without
  <2> HIDE DEF i
  <2>3. /\ a \in Seq(Retired) /\ Len(a) = i - 1 /\ \A j \in 1 .. (i - 1) : a[j] = pool[j]
        /\ b \in Seq(Retired) /\ Len(b) = Len(pool) - i
        /\ \A j \in 1 .. (Len(pool) - i) : b[j] = pool[i + j]
    <3>1. i \in 1 .. Len(pool)
      BY <1>1, <2>1
    <3>2. a \in Seq(Retired) /\ Len(a) = i - 1 /\ \A j \in 1 .. (i - 1) : a[j] = pool[j]
      BY <1>1, <3>1
    <3>3. b \in Seq(Retired) /\ Len(b) = Len(pool) - i
      <4>1. b \in Seq(Retired)
        BY <1>1, <3>1
      <4>2. i + 1 \in Int /\ Len(pool) \in Nat /\ i \in Nat /\ i <= Len(pool)
        BY <1>1, <3>1
      <4>3. Len(b) = IF i + 1 <= Len(pool) THEN Len(pool) - (i + 1) + 1 ELSE 0
        BY <1>1, <4>2
      <4>4. Len(pool) - (i + 1) + 1 = Len(pool) - i /\ (~(i + 1 <= Len(pool)) => Len(pool) - i = 0)
        BY <4>2
      <4> QED
        BY <4>1, <4>3, <4>4
    <3>4. ASSUME NEW j \in 1 .. (Len(pool) - i)
          PROVE  b[j] = pool[i + j]
      <4>1. i + 1 \in Int /\ j \in 1 .. (Len(pool) - (i + 1) + 1)
        BY <1>1, <3>1
      <4>2. b[j] = pool[(i + 1) + j - 1]
        BY <1>1, <3>1, <4>1
      <4>3. (i + 1) + j - 1 = i + j
        BY <1>1, <3>1
      <4> QED BY <4>2, <4>3
    <3> QED BY <3>2, <3>3, <3>4
  <2> HIDE DEF a, b
  <2>4. /\ r \in Seq(Retired) /\ Len(r) = Len(pool) - 1 /\ DOMAIN r = 1 .. Len(r)
        /\ \A j \in 1 .. Len(a) : r[j] = a[j]
        /\ \A j \in (Len(a) + 1) .. (Len(a) + Len(b)) : r[j] = b[j - Len(a)]
    <3>1. r \in Seq(Retired) /\ Len(r) = Len(a) + Len(b)
      BY <2>3, Joined
    <3>2. \A j \in 1 .. Len(a) : r[j] = a[j]
      BY <2>3
    <3>3. \A j \in (Len(a) + 1) .. (Len(a) + Len(b)) : r[j] = b[j - Len(a)]
      BY <2>3
    <3> HIDE DEF r
    <3> QED BY <1>1, <2>1, <2>3, <3>1, <3>2, <3>3
  <2> HIDE DEF r
  <2>5. ASSUME NEW j \in DOMAIN r
        PROVE  g(j) \in DOMAIN pool /\ g(j) # i /\ r[j] = pool[g(j)] /\ j \in Nat
    <3>1. j \in Nat /\ 1 <= j /\ j <= Len(pool) - 1 /\ i \in Nat /\ 1 <= i /\ i <= Len(pool)
      BY <1>1, <2>1, <2>4
    <3>2. CASE j < i
      BY <1>1, <2>3, <2>4, <3>1, <3>2
    <3>3. CASE ~(j < i)
      <4>1. r[j] = b[j - (i - 1)]
        <5>1. Len(a) = i - 1 /\ j \in (Len(a) + 1) .. (Len(a) + Len(b))
          BY <1>1, <2>3, <3>1, <3>3
        <5>2. r[j] = b[j - Len(a)]
          BY <2>4, <5>1
        <5> QED BY <5>1, <5>2
      <4>2. b[j - (i - 1)] = pool[i + (j - (i - 1))]
        BY <1>1, <2>3, <3>1, <3>3
      <4>3. i + (j - (i - 1)) = j + 1
        BY <3>1
      <4> QED BY <1>1, <3>1, <3>3, <4>1, <4>2, <4>3
    <3> QED BY <3>2, <3>3
  <2>6. \A j, k \in DOMAIN r : g(j) = g(k) => j = k
    BY <1>1, <2>1, <2>4
  <2> HIDE DEF g
  <2>7. Entries(r) \subseteq Entries(pool) /\ OfPool(r) \subseteq OfPool(pool)
    BY <2>5 DEF Entries, OfPool
  <2>8. Distinct(r)
    BY <2>5, <2>6 DEF Distinct
  <2>9. s \notin OfPool(r)
    BY <2>1, <2>5 DEF Distinct, OfPool
  <2> QED BY <2>2, <2>7, <2>8, <2>9
<1> QED BY <1>2, <1>3

LEMMA RetireEntries ==
  ASSUME BufferAssumption, NEW pool \in Pool, Distinct(pool), NEW s \in Storages,
         NEW n \in Nat, s \notin OfPool(pool)
  PROVE  LET r == Retire(pool, s, n) IN
         /\ Entries(r) \subseteq Entries(pool) \cup {[mtl |-> s, serial |-> n]}
         /\ OfPool(r) \subseteq OfPool(pool) \cup {s}
         /\ Distinct(r)
<1> DEFINE e == [mtl |-> s, serial |-> n]
           rest == IF Len(pool) >= MaxRetired THEN Tail(pool) ELSE pool
           r == Append(rest, e)
<1>1. pool \in Seq(Retired) /\ Len(pool) \in Nat /\ e \in Retired /\ e.mtl = s
  BY DEF Pool, Retired
<1>2. /\ rest \in Seq(Retired) /\ Entries(rest) \subseteq Entries(pool)
      /\ OfPool(rest) \subseteq OfPool(pool) /\ Distinct(rest)
  <2>1. CASE Len(pool) >= MaxRetired
    <3>1. pool # <<>>
      BY <1>1, <2>1 DEF BufferAssumption
    <3> DEFINE t == Tail(pool)
    <3>2. /\ t \in Seq(Retired) /\ DOMAIN pool = 1 .. Len(pool)
          /\ DOMAIN t = 1 .. (Len(pool) - 1)
          /\ \A j \in DOMAIN t : t[j] = pool[j + 1]
      BY <1>1, <3>1, Tailed
    <3>3. rest = t
      BY <2>1
    <3> HIDE DEF t, rest
    <3>4. \A j \in DOMAIN t : j + 1 \in DOMAIN pool /\ j \in Nat
      BY <1>1, <3>2
    <3>5. Distinct(t)
      <4> SUFFICES ASSUME NEW j \in DOMAIN t, NEW k \in DOMAIN t, t[j].mtl = t[k].mtl
                   PROVE  j = k
        BY DEF Distinct
      <4>1. j + 1 = k + 1
        BY <3>2, <3>4 DEF Distinct
      <4> QED BY <3>4, <4>1
    <3> QED BY <3>2, <3>3, <3>4, <3>5 DEF Entries, OfPool
  <2>2. CASE ~(Len(pool) >= MaxRetired)
    BY <1>1, <2>2
  <2> QED BY <2>1, <2>2
<1> HIDE DEF rest, e
<1>3. /\ r \in Seq(Retired) /\ Len(r) = Len(rest) + 1
      /\ {r[i] : i \in DOMAIN r} = {rest[i] : i \in DOMAIN rest} \cup {e}
      /\ \A i \in DOMAIN r : \/ i \in DOMAIN rest /\ r[i] = rest[i]
                             \/ i = Len(rest) + 1 /\ r[i] = e
  <2>1. rest \in Seq(Retired) /\ e \in Retired
    BY <1>1, <1>2
  <2> QED BY <2>1, Appended
<1> HIDE DEF r
<1>4. Entries(r) \subseteq Entries(pool) \cup {e}
  BY <1>2, <1>3 DEF Entries
<1>5. OfPool(r) \subseteq OfPool(pool) \cup {s}
  BY <1>1, <1>2, <1>3 DEF OfPool
<1>6. \A i \in DOMAIN rest : rest[i].mtl # s
  BY <1>2 DEF OfPool
<1>7. Distinct(r)
  BY <1>1, <1>2, <1>3, <1>6 DEF Distinct
<1>8. Retire(pool, s, n) = r
  BY DEF Retire, r, rest, e
<1> QED BY <1>4, <1>5, <1>7, <1>8 DEF e

(* What a call may know of the buffer.                                     *)
LEMMA FreeFresh ==
  ASSUME BufferAssumption, TypeOK, InOrder, BufferRight(Points, buffer, next),
         NEW pool \in {buffer.retired, buffer.retiredStaging},
         NEW s \in Fresh(pool), s # None
  PROVE  /\ s \in Storages /\ Free(s) /\ s \notin {buffer.mtl, buffer.map.staging}
         /\ pool = buffer.retired => s \notin OfPool(buffer.retiredStaging)
         /\ pool = buffer.retiredStaging => s \notin OfPool(buffer.retired)
<1> DEFINE first == {i \in DOMAIN pool : /\ Reusable(pool, i)
                                         /\ \A j \in DOMAIN pool : j < i => ~Reusable(pool, j)}
           new   == Storages \ Kept
<1>1. /\ pool \in Pool /\ StreamTyped /\ buffer.retired \in Pool /\ buffer.retiredStaging \in Pool
      /\ \A d \in Contexts : waiting[d] \in Wait \cup {None}
  BY TypeOKIs DEF CoreTyped, MemoryTyped, Fits, TypeOK
<1>2. s \in IF first # {} THEN {pool[i].mtl : i \in first} ELSE IF new # {} THEN new ELSE {None}
  BY DEF Fresh
<1>3. CASE \E i \in DOMAIN pool : Reusable(pool, i) /\ s = pool[i].mtl
  <2>1. PICK i \in DOMAIN pool : Complete(pool[i].serial) /\ s = pool[i].mtl
    BY <1>3 DEF Reusable
  <2>2. pool[i] \in Entries(pool) /\ s \in OfPool(pool)
    BY <2>1 DEF Entries, OfPool
  <2>3. s \in Storages /\ pool[i].serial \in Nat
    BY <1>1, <2>1, <2>2, EntryTyped
  <2>4. pool[i].serial < next
    BY <2>2 DEF BufferRight, Given
  <2>5. Past(pool[i].serial)
    BY <1>1, <2>1, <2>3, <2>4, CompletePast
  <2>6. Free(s)
    <3> SUFFICES ASSUME NEW x \in Points, Refers(x, s)
                 PROVE  FALSE
      BY DEF Free
    <3>1. x.serial <= pool[i].serial
      BY <2>1, <2>2 DEF BufferRight, Covers
    <3>2. pool[i].serial < x.serial /\ x.serial \in Nat
      BY <1>1, <2>5, PointTyped DEF Past, Point
    <3> QED BY <2>3, <3>1, <3>2
  <2> QED BY <2>2, <2>3, <2>6 DEF BufferRight, Apart
<1>4. CASE s \in Storages \ Kept
  <2>1. s \notin {buffer.mtl, buffer.map.staging}
    BY <1>4 DEF Kept
  <2>2. s \notin OfPool(buffer.retired) /\ s \notin OfPool(buffer.retiredStaging)
    BY <1>4 DEF Kept, OfPool
  <2>3. ASSUME NEW x \in Points
        PROVE  ~Refers(x, s)
    <3>1. PICK r \in Pending : \E j \in DOMAIN r.commands : x = At(r, j)
      BY PointIs
    <3>2. PICK j \in DOMAIN r.commands : x.command = r.commands[j]
      BY <3>1 DEF At
    <3>3. ASSUME NEW d \in Contexts, NEW i \in DOMAIN stream[d].commands
          PROVE  s # stream[d].commands[i].from /\ s # stream[d].commands[i].to
      BY <1>4 DEF Kept
    <3>4. ASSUME NEW q \in DOMAIN queue, NEW i \in DOMAIN queue[q].commands
          PROVE  s # queue[q].commands[i].from /\ s # queue[q].commands[i].to
      BY <1>4 DEF Kept
    <3>5. s # r.commands[j].from /\ s # r.commands[j].to
      BY <3>3, <3>4, PendingIs
    <3> QED BY <3>2, <3>5 DEF Refers
  <2> QED BY <1>4, <2>1, <2>2, <2>3 DEF Free
<1> QED BY <1>2, <1>3, <1>4

-----------------------------------------------------------------------------
(***************************************************************************)
(* What a step does to the buffer's serials, pools and mapping.            *)
(***************************************************************************)
LEMMA NoneApart ==
  ASSUME BufferAssumption, NEW b, Fits(b)
  PROVE  /\ b.mtl # None /\ None \notin OfPool(b.retired) /\ None \notin OfPool(b.retiredStaging)
         /\ b.mtl \in Storages /\ b.map.staging \in Storages \cup {None}
         /\ b.lastUse \in Nat /\ b.lastWrite \in Nat
         /\ b.retired \in Pool /\ b.retiredStaging \in Pool
         /\ \A e \in Entries(b.retired) \cup Entries(b.retiredStaging) :
              e.serial \in Nat /\ e.mtl \in Storages
<1>1. b.mtl \in Storages /\ b.map \in Mapping /\ b.lastUse \in Nat /\ b.lastWrite \in Nat
      /\ b.retired \in Pool /\ b.retiredStaging \in Pool
  BY DEF Fits, Buffers
<1>2. b.map.staging \in Storages \cup {None}
  BY <1>1 DEF Mapping
<1> QED BY <1>1, <1>2, EntryTyped DEF BufferAssumption

(* The GPU is to use the buffer's storage.                                 *)
LEMMA GpuUses ==
  ASSUME BufferAssumption, NEW P \in SUBSET Point, NEW b, Fits(b), NEW n \in Nat, NEW m \in Nat,
         BufferRight(P, b, n), NEW y \in Point, \A x \in P : Before(x, y),
         y.serial = m - 1, n <= m, y.command.from = b.mtl, y.command.to = b.mtl,
         InPlace(b) => y.command.use = "write" /\ y.command.parts \cap b.map.range = {},
         NEW d, d.mtl = b.mtl, d.map = b.map, d.retired = b.retired,
         d.retiredStaging = b.retiredStaging, d.lastUse = y.serial,
         d.lastWrite = y.serial \/ (d.lastWrite = b.lastWrite /\ y.command.use = "read"),
         d.scanVersion <= d.version, InPlace(b) => ~d.shadowValid
  PROVE  BufferRight(P \cup {y}, d, m)
<1>1. y.serial \in Nat /\ \A x \in P : x.serial \in Nat /\ x.serial <= y.serial
  BY DEF Point, Before
<1>2. /\ b.lastUse \in Nat /\ b.lastWrite \in Nat /\ b.mtl # None
      /\ \A e \in Entries(b.retired) \cup Entries(b.retiredStaging) : e.serial \in Nat
  BY NoneApart
<1>3. Apart(d)
  BY DEF BufferRight, Apart
<1>4. Given(d, m)
  <2>1. b.lastWrite <= b.lastUse /\ b.lastUse < n
        /\ \A e \in Entries(b.retired) \cup Entries(b.retiredStaging) : e.serial < n
    BY DEF BufferRight, Given
  <2>2. d.lastWrite <= d.lastUse /\ d.lastUse < m
    BY <1>1, <1>2, <2>1
  <2>3. \A e \in Entries(d.retired) \cup Entries(d.retiredStaging) : e.serial < m
    BY <1>2, <2>1
  <2> QED BY <2>2, <2>3 DEF Given
<1>5. MappingRight(d)
  BY DEF BufferRight, MappingRight, InPlace
<1>6. ASSUME NEW x \in P
      PROVE  Covers(d, x)
  <2>1. Covers(b, x)
    BY DEF BufferRight
  <2>2. x.serial <= d.lastUse
    BY <1>1
  <2>3. x.command.use # "read" /\ x.command.to = d.mtl => x.serial <= d.lastWrite
    BY <1>1, <2>1 DEF Covers
  <2> QED BY <2>1, <2>2, <2>3 DEF Covers, InPlace
<1>7. Covers(d, y)
  <2>1. b.mtl \notin OfPool(b.retired) /\ b.mtl \notin OfPool(b.retiredStaging) /\ b.mtl # b.map.staging
    BY DEF BufferRight, Apart
  <2>2. \A e \in Entries(d.retired) \cup Entries(d.retiredStaging) : ~Refers(y, e.mtl)
    BY <2>1, InPool DEF Refers
  <2>3. ~Refers(y, d.map.staging)
    BY <2>1 DEF Refers
  <2> QED BY <1>1, <2>2, <2>3 DEF Covers, InPlace
<1> QED BY <1>3, <1>4, <1>5, <1>6, <1>7 DEF BufferRight

(* The CPU changes the buffer, or maps its storage or unmaps it.           *)
LEMMA SameStorage ==
  ASSUME BufferAssumption, NEW P, NEW b, Fits(b), NEW n, BufferRight(P, b, n),
         NEW d, d.mtl = b.mtl, d.lastUse = b.lastUse, d.lastWrite = b.lastWrite,
         d.retired = b.retired, d.retiredStaging = b.retiredStaging, d.scanVersion <= d.version,
         \/ d.map = b.map /\ (InPlace(b) => ~d.shadowValid)
         \/ d.map = Unmapped
         \/ /\ d.map.staging = None /\ d.map.pointer = b.mtl
            /\ d.map.writes => ~d.shadowValid /\ \A x \in P : ~Refers(x, b.mtl)
  PROVE  BufferRight(P, d, n)
<1>1. b.mtl # None /\ None \notin OfPool(b.retired) /\ None \notin OfPool(b.retiredStaging)
  BY NoneApart
<1>2. Unmapped.staging = None
  BY DEF Unmapped
<1>3. d.map.staging \in {b.map.staging, None} /\ (d.map.staging = b.map.staging \/ d.map.staging = None)
  BY <1>2
<1>4. Apart(d)
  BY <1>1, <1>3 DEF BufferRight, Apart
<1>5. Given(d, n)
  BY DEF BufferRight, Given
<1>6. MappingRight(d)
  BY DEF BufferRight, MappingRight, InPlace
<1>7. ASSUME NEW x \in P
      PROVE  Covers(d, x)
  <2>1. Covers(b, x)
    BY DEF BufferRight
  <2>2. d.map.staging # None => ~Refers(x, d.map.staging)
    BY <1>3, <2>1 DEF Covers
  <2>3. InPlace(d) /\ Refers(x, d.mtl) => x.command.use = "write" /\ x.command.parts \cap d.map.range = {}
    BY <2>1 DEF Covers, InPlace
  <2> QED BY <2>1, <2>2, <2>3 DEF Covers
<1> QED BY <1>4, <1>5, <1>6, <1>7 DEF BufferRight

(* The buffer takes the storage s and retires its own, or drops it.        *)
LEMMA OtherStorage ==
  ASSUME BufferAssumption, NEW P, NEW b, Fits(b), NEW n \in Nat, n > 0, BufferRight(P, b, n),
         NEW s \in Storages, \A x \in P : ~Refers(x, s), s \notin OfPool(b.retiredStaging),
         s # b.mtl,
         NEW d, d.mtl = s, d.lastUse = 0, d.lastWrite = 0,
         d.retired \in {Without(b.retired, s), Retire(Without(b.retired, s), b.mtl, b.lastUse)},
         d.retiredStaging = b.retiredStaging, d.scanVersion <= d.version,
         \/ d.map = Unmapped
         \/ /\ d.map.staging = None /\ d.map.pointer = s
            /\ d.map.writes => ~d.shadowValid
  PROVE  BufferRight(P, d, n)
<1> DEFINE w == Without(b.retired, s)
           e == [mtl |-> b.mtl, serial |-> b.lastUse]
<1>1. /\ b.mtl # None /\ None \notin OfPool(b.retired) /\ None \notin OfPool(b.retiredStaging)
      /\ b.retired \in Pool /\ b.mtl \in Storages /\ b.lastUse \in Nat
      /\ OfPool(b.retired) \subseteq Storages
  BY NoneApart, EntryTyped
<1>2. /\ Distinct(b.retired) /\ Distinct(b.retiredStaging)
      /\ OfPool(b.retired) \cap OfPool(b.retiredStaging) = {}
      /\ b.mtl \notin OfPool(b.retired) /\ b.mtl \notin OfPool(b.retiredStaging)
  BY DEF BufferRight, Apart
<1>3. /\ w \in Pool /\ Entries(w) \subseteq Entries(b.retired)
      /\ OfPool(w) \subseteq OfPool(b.retired) /\ Distinct(w) /\ s \notin OfPool(w)
  BY <1>1, <1>2, WithoutFits, WithoutEntries
<1> HIDE DEF w
<1>4. /\ Entries(Retire(w, b.mtl, b.lastUse)) \subseteq Entries(w) \cup {e}
      /\ OfPool(Retire(w, b.mtl, b.lastUse)) \subseteq OfPool(w) \cup {b.mtl}
      /\ Distinct(Retire(w, b.mtl, b.lastUse))
  BY <1>1, <1>2, <1>3, RetireEntries
<1>5. /\ Entries(d.retired) \subseteq Entries(b.retired) \cup {e}
      /\ OfPool(d.retired) \subseteq OfPool(b.retired) \cup {b.mtl}
      /\ Distinct(d.retired) /\ s \notin OfPool(d.retired)
  BY <1>3, <1>4 DEF w
<1>6. d.map.staging = None
  BY DEF Unmapped
<1>7. Apart(d)
  BY <1>1, <1>2, <1>5, <1>6 DEF Apart
<1>8. e.serial = b.lastUse /\ e.mtl = b.mtl
  OBVIOUS
<1> HIDE DEF e
<1>9. Given(d, n)
  <2>1. b.lastUse < n /\ \A t \in Entries(b.retired) \cup Entries(b.retiredStaging) : t.serial < n
    BY DEF BufferRight, Given
  <2>2. \A t \in Entries(d.retired) \cup Entries(d.retiredStaging) : t.serial < n
    BY <1>5, <1>8, <2>1
  <2> QED BY <2>2 DEF Given
<1>10. MappingRight(d)
  BY DEF MappingRight, InPlace
<1>11. ASSUME NEW x \in P
       PROVE  Covers(d, x)
  <2>1. Covers(b, x) /\ ~Refers(x, s)
    BY DEF BufferRight
  <2>2. x.command.to # s
    BY <2>1 DEF Refers
  <2>3. ASSUME NEW t \in Entries(d.retired) \cup Entries(d.retiredStaging), Refers(x, t.mtl)
        PROVE  x.serial <= t.serial
    BY <1>5, <1>8, <2>1, <2>3 DEF Covers
  <2> QED BY <1>6, <2>1, <2>2, <2>3 DEF Covers
<1> QED BY <1>7, <1>9, <1>10, <1>11 DEF BufferRight

(* Staging memory is mapped ...                                            *)
LEMMA MapsStaging ==
  ASSUME BufferAssumption, NEW P, NEW b, Fits(b), NEW n \in Nat, BufferRight(P, b, n),
         b.map = Unmapped, NEW s \in Storages, \A x \in P : ~Refers(x, s),
         s \notin OfPool(b.retired), s # b.mtl,
         NEW d, d.mtl = b.mtl, d.lastUse = b.lastUse, d.lastWrite = b.lastWrite,
         d.retired = b.retired, d.retiredStaging = Without(b.retiredStaging, s),
         d.scanVersion <= d.version, d.map.staging = s, d.map.pointer = s, d.map.writes
  PROVE  BufferRight(P, d, n)
<1> DEFINE w == Without(b.retiredStaging, s)
<1>1. b.retiredStaging \in Pool /\ s # None
  BY NoneApart DEF BufferAssumption
<1>2. /\ Distinct(b.retired) /\ Distinct(b.retiredStaging)
      /\ OfPool(b.retired) \cap OfPool(b.retiredStaging) = {}
      /\ b.mtl \notin OfPool(b.retired) /\ b.mtl \notin OfPool(b.retiredStaging)
  BY DEF BufferRight, Apart
<1>3. /\ Entries(w) \subseteq Entries(b.retiredStaging)
      /\ OfPool(w) \subseteq OfPool(b.retiredStaging) /\ Distinct(w) /\ s \notin OfPool(w)
  BY <1>1, <1>2, WithoutEntries
<1>4. d.retiredStaging = w
  OBVIOUS
<1> HIDE DEF w
<1>5. Apart(d)
  BY <1>2, <1>3, <1>4 DEF Apart
<1>6. Given(d, n)
  BY <1>3, <1>4 DEF BufferRight, Given
<1>7. MappingRight(d)
  BY <1>1 DEF MappingRight, InPlace
<1>8. ASSUME NEW x \in P
      PROVE  Covers(d, x)
  <2>1. Covers(b, x)
    BY DEF BufferRight
  <2> QED BY <1>1, <1>3, <1>4, <2>1 DEF Covers, InPlace
<1> QED BY <1>5, <1>6, <1>7, <1>8 DEF BufferRight

(* ... and copied into place.                                              *)
LEMMA CopiesStaging ==
  ASSUME BufferAssumption, NEW P \in SUBSET Point, NEW b, Fits(b), NEW n \in Nat, NEW m \in Nat,
         BufferRight(P, b, n), NEW y \in Point, \A x \in P : Before(x, y),
         y.serial = m - 1, n <= m, b.map.staging # None,
         y.command.from = b.map.staging, y.command.to = b.mtl,
         NEW d, d.mtl = b.mtl, d.map = Unmapped, d.retired = b.retired,
         d.retiredStaging = Retire(b.retiredStaging, b.map.staging, y.serial),
         d.lastUse = y.serial, d.lastWrite = y.serial, d.scanVersion <= d.version
  PROVE  BufferRight(P \cup {y}, d, m)
<1> DEFINE s == b.map.staging
           r == Retire(b.retiredStaging, s, y.serial)
           e == [mtl |-> s, serial |-> y.serial]
<1>1. y.serial \in Nat /\ \A x \in P : x.serial \in Nat /\ x.serial <= y.serial
  BY DEF Point, Before
<1>2. /\ s \in Storages /\ b.lastUse \in Nat /\ b.lastWrite \in Nat /\ b.retiredStaging \in Pool
      /\ b.mtl # None /\ None \notin OfPool(b.retired) /\ None \notin OfPool(b.retiredStaging)
      /\ \A t \in Entries(b.retired) \cup Entries(b.retiredStaging) : t.serial \in Nat
  BY NoneApart
<1>3. /\ Distinct(b.retired) /\ Distinct(b.retiredStaging)
      /\ OfPool(b.retired) \cap OfPool(b.retiredStaging) = {}
      /\ b.mtl \notin OfPool(b.retired) /\ b.mtl \notin OfPool(b.retiredStaging)
      /\ s \notin OfPool(b.retired) /\ s \notin OfPool(b.retiredStaging) /\ s # b.mtl
  BY DEF BufferRight, Apart
<1>4. /\ Entries(r) \subseteq Entries(b.retiredStaging) \cup {e}
      /\ OfPool(r) \subseteq OfPool(b.retiredStaging) \cup {s} /\ Distinct(r)
  BY <1>1, <1>2, <1>3, RetireEntries
<1>5. d.retiredStaging = r /\ e.serial = y.serial /\ e.mtl = s
  OBVIOUS
<1> HIDE DEF r, e, s
<1>6. d.map.staging = None
  BY DEF Unmapped
<1>7. Apart(d)
  <2>1. None \notin OfPool(r)
    BY <1>2, <1>4 DEF BufferAssumption
  <2> QED BY <1>2, <1>3, <1>4, <1>5, <1>6, <2>1 DEF Apart
<1>8. Given(d, m)
  <2>1. \A t \in Entries(b.retired) \cup Entries(b.retiredStaging) : t.serial < n
    BY DEF BufferRight, Given
  <2>2. \A t \in Entries(d.retired) \cup Entries(d.retiredStaging) : t.serial < m
    BY <1>1, <1>2, <1>4, <1>5, <2>1
  <2>3. d.lastWrite <= d.lastUse /\ d.lastUse < m
    BY <1>1
  <2> QED BY <2>2, <2>3 DEF Given
<1>9. MappingRight(d)
  BY DEF MappingRight
<1>10. ~InPlace(d)
  BY DEF InPlace
<1>11. ASSUME NEW x \in P
       PROVE  Covers(d, x)
  <2>1. Covers(b, x) /\ x.serial <= y.serial
    BY <1>1 DEF BufferRight
  <2>2. ASSUME NEW t \in Entries(d.retired) \cup Entries(d.retiredStaging), Refers(x, t.mtl)
        PROVE  x.serial <= t.serial
    BY <1>4, <1>5, <2>1, <2>2 DEF Covers
  <2> QED BY <1>6, <1>10, <2>1, <2>2 DEF Covers
<1>12. Covers(d, y)
  <2>1. ASSUME NEW t \in Entries(d.retired) \cup Entries(d.retiredStaging), Refers(y, t.mtl)
        PROVE  y.serial <= t.serial
    <3>1. y.command.from = s /\ y.command.to = b.mtl
      BY DEF s
    <3>2. CASE t = e
      BY <1>1, <1>5, <3>2
    <3>3. CASE t # e
      <4>1. t.mtl \in OfPool(b.retired) \cup OfPool(b.retiredStaging)
        BY <1>4, <1>5, <3>3, InPool
      <4> QED BY <1>3, <2>1, <3>1, <4>1 DEF Refers
    <3> QED BY <3>2, <3>3
  <2> QED BY <1>1, <1>6, <1>10, <2>1 DEF Covers
<1> QED BY <1>7, <1>8, <1>9, <1>11, <1>12 DEF BufferRight

(* A command has run.                                                      *)
LEMMA RanCovered ==
  ASSUME NEW b, NEW n, NEW h, NEW f, BufferRight(Points, b, n), Runs(h, f)
  PROVE  BufferRight(Points', b, n)
<1>1. ASSUME NEW z \in Points'
      PROVE  Covers(b, z)
  <2>1. PICK x \in Points : z.command = x.command /\ z.serial = x.serial
    BY DEF Runs
  <2>2. Covers(b, x)
    BY DEF BufferRight
  <2> QED BY <2>1, <2>2 DEF Covers, Refers
<1> QED BY <1>1 DEF BufferRight

-----------------------------------------------------------------------------
(***************************************************************************)
(* What the buffer shows, after a step of the CPU.                         *)
(***************************************************************************)
Right ==
  /\ InOrder /\ BufferRight(Points, buffer, next)
  /\ ReadsFollow(Points) /\ ReadsFind(Points, content)
  /\ Shows(Points, buffer, content, value, spoiled)

LEMMA SamePoints ==
  ASSUME UNCHANGED <<stream, queue, next>>
  PROVE  Points' = Points /\ (InOrder => InOrder')
BY DEF Points, Pending, InOrder, Recording

LEMMA UsePast ==
  ASSUME TypeOK, Right
  PROVE  /\ Past(buffer.lastUse) => Free(buffer.mtl)
         /\ Past(buffer.lastUse) => Past(buffer.lastWrite)
         /\ Past(buffer.lastWrite) =>
              /\ \A x \in Points, p \in Parts : ~Writes(x, buffer.mtl, p)
              /\ Agrees(Parts \ Staged(buffer), value, content[buffer.mtl])
<1>1. /\ StreamTyped /\ buffer.lastUse \in Nat /\ buffer.lastWrite \in Nat
      /\ buffer.lastWrite <= buffer.lastUse /\ \A x \in Points : Covers(buffer, x)
      /\ \A x \in Points : x.serial \in Nat
  BY TypeOKIs, PointTyped DEF CoreTyped, TypeOK, Buffers, Right, BufferRight, Given, Point
<1>2. ASSUME Past(buffer.lastUse)
      PROVE  Free(buffer.mtl) /\ Past(buffer.lastWrite)
  <2>1. \A x \in Points : buffer.lastUse < x.serial
    BY <1>2 DEF Past
  <2>2. \A x \in Points : ~(x.serial <= buffer.lastUse) /\ buffer.lastWrite < x.serial
    BY <1>1, <2>1
  <2> QED BY <1>1, <2>2 DEF Past, Free, Covers
<1>3. ASSUME Past(buffer.lastWrite)
      PROVE  /\ \A x \in Points, p \in Parts : ~Writes(x, buffer.mtl, p)
             /\ Agrees(Parts \ Staged(buffer), value, content[buffer.mtl])
  <2>1. \A x \in Points : ~(x.serial <= buffer.lastWrite)
    BY <1>1, <1>3 DEF Past
  <2>2. \A x \in Points, p \in Parts : ~Writes(x, buffer.mtl, p)
    BY <1>1, <2>1 DEF Covers, Writes
  <2>3. WillHold(Points, buffer.mtl, content, Parts \ Staged(buffer), value)
    BY DEF Right, Shows
  <2>4. \A x \in Points, p \in Parts \ Staged(buffer) : ~Writes(x, buffer.mtl, p)
    BY <2>2
  <2>5. Agrees(Parts \ Staged(buffer), value, content[buffer.mtl])
    BY <2>3, <2>4, HoldsNow
  <2> QED BY <2>2, <2>5
<1> QED BY <1>2, <1>3

(* The CPU writes the storage the buffer then has, which no command uses.  *)
LEMMA CpuStep ==
  ASSUME Right, UNCHANGED <<stream, queue, next>>, BufferRight(Points, buffer', next),
         Free(buffer'.mtl), \A s \in Storages : s # buffer'.mtl => content'[s] = content[s],
         Agrees(Parts \ Staged(buffer'), value', content'[buffer'.mtl]),
         buffer'.map.staging # None =>
           Agrees(buffer'.map.range, value', content'[buffer'.map.staging]),
         ShadowShows(buffer', value', spoiled'), ScanShows(buffer', value', spoiled')
  PROVE  Right'
<1>1. Points' = Points /\ InOrder'
  BY SamePoints DEF Right
<1>2. ReadsFind(Points, content')
  <2>1. \A r \in Points, s \in Storages, p \in Parts : Needs(r, s, p) => content'[s][p] = content[s][p]
    BY DEF Needs, Free, Refers
  <2> QED BY <2>1, CpuReads DEF Right
<1>3. WillHold(Points, buffer'.mtl, content', Parts \ Staged(buffer'), value')
  <2>1. \A x \in Points, p \in Parts \ Staged(buffer') : ~Writes(x, buffer'.mtl, p)
    BY DEF Free, Refers, Writes
  <2> QED BY <2>1, HoldsNow
<1>4. Shows(Points, buffer', content', value', spoiled')
  BY <1>3 DEF Shows
<1> QED BY <1>1, <1>2, <1>4 DEF Right

(* The CPU writes nothing: what is known was known.                        *)
LEMMA QuietRight ==
  ASSUME Right, UNCHANGED <<stream, queue, next, content>>, BufferRight(Points, buffer', next),
         \A p \in Parts \ Staged(buffer') : value'[p] # Unknown =>
           buffer'.mtl = buffer.mtl /\ p \notin Staged(buffer) /\ value'[p] = value[p],
         buffer'.map.staging # None =>
           Agrees(buffer'.map.range, value', content[buffer'.map.staging]),
         ShadowShows(buffer', value', spoiled'), ScanShows(buffer', value', spoiled')
  PROVE  Right'
<1>1. Points' = Points /\ InOrder'
  BY SamePoints DEF Right
<1>2. WillHold(Points, buffer'.mtl, content, Parts \ Staged(buffer'), value')
  <2>1. CASE buffer'.mtl = buffer.mtl
    <3>1. WillHold(Points, buffer.mtl, content, Parts \ Staged(buffer), value)
      BY DEF Right, Shows
    <3> QED BY <2>1, <3>1, CpuHolds
  <2>2. CASE buffer'.mtl # buffer.mtl
    BY <2>2 DEF WillHold
  <2> QED BY <2>1, <2>2
<1>3. Shows(Points, buffer', content', value', spoiled')
  BY <1>2 DEF Shows
<1> QED BY <1>1, <1>3 DEF Right

-----------------------------------------------------------------------------
(***************************************************************************)
(* The calls, once they have waited.                                       *)
(***************************************************************************)
LEMMA RenamedIs ==
  ASSUME NEW b, Fits(b), NEW fresh, NEW keep \in BOOLEAN, NEW r, r = Renamed(b, fresh, keep)
  PROVE  /\ r.map = b.map /\ r.retiredStaging = b.retiredStaging /\ r.version = b.version + 1
         /\ r.scanVersion = b.scanVersion /\ r.shadow = b.shadow /\ r.scan = b.scan
         /\ r.shadowValid => b.shadowValid
         /\ fresh = None => /\ r.mtl = b.mtl /\ r.lastUse = b.lastUse /\ r.lastWrite = b.lastWrite
                            /\ r.retired = b.retired
         /\ fresh # None => /\ r.mtl = fresh /\ r.lastUse = 0 /\ r.lastWrite = 0
                            /\ r.shadowValid => keep
                            /\ r.retired \in {Without(b.retired, fresh),
                                              Retire(Without(b.retired, fresh), b.mtl, b.lastUse)}
<1>1. b \in Buffers /\ b.shadowValid \in BOOLEAN
  BY DEF Fits, Buffers
<1>2. CASE fresh = None
  BY <1>1, <1>2 DEF Renamed, Buffers
<1>3. CASE fresh # None
  <2> DEFINE pool == IF b.lastUse = 0 THEN Without(b.retired, fresh)
                     ELSE Retire(Without(b.retired, fresh), b.mtl, b.lastUse)
  <2>1. r = [b EXCEPT !.mtl = fresh, !.lastUse = 0, !.lastWrite = 0, !.version = @ + 1,
                      !.retired = pool, !.shadowValid = @ /\ keep]
    BY <1>3 DEF Renamed
  <2>2. pool \in {Without(b.retired, fresh), Retire(Without(b.retired, fresh), b.mtl, b.lastUse)}
    OBVIOUS
  <2> HIDE DEF pool
  <2>3. /\ r.map = b.map /\ r.retiredStaging = b.retiredStaging /\ r.version = b.version + 1
        /\ r.scanVersion = b.scanVersion /\ r.shadow = b.shadow /\ r.scan = b.scan
        /\ r.mtl = fresh /\ r.lastUse = 0 /\ r.lastWrite = 0 /\ r.retired = pool
    BY <1>1, <2>1 DEF Buffers
  <2>4. r.shadowValid = (b.shadowValid /\ keep)
    BY <1>1, <2>1 DEF Buffers
  <2> QED BY <1>3, <2>2, <2>3, <2>4
<1> QED BY <1>2, <1>3

(* Nothing but the shadow, or what was scanned, changes.                   *)
SameUse(b, d) ==
  /\ d.mtl = b.mtl /\ d.map = b.map /\ d.lastUse = b.lastUse /\ d.lastWrite = b.lastWrite
  /\ d.retired = b.retired /\ d.retiredStaging = b.retiredStaging

LEMMA ShadowWrittenIs ==
  ASSUME NEW b, Fits(b), NEW ps, NEW from, NEW r, r = ShadowWritten(b, ps, from)
  PROVE  /\ SameUse(b, r) /\ r.version = b.version /\ r.scanVersion = b.scanVersion
         /\ r.scan = b.scan /\ r.shadowValid = b.shadowValid
         /\ b.shadowValid => r.shadow = Merge(b.shadow, ps, from)
BY DEF ShadowWritten, Fits, Buffers, SameUse

LEMMA MarkAgrees ==
  ASSUME NEW qs \in SUBSET Parts, NEW v, NEW a, NEW ps, NEW n, Agrees(qs, v, a)
  PROVE  /\ Agrees(qs, Mark(v, ps, n), Mark(a, ps, n))
         /\ Agrees(qs, Mark(v, ps, n), Merge(a, ps, Mark(Undefined, ps, n)))
         /\ Agrees(qs, Mark(v, ps, Unknown), a)
BY DEF Agrees, Mark, Merge, Undefined

(* What a call found and took, once it has waited.                         *)
Ready(w) ==
  /\ TakenRight(w)
  /\ w.renames => ~Mapped /\ Past(RenameWaits(w.call, w.fresh))
  /\ ~w.renames => Past(IF w.call.name = "read" THEN buffer.lastWrite ELSE buffer.lastUse)

LEMMA RightTyped ==
  ASSUME TypeOK, Right
  PROVE  /\ Fits(buffer) /\ content \in [Storages -> Contents] /\ value \in Contents
         /\ StreamTyped /\ next \in Nat /\ next > 0 /\ Points \in SUBSET Point
         /\ buffer.mtl \in Storages /\ buffer.version \in Nat /\ buffer.scanVersion \in Nat
         /\ buffer.scanVersion <= buffer.version /\ buffer.shadowValid \in BOOLEAN
         /\ buffer.map.range \in SUBSET Parts /\ buffer.map.staging \in Storages \cup {None}
         /\ (InPlace(buffer) => ~buffer.shadowValid)
         /\ buffer.map.staging # buffer.mtl
<1>1. MemoryTyped /\ StreamTyped
  BY TypeOKIs DEF CoreTyped
<1>2. /\ buffer.mtl \in Storages /\ buffer.version \in Nat /\ buffer.scanVersion \in Nat
      /\ buffer.shadowValid \in BOOLEAN /\ buffer.map \in Mapping
  BY <1>1 DEF MemoryTyped, Fits, Buffers
<1>3. buffer.map.range \in SUBSET Parts /\ buffer.map.staging \in Storages \cup {None}
  BY <1>2 DEF Mapping
<1>4. /\ buffer.scanVersion <= buffer.version /\ (InPlace(buffer) => ~buffer.shadowValid)
      /\ buffer.map.staging # buffer.mtl
  BY DEF Right, BufferRight, Given, MappingRight, InPlace, Apart
<1>5. next \in Nat /\ next > 0
  BY <1>1 DEF StreamTyped, Right, InOrder
<1>6. Points \in SUBSET Point
  BY <1>1, PointTyped
<1> QED BY <1>1, <1>2, <1>3, <1>4, <1>5, <1>6 DEF MemoryTyped

LEMMA SubDataRight ==
  ASSUME BufferAssumption, TypeOK, Right, NEW w \in Wait, w.call.name = "subData", Ready(w),
         w.call.range \cap buffer.map.range = {}, SubDataRest(w)
  PROVE  Right' /\ UNCHANGED stream
<1> DEFINE ps    == w.call.range
           keep  == ps # Parts
           named == IF w.renames THEN Renamed(buffer, w.fresh, keep) ELSE buffer
           held  == IF w.renames THEN RenamedContent(w.fresh, keep, ps) ELSE content
           mark  == Mark(Undefined, ps, w.at)
           r     == ShadowWritten(named, ps, mark)
<1>1. /\ Fits(buffer) /\ content \in [Storages -> Contents] /\ value \in Contents
      /\ buffer.mtl \in Storages /\ buffer.version \in Nat /\ buffer.scanVersion \in Nat
      /\ buffer.scanVersion <= buffer.version /\ next \in Nat /\ next > 0
      /\ (InPlace(buffer) => ~buffer.shadowValid) /\ buffer.map.staging # buffer.mtl
      /\ buffer.map.staging \in Storages \cup {None}
  BY RightTyped
<1>2. w.fresh \in Storages \cup {None} /\ ps \in SUBSET Parts
  BY DEF Wait, Call
<1>3. /\ content' = [held EXCEPT ![named.mtl] = Mark(@, ps, w.at)]
      /\ buffer' = [r EXCEPT !.version = @ + 1]
      /\ value' = Mark(value, ps, w.at) /\ UNCHANGED <<stream, queue, next, spoiled>>
  BY DEF SubDataRest, NoCommands
<1>4. Fits(named) /\ keep \in BOOLEAN /\ mark \in Contents
  <2>1. mark \in Contents
    BY UndefinedTyped, MarkTyped DEF Wait
  <2> QED BY <1>1, <1>2, <2>1, RenamedFits
<1>5. /\ Shows(Points, buffer, content, value, spoiled) /\ BufferRight(Points, buffer, next)
  BY DEF Right
<1>6. /\ named.map = buffer.map /\ named.retiredStaging = buffer.retiredStaging
      /\ named.version \in {buffer.version, buffer.version + 1}
      /\ named.scanVersion = buffer.scanVersion /\ named.shadow = buffer.shadow
      /\ named.shadowValid => buffer.shadowValid
      /\ ~w.renames \/ w.fresh = None =>
           /\ named.mtl = buffer.mtl /\ named.lastUse = buffer.lastUse
           /\ named.lastWrite = buffer.lastWrite /\ named.retired = buffer.retired
      /\ w.renames /\ w.fresh # None =>
           /\ named.mtl = w.fresh /\ named.lastUse = 0 /\ named.lastWrite = 0
           /\ named.shadowValid => keep
           /\ named.retired \in {Without(buffer.retired, w.fresh),
                                 Retire(Without(buffer.retired, w.fresh), buffer.mtl, buffer.lastUse)}
  <2>1. CASE ~w.renames
    BY <2>1
  <2>2. CASE w.renames
    <3>1. named = Renamed(buffer, w.fresh, keep)
      BY <2>2
    <3> HIDE DEF named, keep
    <3> QED BY <1>1, <1>4, <2>2, <3>1, RenamedIs
  <2> QED BY <2>1, <2>2
<1> HIDE DEF named, mark
<1>9. /\ SameUse(named, r) /\ r.version = named.version /\ r.scanVersion = named.scanVersion
      /\ r.shadowValid = named.shadowValid /\ Fits(r)
      /\ named.shadowValid => r.shadow = Merge(named.shadow, ps, mark)
  BY <1>4, ShadowWrittenIs, ShadowWrittenFits
<1> HIDE DEF r
<1>10. /\ SameUse(named, buffer') /\ buffer'.version = named.version + 1
       /\ buffer'.scanVersion = buffer.scanVersion /\ buffer'.shadowValid = named.shadowValid
       /\ buffer'.shadow = r.shadow
  BY <1>3, <1>6, <1>9 DEF Fits, Buffers, SameUse
<1>11. /\ buffer'.map = buffer.map /\ buffer'.mtl = named.mtl
       /\ buffer'.scanVersion # buffer'.version /\ buffer'.scanVersion <= buffer'.version
       /\ Staged(buffer') = Staged(buffer)
  BY <1>1, <1>6, <1>10 DEF SameUse, Staged
<1>12. ShadowShows(buffer', value', spoiled') /\ ScanShows(buffer', value', spoiled')
  <2> SUFFICES ASSUME buffer'.shadowValid, "shadow" \notin spoiled'
               PROVE  Agrees(Parts \ Staged(buffer'), value', buffer'.shadow)
    BY <1>11 DEF ShadowShows, ScanShows
  <2>1. Agrees(Parts \ Staged(buffer), value, buffer.shadow)
    BY <1>3, <1>5, <1>6, <1>10 DEF Shows, ShadowShows
  <2>2. buffer'.shadow = Merge(buffer.shadow, ps, mark)
    BY <1>6, <1>9, <1>10
  <2>3. Parts \ Staged(buffer) \in SUBSET Parts
    OBVIOUS
  <2>4. Agrees(Parts \ Staged(buffer), Mark(value, ps, w.at), Merge(buffer.shadow, ps, mark))
    BY <2>1, <2>3, MarkAgrees DEF mark
  <2> QED BY <1>3, <1>11, <2>2, <2>4
<1>13. CASE ~w.renames \/ w.fresh = None
  <2>1. held = content /\ named.mtl = buffer.mtl
    BY <1>6, <1>13 DEF RenamedContent
  <2>2. Past(buffer.lastUse)
    BY <1>13 DEF Ready, RenameWaits
  <2>3. Free(buffer.mtl) /\ Agrees(Parts \ Staged(buffer), value, content[buffer.mtl])
    BY <2>2, UsePast
  <2> HIDE DEF held
  <2>4. /\ content'[buffer.mtl] = Mark(content[buffer.mtl], ps, w.at)
        /\ \A s \in Storages : s # buffer.mtl => content'[s] = content[s]
    BY <1>1, <1>3, <2>1
  <2>5. BufferRight(Points, buffer', next)
    <3>1. /\ buffer'.mtl = buffer.mtl /\ buffer'.lastUse = buffer.lastUse
          /\ buffer'.lastWrite = buffer.lastWrite /\ buffer'.retired = buffer.retired
          /\ buffer'.retiredStaging = buffer.retiredStaging
      BY <1>6, <1>10, <1>13 DEF SameUse
    <3>2. InPlace(buffer) => ~buffer'.shadowValid
      BY <1>1, <1>6, <1>10
    <3> QED BY <1>1, <1>5, <1>11, <3>1, <3>2, SameStorage
  <2>6. Agrees(Parts \ Staged(buffer'), value', content'[buffer'.mtl])
    <3>1. Parts \ Staged(buffer) \in SUBSET Parts
      OBVIOUS
    <3>2. Agrees(Parts \ Staged(buffer), Mark(value, ps, w.at), Mark(content[buffer.mtl], ps, w.at))
      BY <2>3, <3>1, MarkAgrees
    <3> QED BY <1>3, <1>11, <2>1, <2>4, <3>2
  <2>7. ASSUME buffer'.map.staging # None
        PROVE  Agrees(buffer'.map.range, value', content'[buffer'.map.staging])
    <3>1. Agrees(buffer.map.range, value, content[buffer.map.staging])
      BY <1>5, <1>11, <2>7 DEF Shows
    <3>2. content'[buffer.map.staging] = content[buffer.map.staging]
      BY <1>1, <1>11, <2>4, <2>7
    <3>3. \A p \in buffer.map.range : value'[p] = value[p] \/ p \notin Parts
      BY <1>3 DEF Mark
    <3> QED BY <1>11, <3>1, <3>2, <3>3, RightTyped DEF Agrees
  <2> QED BY <1>3, <1>11, <1>12, <2>1, <2>3, <2>4, <2>5, <2>6, <2>7, CpuStep
<1>14. CASE w.renames /\ w.fresh # None
  <2>1. /\ buffer.map = Unmapped /\ Free(w.fresh) /\ w.fresh \in Storages
        /\ w.fresh \notin OfPool(buffer.retiredStaging) /\ w.fresh # buffer.mtl
        /\ keep => Past(buffer.lastWrite)
    BY <1>2, <1>14 DEF Ready, TakenRight, Mapped, RenameWaits
  <2>2. Staged(buffer) = {} /\ buffer.map.staging = None
    BY <2>1 DEF Staged, Unmapped
  <2>3. /\ \A s \in Storages : s # w.fresh => held[s] = content[s]
        /\ keep => held[w.fresh] = Merge(content[buffer.mtl], ps, content[w.fresh])
        /\ held \in [Storages -> Contents]
    <3>1. Merge(content[buffer.mtl], ps, content[w.fresh]) \in Contents
      BY <1>1, <2>1, MergeTyped
    <3> QED BY <1>1, <1>14, <2>1, <3>1 DEF RenamedContent
  <2> HIDE DEF held
  <2>4. /\ content'[w.fresh] = Mark(held[w.fresh], ps, w.at)
        /\ \A s \in Storages : s # w.fresh => content'[s] = content[s]
    BY <1>3, <1>6, <1>14, <2>1, <2>3
  <2>5. BufferRight(Points, buffer', next)
    <3>1. /\ buffer'.mtl = w.fresh /\ buffer'.lastUse = 0 /\ buffer'.lastWrite = 0
          /\ buffer'.retired \in {Without(buffer.retired, w.fresh),
                                  Retire(Without(buffer.retired, w.fresh), buffer.mtl, buffer.lastUse)}
          /\ buffer'.retiredStaging = buffer.retiredStaging /\ buffer'.map = Unmapped
      BY <1>6, <1>10, <1>14, <2>1 DEF SameUse
    <3>2. \A x \in Points : ~Refers(x, w.fresh)
      BY <2>1 DEF Free
    <3> QED BY <1>1, <1>5, <1>11, <2>1, <3>1, <3>2, OtherStorage
  <2>6. Agrees(Parts, value', content'[w.fresh])
    <3> SUFFICES ASSUME NEW p \in Parts
                 PROVE  value'[p] \in {Unknown, content'[w.fresh][p]}
      BY DEF Agrees
    <3>1. CASE p \in ps
      BY <1>3, <2>4, <3>1 DEF Mark
    <3>2. CASE p \notin ps
      <4>1. keep
        BY <3>2
      <4>2. Agrees(Parts, value, content[buffer.mtl])
        BY <2>1, <2>2, <4>1, UsePast
      <4>3. value'[p] = value[p] /\ content'[w.fresh][p] = held[w.fresh][p]
        BY <1>3, <2>4, <3>2 DEF Mark
      <4>4. held[w.fresh][p] = content[buffer.mtl][p]
        BY <2>3, <3>2, <4>1 DEF Merge
      <4> QED BY <4>2, <4>3, <4>4 DEF Agrees
    <3> QED BY <3>1, <3>2
  <2>7. buffer'.mtl = w.fresh /\ Staged(buffer') = {} /\ buffer'.map.staging = None
    BY <1>6, <1>11, <1>14, <2>2
  <2>8. Agrees(Parts \ Staged(buffer'), value', content'[buffer'.mtl])
    BY <2>6, <2>7
  <2> QED BY <1>3, <1>11, <1>12, <2>1, <2>4, <2>5, <2>7, <2>8, CpuStep
<1> QED BY <1>3, <1>13, <1>14

LEMMA InvalidateRight ==
  ASSUME BufferAssumption, TypeOK, Right, NEW w \in Wait, w.call.name = "invalidate", Ready(w),
         w.renames, InvalidateRest(w)
  PROVE  Right' /\ UNCHANGED stream
<1>1. /\ Fits(buffer) /\ buffer.version \in Nat /\ buffer.scanVersion \in Nat
      /\ buffer.scanVersion <= buffer.version /\ next \in Nat /\ next > 0
  BY RightTyped
<1>2. /\ buffer' = Renamed(buffer, w.fresh, FALSE) /\ value' = Undefined
      /\ UNCHANGED <<content, stream, queue, next>>
  BY DEF InvalidateRest, NoCommands
<1> DEFINE r == Renamed(buffer, w.fresh, FALSE)
<1>8. /\ r.map = buffer.map /\ r.retiredStaging = buffer.retiredStaging
      /\ r.version = buffer.version + 1 /\ r.scanVersion = buffer.scanVersion
      /\ r.shadowValid => buffer.shadowValid
      /\ w.fresh = None =>
           /\ r.mtl = buffer.mtl /\ r.lastUse = buffer.lastUse
           /\ r.lastWrite = buffer.lastWrite /\ r.retired = buffer.retired
      /\ w.fresh # None =>
           /\ r.mtl = w.fresh /\ r.lastUse = 0 /\ r.lastWrite = 0
           /\ r.retired \in {Without(buffer.retired, w.fresh),
                             Retire(Without(buffer.retired, w.fresh), buffer.mtl, buffer.lastUse)}
  <2> HIDE DEF r
  <2>1. \E keep \in BOOLEAN : r = Renamed(buffer, w.fresh, keep)
    BY DEF r
  <2>2. PICK keep \in BOOLEAN : r = Renamed(buffer, w.fresh, keep)
    BY <2>1
  <2> QED BY <1>1, <2>2, RenamedIs
<1>9. buffer' = r
  BY <1>2
<1> HIDE DEF r
<1>3. /\ buffer.map = Unmapped /\ buffer'.map = Unmapped
      /\ buffer'.retiredStaging = buffer.retiredStaging
      /\ buffer'.scanVersion <= buffer'.version
  BY <1>1, <1>8, <1>9 DEF Ready, Mapped
<1>4. BufferRight(Points, buffer', next)
  <2>1. BufferRight(Points, buffer, next) /\ (InPlace(buffer) => ~buffer'.shadowValid)
    BY <1>3 DEF Right, InPlace
  <2>2. CASE w.fresh = None
    <3>1. /\ buffer'.mtl = buffer.mtl /\ buffer'.lastUse = buffer.lastUse
          /\ buffer'.lastWrite = buffer.lastWrite /\ buffer'.retired = buffer.retired
      BY <1>8, <1>9, <2>2
    <3> QED BY <1>1, <1>3, <2>1, <3>1, SameStorage
  <2>3. CASE w.fresh # None
    <3>1. /\ buffer'.mtl = w.fresh /\ buffer'.lastUse = 0 /\ buffer'.lastWrite = 0
          /\ buffer'.retired \in {Without(buffer.retired, w.fresh),
                                  Retire(Without(buffer.retired, w.fresh), buffer.mtl, buffer.lastUse)}
      BY <1>8, <1>9, <2>3
    <3>2. /\ w.fresh \in Storages /\ \A x \in Points : ~Refers(x, w.fresh)
          /\ w.fresh \notin OfPool(buffer.retiredStaging) /\ w.fresh # buffer.mtl
      BY <2>3 DEF Wait, Ready, TakenRight, Free
    <3> QED BY <1>1, <1>3, <2>1, <3>1, <3>2, OtherStorage
  <2> QED BY <2>2, <2>3
<1>5. Staged(buffer') = {} /\ buffer'.map.staging = None
  BY <1>3 DEF Staged, Unmapped
<1>6. \A p \in Parts : value'[p] = Unknown
  BY <1>2 DEF Undefined
<1>7. ShadowShows(buffer', value', spoiled') /\ ScanShows(buffer', value', spoiled')
  BY <1>6 DEF Agrees, ShadowShows, ScanShows
<1> QED BY <1>2, <1>4, <1>5, <1>6, <1>7, QuietRight

LEMMA MapRight ==
  ASSUME BufferAssumption, TypeOK, Right, NEW w \in Wait, w.call.name \in Maps, Ready(w), ~Mapped,
         w.renames => w.call.name \notin {"read", "write"}, MapRest(w)
  PROVE  Right' /\ UNCHANGED stream
<1> DEFINE name    == w.call.name
           keep    == name = "invalidateRange"
           range   == w.call.range
           dropped == IF name = "invalidateBuffer" THEN Parts ELSE IF keep THEN range ELSE {}
           named   == IF w.renames THEN Renamed(buffer, w.fresh, keep) ELSE buffer
           map     == [range |-> range, writes |-> name # "read",
                       pointer |-> named.mtl, staging |-> None]
<1>1. /\ Fits(buffer) /\ content \in [Storages -> Contents] /\ value \in Contents
      /\ buffer.mtl \in Storages /\ buffer.version \in Nat /\ buffer.scanVersion \in Nat
      /\ buffer.scanVersion <= buffer.version /\ next \in Nat /\ next > 0
      /\ BufferRight(Points, buffer, next) /\ Shows(Points, buffer, content, value, spoiled)
  BY RightTyped DEF Right
<1>2. w.fresh \in Storages \cup {None} /\ range \in SUBSET Parts /\ keep \in BOOLEAN
      /\ name \in {"read", "write", "invalidateRange", "invalidateBuffer"}
  BY DEF Wait, Call, Maps
<1>3. /\ content' = IF w.renames THEN RenamedContent(w.fresh, keep, range) ELSE content
      /\ buffer' = [named EXCEPT !.map = map, !.shadowValid = @ /\ name = "read"]
      /\ value' = Mark(value, dropped, Unknown) /\ UNCHANGED <<stream, queue, next, spoiled>>
  BY DEF MapRest, NoCommands, MappedMeanwhile
<1>4. Fits(named)
  BY <1>1, <1>2, RenamedFits
<1>5. /\ named.retiredStaging = buffer.retiredStaging
      /\ named.version \in {buffer.version, buffer.version + 1}
      /\ named.scanVersion = buffer.scanVersion /\ named.shadow = buffer.shadow
      /\ named.scan = buffer.scan /\ (~w.renames => named.version = buffer.version)
      /\ named.shadowValid => buffer.shadowValid
      /\ ~w.renames \/ w.fresh = None =>
           /\ named.mtl = buffer.mtl /\ named.lastUse = buffer.lastUse
           /\ named.lastWrite = buffer.lastWrite /\ named.retired = buffer.retired
      /\ w.renames /\ w.fresh # None =>
           /\ named.mtl = w.fresh /\ named.lastUse = 0 /\ named.lastWrite = 0
           /\ named.retired \in {Without(buffer.retired, w.fresh),
                                 Retire(Without(buffer.retired, w.fresh), buffer.mtl, buffer.lastUse)}
  <2>1. CASE ~w.renames
    BY <2>1
  <2>2. CASE w.renames
    <3>1. named = Renamed(buffer, w.fresh, keep)
      BY <2>2
    <3> HIDE DEF named, keep
    <3> QED BY <1>1, <1>2, <2>2, <3>1, RenamedIs
  <2> QED BY <2>1, <2>2
<1>6. map.range = range /\ map.staging = None /\ map.pointer = named.mtl /\ map.writes = (name # "read")
      /\ map # Unmapped
  <2>1. map.pointer # Unmapped.pointer
    BY <1>4, NoneApart DEF Unmapped
  <2> QED BY <2>1
<1> HIDE DEF named, map
<1>7. /\ buffer'.map = map /\ buffer'.mtl = named.mtl /\ buffer'.lastUse = named.lastUse
      /\ buffer'.lastWrite = named.lastWrite /\ buffer'.retired = named.retired
      /\ buffer'.retiredStaging = buffer.retiredStaging /\ buffer'.version = named.version
      /\ buffer'.scanVersion = named.scanVersion /\ buffer'.shadow = buffer.shadow
      /\ buffer'.scan = buffer.scan
      /\ buffer'.shadowValid => buffer.shadowValid /\ name = "read"
  BY <1>3, <1>4, <1>5 DEF Fits, Buffers
<1>8. /\ buffer.map = Unmapped /\ Staged(buffer) = {} /\ Staged(buffer') = {}
      /\ buffer'.map.staging = None /\ buffer'.map # Unmapped
      /\ buffer'.scanVersion <= buffer'.version
      /\ buffer'.map.writes => ~buffer'.shadowValid
  <2>1. buffer.map = Unmapped /\ Staged(buffer) = {}
    BY DEF Mapped, Staged, Unmapped
  <2>2. Staged(buffer') = {} /\ buffer'.map.staging = None /\ buffer'.map # Unmapped
    BY <1>6, <1>7 DEF Staged
  <2>3. buffer'.scanVersion <= buffer'.version
    BY <1>1, <1>5, <1>7
  <2>4. buffer'.map.writes => ~buffer'.shadowValid
    BY <1>6, <1>7
  <2> QED BY <2>1, <2>2, <2>3, <2>4
<1>9. \A p \in Parts : value'[p] # Unknown => value'[p] = value[p] /\ p \notin dropped
  BY <1>3 DEF Mark
<1>10. ShadowShows(buffer', value', spoiled') /\ ScanShows(buffer', value', spoiled')
  <2>1. ShadowShows(buffer', value', spoiled')
    <3>1. buffer.shadowValid /\ "shadow" \notin spoiled => Agrees(Parts, value, buffer.shadow)
      BY <1>1, <1>8 DEF Shows, ShadowShows
    <3> QED BY <1>3, <1>7, <1>8, <1>9, <3>1 DEF Agrees, ShadowShows
  <2>2. CASE name = "read"
    <3>1. buffer'.scanVersion = buffer.scanVersion /\ buffer'.version = buffer.version
      BY <1>5, <1>7, <2>2
    <3>2. buffer.scanVersion = buffer.version /\ "scan" \notin spoiled
            => Agrees(Parts, value, buffer.scan)
      BY <1>1, <1>8 DEF Shows, ScanShows, InPlace
    <3> QED BY <1>3, <1>7, <1>8, <1>9, <2>1, <3>1, <3>2 DEF Agrees, ScanShows
  <2>3. CASE name # "read"
    <3>1. InPlace(buffer')
      BY <1>6, <1>7, <1>8, <2>3 DEF InPlace
    <3> QED BY <2>1, <3>1 DEF ScanShows
  <2> QED BY <2>2, <2>3
<1>11. CASE ~w.renames \/ w.fresh = None
  <2>1. content' = content /\ buffer'.mtl = buffer.mtl
    BY <1>3, <1>5, <1>7, <1>11 DEF RenamedContent
  <2>2. name = "read" \/ \A x \in Points : ~Refers(x, buffer.mtl)
    <3>1. w.renames => Past(buffer.lastUse)
      BY <1>11 DEF Ready, RenameWaits
    <3>2. ~w.renames /\ name # "read" => Past(buffer.lastUse)
      BY DEF Ready
    <3> QED BY <1>2, <3>1, <3>2, UsePast DEF Free
  <2>3. BufferRight(Points, buffer', next)
    <3>1. /\ buffer'.lastUse = buffer.lastUse /\ buffer'.lastWrite = buffer.lastWrite
          /\ buffer'.retired = buffer.retired /\ buffer'.map.pointer = buffer.mtl
          /\ buffer'.map.writes = (name # "read")
      BY <1>5, <1>6, <1>7, <1>11
    <3>2. CASE \A x \in Points : ~Refers(x, buffer.mtl)
      BY <1>1, <1>7, <1>8, <2>1, <3>1, <3>2, SameStorage
    <3>3. CASE name = "read"
      <4>1. Apart(buffer') /\ Given(buffer', next)
        <5>1. Apart(buffer) /\ Given(buffer, next) /\ buffer.mtl # None
              /\ None \notin OfPool(buffer.retired) /\ None \notin OfPool(buffer.retiredStaging)
          BY <1>1, NoneApart DEF BufferRight
        <5> QED BY <1>7, <1>8, <2>1, <3>1, <5>1 DEF Apart, Given
      <4>2. ~InPlace(buffer')
        BY <3>1, <3>3 DEF InPlace
      <4>3. MappingRight(buffer')
        BY <1>8, <2>1, <3>1, <4>2 DEF MappingRight
      <4>4. \A x \in Points : Covers(buffer', x)
        BY <1>1, <1>7, <1>8, <2>1, <3>1, <4>2 DEF BufferRight, Covers
      <4> QED BY <4>1, <4>3, <4>4 DEF BufferRight
    <3> QED BY <2>2, <3>2, <3>3
  <2> QED BY <1>3, <1>8, <1>9, <1>10, <2>1, <2>3, QuietRight
<1>12. CASE w.renames /\ w.fresh # None
  <2>1. /\ Free(w.fresh) /\ w.fresh \in Storages
        /\ w.fresh \notin OfPool(buffer.retiredStaging) /\ w.fresh # buffer.mtl
        /\ keep => Past(buffer.lastWrite)
    BY <1>2, <1>12 DEF Ready, TakenRight, RenameWaits
  <2>2. buffer'.mtl = w.fresh
    BY <1>5, <1>7, <1>12
  <2>3. BufferRight(Points, buffer', next)
    <3>1. /\ buffer'.lastUse = 0 /\ buffer'.lastWrite = 0 /\ buffer'.map.pointer = w.fresh
          /\ buffer'.retired \in {Without(buffer.retired, w.fresh),
                                  Retire(Without(buffer.retired, w.fresh), buffer.mtl, buffer.lastUse)}
      BY <1>5, <1>6, <1>7, <1>12
    <3>2. \A x \in Points : ~Refers(x, w.fresh)
      BY <2>1 DEF Free
    <3> QED BY <1>1, <1>7, <1>8, <2>1, <2>2, <3>1, <3>2, OtherStorage
  <2>4. /\ \A s \in Storages : s # w.fresh => content'[s] = content[s]
        /\ keep => content'[w.fresh] = Merge(content[buffer.mtl], range, content[w.fresh])
    <3>1. Merge(content[buffer.mtl], range, content[w.fresh]) \in Contents
      BY <1>1, <2>1, MergeTyped
    <3> QED BY <1>1, <1>3, <1>12, <2>1, <3>1 DEF RenamedContent
  <2>5. Agrees(Parts, value', content'[w.fresh])
    <3> SUFFICES ASSUME NEW p \in Parts, value'[p] # Unknown
                 PROVE  value'[p] = content'[w.fresh][p]
      BY DEF Agrees
    <3>1. value'[p] = value[p] /\ p \notin dropped
      BY <1>9
    <3>2. keep /\ p \notin range
      BY <1>2, <1>12, <3>1
    <3>3. Agrees(Parts, value, content[buffer.mtl])
      BY <1>8, <2>1, <3>2, UsePast
    <3>4. content'[w.fresh][p] = content[buffer.mtl][p]
      BY <2>4, <3>2 DEF Merge
    <3> QED BY <3>1, <3>3, <3>4 DEF Agrees
  <2> QED BY <1>3, <1>8, <1>10, <2>1, <2>2, <2>3, <2>4, <2>5, CpuStep
<1> QED BY <1>3, <1>11, <1>12

(* A command on the buffer's storage is recorded, and the contents, the    *)
(* shadow and what was scanned follow.                                     *)
LEMMA RecordedRight ==
  ASSUME BufferAssumption, TypeOK, Right, NEW k \in Command, k.use \in {"read", "write"},
         k.from = buffer.mtl, k.to = buffer.mtl, k.parts \cap buffer.map.range = {},
         k.use = "read" => k.values = value /\ k.parts = Parts /\ ~Mapped,
         NEW s \in Nat, Adds(k, s), s = next' - 1, next <= next', next' \in Nat, InOrder',
         content' = content,
         buffer'.mtl = buffer.mtl, buffer'.map = buffer.map, buffer'.retired = buffer.retired,
         buffer'.retiredStaging = buffer.retiredStaging, buffer'.lastUse = s,
         buffer'.lastWrite = s \/ (buffer'.lastWrite = buffer.lastWrite /\ k.use = "read"),
         buffer'.scanVersion <= buffer'.version, InPlace(buffer) => ~buffer'.shadowValid,
         \A p \in Parts : value'[p] = IF k.use = "write" /\ p \in k.parts THEN k.values[p]
                                      ELSE value[p],
         ShadowShows(buffer', value', spoiled'), ScanShows(buffer', value', spoiled')
  PROVE  Right'
<1>1. /\ Fits(buffer) /\ next \in Nat /\ Points \in SUBSET Point
      /\ buffer.map.range \in SUBSET Parts
  BY RightTyped
<1>2. /\ BufferRight(Points, buffer, next) /\ ReadsFollow(Points) /\ ReadsFind(Points, content)
      /\ Shows(Points, buffer, content, value, spoiled)
  BY DEF Right
<1>3. PICK n \in Nat : LET y == [serial |-> s, at |-> n, command |-> k] IN
        Points' = Points \cup {y} /\ \A x \in Points : Before(x, y)
  BY DEF Adds
<1> DEFINE y == [serial |-> s, at |-> n, command |-> k]
<1>4. /\ y \in Point /\ y.serial = s /\ y.command = k
      /\ Points' = Points \cup {y} /\ \A x \in Points : Before(x, y)
  BY <1>3 DEF Point
<1> HIDE DEF y
<1>5. k.use = "read" => buffer.map = Unmapped /\ Staged(buffer) = {} /\ ~InPlace(buffer)
  BY DEF Mapped, Staged, Unmapped, InPlace
<1>6. BufferRight(Points', buffer', next')
  <2>1. InPlace(buffer) => y.command.use = "write" /\ y.command.parts \cap buffer.map.range = {}
    BY <1>4, <1>5
  <2>2. y.serial = next' - 1 /\ y.command.from = buffer.mtl /\ y.command.to = buffer.mtl
    BY <1>4
  <2>3. buffer'.lastUse = y.serial
        /\ (buffer'.lastWrite = y.serial
              \/ (buffer'.lastWrite = buffer.lastWrite /\ y.command.use = "read"))
    BY <1>4
  <2>4. BufferRight(Points \cup {y}, buffer', next')
    BY <1>1, <1>2, <1>4, <2>1, <2>2, <2>3, GpuUses
  <2> QED BY <1>4, <2>4
<1>7. ReadsFollow(Points') /\ ReadsFind(Points', content)
  <2>1. y.command.use # "write" =>
          WillHold(Points, y.command.from, content, y.command.parts, y.command.values)
    <3> SUFFICES ASSUME y.command.use # "write"
                 PROVE  WillHold(Points, buffer.mtl, content, Parts, value)
      BY <1>4
    <3>1. Parts \ Staged(buffer) = Parts
      BY <1>4, <1>5
    <3> QED BY <1>2, <3>1 DEF Shows
  <2>2. ReadsFollow(Points \cup {y}) /\ ReadsFind(Points \cup {y}, content)
    BY <1>1, <1>2, <1>4, <2>1, LastReads
  <2> QED BY <1>4, <2>2
<1>8. WillHold(Points', buffer.mtl, content, Parts \ Staged(buffer), value')
  <2>1. WillHold(Points, buffer.mtl, content, Parts \ Staged(buffer), value)
    BY <1>2 DEF Shows
  <2>2. ASSUME NEW p \in Parts \ Staged(buffer), value'[p] # Unknown
        PROVE  \/ Writes(y, buffer.mtl, p) /\ y.command.values[p] = value'[p]
               \/ /\ ~Writes(y, buffer.mtl, p) /\ p \in Parts \ Staged(buffer)
                  /\ value[p] = value'[p]
    BY <1>4 DEF Writes
  <2>3. WillHold(Points \cup {y}, buffer.mtl, content, Parts \ Staged(buffer), value')
    BY <1>1, <1>4, <2>1, <2>2, LastHolds
  <2> QED BY <1>4, <2>3
<1>9. Shows(Points', buffer', content', value', spoiled')
  <2>1. buffer.map.staging # None => Agrees(buffer.map.range, value', content[buffer.map.staging])
    <3>1. \A p \in buffer.map.range : value'[p] = value[p]
      BY <1>1
    <3> QED BY <1>2, <3>1 DEF Shows, Agrees
  <2>2. Staged(buffer') = Staged(buffer)
    BY DEF Staged
  <2> QED BY <1>8, <2>1, <2>2 DEF Shows
<1> QED BY <1>6, <1>7, <1>9 DEF Right

LEMMA DrawRight ==
  ASSUME BufferAssumption, TypeOK, Right, NEW c \in Contexts, Alone(c), NEW waited \in BOOLEAN,
         ~Mapped, Scanned \/ (~waited /\ buffer.shadowValid) \/ Past(buffer.lastWrite),
         DrawRest(c, waited)
  PROVE  Right' /\ \A d \in Contexts \ {c} : stream'[d].serial = 0
<1> DEFINE started == IF waited THEN [buffer EXCEPT !.shadow = content[buffer.mtl],
                                                    !.shadowValid = TRUE] ELSE buffer
           scanned == IF Scanned THEN buffer
                      ELSE [started EXCEPT !.scanVersion = buffer.version,
                              !.scan = IF started.shadowValid THEN started.shadow
                                       ELSE content[buffer.mtl]]
           k       == [use |-> "read", from |-> buffer.mtl, to |-> buffer.mtl, parts |-> Parts,
                       values |-> value]
           s       == stream'[c].serial
           stale   == IF waited /\ ~Scanned THEN spoiled \ {"shadow"} ELSE spoiled
<1>1. /\ Fits(buffer) /\ content \in [Storages -> Contents] /\ value \in Contents
      /\ buffer.mtl \in Storages /\ StreamTyped /\ next \in Nat /\ buffer.version \in Nat
      /\ buffer.scanVersion <= buffer.version
  BY RightTyped
<1>2. Record(c, k) /\ buffer' = [scanned EXCEPT !.lastUse = s] /\ UNCHANGED <<content, value>>
      /\ spoiled' = IF Scanned THEN spoiled
                    ELSE IF started.shadowValid /\ "shadow" \in stale THEN stale \cup {"scan"}
                    ELSE stale \ {"scan"}
  BY DEF DrawRest
<1>3. k \in Command
  BY <1>1 DEF Command
<1>4. StreamTyped' /\ s \in Nat
  BY <1>1, <1>2, <1>3, RecordTyped
<1>5. /\ InOrder' /\ Adds(k, s) /\ s = next' - 1 /\ next <= next'
      /\ \A d \in Contexts \ {c} : stream'[d].serial = 0
  <2> HIDE DEF k
  <2> QED BY <1>1, <1>2, <1>3, Records DEF Right
<1> HIDE DEF s
<1>6. /\ started \in Buffers /\ SameUse(buffer, started) /\ started.version = buffer.version
      /\ IF waited THEN started.shadowValid /\ started.shadow = content[buffer.mtl]
         ELSE started.shadowValid = buffer.shadowValid /\ started.shadow = buffer.shadow
  BY <1>1 DEF Fits, Buffers, SameUse
<1>7. /\ scanned \in Buffers /\ SameUse(buffer, scanned) /\ scanned.version = buffer.version
      /\ IF Scanned THEN /\ scanned.shadowValid = buffer.shadowValid
                         /\ scanned.shadow = buffer.shadow
                         /\ scanned.scanVersion = buffer.scanVersion /\ scanned.scan = buffer.scan
         ELSE /\ scanned.shadowValid = started.shadowValid /\ scanned.shadow = started.shadow
              /\ scanned.scanVersion = buffer.version
              /\ scanned.scan = IF scanned.shadowValid THEN scanned.shadow
                                ELSE content[buffer.mtl]
  <2> HIDE DEF started
  <2>1. CASE Scanned
    BY <1>1, <2>1 DEF Fits, SameUse
  <2>2. CASE ~Scanned
    <3> DEFINE scan == IF started.shadowValid THEN started.shadow ELSE content[buffer.mtl]
    <3>1. scan \in Contents
      BY <1>1, <1>6 DEF Buffers
    <3>2. scanned = [started EXCEPT !.scanVersion = buffer.version, !.scan = scan]
      BY <2>2
    <3> HIDE DEF scan, scanned
    <3>3. scanned \in Buffers /\ SameUse(buffer, scanned) /\ scanned.version = buffer.version
          /\ scanned.shadowValid = started.shadowValid /\ scanned.shadow = started.shadow
          /\ scanned.scanVersion = buffer.version /\ scanned.scan = scan
      BY <1>1, <1>6, <3>1, <3>2 DEF Buffers, SameUse
    <3> QED BY <2>2, <3>3 DEF scan
  <2> QED BY <2>1, <2>2
<1> HIDE DEF started, scanned
<1>8. /\ buffer'.mtl = buffer.mtl /\ buffer'.map = buffer.map /\ buffer'.retired = buffer.retired
      /\ buffer'.retiredStaging = buffer.retiredStaging /\ buffer'.lastUse = s
      /\ buffer'.lastWrite = buffer.lastWrite /\ buffer'.version = buffer.version
      /\ buffer'.shadowValid = scanned.shadowValid /\ buffer'.shadow = scanned.shadow
      /\ buffer'.scanVersion = scanned.scanVersion /\ buffer'.scan = scanned.scan
  BY <1>2, <1>7 DEF Buffers, SameUse
<1>9. /\ buffer.map.range = {} /\ Staged(buffer) = {} /\ ~InPlace(buffer)
      /\ buffer.shadowValid /\ "shadow" \notin spoiled => Agrees(Parts, value, buffer.shadow)
      /\ Scanned /\ "scan" \notin spoiled => Agrees(Parts, value, buffer.scan)
      /\ Past(buffer.lastWrite) => Agrees(Parts, value, content[buffer.mtl])
  <2>1. buffer.map = Unmapped /\ buffer.map.range = {} /\ Staged(buffer) = {} /\ ~InPlace(buffer)
    BY DEF Mapped, Unmapped, Staged, InPlace
  <2>2. Past(buffer.lastWrite) => Agrees(Parts, value, content[buffer.mtl])
    BY <2>1, UsePast
  <2> QED BY <2>1, <2>2 DEF Right, Shows, ShadowShows, ScanShows, Scanned
<1>10. buffer'.shadowValid /\ "shadow" \notin spoiled' => Agrees(Parts, value', buffer'.shadow)
  BY <1>2, <1>6, <1>7, <1>8, <1>9
<1>11. buffer'.scanVersion = buffer'.version /\ "scan" \notin spoiled'
         => Agrees(Parts, value', buffer'.scan)
  <2>1. CASE Scanned
    BY <1>2, <1>7, <1>8, <1>9, <2>1
  <2>2. CASE ~Scanned
    <3>1. "scan" \notin spoiled' /\ buffer'.shadowValid => "shadow" \notin spoiled'
      BY <1>2, <1>7, <1>8, <2>2
    <3> QED BY <1>2, <1>6, <1>7, <1>8, <1>9, <1>10, <2>2, <3>1
  <2> QED BY <2>1, <2>2
<1>12. k.use = "read" /\ k.from = buffer.mtl /\ k.to = buffer.mtl /\ k.parts = Parts /\ k.values = value
  OBVIOUS
<1> HIDE DEF k
<1>13. buffer'.scanVersion <= buffer'.version
  BY <1>1, <1>7, <1>8
<1>14. next' \in Nat
  BY <1>4 DEF StreamTyped
<1>15. k.parts \cap buffer.map.range = {}
  BY <1>9
<1>16. ShadowShows(buffer', value', spoiled') /\ ScanShows(buffer', value', spoiled')
  BY <1>8, <1>9, <1>10, <1>11 DEF ShadowShows, ScanShows, Staged
<1>17. Right'
  BY <1>2, <1>3, <1>4, <1>5, <1>8, <1>9, <1>12, <1>13, <1>14, <1>15, <1>16, RecordedRight
<1> QED BY <1>5, <1>17

-----------------------------------------------------------------------------
(***************************************************************************)
(* The calls that are one step.                                            *)
(***************************************************************************)
LEMMA CallAlone ==
  ASSUME InTurn, NEW c \in Contexts, CanCall(c)
  PROVE  /\ Alone(c) /\ waiting[c] = None
         /\ waiting' = waiting /\ (\A d \in Contexts \ {c} : stream'[d].serial = 0)
              => Turn' /\ WaitsRight'
BY DEF CanCall, Alone, Turn, WaitsRight

LEMMA GpuWrittenIs ==
  ASSUME NEW b, Fits(b), NEW s, NEW r, r = GpuWritten(b, s)
  PROVE  /\ r.mtl = b.mtl /\ r.map = b.map /\ r.retired = b.retired
         /\ r.retiredStaging = b.retiredStaging /\ r.lastUse = s /\ r.lastWrite = s
         /\ r.version = b.version + 1 /\ r.shadowValid = b.shadowValid /\ r.shadow = b.shadow
         /\ r.scanVersion = b.scanVersion /\ r.scan = b.scan
BY DEF Fits, Buffers, GpuWritten

(* The GPU writes parts ps of the buffer, of which b is the new shadow.    *)
LEMMA GpuWriteRight ==
  ASSUME BufferAssumption, TypeOK, Right, NEW c \in Contexts, Alone(c), NEW ps \in SUBSET Parts,
         now + 1 \in Calls, ps \cap buffer.map.range = {},
         Blit(c, GpuWriteOf(ps, Mark(Undefined, ps, now + 1))),
         NEW b, Fits(b), SameUse(buffer, b), b.version = buffer.version,
         b.scanVersion = buffer.scanVersion,
         b.shadowValid => ~InPlace(buffer), ShadowShows(b, Mark(value, ps, now + 1), spoiled'),
         buffer' = GpuWritten(b, stream'[c].serial), value' = Mark(value, ps, now + 1),
         content' = content
  PROVE  Right' /\ \A d \in Contexts \ {c} : stream'[d].serial = 0
<1> DEFINE k == GpuWriteOf(ps, Mark(Undefined, ps, now + 1))
           s == stream'[c].serial
<1>1. /\ Fits(buffer) /\ StreamTyped /\ next \in Nat /\ buffer.version \in Nat
      /\ buffer.scanVersion \in Nat /\ buffer.scanVersion <= buffer.version
  BY RightTyped
<1>2. k \in Command /\ k.use = "write" /\ k.from = buffer.mtl /\ k.to = buffer.mtl
      /\ k.parts = ps /\ \A p \in ps : p \in Parts => k.values[p] = now + 1
  <2>1. Mark(Undefined, ps, now + 1) \in Contents
    BY UndefinedTyped, MarkTyped
  <2>2. k \in Command
    BY <2>1, GpuWriteTyped
  <2> QED BY <2>2 DEF GpuWriteOf, Mark
<1> HIDE DEF k
<1>3. Blit(c, k)
  BY DEF k
<1>4. StreamTyped' /\ s \in Nat
  BY <1>1, <1>2, <1>3, BlitTyped
<1>5. /\ InOrder' /\ Adds(k, s) /\ s = next' - 1 /\ next <= next'
      /\ \A d \in Contexts \ {c} : stream'[d].serial = 0
  BY <1>1, <1>2, <1>3, Blits DEF Right
<1>6. next' \in Nat /\ buffer' = GpuWritten(b, s)
  BY <1>4 DEF StreamTyped
<1> HIDE DEF s
<1>7. /\ buffer'.mtl = buffer.mtl /\ buffer'.map = buffer.map /\ buffer'.retired = buffer.retired
      /\ buffer'.retiredStaging = buffer.retiredStaging /\ buffer'.lastUse = s
      /\ buffer'.lastWrite = s /\ buffer'.version = buffer.version + 1
      /\ buffer'.shadowValid = b.shadowValid /\ buffer'.shadow = b.shadow
      /\ buffer'.scanVersion = buffer.scanVersion
  BY <1>6, GpuWrittenIs DEF SameUse
<1>8. buffer'.scanVersion <= buffer'.version /\ buffer'.scanVersion # buffer'.version
  BY <1>1, <1>7
<1>9. \A p \in Parts : value'[p] = IF k.use = "write" /\ p \in k.parts THEN k.values[p]
                                   ELSE value[p]
  BY <1>2 DEF Mark
<1>10. ShadowShows(buffer', value', spoiled') /\ ScanShows(buffer', value', spoiled')
  BY <1>7, <1>8 DEF ShadowShows, ScanShows, SameUse, Staged
<1>11. Right'
  BY <1>2, <1>4, <1>5, <1>6, <1>7, <1>8, <1>9, <1>10, RecordedRight
<1> QED BY <1>5, <1>11

LEMMA CallsTyped ==
  ASSUME BufferAssumption, TypeOK, NEW c, CanCall(c)
  PROVE  now + 1 \in Calls
BY DEF TypeOK, CanCall, Calls, BufferAssumption

LEMMA SubDataCopiedRight ==
  ASSUME BufferAssumption, TypeOK, Right, InTurn, NEW c \in Contexts, NEW ps \in Ranges,
         SubDataCopied(c, ps)
  PROVE  Right' /\ Turn' /\ WaitsRight'
<1> DEFINE mark == Mark(Undefined, ps, now + 1)
           b    == ShadowWritten(buffer, ps, mark)
<1>1. /\ CanCall(c) /\ ps \in SUBSET Parts /\ now + 1 \in Calls /\ Alone(c)
      /\ ps \cap buffer.map.range = {} /\ Blit(c, GpuWriteOf(ps, mark))
      /\ buffer' = GpuWritten(b, stream'[c].serial) /\ value' = Mark(value, ps, now + 1)
      /\ UNCHANGED <<content, waiting, spoiled>>
  BY CallAlone, CallsTyped, BufferAssumption DEF SubDataCopied, BufferAssumption
<1>2. Fits(buffer) /\ (InPlace(buffer) => ~buffer.shadowValid)
  BY RightTyped
<1>3. mark \in Contents
  BY <1>1, UndefinedTyped, MarkTyped
<1>4. Fits(b) /\ SameUse(buffer, b) /\ b.version = buffer.version
      /\ b.scanVersion = buffer.scanVersion /\ b.shadowValid = buffer.shadowValid
      /\ (buffer.shadowValid => b.shadow = Merge(buffer.shadow, ps, mark))
  <2> HIDE DEF b
  <2>1. b = ShadowWritten(buffer, ps, mark)
    BY DEF b
  <2> HIDE DEF mark
  <2> QED BY <1>2, <1>3, <2>1, ShadowWrittenIs, ShadowWrittenFits
<1>5. ShadowShows(b, Mark(value, ps, now + 1), spoiled')
  <2> SUFFICES ASSUME b.shadowValid, "shadow" \notin spoiled'
               PROVE  Agrees(Parts \ Staged(buffer), Mark(value, ps, now + 1), b.shadow)
    BY <1>4 DEF ShadowShows, SameUse, Staged
  <2> DEFINE qs == Parts \ Staged(buffer)
  <2>1. Agrees(qs, value, buffer.shadow) /\ qs \in SUBSET Parts
    BY <1>1, <1>4 DEF Right, Shows, ShadowShows
  <2> HIDE DEF qs
  <2>2. Agrees(qs, Mark(value, ps, now + 1), Merge(buffer.shadow, ps, mark))
    BY <2>1, MarkAgrees
  <2> QED BY <1>4, <2>2 DEF qs
<1> HIDE DEF b, mark
<1>6. Right' /\ \A d \in Contexts \ {c} : stream'[d].serial = 0
  BY <1>1, <1>2, <1>4, <1>5, GpuWriteRight DEF mark
<1> QED BY <1>1, <1>6, CallAlone

LEMMA GpuWritesRight ==
  ASSUME BufferAssumption, TypeOK, Right, InTurn, NEW c \in Contexts, NEW ps \in Ranges,
         NEW known \in BOOLEAN, GpuWrite(c, ps, known)
  PROVE  Right' /\ Turn' /\ WaitsRight'
<1> DEFINE starts  == known /\ ~buffer.shadowValid /\ buffer.lastUse = 0 /\ ~buffer.large
           started == IF starts THEN [buffer EXCEPT !.shadow = content[buffer.mtl],
                                                    !.shadowValid = TRUE] ELSE buffer
           mark    == Mark(Undefined, ps, now + 1)
           b       == CopyShadow(started, ps, known, now + 1)
<1>1. /\ CanCall(c) /\ ps \in SUBSET Parts /\ now + 1 \in Calls /\ Alone(c) /\ buffer.map = Unmapped
      /\ Blit(c, GpuWriteOf(ps, mark))
      /\ buffer' = GpuWritten(b, stream'[c].serial) /\ value' = Mark(value, ps, now + 1)
      /\ UNCHANGED <<content, waiting>>
      /\ spoiled' = IF starts THEN spoiled \ {"shadow"} ELSE spoiled
  BY CallAlone, CallsTyped, BufferAssumption DEF GpuWrite, BufferAssumption, Mapped
<1>2. /\ Fits(buffer) /\ content \in [Storages -> Contents] /\ buffer.mtl \in Storages
      /\ Points \in SUBSET Point
  BY RightTyped
<1>3. mark \in Contents /\ Staged(buffer) = {} /\ ~InPlace(buffer) /\ buffer.map.range = {}
  BY <1>1, UndefinedTyped, MarkTyped DEF Staged, Unmapped, InPlace
<1>4. starts => Agrees(Parts, value, content[buffer.mtl])
  <2> SUFFICES ASSUME starts
               PROVE  Past(buffer.lastUse)
    BY <1>3, UsePast
  <2>1. \A x \in Points : 0 < x.serial
    <3> SUFFICES ASSUME NEW x \in Points
                 PROVE  0 < x.serial
      OBVIOUS
    <3>1. PICK r \in Pending : x.serial = r.serial
      BY PointIs DEF At
    <3> QED BY <3>1, PendingSerials, RightTyped DEF Right
  <2> QED BY <2>1 DEF Past
<1>5. /\ Fits(started) /\ SameUse(buffer, started) /\ started.version = buffer.version
      /\ started.scanVersion = buffer.scanVersion
      /\ (starts => started.shadow = content[buffer.mtl])
      /\ (~starts => started = buffer)
  BY <1>2 DEF Fits, Buffers, SameUse
<1>6. started.shadowValid /\ "shadow" \notin spoiled' => Agrees(Parts, value, started.shadow)
  <2>1. buffer.shadowValid /\ "shadow" \notin spoiled => Agrees(Parts, value, buffer.shadow)
    BY <1>3 DEF Right, Shows, ShadowShows
  <2> HIDE DEF started, starts
  <2> QED BY <1>1, <1>4, <1>5, <2>1
<1> HIDE DEF started
<1>7. Fits(b)
  BY <1>1, <1>5, CopyShadowFits
<1>8. /\ SameUse(started, b) /\ b.version = started.version /\ b.scanVersion = started.scanVersion
      /\ b.shadowValid => started.shadowValid /\ b.shadow = Merge(started.shadow, ps, mark)
  <2>1. CASE known
    <3>1. b = ShadowWritten(started, ps, mark)
      BY <2>1 DEF CopyShadow
    <3> HIDE DEF b, mark
    <3> QED BY <1>5, <3>1, ShadowWrittenIs
  <2>2. CASE ~known
    BY <1>5, <2>2 DEF CopyShadow, Fits, Buffers, SameUse
  <2> QED BY <2>1, <2>2
<1>9. SameUse(buffer, b) /\ b.version = buffer.version /\ b.scanVersion = buffer.scanVersion
  BY <1>5, <1>8 DEF SameUse
<1>10. ShadowShows(b, Mark(value, ps, now + 1), spoiled')
  <2> SUFFICES ASSUME b.shadowValid, "shadow" \notin spoiled'
               PROVE  Agrees(Parts, Mark(value, ps, now + 1), Merge(started.shadow, ps, mark))
    BY <1>3, <1>8, <1>9 DEF ShadowShows, SameUse, Staged
  <2>1. Agrees(Parts, value, started.shadow) /\ Parts \in SUBSET Parts
    BY <1>6, <1>8
  <2> QED BY <2>1, MarkAgrees
<1> HIDE DEF b
<1>11. Right' /\ \A d \in Contexts \ {c} : stream'[d].serial = 0
  <2>1. ps \cap buffer.map.range = {} /\ Parts \ Staged(buffer) = Parts
    BY <1>3
  <2> QED BY <1>1, <1>3, <1>7, <1>9, <1>10, <2>1, GpuWriteRight
<1> QED BY <1>1, <1>11, CallAlone

LEMMA CompleteUse ==
  ASSUME TypeOK, Right
  PROVE  /\ Past(0)
         /\ Complete(buffer.lastUse) => Past(buffer.lastUse)
         /\ Complete(buffer.lastWrite) => Past(buffer.lastWrite)
<1>1. StreamTyped /\ InOrder /\ Given(buffer, next) /\ Fits(buffer)
  BY RightTyped DEF Right, BufferRight
<1>2. buffer.lastUse \in Nat /\ buffer.lastWrite \in Nat /\ next \in Nat
  BY <1>1 DEF Fits, Buffers, StreamTyped
<1>3. buffer.lastUse < next /\ buffer.lastWrite < next
  BY <1>1, <1>2 DEF Given
<1>4. Past(0)
  <2> SUFFICES ASSUME NEW x \in Points
               PROVE  0 < x.serial
    BY DEF Past
  <2>1. PICK r \in Pending : x.serial = r.serial
    BY PointIs DEF At
  <2> QED BY <1>1, <2>1, PendingSerials
<1> QED BY <1>1, <1>2, <1>3, <1>4, CompletePast

LEMMA DataRight ==
  ASSUME BufferAssumption, TypeOK, Right, InTurn, NEW c \in Contexts, Data(c)
  PROVE  Right' /\ Turn' /\ WaitsRight'
<1> DEFINE unmapped == [buffer EXCEPT !.map = Unmapped, !.shadowValid = FALSE,
                                      !.version = @ + 1]
<1>1. /\ CanCall(c) /\ UNCHANGED <<stream, queue, next, waiting>>
      /\ value' = Mark(value, Parts, now + 1)
  BY DEF Data, NoCommands
<1>2. PICK mtl \in IF Busy THEN Fresh(buffer.retired) \ {None} ELSE {buffer.mtl} :
        /\ content' = [content EXCEPT ![mtl] = Mark(@, Parts, now + 1)]
        /\ buffer' =
             IF ~Busy THEN unmapped
             ELSE [unmapped EXCEPT !.mtl = mtl, !.lastUse = 0, !.lastWrite = 0,
                     !.retired = Retire(Without(@, mtl), buffer.mtl, buffer.lastUse)]
  BY DEF Data
<1>3. /\ Fits(buffer) /\ content \in [Storages -> Contents] /\ buffer.mtl \in Storages
      /\ buffer.version \in Nat /\ buffer.scanVersion \in Nat /\ next \in Nat /\ next > 0
      /\ buffer.scanVersion <= buffer.version
  BY RightTyped
<1>4. InOrder /\ BufferRight(Points, buffer, next)
  BY DEF Right
<1>5. /\ unmapped.mtl = buffer.mtl /\ unmapped.map = Unmapped
      /\ unmapped.lastUse = buffer.lastUse /\ unmapped.lastWrite = buffer.lastWrite
      /\ unmapped.retired = buffer.retired /\ unmapped.retiredStaging = buffer.retiredStaging
      /\ unmapped.version = buffer.version + 1 /\ unmapped.scanVersion = buffer.scanVersion
      /\ ~unmapped.shadowValid
      /\ unmapped \in [DOMAIN buffer -> {unmapped[f] : f \in DOMAIN buffer}]
      /\ DOMAIN unmapped = DOMAIN buffer
      /\ {"mtl", "lastUse", "lastWrite", "retired", "retiredStaging", "map", "version",
          "scanVersion", "shadowValid"} \subseteq DOMAIN buffer
  BY <1>3 DEF Fits, Buffers
<1> HIDE DEF unmapped
<1>6. /\ mtl \in Storages /\ Free(mtl) /\ BufferRight(Points, buffer', next)
      /\ buffer'.mtl = mtl /\ buffer'.map = Unmapped /\ ~buffer'.shadowValid
      /\ buffer'.scanVersion # buffer'.version
  <2>1. CASE ~Busy
    <3>1. mtl = buffer.mtl /\ buffer' = unmapped
      BY <1>2, <2>1
    <3>2. Free(buffer.mtl)
      BY <2>1, CompleteUse, UsePast DEF Busy
    <3>3. BufferRight(Points, buffer', next)
      BY <1>3, <1>4, <1>5, <3>1, SameStorage
    <3> QED BY <1>3, <1>5, <3>1, <3>2, <3>3
  <2>2. CASE Busy
    <3> DEFINE pool == Retire(Without(buffer.retired, mtl), buffer.mtl, buffer.lastUse)
    <3>1. mtl \in Fresh(buffer.retired) /\ mtl # None
      BY <1>2, <2>2
    <3>2. /\ mtl \in Storages /\ Free(mtl) /\ mtl # buffer.mtl
          /\ mtl \notin OfPool(buffer.retiredStaging)
      BY <1>4, <3>1, FreeFresh
    <3>3. buffer' = [unmapped EXCEPT !.mtl = mtl, !.lastUse = 0, !.lastWrite = 0, !.retired = pool]
      BY <1>2, <1>5, <2>2
    <3> HIDE DEF pool
    <3>4. /\ buffer'.mtl = mtl /\ buffer'.lastUse = 0 /\ buffer'.lastWrite = 0
          /\ buffer'.retired = pool /\ buffer'.retiredStaging = buffer.retiredStaging
          /\ buffer'.map = Unmapped /\ buffer'.version = buffer.version + 1
          /\ buffer'.scanVersion = buffer.scanVersion /\ ~buffer'.shadowValid
      BY <1>5, <3>3
    <3>5. \A x \in Points : ~Refers(x, mtl)
      BY <3>2 DEF Free
    <3>6. buffer'.scanVersion <= buffer'.version /\ buffer'.scanVersion # buffer'.version
      BY <1>3, <3>4
    <3>7. BufferRight(Points, buffer', next)
      BY <1>3, <1>4, <3>2, <3>4, <3>5, <3>6, OtherStorage DEF pool
    <3> QED BY <3>2, <3>4, <3>6, <3>7
  <2> QED BY <2>1, <2>2
<1>7. Staged(buffer') = {} /\ buffer'.map.staging = None
  BY <1>6 DEF Staged, Unmapped
<1>8. /\ content'[mtl] = Mark(content[mtl], Parts, now + 1)
      /\ \A s \in Storages : s # mtl => content'[s] = content[s]
  BY <1>2, <1>3, <1>6
<1>9. Agrees(Parts \ Staged(buffer'), value', content'[buffer'.mtl])
  BY <1>1, <1>6, <1>8 DEF Agrees, Mark
<1>10. Right'
  <2>1. ShadowShows(buffer', value', spoiled') /\ ScanShows(buffer', value', spoiled')
    BY <1>6 DEF ShadowShows, ScanShows
  <2> QED BY <1>1, <1>6, <1>7, <1>8, <1>9, <2>1, CpuStep
<1>11. Alone(c) /\ \A d \in Contexts \ {c} : stream'[d].serial = 0
  BY <1>1, CallAlone DEF Alone
<1> QED BY <1>1, <1>10, <1>11, CallAlone

LEMMA MapStagedRight ==
  ASSUME BufferAssumption, TypeOK, Right, InTurn, NEW c \in Contexts, NEW ps \in Ranges,
         MapStaged(c, ps)
  PROVE  Right' /\ Turn' /\ WaitsRight'
<1>1. /\ CanCall(c) /\ UNCHANGED <<stream, queue, next, content, waiting, spoiled>>
      /\ value' = Mark(value, ps, Unknown) /\ buffer.map = Unmapped /\ ps \in SUBSET Parts
  BY BufferAssumption DEF MapStaged, NoCommands, Mapped, BufferAssumption
<1>2. PICK staging \in Fresh(buffer.retiredStaging) \ {None} :
        buffer' = [buffer EXCEPT
          !.map = [range |-> ps, writes |-> TRUE, pointer |-> staging, staging |-> staging],
          !.retiredStaging = Without(@, staging)]
  BY DEF MapStaged
<1>3. /\ Fits(buffer) /\ next \in Nat /\ buffer.scanVersion <= buffer.version
  BY RightTyped
<1>4. InOrder /\ BufferRight(Points, buffer, next) /\ Shows(Points, buffer, content, value, spoiled)
  BY DEF Right
<1> DEFINE map == [range |-> ps, writes |-> TRUE, pointer |-> staging, staging |-> staging]
<1>5. /\ map.range = ps /\ map.staging = staging /\ map.pointer = staging /\ map.writes
      /\ buffer' = [buffer EXCEPT !.map = map, !.retiredStaging = Without(@, staging)]
  BY <1>2
<1> HIDE DEF map
<1>6. /\ buffer'.mtl = buffer.mtl /\ buffer'.lastUse = buffer.lastUse
      /\ buffer'.lastWrite = buffer.lastWrite /\ buffer'.retired = buffer.retired
      /\ buffer'.retiredStaging = Without(buffer.retiredStaging, staging)
      /\ buffer'.map = map /\ buffer'.version = buffer.version
      /\ buffer'.scanVersion = buffer.scanVersion
      /\ buffer'.shadowValid = buffer.shadowValid /\ buffer'.shadow = buffer.shadow
      /\ buffer'.scan = buffer.scan
  BY <1>3, <1>5 DEF Fits, Buffers
<1>7. /\ staging \in Storages /\ Free(staging) /\ staging # buffer.mtl
      /\ staging \notin OfPool(buffer.retired)
  BY <1>2, <1>4, FreeFresh
<1>8. BufferRight(Points, buffer', next)
  <2>1. \A x \in Points : ~Refers(x, staging)
    BY <1>7 DEF Free
  <2>2. /\ buffer'.map.staging = staging /\ buffer'.map.pointer = staging /\ buffer'.map.writes
        /\ buffer'.scanVersion <= buffer'.version
    BY <1>3, <1>5, <1>6
  <2> QED BY <1>1, <1>3, <1>4, <1>6, <1>7, <2>1, <2>2, MapsStaging
<1>9. Staged(buffer') = ps /\ Staged(buffer) = {} /\ buffer'.map # Unmapped
  BY <1>1, <1>2, <1>5, <1>6 DEF Staged, Unmapped
<1>10. \A p \in Parts : value'[p] # Unknown => value'[p] = value[p] /\ p \notin ps
  BY <1>1 DEF Mark
<1>11. ShadowShows(buffer', value', spoiled') /\ ScanShows(buffer', value', spoiled')
  <2>1. /\ buffer.shadowValid /\ "shadow" \notin spoiled => Agrees(Parts, value, buffer.shadow)
        /\ buffer.scanVersion = buffer.version /\ "scan" \notin spoiled
             => Agrees(Parts, value, buffer.scan)
    BY <1>1, <1>4, <1>9 DEF Shows, ShadowShows, ScanShows, InPlace
  <2> QED BY <1>1, <1>6, <1>10, <2>1 DEF Agrees, ShadowShows, ScanShows
<1>12. Agrees(buffer'.map.range, value', content[buffer'.map.staging])
  BY <1>1, <1>5, <1>6, <1>10 DEF Agrees
<1>13. Right'
  BY <1>1, <1>6, <1>8, <1>9, <1>10, <1>11, <1>12, QuietRight
<1>14. Alone(c) /\ \A d \in Contexts \ {c} : stream'[d].serial = 0
  BY <1>1, CallAlone DEF Alone
<1> QED BY <1>1, <1>13, <1>14, CallAlone

LEMMA UnmapRight ==
  ASSUME BufferAssumption, TypeOK, Right, InTurn, NEW c \in Contexts, Unmap(c)
  PROVE  Right' /\ Turn' /\ WaitsRight'
<1>1. /\ CanCall(c) /\ UNCHANGED <<stream, queue, next, content, value, waiting, spoiled>>
      /\ buffer' = [buffer EXCEPT !.map = Unmapped, !.version = @ + 1]
      /\ buffer.map.staging = None
  BY DEF Unmap, NoCommands
<1>2. /\ Fits(buffer) /\ next \in Nat /\ buffer.scanVersion <= buffer.version
      /\ buffer.version \in Nat /\ buffer.scanVersion \in Nat
  BY RightTyped
<1>3. BufferRight(Points, buffer, next) /\ Shows(Points, buffer, content, value, spoiled)
  BY DEF Right
<1>4. /\ buffer'.mtl = buffer.mtl /\ buffer'.lastUse = buffer.lastUse
      /\ buffer'.lastWrite = buffer.lastWrite /\ buffer'.retired = buffer.retired
      /\ buffer'.retiredStaging = buffer.retiredStaging
      /\ buffer'.map = Unmapped /\ buffer'.version = buffer.version + 1
      /\ buffer'.scanVersion = buffer.scanVersion
      /\ buffer'.shadowValid = buffer.shadowValid /\ buffer'.shadow = buffer.shadow
  BY <1>1, <1>2 DEF Fits, Buffers
<1>5. buffer'.scanVersion <= buffer'.version /\ buffer'.scanVersion # buffer'.version
  BY <1>2, <1>4
<1>6. BufferRight(Points, buffer', next)
  BY <1>2, <1>3, <1>4, <1>5, SameStorage
<1>7. Staged(buffer') = {} /\ Staged(buffer) = {} /\ buffer'.map.staging = None
  BY <1>1, <1>4 DEF Staged, Unmapped
<1>8. ShadowShows(buffer', value', spoiled') /\ ScanShows(buffer', value', spoiled')
  BY <1>1, <1>3, <1>4, <1>5, <1>7 DEF Shows, ShadowShows, ScanShows
<1>9. Right'
  BY <1>1, <1>4, <1>5, <1>6, <1>7, <1>8, QuietRight
<1>10. Alone(c) /\ \A d \in Contexts \ {c} : stream'[d].serial = 0
  BY <1>1, CallAlone DEF Alone
<1> QED BY <1>1, <1>9, <1>10, CallAlone

(* The application's writes reach no command that reads what it mapped, or *)
(* that will write there.                                                  *)
LEMMA WriteMappedRight ==
  ASSUME BufferAssumption, TypeOK, Right, Turn, WaitsRight, NEW p \in Parts, WriteMapped(p)
  PROVE  Right' /\ Turn' /\ WaitsRight'
<1> DEFINE map == buffer.map
           at  == map.pointer
           n   == now + 1
<1>1. /\ Mapped /\ map.writes /\ p \in map.range
      /\ content' = [content EXCEPT ![at] = Mark(@, {p}, n)]
      /\ value' = Mark(value, {p}, n)
      /\ UNCHANGED <<stream, queue, next, buffer, waiting, spoiled>>
  BY DEF WriteMapped, NoCommands
<1>2. /\ Fits(buffer) /\ content \in [Storages -> Contents] /\ value \in Contents
      /\ buffer.mtl \in Storages /\ map.staging \in Storages \cup {None} /\ map.staging # buffer.mtl
      /\ map.range \in SUBSET Parts
  BY RightTyped
<1>3. /\ BufferRight(Points, buffer, next) /\ Shows(Points, buffer, content, value, spoiled)
      /\ ReadsFollow(Points) /\ ReadsFind(Points, content) /\ InOrder
  BY DEF Right
<1>4. Turn' /\ WaitsRight'
  BY <1>1 DEF Turn, WaitsRight, WaitRight
<1>5. Points' = Points /\ InOrder'
  BY <1>1, <1>3, SamePoints
<1>6. BufferRight(Points, buffer', next')
  BY <1>1, <1>3
<1>7. map # Unmapped /\ at = IF map.staging = None THEN buffer.mtl ELSE map.staging
  BY <1>1, <1>3 DEF Mapped, BufferRight, MappingRight
<1>8. /\ at \in Storages /\ content'[at] = Mark(content[at], {p}, n)
      /\ \A s \in Storages : s # at => content'[s] = content[s]
  BY <1>1, <1>2, <1>7
<1>9. /\ value'[p] = n /\ content'[at][p] = n
      /\ \A q \in Parts : q # p => value'[q] = value[q] /\ content'[at][q] = content[at][q]
  BY <1>1, <1>8 DEF Mark
<1>10. \A x \in Points, q \in Parts : Needs(x, at, q) => content'[at][q] = content[at][q]
  <2>1. CASE map.staging = None
    <3>1. InPlace(buffer)
      BY <1>1, <1>7, <2>1 DEF InPlace
    <3>2. \A x \in Points : Refers(x, buffer.mtl) => x.command.use = "write"
      BY <1>3, <3>1 DEF BufferRight, Covers
    <3> QED BY <1>7, <2>1, <3>2 DEF Needs, Refers
  <2>2. CASE map.staging # None
    <3>1. \A x \in Points : ~Refers(x, at)
      BY <1>3, <1>7, <2>2 DEF BufferRight, Covers
    <3> QED BY <3>1 DEF Needs, Refers
  <2> QED BY <2>1, <2>2
<1>11. ReadsFind(Points, content')
  <2>1. \A r \in Points, s \in Storages, q \in Parts :
          Needs(r, s, q) => content'[s][q] = content[s][q]
    BY <1>8, <1>10
  <2> QED BY <1>3, <2>1, CpuReads
<1>12. Shows(Points, buffer, content', value', spoiled')
  <2>1. CASE map.staging = None
    <3>1. Staged(buffer) = {} /\ at = buffer.mtl /\ InPlace(buffer) /\ ~buffer.shadowValid
      BY <1>1, <1>3, <1>7, <2>1 DEF Staged, InPlace, BufferRight, MappingRight
    <3>2. \A x \in Points : ~Writes(x, buffer.mtl, p)
      BY <1>1, <1>3, <3>1 DEF BufferRight, Covers, Writes, Refers
    <3>3. WillHold(Points, buffer.mtl, content, Parts, value)
      BY <1>3, <3>1 DEF Shows
    <3>4. WillHold(Points, buffer.mtl, content', Parts, value')
      <4> SUFFICES ASSUME NEW q \in Parts, value'[q] # Unknown
                   PROVE  /\ \/ content'[buffer.mtl][q] = value'[q]
                             \/ \E m \in Points : Writes(m, buffer.mtl, q)
                          /\ \A x \in Points : Writes(x, buffer.mtl, q) =>
                               \/ x.command.values[q] = value'[q]
                               \/ \E m \in Points : Before(x, m) /\ Writes(m, buffer.mtl, q)
        BY DEF WillHold
      <4>1. CASE q = p
        BY <1>9, <3>1, <3>2, <4>1
      <4>2. CASE q # p
        BY <1>9, <3>1, <3>3, <4>2 DEF WillHold
      <4> QED BY <4>1, <4>2
    <3> QED BY <1>7, <2>1, <3>1, <3>4 DEF Shows, ShadowShows, ScanShows
  <2>2. CASE map.staging # None
    <3>1. Staged(buffer) = map.range /\ at = map.staging /\ content'[buffer.mtl] = content[buffer.mtl]
      BY <1>2, <1>7, <1>8, <2>2 DEF Staged
    <3>2. WillHold(Points, buffer.mtl, content', Parts \ map.range, value')
      <4>1. WillHold(Points, buffer.mtl, content, Parts \ map.range, value)
        BY <1>3, <3>1 DEF Shows
      <4>2. \A q \in Parts \ map.range : value'[q] # Unknown =>
              /\ q \in Parts \ map.range /\ value[q] = value'[q]
              /\ content'[buffer.mtl][q] = content[buffer.mtl][q]
        BY <1>1, <1>9, <3>1
      <4> QED BY <4>1, <4>2, CpuHolds
    <3>3. Agrees(map.range, value', content'[at])
      BY <1>2, <1>3, <1>9, <2>2, <3>1 DEF Shows, Agrees
    <3>4. ShadowShows(buffer, value', spoiled) /\ ScanShows(buffer, value', spoiled)
      BY <1>1, <1>3, <1>9, <3>1 DEF Shows, ShadowShows, ScanShows, Agrees
    <3> QED BY <1>1, <1>7, <3>1, <3>2, <3>3, <3>4 DEF Shows
  <2> QED BY <2>1, <2>2
<1> QED BY <1>1, <1>3, <1>4, <1>5, <1>6, <1>11, <1>12 DEF Right

LEMMA UnmapStagedRight ==
  ASSUME BufferAssumption, TypeOK, Right, InTurn, NEW c \in Contexts, UnmapStaged(c),
         "contents" \notin spoiled'
  PROVE  Right' /\ Turn' /\ WaitsRight'
<1> DEFINE map    == buffer.map
           serial == Opened(c).serial
           b      == ShadowWritten(buffer, map.range, content[map.staging])
           g      == GpuWritten(b, serial)
           k      == [use |-> "copy", from |-> map.staging, to |-> buffer.mtl,
                      parts |-> map.range, values |-> value]
<1>1. /\ CanCall(c) /\ Alone(c) /\ map.staging # None /\ Record(c, k)
      /\ buffer' = [g EXCEPT !.map = Unmapped, !.retiredStaging = Retire(@, map.staging, serial)]
      /\ UNCHANGED <<content, value, waiting, spoiled>>
  <2>1. Blit(c, k) /\ queue' = queue /\ spoiled' = spoiled
    BY DEF UnmapStaged
  <2>2. Append(queue, Opened(c)) # queue
    <3>1. queue \in Seq(Recorded) /\ Opened(c) \in Recorded
      BY RightTyped, OpenedTyped DEF StreamTyped
    <3> QED BY <3>1
  <2>3. Record(c, k)
    BY <2>1, <2>2 DEF Blit
  <2> QED BY <2>1, <2>3, CallAlone DEF UnmapStaged
<1>2. /\ Fits(buffer) /\ content \in [Storages -> Contents] /\ value \in Contents
      /\ buffer.mtl \in Storages /\ map.staging \in Storages /\ map.staging # buffer.mtl
      /\ map.range \in SUBSET Parts /\ StreamTyped /\ next \in Nat /\ Points \in SUBSET Point
      /\ buffer.version \in Nat /\ buffer.scanVersion \in Nat
      /\ buffer.scanVersion <= buffer.version
  BY <1>1, RightTyped
<1>3. /\ BufferRight(Points, buffer, next) /\ Shows(Points, buffer, content, value, spoiled)
      /\ ReadsFollow(Points) /\ ReadsFind(Points, content) /\ InOrder
  BY DEF Right
<1>4. /\ k \in Command /\ k.use = "copy" /\ k.from = map.staging /\ k.to = buffer.mtl
      /\ k.parts = map.range /\ k.values = value
  BY <1>2 DEF Command
<1> HIDE DEF k
<1>5. /\ InOrder' /\ Adds(k, serial) /\ serial = next' - 1 /\ next <= next'
      /\ \A d \in Contexts \ {c} : stream'[d].serial = 0
  <2>1. /\ InOrder' /\ Adds(k, stream'[c].serial) /\ stream'[c].serial = next' - 1
        /\ next <= next' /\ \A d \in Contexts \ {c} : stream'[d].serial = 0
        /\ stream'[c].serial = serial
    BY <1>1, <1>2, <1>3, <1>4, Records
  <2> QED BY <2>1
<1>6. next' \in Nat /\ serial \in Nat
  BY <1>1, <1>2, <1>4, RecordTyped, OpenedTyped DEF StreamTyped
<1> HIDE DEF serial
<1>7. /\ Fits(b) /\ SameUse(buffer, b) /\ b.version = buffer.version
      /\ b.scanVersion = buffer.scanVersion /\ b.shadowValid = buffer.shadowValid
      /\ (buffer.shadowValid => b.shadow = Merge(buffer.shadow, map.range, content[map.staging]))
  <2>1. content[map.staging] \in Contents /\ b = ShadowWritten(buffer, map.range, content[map.staging])
    BY <1>2
  <2> HIDE DEF b
  <2> QED BY <1>2, <2>1, ShadowWrittenIs, ShadowWrittenFits
<1> HIDE DEF b
<1>8. /\ Fits(g) /\ g.mtl = buffer.mtl /\ g.retired = buffer.retired
      /\ g.retiredStaging = buffer.retiredStaging /\ g.lastUse = serial /\ g.lastWrite = serial
      /\ g.version = buffer.version + 1 /\ g.shadowValid = buffer.shadowValid
      /\ g.shadow = b.shadow /\ g.scanVersion = buffer.scanVersion
  <2>1. g = GpuWritten(b, serial)
    OBVIOUS
  <2> HIDE DEF g
  <2>2. Fits(g)
    BY <1>6, <1>7, <2>1, GpuWrittenFits
  <2>3. /\ g.mtl = b.mtl /\ g.retired = b.retired
        /\ g.retiredStaging = b.retiredStaging /\ g.lastUse = serial /\ g.lastWrite = serial
        /\ g.version = b.version + 1 /\ g.shadowValid = b.shadowValid
        /\ g.shadow = b.shadow /\ g.scanVersion = b.scanVersion
    BY <1>7, <2>1, GpuWrittenIs
  <2> QED BY <1>7, <2>2, <2>3 DEF SameUse
<1> HIDE DEF g
<1>9. /\ buffer'.mtl = buffer.mtl /\ buffer'.map = Unmapped /\ buffer'.retired = buffer.retired
      /\ buffer'.retiredStaging = Retire(buffer.retiredStaging, map.staging, serial)
      /\ buffer'.lastUse = serial /\ buffer'.lastWrite = serial
      /\ buffer'.version = buffer.version + 1 /\ buffer'.shadowValid = buffer.shadowValid
      /\ buffer'.shadow = b.shadow /\ buffer'.scanVersion = buffer.scanVersion
  BY <1>1, <1>8 DEF Fits, Buffers
<1>10. buffer'.scanVersion <= buffer'.version /\ buffer'.scanVersion # buffer'.version
  BY <1>2, <1>9
<1>11. PICK n \in Nat : LET y == [serial |-> serial, at |-> n, command |-> k] IN
         Points' = Points \cup {y} /\ \A x \in Points : Before(x, y)
  BY <1>5 DEF Adds
<1> DEFINE y == [serial |-> serial, at |-> n, command |-> k]
<1>12. /\ y \in Point /\ y.serial = serial /\ y.command = k
       /\ Points' = Points \cup {y} /\ \A x \in Points : Before(x, y)
  BY <1>4, <1>6, <1>11 DEF Point
<1> HIDE DEF y
<1>13. BufferRight(Points', buffer', next')
  <2>1. /\ y.serial = next' - 1 /\ y.command.from = map.staging /\ y.command.to = buffer.mtl
        /\ buffer'.retiredStaging = Retire(buffer.retiredStaging, map.staging, y.serial)
        /\ buffer'.lastUse = y.serial /\ buffer'.lastWrite = y.serial
    BY <1>4, <1>5, <1>9, <1>12
  <2> QED BY <1>1, <1>2, <1>3, <1>5, <1>6, <1>9, <1>10, <1>12, <2>1, CopiesStaging
<1>14. Agrees(map.range, value, content[map.staging]) /\ Staged(buffer) = map.range
  BY <1>1, <1>3 DEF Shows, Staged
<1>15. ReadsFollow(Points') /\ ReadsFind(Points', content)
  <2>1. \A x \in Points : ~Refers(x, map.staging)
    BY <1>1, <1>3 DEF BufferRight, Covers
  <2>2. \A x \in Points, p \in map.range : ~Writes(x, map.staging, p)
    BY <2>1 DEF Refers, Writes
  <2>3. WillHold(Points, map.staging, content, map.range, value)
    BY <1>14, <2>2, HoldsNow
  <2>4. WillHold(Points, y.command.from, content, y.command.parts, y.command.values)
    BY <1>4, <1>12, <2>3
  <2>5. ReadsFollow(Points \cup {y}) /\ ReadsFind(Points \cup {y}, content)
    BY <1>2, <1>3, <1>12, <2>4, LastReads
  <2> QED BY <1>12, <2>5
<1>16. WillHold(Points', buffer.mtl, content, Parts, value)
  <2>1. WillHold(Points, buffer.mtl, content, Parts \ map.range, value)
    BY <1>3, <1>14 DEF Shows
  <2>2. ASSUME NEW p \in Parts, value[p] # Unknown
        PROVE  \/ Writes(y, buffer.mtl, p) /\ y.command.values[p] = value[p]
               \/ /\ ~Writes(y, buffer.mtl, p) /\ p \in Parts \ map.range
                  /\ value[p] = value[p]
    BY <1>4, <1>12 DEF Writes
  <2>3. WillHold(Points \cup {y}, buffer.mtl, content, Parts, value)
    BY <1>2, <1>12, <2>1, <2>2, LastHolds
  <2> QED BY <1>12, <2>3
<1>17. buffer'.shadowValid /\ "shadow" \notin spoiled' => Agrees(Parts, value, buffer'.shadow)
  <2> SUFFICES ASSUME buffer'.shadowValid, "shadow" \notin spoiled', NEW p \in Parts
               PROVE  value[p] \in {Unknown, Merge(buffer.shadow, map.range, content[map.staging])[p]}
    BY <1>7, <1>9 DEF Agrees
  <2>1. Agrees(Parts \ map.range, value, buffer.shadow)
    BY <1>1, <1>3, <1>9, <1>14 DEF Shows, ShadowShows
  <2> QED BY <1>14, <2>1 DEF Agrees, Merge
<1>18. Shows(Points', buffer', content', value', spoiled')
  <2>1. Staged(buffer') = {} /\ buffer'.map.staging = None
    BY <1>9 DEF Staged, Unmapped
  <2> QED BY <1>1, <1>9, <1>10, <1>16, <1>17, <2>1 DEF Shows, ShadowShows, ScanShows
<1>19. Right'
  BY <1>1, <1>5, <1>13, <1>15, <1>18 DEF Right
<1> QED BY <1>1, <1>5, <1>19, CallAlone

(* A result the CPU writes: a shadow there is goes stale.                  *)
LEMMA PackRight ==
  ASSUME BufferAssumption, TypeOK, Right, ~Mapped, NEW w \in Wait, w.call.name = "pack", Ready(w),
         ~w.renames, PackRest(w)
  PROVE  Right' /\ UNCHANGED stream
<1> DEFINE ps == w.call.range
<1>1. /\ content' = [content EXCEPT ![buffer.mtl] = Mark(@, ps, w.at)]
      /\ buffer' = [buffer EXCEPT !.version = @ + 1] /\ value' = Mark(value, ps, w.at)
      /\ UNCHANGED <<stream, queue, next>> /\ (buffer.shadowValid => "shadow" \in spoiled')
  BY DEF PackRest, NoCommands
<1>2. /\ Fits(buffer) /\ content \in [Storages -> Contents] /\ value \in Contents
      /\ buffer.mtl \in Storages /\ buffer.version \in Nat /\ buffer.scanVersion \in Nat
      /\ buffer.scanVersion <= buffer.version /\ buffer.map.staging # buffer.mtl
      /\ buffer.map.staging \in Storages \cup {None} /\ buffer.map.range \in SUBSET Parts
      /\ (InPlace(buffer) => ~buffer.shadowValid)
  BY RightTyped
<1>3. /\ BufferRight(Points, buffer, next) /\ Shows(Points, buffer, content, value, spoiled)
  BY DEF Right
<1>4. Free(buffer.mtl) /\ Agrees(Parts \ Staged(buffer), value, content[buffer.mtl])
  BY UsePast DEF Ready
<1>5. /\ SameUse(buffer, buffer') /\ buffer'.version = buffer.version + 1
      /\ buffer'.scanVersion = buffer.scanVersion /\ buffer'.shadowValid = buffer.shadowValid
  BY <1>1, <1>2 DEF Fits, Buffers, SameUse
<1>6. /\ buffer'.mtl = buffer.mtl /\ buffer'.map = buffer.map /\ Staged(buffer') = Staged(buffer)
      /\ buffer'.scanVersion <= buffer'.version /\ buffer'.scanVersion # buffer'.version
  BY <1>2, <1>5 DEF SameUse, Staged
<1>7. BufferRight(Points, buffer', next)
  BY <1>2, <1>3, <1>5, <1>6, SameStorage DEF SameUse
<1>8. /\ content'[buffer.mtl] = Mark(content[buffer.mtl], ps, w.at)
      /\ \A s \in Storages : s # buffer.mtl => content'[s] = content[s]
  BY <1>1, <1>2
<1>9. Agrees(Parts \ Staged(buffer), value', content'[buffer.mtl])
  <2>1. Parts \ Staged(buffer) \in SUBSET Parts
    OBVIOUS
  <2>2. Agrees(Parts \ Staged(buffer), Mark(value, ps, w.at), Mark(content[buffer.mtl], ps, w.at))
    BY <1>4, <2>1, MarkAgrees
  <2> QED BY <1>1, <1>8, <2>2
<1>10. buffer'.map.staging # None => Agrees(buffer'.map.range, value', content'[buffer'.map.staging])
  BY <1>6 DEF Mapped, Unmapped
<1>11. ShadowShows(buffer', value', spoiled') /\ ScanShows(buffer', value', spoiled')
  BY <1>1, <1>5, <1>6 DEF ShadowShows, ScanShows
<1> QED BY <1>1, <1>4, <1>6, <1>7, <1>8, <1>9, <1>10, <1>11, CpuStep

(* A mapped buffer is deleted: what was written in place is in no scan.    *)
LEMMA DeleteRight ==
  ASSUME BufferAssumption, TypeOK, Right, InTurn, NEW c \in Contexts, Delete(c)
  PROVE  Right' /\ Turn' /\ WaitsRight'
<1>1. /\ CanCall(c) /\ UNCHANGED <<stream, queue, next, content, waiting>>
      /\ buffer' = [buffer EXCEPT !.map = Unmapped] /\ Mapped
      /\ value' = IF buffer.map.staging = None THEN value
                  ELSE Mark(value, buffer.map.range, Unknown)
      /\ spoiled' = IF Scanned /\ buffer.map.writes /\ buffer.map.staging = None
                    THEN spoiled \cup {"scan"} ELSE spoiled
  BY DEF Delete, NoCommands
<1>2. Fits(buffer) /\ buffer.scanVersion <= buffer.version
  BY RightTyped
<1>3. BufferRight(Points, buffer, next) /\ Shows(Points, buffer, content, value, spoiled)
  BY DEF Right
<1>4. /\ buffer'.mtl = buffer.mtl /\ buffer'.lastUse = buffer.lastUse
      /\ buffer'.lastWrite = buffer.lastWrite /\ buffer'.retired = buffer.retired
      /\ buffer'.retiredStaging = buffer.retiredStaging
      /\ buffer'.map = Unmapped /\ buffer'.version = buffer.version
      /\ buffer'.scanVersion = buffer.scanVersion /\ buffer'.scan = buffer.scan
      /\ buffer'.shadowValid = buffer.shadowValid /\ buffer'.shadow = buffer.shadow
  BY <1>1, <1>2 DEF Fits, Buffers
<1>5. BufferRight(Points, buffer', next)
  BY <1>2, <1>3, <1>4, SameStorage
<1>6. Staged(buffer') = {} /\ buffer'.map.staging = None
  BY <1>4 DEF Staged, Unmapped
<1>7. \A p \in Parts : value'[p] # Unknown => p \notin Staged(buffer) /\ value'[p] = value[p]
  BY <1>1 DEF Staged, Mark
<1>8. ShadowShows(buffer', value', spoiled')
  BY <1>1, <1>3, <1>4, <1>6, <1>7 DEF Shows, ShadowShows, Agrees
<1>9. ScanShows(buffer', value', spoiled')
  <2>1. buffer.scanVersion = buffer.version /\ "scan" \notin spoiled' => ~InPlace(buffer)
    BY <1>1 DEF Scanned, InPlace
  <2> QED BY <1>1, <1>3, <1>4, <1>6, <1>7, <2>1 DEF Shows, ScanShows, Agrees
<1>10. Right'
  BY <1>1, <1>4, <1>5, <1>6, <1>7, <1>8, <1>9, QuietRight
<1>11. Alone(c) /\ \A d \in Contexts \ {c} : stream'[d].serial = 0
  BY <1>1, CallAlone DEF Alone
<1> QED BY <1>1, <1>10, <1>11, CallAlone

LEMMA RestRight ==
  ASSUME BufferAssumption, TypeOK, Right, NEW c \in Contexts, Alone(c), NEW w \in Wait,
         NEW waited \in BOOLEAN, w.call.name # "draw" => Ready(w),
         w.call.name # "subData" => ~Mapped, w.call.range \cap buffer.map.range = {},
         w.call.name = "draw" =>
           Scanned \/ (~waited /\ buffer.shadowValid) \/ Past(buffer.lastWrite),
         w.call.name = "invalidate" => w.renames,
         w.renames => w.call.name \notin {"draw", "read", "write", "pack"}, Rest(c, w, waited)
  PROVE  Right' /\ \A d \in Contexts \ {c} : stream'[d].serial = 0
<1>1. w.call.name \in {"draw", "subData", "invalidate", "pack"} \cup Maps
  BY DEF Wait, Call
<1>2. CASE w.call.name = "draw"
  <2>1. DrawRest(c, waited)
    BY <1>2 DEF Rest
  <2> QED BY <1>2, <2>1, DrawRight
<1>3. CASE w.call.name = "subData"
  <2>1. SubDataRest(w)
    BY <1>3 DEF Rest
  <2> QED BY <1>3, <2>1, SubDataRight DEF Alone
<1>4. CASE w.call.name = "invalidate"
  <2>1. InvalidateRest(w)
    BY <1>4 DEF Rest
  <2> QED BY <1>4, <2>1, InvalidateRight DEF Alone
<1>5. CASE w.call.name \in Maps
  <2>1. MapRest(w)
    BY <1>5 DEF Rest, Maps
  <2>2. w.call.name # "draw" /\ w.call.name # "subData"
    BY <1>5 DEF Maps
  <2> QED BY <1>5, <2>1, <2>2, MapRight DEF Alone
<1>6. CASE w.call.name = "pack"
  <2>1. PackRest(w)
    BY <1>6 DEF Rest
  <2> QED BY <1>6, <2>1, PackRight DEF Alone
<1> QED BY <1>1, <1>2, <1>3, <1>4, <1>5, <1>6

LEMMA RenamePast ==
  ASSUME TypeOK, Right, NEW call, NEW fresh, Complete(RenameWaits(call, fresh))
  PROVE  Past(RenameWaits(call, fresh))
BY CompleteUse DEF RenameWaits

(* Nothing changes but what is committed.                                  *)
LEMMA StillRight ==
  ASSUME Right, InOrder', Points' = Points, UNCHANGED <<buffer, content, value, next, spoiled>>
  PROVE  Right'
<1>1. BufferRight(Points', buffer', next')
  BY DEF Right
<1>2. Shows(Points', buffer', content', value', spoiled')
  BY DEF Right
<1> QED BY <1>1, <1>2 DEF Right

LEMMA SuspendRight ==
  ASSUME BufferAssumption, TypeOK, Right, InTurn, NEW c \in Contexts, CanCall(c), NEW w \in Wait,
         Suspend(c, w), ~Complete(w.serial), ~Mapped, TakenRight(w),
         w.serial = IF w.renames THEN RenameWaits(w.call, w.fresh) ELSE StorageWaits(w.call),
         w.call.name \in {"subData", "invalidate"} => w.renames,
         w.renames => w.call.name \notin {"draw", "read", "write", "pack"}
  PROVE  Right' /\ Turn' /\ WaitsRight'
<1>1. Alone(c) /\ waiting[c] = None /\ StreamTyped /\ InOrder
  BY CallAlone, RightTyped DEF Right
<1>2. UNCHANGED <<buffer, content, value, next, spoiled>> /\ waiting' = [waiting EXCEPT ![c] = w]
  BY DEF Suspend
<1>3. waiting'[c] = w /\ \A d \in Contexts \ {c} : waiting'[d] = None
  BY <1>1, <1>2 DEF TypeOK, Alone
<1>4. Flush(c) \/ UNCHANGED <<stream, queue>>
  BY DEF Suspend
<1>5. /\ InOrder' /\ Points' = Points
      /\ \A d \in Contexts : stream'[d].serial = 0 \/ stream'[d] = stream[d]
      /\ Flush(c) /\ stream[c].serial # 0 => \A d \in Contexts : stream'[d].serial = 0
  <2>1. CASE Flush(c)
    BY <1>1, <1>2, <2>1, Flushes
  <2>2. CASE UNCHANGED <<stream, queue>>
    <3>1. Points' = Points /\ InOrder'
      BY <1>1, <1>2, <2>2, SamePoints
    <3> QED BY <1>1, <2>2, <3>1 DEF Flush
  <2> QED BY <1>4, <2>1, <2>2
<1>6. Right'
  BY <1>2, <1>5, StillRight
<1>7. Turn'
  BY <1>1, <1>3, <1>5 DEF Turn, Alone
<1>8. ~Reserved(w.serial)'
  <2>1. CASE stream[c].serial = w.serial
    BY <1>4, <1>5, <2>1 DEF Reserved, Suspend
  <2>2. CASE stream[c].serial # w.serial
    BY <1>1, <1>5, <2>2 DEF Reserved, Alone
  <2> QED BY <2>1, <2>2
<1>9. w.serial = WaitSerial(w)
  <2>1. CASE w.renames
    BY <2>1 DEF WaitSerial
  <2>2. CASE ~w.renames
    <3>1. ~Reserved(0) /\ ~Committed(0)
      BY <1>1 DEF Reserved, Committed, InOrder
    <3>2. w.serial # 0
      BY <3>1 DEF Complete
    <3>3. w.serial = StorageWaits(w.call) /\ w.call.name # "subData"
      BY <2>2
    <3> QED BY <2>2, <3>2, <3>3 DEF WaitSerial, StorageWaits
  <2> QED BY <2>1, <2>2
<1>10. WaitRight(w)'
  <2>1. ~Mapped' /\ (w.serial = WaitSerial(w)')
    BY <1>2, <1>9 DEF Mapped, WaitSerial, RenameWaits
  <2>2. TakenRight(w)'
    BY <1>2, <1>5 DEF TakenRight, Free
  <2> QED BY <1>8, <2>1, <2>2 DEF WaitRight
<1>11. WaitsRight'
  BY <1>3, <1>10 DEF WaitsRight
<1> QED BY <1>6, <1>7, <1>11

LEMMA BeginRight ==
  ASSUME BufferAssumption, TypeOK, Right, InTurn, NEW c \in Contexts, CanCall(c),
         NEW call \in Call, NEW renames \in BOOLEAN, Begin(c, call, renames),
         call.name # "subData" \/ renames => ~Mapped, call.range \cap buffer.map.range = {},
         call.name = "subData" => renames \/ ~Busy, call.name = "invalidate" => renames,
         renames => call.name \notin {"draw", "read", "write", "pack"}
  PROVE  Right' /\ Turn' /\ WaitsRight'
<1>1. PICK fresh \in IF renames THEN Fresh(buffer.retired) ELSE {None} :
        LET serial == IF renames THEN RenameWaits(call, fresh) ELSE StorageWaits(call)
            w      == [call |-> call, at |-> now + 1, fresh |-> fresh, renames |-> renames,
                       serial |-> serial] IN
        /\ now' = now + 1
        /\ IF Complete(serial) THEN Rest(c, w, FALSE) /\ UNCHANGED waiting ELSE Suspend(c, w)
  BY DEF Begin
<1> DEFINE serial == IF renames THEN RenameWaits(call, fresh) ELSE StorageWaits(call)
           w      == [call |-> call, at |-> now + 1, fresh |-> fresh, renames |-> renames,
                      serial |-> serial]
<1>2. /\ IF Complete(serial) THEN Rest(c, w, FALSE) /\ waiting' = waiting ELSE Suspend(c, w)
  BY <1>1
<1>3. Fits(buffer) /\ Alone(c) /\ now + 1 \in Calls /\ BufferRight(Points, buffer, next) /\ InOrder
  BY RightTyped, CallAlone, CallsTyped DEF Right
<1>4. fresh \in Storages \cup {None} /\ serial \in Nat
  BY <1>1, <1>3, FreshTyped, SerialTyped DEF Fits
<1>5. serial = IF renames THEN RenameWaits(call, fresh) ELSE StorageWaits(call)
  OBVIOUS
<1> HIDE DEF serial
<1>6. w \in Wait /\ w.renames = renames /\ w.call = call /\ w.fresh = fresh /\ w.serial = serial
  BY <1>3, <1>4 DEF Wait
<1> HIDE DEF w
<1>7. TakenRight(w)
  <2> SUFFICES ASSUME fresh # None
               PROVE  renames /\ fresh \notin OfPool(buffer.retiredStaging) \cup {buffer.mtl}
                        /\ Free(fresh)
    BY <1>6 DEF TakenRight
  <2>1. renames /\ fresh \in Fresh(buffer.retired)
    BY <1>1
  <2> QED BY <1>3, <2>1, FreeFresh
<1>8. CASE Complete(serial)
  <2>1. Rest(c, w, FALSE) /\ waiting' = waiting
    BY <1>2, <1>8
  <2>2. call.name = "draw" => Scanned \/ buffer.shadowValid \/ Past(buffer.lastWrite)
    <3> SUFFICES ASSUME call.name = "draw", ~Scanned, ~buffer.shadowValid
                 PROVE  Past(buffer.lastWrite)
      OBVIOUS
    <3>1. serial = buffer.lastWrite
      BY <1>5 DEF StorageWaits
    <3> QED BY <1>8, <3>1, CompleteUse
  <2>3. renames => ~Mapped /\ Past(RenameWaits(call, fresh))
    BY <1>5, <1>8, RenamePast
  <2>4. ~renames /\ call.name # "draw" =>
          Past(IF call.name = "read" THEN buffer.lastWrite ELSE buffer.lastUse)
    <3> SUFFICES ASSUME ~renames, call.name # "draw"
                 PROVE  Past(IF call.name = "read" THEN buffer.lastWrite ELSE buffer.lastUse)
      OBVIOUS
    <3>1. CASE call.name = "read"
      BY <1>5, <1>8, <3>1, CompleteUse, UsePast DEF StorageWaits, Busy
    <3>2. CASE call.name = "subData"
      BY <3>2, CompleteUse DEF Busy
    <3>3. CASE call.name # "read" /\ call.name # "subData"
      BY <1>5, <1>8, <3>3, CompleteUse DEF StorageWaits
    <3> QED BY <3>1, <3>2, <3>3
  <2>5. call.name # "draw" => Ready(w)
    BY <1>6, <1>7, <2>3, <2>4 DEF Ready
  <2>6. Right' /\ \A d \in Contexts \ {c} : stream'[d].serial = 0
    BY <1>3, <1>6, <2>1, <2>2, <2>5, RestRight
  <2> QED BY <2>1, <2>6, CallAlone
<1>9. CASE ~Complete(serial)
  <2>1. Suspend(c, w)
    BY <1>2, <1>9
  <2>2. call.name = "subData" => renames
    <3> SUFFICES ASSUME call.name = "subData", ~renames
                 PROVE  Complete(serial)
      BY <1>9
    <3>1. serial = 0
      BY <1>5 DEF StorageWaits
    <3>2. Complete(0)
      BY <1>3 DEF Complete, Reserved, Committed, InOrder
    <3> QED BY <3>1, <3>2
  <2> QED BY <1>5, <1>6, <1>7, <1>9, <2>1, <2>2, SuspendRight
<1> QED BY <1>8, <1>9

(* A call goes on once what it waited for is complete.                     *)
LEMMA ResumeRight ==
  ASSUME BufferAssumption, TypeOK, Right, Turn, WaitsRight, NEW c \in Contexts, Resume(c)
  PROVE  Right' /\ Turn' /\ WaitsRight'
<1> DEFINE w == waiting[c]
<1>1. /\ w # None /\ ~Blocks(w.serial) /\ waiting' = [waiting EXCEPT ![c] = None]
      /\ Rest(c, w, TRUE)
  BY DEF Resume
<1>2. w \in Wait /\ WaitRight(w) /\ Alone(c)
  BY <1>1 DEF TypeOK, WaitsRight, Turn, Alone
<1>3. \A d \in Contexts : waiting'[d] = None
  BY <1>1, <1>2 DEF TypeOK, Alone
<1> HIDE DEF w
<1>4. ~Mapped /\ TakenRight(w) /\ w.serial = WaitSerial(w)
      /\ Complete(w.serial)
  BY <1>1, <1>2 DEF WaitRight, Complete, Blocks
<1>5. w.call.name = "draw" => Past(buffer.lastWrite)
  <2> SUFFICES ASSUME w.call.name = "draw"
               PROVE  Past(buffer.lastWrite)
    OBVIOUS
  <2>1. w.serial = buffer.lastWrite
    BY <1>2, <1>4 DEF WaitSerial, WaitRight
  <2> QED BY <1>4, <2>1, CompleteUse
<1>6. w.call.name # "draw" => Ready(w)
  <2> SUFFICES ASSUME w.call.name # "draw"
               PROVE  Ready(w)
    OBVIOUS
  <2>1. CASE w.renames
    <3>1. Past(RenameWaits(w.call, w.fresh))
      BY <1>4, <2>1, RenamePast DEF WaitSerial
    <3> QED BY <1>4, <2>1, <3>1 DEF Ready
  <2>2. CASE ~w.renames
    <3>1. w.serial = IF w.call.name = "read" THEN buffer.lastWrite ELSE buffer.lastUse
      BY <1>4, <2>2 DEF WaitSerial
    <3>2. Past(IF w.call.name = "read" THEN buffer.lastWrite ELSE buffer.lastUse)
      BY <1>4, <3>1, CompleteUse
    <3> QED BY <1>4, <2>2, <3>2 DEF Ready
  <2> QED BY <2>1, <2>2
<1>7. w.call.range \cap buffer.map.range = {}
  BY <1>4 DEF Mapped, Unmapped
<1>8. Right' /\ \A d \in Contexts \ {c} : stream'[d].serial = 0
  BY <1>1, <1>2, <1>4, <1>5, <1>6, <1>7, RestRight DEF WaitRight
<1>9. Turn' /\ WaitsRight'
  BY <1>3, <1>8 DEF Turn, WaitsRight
<1> QED BY <1>8, <1>9

-----------------------------------------------------------------------------
(***************************************************************************)
(* The GPU, and what is committed.                                         *)
(***************************************************************************)
LEMMA WaitsStay ==
  ASSUME WaitsRight, UNCHANGED <<buffer, stream, waiting>>, \A s : Free(s) => Free(s)'
  PROVE  WaitsRight'
<1> SUFFICES ASSUME NEW d \in Contexts, waiting[d] # None
             PROVE  WaitRight(waiting[d])'
  BY DEF WaitsRight
<1> DEFINE w == waiting[d]
<1>1. WaitRight(w) /\ w' = w
  BY DEF WaitsRight
<1> HIDE DEF w
<1>2. ~Mapped' /\ ~Reserved(w.serial)' /\ (w'.serial = WaitSerial(w)')
  BY <1>1 DEF WaitRight, Mapped, Reserved, WaitSerial, RenameWaits
<1>3. TakenRight(w)'
  BY <1>1 DEF WaitRight, TakenRight
<1>4. WaitRight(w)'
  BY <1>1, <1>2, <1>3 DEF WaitRight
<1> QED BY <1>4 DEF w

LEMMA RunCommandRight ==
  ASSUME TypeOK, Right, Turn, WaitsRight, RunCommand
  PROVE  Right' /\ Turn' /\ WaitsRight'
<1> DEFINE k == Head(Oldest)
<1>1. /\ StreamTyped /\ content \in [Storages -> Contents] /\ Points \in SUBSET Point
      /\ buffer.mtl \in Storages /\ buffer.map.range \in SUBSET Parts
      /\ buffer.map.staging \in Storages \cup {None}
  BY RightTyped
<1>2. /\ BufferRight(Points, buffer, next) /\ Shows(Points, buffer, content, value, spoiled)
      /\ ReadsFollow(Points) /\ ReadsFind(Points, content) /\ InOrder
  BY DEF Right
<1>3. /\ content' = CASE k.use = "write" -> [content EXCEPT ![k.to] = Merge(@, k.parts, k.values)]
                       [] k.use = "copy"  -> [content EXCEPT ![k.to] = Merge(@, k.parts, content[k.from])]
                       [] OTHER           -> content
      /\ UNCHANGED <<buffer, value, stream, next, waiting, now, spoiled>>
  BY DEF RunCommand
<1>4. InOrder' /\ \E h, f : h.command = k /\ Runs(h, f)
  BY <1>1, <1>2, RunsOldest
<1> HIDE DEF k
<1>5. PICK h, f : h.command = k /\ Runs(h, f)
  BY <1>4
<1>6. h \in Points /\ \A x \in Points : ~Before(x, h)
  <2>1. h \in Points /\ h \in Point /\ \A x \in Points \ {h} : Before(h, x)
    BY <1>1, <1>5 DEF Runs
  <2>2. ~Before(h, h)
    BY <2>1 DEF Before, Point
  <2> QED BY <1>1, <2>1, <2>2, NotBefore
<1>7. k \in Command /\ k.from \in Storages /\ k.to \in Storages /\ k.parts \in SUBSET Parts
  BY <1>1, <1>5, <1>6 DEF Point, Command
<1>8. Ran(h, content, content')
  <2> SUFFICES ASSUME NEW s \in Storages, NEW p \in Parts
               PROVE  IF Writes(h, s, p) THEN k.values[p] \in {Unknown, content'[s][p]}
                      ELSE content'[s][p] = content[s][p]
    BY <1>5 DEF Ran
  <2>1. CASE k.use = "write"
    <3>1. content' = [content EXCEPT ![k.to] = Merge(@, k.parts, k.values)]
      BY <1>3, <2>1
    <3> QED BY <1>1, <1>5, <1>7, <2>1, <3>1 DEF Writes, Merge
  <2>2. CASE k.use = "copy"
    <3>1. content' = [content EXCEPT ![k.to] = Merge(@, k.parts, content[k.from])]
      BY <1>3, <2>2
    <3>2. p \in k.parts /\ k.values[p] # Unknown => k.values[p] = content[k.from][p]
      BY <1>2, <1>5, <1>6, <1>7, <2>2 DEF ReadsFind, Needs
    <3> QED BY <1>1, <1>5, <1>7, <2>2, <3>1, <3>2 DEF Writes, Merge
  <2>3. CASE k.use = "read"
    BY <1>3, <1>5, <2>3 DEF Writes
  <2> QED BY <1>7, <2>1, <2>2, <2>3 DEF Command
<1>9. ReadsFollow(Points') /\ ReadsFind(Points', content')
  BY <1>1, <1>2, <1>5, <1>8, RanReads
<1>10. BufferRight(Points', buffer', next')
  BY <1>2, <1>3, <1>5, RanCovered
<1>11. WillHold(Points', buffer.mtl, content', Parts \ Staged(buffer), value)
  <2>1. WillHold(Points, buffer.mtl, content, Parts \ Staged(buffer), value)
    BY <1>2 DEF Shows
  <2>2. Parts \ Staged(buffer) \in SUBSET Parts
    OBVIOUS
  <2> QED BY <1>1, <1>5, <1>8, <2>1, <2>2, RanHolds
<1>12. ASSUME buffer.map.staging # None
       PROVE  Agrees(buffer.map.range, value, content'[buffer.map.staging])
  <2>1. ~Refers(h, buffer.map.staging) /\ buffer.map.staging \in Storages
    BY <1>1, <1>2, <1>6, <1>12 DEF BufferRight, Covers
  <2>2. \A p \in Parts : content'[buffer.map.staging][p] = content[buffer.map.staging][p]
    BY <1>8, <2>1 DEF Ran, Writes, Refers
  <2>3. Agrees(buffer.map.range, value, content[buffer.map.staging])
    BY <1>2, <1>12 DEF Shows
  <2> QED BY <1>1, <2>2, <2>3 DEF Agrees
<1>13. Shows(Points', buffer', content', value', spoiled')
  BY <1>2, <1>3, <1>11, <1>12 DEF Shows
<1>14. \A s : Free(s) => Free(s)'
  BY <1>5 DEF Free, Runs, Refers
<1>15. Turn' /\ WaitsRight'
  BY <1>3, <1>14, WaitsStay DEF Turn
<1> QED BY <1>4, <1>9, <1>10, <1>13, <1>15 DEF Right

LEMMA CompleteOldestRight ==
  ASSUME TypeOK, Right, Turn, WaitsRight, CompleteOldest
  PROVE  Right' /\ Turn' /\ WaitsRight'
<1>1. UNCHANGED <<buffer, content, value, stream, next, waiting, spoiled>>
  BY DEF CompleteOldest
<1>2. InOrder' /\ Points' = Points
  BY RightTyped, Completes DEF Right
<1>3. \A s : Free(s) => Free(s)'
  BY <1>2 DEF Free
<1> QED BY <1>1, <1>2, <1>3, StillRight, WaitsStay DEF Turn

LEMMA CommitRight ==
  ASSUME TypeOK, Right, Turn, NEW c \in Contexts, Commit(c)
  PROVE  Right' /\ Turn' /\ WaitsRight'
<1>1. /\ UNCHANGED <<buffer, content, value, next, waiting, spoiled>> /\ Flush(c)
      /\ stream[c].serial # 0 /\ waiting[c] = None
  BY DEF Commit
<1>2. Alone(c) /\ StreamTyped /\ InOrder
  BY <1>1, RightTyped DEF Turn, Alone, Right
<1>3. InOrder' /\ Points' = Points /\ \A d \in Contexts : stream'[d].serial = 0
  BY <1>1, <1>2, Flushes
<1>4. Right'
  BY <1>1, <1>3, StillRight
<1> QED BY <1>1, <1>2, <1>3, <1>4 DEF Turn, WaitsRight, Alone

LEMMA StutterRight ==
  ASSUME Right, Turn, WaitsRight, UNCHANGED vars
  PROVE  Right' /\ Turn' /\ WaitsRight'
<1>1. UNCHANGED <<buffer, content, value, stream, queue, next, waiting, spoiled>>
  BY DEF vars
<1>2. InOrder' /\ Points' = Points
  BY <1>1, SamePoints DEF Right
<1>3. \A s : Free(s) => Free(s)'
  BY <1>2 DEF Free
<1> QED BY <1>1, <1>2, <1>3, StillRight, WaitsStay DEF Turn

-----------------------------------------------------------------------------
(***************************************************************************)
(* Every step.                                                             *)
(***************************************************************************)
LEMMA CallsRight ==
  ASSUME BufferAssumption, TypeOK, Right, InTurn, NEW c \in Contexts, Draw(c) \/ Invalidate(c)
  PROVE  Right' /\ Turn' /\ WaitsRight'
<1>1. ~Mapped => buffer.map.range = {}
  BY DEF Mapped, Unmapped
<1>2. CASE Draw(c)
  <2> DEFINE call == [name |-> "draw", range |-> Parts]
  <2>1. /\ CanCall(c) /\ ~Mapped /\ Begin(c, call, FALSE) /\ call \in Call
        /\ call.name = "draw" /\ call.range = Parts
    BY <1>2 DEF Draw, Call
  <2> HIDE DEF call
  <2> QED BY <1>1, <2>1, BeginRight
<1>3. CASE Invalidate(c)
  <2> DEFINE call == [name |-> "invalidate", range |-> Parts]
  <2>1. /\ CanCall(c) /\ ~Mapped /\ Begin(c, call, TRUE) /\ call \in Call
        /\ call.name = "invalidate" /\ call.range = Parts
    BY <1>3 DEF Invalidate, Call
  <2> HIDE DEF call
  <2> QED BY <1>1, <2>1, BeginRight
<1> QED BY <1>2, <1>3

LEMMA RangedCallsRight ==
  ASSUME BufferAssumption, TypeOK, Right, InTurn, NEW c \in Contexts, NEW ps \in Ranges,
         SubData(c, ps) \/ Pack(c, ps) \/ \E name \in Maps : Map(c, ps, name)
  PROVE  Right' /\ Turn' /\ WaitsRight'
<1>1. ps \in SUBSET Parts /\ (~Mapped => buffer.map.range = {})
  BY BufferAssumption DEF BufferAssumption, Mapped, Unmapped
<1>2. CASE SubData(c, ps)
  <2> DEFINE call    == [name |-> "subData", range |-> ps]
             renames == SubDataRenames(ps)
  <2>1. /\ CanCall(c) /\ ps \cap buffer.map.range = {} /\ Begin(c, call, renames) /\ call \in Call
        /\ call.name = "subData" /\ call.range = ps /\ (renames \/ ~Busy)
    BY <1>1, <1>2 DEF SubData, Call
  <2>2. renames \in BOOLEAN /\ (renames => ~Mapped)
    BY DEF SubDataRenames
  <2> HIDE DEF call, renames
  <2> QED BY <1>1, <2>1, <2>2, BeginRight
<1>3. ASSUME NEW name \in Maps, Map(c, ps, name)
      PROVE  Right' /\ Turn' /\ WaitsRight'
  <2> DEFINE call    == [name |-> name, range |-> ps]
             renames == MapRenames(name)
  <2>1. /\ CanCall(c) /\ ~Mapped /\ Begin(c, call, renames) /\ call \in Call
        /\ call.name = name /\ call.range = ps
    BY <1>1, <1>3 DEF Map, Call
  <2>2. /\ renames \in BOOLEAN /\ (renames => name \notin {"draw", "read", "write", "pack"})
        /\ name \notin {"pack", "subData", "invalidate"}
    BY DEF MapRenames, Maps
  <2> HIDE DEF call, renames
  <2> QED BY <1>1, <2>1, <2>2, BeginRight
<1>4. CASE Pack(c, ps)
  <2> DEFINE call == [name |-> "pack", range |-> ps]
  <2>1. /\ CanCall(c) /\ ~Mapped /\ Begin(c, call, FALSE) /\ call \in Call
        /\ call.name = "pack" /\ call.range = ps
    BY <1>1, <1>4 DEF Pack, Call
  <2> HIDE DEF call
  <2> QED BY <1>1, <2>1, BeginRight
<1> QED BY <1>2, <1>3, <1>4

LEMMA NextRight ==
  ASSUME BufferAssumption, InTurn, IInv, Right, Turn, WaitsRight, [Next]_vars, "contents" \notin spoiled'
  PROVE  Right' /\ Turn' /\ WaitsRight'
<1> DEFINE RightNext == Right' /\ Turn' /\ WaitsRight'
<1>1. TypeOK
  BY DEF IInv
<1> HIDE DEF RightNext
<1>2. ASSUME NEW c \in Contexts,
             Draw(c) \/ Data(c) \/ Invalidate(c) \/ Unmap(c) \/ UnmapStaged(c) \/ Delete(c)
      PROVE  RightNext
  BY <1>1, <1>2, CallsRight, DataRight, UnmapRight, UnmapStagedRight, DeleteRight DEF RightNext
<1>3. ASSUME NEW c \in Contexts, NEW ps \in Ranges, SubDataCopied(c, ps) \/ MapStaged(c, ps)
      PROVE  RightNext
  BY <1>1, <1>3, SubDataCopiedRight, MapStagedRight DEF RightNext
<1>4. ASSUME NEW c \in Contexts, NEW ps \in Ranges, NEW known \in BOOLEAN, GpuWrite(c, ps, known)
      PROVE  RightNext
  BY <1>1, <1>4, GpuWritesRight DEF RightNext
<1>5. ASSUME NEW c \in Contexts, NEW ps \in Ranges,
             SubData(c, ps) \/ Pack(c, ps) \/ \E name \in Maps : Map(c, ps, name)
      PROVE  RightNext
  BY <1>1, <1>5, RangedCallsRight DEF RightNext
<1>6. ASSUME NEW c \in Contexts, Resume(c) \/ Commit(c)
      PROVE  RightNext
  BY <1>1, <1>6, ResumeRight, CommitRight DEF RightNext
<1>7. ASSUME NEW p \in Parts, WriteMapped(p)
      PROVE  RightNext
  BY <1>1, <1>7, WriteMappedRight DEF RightNext
<1>8. ASSUME RunCommand \/ CompleteOldest
      PROVE  RightNext
  BY <1>1, <1>8, RunCommandRight, CompleteOldestRight DEF RightNext
<1>9. ASSUME Done \/ UNCHANGED vars
      PROVE  RightNext
  BY <1>9, StutterRight DEF Done, RightNext
<1>10. ASSUME NEW c \in Contexts, NEW ps \in Ranges,
              \/ SubData(c, ps) \/ SubDataCopied(c, ps) \/ Pack(c, ps) \/ MapStaged(c, ps)
              \/ \E known \in BOOLEAN : GpuWrite(c, ps, known)
              \/ \E name \in Maps : Map(c, ps, name)
       PROVE  RightNext
  BY <1>3, <1>4, <1>5, <1>10
<1>11. RightNext
  BY <1>2, <1>6, <1>7, <1>8, <1>9, <1>10 DEF Next
<1> QED BY <1>11 DEF RightNext

LEMMA BeginsRight ==
  ASSUME BufferAssumption, Init
  PROVE  Right /\ Turn /\ WaitsRight
<1>1. PICK s \in Storages, large \in BOOLEAN, immutable \in BOOLEAN :
       buffer = [large |-> large, immutable |-> immutable, mtl |-> s, lastUse |-> 0,
                 lastWrite |-> 0, version |-> 1,
                 retired |-> <<>>, retiredStaging |-> <<>>, map |-> Unmapped,
                 shadowValid |-> FALSE, shadow |-> Undefined,
                 scanVersion |-> 0, scan |-> Undefined]
  BY DEF Init
<1>2. /\ content = [z \in Storages |-> [p \in Parts |-> 0]] /\ value = [p \in Parts |-> 0]
      /\ stream = [c \in Contexts |-> NoBuffer] /\ queue = <<>> /\ next = 1
      /\ waiting = [c \in Contexts |-> None]
  BY DEF Init
<1>3. \A c \in Contexts : stream[c].serial = 0 /\ waiting[c] = None
  BY <1>2 DEF NoBuffer
<1>4. Points = {}
  BY <1>2, <1>3 DEF Points, Pending
<1>5. InOrder
  BY <1>2, <1>3 DEF InOrder, Recording
<1>6. /\ buffer.mtl = s /\ buffer.map = Unmapped /\ buffer.lastUse = 0 /\ buffer.lastWrite = 0
      /\ buffer.retired = <<>> /\ buffer.retiredStaging = <<>> /\ buffer.shadowValid = FALSE
      /\ buffer.scanVersion = 0 /\ buffer.version = 1
  BY <1>1
<1>7. Staged(buffer) = {} /\ buffer.map.staging = None
  BY <1>6 DEF Staged, Unmapped
<1>8. BufferRight(Points, buffer, next)
  <2>1. /\ Entries(buffer.retired) = {} /\ Entries(buffer.retiredStaging) = {}
        /\ OfPool(buffer.retired) = {} /\ OfPool(buffer.retiredStaging) = {}
    BY <1>6 DEF Entries, OfPool
  <2>2. s # None
    BY BufferAssumption DEF BufferAssumption
  <2>3. Distinct(buffer.retired) /\ Distinct(buffer.retiredStaging)
    BY <1>6 DEF Distinct
  <2>4. Apart(buffer)
    BY <1>6, <1>7, <2>1, <2>2, <2>3 DEF Apart
  <2>5. Given(buffer, next)
    BY <1>2, <1>6, <2>1 DEF Given
  <2> QED BY <1>4, <1>6, <2>4, <2>5 DEF BufferRight, MappingRight
<1>9. ReadsFollow(Points) /\ ReadsFind(Points, content)
  BY <1>4 DEF ReadsFollow, ReadsFind
<1>10. Shows(Points, buffer, content, value, spoiled)
  <2>1. WillHold(Points, buffer.mtl, content, Parts, value)
    BY <1>2, <1>4, <1>6 DEF WillHold
  <2> QED BY <1>6, <1>7, <2>1 DEF Shows, ShadowShows, ScanShows
<1> QED BY <1>3, <1>5, <1>8, <1>9, <1>10 DEF Right, Turn, WaitsRight

LEMMA RightReads ==
  ASSUME TypeOK, Right
  PROVE  ReadsCurrent
<1> DEFINE k == Head(Oldest)
           r == queue[1]
           h == At(r, 1)
<1> SUFFICES ASSUME queue # <<>>, Oldest # <<>>, k.use \in {"read", "copy"},
                    NEW p \in k.parts, k.values[p] # Unknown
             PROVE  k.values[p] = content[k.from][p]
  BY DEF ReadsCurrent
<1>1. /\ StreamTyped /\ InOrder /\ ReadsFind(Points, content) /\ Points \in SUBSET Point
  BY RightTyped DEF Right
<1>2. /\ queue \in Seq(Recorded) /\ Head(queue) = r /\ 1 \in DOMAIN queue /\ r \in Pending
  BY <1>1, HeadFirst, PendingIs DEF StreamTyped
<1>3. r.commands \in Seq(Command) /\ Oldest = r.commands
  BY <1>1, <1>2, PendingTyped DEF Oldest
<1>4. k = r.commands[1] /\ 1 \in DOMAIN r.commands
  BY <1>3
<1>5. h \in Points /\ h.command = k /\ h.serial = r.serial /\ h.at = 1
  BY <1>2, <1>4, PointIs DEF At
<1> HIDE DEF k, h
<1>6. k \in Command
  BY <1>1, <1>5 DEF Point
<1>7. Needs(h, k.from, p) /\ k.from \in Storages /\ p \in Parts
  BY <1>5, <1>6 DEF Needs, Command
<1>8. ASSUME NEW m \in Points, Before(m, h)
      PROVE  FALSE
  <2>1. PICK q \in Pending : \E j \in DOMAIN q.commands : m = At(q, j)
    BY PointIs
  <2>2. PICK j \in DOMAIN q.commands : m.serial = q.serial /\ m.at = j
    BY <2>1 DEF At
  <2>3. q = r \/ r.serial < q.serial
    BY <1>1, HeadFirst
  <2>4. q.serial \in Nat /\ r.serial \in Nat /\ j \in Nat /\ j >= 1
    <3>1. q.serial \in Nat /\ r.serial \in Nat /\ q.commands \in Seq(Command)
      BY <1>1, <1>2, PendingTyped
    <3> QED BY <3>1, <2>2
  <2> QED BY <1>5, <1>8, <2>2, <2>3, <2>4 DEF Before
<1> QED BY <1>1, <1>5, <1>7, <1>8 DEF ReadsFind

LEMMA RightCopies ==
  ASSUME TypeOK, Right
  PROVE  CopiesCurrent
<1>1. Shows(Points, buffer, content, value, spoiled)
  BY DEF Right
<1>2. ContentsCurrent
  <2>1. Complete(buffer.lastWrite) =>
          Agrees(Parts \ Staged(buffer), value, content[buffer.mtl])
    BY CompleteUse, UsePast
  <2> QED BY <2>1 DEF ContentsCurrent, Agrees, Staged
<1>3. ShadowCurrent
  BY <1>1 DEF ShadowCurrent, Shows, ShadowShows, Agrees, Staged
<1>4. ScanCurrent
  <2>1. ~Mapped => Staged(buffer) = {} /\ ~InPlace(buffer)
    BY DEF Mapped, Staged, Unmapped, InPlace
  <2> QED BY <1>1, <2>1 DEF ScanCurrent, Scanned, Shows, ScanShows, Agrees
<1> QED BY <1>2, <1>3, <1>4 DEF CopiesCurrent

(* Where contexts take turns: Right holds until a glUnmapBuffer commits a  *)
(* glFlush that was deferred.                                              *)
LEMMA AlwaysRight ==
  ASSUME InTurn
  PROVE  Spec => [](IInv /\ ("contents" \notin spoiled => Right /\ Turn /\ WaitsRight))
<1> DEFINE All == IInv /\ ("contents" \notin spoiled => Right /\ Turn /\ WaitsRight)
<1>1. Init => All
  BY Begins, BeginsRight, BufferAssumption
<1>2. All /\ [Next]_vars => All'
  BY NextKeeps, NextRight, Spoils, BufferAssumption DEF IInv, SpoilsOnly
<1> QED BY <1>1, <1>2, PTL DEF Spec

(* For any contexts, storages, parts and calls, where each context flushes *)
(* before another uses the buffer: each command the GPU runs that reads    *)
(* the buffer finds the contents the buffer had when the command was       *)
(* recorded, however the buffer has been written, renamed, orphaned,       *)
(* mapped, copied or packed into or deleted since, and whichever storage   *)
(* has been retired and taken again (buffer.mm, retireStorage and          *)
(* takeRetired).  Excused by the property: all that follows a              *)
(* glUnmapBuffer whose blit commits a glFlush that was deferred, which the *)
(* code may do (buffer.mm:682) and after which a CPU write may be          *)
(* overwritten by the copy.                                                *)
THEOREM ReadsAreCurrent ==
  ASSUME InTurn
  PROVE  Spec => []ReadsCurrent
<1>1. IInv /\ ("contents" \notin spoiled => Right /\ Turn /\ WaitsRight) => ReadsCurrent
  BY RightReads DEF IInv, ReadsCurrent
<1> QED BY <1>1, AlwaysRight, PTL

(* For any contexts, storages, parts and calls, where each context flushes *)
(* before another uses the buffer: whatever the CPU reads is current: the  *)
(* storage once the last write is complete, the shadow while it is valid,  *)
(* and the scans of this version (Buffer::lastWriteSerial, shadow,         *)
(* version).  Excused by the property: the same glUnmapBuffer, the shadow  *)
(* there was when a result was written by the CPU, until it is started     *)
(* anew, and the scan there was when a buffer mapped for writing was       *)
(* deleted, until the next one.                                            *)
THEOREM CopiesAreCurrent ==
  ASSUME InTurn
  PROVE  Spec => []CopiesCurrent
<1>1. IInv /\ ("contents" \notin spoiled => Right /\ Turn /\ WaitsRight) => CopiesCurrent
  BY RightCopies DEF IInv, CopiesCurrent, ContentsCurrent, ShadowCurrent, ScanCurrent
<1> QED BY <1>1, AlwaysRight, PTL

-----------------------------------------------------------------------------
(***************************************************************************)
(* SettingsFile: what a process has in its environment.                    *)
(***************************************************************************)
(* applySettingsFile() of a process that, without what it or a parent had  *)
(* from the file, has what it was started with.                            *)
LEMMA FileApplied ==
  ASSUME NEW p, p = [env |-> p.env, shell |-> p.shell, applied |-> p.applied, off |-> p.off, read |-> p.read],
         \A n \in Names : Dropped(p)[n] = p.shell[n],
         process' = ApplySettingsFile(p)
  PROVE  ProcessIsRight' /\ EnvironmentWins'
<1> DEFINE env == Dropped(p)
           applied == IF p.off THEN {} ELSE {file[i].name : i \in DOMAIN file} \cap {n \in Names : env[n] = Unset}
           env2 == [n \in Names |-> IF n \in applied THEN FirstValue(file, n) ELSE env[n]]
<1>1. process' = [p EXCEPT !.env = env2, !.applied = applied, !.read = file]
  BY Zenon DEF ApplySettingsFile
<1>2. \A n \in Names : n \in applied <=> ~p.off /\ (\E i \in DOMAIN file : file[i].name = n) /\ p.shell[n] = Unset
  OBVIOUS
<1>3. \A n \in Names : env2[n] = IF n \in applied THEN FirstValue(file, n) ELSE p.shell[n]
  OBVIOUS
<1> HIDE DEF env, applied, env2
<1>4. /\ process' = [env |-> env2, shell |-> p.shell, applied |-> applied, off |-> p.off, read |-> file]
  BY <1>1
<1>5. /\ process'.env = env2 /\ process'.shell = p.shell /\ process'.applied = applied
      /\ process'.read = file
  BY <1>4
<1>6. process'.off = p.off
  BY <1>4
<1>7. ProcessIsRight'
  <2>1. process' = [env |-> process'.env, shell |-> process'.shell, applied |-> process'.applied,
                    off |-> process'.off, read |-> process'.read]
    BY <1>4, <1>5, <1>6
  <2>2. \A n \in Names : IF n \in process'.applied THEN process'.shell[n] = Unset
                         ELSE process'.env[n] = process'.shell[n]
    BY <1>2, <1>3, <1>5
  <2> QED
    BY <2>1, <2>2 DEF ProcessIsRight
<1>8. ASSUME NEW n \in Names
      PROVE  process'.env[n] =
               IF process'.shell[n] # Unset \/ process'.off \/ \A k \in DOMAIN process'.read : process'.read[k].name # n
               THEN process'.shell[n] ELSE FirstValue(process'.read, n)
  BY <1>2, <1>3, <1>5, <1>6
<1>9. EnvironmentWins'
  BY <1>8 DEF EnvironmentWins
<1> QED
  BY <1>7, <1>9

(* Whoever started a process, and whatever becomes of the file: what it    *)
(* was started with counts, and the rest is in the file as it read it.     *)
THEOREM EnvironmentCounts == SettingsSpec => []EnvironmentWins
<1>1. SettingsInit => ProcessIsRight /\ EnvironmentWins
  BY DEF SettingsInit, ProcessIsRight, EnvironmentWins
<1>2. ProcessIsRight /\ EnvironmentWins /\ [SettingsNext]_settingsVars => ProcessIsRight' /\ EnvironmentWins'
  <2> SUFFICES ASSUME ProcessIsRight, EnvironmentWins, [SettingsNext]_settingsVars
               PROVE  ProcessIsRight' /\ EnvironmentWins'
    OBVIOUS
  <2>1. ASSUME process' = process \/ process' = Unset
        PROVE  ProcessIsRight' /\ EnvironmentWins'
    <3>1. CASE process' = Unset
      BY <3>1 DEF ProcessIsRight, EnvironmentWins
    <3>2. CASE process' = process
      <4>1. ProcessIsRight'
        BY <3>2 DEF ProcessIsRight
      <4>2. EnvironmentWins'
        BY <3>2 DEF EnvironmentWins, FirstValue
      <4> QED
        BY <4>1, <4>2
    <3> QED
      BY <2>1, <3>1, <3>2
  <2>2. CASE Start
    <3>1. PICK shell \in Shells, off \in BOOLEAN :
            process' = ApplySettingsFile([env |-> shell, shell |-> shell, applied |-> {}, off |-> off, read |-> <<>>])
      BY <2>2 DEF Start
    <3> DEFINE p == [env |-> shell, shell |-> shell, applied |-> {}, off |-> off, read |-> <<>>]
    <3>2. /\ p = [env |-> p.env, shell |-> p.shell, applied |-> p.applied, off |-> p.off, read |-> p.read]
          /\ p.env = shell /\ p.shell = shell /\ p.applied = {}
      OBVIOUS
    <3>3. process' = ApplySettingsFile(p)
      BY <3>1
    <3> HIDE DEF p
    <3>4. \A n \in Names : Dropped(p)[n] = p.shell[n]
      BY <3>2 DEF Dropped
    <3> QED
      BY <3>2, <3>3, <3>4, FileApplied
  <2>3. CASE StartChild
    <3>1. process # Unset /\ process' = ApplySettingsFile(process)
      BY <2>3 DEF StartChild
    <3>2. \A n \in Names : Dropped(process)[n] = process.shell[n]
      BY <3>1 DEF ProcessIsRight, Dropped
    <3>3. process = [env |-> process.env, shell |-> process.shell, applied |-> process.applied,
                     off |-> process.off, read |-> process.read]
      BY <3>1 DEF ProcessIsRight
    <3> QED
      BY <3>1, <3>2, <3>3, FileApplied
  <2>4. CASE Open \/ Change \/ Quit \/ EditByHand \/ ProcessEnds \/ UNCHANGED settingsVars
    <3>1. process' = process \/ process' = Unset
      BY <2>4 DEF Open, Change, Save, Quit, EditByHand, ProcessEnds, settingsVars
    <3> QED
      BY <2>1, <3>1
  <2> QED
    BY <2>2, <2>3, <2>4 DEF SettingsNext
<1> QED
  BY <1>1, <1>2, PTL DEF SettingsSpec

-----------------------------------------------------------------------------
(***************************************************************************)
(* AppUpdate, wherever the application is killed.                          *)
(***************************************************************************)
(* An application that runs is none of the others.                         *)
LEMMA IsRunning ==
  ASSUME UpdateAssumption, UpdateTypes, proc # NoApp
  PROVE  /\ proc \in Procs /\ proc.place \in Places /\ proc.version \in Nat /\ proc.by \in Signers
         /\ proc.step \in Steps /\ proc.todo \subseteq Wines /\ proc.failed \subseteq Wines
         /\ proc.taken \in BOOLEAN /\ proc.release \in Feeds \cup {NoApp}
BY DEF UpdateTypes, Procs

LEMMA StepTaken ==
  ASSUME UpdateAssumption, proc \in Procs, NEW s \in Steps, GoesTo(s)
  PROVE  /\ proc' \in Procs /\ proc' # NoApp /\ proc'.step = s
         /\ proc'.place = proc.place /\ proc'.version = proc.version /\ proc'.by = proc.by
         /\ proc'.release = proc.release /\ proc'.taken = proc.taken
         /\ proc'.todo = proc.todo /\ proc'.failed = proc.failed
BY DEF GoesTo, Procs, UpdateAssumption

(* A published release, or a copy of the application.                      *)
LEMMA RecordsAre ==
  ASSUME UpdateAssumption
  PROVE  /\ \A f \in Feeds : f # NoApp /\ f.version \in Nat /\ f.by \in Signers
         /\ \A a \in Apps : a # NoApp /\ a.version \in Nat /\ a.by \in Signers /\ a.whole \in BOOLEAN
BY DEF UpdateAssumption, Feeds, Apps

LEMMA AppsAre ==
  ASSUME NEW v \in Nat, NEW b \in Signers, NEW w \in BOOLEAN
  PROVE  [version |-> v, by |-> b, whole |-> w] \in Apps
BY DEF Apps

LEMMA UpdateBegins ==
  ASSUME UpdateAssumption, UpdateInit
  PROVE  UpdateIInv
<1>1. PICK installed \in BOOLEAN, by \in {"team", "source"} :
        apps = [p \in Places |-> IF p = "/Applications" /\ ~installed THEN NoApp
                                 ELSE App(1, IF p = "elsewhere" THEN by ELSE "team")]
  BY DEF UpdateInit
<1>2. \A b \in {"team", "source"} : App(1, b) \in Apps /\ App(1, b).version = 1 /\ App(1, b).whole
                                     /\ App(1, b).by = b /\ App(1, b) # NoApp
  <2> SUFFICES ASSUME NEW b \in {"team", "source"}
               PROVE  /\ App(1, b) \in Apps /\ App(1, b).version = 1 /\ App(1, b).whole
                      /\ App(1, b).by = b /\ App(1, b) # NoApp
    OBVIOUS
  <2>1. App(1, b) = [version |-> 1, by |-> b, whole |-> TRUE] /\ b \in Signers
    BY DEF App, Signers
  <2>2. App(1, b).version = 1 /\ App(1, b).whole /\ App(1, b).by = b
    BY <2>1
  <2>3. App(1, b) \in Apps
    BY <2>1, AppsAre
  <2> QED
    BY <2>2, <2>3 DEF UpdateAssumption
<1>3. UpdateTypes
  <2>1. \A p \in Places : (IF p = "elsewhere" THEN by ELSE "team") \in {"team", "source"}
    OBVIOUS
  <2>2. apps \in [Places -> Apps \cup {NoApp}]
    BY <1>1, <1>2, <2>1
  <2> QED
    BY <2>2 DEF UpdateInit, UpdateTypes
<1>4. CopiesAreWhole
  <2>1. \A p \in Places : apps[p] # NoApp => apps[p] = App(1, IF p = "elsewhere" THEN by ELSE "team")
    BY <1>1
  <2>2. {"/Applications", "image"} \subseteq Places /\ "elsewhere" \notin {"/Applications", "image"}
    BY DEF Places
  <2>3. \A p \in Places : newest[p] = IF apps[p] = NoApp THEN 0 ELSE 1
    BY DEF UpdateInit
  <2> QED
    BY <1>2, <2>1, <2>2, <2>3 DEF CopiesAreWhole
<1>5. NoneAhead
  BY DEF UpdateInit, NoneAhead, Latest
<1> QED
  BY <1>3, <1>4, <1>5 DEF UpdateIInv, PendingIsNewest, ProcIsRight, UpdateInit

(* Releases are published one after the other.                             *)
LEMMA LaterPublished ==
  ASSUME UpdateAssumption, UpdateIInv, Publish \/ UploadImage
  PROVE  UpdateIInv'
<1>1. /\ feed' \in Feeds /\ UNCHANGED <<apps, staged, pending, wines, proc, newest, lowered>>
      /\ Latest \in Nat /\ feed'.version >= Latest
  <2>1. CASE Publish
    <3> DEFINE begun == IF feed = NoApp THEN 2 ELSE feed.version + 1
    <3>1. PICK r \in Releases, image \in BOOLEAN :
            feed' = [version |-> begun, image |-> image, sum |-> r.sum, by |-> r.by,
                     inside |-> IF r.inside = 0 THEN begun ELSE r.inside]
      BY <2>1 DEF Publish
    <3>2. r.sum \in BOOLEAN /\ r.by \in Signers /\ r.inside \in Nat
      <4>1. CASE r = [sum |-> TRUE, by |-> "team", inside |-> 0]
        BY <4>1 DEF Signers
      <4>2. CASE r = [sum |-> FALSE, by |-> "team", inside |-> 0]
        BY <4>2 DEF Signers
      <4>3. CASE r = [sum |-> TRUE, by |-> "other", inside |-> 0]
        BY <4>3 DEF Signers
      <4>4. CASE r = [sum |-> TRUE, by |-> "team", inside |-> 1]
        BY <4>4 DEF Signers
      <4> QED
        BY <4>1, <4>2, <4>3, <4>4 DEF Releases
    <3>3. begun \in Nat /\ Latest \in Nat /\ begun >= Latest
      BY RecordsAre DEF UpdateIInv, UpdateTypes, Latest
    <3> HIDE DEF begun
    <3>4. feed' \in Feeds /\ feed'.version = begun
      BY <3>1, <3>2, <3>3 DEF Feeds
    <3> QED
      BY <2>1, <3>3, <3>4 DEF Publish
  <2>2. CASE UploadImage
    <3>1. feed \in Feeds /\ feed # NoApp /\ Latest = feed.version /\ feed.version \in Nat
      BY <2>2, RecordsAre DEF UploadImage, UpdateIInv, UpdateTypes, Latest
    <3>2. feed' \in Feeds /\ feed'.version = feed.version
      BY <2>2, <3>1 DEF UploadImage, Feeds
    <3> QED
      BY <2>2, <3>1, <3>2 DEF UploadImage
  <2> QED
    BY <2>1, <2>2
<1>2. Latest' = feed'.version
  BY <1>1, RecordsAre DEF Latest
<1>3. UpdateTypes'
  BY <1>1 DEF UpdateIInv, UpdateTypes
<1>4. NoneAhead'
  BY <1>1, <1>2, <1>3 DEF UpdateIInv, UpdateTypes, NoneAhead, Feeds
<1>5. ProcIsRight'
  <2> SUFFICES ASSUME proc' # NoApp
               PROVE  ProcIsRight'
    BY DEF ProcIsRight
  <2>1. proc # NoApp /\ proc.release \in Feeds => proc.release.version \in Nat
    BY RecordsAre
  <2>2. feed'.version \in Nat
    BY <1>1, RecordsAre
  <2> QED
    BY <1>1, <1>2, <2>1, <2>2 DEF UpdateIInv, ProcIsRight, Destination, InstallLocation
<1> QED
  BY <1>1, <1>3, <1>4, <1>5 DEF UpdateIInv, CopiesAreWhole, PendingIsNewest

(* Steps that change the application that runs, and nothing else.          *)
LEMMA OnlyProc ==
  ASSUME UpdateAssumption, UpdateIInv, proc # NoApp, proc' \in Procs \cup {NoApp}, ProcIsRight',
         UNCHANGED <<feed, apps, staged, pending, wines, newest, lowered>>
  PROVE  UpdateIInv'
<1>1. UpdateTypes'
  BY DEF UpdateIInv, UpdateTypes
<1>2. pending = NoApp
  BY DEF UpdateIInv, PendingIsNewest
<1> QED
  BY <1>1, <1>2 DEF UpdateIInv, NoneAhead, Latest, CopiesAreWhole, PendingIsNewest

LEMMA LaunchKeeps ==
  ASSUME UpdateAssumption, UpdateIInv, NEW place \in Places, Launch(place)
  PROVE  UpdateIInv'
<1> DEFINE copy == apps[place]
           taken == pending = copy.version
           todo == IF taken THEN {w \in Wines : wines[w] # 0} ELSE {}
           begun == [place |-> place, version |-> copy.version, by |-> copy.by, release |-> NoApp,
                    taken |-> taken, step |-> IF taken THEN "updating" ELSE "looking",
                    todo |-> todo, failed |-> {}]
<1>1. /\ proc = NoApp /\ copy # NoApp /\ proc' = begun /\ pending' = NoApp
      /\ UNCHANGED <<feed, apps, staged, wines, newest, lowered>>
  BY DEF Launch
<1>2. /\ copy \in Apps /\ copy.version \in Nat /\ copy.by \in Signers
      /\ copy.version = newest[place]
      /\ place # "elsewhere" => copy.by = "team"
  <2>1. copy \in Apps
    BY <1>1 DEF UpdateIInv, UpdateTypes
  <2>2. copy.version \in Nat /\ copy.by \in Signers
    BY <2>1, RecordsAre
  <2>3. copy.version = newest[place]
    BY <1>1 DEF UpdateIInv, CopiesAreWhole
  <2>4. place # "elsewhere" => copy.by = "team"
    BY <1>1 DEF UpdateIInv, CopiesAreWhole, Places
  <2> QED
    BY <2>1, <2>2, <2>3, <2>4
<1>3. taken \in BOOLEAN /\ todo \subseteq Wines
      /\ (IF taken THEN "updating" ELSE "looking") \in Steps
  BY DEF Steps
<1>4. taken => \A w \in Wines : wines[w] <= copy.version
  BY <1>1, <1>2, UpdateAssumption DEF UpdateIInv, PendingIsNewest, UpdateAssumption
<1>5. \A w \in Wines \ todo : taken => wines[w] = 0
  OBVIOUS
<1>6. ~taken => todo = {}
  OBVIOUS
<1> HIDE DEF taken, todo, copy
<1>7. begun \in Procs
  BY <1>2, <1>3 DEF Procs
<1>8. /\ begun.place = place /\ begun.version = copy.version /\ begun.by = copy.by
      /\ begun.step = (IF taken THEN "updating" ELSE "looking")
      /\ begun.todo = todo /\ begun.failed = {}
  OBVIOUS
<1>9. begun.taken = taken
  OBVIOUS
<1> HIDE DEF begun
<1>10. proc' \in Procs /\ proc' # NoApp
  BY <1>1, <1>7 DEF UpdateAssumption
<1>11. ProcIsRight'
  <2>1. CASE taken
    <3>1. proc'.step = "updating" /\ proc'.place = place /\ apps' = apps /\ wines' = wines
          /\ proc'.version = copy.version /\ proc'.by = copy.by /\ proc'.todo = todo /\ proc'.failed = {}
          /\ newest' = newest /\ proc'.taken
      BY <1>1, <1>8, <1>9, <2>1
    <3> QED
      BY <1>1, <1>2, <1>4, <1>5, <2>1, <3>1 DEF ProcIsRight, copy
  <2>2. CASE ~taken
    <3>1. proc'.step = "looking" /\ proc'.place = place /\ apps' = apps /\ ~proc'.taken
          /\ proc'.by = copy.by /\ proc'.todo = {}
      BY <1>1, <1>6, <1>8, <1>9, <2>2
    <3> QED
      BY <1>1, <1>2, <2>2, <3>1 DEF ProcIsRight, copy
  <2> QED
    BY <2>1, <2>2
<1>12. UpdateTypes'
  BY <1>1, <1>10 DEF UpdateIInv, UpdateTypes
<1> QED
  BY <1>1, <1>11, <1>12 DEF UpdateIInv, NoneAhead, Latest, CopiesAreWhole, PendingIsNewest

(* One Wine has the application's version, or is reported.                 *)
LEMMA WineKeeps ==
  ASSUME UpdateAssumption, UpdateIInv, NEW w \in Wines, UpdateWine(w)
  PROVE  UpdateIInv'
<1>1. /\ proc # NoApp /\ proc.step = "updating" /\ w \in proc.todo
      /\ UNCHANGED <<feed, apps, staged, pending, newest>>
  BY DEF UpdateWine, AppAt
<1>2. /\ proc \in Procs /\ proc.place \in Places /\ proc.version \in Nat
      /\ proc.todo \subseteq Wines /\ proc.failed \subseteq Wines
      /\ apps[proc.place] # NoApp /\ apps[proc.place].version = proc.version
      /\ proc.version = newest[proc.place]
      /\ pending = NoApp /\ \A x \in Wines : wines[x] <= proc.version /\ wines[x] \in Nat
  BY <1>1, IsRunning DEF UpdateIInv, ProcIsRight, CopiesAreWhole, PendingIsNewest, UpdateTypes
<1>3. CASE /\ wines' = [wines EXCEPT ![w] = apps[proc.place].version]
           /\ lowered' = (lowered \/ wines[w] > apps[proc.place].version)
           /\ proc' = [proc EXCEPT !.todo = @ \ {w}]
  <2>1. /\ proc' \in Procs /\ proc'.todo = proc.todo \ {w} /\ proc'.failed = proc.failed
        /\ proc'.step = proc.step /\ proc'.place = proc.place /\ proc'.version = proc.version
        /\ proc'.by = proc.by /\ proc'.taken = proc.taken
    BY <1>2, <1>3 DEF Procs
  <2>2. \A x \in Wines : wines'[x] = IF x = w THEN proc.version ELSE wines[x]
    BY <1>2, <1>3 DEF UpdateIInv, UpdateTypes
  <2>3. wines' \in [Wines -> Nat]
    BY <1>2, <1>3 DEF UpdateIInv, UpdateTypes
  <2>4. lowered' = FALSE
    <3>1. ~(wines[w] > apps[proc.place].version)
      BY <1>2
    <3>2. ~lowered
      BY DEF UpdateIInv, UpdateTypes
    <3> QED
      BY <1>3, <3>1, <3>2
  <2>5. UpdateTypes'
    BY <1>1, <2>1, <2>3, <2>4 DEF UpdateIInv, UpdateTypes
  <2>6. NoneAhead'
    BY <1>1, <1>2, <2>2 DEF UpdateIInv, NoneAhead, Latest
  <2>7. ProcIsRight'
    BY <1>1, <1>2, <2>1, <2>2 DEF UpdateIInv, ProcIsRight
  <2> QED
    BY <1>1, <1>2, <2>5, <2>6, <2>7 DEF UpdateIInv, CopiesAreWhole, PendingIsNewest
<1>4. CASE /\ proc' = [proc EXCEPT !.todo = @ \ {w}, !.failed = @ \cup {w}]
           /\ UNCHANGED <<wines, lowered>>
  <2>1. /\ proc' \in Procs /\ proc'.todo = proc.todo \ {w} /\ proc'.failed = proc.failed \cup {w}
        /\ proc'.step = proc.step /\ proc'.place = proc.place /\ proc'.version = proc.version
        /\ proc'.by = proc.by /\ proc'.taken = proc.taken
    <3> DEFINE mid == [proc EXCEPT !.todo = @ \ {w}]
    <3>1. /\ mid \in Procs /\ mid.todo = proc.todo \ {w} /\ mid.failed = proc.failed
          /\ mid.step = proc.step /\ mid.place = proc.place /\ mid.version = proc.version
          /\ mid.by = proc.by /\ mid.taken = proc.taken
      BY <1>2 DEF Procs
    <3>2. proc' = [mid EXCEPT !.failed = @ \cup {w}]
      BY <1>4
    <3> HIDE DEF mid
    <3> QED
      BY <1>2, <3>1, <3>2 DEF Procs
  <2>2. ProcIsRight'
    BY <1>1, <1>2, <1>4, <2>1 DEF UpdateIInv, ProcIsRight
  <2> QED
    BY <1>1, <1>4, <2>1, <2>2, OnlyProc
<1> QED
  BY <1>3, <1>4 DEF UpdateWine

(* The application goes from one step to another, and only it.             *)
LEMMA OnlyStep ==
  ASSUME UpdateAssumption, UpdateIInv, proc # NoApp, NEW s \in Steps, GoesTo(s),
         UNCHANGED <<feed, apps, staged, pending, wines, newest, lowered>>,
         \/ s = "open"
         \/ proc.step = "updating" /\ s = "looking" /\ proc.todo = {}
         \/ proc.step = "checking" /\ s = "removing" /\ Trusted(proc.release.by, proc.by)
  PROVE  UpdateIInv'
<1>1. /\ proc \in Procs
      /\ proc' \in Procs /\ proc' # NoApp /\ proc'.step = s
      /\ proc'.place = proc.place /\ proc'.version = proc.version /\ proc'.by = proc.by
      /\ proc'.release = proc.release /\ proc'.taken = proc.taken
      /\ proc'.todo = proc.todo /\ proc'.failed = proc.failed
  BY StepTaken, IsRunning DEF UpdateIInv
<1>2. Latest' = Latest
  BY DEF Latest
<1>3. ProcIsRight'
  <2>1. CASE s = "open"
    BY <1>1, <2>1 DEF UpdateIInv, ProcIsRight
  <2>2. CASE proc.step = "updating" /\ s = "looking" /\ proc.todo = {}
    BY <1>1, <2>2 DEF UpdateIInv, ProcIsRight
  <2>3. CASE proc.step = "checking" /\ s = "removing" /\ Trusted(proc.release.by, proc.by)
    BY <1>1, <1>2, <2>3 DEF UpdateIInv, ProcIsRight, Trusted
  <2> QED
    BY <2>1, <2>2, <2>3
<1> QED
  BY <1>1, <1>3, OnlyProc

(* The latest release, which nothing here is ahead of.                     *)
LEMMA LookKeeps ==
  ASSUME UpdateAssumption, UpdateIInv, Look
  PROVE  UpdateIInv'
<1>1. /\ proc # NoApp /\ proc.step = "looking"
      /\ UNCHANGED <<feed, apps, staged, pending, wines, newest, lowered>>
  BY DEF Look, AppAt
<1>2. CASE GoesTo("open")
  BY <1>1, <1>2, OnlyStep DEF Steps
<1>3. CASE /\ feed # NoApp
           /\ proc' = [proc EXCEPT !.step = "checking", !.release = feed]
  <2>1. proc \in Procs /\ feed \in Feeds /\ Latest = feed.version
    BY <1>1, <1>3, IsRunning DEF UpdateIInv, UpdateTypes, Latest
  <2>2. /\ proc' \in Procs /\ proc'.step = "checking" /\ proc'.release = feed
        /\ proc'.place = proc.place /\ proc'.by = proc.by
    <3> DEFINE mid == [proc EXCEPT !.step = "checking"]
    <3>1. /\ mid \in Procs /\ mid.step = "checking" /\ mid.place = proc.place /\ mid.by = proc.by
      BY <2>1 DEF Procs, Steps
    <3>2. proc' = [mid EXCEPT !.release = feed]
      BY <1>3
    <3> HIDE DEF mid
    <3> QED
      BY <2>1, <3>1, <3>2 DEF Procs
  <2>3. Latest' = Latest /\ Latest <= Latest
    BY <1>1, <2>1, RecordsAre DEF Latest
  <2>4. ProcIsRight'
    BY <1>1, <2>1, <2>2, <2>3 DEF UpdateIInv, ProcIsRight, NoneAhead
  <2> QED
    BY <1>1, <2>2, <2>4, OnlyProc
<1> QED
  BY <1>2, <1>3 DEF Look

(* What the application replaces.                                          *)
LEMMA DestinationIs ==
  ASSUME UpdateAssumption, UpdateIInv, proc # NoApp
  PROVE  /\ Destination \in Places /\ Destination # "image"
         /\ Destination = "/Applications" => proc.by = "team"
<1>1. proc.place \in Places /\ proc.place # "elsewhere" => proc.by = "team"
  BY IsRunning DEF UpdateIInv, ProcIsRight
<1>2. proc.place \in Places
  BY IsRunning DEF UpdateIInv
<1> QED
  BY <1>1, <1>2 DEF UpdateIInv, ProcIsRight, Destination, InstallLocation, Places

LEMMA StageKeeps ==
  ASSUME UpdateAssumption, UpdateIInv, Stage
  PROVE  UpdateIInv'
<1>1. /\ proc # NoApp /\ proc.step \in {"removing", "copying"}
      /\ UNCHANGED <<feed, apps, pending, wines, newest, lowered>>
  BY DEF Stage, AppAt
<1> DEFINE d == Destination
           r == proc.release
<1>2. /\ proc \in Procs /\ d \in Places /\ r \in Feeds /\ r.version \in Nat /\ r.by \in Signers
      /\ Trusted(r.by, proc.by)
  BY <1>1, IsRunning, DestinationIs, RecordsAre DEF UpdateIInv, ProcIsRight
<1>3. Latest' = Latest
  BY <1>1 DEF Latest
<1>4. ASSUME NEW s \in {"copying", "replacing"}, GoesTo(s), NEW a \in Apps,
             staged' = [staged EXCEPT ![d] = a],
             a.version = r.version, a.by = r.by, s = "replacing" => a.whole
      PROVE  UpdateIInv'
  <2>1. /\ proc' \in Procs /\ proc' # NoApp /\ proc'.step = s
        /\ proc'.place = proc.place /\ proc'.version = proc.version /\ proc'.by = proc.by
        /\ proc'.release = r
    BY <1>2, <1>4, StepTaken DEF Steps
  <2>2. d' = d
    BY <2>1 DEF Destination
  <2>3. staged' \in [Places -> Apps \cup {NoApp}] /\ staged'[d] = a /\ a # NoApp
    BY <1>2, <1>4, RecordsAre DEF UpdateIInv, UpdateTypes
  <2> HIDE DEF d
  <2>4. Destination' = d /\ Trusted(r.by, proc'.by)
    BY <1>2, <2>1, <2>2 DEF d
  <2>5. ProcIsRight'
    <3> HIDE DEF r
    <3>1. /\ apps[proc.place] # NoApp /\ (proc.place # "elsewhere" => proc.by = "team")
          /\ r \in Feeds /\ (\A w \in Wines : wines[w] <= r.version)
          /\ (\A p \in Places : newest[p] <= r.version) /\ r.version <= Latest
      BY <1>1 DEF UpdateIInv, ProcIsRight, r
    <3>2. s # "updating" /\ s # "looking"
      BY <1>4
    <3> QED
      BY <1>1, <1>3, <1>4, <2>1, <2>3, <2>4, <3>1, <3>2 DEF ProcIsRight, Trusted
  <2>6. UpdateTypes'
    BY <1>1, <2>1, <2>3 DEF UpdateIInv, UpdateTypes
  <2>7. pending = NoApp
    BY <1>1 DEF UpdateIInv, PendingIsNewest
  <2> QED
    BY <1>1, <1>3, <2>5, <2>6, <2>7 DEF UpdateIInv, NoneAhead, CopiesAreWhole, PendingIsNewest
<1>5. CASE /\ GoesTo("copying")
           /\ staged' = [staged EXCEPT ![d] = [App(r.version, r.by) EXCEPT !.whole = FALSE]]
  <2> DEFINE a == [App(r.version, r.by) EXCEPT !.whole = FALSE]
  <2>1. App(r.version, r.by) \in Apps /\ App(r.version, r.by).version = r.version
        /\ App(r.version, r.by).by = r.by
    BY <1>2, AppsAre DEF App
  <2>2. a \in Apps /\ a.version = r.version /\ a.by = r.by
    <3> DEFINE b == App(r.version, r.by)
    <3>1. b \in Apps /\ a = [b EXCEPT !.whole = FALSE]
      BY <2>1
    <3>2. b.version = r.version /\ b.by = r.by
      BY <2>1
    <3> HIDE DEF a, b
    <3> QED
      BY <3>1, <3>2 DEF Apps
  <2>3. staged' = [staged EXCEPT ![d] = a] /\ GoesTo("copying")
    BY <1>5
  <2> HIDE DEF a, d, r
  <2> QED
    BY <1>4, <2>2, <2>3
<1>6. CASE proc.step = "copying" /\ GoesTo("replacing") /\ staged' = [staged EXCEPT ![d].whole = TRUE]
  <2> DEFINE a == [staged[d] EXCEPT !.whole = TRUE]
  <2>1. /\ staged[d] \in Apps /\ staged[d].version = r.version /\ staged[d].by = r.by
    BY <1>1, <1>2, <1>6 DEF UpdateIInv, ProcIsRight, UpdateTypes
  <2>2. a \in Apps /\ a.version = r.version /\ a.by = r.by /\ a.whole
    BY <2>1 DEF Apps
  <2>3. staged' = [staged EXCEPT ![d] = a] /\ GoesTo("replacing")
    BY <1>6
  <2> HIDE DEF a, d, r
  <2> QED
    BY <1>4, <2>2, <2>3
<1>7. CASE GoesTo("open") /\ UNCHANGED staged
  BY <1>1, <1>7, OnlyStep DEF Steps
<1> QED
  BY <1>5, <1>6, <1>7 DEF Stage, AppAt

LEMMA ReplaceKeeps ==
  ASSUME UpdateAssumption, UpdateIInv, Replace
  PROVE  UpdateIInv'
<1> DEFINE d == Destination
           r == proc.release
           new == staged[d]
<1>1. /\ proc # NoApp /\ proc.step = "replacing" /\ staged' = [staged EXCEPT ![d] = NoApp]
      /\ UNCHANGED <<feed, pending, wines, lowered>>
  BY DEF Replace, AppAt
<1>2. /\ proc \in Procs /\ r \in Feeds /\ r.version \in Nat /\ r.by \in Signers
      /\ Trusted(r.by, proc.by)
      /\ new # NoApp /\ new.version = r.version /\ new.by = r.by /\ new.whole
      /\ r.version <= Latest /\ \A p \in Places : newest[p] <= r.version /\ newest[p] \in Nat
  BY <1>1, IsRunning, RecordsAre DEF UpdateIInv, ProcIsRight, UpdateTypes
<1>3. /\ d \in Places /\ d # "image" /\ (d = "/Applications" => proc.by = "team")
  BY <1>1, DestinationIs
<1>4. new \in Apps
  BY <1>2, <1>3 DEF UpdateIInv, UpdateTypes
<1>5. staged' \in [Places -> Apps \cup {NoApp}]
  BY <1>1 DEF UpdateIInv, UpdateTypes
<1>6. Latest' = Latest /\ pending = NoApp
  BY <1>1 DEF Latest, UpdateIInv, PendingIsNewest
<1>7. \A s \in {"replaced", "open"} : GoesTo(s) =>
        /\ proc' \in Procs /\ proc' # NoApp /\ proc'.step = s
        /\ proc'.place = proc.place /\ proc'.version = proc.version /\ proc'.by = proc.by
        /\ proc'.release = r
  BY <1>2, StepTaken DEF Steps
<1>8. CASE GoesTo("open") /\ UNCHANGED <<apps, newest>>
  <2>1. ProcIsRight'
    BY <1>1, <1>7, <1>8 DEF UpdateIInv, ProcIsRight
  <2>2. UpdateTypes'
    BY <1>1, <1>5, <1>7, <1>8 DEF UpdateIInv, UpdateTypes
  <2> QED
    BY <1>1, <1>6, <1>8, <2>1, <2>2 DEF UpdateIInv, NoneAhead, CopiesAreWhole, PendingIsNewest
<1>9. CASE /\ GoesTo("replaced")
           /\ apps' = [apps EXCEPT ![d] = new]
           /\ newest' = [newest EXCEPT ![d] = IF @ < new.version THEN new.version ELSE @]
  <2> HIDE DEF new, r
  <2>1. \A p \in Places : /\ newest'[p] = IF p = d THEN r.version ELSE newest[p]
                          /\ apps'[p] = IF p = d THEN new ELSE apps[p]
    <3>1. (IF newest[d] < new.version THEN new.version ELSE newest[d]) = r.version
      BY <1>2, <1>3
    <3>2. newest' = [newest EXCEPT ![d] = r.version]
      BY <1>9, <3>1
    <3> HIDE DEF d
    <3> QED
      BY <1>9, <3>2 DEF UpdateIInv, UpdateTypes
  <2>2. newest' \in [Places -> Nat] /\ apps' \in [Places -> Apps \cup {NoApp}]
    <3>1. newest' \in [Places -> Nat]
      BY <1>2, <1>9 DEF UpdateIInv, UpdateTypes
    <3>2. apps' \in [Places -> Apps \cup {NoApp}]
      BY <1>4, <1>9 DEF UpdateIInv, UpdateTypes
    <3> QED
      BY <3>1, <3>2
  <2>3. UpdateTypes'
    BY <1>1, <1>5, <1>7, <1>9, <2>2 DEF UpdateIInv, UpdateTypes
  <2> HIDE DEF d
  <2>4. NoneAhead'
    BY <1>1, <1>2, <1>6, <2>1 DEF UpdateIInv, NoneAhead
  <2>5. CopiesAreWhole'
    <3>1. \A p \in Places : IF apps'[p] = NoApp THEN newest'[p] = 0
                            ELSE apps'[p].whole /\ apps'[p].version = newest'[p]
      BY <1>2, <2>1 DEF UpdateIInv, CopiesAreWhole
    <3>2. d = "/Applications" => new.by = "team"
      BY <1>2, <1>3 DEF Trusted
    <3>3. \A p \in {"/Applications", "image"} : p \in Places /\ (apps'[p] # NoApp => apps'[p].by = "team")
      BY <1>3, <2>1, <3>2 DEF UpdateIInv, CopiesAreWhole, Places
    <3> QED
      BY <3>1, <3>3 DEF CopiesAreWhole
  <2>6. ProcIsRight'
    <3>1. proc'.step = "replaced" /\ proc'.place = proc.place /\ proc'.by = proc.by /\ proc'.release = r
          /\ proc.place \in Places /\ wines' = wines
      BY <1>1, <1>7, <1>9, IsRunning DEF UpdateIInv
    <3>2. apps'[proc.place] # NoApp
      BY <1>1, <1>2, <2>1, <3>1 DEF UpdateIInv, ProcIsRight
    <3>3. r \in Feeds /\ r.version <= Latest /\ \A w \in Wines : wines[w] <= r.version
      BY <1>1, <1>2 DEF UpdateIInv, ProcIsRight, r
    <3>4. \A p \in Places : newest'[p] <= r.version
      BY <1>2, <2>1
    <3> QED
      BY <1>1, <1>6, <3>1, <3>2, <3>3, <3>4 DEF UpdateIInv, ProcIsRight
  <2> QED
    BY <1>1, <1>6, <2>3, <2>4, <2>5, <2>6 DEF UpdateIInv, PendingIsNewest
<1> QED
  BY <1>8, <1>9 DEF Replace

LEMMA OthersKeep ==
  ASSUME UpdateAssumption, UpdateIInv, Relaunch \/ AppEnds \/ \E w \in Wines : Install(w)
  PROVE  UpdateIInv'
<1>1. CASE Relaunch
  <2>1. /\ proc # NoApp /\ proc.step = "replaced" /\ pending' = proc.release.version /\ proc' = NoApp
        /\ UNCHANGED <<feed, apps, staged, wines, newest, lowered>>
    BY <1>1 DEF Relaunch, AppAt
  <2>2. /\ proc.release \in Feeds /\ proc.release.version \in Nat
        /\ \A w \in Wines : wines[w] <= proc.release.version
    BY <2>1, RecordsAre DEF UpdateIInv, ProcIsRight
  <2>3. UpdateTypes'
    BY <2>1, <2>2 DEF UpdateIInv, UpdateTypes
  <2> QED
    BY <2>1, <2>2, <2>3 DEF UpdateIInv, NoneAhead, Latest, CopiesAreWhole, PendingIsNewest, ProcIsRight
<1>2. CASE AppEnds
  <2>1. ProcIsRight'
    BY <1>2 DEF AppEnds, ProcIsRight
  <2> QED
    BY <1>2, <2>1, OnlyProc DEF AppEnds
<1>3. ASSUME NEW w \in Wines, Install(w)
      PROVE  UpdateIInv'
  <2>1. /\ proc # NoApp /\ proc.step # "updating" /\ wines' = [wines EXCEPT ![w] = apps[proc.place].version]
        /\ UNCHANGED <<feed, apps, staged, pending, proc, newest, lowered>>
    BY <1>3 DEF Install
  <2>2. /\ proc.place \in Places /\ apps[proc.place] # NoApp
        /\ apps[proc.place].version = newest[proc.place] /\ newest[proc.place] \in Nat
        /\ newest[proc.place] <= Latest
    BY <2>1, IsRunning DEF UpdateIInv, UpdateTypes, ProcIsRight, CopiesAreWhole, NoneAhead
  <2>3. /\ wines' \in [Wines -> Nat]
        /\ \A x \in Wines : wines'[x] = IF x = w THEN newest[proc.place] ELSE wines[x]
    BY <2>1, <2>2 DEF UpdateIInv, UpdateTypes
  <2>4. UpdateTypes'
    BY <2>1, <2>3 DEF UpdateIInv, UpdateTypes
  <2>5. Latest' = Latest /\ pending = NoApp
    BY <2>1 DEF Latest, UpdateIInv, PendingIsNewest
  <2>6. NoneAhead'
    BY <2>1, <2>2, <2>3, <2>5 DEF UpdateIInv, NoneAhead
  <2>7. ProcIsRight'
    <3>1. UNCHANGED <<apps, staged, feed, newest, proc>>
      BY <2>1
    <3>2. proc.step = "looking" /\ proc.taken =>
            \A x \in Wines \ (proc.todo \cup proc.failed) : wines'[x] \in {0, proc.version}
      BY <2>1, <2>3 DEF UpdateIInv, ProcIsRight
    <3>3. proc.step \in {"checking", "removing", "copying", "replacing", "replaced"} =>
            \A x \in Wines : wines'[x] <= proc.release.version
      BY <2>1, <2>2, <2>3 DEF UpdateIInv, ProcIsRight
    <3> QED
      BY <2>1, <2>5, <3>1, <3>2, <3>3 DEF UpdateIInv, ProcIsRight, Destination
  <2> QED
    BY <2>1, <2>4, <2>5, <2>6, <2>7 DEF UpdateIInv, CopiesAreWhole, PendingIsNewest
<1> QED
  BY <1>1, <1>2, <1>3

LEMMA NextUpdate ==
  ASSUME UpdateAssumption, UpdateIInv, [UpdateNext]_updateVars
  PROVE  UpdateIInv'
<1>1. CASE UNCHANGED updateVars
  <2>1. UNCHANGED <<feed, apps, staged, pending, wines, proc, newest, lowered>>
    BY <1>1 DEF updateVars
  <2>2. UpdateTypes' /\ NoneAhead' /\ CopiesAreWhole' /\ PendingIsNewest'
    BY <2>1 DEF UpdateIInv, UpdateTypes, NoneAhead, Latest, CopiesAreWhole, PendingIsNewest
  <2>3. ProcIsRight'
    BY <2>1 DEF UpdateIInv, ProcIsRight, Latest, Destination, InstallLocation
  <2> QED
    BY <2>2, <2>3 DEF UpdateIInv
<1>2. CASE UpdateEnds
  <2>1. /\ proc # NoApp /\ proc.step = "updating" /\ proc.todo = {} /\ GoesTo("looking")
        /\ UNCHANGED <<feed, apps, staged, pending, wines, newest, lowered>>
    BY <1>2 DEF UpdateEnds, AppAt
  <2> QED
    BY <2>1, OnlyStep DEF Steps
<1>3. CASE Check
  <2>1. /\ proc # NoApp /\ proc.step = "checking"
        /\ GoesTo("open") \/ (GoesTo("removing") /\ Trusted(proc.release.by, proc.by))
        /\ UNCHANGED <<feed, apps, staged, pending, wines, newest, lowered>>
    BY <1>3 DEF Check, AppAt
  <2> QED
    BY <2>1, OnlyStep DEF Steps
<1> QED
  BY <1>1, <1>2, <1>3, LaterPublished, LookKeeps, StageKeeps, ReplaceKeeps, OthersKeep, LaunchKeeps,
     WineKeeps DEF UpdateNext

(* The update of the application and of the Wines, whatever is published   *)
(* meanwhile, whichever copy runs and wherever it is killed: a copy that   *)
(* runs is whole, of its own team and no older than what was at its place, *)
(* and an update takes no Wine back to an older version.                   *)
THEOREM UpdatesStaySound ==
  ASSUME UpdateAssumption
  PROVE  UpdateSpec => []UpdateSound
<1>1. UpdateInit => UpdateIInv
  BY UpdateBegins
<1>2. UpdateIInv /\ [UpdateNext]_updateVars => UpdateIInv'
  BY NextUpdate
<1>3. UpdateIInv => UpdateSound
  <2> SUFFICES ASSUME UpdateIInv
               PROVE  UpdateSound
    OBVIOUS
  <2>1. AppAt("looking") /\ proc.taken => \A w \in Wines \ proc.failed : wines[w] \in {0, proc.version}
    BY DEF UpdateIInv, ProcIsRight, AppAt
  <2>2. \A p \in Places : apps[p] # NoApp => apps[p].whole /\ apps[p].version = newest[p]
    BY DEF UpdateIInv, CopiesAreWhole
  <2> QED
    BY <2>1, <2>2 DEF UpdateIInv, UpdateTypes, CopiesAreWhole, UpdateSound
<1> QED
  BY <1>1, <1>2, <1>3, PTL DEF UpdateSpec

-----------------------------------------------------------------------------
(***************************************************************************)
(* GameFixes, for any number of changes by others.                         *)
(***************************************************************************)
(* What a pass says.                                                       *)
LEMMA SaysOfQuake ==
  ASSUME FixesAssumption, result \in Results, NEW q \in QuakeResults,
         result' = [result EXCEPT !.quake = q]
  PROVE  result' \in Results /\ result'.quake = q /\ result'.file = result.file /\ result' # NoCopy
BY DEF Results, FixesAssumption

LEMMA SaysOfFile ==
  ASSUME FixesAssumption, result \in Results, NEW f \in FileResults,
         result' = [result EXCEPT !.file = f]
  PROVE  result' \in Results /\ result'.quake = result.quake /\ result'.file = f /\ result' # NoCopy
BY DEF Results, FixesAssumption

(* backUp().                                                               *)
LEMMA BacksUp ==
  ASSUME FixesTypes
  PROVE  /\ \A lines \in Lines :
              LET b == BackUp("autoexec", lines) IN
              /\ b \in [autoexec : Lines \cup {NoCopy}, reg : {NoCopy, FALSE}, file : {NoCopy, "wine"}]
              /\ b.autoexec = IF backups.autoexec = NoCopy THEN lines ELSE backups.autoexec
              /\ b.file = backups.file
         /\ LET b == BackUp("reg", FALSE) IN
              /\ b \in [autoexec : Lines \cup {NoCopy}, reg : {NoCopy, FALSE}, file : {NoCopy, "wine"}]
              /\ b.autoexec = backups.autoexec /\ b.file = backups.file
         /\ LET b == BackUp("file", "wine") IN
              /\ b \in [autoexec : Lines \cup {NoCopy}, reg : {NoCopy, FALSE}, file : {NoCopy, "wine"}]
              /\ b.autoexec = backups.autoexec
              /\ b.file = IF backups.file = NoCopy THEN "wine" ELSE backups.file
<1> DEFINE B == [autoexec : Lines \cup {NoCopy}, reg : {NoCopy, FALSE}, file : {NoCopy, "wine"}]
<1>1. backups \in B
  BY DEF FixesTypes
<1> HIDE DEF B
<1>2. ASSUME NEW lines \in Lines
      PROVE  /\ BackUp("autoexec", lines) \in B
             /\ BackUp("autoexec", lines).autoexec = IF backups.autoexec = NoCopy THEN lines ELSE backups.autoexec
             /\ BackUp("autoexec", lines).file = backups.file
  <2> DEFINE L == Lines \cup {NoCopy}
  <2>1. lines \in L /\ B = [autoexec : L, reg : {NoCopy, FALSE}, file : {NoCopy, "wine"}]
    BY DEF B
  <2> HIDE DEF L
  <2> QED
    BY <1>1, <2>1 DEF BackUp
<1>3. /\ BackUp("reg", FALSE) \in B
      /\ BackUp("reg", FALSE).autoexec = backups.autoexec /\ BackUp("reg", FALSE).file = backups.file
  BY <1>1 DEF BackUp, B
<1>4. /\ BackUp("file", "wine") \in B
      /\ BackUp("file", "wine").autoexec = backups.autoexec
      /\ BackUp("file", "wine").file = IF backups.file = NoCopy THEN "wine" ELSE backups.file
  BY <1>1 DEF BackUp, B
<1> QED
  BY <1>2, <1>3, <1>4 DEF B

(* Lines.                                                                  *)
LEMMA LinesAre ==
  /\ \A lines \in {<<>>, <<"bind">>, <<"r_useSMP_0">>, <<Ours>>, <<"bind", Ours>>} :
       lines \in Lines /\ OursOnce(lines)
  /\ SetsSmp(<<Ours>>)
<1>1. \A x \in {"bind", "r_useSMP_0", Ours} : <<x>> \in Lines /\ OursOnce(<<x>>)
  BY DEF Lines, OursOnce
<1>2. <<>> \in Lines /\ OursOnce(<<>>)
  BY DEF Lines, OursOnce
<1>3. <<"bind", Ours>> \in Lines /\ OursOnce(<<"bind", Ours>>)
  BY DEF Lines, OursOnce, Ours
<1>4. SetsSmp(<<Ours>>)
  BY DEF SetsSmp
<1> QED
  BY <1>1, <1>2, <1>3, <1>4

LEMMA LineAdded ==
  ASSUME NEW lines \in Lines, ~SetsSmp(lines)
  PROVE  /\ Append(lines, Ours) \in Lines /\ OursOnce(Append(lines, Ours)) /\ SetsSmp(Append(lines, Ours))
<1> DEFINE longer == Append(lines, Ours)
<1>1. /\ Len(lines) \in Nat /\ DOMAIN lines = 1 .. Len(lines)
      /\ longer \in Lines /\ DOMAIN longer = 1 .. Len(lines) + 1
      /\ \A i \in 1 .. Len(lines) : longer[i] = lines[i]
      /\ longer[Len(lines) + 1] = Ours
  BY DEF Lines
<1> HIDE DEF longer
<1>2. \A i \in 1 .. Len(lines) : lines[i] # Ours
  BY <1>1 DEF SetsSmp
<1>3. \A i \in 1 .. Len(lines) + 1 : longer[i] = Ours => i = Len(lines) + 1
  BY <1>1, <1>2
<1>4. Len(lines) + 1 \in 1 .. Len(lines) + 1
  BY <1>1
<1> QED
  BY <1>1, <1>3, <1>4 DEF longer, OursOnce, SetsSmp

LEMMA FixesBegin ==
  ASSUME FixesAssumption, FixesInit
  PROVE  FixesIInv
<1>1. FixesTypes
  <2>1. autoexec \in Lines \cup {NoCopy}
    BY LinesAre DEF FixesInit
  <2>2. wineFile \in Files
    BY DEF FixesInit, Files, FileContents, Fixed, Carried
  <2>3. backups \in [autoexec : Lines \cup {NoCopy}, reg : {NoCopy, FALSE}, file : {NoCopy, "wine"}]
    BY DEF FixesInit
  <2> QED
    BY <2>1, <2>2, <2>3 DEF FixesInit, FixesTypes, Carried, FixSteps
<1>2. LinesAreRight
  BY LinesAre DEF FixesInit, LinesAreRight
<1>3. FileIsRight
  BY DEF FixesInit, FileIsRight
<1> QED
  BY <1>1, <1>2, <1>3 DEF FixesInit, FixesIInv, ResultIsRight

(* The lines of Quake 4's autoexec.cfg.                                    *)
LEMMA AutoexecKeeps ==
  ASSUME FixesAssumption, FixesIInv, Autoexec \/ AddLine
  PROVE  FixesIInv'
<1>1. /\ step \in {"autoexec", "autoexecBackedUp"} /\ result \in Results
      /\ UNCHANGED <<modes, running, wineFile, stagedFile, wine, app, changes>>
  BY DEF Autoexec, AddLine, Quiet, FixesIInv, FixesTypes, ResultIsRight
<1>2. CASE /\ step = "autoexec" /\ autoexec # NoCopy /\ SetsSmp(autoexec)
           /\ step' = "modes" /\ UNCHANGED <<autoexec, backups, result>>
  BY <1>1, <1>2 DEF FixesIInv, FixesTypes, LinesAreRight, FileIsRight, ResultIsRight, FixSteps
<1>3. CASE /\ step = "autoexec" /\ autoexec' = <<Ours>> /\ step' = "modes"
           /\ result' = [result EXCEPT !.quake = "applied"] /\ UNCHANGED backups
  <2>1. result' \in Results /\ result'.file = result.file /\ result' # NoCopy
    BY <1>1, <1>3, SaysOfQuake DEF QuakeResults
  <2>2. autoexec' \in Lines /\ OursOnce(autoexec') /\ SetsSmp(autoexec') /\ autoexec' # NoCopy
    BY <1>3, LinesAre DEF FixesAssumption
  <2> QED
    BY <1>1, <1>3, <2>1, <2>2 DEF FixesIInv, FixesTypes, LinesAreRight, FileIsRight, ResultIsRight, FixSteps
<1>4. CASE /\ step = "autoexec" /\ autoexec # NoCopy /\ ~SetsSmp(autoexec)
           /\ backups' = BackUp("autoexec", autoexec)
           /\ step' = "autoexecBackedUp" /\ UNCHANGED <<autoexec, result>>
  <2>1. autoexec \in Lines
    BY <1>4 DEF FixesIInv, FixesTypes
  <2>2. /\ backups' \in [autoexec : Lines \cup {NoCopy}, reg : {NoCopy, FALSE}, file : {NoCopy, "wine"}]
        /\ backups'.autoexec = IF backups.autoexec = NoCopy THEN autoexec ELSE backups.autoexec
        /\ backups'.file = backups.file
    BY <1>4, <2>1, BacksUp DEF FixesIInv
  <2> QED
    BY <1>1, <1>4, <2>2 DEF FixesIInv, FixesTypes, LinesAreRight, FileIsRight, ResultIsRight, FixSteps
<1>5. CASE /\ step = "autoexec" /\ step' = "modes"
           /\ result' = [result EXCEPT !.quake = "failed"] /\ UNCHANGED <<autoexec, backups>>
  <2>1. result' \in Results /\ result'.quake = "failed" /\ result'.file = result.file /\ result' # NoCopy
    BY <1>1, <1>5, SaysOfQuake DEF QuakeResults
  <2> QED
    BY <1>1, <1>5, <2>1 DEF FixesIInv, FixesTypes, LinesAreRight, FileIsRight, ResultIsRight, FixSteps
<1>6. CASE AddLine
  <2>1. /\ step = "autoexecBackedUp" /\ autoexec' = Append(autoexec, Ours) /\ step' = "modes"
        /\ result' = [result EXCEPT !.quake = "applied"] /\ UNCHANGED backups
    BY <1>6 DEF AddLine, Go
  <2>2. result' \in Results /\ result'.file = result.file /\ result' # NoCopy
    BY <1>1, <2>1, SaysOfQuake DEF QuakeResults
  <2>3. autoexec \in Lines /\ ~SetsSmp(autoexec)
    BY <2>1 DEF FixesIInv, FixesTypes, LinesAreRight
  <2>4. autoexec' \in Lines /\ OursOnce(autoexec') /\ SetsSmp(autoexec') /\ autoexec' # NoCopy
    BY <2>1, <2>3, LineAdded DEF FixesAssumption
  <2> QED
    BY <1>1, <2>1, <2>2, <2>4 DEF FixesIInv, FixesTypes, LinesAreRight, FileIsRight, ResultIsRight, FixSteps
<1> QED
  BY <1>2, <1>3, <1>4, <1>5, <1>6 DEF Autoexec, Go

(* The display modes, which wait while programs run.                       *)
LEMMA ModesKeep ==
  ASSUME FixesAssumption, FixesIInv, FixBegin \/ Modes \/ RunScript \/ Killed
  PROVE  FixesIInv'
<1>1. UNCHANGED <<autoexec, running, wineFile, stagedFile, wine, app, changes>>
  BY DEF FixBegin, Modes, RunScript, Killed, Quiet
<1>2. CASE FixBegin
  <2>1. /\ step = "idle" /\ step' = "autoexec" /\ result' = [quake |-> "inPlace", file |-> NoCopy]
        /\ UNCHANGED <<modes, backups>>
    BY <1>2 DEF FixBegin, Go
  <2>2. result' \in Results /\ result'.file = NoCopy /\ result' # NoCopy
    BY <2>1 DEF Results, QuakeResults, FileResults, FixesAssumption
  <2>3. result'.file \notin {"applied", "inPlace"}
    BY <2>2 DEF FixesAssumption
  <2> QED
    BY <1>1, <2>1, <2>2, <2>3 DEF FixesIInv, FixesTypes, LinesAreRight, FileIsRight, ResultIsRight, FixSteps
<1>3. CASE step = "modes" /\ (modes \/ running) /\ step' = "file" /\ UNCHANGED <<modes, backups, result>>
  BY <1>1, <1>3 DEF FixesIInv, FixesTypes, LinesAreRight, FileIsRight, ResultIsRight, FixSteps
<1>4. CASE /\ step = "modes" /\ ~modes /\ backups' = BackUp("reg", modes)
           /\ step' = "modesBackedUp" /\ UNCHANGED <<modes, result>>
  <2>1. modes = FALSE
    BY <1>4 DEF FixesIInv, FixesTypes
  <2>2. /\ backups' \in [autoexec : Lines \cup {NoCopy}, reg : {NoCopy, FALSE}, file : {NoCopy, "wine"}]
        /\ backups'.autoexec = backups.autoexec /\ backups'.file = backups.file
    BY <1>4, <2>1, BacksUp DEF FixesIInv
  <2> QED
    BY <1>1, <1>4, <2>2 DEF FixesIInv, FixesTypes, LinesAreRight, FileIsRight, ResultIsRight, FixSteps
<1>5. CASE step = "modesBackedUp" /\ step' = "file" /\ modes' = TRUE /\ UNCHANGED <<result, backups>>
  BY <1>1, <1>5 DEF FixesIInv, FixesTypes, LinesAreRight, FileIsRight, ResultIsRight, FixSteps
<1>6. CASE /\ step = "modesBackedUp" /\ step' = "file"
           /\ result' = [result EXCEPT !.quake = "failed"] /\ UNCHANGED <<modes, backups>>
  <2>1. result \in Results
    BY <1>6 DEF FixesIInv, FixesTypes, ResultIsRight
  <2>2. result' \in Results /\ result'.quake = "failed" /\ result'.file = result.file /\ result' # NoCopy
    BY <1>6, <2>1, SaysOfQuake DEF QuakeResults
  <2> QED
    BY <1>1, <1>6, <2>2 DEF FixesIInv, FixesTypes, LinesAreRight, FileIsRight, ResultIsRight, FixSteps
<1>7. CASE Killed
  BY <1>1, <1>7 DEF Killed, Go, FixesIInv, FixesTypes, LinesAreRight, FileIsRight, ResultIsRight, FixSteps
<1> QED
  BY <1>2, <1>3, <1>4, <1>5, <1>6, <1>7 DEF Modes, RunScript, Go

(* The file of MetalSharp's Wine.                                          *)
LEMMA WineFixKeeps ==
  ASSUME FixesAssumption, FixesIInv, WineFix
  PROVE  FixesIInv'
<1>1. /\ step = "file" /\ result \in Results /\ wineFile \in Files /\ wineFile.content \in FileContents
      /\ UNCHANGED <<autoexec, modes, running, wineFile, stagedFile, wine, app, changes>>
  BY DEF WineFix, Quiet, FixesIInv, FixesTypes, ResultIsRight, Files
<1>2. ASSUME NEW f \in {"notApplicable", "inPlace"}, step' = "idle",
             result' = [result EXCEPT !.file = f], UNCHANGED backups,
             f = "inPlace" => wineFile.content \in {app, "source"}
      PROVE  FixesIInv'
  <2>1. result' \in Results /\ result'.quake = result.quake /\ result'.file = f /\ result' # NoCopy
    BY <1>1, <1>2, SaysOfFile DEF FileResults
  <2>2. f = "inPlace" => wineFile.content \in Fixed
    BY <1>2 DEF FixesIInv, FixesTypes, Fixed, Carried
  <2> QED
    BY <1>1, <1>2, <2>1, <2>2 DEF FixesIInv, FixesTypes, LinesAreRight, FileIsRight, ResultIsRight, FixSteps
<1>3. CASE /\ wineFile.content \notin {app, "source"} /\ backups' = BackUp("file", wineFile.content)
           /\ step' = "copy" /\ UNCHANGED result
  <2>1. CASE backups.file = NoCopy
    <3>1. wineFile.content = "wine"
      BY <1>3, <2>1 DEF FixesIInv, FileIsRight
    <3>2. /\ backups' \in [autoexec : Lines \cup {NoCopy}, reg : {NoCopy, FALSE}, file : {NoCopy, "wine"}]
          /\ backups'.autoexec = backups.autoexec /\ backups'.file = "wine"
      BY <1>3, <2>1, <3>1, BacksUp DEF FixesIInv
    <3> QED
      BY <1>1, <1>3, <3>1, <3>2 DEF FixesIInv, FixesTypes, LinesAreRight, FileIsRight, ResultIsRight, FixSteps
  <2>2. CASE backups.file # NoCopy
    <3>1. backups' = backups /\ backups.file = "wine"
      BY <1>3, <2>2 DEF BackUp, FixesIInv, FixesTypes
    <3> QED
      BY <1>1, <1>3, <3>1 DEF FixesIInv, FixesTypes, LinesAreRight, FileIsRight, ResultIsRight, FixSteps
  <2> QED
    BY <2>1, <2>2
<1> QED
  BY <1>2, <1>3 DEF WineFix, Go

LEMMA ReplacingKeeps ==
  ASSUME FixesAssumption, FixesIInv, Copy \/ Mode \/ Rename \/ Sign
  PROVE  FixesIInv'
<1>1. /\ step \in {"copy", "mode", "rename", "sign"} /\ result \in Results /\ wineFile \in Files
      /\ backups.file = "wine" /\ wineFile.mode = "r-x"
      /\ UNCHANGED <<autoexec, modes, running, backups, wine, app, changes>>
  BY DEF Copy, Mode, Rename, Sign, Quiet, FixesIInv, FixesTypes, ResultIsRight, FileIsRight
<1>w. backups.file # NoCopy
  BY <1>1 DEF FixesAssumption, FileContents
<1>k. ASSUME FixesTypes', FileIsRight', ResultIsRight', step' # "autoexecBackedUp"
      PROVE  FixesIInv'
  BY <1>1, <1>k DEF FixesIInv, LinesAreRight
<1>2. CASE Copy
  <2>1. CASE stagedFile' = [content |-> app, mode |-> "rw-"] /\ step' = "mode" /\ UNCHANGED result
    <3>1. stagedFile' \in Files /\ stagedFile'.content \in Carried
      BY <2>1 DEF FixesIInv, FixesTypes, Files, FileContents, Fixed
    <3>2. step = "copy" /\ UNCHANGED wineFile
      BY <1>2 DEF Copy
    <3>3. FixesTypes'
      BY <1>1, <2>1, <3>1, <3>2 DEF FixesIInv, FixesTypes, FixSteps
    <3>4. FileIsRight'
      BY <1>1, <1>w, <2>1, <3>1, <3>2 DEF FileIsRight
    <3>5. ResultIsRight'
      BY <1>1, <2>1, <3>2 DEF FixesIInv, ResultIsRight
    <3> QED
      BY <1>k, <2>1, <3>3, <3>4, <3>5
  <2>2. CASE stagedFile' = NoCopy /\ step' = "idle" /\ result' = [result EXCEPT !.file = "failed"]
    <3>1. result' \in Results /\ result'.quake = result.quake /\ result'.file = "failed" /\ result' # NoCopy
      BY <1>1, <2>2, SaysOfFile DEF FileResults
    <3>2. step = "copy" /\ UNCHANGED wineFile
      BY <1>2 DEF Copy
    <3>3. FixesTypes'
      BY <1>1, <2>2, <3>1, <3>2 DEF FixesIInv, FixesTypes, FixSteps
    <3>4. FileIsRight'
      BY <1>1, <1>w, <2>2, <3>2 DEF FileIsRight
    <3>5. ResultIsRight'
      BY <1>1, <2>2, <3>1, <3>2 DEF FixesIInv, ResultIsRight
    <3> QED
      BY <1>k, <2>2, <3>3, <3>4, <3>5
  <2> QED
    BY <1>2, <2>1, <2>2 DEF Copy, Go
<1>3. CASE Mode
  <2>1. /\ step = "mode" /\ step' = "rename" /\ stagedFile' = [stagedFile EXCEPT !.mode = wineFile.mode]
        /\ UNCHANGED <<wineFile, result>>
    BY <1>3 DEF Mode, Go
  <2>2. stagedFile \in Files /\ stagedFile.content \in Carried /\ wineFile.mode = "r-x"
    BY <2>1 DEF FixesIInv, FileIsRight
  <2>3. stagedFile' \in Files /\ stagedFile'.content = stagedFile.content /\ stagedFile'.mode = "r-x"
    BY <2>1, <2>2 DEF Files
  <2> QED
    BY <1>1, <2>1, <2>2, <2>3 DEF FixesIInv, FixesTypes, LinesAreRight, FileIsRight, ResultIsRight, FixSteps
<1>4. CASE Rename
  <2>1. /\ step = "rename" /\ stagedFile' = NoCopy
        /\ stagedFile \in Files /\ stagedFile.content \in Carried /\ stagedFile.mode = "r-x"
    BY <1>4 DEF Rename, FixesIInv, FileIsRight
  <2>2. CASE wineFile' = stagedFile /\ step' = "sign" /\ UNCHANGED result
    <3>1. FixesTypes'
      BY <1>1, <2>1, <2>2 DEF FixesIInv, FixesTypes, FixSteps
    <3>2. FileIsRight'
      BY <1>1, <1>w, <2>1, <2>2 DEF FileIsRight
    <3>3. ResultIsRight'
      BY <1>1, <2>1, <2>2 DEF FixesIInv, ResultIsRight, Fixed
    <3> QED
      BY <1>k, <2>2, <3>1, <3>2, <3>3
  <2>3. CASE UNCHANGED wineFile /\ step' = "idle" /\ result' = [result EXCEPT !.file = "failed"]
    <3>1. result' \in Results /\ result'.quake = result.quake /\ result'.file = "failed" /\ result' # NoCopy
      BY <1>1, <2>3, SaysOfFile DEF FileResults
    <3> QED
      BY <1>1, <2>1, <2>3, <3>1 DEF FixesIInv, FixesTypes, LinesAreRight, FileIsRight, ResultIsRight, FixSteps
  <2> QED
    BY <1>4, <2>2, <2>3 DEF Rename, Go
<1>5. CASE Sign
  <2>1. /\ step = "sign" /\ step' = "idle" /\ result' = [result EXCEPT !.file = "applied"]
        /\ wineFile' = IF wineFile.content = "source" THEN [wineFile EXCEPT !.content = "signedHere"] ELSE wineFile
        /\ UNCHANGED stagedFile
    BY <1>5 DEF Sign, Go, SignedHere
  <2>2. wineFile.content \in Carried /\ wineFile.mode = "r-x"
    BY <2>1 DEF FixesIInv, FileIsRight
  <2>3. wineFile' \in Files /\ wineFile'.content \in Fixed /\ wineFile'.mode = "r-x"
    BY <1>1, <2>1, <2>2 DEF Files, FileContents, Fixed
  <2>4. result' \in Results /\ result'.quake = result.quake /\ result'.file = "applied" /\ result' # NoCopy
    BY <1>1, <2>1, SaysOfFile DEF FileResults
  <2>5. FixesTypes'
    BY <1>1, <2>1, <2>3, <2>4 DEF FixesIInv, FixesTypes, FixSteps
  <2>6. FileIsRight'
    BY <1>1, <1>w, <2>1, <2>3 DEF FileIsRight
  <2>7. ResultIsRight'
    BY <1>1, <2>1, <2>3, <2>4 DEF FixesIInv, ResultIsRight
  <2> QED
    BY <1>k, <2>1, <2>5, <2>6, <2>7
<1> QED
  BY <1>2, <1>3, <1>4, <1>5

(* What the player, MetalSharp and a newer application do.                 *)
LEMMA ChangesKeep ==
  ASSUME FixesAssumption, FixesIInv,
         EditAutoexec \/ RunPrograms \/ ClearModes \/ InstallWine \/ ReplaceApp
  PROVE  FixesIInv'
<1>1. /\ UNCHANGED <<stagedFile, backups, step>>
      /\ result' = IF result = NoCopy THEN NoCopy ELSE [result EXCEPT !.quake = "changed"]
  BY DEF EditAutoexec, RunPrograms, ClearModes, InstallWine, ReplaceApp, Changed
<1>2. /\ result' \in Results \cup {NoCopy} /\ (result' = NoCopy <=> result = NoCopy)
      /\ result # NoCopy => result'.quake = "changed" /\ result'.file = result.file
  <2>1. CASE result = NoCopy
    BY <1>1, <2>1
  <2>2. CASE result # NoCopy
    <3>1. result \in Results /\ result' = [result EXCEPT !.quake = "changed"]
      BY <1>1, <2>2 DEF FixesIInv, FixesTypes
    <3> QED
      BY <2>2, <3>1, SaysOfQuake DEF QuakeResults
  <2> QED
    BY <2>1, <2>2
<1>3. CASE EditAutoexec
  <2>1. /\ step # "autoexecBackedUp" /\ UNCHANGED <<modes, running, wineFile, app>>
        /\ autoexec' \in {NoCopy, <<"bind">>, <<"bind", Ours>>, <<"r_useSMP_0">>}
    BY <1>3 DEF EditAutoexec
  <2>2. autoexec' \in Lines \cup {NoCopy} /\ (autoexec' # NoCopy => OursOnce(autoexec'))
    BY <2>1, LinesAre
  <2> QED
    BY <1>1, <1>2, <2>1, <2>2 DEF FixesIInv, FixesTypes, LinesAreRight, FileIsRight, ResultIsRight
<1>4. CASE RunPrograms \/ ClearModes
  <2>1. /\ modes' \in BOOLEAN /\ running' \in BOOLEAN /\ UNCHANGED <<autoexec, wineFile, app>>
    BY <1>4 DEF RunPrograms, ClearModes, FixesIInv, FixesTypes
  <2> QED
    BY <1>1, <1>2, <2>1 DEF FixesIInv, FixesTypes, LinesAreRight, FileIsRight, ResultIsRight
<1>5. CASE InstallWine
  <2>1. /\ step = "idle" /\ result = NoCopy /\ wineFile' = [content |-> "wine", mode |-> "r-x"]
        /\ UNCHANGED <<autoexec, modes, running, app>>
    BY <1>5 DEF InstallWine
  <2>2. wineFile' \in Files /\ wineFile'.content = "wine" /\ wineFile'.mode = "r-x"
    BY <2>1 DEF Files, FileContents
  <2> QED
    BY <1>1, <1>2, <2>1, <2>2 DEF FixesIInv, FixesTypes, LinesAreRight, FileIsRight, ResultIsRight
<1>6. CASE ReplaceApp
  <2>1. step = "idle" /\ app' \in Carried /\ UNCHANGED <<autoexec, modes, running, wineFile>>
    BY <1>6 DEF ReplaceApp, Carried
  <2> QED
    BY <1>1, <1>2, <2>1 DEF FixesIInv, FixesTypes, LinesAreRight, FileIsRight, ResultIsRight
<1> QED
  BY <1>3, <1>4, <1>5, <1>6

(* The fixes of games in Wine, wherever a pass is killed and whatever the  *)
(* player, MetalSharp and a newer application do in between: a backup is   *)
(* of a file no fix had touched, a fix is made once, and what a pass says  *)
(* it has applied or found in place is in place.                           *)
THEOREM FixesStaySound ==
  ASSUME FixesAssumption
  PROVE  FixesSpec => []FixesSound
<1>1. FixesInit => FixesIInv
  BY FixesBegin
<1>2. FixesIInv /\ [FixesNext]_fixesVars => FixesIInv'
  <2> SUFFICES ASSUME FixesIInv, [FixesNext]_fixesVars
               PROVE  FixesIInv'
    OBVIOUS
  <2>1. CASE UNCHANGED fixesVars
    <3>1. UNCHANGED <<autoexec, modes, running, wineFile, stagedFile, backups, wine, app, step, result, changes>>
      BY <2>1 DEF fixesVars
    <3>2. FixesTypes'
      BY <3>1 DEF FixesIInv, FixesTypes
    <3>3. LinesAreRight'
      BY <3>1 DEF FixesIInv, LinesAreRight
    <3>4. FileIsRight'
      BY <3>1 DEF FixesIInv, FileIsRight
    <3>5. ResultIsRight'
      BY <3>1 DEF FixesIInv, ResultIsRight
    <3> QED
      BY <3>2, <3>3, <3>4, <3>5 DEF FixesIInv
  <2> QED
    BY <2>1, AutoexecKeeps, ModesKeep, WineFixKeeps, ReplacingKeeps, ChangesKeep DEF FixesNext
<1>3. FixesIInv => FixesSound
  <2> SUFFICES ASSUME FixesIInv
               PROVE  FixesSound
    OBVIOUS
  <2>1. backups.autoexec # NoCopy => \A i \in DOMAIN backups.autoexec : backups.autoexec[i] # Ours
    BY DEF FixesIInv, LinesAreRight, SetsSmp
  <2>2. /\ backups.reg # TRUE /\ backups.file \in {NoCopy, "wine"}
    BY DEF FixesIInv, FixesTypes, FixesAssumption
  <2>3. /\ wineFile.mode = "r-x"
        /\ wineFile.content # "wine" /\ backups.file = NoCopy => wineFile.content = "source"
    BY DEF FixesIInv, FileIsRight
  <2>4. autoexec # NoCopy => \A i, j \in DOMAIN autoexec : autoexec[i] = Ours /\ autoexec[j] = Ours => i = j
    BY DEF FixesIInv, LinesAreRight, OursOnce
  <2> QED
    BY <2>1, <2>2, <2>3, <2>4 DEF FixesIInv, ResultIsRight, FixesSound
<1> QED
  BY <1>1, <1>2, <1>3, PTL DEF FixesSpec
=============================================================================

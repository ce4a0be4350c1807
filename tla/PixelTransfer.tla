----------------------------- MODULE PixelTransfer -----------------------------
(***************************************************************************)
(* Client pixels into stored texels and back                               *)
(* (core/format/pixel_transfer.cpp), one group and one texel at a time.    *)
(*                                                                         *)
(* A group is the sequence of its components, and for a packed type of the *)
(* word's fields, the least significant first: on a little-endian host the *)
(* bytes of an 8_8_8_8 word. A texel is four rationals <<n, d>>. Types of  *)
(* 16 and 32 bits, floating point, depth and stencil differ from these in  *)
(* their widths and are left out; the layout of rows has them.             *)
(***************************************************************************)
EXTENDS Formats

-----------------------------------------------------------------------------
(* Client formats. *)

Channels ==
    [RED |-> <<1>>, RED_INTEGER |-> <<1>>, LUMINANCE |-> <<1>>, GREEN |-> <<2>>, BLUE |-> <<3>>, ALPHA |-> <<4>>,
     RG |-> <<1, 2>>, RG_INTEGER |-> <<1, 2>>, LUMINANCE_ALPHA |-> <<1, 4>>, RGB |-> <<1, 2, 3>>, BGR |-> <<3, 2, 1>>,
     RGB_INTEGER |-> <<1, 2, 3>>, BGR_INTEGER |-> <<3, 2, 1>>, RGBA |-> <<1, 2, 3, 4>>, BGRA |-> <<3, 2, 1, 4>>,
     RGBA_INTEGER |-> <<1, 2, 3, 4>>, BGRA_INTEGER |-> <<3, 2, 1, 4>>, DEPTH_COMPONENT |-> <<1>>, STENCIL_INDEX |-> <<1>>,
     DEPTH_STENCIL |-> <<1, 2>>]
ClientFormats == DOMAIN Channels
IntegerFormats == {"RED_INTEGER", "RG_INTEGER", "RGB_INTEGER", "BGR_INTEGER", "RGBA_INTEGER", "BGRA_INTEGER"}

\* The fields of a packed type, and whether the first is the least significant.
PackedLayout ==
    "332" :> <<<<3, 3, 2>>, FALSE>> @@ "233R" :> <<<<3, 3, 2>>, TRUE>> @@
    "565" :> <<<<5, 6, 5>>, FALSE>> @@ "565R" :> <<<<5, 6, 5>>, TRUE>> @@
    "4444" :> <<<<4, 4, 4, 4>>, FALSE>> @@ "4444R" :> <<<<4, 4, 4, 4>>, TRUE>> @@
    "5551" :> <<<<5, 5, 5, 1>>, FALSE>> @@ "1555R" :> <<<<5, 5, 5, 1>>, TRUE>> @@
    "8888" :> <<<<8, 8, 8, 8>>, FALSE>> @@ "8888R" :> <<<<8, 8, 8, 8>>, TRUE>> @@
    "1010102" :> <<<<10, 10, 10, 2>>, FALSE>> @@ "2101010R" :> <<<<10, 10, 10, 2>>, TRUE>>
PackedTypes == DOMAIN PackedLayout
WordTypes == PackedTypes \cup {"10F11F11FR", "5999R", "24_8"}

TypeBytes(type) ==
    CASE type \in {"UBYTE", "BYTE", "332", "233R"} -> 1
      [] type \in {"USHORT", "SHORT", "HALF", "565", "565R", "4444", "4444R", "5551", "1555R"} -> 2
      [] type = "F32_24_8R" -> 8
      [] OTHER -> 4
GroupBytes(format, type) ==
    IF type \in WordTypes \cup {"F32_24_8R"} THEN TypeBytes(type) ELSE TypeBytes(type) * Len(Channels[format])

ValidTransfer(format, type, compatibility) ==
    /\ format \in ClientFormats
    /\ format \in {"LUMINANCE", "LUMINANCE_ALPHA"} => compatibility
    /\ CASE type \in {"UBYTE", "BYTE", "USHORT", "SHORT", "UINT", "INT"} -> format # "DEPTH_STENCIL"
         [] type \in {"HALF", "FLOAT"} -> format \notin IntegerFormats \cup {"DEPTH_STENCIL"}
         [] type \in {"332", "233R", "565", "565R"} -> format \in {"RGB", "RGB_INTEGER"}
         [] type \in PackedTypes -> format \in {"RGBA", "BGRA", "RGBA_INTEGER", "BGRA_INTEGER"}
         [] type \in {"10F11F11FR", "5999R"} -> format = "RGB"
         [] type \in {"24_8", "F32_24_8R"} -> format = "DEPTH_STENCIL"

TransferCompatible(format, info) ==
    CASE info.depth # 0 /\ info.stencil # 0 -> format \in {"DEPTH_STENCIL", "DEPTH_COMPONENT", "STENCIL_INDEX"}
      [] info.depth # 0 -> format = "DEPTH_COMPONENT"
      [] info.stencil # 0 -> format = "STENCIL_INDEX"
      [] OTHER -> /\ format \notin {"DEPTH_STENCIL", "DEPTH_COMPONENT", "STENCIL_INDEX"}
                  /\ (format \in IntegerFormats) = IsInteger(info)

-----------------------------------------------------------------------------
(* One component. *)

Zero == <<0, 1>>
One == <<1, 1>>
Clamp(v, low) == IF v[1] < low * v[2] THEN <<low, 1>> ELSE IF v[1] > v[2] THEN One ELSE v
\* Nearest, and away from zero in between (llround).
Scale(v, max) ==
    LET size == (2 * (IF v[1] < 0 THEN -v[1] ELSE v[1]) * max + v[2]) \div (2 * v[2]) IN IF v[1] < 0 THEN -size ELSE size
Top(bits) == 2 ^ bits - 1

\* A byte as a signed one, and back.
Signed(byte) == IF byte >= 128 THEN byte - 256 ELSE byte
Byte(n) == n % 256

FromUnorm(n, bits) == <<n, Top(bits)>>
ToUnorm(v, bits) == Scale(Clamp(v, 0), Top(bits))
FromSnorm(byte) == Clamp(<<Signed(byte), 127>>, -1)
ToSnorm(v) == Byte(Scale(Clamp(v, -1), 127))
ClampInt(v, low, high) == IF v[1] < low THEN low ELSE IF v[1] > high THEN high ELSE v[1]

\* Words are turned around when the program asks for swapped bytes.
Swapped(group, type, swap) == IF swap /\ type \in {"8888", "8888R"} THEN <<group[4], group[3], group[2], group[1]>> ELSE group

ReadGroup(stored, format, type, integer, swap) ==
    LET channel == Channels[format]
        group == Swapped(stored, type, swap)
        Field(i) == IF type \in PackedTypes /\ ~PackedLayout[type][2] THEN group[Len(group) + 1 - i] ELSE group[i]
        Value(i) ==
            CASE integer -> <<IF type = "BYTE" THEN Signed(Field(i)) ELSE Field(i), 1>>
              [] type = "BYTE" -> FromSnorm(Field(i))
              [] type = "UBYTE" -> FromUnorm(Field(i), 8)
              [] OTHER -> FromUnorm(Field(i), PackedLayout[type][1][i])
    IN  [c \in 1..4 |-> IF \E i \in DOMAIN channel : channel[i] = c
                        THEN Value(CHOOSE i \in DOMAIN channel : channel[i] = c)
                        ELSE IF c = 4 THEN One ELSE Zero]

WriteGroup(texel, format, type, integer, swap) ==
    LET channel == Channels[format]
        n == Len(channel)
        Value(i) ==
            LET v == texel[channel[i]]
            IN  CASE type = "BYTE" -> (IF integer THEN Byte(ClampInt(v, -128, 127)) ELSE ToSnorm(v))
                  [] type = "UBYTE" -> (IF integer THEN ClampInt(v, 0, 255) ELSE ToUnorm(v, 8))
                  [] OTHER -> LET bits == PackedLayout[type][1][i]
                              IN  IF integer THEN ClampInt(v, 0, Top(bits)) ELSE ToUnorm(v, bits)
    IN  Swapped([i \in 1..n |-> Value(IF type \in PackedTypes /\ ~PackedLayout[type][2] THEN n + 1 - i ELSE i)], type, swap)

-----------------------------------------------------------------------------
(* Stored texels: bytes, or the fields of RGB10A2. *)

RgbaToStored(info, t) ==
    LET u == CASE info.base = "ALPHA" -> [t EXCEPT ![1] = t[4]]
               [] info.base = "LUMINANCE_ALPHA" -> [t EXCEPT ![2] = t[4]]
               [] OTHER -> t
    IN  IF info.storedAlphaIsOne THEN [u EXCEPT ![4] = One] ELSE u

StoredToRgba(info, t) ==
    CASE info.base = "RED" -> <<t[1], Zero, Zero, One>>
      [] info.base = "RG" -> <<t[1], t[2], Zero, One>>
      [] info.base = "RGB" -> <<t[1], t[2], t[3], One>>
      [] info.base = "ALPHA" -> <<Zero, Zero, Zero, t[1]>>
      [] info.base \in {"LUMINANCE", "INTENSITY"} -> <<t[1], Zero, Zero, One>>
      [] info.base = "LUMINANCE_ALPHA" -> <<t[1], Zero, Zero, t[2]>>
      [] OTHER -> t

FieldBits(info, c) == IF info.layout = "plain" THEN 8 ELSE IF c = 4 THEN 2 ELSE 10
DecodeStorage(info, stored) ==
    LET Value(c) ==
            CASE info.kind = "unorm" -> FromUnorm(stored[c], FieldBits(info, c))
              [] info.kind = "snorm" -> FromSnorm(stored[c])
              [] info.kind = "int" -> <<Signed(stored[c]), 1>>
              [] info.kind = "uint" -> <<stored[c], 1>>
    IN  [c \in 1..4 |-> IF c <= info.channels THEN Value(c) ELSE IF c = 4 THEN One ELSE Zero]
EncodeStorage(info, t) ==
    LET Value(c) ==
            CASE info.kind = "unorm" -> ToUnorm(t[c], FieldBits(info, c))
              [] info.kind = "snorm" -> ToSnorm(t[c])
              [] info.kind = "int" -> Byte(ClampInt(t[c], -128, 127))
              [] info.kind = "uint" -> ClampInt(t[c], 0, Top(FieldBits(info, c)))
    IN  [c \in 1..info.channels |-> Value(c)]

-----------------------------------------------------------------------------
(* The transfers and their short cuts. *)

\* Bits that no conversion may make canonical: floating point and SNORM.
RawTransfer(format, type, info) ==
    \/ info.layout = "RGB9_E5" /\ type = "5999R"
    \/ info.layout = "R11F_G11F_B10F" /\ type = "10F11F11FR"
    \/ /\ info.layout = "plain" /\ info.channels \in {1, 2, 4}
       /\ format = <<"RED", "RG", "", "RGBA">>[info.channels]
       /\ CASE info.kind = "float" -> type = (IF info.width = 16 THEN "HALF" ELSE "FLOAT")
            [] info.kind = "snorm" -> type = (IF info.width = 16 THEN "SHORT" ELSE "BYTE")
            [] OTHER -> FALSE

IdentityTransfer(format, type, info) ==
    /\ ~info.storedAlphaIsOne /\ ~Compressed(info) /\ ~IsDepthOrStencil(info)
    /\ IF IsInteger(info)
       THEN <<format, info.base>> \in {<<"RED_INTEGER", "RED">>, <<"RG_INTEGER", "RG">>, <<"RGBA_INTEGER", "RGBA">>}
       ELSE format = info.base /\ info.base \in {"RED", "RG", "RGBA", "ALPHA", "LUMINANCE", "LUMINANCE_ALPHA"}
    /\ info.layout = "plain" /\ info.kind \in {"unorm", "uint", "int"}
    /\ type = ClientType(info.kind, info.width)

Rgba8(info) == info.layout = "plain" /\ info.kind = "unorm" /\ info.width = 8 /\ info.channels = 4

\* The byte of the group each stored byte comes from; none is opaque.
ByteShuffle(format, type, alphaIsOne) ==
    LET opaque == 0
        map == CASE type = "UBYTE" /\ format = "RGB" -> <<1, 2, 3, opaque>>
                 [] type = "UBYTE" /\ format = "BGR" -> <<3, 2, 1, opaque>>
                 [] type \in {"UBYTE", "8888R"} /\ format = "RGBA" -> <<1, 2, 3, 4>>
                 [] type \in {"UBYTE", "8888R"} /\ format = "BGRA" -> <<3, 2, 1, 4>>
                 [] type = "UBYTE" /\ format = "LUMINANCE" -> <<1, 1, 1, opaque>>
                 [] type = "UBYTE" /\ format = "LUMINANCE_ALPHA" -> <<1, 1, 1, 2>>
                 [] type = "8888" /\ format = "RGBA" -> <<4, 3, 2, 1>>
                 [] type = "8888" /\ format = "BGRA" -> <<2, 3, 4, 1>>
                 [] OTHER -> <<>>
    IN  IF map # <<>> /\ alphaIsOne THEN [map EXCEPT ![4] = opaque] ELSE map

\* Mutant: words of the other byte order are taken for bytes in order, too.
ByteTypeAnyOrder(format, type) == IF type \in {"8888", "8888R"} /\ format \in {"RGBA", "BGRA"} THEN "UBYTE" ELSE type
ByteType(format, type) == IF type = "8888R" /\ format \in {"RGBA", "BGRA"} THEN "UBYTE" ELSE type
StoredLayout(format, type, info) ==
    /\ GroupBytes(format, type) = StorageBytes(info)
    /\ IdentityTransfer(format, ByteType(format, type), info) \/ RawTransfer(format, type, info)
Shuffles(format, type, info) ==
    Rgba8(info) /\ info.base \in {"RGB", "RGBA"} /\ ByteShuffle(format, type, info.storedAlphaIsOne) # <<>>

\* readGroup, what the loop of unpackPixels does to the texel, and encodeStorage.
UnpackGeneric(group, format, type, info, swap) ==
    LET t == ReadGroup(group, format, type, IsInteger(info), swap)
        u == IF format \in {"LUMINANCE", "LUMINANCE_ALPHA"} THEN <<t[1], t[1], t[1], t[4]>> ELSE t
        v == IF info.kind = "unorm" THEN [c \in 1..4 |-> Clamp(u[c], 0)] ELSE u
    IN  EncodeStorage(info, RgbaToStored(info, v))
Unpack(group, format, type, info, swap) ==
    LET turned == swap /\ TypeBytes(type) > 1
        map == ByteShuffle(format, type, info.storedAlphaIsOne)
    IN  CASE ~turned /\ StoredLayout(format, type, info) -> group
          [] ~turned /\ Shuffles(format, type, info) -> [c \in 1..4 |-> IF map[c] = 0 THEN 255 ELSE group[map[c]]]
          [] OTHER -> UnpackGeneric(group, format, type, info, turned)

PackGeneric(stored, format, type, info, swap, clampColor) ==
    LET t == StoredToRgba(info, DecodeStorage(info, stored))
        u == IF clampColor /\ ~IsInteger(info) THEN [c \in 1..4 |-> Clamp(t[c], 0)] ELSE t
    IN  WriteGroup(u, format, type, IsInteger(info), swap)
Pack(stored, format, type, info, swap, clampColor) ==
    LET turned == swap /\ TypeBytes(type) > 1
    IN  CASE ~turned /\ StoredLayout(format, type, info) -> stored
          [] ~turned /\ format = "BGRA" /\ ByteType(format, type) = "UBYTE" /\ info.base = "RGBA" /\ Rgba8(info) ->
                <<stored[3], stored[2], stored[1], stored[4]>>
          [] OTHER -> PackGeneric(stored, format, type, info, turned, clampColor)

\* RGB bytes into RGBA8, four texels a step: 16 bytes are read at each of these.
RgbSteps(width) == {x \in 0..width : x % 4 = 0 /\ x + 6 <= width}

-----------------------------------------------------------------------------
(* Where the groups of an image are in the program's memory. *)

TransferLayout(format, type, size, store) ==
    LET group == GroupBytes(format, type)
        packed == type \in WordTypes \cup {"F32_24_8R"}
        s == IF packed THEN group ELSE TypeBytes(type)
        n == IF packed THEN 1 ELSE Len(Channels[format])
        a == store.alignment
        length == IF store.rowLength > 0 THEN store.rowLength ELSE size.width
        elements == IF s < a THEN (a \div s) * ((s * n * length + a - 1) \div a) ELSE n * length
        row == elements * s
        image == row * (IF store.imageHeight > 0 THEN store.imageHeight ELSE size.height)
        skip == store.skipImages * image + store.skipRows * row + store.skipPixels * group
    IN  [group |-> group, row |-> row, image |-> image, skip |-> skip,
         needed |-> IF size.width > 0 /\ size.height > 0 /\ size.depth > 0
                    THEN skip + (size.depth - 1) * image + (size.height - 1) * row + size.width * group ELSE 0]

-----------------------------------------------------------------------------
(* One BC4 block: 8 values between the largest and the smallest of it.     *)

\* Seven times the palette, as the decoder has it.
Palette(r0, r1) ==
    [k \in 0..7 |-> CASE k = 0 -> 7 * r0 [] k = 1 -> 7 * r1
                      [] OTHER -> (7 - (k - 1)) * r0 + (k - 1) * r1]
EncodeBc4(values) ==
    LET hi == CHOOSE v \in values : \A w \in values : w <= v
        lo == CHOOSE v \in values : \A w \in values : v <= w
        Far(v, k) == LET e == Palette(hi, lo)[k] - 7 * v IN IF e < 0 THEN -e ELSE e
        palette == IF hi > lo THEN 0..7 ELSE {0}
    IN  [r0 |-> hi, r1 |-> lo,
         index |-> [v \in values |-> CHOOSE k \in palette :
             \A l \in palette : Far(v, k) < Far(v, l) \/ (Far(v, k) = Far(v, l) /\ k <= l)]]
\* Seven times the value a texel reads as; five-step blocks are other encoders'.
DecodeBc4(block, v) == IF block.r0 > block.r1 THEN Palette(block.r0, block.r1)[block.index[v]] ELSE 7 * block.r0

\* The texels of a block of an image: the edge's again beyond the edge.
Least(a, b) == IF a < b THEN a ELSE b
BlockTexels(bx, by, width, height) ==
    {<<Least(bx * 4 + x, width - 1), Least(by * 4 + y, height - 1)>> : x \in 0..3, y \in 0..3}

-----------------------------------------------------------------------------
(* Properties. *)

Equal(v, w) == v[1] * w[2] = w[1] * v[2]
Same(t, u) == \A c \in 1..4 : Equal(t[c], u[c])

\* A short cut stores what the conversion stores; but a raw copy into padded
\* texels leaves their alpha to the client (AlphaStoredAsOne).
PaddedRaw(format, type, info) == info.storedAlphaIsOne /\ RawTransfer(format, type, info)
ShortCutsAgree(group, format, type, info, swap) ==
    ~PaddedRaw(format, type, info) =>
        Same(DecodeStorage(info, Unpack(group, format, type, info, swap)),
             DecodeStorage(info, UnpackGeneric(group, format, type, info, swap)))

\* RGB stored as RGBA: alpha is not part of the format, and is stored as one.
AlphaStoredAsOne(group, format, type, info, swap) ==
    info.storedAlphaIsOne => Equal(DecodeStorage(info, Unpack(group, format, type, info, swap))[4], One)

\* What a shader reads, through the format's swizzle, is the group's value as
\* the base format has it, to half a step of the format.
Sampled(info, stored) ==
    LET t == DecodeStorage(info, stored)
    IN  [c \in 1..4 |-> CASE info.swizzle[c] = "0" -> Zero [] info.swizzle[c] = "1" -> One
                          [] info.swizzle[c] = "r" -> t[1] [] info.swizzle[c] = "g" -> t[2]
                          [] info.swizzle[c] = "b" -> t[3] [] info.swizzle[c] = "a" -> t[4]]
AsBase(base, t) ==
    CASE base = "RED" -> <<t[1], Zero, Zero, One>> [] base = "RG" -> <<t[1], t[2], Zero, One>>
      [] base = "RGB" -> <<t[1], t[2], t[3], One>> [] base = "RGBA" -> t
      [] base = "ALPHA" -> <<Zero, Zero, Zero, t[4]>> [] base = "LUMINANCE" -> <<t[1], t[1], t[1], One>>
      [] base = "LUMINANCE_ALPHA" -> <<t[1], t[1], t[1], t[4]>> [] base = "INTENSITY" -> <<t[1], t[1], t[1], t[1]>>
Near(v, w, steps) ==
    LET far == v[1] * w[2] - w[1] * v[2] IN 2 * steps * (IF far < 0 THEN -far ELSE far) <= v[2] * w[2]
SampledIsGroup(group, format, type, info, swap) ==
    LET read == ReadGroup(group, format, type, IsInteger(info), swap /\ TypeBytes(type) > 1)
        rgba == IF format \in {"LUMINANCE", "LUMINANCE_ALPHA"} THEN <<read[1], read[1], read[1], read[4]>> ELSE read
        want == AsBase(info.base, rgba)
        got == Sampled(info, Unpack(group, format, type, info, swap))
    IN  \A c \in 1..4 :
          CASE info.kind = "unorm" -> Near(got[c], Clamp(want[c], 0), Top(FieldBits(info, c)))
            [] info.kind = "snorm" -> Near(got[c], want[c], 127)
            [] info.kind = "int" -> got[c][1] = ClampInt(want[c], -128, 127)
            [] OTHER -> got[c][1] = ClampInt(want[c], 0, Top(FieldBits(info, c)))

\* Reading a texture back in its own format and type returns what was put in,
\* and a short cut of reading returns what the conversion does. (Of SNORM with
\* colors clamped it does not, see README.md.)
ReadsBack(group, info, swap) ==
    LET format == info.transfer[1]
        type == info.transfer[2]
        back == Pack(Unpack(group, format, type, info, swap), format, type, info, swap, FALSE)
    IN  Same(ReadGroup(back, format, type, IsInteger(info), FALSE), ReadGroup(group, format, type, IsInteger(info), FALSE))
PackShortCutsAgree(stored, format, type, info, swap, clampColor) ==
    LET Value(group) == ReadGroup(group, format, type, IsInteger(info), FALSE)
    IN  (info.kind = "snorm" => ~clampColor) /\ ~PaddedRaw(format, type, info) =>
            Same(Value(Pack(stored, format, type, info, swap, clampColor)),
                 Value(PackGeneric(stored, format, type, info, swap /\ TypeBytes(type) > 1, clampColor)))

\* The memory an image needs ends with the last byte of its last group, rows
\* begin where the alignment lets them, and no step of four reads past a row.
LayoutCovers(format, type, size, store) ==
    LET l == TransferLayout(format, type, size, store)
        ends == {l.skip + z * l.image + y * l.row + x * l.group + l.group :
                    x \in 0..(size.width - 1), y \in 0..(size.height - 1), z \in 0..(size.depth - 1)}
    IN  /\ l.needed \in ends /\ \A e \in ends : e <= l.needed
        /\ store.alignment > TypeBytes(type) => l.row % store.alignment = 0
        /\ l.row >= l.group * (IF store.rowLength > 0 THEN store.rowLength ELSE size.width)
        /\ \A x \in RgbSteps(size.width) : 3 * x + 16 <= 3 * size.width

\* A texel reads within a fourteenth of its block's range of what it was.
BlockClose(values) ==
    LET block == EncodeBc4(values)
    IN  \A v \in values : LET e == DecodeBc4(block, v) - 7 * v
                          IN  2 * (IF e < 0 THEN -e ELSE e) <= block.r0 - block.r1
=============================================================================

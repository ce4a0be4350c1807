----------------------------- MODULE VertexDecode -----------------------------
(***************************************************************************)
(* Vertex attributes the CPU decodes (core/format/vertex_decode.cpp). An   *)
(* element is the sequence of its components' bits, with the widths of     *)
(* types as parameters; a component decodes to a rational <<n, d>>.        *)
(* FLOAT and DOUBLE pass through and HALF_FLOAT is SmallFloats.            *)
(***************************************************************************)
EXTENDS Integers, Sequences

CONSTANTS Width,       \* bits of BYTE, SHORT and INT, their unsigned types and FIXED
          PackedWidth  \* bits of the fields of 2_10_10_10_REV, the first the lowest

SignedTypes == {"BYTE", "SHORT", "INT", "FIXED"}
UnsignedTypes == {"UBYTE", "USHORT", "UINT"}
PackedTypes == {"INT_2_10_10_10_REV", "UNSIGNED_INT_2_10_10_10_REV"}
Types == SignedTypes \cup UnsignedTypes \cup PackedTypes
Bgra == 32993  \* GL_BGRA
Swap(v) == <<v[3], v[2], v[1], v[4]>>

Extended(raw, bits) == IF raw >= 2 ^ (bits - 1) THEN raw - 2 ^ bits ELSE raw
Value(raw, bits, signed, normalized) ==
    LET max == 2 ^ (IF signed THEN bits - 1 ELSE bits) - 1
        v == IF signed THEN Extended(raw, bits) ELSE raw
    IN  IF normalized THEN (IF v < -max THEN <<-1, 1>> ELSE <<v, max>>) ELSE <<v, 1>>

Component(raw, type, normalized) ==
    IF type = "FIXED" THEN <<Extended(raw, Width[type]), 2 ^ (Width[type] \div 2)>>
    ELSE Value(raw, Width[type], type \in SignedTypes, normalized)

\* All four components of a word.
Packed(word, type, normalized) ==
    LET shift == <<0, PackedWidth[1], PackedWidth[1] + PackedWidth[2], PackedWidth[1] + PackedWidth[2] + PackedWidth[3]>>
    IN  [c \in 1..4 |-> Value((word \div 2 ^ shift[c]) % 2 ^ PackedWidth[c], PackedWidth[c], type = "INT_2_10_10_10_REV", normalized)]

\* A size is 1 to 4 or GL_BGRA.
DecodeVertexFloat(element, type, size, normalized) ==
    LET count == IF size = Bgra THEN 4 ELSE size
        v == IF type \in PackedTypes THEN Packed(element[1], type, normalized)
             ELSE [c \in 1..4 |-> IF c <= count THEN Component(element[c], type, normalized)
                                  ELSE IF c = 4 THEN <<1, 1>> ELSE <<0, 1>>]
    IN  IF size = Bgra THEN Swap(v) ELSE v

\* A run of elements in one loop, for the types that have one.
DecodesRuns(type, size) == size # Bgra /\ type \notin PackedTypes \cup {"FIXED"}
DecodeRun(elements, type, size, normalized) ==
    [i \in DOMAIN elements |-> [c \in 1..4 |->
        IF c <= size THEN Value(elements[i][c], Width[type], type \in SignedTypes, normalized)
        ELSE IF c = 4 THEN <<1, 1>> ELSE <<0, 1>>]]

DecodeVertexInt(element, type, size) ==
    [c \in 1..4 |-> IF c <= size THEN (IF type \in SignedTypes THEN Extended(element[c], Width[type]) ELSE element[c])
                    ELSE IF c = 4 THEN 1 ELSE 0]

-----------------------------------------------------------------------------
\* A run decodes as its elements do; normalized components are between -1 and
\* 1 and take the sign of the bits, and what is not normalized is the integer
\* the attribute has for an integer shader input.
RunsAgree(elements, type, size, normalized) ==
    DecodesRuns(type, size) =>
        \A i \in DOMAIN elements :
          LET one == DecodeVertexFloat(elements[i], type, size, normalized)
          IN  /\ DecodeRun(elements, type, size, normalized)[i] = one
              /\ normalized => \A c \in 1..size : one[c][1] \in (-one[c][2])..one[c][2]
              /\ ~normalized => \A c \in 1..4 : one[c] = <<DecodeVertexInt(elements[i], type, size)[c], 1>>

\* The fields of a word are those that made it.
PackedReads(word, type) ==
    LET v == Packed(word, type, FALSE)
        Field(c) == v[c][1] % 2 ^ PackedWidth[c]
    IN  word = Field(1) + 2 ^ PackedWidth[1] * (Field(2) + 2 ^ PackedWidth[2] * (Field(3) + 2 ^ PackedWidth[3] * Field(4)))
=============================================================================

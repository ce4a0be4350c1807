------------------------------ MODULE BlockEncode ------------------------------
(***************************************************************************)
(* Client pixels into compressed blocks (core/format/block_encode.cpp):    *)
(* BC1 to BC3, BC6H, BC7, ETC2 and EAC. A block is a sequence of texels,   *)
(* 16 in the code, of color and alpha in steps of 1 / Unit. The decoders   *)
(* are Metal's.                                                            *)
(***************************************************************************)
EXTENDS PixelTransfer

F == INSTANCE FiniteSetsExt

CONSTANTS Unit,      \* steps of a component
          Levels,    \* the largest component of an endpoint of BC1 (31, 63, 31)
          MaxBc6     \* the largest unsigned endpoint of BC6H (1023)

To(v, max) == (2 * v * max + Unit) \div (2 * Unit)
Abs(n) == IF n < 0 THEN -n ELSE n
Largest(values) == CHOOSE v \in values : \A w \in values : w <= v
Smallest(values) == CHOOSE v \in values : \A w \in values : v <= w
Limit(v, low, high) == IF v < low THEN low ELSE IF v > high THEN high ELSE v
\* The first element with the least error.
Best(S, Err(_)) == LET least == Smallest({Err(k) : k \in S}) IN Smallest({k \in S : Err(k) = least})
Sum3(f) == f[1] + f[2] + f[3]
Clear(texel) == 2 * texel.alpha < Unit

-----------------------------------------------------------------------------
(* BC1: endpoints are the corners of the texels' box. *)

Code(q) == (q[1] * (Levels[2] + 1) + q[2]) * (Levels[3] + 1) + q[3]

\* Six times the palette; that of the three color mode ends with a clear black.
Bc1Palette(q0, q1, four) ==
    [k \in 0..3 |-> [c \in 1..3 |->
        CASE k = 0 -> 6 * q0[c] [] k = 1 -> 6 * q1[c]
          [] k = 2 -> (IF four THEN 4 * q0[c] + 2 * q1[c] ELSE 3 * q0[c] + 3 * q1[c])
          [] k = 3 -> (IF four THEN 2 * q0[c] + 4 * q1[c] ELSE 0)]]

\* Mutant: the endpoints are not swapped to select the mode of three colors.
EncodeBc1Unswapped(px, transparent) ==
    LET block == [high |-> [c \in 1..3 |-> To(Largest({px[i].color[c] : i \in DOMAIN px}), Levels[c])],
                  low |-> [c \in 1..3 |-> To(Smallest({px[i].color[c] : i \in DOMAIN px}), Levels[c])]]
    IN  [q0 |-> block.high, q1 |-> block.low,
         index |-> [i \in DOMAIN px |-> IF transparent /\ Clear(px[i]) THEN 3 ELSE 0]]

EncodeBc1(px, transparent) ==
    LET clear == {i \in DOMAIN px : transparent /\ Clear(px[i])}
        opaque == DOMAIN px \ clear
        Corner(Bound(_)) == [c \in 1..3 |-> IF opaque = {} THEN 0 ELSE To(Bound({px[i].color[c] : i \in opaque}), Levels[c])]
        high == Corner(Largest)
        low == Corner(Smallest)
        swap == IF clear # {} THEN Code(high) > Code(low) ELSE Code(high) < Code(low)
        q0 == IF swap THEN low ELSE high
        q1 == IF swap THEN high ELSE low
        four == Code(q0) > Code(q1)
        palette == Bc1Palette(q0, q1, four)
        Square(i, k, c) == LET d == (6 * Levels[c] * px[i].color[c] - Unit * palette[k][c]) * ((Levels[1] * Levels[2]) \div Levels[c]) IN d * d
        Nearest(i) == LET Err(k) == Sum3([c \in 1..3 |-> Square(i, k, c)]) IN Best(IF four THEN 0..3 ELSE 0..2, Err)
    IN  [q0 |-> q0, q1 |-> q1, index |-> [i \in DOMAIN px |-> IF i \in clear THEN 3 ELSE Nearest(i)]]

\* Of BC2 and BC3 every block has four colors.
DecodeBc1(block, i, alwaysFour) ==
    LET four == alwaysFour \/ Code(block.q0) > Code(block.q1)
    IN  [color |-> Bc1Palette(block.q0, block.q1, four)[block.index[i]], clear |-> ~four /\ block.index[i] = 3]

EncodeBc3Alpha(px) == EncodeBc4({To(px[i].alpha, 255) : i \in DOMAIN px})

-----------------------------------------------------------------------------
(* BC7 and BC6H: 16 weights between two endpoints; the first texel's index *)
(* has no high bit, and endpoints are swapped for it.                      *)

Weights4 == <<0, 4, 9, 13, 17, 21, 26, 30, 34, 38, 43, 47, 51, 55, 60, 64>>

NearestWeight(part, whole) ==
    LET t == Limit(part, 0, whole)
        Err(k) == Abs(64 * t - Weights4[k + 1] * whole)
    IN  Best(0..15, Err)

\* values[i] projected onto e0 -> e1.
ProjectIndices(values, e0, e1) ==
    LET channels == DOMAIN e0
        Dot(v) == LET f[c \in 0..Len(e0)] == IF c = 0 THEN 0 ELSE f[c - 1] + v[c] * (e1[c] - e0[c]) IN f[Len(e0)]
        length == Dot([c \in channels |-> e1[c] - e0[c]])
        index == [i \in DOMAIN values |->
                    IF length = 0 THEN 0 ELSE NearestWeight(Dot([c \in channels |-> values[i][c] - e0[c]]), length)]
        swapped == index[1] >= 8
    IN  [swapped |-> swapped, index |-> IF swapped THEN [i \in DOMAIN values |-> 15 - index[i]] ELSE index]
Between(e0, e1, k) == [c \in DOMAIN e0 |-> ((64 - Weights4[k + 1]) * e0[c] + Weights4[k + 1] * e1[c] + 32) \div 64]

\* Endpoint 0 rounds down to an even value, endpoint 1 up to an odd one.
EncodeBc7(px) ==
    LET values == [i \in DOMAIN px |-> [c \in 1..4 |-> To(IF c = 4 THEN px[i].alpha ELSE px[i].color[c], 255)]]
        Low(c) == Smallest({values[i][c] : i \in DOMAIN px}) \div 2
        High(c) == LET e == Largest({values[i][c] : i \in DOMAIN px})
                       q == Limit((e + 1) \div 2, 0, 127)
                   IN  IF 2 * q + 1 < e THEN 127 ELSE q
        e0 == [c \in 1..4 |-> 2 * Low(c)]
        e1 == [c \in 1..4 |-> 2 * High(c) + 1]
        projected == ProjectIndices(values, e0, e1)
    IN  [e0 |-> IF projected.swapped THEN e1 ELSE e0, e1 |-> IF projected.swapped THEN e0 ELSE e1,
         index |-> projected.index, values |-> values]

\* The bits of a half as an integer; values are given as such here.
HalfInteger(v, signed) == IF signed THEN v ELSE Limit(v, 0, v)
EncodeBc6h(halves, signed) ==
    LET values == [i \in DOMAIN halves |-> [c \in 1..3 |-> HalfInteger(halves[i][c], signed)]]
        scale == IF signed THEN 62 ELSE 31
        bias == IF signed THEN 31 ELSE 15
        most == IF signed THEN MaxBc6 \div 2 ELSE MaxBc6
        least == IF signed THEN -most ELSE 0
        Toward(v) == v - (IF v < 0 THEN -bias ELSE bias)
        Decoded(x) == IF x = 0 THEN 0 ELSE x * scale + (IF x < 0 THEN -bias ELSE bias)
        q0 == [c \in 1..3 |-> Limit(Toward(Smallest({values[i][c] : i \in DOMAIN halves})) \div scale, least, most)]
        q1 == [c \in 1..3 |-> Limit(-((-Toward(Largest({values[i][c] : i \in DOMAIN halves}))) \div scale), least, most)]
        e0 == [c \in 1..3 |-> Decoded(q0[c])]
        e1 == [c \in 1..3 |-> Decoded(q1[c])]
        projected == ProjectIndices(values, e0, e1)
    IN  [e0 |-> IF projected.swapped THEN e1 ELSE e0, e1 |-> IF projected.swapped THEN e0 ELSE e1,
         index |-> projected.index, values |-> values, low |-> e0, high |-> e1]

-----------------------------------------------------------------------------
(* ETC2: one base color of five bits, and a modifier of each texel.        *)

EtcModifiers == <<<<2, 8>>, <<5, 17>>, <<9, 29>>, <<13, 42>>, <<18, 60>>, <<24, 80>>, <<33, 106>>, <<47, 183>>>>
EtcModifier(table, k, punched) ==
    LET a == EtcModifiers[table][1]
        b == EtcModifiers[table][2]
    IN  CASE k = 0 -> (IF punched THEN 0 ELSE a) [] k = 1 -> b [] k = 2 -> -a [] k = 3 -> -b
EtcTexel(base, table, k, punched) == [c \in 1..3 |-> Limit(base[c] + EtcModifier(table, k, punched), 0, 255)]

EncodeEtc2(px, punchthrough) ==
    LET clear == {i \in DOMAIN px : punchthrough /\ Clear(px[i])}
        opaque == DOMAIN px \ clear
        n == Cardinality(opaque)
        total == [c \in 1..3 |-> LET f[i \in 0..Len(px)] == IF i = 0 THEN 0 ELSE f[i - 1] + (IF i \in opaque THEN px[i].color[c] ELSE 0)
                                 IN  f[Len(px)]]
        Five(c) == IF n = 0 THEN 0 ELSE (2 * total[c] * 31 + n * Unit) \div (2 * n * Unit)
        base == [c \in 1..3 |-> Five(c) * 8 + Five(c) \div 4]
        Err(i, table, k) == LET t == EtcTexel(base, table, k, clear # {})
                            IN  Sum3([c \in 1..3 |-> (t[c] - To(px[i].color[c], 255)) * (t[c] - To(px[i].color[c], 255))])
        Index(i, table) == LET E(k) == Err(i, table, k) IN Best(IF clear # {} THEN {0, 1, 3} ELSE 0..3, E)
        TableErr(table) == LET f[i \in 0..Len(px)] == IF i = 0 THEN 0
                                                      ELSE f[i - 1] + (IF i \in clear THEN 0 ELSE Err(i, table, Index(i, table)))
                           IN  f[Len(px)]
        table == Best(1..8, TableErr)
    IN  [base |-> base, table |-> table, opaque |-> clear = {},
         index |-> [i \in DOMAIN px |-> IF i \in clear THEN 2 ELSE Index(i, table)]]
DecodeEtc2(block, i) ==
    [color |-> EtcTexel(block.base, block.table, block.index[i], ~block.opaque), clear |-> ~block.opaque /\ block.index[i] = 2]

-----------------------------------------------------------------------------
(* EAC: a base value, a table of modifiers and a multiplier. *)

EacModifiers ==
    <<<<-3, -6, -9, -15, 2, 5, 8, 14>>, <<-3, -7, -10, -13, 2, 6, 9, 12>>, <<-2, -5, -8, -13, 1, 4, 7, 12>>,
      <<-2, -4, -6, -13, 1, 3, 5, 12>>, <<-3, -6, -8, -12, 2, 5, 7, 11>>, <<-3, -7, -9, -11, 2, 6, 8, 10>>,
      <<-4, -7, -8, -11, 3, 6, 7, 10>>, <<-3, -5, -8, -11, 2, 4, 7, 10>>, <<-2, -6, -8, -10, 1, 5, 7, 9>>,
      <<-2, -5, -8, -10, 1, 4, 7, 9>>, <<-2, -4, -8, -10, 1, 3, 7, 9>>, <<-2, -5, -7, -10, 1, 4, 6, 9>>,
      <<-3, -4, -7, -10, 2, 3, 6, 9>>, <<-1, -2, -3, -10, 0, 1, 2, 9>>, <<-4, -6, -8, -9, 3, 5, 7, 8>>,
      <<-3, -5, -7, -9, 2, 4, 6, 8>>>>

EacDecode(kind, base, m, mult) ==
    LET step == IF mult = 0 THEN m ELSE m * mult * 8
    IN  CASE kind = "alpha" -> Limit(base + m * mult, 0, 255)
          [] kind = "unsigned" -> Limit(base * 8 + 4 + step, 0, 2047)
          [] kind = "signed" -> Limit(base * 8 + step, -1023, 1023)
Halved(n, d) == IF n < 0 THEN -((-n) \div d) ELSE n \div d

\* Of a set of targets: the code gives equal texels equal indices.
EncodeEac(targets, kind) ==
    LET mid == Halved(Smallest(targets) + Largest(targets), 2)
        base == CASE kind = "alpha" -> mid [] kind = "unsigned" -> Limit(Halved(mid - 4, 8), 0, 255)
                  [] kind = "signed" -> Limit(Halved(mid, 8), -127, 127)
        Err(t, mode, k) == Abs(EacDecode(kind, base, EacModifiers[mode[1]][k], mode[2]) - t)
        Square(t, mode) == LET e == Smallest({Err(t, mode, k) : k \in 1..8}) IN e * e
        Squares(mode) == LET E(t) == Square(t, mode) IN F!MapThenSumSet(E, targets)
        modes == {<<table, mult>> : table \in 1..16, mult \in (IF kind = "alpha" THEN 1 ELSE 0)..15}
        least == Smallest({Squares(m) : m \in modes})
        best == CHOOSE m \in modes : Squares(m) = least
    IN  [t \in targets |-> LET E(k) == Err(t, best, k) IN EacDecode(kind, base, EacModifiers[best[1]][Best(1..8, E)], best[2])]

-----------------------------------------------------------------------------
(* Which encoder fills each 8 or 16 bytes of a block (encodeBlocks). *)

Parts(layout) ==
    CASE layout = "BC1" -> <<<<"bc1 clear", 8>>>>
      [] layout = "BC2" -> <<<<"alpha4", 8>>, <<"bc1", 8>>>>
      [] layout = "BC3" -> <<<<"bc3 alpha", 8>>, <<"bc1", 8>>>>
      [] layout = "BC6H" -> <<<<"bc6h", 16>>>>
      [] layout = "BC7" -> <<<<"bc7", 16>>>>
      [] layout = "ETC2" -> <<<<"etc2", 8>>>>
      [] layout = "ETC2A1" -> <<<<"etc2 clear", 8>>>>
      [] layout = "EAC" -> <<<<"eac alpha", 8>>, <<"etc2", 8>>>>
      [] layout = "EAC_R11" -> <<<<"eac", 8>>>>
      [] layout = "EAC_RG11" -> <<<<"eac", 8>>, <<"eac", 8>>>>
BlockEncodable(info) == info.layout \in {"BC1", "BC2", "BC3", "BC6H", "BC7", "ETC2", "ETC2A1", "EAC", "EAC_R11", "EAC_RG11"}
-----------------------------------------------------------------------------
(* Properties, of a block at a time. *)

\* The texels that read as clear are those whose alpha says so, in formats
\* that have it, whichever mode the block's endpoints select; and a texel of a
\* gray block is within a sixth of the block's range of what it was, the
\* rounding of the endpoints and of the value aside.
Gray(px) == \A i \in DOMAIN px : px[i].color[1] = px[i].color[2] /\ px[i].color[2] = px[i].color[3]
GrayRange(px) == LET grays == {px[i].color[1] : i \in DOMAIN px} IN Largest(grays) - Smallest(grays)
Bc1Reads(px) ==
    \A transparent \in BOOLEAN :
      LET block == EncodeBc1(px, transparent)
      IN  \A i \in DOMAIN px :
            LET texel == DecodeBc1(block, i, ~transparent)
            IN  /\ texel.clear <=> transparent /\ Clear(px[i])
                /\ Gray(px) /\ ~texel.clear =>
                     \A c \in 1..3 : Abs(Unit * texel.color[c] - 6 * Levels[c] * px[i].color[c])
                                       <= 6 * Unit + 2 * Levels[c] * GrayRange(px)

\* The first index fits its three bits, and a gray texel is near what it was.
Bc7Reads(px) ==
    LET block == EncodeBc7(px)
    IN  /\ block.index[1] < 8
        /\ Gray(px) /\ (\A i \in DOMAIN px : px[i].alpha = px[1].alpha) => \A i \in DOMAIN px : \A c \in 1..3 :
             Abs(Between(block.e0, block.e1, block.index[i])[c] - block.values[i][c]) <= 2 + Abs(block.e1[c] - block.e0[c]) \div 12

\* Likewise, and the endpoints are around the values, nearly next to zero.
Bc6hReads(halves, signed) ==
    LET block == EncodeBc6h(halves, signed)
        near == IF signed THEN 31 ELSE 15
    IN  /\ block.index[1] < 8
        /\ \A i \in DOMAIN halves : \A c \in 1..3 : block.low[c] <= block.values[i][c] + near /\ block.values[i][c] <= block.high[c] + near
        /\ (\A i \in DOMAIN halves : halves[i][1] = halves[i][2] /\ halves[i][2] = halves[i][3]) =>
             \A i \in DOMAIN halves : \A c \in 1..3 :
               Abs(Between(block.e0, block.e1, block.index[i])[c] - block.values[i][c]) <= near + 1 + Abs(block.e1[c] - block.e0[c]) \div 24

\* Clear texels are clear, no others, and one color is within 6 steps of 255.
Etc2Reads(px) ==
    \A punchthrough \in BOOLEAN :
      LET block == EncodeEtc2(px, punchthrough)
      IN  \A i \in DOMAIN px :
            LET texel == DecodeEtc2(block, i)
            IN  /\ texel.clear <=> punchthrough /\ Clear(px[i])
                /\ Gray(px) /\ GrayRange(px) = 0 /\ ~texel.clear => \A c \in 1..3 : Abs(texel.color[c] - To(px[i].color[c], 255)) <= 6

\* One value is itself, of two each is near what it was.
EacReads(targets, kind) ==
    LET read == EncodeEac(targets, kind)
    IN  \A t \in targets : Abs(read[t] - t) <= (IF Cardinality(targets) = 1 THEN 0 ELSE Largest(targets) - Smallest(targets)) \div 8

\* The encoders of a format fill the bytes of its blocks, no more and no less.
PartsFill(info) ==
    BlockEncodable(info) =>
      LET parts == Parts(info.layout) IN StorageBytes(info) = parts[1][2] + (IF Len(parts) = 2 THEN parts[2][2] ELSE 0)

=============================================================================

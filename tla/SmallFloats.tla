------------------------------ MODULE SmallFloats ------------------------------
(***************************************************************************)
(* The floating-point formats of pixels (core/format/pixel_transfer.cpp):  *)
(* half, the 10 and 11 bit floats and RGB9_E5, with their widths as        *)
(* parameters. Values have a sign of their own in every format, so they    *)
(* are positive here; infinity and NaN pass through and are left out.      *)
(*                                                                         *)
(* A source float is <<e, m>>: (2^SourceBits + m) * 2^(e - SourceBits). A  *)
(* small float is its bits, exponent above mantissa. A value is counted in *)
(* units of a quarter of the smallest small float.                         *)
(***************************************************************************)
EXTENDS Integers

CONSTANTS SourceBits,  \* mantissa bits of a float (23)
          Bits,        \* mantissa bits of the small float (10, 6, 5; 9)
          MaxExponent  \* the exponent of its infinity (31)

Bias == (MaxExponent - 1) \div 2
Infinity == MaxExponent * 2 ^ Bits
MaxFinite == Infinity - 1
Codes == 0..MaxFinite
Sources == ((-Bias - Bits - 2)..(Bias + 2)) \X (0..(2 ^ SourceBits - 1))

\* Nearest, and to even or away from zero in between.
ToEven(n, shift) ==
    LET down == n \div 2 ^ shift
        rest == n % 2 ^ shift
        mid == 2 ^ (shift - 1)
    IN  IF rest > mid \/ (rest = mid /\ down % 2 = 1) THEN down + 1 ELSE down
Away(n, shift) == (n + 2 ^ (shift - 1)) \div 2 ^ shift

FloatToHalf(f) ==
    LET e == f[1] + Bias
    IN  CASE e >= MaxExponent -> Infinity
          [] e \in 1..(MaxExponent - 1) -> ToEven(e * 2 ^ SourceBits + f[2], SourceBits - Bits)
          [] e \in -Bits..0 -> ToEven(2 ^ SourceBits + f[2], SourceBits - Bits + 1 - e)
          [] OTHER -> 0

\* Of a code that is not zero: a subnormal one is normalised.
HalfToFloat(code) ==
    LET exponent == code \div 2 ^ Bits
        mantissa == code % 2 ^ Bits
        shift == CHOOSE k \in 1..Bits : mantissa * 2 ^ k \in 2 ^ Bits..(2 ^ (Bits + 1) - 1)
    IN  IF exponent = 0 THEN <<1 - Bias - shift, (mantissa * 2 ^ shift - 2 ^ Bits) * 2 ^ (SourceBits - Bits)>>
        ELSE <<exponent - Bias, mantissa * 2 ^ (SourceBits - Bits)>>

\* Too large a value is the largest finite one, and a subnormal one stays so.
FloatToSmallFloat(f) ==
    LET e == f[1] + Bias
        subnormal == Away(2 ^ SourceBits + f[2], SourceBits - Bits + 1 - e)
        normal == e * 2 ^ Bits + Away(f[2], SourceBits - Bits)
    IN  CASE e >= MaxExponent -> MaxFinite
          [] e <= 0 -> IF subnormal < 2 ^ Bits THEN subnormal ELSE 2 ^ Bits - 1
          [] OTHER -> IF normal < Infinity THEN normal ELSE MaxFinite

-----------------------------------------------------------------------------
(* RGB9_E5: three mantissas of Bits bits without a hidden one.             *)

Largest == 4 * (2 ^ Bits - 1) * 2 ^ MaxExponent
EncodeRGB9E5(values) ==
    LET c == [i \in 1..3 |-> IF values[i] > Largest THEN Largest ELSE values[i]]
        max == CHOOSE v \in {c[1], c[2], c[3]} : \A i \in 1..3 : c[i] <= v
        \* floor(log2(max)), of a value of 2^Bits units; less than one is none.
        e0 == IF max < 4 * 2 ^ Bits THEN 0
              ELSE CHOOSE e \in 1..(MaxExponent + 1) : max \in 4 * 2 ^ (Bits + e - 1)..(4 * 2 ^ (Bits + e) - 1)
        Rounded(v, e) == (v + 2 * 2 ^ e) \div (4 * 2 ^ e)
        e == IF Rounded(max, e0) = 2 ^ Bits THEN e0 + 1 ELSE e0
    IN  [exponent |-> e, wide |-> [i \in 1..3 |-> Rounded(c[i], e)],
         mantissa |-> [i \in 1..3 |-> Rounded(c[i], e) % 2 ^ Bits]]
DecodeRGB9E5(word) == [i \in 1..3 |-> 4 * word.mantissa[i] * 2 ^ word.exponent]

-----------------------------------------------------------------------------
(* Properties. *)

\* The value of a code, infinity's as if the exponents went on, and of a
\* source float, in units of 2^-(Bits + 2 + SourceBits) of the smallest normal.
CodeValue(code) ==
    LET exponent == code \div 2 ^ Bits
        mantissa == code % 2 ^ Bits
    IN  (IF exponent = 0 THEN mantissa ELSE (2 ^ Bits + mantissa) * 2 ^ (exponent - 1)) * 2 ^ (SourceBits + 3)
SourceValue(f) == (2 ^ SourceBits + f[2]) * 2 ^ (f[1] + Bias + Bits + 2)
Far(f, code) == LET d == SourceValue(f) - CodeValue(code) IN IF d < 0 THEN -d ELSE d

\* A half is the nearest there is, the even one of two; infinity from half a
\* step above the largest on.
HalfIsNearest(f) ==
    LET code == FloatToHalf(f)
    IN  \A other \in (Codes \cup {Infinity}) \ {code} :
          \/ Far(f, code) < Far(f, other)
          \/ Far(f, code) = Far(f, other) /\ code % 2 = 0
          \/ code = Infinity /\ SourceValue(f) >= CodeValue(Infinity)

\* Every half comes back from the float it reads as.
HalfComesBack(code) == code # 0 => FloatToHalf(HalfToFloat(code)) = code

\* A small float is one of the two around the value, the largest above it.
SmallFloatIsNext(f) ==
    LET code == FloatToSmallFloat(f)
    IN  /\ code \in Codes
        /\ code > 0 => SourceValue(f) > CodeValue(code - 1)
        /\ code < MaxFinite => SourceValue(f) < CodeValue(code + 1)

\* No mantissa overflows its field, every color is within half a step of the
\* shared exponent, and what was decoded encodes to itself.
SharedExponentFits(values) ==
    LET word == EncodeRGB9E5(values)
        back == DecodeRGB9E5(word)
    IN  /\ word.exponent <= MaxExponent /\ word.wide = word.mantissa
        /\ \A i \in 1..3 : values[i] <= Largest =>
             back[i] - values[i] \in (-2 * 2 ^ word.exponent)..(2 * 2 ^ word.exponent)
        /\ DecodeRGB9E5(EncodeRGB9E5(back)) = back
=============================================================================

------------------------------ MODULE MCFormats ------------------------------
(***************************************************************************)
(* The computations of core/format and wgl_formats.c over bounded inputs:  *)
(* a step takes one input, and the invariants are about the input taken.   *)
(* An input is a tuple whose first element says what it is for.            *)
(***************************************************************************)
EXTENDS Integers, Sequences, FiniteSets

CONSTANT Nothing
VARIABLE input

B == INSTANCE BlockEncode WITH Unit <- 15, Levels <- <<3, 7, 3>>, MaxBc6 <- 31
N == INSTANCE SmallFloats WITH SourceBits <- 5, Bits <- 2, MaxExponent <- 7
D == INSTANCE VertexDecode WITH
       Width <- [BYTE |-> 3, UBYTE |-> 3, SHORT |-> 4, USHORT |-> 4, INT |-> 5, UINT |-> 5, FIXED |-> 4],
       PackedWidth <- <<3, 3, 3, 2>>
C == INSTANCE PixelFormats WITH Colors <- {16, 32}, Sizes <- {0, 8}, MaxFormats <- 3

Table == B!Table
Plain == {"R8", "RG8", "RGB8", "RGBA8", "BGRA8", "SRGB8_ALPHA8", "RGBA4", "R8_SNORM", "RGB8_SNORM", "RGBA8_SNORM",
          "RG8I", "RGB8I", "RGBA8I", "R8UI", "RGB8UI", "RGBA8UI", "RGB10_A2", "RGB10_A2UI",
          "ALPHA8", "LUMINANCE8", "LUMINANCE8_ALPHA8", "INTENSITY8"}
Bytes == {"UBYTE", "BYTE"}

\* Six groups of client data: all zeros, all ones, and between.
FieldBits(format, type) ==
  IF type \in Bytes THEN [i \in 1 .. Len(B!Channels[format]) |-> 8]
  ELSE LET bits == B!PackedLayout[type][1]
       IN  IF B!PackedLayout[type][2] THEN bits ELSE [i \in 1 .. Len(bits) |-> bits[Len(bits) + 1 - i]]
Group(format, type, k) ==
  LET bits == FieldBits(format, type)
      Field(i, m) == CASE k = 0 -> 0 [] k = 1 -> m - 1 [] k = 2 -> m \div 2 [] k = 3 -> (37 * i + 90) % m
                       [] k = 4 -> ((m \div 2) - 1) + (i % 2) [] k = 5 -> (199 * i) % m
  IN  [i \in 1 .. Len(bits) |-> Field(i, 2 ^ bits[i])]

Images == {"image"} \X (B!EsUnsized \cup B!EsSized) \X B!EsFormats \X B!EsTypes
Copies == {"copy"} \X B!EsColorRenderable \X (B!EsUnsized \cup B!EsSized)
Transfers ==
  {t \in {"transfer"} \X Plain \X B!ClientFormats \X (Bytes \cup B!PackedTypes) :
     B!ValidTransfer(t[3], t[4], TRUE) /\ B!TransferCompatible(t[3], Table[t[2]])}
Layouts ==
  {"layout"} \X {<<"RGB", "UBYTE">>, <<"RGB", "565">>, <<"RGBA", "FLOAT">>, <<"DEPTH_STENCIL", "F32_24_8R">>}
    \X (1 .. 9) \X {1, 2, 4, 8} \X {0, 5} \X {0, 4} \X {0, 2}
Grays == {<<v, v, v>> : v \in {0, 3, 7, 8, 15}}
Texels == [color : Grays \cup {<<15, 0, 0>>, <<0, 9, 4>>}, alpha : {7, 8, 15}]
Blocks == {"block"} \X (UNION {[1 .. n -> Texels] : n \in 1 .. 2})
Halves == {-900, -31, 0, 15, 16, 500, 961}
HalfBlocks ==
  {"halves"} \X ({<<<<a, a, a>>, <<b, b, b>>, <<c, c, c>>>> : a, b, c \in Halves} \cup
                 {<<<<a, b, c>>, <<c, a, b>>>> : a, b, c \in Halves})
Eacs ==
  ({"eac"} \X {"alpha"} \X {{a, b} : a, b \in {0, 1, 5, 100, 120, 240, 255}})
    \cup ({"eac"} \X {"unsigned"} \X {{a, b} : a, b \in {0, 1, 1000, 1200, 2043, 2047}})
    \cup ({"eac"} \X {"signed"} \X {{a} : a \in {-1023, -1022, -1016, -9, -8, -5, -4, -1, 0, 3, 4, 5, 1019, 1022, 1023}})
Ranges == {"range"} \X (SUBSET {0, 1, 2, 10, 57, 128, 200, 255} \ {{}})
Floats == {"float"} \X N!Sources
Colors == {0, 1, 3, 7, 15, 16, 31, 60, 63, 64, 127, 128, 500, 1000, 3583, 3584, 3585, 5000}
Shared == {"shared"} \X Colors \X Colors
Elements ==
  {"element"} \X (D!Types \ D!PackedTypes) \X {1, 3, 4} \X BOOLEAN \X {0, 1, 3, 4, 6, 7}
Words == {"word"} \X D!PackedTypes \X (0 .. 2047)
Lists == {"list"} \X C!Descriptor \X (UNION {[1 .. n -> [window : {TRUE}, double : BOOLEAN, color : {16, 32}, alpha : {0}, depth : {0, 8}]] : n \in 1 .. 2})
Requests ==
  {"request"} \X {[color |-> 24], [window |-> TRUE, color |-> 16], [swap |-> "copy", accel |-> "full"]}
    \X [1 .. 3 -> [window : {TRUE}, accel : {"full", "none"}, color : {24, 32, 64}, alpha : {8}, shift : {0},
                   swap : {"copy"}, samples : {0}]]

Inputs ==
  <<Images, Copies, Transfers, Layouts, Blocks, HalfBlocks, Eacs, Ranges, Floats, Shared, Elements, Words, Lists, Requests,
    {"format"} \X DOMAIN Table>>

Init == input = Nothing
Take == input = Nothing /\ \E i \in DOMAIN Inputs : \E x \in Inputs[i] : input' = x
Drop == input # Nothing /\ input' = Nothing
Next == Take \/ Drop
Spec == Init /\ [][Next]_input

Of(kind) == input # Nothing /\ input[1] = kind

(* What glTexImage and glCopyTexImage make of their arguments is a format  *)
(* there is, that the calls that update the image take it for; names       *)
(* resolve to formats that stand for themselves; and a pixel format chosen *)
(* is the best of those that meet the request (Formats, PixelFormats).     *)
FormatsSound ==
  /\ Of("image") => /\ B!TexImageUpdatable(input[2], input[3], input[4])
                    /\ B!ResolvesOnce(input[2], input[4])
  /\ Of("copy") => B!CopyUpdatable(input[2], input[3])
  /\ input = Nothing => B!EsRenders
  /\ Of("list") => C!ChosenIsBest(input[2], input[3])
  /\ Of("request") => C!ChoicesAreSorted(input[2], input[3])

(* Texels, vertices and small floats: a short cut of a conversion does     *)
(* what the conversion does, what is read is what was written to the       *)
(* precision of the format, and an image's bytes are where they were said  *)
(* to be (PixelTransfer, VertexDecode, SmallFloats).                       *)
ConversionsSound ==
  /\ Of("transfer") =>
       LET info == Table[input[2]]
           format == input[3]
           type == input[4]
       IN  \A k \in 0 .. 5, swap \in BOOLEAN :
             LET group == Group(format, type, k)
             IN  /\ B!ShortCutsAgree(group, format, type, info, swap)
                 /\ B!SampledIsGroup(group, format, type, info, swap)
                 /\ <<format, type>> = info.transfer => B!ReadsBack(group, info, swap)
                 /\ \A clamp \in BOOLEAN :
                      B!PackShortCutsAgree(B!Unpack(group, format, type, info, swap), format, type, info, swap, clamp)
  /\ Of("layout") =>
       B!LayoutCovers(input[2][1], input[2][2], [width |-> input[3], height |-> 3, depth |-> 2],
         [alignment |-> input[4], rowLength |-> input[5], imageHeight |-> input[6],
          skipPixels |-> input[7], skipRows |-> input[7], skipImages |-> input[7]])
  /\ Of("float") => N!HalfIsNearest(input[2]) /\ N!SmallFloatIsNext(input[2])
  /\ input = Nothing => \A code \in N!Codes : N!HalfComesBack(code)
  /\ Of("shared") => N!SharedExponentFits(<<input[2], input[3], input[2] \div 2>>)
  /\ Of("element") =>
       D!RunsAgree([i \in 1 .. 2 |-> [c \in 1 .. 4 |-> (input[5] + 5 * c + i) % 8]], input[2], input[3], input[4])
  /\ Of("word") => D!PackedReads(input[3], input[2])

(* Blocks encoded on the CPU fill their bytes, read near what they were    *)
(* made of, and are clear where it was (BlockEncode, PixelTransfer).       *)
BlocksSound ==
  /\ Of("block") => B!Bc1Reads(input[2]) /\ B!Bc7Reads(input[2]) /\ B!Etc2Reads(input[2])
  /\ Of("halves") => \A signed \in BOOLEAN : B!Bc6hReads(input[2], signed)
  /\ Of("eac") => B!EacReads(input[3], input[2])
  /\ Of("range") => B!BlockClose(input[2])
  /\ Of("format") => B!PartsFill(Table[input[2]])

(* formats.h:62: "RGB stored as RGBA: alpha is not part of the format". It *)
(* then is stored as one, whatever the client's alpha; a raw copy of four  *)
(* components keeps the client's (pixel_transfer.cpp:699).                 *)
StoredAlphaIsOne ==
  Of("transfer") =>
    \A k \in 0 .. 5, swap \in BOOLEAN :
      B!AlphaStoredAsOne(Group(input[3], input[4], k), input[3], input[4], Table[input[2]], swap)
==============================================================================

-------------------------------- MODULE Formats --------------------------------
(***************************************************************************)
(* Internal formats (core/format/formats.cpp) and the rules of OpenGL ES   *)
(* for them (core/format/es_formats.cpp). Names are GL's without GL_, the  *)
(* types' also without UNSIGNED_ and the like: "UBYTE", "565", "2101010R". *)
(* A name the header gives as a number has its extension's.                *)
(*                                                                         *)
(* A color format is given by the bits of its components, whose number is  *)
(* its base format; where it is stored follows from them, but for the      *)
(* packed formats.                                                         *)
(***************************************************************************)
EXTENDS Integers, Sequences, FiniteSets, TLC

None == "none"

-----------------------------------------------------------------------------
(* The table. *)

UnormFormats ==
    [R8 |-> <<8>>, R16 |-> <<16>>, RG8 |-> <<8, 8>>, RG16 |-> <<16, 16>>, R3_G3_B2 |-> <<3, 3, 2>>,
     RGB4 |-> <<4, 4, 4>>, RGB5 |-> <<5, 5, 5>>, RGB8 |-> <<8, 8, 8>>, RGB565 |-> <<5, 6, 5>>,
     RGB10 |-> <<10, 10, 10>>, RGB12 |-> <<12, 12, 12>>, RGB16 |-> <<16, 16, 16>>,
     RGBA2 |-> <<2, 2, 2, 2>>, RGBA4 |-> <<4, 4, 4, 4>>, RGB5_A1 |-> <<5, 5, 5, 1>>, RGBA8 |-> <<8, 8, 8, 8>>,
     BGRA8 |-> <<8, 8, 8, 8>>, RGB10_A2 |-> <<10, 10, 10, 2>>, RGBA12 |-> <<12, 12, 12, 12>>,
     RGBA16 |-> <<16, 16, 16, 16>>]
SrgbFormats == [SRGB8 |-> <<8, 8, 8>>, SRGB8_ALPHA8 |-> <<8, 8, 8, 8>>, SR8 |-> <<8>>, SRG8 |-> <<8, 8>>]
SnormFormats ==
    [R8_SNORM |-> <<8>>, R16_SNORM |-> <<16>>, RG8_SNORM |-> <<8, 8>>, RG16_SNORM |-> <<16, 16>>,
     RGB8_SNORM |-> <<8, 8, 8>>, RGB16_SNORM |-> <<16, 16, 16>>, RGBA8_SNORM |-> <<8, 8, 8, 8>>,
     RGBA16_SNORM |-> <<16, 16, 16, 16>>]
FloatFormats ==
    [R16F |-> <<16>>, RG16F |-> <<16, 16>>, RGB16F |-> <<16, 16, 16>>, RGBA16F |-> <<16, 16, 16, 16>>,
     R32F |-> <<32>>, RG32F |-> <<32, 32>>, RGB32F |-> <<32, 32, 32>>, RGBA32F |-> <<32, 32, 32, 32>>,
     R11F_G11F_B10F |-> <<11, 11, 10>>, RGB9_E5 |-> <<9, 9, 9>>]
SintFormats ==
    [R8I |-> <<8>>, R16I |-> <<16>>, R32I |-> <<32>>, RG8I |-> <<8, 8>>, RG16I |-> <<16, 16>>, RG32I |-> <<32, 32>>,
     RGB8I |-> <<8, 8, 8>>, RGB16I |-> <<16, 16, 16>>, RGB32I |-> <<32, 32, 32>>,
     RGBA8I |-> <<8, 8, 8, 8>>, RGBA16I |-> <<16, 16, 16, 16>>, RGBA32I |-> <<32, 32, 32, 32>>]
UintFormats ==
    [R8UI |-> <<8>>, R16UI |-> <<16>>, R32UI |-> <<32>>, RG8UI |-> <<8, 8>>, RG16UI |-> <<16, 16>>,
     RG32UI |-> <<32, 32>>, RGB8UI |-> <<8, 8, 8>>, RGB16UI |-> <<16, 16, 16>>, RGB32UI |-> <<32, 32, 32>>,
     RGBA8UI |-> <<8, 8, 8, 8>>, RGBA16UI |-> <<16, 16, 16, 16>>, RGBA32UI |-> <<32, 32, 32, 32>>,
     RGB10_A2UI |-> <<10, 10, 10, 2>>]
\* Depth and stencil bits, how depth is counted, and the type of client data.
DepthFormats ==
    [DEPTH_COMPONENT16 |-> <<16, 0, "unorm", "USHORT">>, DEPTH_COMPONENT24 |-> <<24, 0, "unorm", "UINT">>,
     DEPTH_COMPONENT32 |-> <<32, 0, "unorm", "UINT">>, DEPTH_COMPONENT32F |-> <<32, 0, "float", "FLOAT">>,
     DEPTH24_STENCIL8 |-> <<24, 8, "unorm", "24_8">>, DEPTH32F_STENCIL8 |-> <<32, 8, "float", "F32_24_8R">>,
     STENCIL_INDEX1 |-> <<0, 1, None, "UBYTE">>, STENCIL_INDEX4 |-> <<0, 4, None, "UBYTE">>,
     STENCIL_INDEX8 |-> <<0, 8, None, "UBYTE">>, STENCIL_INDEX16 |-> <<0, 16, None, "USHORT">>]
\* Base format, kind and bits of the compatibility profile's formats, with the
\* compressed ones of EXT_texture_compression_latc.
LegacyFormats ==
    [ALPHA8 |-> <<"ALPHA", "unorm", 8>>, ALPHA16 |-> <<"ALPHA", "unorm", 16>>,
     LUMINANCE8 |-> <<"LUMINANCE", "unorm", 8>>, LUMINANCE16 |-> <<"LUMINANCE", "unorm", 16>>,
     LUMINANCE8_ALPHA8 |-> <<"LUMINANCE_ALPHA", "unorm", 8>>,
     LUMINANCE16_ALPHA16 |-> <<"LUMINANCE_ALPHA", "unorm", 16>>,
     INTENSITY8 |-> <<"INTENSITY", "unorm", 8>>, INTENSITY16 |-> <<"INTENSITY", "unorm", 16>>,
     ALPHA32F |-> <<"ALPHA", "float", 32>>, LUMINANCE32F |-> <<"LUMINANCE", "float", 32>>,
     LUMINANCE_ALPHA32F |-> <<"LUMINANCE_ALPHA", "float", 32>>, ALPHA16F |-> <<"ALPHA", "float", 16>>,
     LUMINANCE16F |-> <<"LUMINANCE", "float", 16>>, LUMINANCE_ALPHA16F |-> <<"LUMINANCE_ALPHA", "float", 16>>]
LatcFormats == [LUMINANCE_LATC1 |-> <<"LUMINANCE", "unorm", 8>>, SIGNED_LUMINANCE_LATC1 |-> <<"LUMINANCE", "snorm", 8>>,
         LUMINANCE_ALPHA_LATC2 |-> <<"LUMINANCE_ALPHA", "unorm", 8>>,
         SIGNED_LUMINANCE_ALPHA_LATC2 |-> <<"LUMINANCE_ALPHA", "snorm", 8>>,
         LUMINANCE_ALPHA_3DC |-> <<"LUMINANCE_ALPHA", "unorm", 8>>]
\* Bits, kind, blocks and whether sRGB. One ASTC size stands for fourteen here.
BlockFormats ==
    [RED_RGTC1 |-> <<<<8>>, "unorm", "BC4", FALSE>>, SIGNED_RED_RGTC1 |-> <<<<8>>, "snorm", "BC4", FALSE>>,
     RG_RGTC2 |-> <<<<8, 8>>, "unorm", "BC5", FALSE>>, SIGNED_RG_RGTC2 |-> <<<<8, 8>>, "snorm", "BC5", FALSE>>,
     RGB_DXT1 |-> <<<<5, 6, 5>>, "unorm", "BC1", FALSE>>, RGBA_DXT1 |-> <<<<5, 6, 5, 1>>, "unorm", "BC1", FALSE>>,
     RGBA_DXT3 |-> <<<<5, 6, 5, 4>>, "unorm", "BC2", FALSE>>, RGBA_DXT5 |-> <<<<5, 6, 5, 8>>, "unorm", "BC3", FALSE>>,
     SRGB_DXT1 |-> <<<<5, 6, 5>>, "unorm", "BC1", TRUE>>, SRGB_ALPHA_DXT1 |-> <<<<5, 6, 5, 1>>, "unorm", "BC1", TRUE>>,
     SRGB_ALPHA_DXT3 |-> <<<<5, 6, 5, 4>>, "unorm", "BC2", TRUE>>,
     SRGB_ALPHA_DXT5 |-> <<<<5, 6, 5, 8>>, "unorm", "BC3", TRUE>>,
     RGBA_BPTC |-> <<<<8, 8, 8, 8>>, "unorm", "BC7", FALSE>>, SRGB_ALPHA_BPTC |-> <<<<8, 8, 8, 8>>, "unorm", "BC7", TRUE>>,
     RGB_BPTC_SIGNED_FLOAT |-> <<<<16, 16, 16>>, "float", "BC6H", FALSE>>,
     RGB_BPTC_UNSIGNED_FLOAT |-> <<<<16, 16, 16>>, "float", "BC6H", FALSE>>,
     RGB8_ETC2 |-> <<<<8, 8, 8>>, "unorm", "ETC2", FALSE>>, SRGB8_ETC2 |-> <<<<8, 8, 8>>, "unorm", "ETC2", TRUE>>,
     RGB8_ALPHA1_ETC2 |-> <<<<8, 8, 8, 1>>, "unorm", "ETC2A1", FALSE>>,
     SRGB8_ALPHA1_ETC2 |-> <<<<8, 8, 8, 1>>, "unorm", "ETC2A1", TRUE>>,
     RGBA8_EAC |-> <<<<8, 8, 8, 8>>, "unorm", "EAC", FALSE>>, SRGB8_ALPHA8_EAC |-> <<<<8, 8, 8, 8>>, "unorm", "EAC", TRUE>>,
     R11_EAC |-> <<<<11>>, "unorm", "EAC_R11", FALSE>>, SIGNED_R11_EAC |-> <<<<11>>, "snorm", "EAC_R11", FALSE>>,
     RG11_EAC |-> <<<<11, 11>>, "unorm", "EAC_RG11", FALSE>>, SIGNED_RG11_EAC |-> <<<<11, 11>>, "snorm", "EAC_RG11", FALSE>>,
     ETC1_RGB8 |-> <<<<8, 8, 8>>, "unorm", "ETC2", FALSE>>, RGBA_ASTC |-> <<<<8, 8, 8, 8>>, "unorm", "ASTC", FALSE>>,
     SRGB8_ALPHA8_ASTC |-> <<<<8, 8, 8, 8>>, "unorm", "ASTC", TRUE>>]

\* The packed storages; every other one has components of one size.
Packed == {"RGB10_A2", "RGB10_A2UI", "R11F_G11F_B10F", "RGB9_E5"}
ColorBases == <<"RED", "RG", "RGB", "RGBA">>
Integer(kind) == kind \in {"int", "uint"}
Wide(bits) == IF \A i \in DOMAIN bits : bits[i] <= 8 THEN 8 ELSE IF \A i \in DOMAIN bits : bits[i] <= 16 THEN 16 ELSE 32

ClientType(kind, width) ==
    CASE kind \in {"unorm", "uint"} -> (IF width = 8 THEN "UBYTE" ELSE IF width = 16 THEN "USHORT" ELSE "UINT")
      [] kind \in {"snorm", "int"} -> (IF width = 8 THEN "BYTE" ELSE IF width = 16 THEN "SHORT" ELSE "INT")
      [] kind = "float" -> (IF width = 16 THEN "HALF" ELSE "FLOAT")
PackedType == [R3_G3_B2 |-> "332", RGB565 |-> "565", RGB10_A2 |-> "2101010R", RGB10_A2UI |-> "2101010R",
               R11F_G11F_B10F |-> "10F11F11FR", RGB9_E5 |-> "5999R"]

\* add(): RGB formats are stored with four channels, but for the packed floats
\* and the compressed ones, and their alpha reads as one.
Color(name, kind, bits, srgb, block) ==
    LET base == ColorBases[Len(bits)]
        padded == base = "RGB" /\ block = None /\ name \notin Packed
        width == Wide(bits)
    IN  [base |-> base, kind |-> kind, srgb |-> srgb, depth |-> 0, stencil |-> 0,
         bits |-> [c \in 1..4 |-> IF c <= Len(bits) THEN bits[c] ELSE 0],
         shared |-> IF name = "RGB9_E5" THEN 5 ELSE 0,
         layout |-> IF block # None THEN block ELSE IF name \in Packed THEN name ELSE "plain",
         channels |-> IF padded THEN 4 ELSE Len(bits), width |-> width, storedAlphaIsOne |-> padded,
         swizzle |-> IF base = "RGB" /\ name \notin {"R11F_G11F_B10F", "RGB9_E5"} THEN <<"r", "g", "b", "1">> ELSE <<"r", "g", "b", "a">>,
         transfer |-> <<IF Integer(kind) THEN <<"RED_INTEGER", "RG_INTEGER", "RGB_INTEGER", "RGBA_INTEGER">>[Len(bits)]
                        ELSE IF name = "BGRA8" THEN "BGRA" ELSE base,
                        IF name \in DOMAIN PackedType THEN PackedType[name]
                        ELSE IF block # None THEN ClientType(kind, IF kind = "float" THEN 32 ELSE 8)
                        ELSE ClientType(kind, width)>>]

DepthFormat(row) ==
    LET base == IF row[1] = 0 THEN "STENCIL_INDEX" ELSE IF row[2] = 0 THEN "DEPTH_COMPONENT" ELSE "DEPTH_STENCIL"
    IN  [base |-> base, kind |-> row[3], srgb |-> FALSE, depth |-> row[1], stencil |-> row[2],
         bits |-> <<0, 0, 0, 0>>, shared |-> 0,
         layout |-> IF row[1] = 0 THEN "Stencil8" ELSE IF row[2] # 0 THEN "Depth32Float_Stencil8"
                    ELSE IF row[1] = 16 THEN "Depth16Unorm" ELSE "Depth32Float",
         channels |-> 0, width |-> 0, storedAlphaIsOne |-> FALSE, swizzle |-> <<"r", "g", "b", "a">>,
         transfer |-> <<base, row[4]>>]

\* Luminance, alpha and intensity are stored in red, or in red and green.
LegacyFormat(row, block) ==
    LET base == row[1]
        luminance == IF base \in {"LUMINANCE", "LUMINANCE_ALPHA"} THEN row[3] ELSE 0
        alpha == IF base \in {"ALPHA", "LUMINANCE_ALPHA"} THEN row[3] ELSE 0
    IN  [base |-> base, kind |-> row[2], srgb |-> FALSE, depth |-> 0, stencil |-> 0,
         bits |-> <<0, 0, 0, alpha>>, luminance |-> luminance, shared |-> 0,
         layout |-> IF block = None THEN "plain" ELSE block,
         channels |-> IF base = "LUMINANCE_ALPHA" THEN 2 ELSE 1, width |-> row[3], storedAlphaIsOne |-> FALSE,
         swizzle |-> CASE base = "ALPHA" -> <<"0", "0", "0", "r">> [] base = "LUMINANCE" -> <<"r", "r", "r", "1">>
                       [] base = "INTENSITY" -> <<"r", "r", "r", "r">> [] base = "LUMINANCE_ALPHA" -> <<"r", "r", "r", "g">>,
         transfer |-> <<IF base = "INTENSITY" THEN "LUMINANCE" ELSE base, ClientType(row[2], row[3])>>]

Table ==
    [f \in DOMAIN UnormFormats |-> Color(f, "unorm", UnormFormats[f], FALSE, None)] @@
    [f \in DOMAIN SrgbFormats |-> Color(f, "unorm", SrgbFormats[f], TRUE, None)] @@
    [f \in DOMAIN SnormFormats |-> Color(f, "snorm", SnormFormats[f], FALSE, None)] @@
    [f \in DOMAIN FloatFormats |-> Color(f, "float", FloatFormats[f], FALSE, None)] @@
    [f \in DOMAIN SintFormats |-> Color(f, "int", SintFormats[f], FALSE, None)] @@
    [f \in DOMAIN UintFormats |-> Color(f, "uint", UintFormats[f], FALSE, None)] @@
    [f \in DOMAIN BlockFormats |-> Color(f, BlockFormats[f][2], BlockFormats[f][1], BlockFormats[f][4], BlockFormats[f][3])] @@
    [f \in DOMAIN DepthFormats |-> DepthFormat(DepthFormats[f])] @@
    [f \in DOMAIN LegacyFormats |-> LegacyFormat(LegacyFormats[f], None)] @@
    [f \in DOMAIN LatcFormats |-> LegacyFormat(LatcFormats[f], IF LatcFormats[f][1] = "LUMINANCE" THEN "BC4" ELSE "BC5")]

Luminance(info) == IF info.base \in {"LUMINANCE", "LUMINANCE_ALPHA"} THEN info.luminance ELSE 0
IsDepthOrStencil(info) == info.depth # 0 \/ info.stencil # 0
Compressed(info) == ~IsDepthOrStencil(info) /\ info.layout \notin Packed \cup {"plain"}
IsInteger(info) == Integer(info.kind)
ColorRenderable(info) ==
    info.base \in {"RED", "RG", "RGB", "RGBA"} /\ ~Compressed(info) /\ info.layout # "RGB9_E5"

\* Bytes of a texel, or of a block.
StorageBytes(info) ==
    CASE info.layout = "plain" -> info.channels * (info.width \div 8)
      [] info.layout \in Packed \cup {"Depth32Float"} -> 4
      [] info.layout = "Depth16Unorm" -> 2
      [] info.layout = "Stencil8" -> 1
      [] info.layout \in {"Depth32Float_Stencil8", "BC1", "BC4", "ETC2", "ETC2A1", "EAC_R11"} -> 8
      [] OTHER -> 16

AstcSizes == {<<4, 4>>, <<5, 4>>, <<5, 5>>, <<6, 5>>, <<6, 6>>, <<8, 5>>, <<8, 6>>, <<8, 8>>, <<10, 5>>, <<10, 6>>, <<10, 8>>,
              <<10, 10>>, <<12, 10>>, <<12, 12>>}
BlockSizes(info) == IF info.layout = "ASTC" THEN AstcSizes ELSE IF Compressed(info) THEN {<<4, 4>>} ELSE {<<1, 1>>}
BlocksAcross(block, texels) == (texels + block - 1) \div block

-----------------------------------------------------------------------------
(* Unsized formats (resolveInternalFormat, isValidTextureInternalFormat). *)

Unsized == {"RED", "RG", "RGB", "RGBA", "DEPTH_COMPONENT", "DEPTH_STENCIL", "COMPRESSED_RED", "COMPRESSED_RG",
            "COMPRESSED_RGB", "COMPRESSED_RGBA", "COMPRESSED_SRGB", "COMPRESSED_SRGB_ALPHA", "SRGB", "SRGB_ALPHA"}
UnsizedLegacy == {"1", "2", "3", "4", "ALPHA", "LUMINANCE", "LUMINANCE_ALPHA", "INTENSITY"}

Fixed == [COMPRESSED_RED |-> "R8", COMPRESSED_RG |-> "RG8", COMPRESSED_RGB |-> "RGB8", COMPRESSED_RGBA |-> "RGBA8",
          COMPRESSED_SRGB |-> "SRGB8", COMPRESSED_SRGB_ALPHA |-> "SRGB8_ALPHA8", SRGB |-> "SRGB8",
          SRGB_ALPHA |-> "SRGB8_ALPHA8", STENCIL_INDEX |-> "STENCIL_INDEX8", INTENSITY |-> "INTENSITY8",
          LUMINANCE |-> "LUMINANCE8", LUMINANCE_ALPHA |-> "LUMINANCE8_ALPHA8"]
ByType ==
    [USHORT |-> <<"R16", "RG16", "RGB16", "RGBA16">>, BYTE |-> <<"R8_SNORM", "RG8_SNORM", "RGB8_SNORM", "RGBA8_SNORM">>,
     SHORT |-> <<"R16_SNORM", "RG16_SNORM", "RGB16_SNORM", "RGBA16_SNORM">>, HALF |-> <<"R16F", "RG16F", "RGB16F", "RGBA16F">>,
     FLOAT |-> <<"R32F", "RG32F", "RGB32F", "RGBA32F">>] @@
    ("2101010R" :> <<"R8", "RG8", "RGB8", "RGB10_A2">>) @@
    ("10F11F11FR" :> <<"R16F", "RG16F", "R11F_G11F_B10F", "RGBA16F">>) @@
    ("5999R" :> <<"R16F", "RG16F", "RGB9_E5", "RGBA16F">>)

Resolve(internal, type) ==
    LET channels == CASE internal = "RED" -> 1 [] internal = "RG" -> 2 [] internal \in {"RGB", "3"} -> 3
                      [] internal \in {"RGBA", "4"} -> 4 [] OTHER -> 0
    IN  CASE internal = "1" -> "LUMINANCE8"
          [] internal = "2" -> "LUMINANCE8_ALPHA8"
          [] internal \in DOMAIN Fixed -> Fixed[internal]
          [] internal = "ALPHA" -> (IF type = "FLOAT" THEN "ALPHA32F" ELSE "ALPHA8")
          [] internal = "DEPTH_COMPONENT" -> (IF type = "FLOAT" THEN "DEPTH_COMPONENT32F"
                                              ELSE IF type = "USHORT" THEN "DEPTH_COMPONENT16" ELSE "DEPTH_COMPONENT24")
          [] internal = "DEPTH_STENCIL" -> (IF type = "F32_24_8R" THEN "DEPTH32F_STENCIL8" ELSE "DEPTH24_STENCIL8")
          [] channels # 0 -> (IF type \in DOMAIN ByType THEN ByType[type] ELSE <<"R8", "RG8", "RGB8", "RGBA8">>)[channels]
          [] OTHER -> internal

ValidInternalFormat(internal, compatibility, stencilTextures) ==
    CASE internal \in Unsized -> TRUE
      [] internal \in UnsizedLegacy -> compatibility
      [] internal \in {"STENCIL_INDEX", "STENCIL_INDEX8"} -> stencilTextures
      [] internal \in {"STENCIL_INDEX1", "STENCIL_INDEX4", "STENCIL_INDEX16"} -> FALSE
      [] OTHER -> /\ internal \in DOMAIN Table
                  /\ compatibility \/ Table[internal].base \notin {"ALPHA", "LUMINANCE", "LUMINANCE_ALPHA", "INTENSITY"}

-----------------------------------------------------------------------------
(* OpenGL ES: what format and type glTexImage takes for an internal format *)
(* (kSized, kUnsized).                                                     *)

Sized ==
    [RGBA8 |-> {<<"RGBA", "UBYTE">>}, RGB5_A1 |-> {<<"RGBA", "UBYTE">>, <<"RGBA", "5551">>, <<"RGBA", "2101010R">>},
     RGBA4 |-> {<<"RGBA", "UBYTE">>, <<"RGBA", "4444">>}, SRGB8_ALPHA8 |-> {<<"RGBA", "UBYTE">>},
     RGBA8_SNORM |-> {<<"RGBA", "BYTE">>}, RGB10_A2 |-> {<<"RGBA", "2101010R">>}, RGBA16F |-> {<<"RGBA", "HALF">>, <<"RGBA", "FLOAT">>},
     RGBA32F |-> {<<"RGBA", "FLOAT">>}, RGBA16 |-> {<<"RGBA", "USHORT">>}, RGBA16_SNORM |-> {<<"RGBA", "SHORT">>},
     RGB10_A2UI |-> {<<"RGBA_INTEGER", "2101010R">>},
     RGB8 |-> {<<"RGB", "UBYTE">>, <<"RGB", "2101010R">>}, RGB565 |-> {<<"RGB", "UBYTE">>, <<"RGB", "565">>, <<"RGB", "2101010R">>},
     SRGB8 |-> {<<"RGB", "UBYTE">>}, RGB8_SNORM |-> {<<"RGB", "BYTE">>},
     R11F_G11F_B10F |-> {<<"RGB", "10F11F11FR">>, <<"RGB", "HALF">>, <<"RGB", "FLOAT">>},
     RGB9_E5 |-> {<<"RGB", "5999R">>, <<"RGB", "HALF">>, <<"RGB", "FLOAT">>},
     RGB16F |-> {<<"RGB", "HALF">>, <<"RGB", "FLOAT">>}, RGB32F |-> {<<"RGB", "FLOAT">>}, RGB16 |-> {<<"RGB", "USHORT">>},
     RGB16_SNORM |-> {<<"RGB", "SHORT">>}, RG8 |-> {<<"RG", "UBYTE">>}, SRG8 |-> {<<"RG", "UBYTE">>}, RG8_SNORM |-> {<<"RG", "BYTE">>},
     RG16F |-> {<<"RG", "HALF">>, <<"RG", "FLOAT">>}, RG32F |-> {<<"RG", "FLOAT">>}, RG16 |-> {<<"RG", "USHORT">>},
     RG16_SNORM |-> {<<"RG", "SHORT">>}, R8 |-> {<<"RED", "UBYTE">>}, SR8 |-> {<<"RED", "UBYTE">>}, R8_SNORM |-> {<<"RED", "BYTE">>},
     R16F |-> {<<"RED", "HALF">>, <<"RED", "FLOAT">>}, R32F |-> {<<"RED", "FLOAT">>}, R16 |-> {<<"RED", "USHORT">>},
     R16_SNORM |-> {<<"RED", "SHORT">>}, DEPTH_COMPONENT16 |-> {<<"DEPTH_COMPONENT", "USHORT">>, <<"DEPTH_COMPONENT", "UINT">>},
     DEPTH_COMPONENT24 |-> {<<"DEPTH_COMPONENT", "UINT">>}, DEPTH_COMPONENT32F |-> {<<"DEPTH_COMPONENT", "FLOAT">>},
     DEPTH_COMPONENT32 |-> {<<"DEPTH_COMPONENT", "UINT">>}, DEPTH24_STENCIL8 |-> {<<"DEPTH_STENCIL", "24_8">>},
     DEPTH32F_STENCIL8 |-> {<<"DEPTH_STENCIL", "F32_24_8R">>}, STENCIL_INDEX8 |-> {<<"STENCIL_INDEX", "UBYTE">>}] @@
    [f \in (DOMAIN SintFormats \cup DOMAIN UintFormats) \ {"RGB10_A2UI"} |-> {Table[f].transfer}]

UnsizedRows ==
    {<<"RGBA", "UBYTE", "RGBA8">>, <<"RGBA", "4444", "RGBA4">>, <<"RGBA", "5551", "RGB5_A1">>, <<"RGB", "UBYTE", "RGB8">>,
     <<"RGB", "565", "RGB565">>, <<"LUMINANCE_ALPHA", "UBYTE", "LUMINANCE8_ALPHA8">>, <<"LUMINANCE", "UBYTE", "LUMINANCE8">>,
     <<"ALPHA", "UBYTE", "ALPHA8">>, <<"RGBA", "FLOAT", "RGBA32F">>, <<"RGB", "FLOAT", "RGB32F">>,
     <<"LUMINANCE_ALPHA", "FLOAT", "LUMINANCE_ALPHA32F">>, <<"LUMINANCE", "FLOAT", "LUMINANCE32F">>, <<"ALPHA", "FLOAT", "ALPHA32F">>,
     <<"RGBA", "HALF_OES", "RGBA16F">>, <<"RGB", "HALF_OES", "RGB16F">>, <<"LUMINANCE_ALPHA", "HALF_OES", "LUMINANCE_ALPHA16F">>,
     <<"LUMINANCE", "HALF_OES", "LUMINANCE16F">>, <<"ALPHA", "HALF_OES", "ALPHA16F">>, <<"RED", "UBYTE", "R8">>,
     <<"RG", "UBYTE", "RG8">>, <<"RED", "FLOAT", "R32F">>, <<"RG", "FLOAT", "RG32F">>, <<"RED", "HALF_OES", "R16F">>,
     <<"RG", "HALF_OES", "RG16F">>, <<"SRGB", "UBYTE", "SRGB8">>, <<"SRGB_ALPHA", "UBYTE", "SRGB8_ALPHA8">>,
     <<"DEPTH_COMPONENT", "USHORT", "DEPTH_COMPONENT16">>, <<"DEPTH_COMPONENT", "UINT", "DEPTH_COMPONENT24">>,
     <<"DEPTH_STENCIL", "24_8", "DEPTH24_STENCIL8">>, <<"BGRA", "UBYTE", "BGRA8">>, <<"RGBA", "2101010R", "RGB10_A2">>,
     <<"RGB", "2101010R", "RGB10">>}

SizedLegacy == {"RGB10", "ALPHA8", "LUMINANCE8", "LUMINANCE8_ALPHA8", "LUMINANCE4_ALPHA4", "ALPHA32F", "LUMINANCE32F",
                "LUMINANCE_ALPHA32F", "ALPHA16F", "LUMINANCE16F", "LUMINANCE_ALPHA16F", "BGRA8"}
EsUnsized == {"RGBA", "RGB", "LUMINANCE_ALPHA", "LUMINANCE", "ALPHA", "RED", "RG", "SRGB", "SRGB_ALPHA", "DEPTH_COMPONENT",
              "DEPTH_STENCIL", "BGRA"}
EsSized == DOMAIN Sized \cup SizedLegacy

EsFormats == EsUnsized \cup {"RGBA_INTEGER", "RGB_INTEGER", "RG_INTEGER", "RED_INTEGER", "STENCIL_INDEX"}
EsTypes == {"UBYTE", "BYTE", "USHORT", "SHORT", "UINT", "INT", "HALF", "HALF_OES", "FLOAT", "565", "4444", "5551", "2101010R",
            "10F11F11FR", "5999R", "24_8", "F32_24_8R"}

\* The sized format an image gets, or None and the error.
Made(internal) == [internal |-> internal, error |-> None]
Error(error) == [internal |-> None, error |-> error]

TexImageFormat(internal, format, type) ==
    LET unsized == {r \in UnsizedRows : r[1] = format /\ r[2] = type}
    IN  CASE format \notin EsFormats \/ type \notin EsTypes -> Error("INVALID_ENUM")
          [] internal \in EsUnsized ->
                IF internal = format /\ unsized # {} THEN Made((CHOOSE r \in unsized : TRUE)[3]) ELSE Error("INVALID_OPERATION")
          [] internal \notin EsUnsized \cup EsSized -> Error("INVALID_VALUE")
          [] internal \in DOMAIN Sized /\ <<format, type>> \in Sized[internal] -> Made(internal)
          [] internal = "LUMINANCE4_ALPHA4" ->
                IF <<format, type>> = <<"LUMINANCE_ALPHA", "UBYTE">> THEN Made("LUMINANCE8_ALPHA8") ELSE Error("INVALID_OPERATION")
          [] OTHER -> IF \E r \in unsized : r[3] = internal THEN Made(internal) ELSE Error("INVALID_OPERATION")

TexSubImageCompatible(internal, format, type) ==
    /\ format \in EsFormats /\ type \in EsTypes
    /\ \/ internal \in DOMAIN Sized /\ <<format, type>> \in Sized[internal]
       \/ <<format, type, internal>> \in UnsizedRows

EsColorRenderable ==
    {"R8", "RG8", "RGB8", "RGB565", "RGBA4", "RGB5_A1", "RGBA8", "RGB10_A2", "RGB10_A2UI", "SRGB8_ALPHA8", "R8I", "R8UI", "R16I",
     "R16UI", "R32I", "R32UI", "RG8I", "RG8UI", "RG16I", "RG16UI", "RG32I", "RG32UI", "RGBA8I", "RGBA8UI", "RGBA16I", "RGBA16UI",
     "RGBA32I", "RGBA32UI", "BGRA8", "R16F", "RG16F", "RGBA16F", "R32F", "RG32F", "RGBA32F", "R11F_G11F_B10F", "RGB16F", "R16",
     "RG16", "RGBA16", "R8_SNORM", "RG8_SNORM", "RGBA8_SNORM", "R16_SNORM", "RG16_SNORM", "RGBA16_SNORM"}
DepthOrStencilRenderable ==
    {"DEPTH_COMPONENT16", "DEPTH_COMPONENT24", "DEPTH_COMPONENT32", "DEPTH_COMPONENT32F", "DEPTH24_STENCIL8",
     "DEPTH32F_STENCIL8", "STENCIL_INDEX8"}
RenderbufferFormat(f) == f \in EsColorRenderable \cup DepthOrStencilRenderable

\* The formats and types glReadPixels takes for a color buffer.
ReadPixels(f) ==
    CASE f \in DOMAIN SintFormats \ {"RGB8I", "RGB16I", "RGB32I"} -> {<<"RGBA_INTEGER", "INT">>}
      [] f \in DOMAIN UintFormats \ {"RGB8UI", "RGB16UI", "RGB32UI"} -> {<<"RGBA_INTEGER", "UINT">>}
      [] f \in DOMAIN FloatFormats \ {"RGB32F", "RGB9_E5"} -> {<<"RGBA", "FLOAT">>}
      [] f = "RGB10_A2" -> {<<"RGBA", "UBYTE">>, <<"RGBA", "2101010R">>}
      [] f \in {"R16", "RG16", "RGBA16"} -> {<<"RGBA", "UBYTE">>, <<"RGBA", "USHORT">>}
      [] f \in {"R8_SNORM", "RG8_SNORM", "RGBA8_SNORM"} -> {<<"RGBA", "BYTE">>}
      [] f \in {"R16_SNORM", "RG16_SNORM", "RGBA16_SNORM"} -> {<<"RGBA", "BYTE">>, <<"RGBA", "SHORT">>}
      [] OTHER -> {<<"RGBA", "UBYTE">>}

-----------------------------------------------------------------------------
(* OpenGL ES: copies from the read buffer. *)

Components(base) ==
    CASE base = "RED" -> {"r"} [] base = "RG" -> {"r", "g"} [] base = "RGB" -> {"r", "g", "b"}
      [] base = "RGBA" -> {"r", "g", "b", "a"} [] OTHER -> {}
Needs == [ALPHA |-> {"a"}, LUMINANCE |-> {"r"}, RED |-> {"r"}, LUMINANCE_ALPHA |-> {"r", "a"}, RG |-> {"g"}, RGB |-> {"b"},
          RGBA |-> {"a", "b"}]
BaseCompatible(source, dest) == dest \in DOMAIN Needs /\ Needs[dest] \subseteq Components(source)

SameComponentType(a, b) == a.kind = b.kind /\ a.srgb = b.srgb
\* Mutant: sRGB buffers are copied like linear ones.
FixedAny(source) == source.kind = "unorm"
FixedLinear(source) == source.kind = "unorm" /\ ~source.srgb
SmallSource(source) == source.bits[1] <= 8 /\ source.bits[4] <= 8

CopyTexImageFormat(source, internal) ==
    LET r == source.bits[1]
        a == source.bits[4]
        sized == IF internal \in DOMAIN Table THEN Table[internal] ELSE [base |-> None]
        base == IF internal = "LUMINANCE4_ALPHA4" THEN "LUMINANCE_ALPHA" ELSE sized.base
        Or(f) == IF f = None THEN Error("INVALID_OPERATION") ELSE Made(f)
    IN  CASE internal \in {"RGBA", "RGB", "LUMINANCE_ALPHA", "LUMINANCE", "ALPHA"} ->
                IF FixedLinear(source) /\ BaseCompatible(source.base, internal) /\ SmallSource(source)
                THEN Or(CASE internal = "LUMINANCE" -> "LUMINANCE8"
                          [] internal = "ALPHA" -> "ALPHA8"
                          [] internal = "LUMINANCE_ALPHA" -> (IF a = 1 \/ a >= 4 THEN "LUMINANCE8_ALPHA8" ELSE None)
                          [] internal = "RGB" -> (IF r <= 5 THEN "RGB565" ELSE "RGB8")
                          [] internal = "RGBA" -> (IF r <= 4 /\ a <= 4 THEN "RGBA4" ELSE IF r = 5 /\ a = 1 THEN "RGB5_A1"
                                                   ELSE IF a >= 2 THEN "RGBA8" ELSE None))
                ELSE Error("INVALID_OPERATION")
          [] internal \in {"LUMINANCE8", "ALPHA8", "LUMINANCE8_ALPHA8", "LUMINANCE4_ALPHA4"} ->
                IF FixedLinear(source) /\ BaseCompatible(source.base, base) /\ SmallSource(source)
                THEN Made(IF internal = "LUMINANCE4_ALPHA4" THEN "LUMINANCE8_ALPHA8" ELSE internal)
                ELSE Error("INVALID_OPERATION")
          [] OTHER ->
                IF \/ internal \notin DOMAIN Table \cap EsSized
                   \/ sized.base \in {"ALPHA", "LUMINANCE", "LUMINANCE_ALPHA", "INTENSITY"}
                   \/ Compressed(sized) \/ IsDepthOrStencil(sized)
                THEN Error("INVALID_VALUE")
                ELSE IF /\ SameComponentType(source, sized)
                        /\ BaseCompatible(source.base, sized.base)
                        /\ sized.shared = 0 /\ source.shared = 0
                        /\ \A c \in 1..4 : sized.bits[c] # 0 => sized.bits[c] = source.bits[c]
                THEN Made(internal)
                ELSE Error("INVALID_OPERATION")

CopyTexSubImageCompatible(source, dest) ==
    /\ ~Compressed(dest) /\ ~IsDepthOrStencil(dest)
    /\ BaseCompatible(source.base, dest.base)
    /\ IF dest.kind \in {"unorm", "snorm"} THEN source.kind = "unorm" /\ source.srgb = dest.srgb
       ELSE SameComponentType(source, dest)
-----------------------------------------------------------------------------
(* Properties, of one internal format, client format and type at a time.   *)

\* What glTexImage makes of a combination is a format there is, which
\* glTexSubImage then takes the same combination for.
TexImageUpdatable(internal, format, type) ==
    LET made == TexImageFormat(internal, format, type).internal
    IN  made # None => made \in DOMAIN Table /\ TexSubImageCompatible(made, format, type)

\* What glCopyTexImage makes of a read buffer keeps every bit of the components
\* it has, and glCopyTexSubImage then takes the buffer for it. (It takes none
\* for a signed normalized image, see README.md.)
CopyUpdatable(read, internal) ==
    LET source == Table[read]
        made == CopyTexImageFormat(source, internal).internal
        dest == Table[made]
    IN  made # None =>
          /\ made \in DOMAIN Table
          /\ \A c \in 1..4 : dest.bits[c] # 0 => dest.bits[c] >= source.bits[c]
          /\ Luminance(dest) # 0 => Luminance(dest) >= source.bits[1]
          /\ dest.kind # "snorm" => CopyTexSubImageCompatible(source, dest)

\* A format glTexImage takes resolves to one there is, which stands for itself
\* whatever the type.
ResolvesOnce(internal, type) ==
    ValidInternalFormat(internal, TRUE, TRUE) =>
        /\ Resolve(internal, type) \in DOMAIN Table
        /\ \A t \in EsTypes : Resolve(Resolve(internal, type), t) = Resolve(internal, type)

\* What OpenGL ES renders to, the tables let it.
EsRenders == \A f \in EsColorRenderable : ColorRenderable(Table[f])

=============================================================================

------------------------------ MODULE TexTools ------------------------------
(***************************************************************************)
(* The tools that convert single textures, tex_to_dds and fnt_extract, and *)
(* the header and the tiles they, smt_extract and sm_extract read a        *)
(* texture by (MakeContext, MTXTAddrLib).  They are run over the files     *)
(* smt_extract does not take, and write to the same output.                *)
(*                                                                         *)
(* Such a file has, beside ext,                                            *)
(*   streamed   whether it lies in tex/nx/m/                               *)
(*   xbc1       whether it begins as a compressed stream                   *)
(*   data       what decompressing it gives, as in SmtExtract              *)
(*   high       the same of the file of its name in tex/nx/h/, or None     *)
(*   texture    its header: [kind, width, height, depth, cube, format,     *)
(*              numbers, mode, pitch, pipe, bank], kind being "MTXT",       *)
(*              "LBIM" or "none"; width and height count texels            *)
(*   wide       for a font whether its characters have two bytes           *)
(*   chars      its characters, each [char, other, bytes], and rows, the   *)
(*              number of rows of its grid                                 *)
(* and no container and no model file.                                     *)
(***************************************************************************)
EXTENDS SmtExtract, TexTiles, FiniteSets

CONSTANTS
  Textures,   \* The files for tex_to_dds.
  Fonts       \* The files for fnt_extract.

(* What is taken for granted of a header: a tiled surface has whole tiles. *)
IsTexture(t) ==
  /\ t.kind = "MTXT" /\ t.mode \notin {"Default", "LinearAligned"} => IsSurface(t)
  /\ t.kind = "LBIM" => t.width \in Nat /\ t.height \in Nat

ASSUME TexturesAssumption == \A f \in Textures \cup Fonts : IsTexture(f.texture)

TextureInit == file \in Textures /\ fate = "texture" /\ Begin

FontInit == file \in Fonts /\ fate = "font" /\ Begin

Step(next) == fate' = next /\ UNCHANGED <<file, cache, group, pos, seen, out, num, viaModel>>

End(how, written) ==
  /\ fate' = how
  /\ out' = out \o written
  /\ UNCHANGED <<file, cache, group, pos, seen, num, viaModel>>

(***************************************************************************)
(* The format of the texels and, of an MTXT format, their size.            *)
(***************************************************************************)
LBIMFormats == {"BC1", "BC2", "BC3", "BC4", "BC5", "BC6", "BC7", "RGBA8", "RGBA4", "R8", "RGBA16"}

LBIMFormat(format) ==
  CASE format = "BGRA8" -> "RGBA8"
    [] format \in LBIMFormats -> format
    [] OTHER -> "INVALID"

\* An MTXT format is one of texels and how their numbers are taken.
MTXTFormats ==
  ({"BC1", "BC2", "BC3"} \X {"UNORM", "SRGB"}) \cup ({"BC4", "BC5"} \X {"UNORM", "SNORM"})
    \cup ({"R8", "RGBA8"} \X {"UNORM"})

MTXTFormat(t) == IF <<t.format, t.numbers>> \in MTXTFormats THEN t.format ELSE "INVALID"

TexelBytes(format) ==
  CASE format \in {"BC2", "BC3", "BC5"} -> 16
    [] format = "R8" -> 1
    [] format = "RGBA8" -> 4
    [] OTHER -> 8

LBIMImage(t, width, height, stream) ==
  [name |-> file.ext, kind |-> "image", stream |-> stream, item |-> 0,
   width |-> width, height |-> height, depth |-> t.depth, faces |-> IF t.cube THEN 6 ELSE 0,
   format |-> LBIMFormat(t.format), tile |-> "NX", reversed |-> t.format = "BGRA8",
   srgb |-> FALSE, surface |-> None]

Tiled(mode) == mode \notin {"Default", "LinearAligned"}

Surface(t) ==
  [mode |-> t.mode, bpp |-> 8 * TexelBytes(MTXTFormat(t)), pitch |-> t.pitch, height |-> t.height,
   pipe |-> t.pipe, bank |-> t.bank]

MTXTImage(t, stream) ==
  [name |-> file.ext, kind |-> "image", stream |-> stream, item |-> 0,
   width |-> t.width, height |-> t.height, depth |-> 0, faces |-> 0,
   format |-> MTXTFormat(t), tile |-> IF Tiled(t.mode) THEN "Custom" ELSE "Linear",
   reversed |-> FALSE,
   srgb |-> MTXTFormat(t) # "INVALID" /\ t.numbers # "UNORM",
   surface |-> IF Tiled(t.mode) THEN Surface(t) ELSE None]

-----------------------------------------------------------------------------
(* tex_to_dds: what is not one of its files is passed over with a message. *)
PassOver ==
  /\ fate = "texture"
  /\ \/ file.ext = "wismt" /\ ~file.streamed
     \/ file.ext \in {"wismt", "pcsmt"} /\ ~file.xbc1
  /\ End("done", <<>>)

Compressed ==
  fate = "texture" /\ file.xbc1 /\ (file.ext = "pcsmt" \/ (file.ext = "wismt" /\ file.streamed))

RefuseData == Compressed /\ file.data # "good" /\ End("failed", <<>>)

(* A .pcsmt texture is a finished one.                                     *)
CopyOut ==
  /\ Compressed /\ file.data = "good" /\ file.ext = "pcsmt"
  /\ End("done", <<[name |-> "pcsmt", kind |-> "copy", stream |-> 0, item |-> 0]>>)

Decompress == Compressed /\ file.data = "good" /\ file.ext = "wismt" /\ Step("high")

RequestHigh ==
  /\ fate = "high"
  /\ IF file.high = "good" THEN Step("header") ELSE End("failed", <<>>)

Open == fate = "texture" /\ file.ext \notin {"wismt", "pcsmt"} /\ Step("header")

HasHighData == file.ext = "wismt"

RefuseTexture == fate = "header" /\ file.texture.kind = "none" /\ End("failed", <<>>)

ConvertMTXT ==
  /\ fate = "header" /\ file.texture.kind = "MTXT"
  /\ End("done", <<MTXTImage(file.texture, "own")>>)

(* Mutation: the header is the higher texture's without being doubled.     *)
ConvertLBIMUndoubled ==
  /\ fate = "header" /\ file.texture.kind = "LBIM"
  /\ End("done", <<LBIMImage(file.texture, file.texture.width, file.texture.height,
                             IF HasHighData THEN "high" ELSE "own")>>)

(* With the higher texture the header of the lower one, doubled.           *)
ConvertLBIM ==
  /\ fate = "header" /\ file.texture.kind = "LBIM"
  /\ LET t == file.texture
         scale == IF HasHighData THEN 2 ELSE 1
     IN End("done", <<LBIMImage(t, scale * t.width, scale * t.height,
                                IF HasHighData THEN "high" ELSE "own")>>)

ConvertTexture ==
  \/ PassOver \/ RefuseData \/ CopyOut \/ Decompress \/ RequestHigh \/ Open
  \/ RefuseTexture \/ ConvertMTXT \/ ConvertLBIM

-----------------------------------------------------------------------------
(* fnt_extract: the texture of a font, then the list of its characters.    *)
RefuseFont == fate = "font" /\ (~file.wide \/ file.texture.kind # "MTXT") /\ End("failed", <<>>)

FontTexture ==
  /\ fate = "font" /\ file.wide /\ file.texture.kind = "MTXT"
  /\ End("chars", <<MTXTImage(file.texture, "font")>>)

\* The words of a character are swapped, and with them the two bytes that
\* follow: the one the structure calls its width is the second in the file.
Glyph(c) == [char |-> c.char, other |-> c.other, offset |-> c.bytes[1], width |-> c.bytes[2]]

\* A row of the list begins with every character whose number the count of the
\* rows divides.
GlyphRows ==
  [r \in 1 .. (Len(file.chars) + file.rows - 1) \div file.rows |->
     [i \in 1 .. Least(file.rows, Len(file.chars) - file.rows * (r - 1)) |->
        Glyph(file.chars[file.rows * (r - 1) + i])]]

FontChars ==
  /\ fate = "chars"
  /\ IF file.chars # <<>> /\ file.rows = 0 THEN End("undefined", <<>>)
     ELSE End("done", <<[name |-> "json", kind |-> "font", stream |-> 0, item |-> 0,
                         rows |-> IF file.chars = <<>> THEN <<>> ELSE GlyphRows]>>)

ExtractFont == RefuseFont \/ FontTexture \/ FontChars

-----------------------------------------------------------------------------
Images == {out[k] : k \in Written({"image"})}

\* The texels of an image's first picture, those its surface pads it to included.
Padded(n, tile) == ((n + tile - 1) \div tile) * tile

PaddedHeight(s) == Padded(s.height, IF s.mode \in Micro THEN 8 ELSE MacroHeight(s))

TexelsOf(s) == (0 .. s.pitch - 1) \X (0 .. PaddedHeight(s) - 1)

\* What a surface takes up: banks and pipes take turns every 2048 bytes.
SurfaceBytes(s) ==
  LET bytes == s.pitch * PaddedHeight(s) * Thickness(s.mode) * (s.bpp \div 8)
  IN IF s.mode \in Micro THEN bytes ELSE Padded(bytes, 2048)

\* Every texel of a surface has bytes of its own within it.
Apart(s) ==
  LET addresses == {Address(s, p[1], p[2]) : p \in TexelsOf(s)}
  IN /\ Cardinality(addresses) = s.pitch * PaddedHeight(s)
     /\ \A a \in addresses : a % (s.bpp \div 8) = 0 /\ a + s.bpp \div 8 <= SurfaceBytes(s)

(* Every texel of an image is read from bytes of its own that are there:   *)
(* no two texels of a tiled surface share an address, in any tile mode,    *)
(* format or swizzle, except in thick tiles of 16 bytes a texel, which are *)
(* larger than a slice and get no samples; and a texture with a higher one *)
(* is read from that with a header twice as wide and high.                 *)
TexelsRead ==
  \A i \in Images :
    IF i.surface # None THEN TileBytes(i.surface) > 2048 \/ Apart(i.surface)
    ELSE i.tile = "NX" =>
           i.width * i.height =
             file.texture.width * file.texture.height * (IF i.stream = "high" THEN 4 ELSE 1)
=============================================================================

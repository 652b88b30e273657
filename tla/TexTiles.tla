------------------------------ MODULE TexTiles ------------------------------
(***************************************************************************)
(* Where a texel of an MTXT texture lies: the address library the tiled    *)
(* surfaces of these textures are read with (addrlib.inl).  A texel is a   *)
(* pixel or, in a compressed format, a block of 4 by 4 pixels.             *)
(*                                                                         *)
(* A surface has the fields mode (its tile mode), bpp (the bits of a       *)
(* texel), pitch and height (in texels), pipe and bank (the two parts of   *)
(* its swizzle, one bit and two bits).  Words of bits are written as sums, *)
(* an exclusive or of two bits as the parity of their sum.                 *)
(***************************************************************************)
EXTENDS Integers

Micro == {"Tiled1DThin1", "Tiled1DThick"}

Thick2D == {"Tiled2DThick", "Tiled2BThick", "Tiled3DThick", "Tiled3BThick"}

Macro ==
  {"Tiled2DThin1", "Tiled2DThin2", "Tiled2DThin4", "Tiled2BThin1", "Tiled2BThin2",
   "Tiled2BThin4", "Tiled3DThin1", "Tiled3BThin1"} \cup Thick2D

BankSwapped ==
  {"Tiled2BThin1", "Tiled2BThin2", "Tiled2BThin4", "Tiled2BThick", "Tiled3BThin1",
   "Tiled3BThick"}

Thickness(mode) ==
  CASE mode \in Thick2D \cup {"Tiled1DThick"} -> 4
    [] mode = "LinearSpecial" -> 8
    [] OTHER -> 1

Aspect(mode) ==
  CASE mode \in {"Tiled2DThin2", "Tiled2BThin2"} -> 2
    [] mode \in {"Tiled2DThin4", "Tiled2BThin4"} -> 4
    [] OTHER -> 1

(* The three lowest bits of a coordinate.                                  *)
Bit0(v) == v % 2
Bit1(v) == (v \div 2) % 2
Bit2(v) == (v \div 4) % 2

Xor(a, b) == (a + b) % 2

Word(f, e, d, c, b, a) == 32 * f + 16 * e + 8 * d + 4 * c + 2 * b + a

(* The place of a texel in its tile of 8 by 8, an order for every size.    *)
PixelIndex(x, y, bpp) ==
  CASE bpp = 8   -> Word(Bit2(y), Bit0(y), Bit1(y), Bit2(x), Bit1(x), Bit0(x))
    [] bpp = 16  -> Word(Bit2(y), Bit1(y), Bit0(y), Bit2(x), Bit1(x), Bit0(x))
    [] bpp = 64  -> Word(Bit2(y), Bit1(y), Bit2(x), Bit1(x), Bit0(y), Bit0(x))
    [] bpp = 128 -> Word(Bit2(y), Bit1(y), Bit2(x), Bit1(x), Bit0(x), Bit0(y))
    [] OTHER     -> Word(Bit2(y), Bit1(y), Bit2(x), Bit0(y), Bit1(x), Bit0(x))

TileBits(s) == s.bpp * 64 * Thickness(s.mode)

TileBytes(s) == (TileBits(s) + 7) \div 8

-----------------------------------------------------------------------------
(* Tiles of 8 by 8, row by row.                                            *)
TilesPerRow(s) == s.pitch \div 8

MicroAddress(s, x, y) ==
  (s.bpp * PixelIndex(x, y, s.bpp)) \div 8
    + TileBytes(s) * (x \div 8 + (y \div 8) * TilesPerRow(s))

-----------------------------------------------------------------------------
(* Tiles of tiles, spread over two pipes and four banks.                   *)
Samples(s) == IF TileBytes(s) <= 2048 THEN 1 ELSE 2048 \div TileBytes(s)

SliceBytes(s) == (s.height * s.pitch * Thickness(s.mode) * s.bpp * Samples(s) + 7) \div 8

MacroPitch(s) == 32 \div Aspect(s.mode)

MacroHeight(s) == 16 * Aspect(s.mode)

MacroBytes(s) == (Samples(s) * Thickness(s.mode) * s.bpp * MacroHeight(s) * MacroPitch(s) + 7) \div 8

Least(a, b) == IF a < b THEN a ELSE b

Greatest(a, b) == IF a < b THEN b ELSE a

(* The width of the columns the banks are swapped in, halved until it is   *)
(* below twice the pitch; it is 512 at most.                               *)
BankSwapWidth(s) ==
  LET samples == IF s.mode \in Thick2D THEN 4 ELSE 1
      most == 16384 \div (samples * Aspect(s.mode) * s.bpp * 2)
      least == 256 \div (samples * 8 * s.bpp)
      width == Least(most, Greatest(least, 32 * Greatest(1, 128 \div s.bpp)))
      enough == {d \in {1, 2, 4, 8, 16, 32, 64, 128, 256, 512, 1024} : width \div d < 2 * s.pitch}
  IN width \div (CHOOSE d \in enough : \A e \in enough : d <= e)

BankSwapOrder == <<0, 1, 3, 2>>

MacroIndexX(s, x) == x \div MacroPitch(s)

(* The two bits a column of a bank swapped surface changes its bank by.    *)
BankSwap(s, x) ==
  IF s.mode \in BankSwapped
    THEN BankSwapOrder[1 + (((MacroPitch(s) * MacroIndexX(s, x)) \div BankSwapWidth(s)) % 4)]
    ELSE 0

(* Which slice of the samples a texel is in, and its place there.          *)
ElementBits(s, x, y) == s.bpp * PixelIndex(x, y, s.bpp)

SampleSlice(s, x, y) ==
  IF TileBytes(s) > 2048 THEN ElementBits(s, x, y) \div TileBits(s) ELSE 0

ElementOffset(s, x, y) ==
  LET bits == ElementBits(s, x, y)
  IN (IF TileBytes(s) > 2048 THEN (bits % TileBits(s)) + 7 ELSE bits + 7) \div 8

(* The lowest bit of the bank and the pipe come from the same bit of x.    *)
Pipe(s, x, y) == Xor(Xor(Bit0(y \div 8), Bit0(x \div 8)), s.pipe)

LowBank(s, x, y) ==
  Xor(Xor(Xor(Bit0(y \div 32), Bit0(x \div 8)),
          Xor(Bit0(s.bank), Bit0(3 * SampleSlice(s, x, y)))),
      Bit0(BankSwap(s, x)))

HighBank(s, x, y) ==
  Xor(Xor(Xor(Bit0(y \div 16), Bit0(x \div 16)),
          Xor(Bit1(s.bank), Bit1(3 * SampleSlice(s, x, y)))),
      Bit1(BankSwap(s, x)))

MacroOffset(s, x, y) ==
  MacroBytes(s) * (MacroIndexX(s, x) + (s.pitch \div MacroPitch(s)) * (y \div MacroHeight(s)))

TotalOffset(s, x, y) ==
  ElementOffset(s, x, y)
    + (MacroOffset(s, x, y)
         + SliceBytes(s) * (SampleSlice(s, x, y) \div Thickness(s.mode))) \div 8

(* Mutation: the pipe is left out of the address.                          *)
MacroAddressWithoutPipe(s, x, y) ==
  LET total == TotalOffset(s, x, y)
  IN 1024 * HighBank(s, x, y) + 512 * LowBank(s, x, y)
       + (total % 256) + 8 * (total - (total % 256))

MacroAddress(s, x, y) ==
  LET total == TotalOffset(s, x, y)
  IN 1024 * HighBank(s, x, y) + 512 * LowBank(s, x, y) + 256 * Pipe(s, x, y)
       + (total % 256) + 8 * (total - (total % 256))

Address(s, x, y) ==
  IF s.mode \in Micro THEN MicroAddress(s, x, y) ELSE MacroAddress(s, x, y)
-----------------------------------------------------------------------------
(* What is taken for granted of a tiled surface: its rows are whole tiles. *)
IsSurface(s) ==
  /\ s.mode \in Micro \cup Macro
  /\ s.pitch \in Nat /\ s.height \in Nat
  /\ s.pitch % (IF s.mode \in Micro THEN 8 ELSE MacroPitch(s)) = 0
  /\ s.pipe \in 0 .. 1 /\ s.bank \in 0 .. 3
=============================================================================

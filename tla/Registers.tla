------------------------------- MODULE Registers -------------------------------
(***************************************************************************)
(* The words of a command buffer: the layout of the registers that         *)
(* viv2d.c writes (state_2d.xml.h, state.xml.h) and of the two front end   *)
(* commands it uses (cmdstream.xml.h).                                     *)
(*                                                                         *)
(* A word is the set of its one bits, so `|' is the union, a mask an       *)
(* intersection and a shift a translation; nothing depends on the size of  *)
(* TLC's integers.  A register is an address and its fields, a field the   *)
(* interval of its bits (__SHIFT and __MASK).  Enumerated values are those *)
(* of the field, without the shift.                                        *)
(***************************************************************************)
EXTENDS Integers, FiniteSetsExt

WordBits == 0 .. 31

\* The word of a number, and the number of a (short) word.
Bits(n) == {i \in 0 .. 30 : (n \div 2^i) % 2 = 1}
Num(w) == MapThenSumSet(LAMBDA i : 2^i, w)

Mask(f) == f[1] .. f[2]

\* Mutant: no mask.
PutUnmasked(x, f) == {i + f[1] : i \in x}

\* NAME(x): (x << NAME__SHIFT) & NAME__MASK.
Put(x, f) == {i + f[1] : i \in x} \cap Mask(f)

\* (w & NAME__MASK) >> NAME__SHIFT.
Get(w, f) == {i - f[1] : i \in w \cap Mask(f)}

\* The fields in v, or-ed together.
Pack(fields, v) == UNION {Put(v[n], fields[n]) : n \in DOMAIN v}

Reg(at, fields) == [at |-> at, fields |-> fields]
Plain(at) == Reg(at, [VALUE |-> <<0, 31>>])

-------------------------------------------------------------------------------
\* Commands of the front end.
VIV_FE_LOAD_STATE_HEADER == [OP |-> <<27, 31>>, FIXP |-> <<26, 26>>, COUNT |-> <<16, 25>>,
                             OFFSET |-> <<0, 15>>]
VIV_FE_DRAW_2D_HEADER == [OP |-> <<27, 31>>, DATA_COUNT |-> <<16, 26>>, COUNT |-> <<8, 15>>]
VIV_FE_DRAW_2D_TOP_LEFT == [X |-> <<0, 15>>, Y |-> <<16, 31>>]
VIV_FE_DRAW_2D_BOTTOM_RIGHT == [X |-> <<0, 15>>, Y |-> <<16, 31>>]
OP_LOAD_STATE == Bits(1)
OP_DRAW_2D == Bits(4)

-------------------------------------------------------------------------------
DE_FORMAT == [X4R4G4B4 |-> 0, A4R4G4B4 |-> 1, X1R5G5B5 |-> 2, A1R5G5B5 |-> 3, R5G6B5 |-> 4,
              X8R8G8B8 |-> 5, A8R8G8B8 |-> 6, MONOCHROME |-> 10, A8 |-> 16]
DE_SWIZZLE == [ARGB |-> 0, RGBA |-> 1, ABGR |-> 2, BGRA |-> 3]
DE_BLENDMODE == [ZERO |-> 0, ONE |-> 1, NORMAL |-> 2, INVERSED |-> 3, COLOR |-> 4,
                 COLOR_INVERSED |-> 5, SATURATED_ALPHA |-> 6, SATURATED_DEST_ALPHA |-> 7]

XY == [X |-> <<0, 15>>, Y |-> <<16, 31>>]
Stride == [STRIDE |-> <<0, 17>>]
Rotation == [WIDTH |-> <<0, 15>>, ROTATION |-> <<16, 16>>]

VIVS_DE_SRC_ADDRESS == Plain(\h1200)
VIVS_DE_SRC_STRIDE == Reg(\h1204, Stride)
VIVS_DE_SRC_ROTATION_CONFIG == Reg(\h1208, Rotation)
VIVS_DE_SRC_CONFIG ==
  Reg(\h120c,
      [PE10_SOURCE_FORMAT |-> <<0, 3>>, TRANSPARENCY |-> <<4, 5>>, SRC_RELATIVE |-> <<6, 6>>,
       TILED |-> <<7, 7>>, LOCATION |-> <<8, 8>>, PACK |-> <<12, 13>>,
       MONO_TRANSPARENCY |-> <<15, 15>>, UNK16 |-> <<16, 16>>, SWIZZLE |-> <<20, 21>>,
       SOURCE_FORMAT |-> <<24, 28>>, DISABLE420_L2_CACHE |-> <<29, 29>>,
       ENDIAN_CONTROL |-> <<30, 31>>])
LOCATION == [MEMORY |-> 0, STREAM |-> 1]
VIVS_DE_SRC_ORIGIN == Reg(\h1210, XY)
VIVS_DE_SRC_SIZE == Reg(\h1214, XY)
VIVS_DE_SRC_COLOR_BG == Plain(\h1218)
VIVS_DE_SRC_COLOR_FG == Plain(\h121c)
VIVS_DE_STRETCH_FACTOR_LOW == Reg(\h1220, [X |-> <<0, 30>>])
VIVS_DE_STRETCH_FACTOR_HIGH == Reg(\h1224, [Y |-> <<0, 30>>])

VIVS_DE_DEST_ADDRESS == Plain(\h1228)
VIVS_DE_DEST_STRIDE == Reg(\h122c, Stride)
VIVS_DE_DEST_ROTATION_CONFIG == Reg(\h1230, Rotation)
VIVS_DE_DEST_CONFIG ==
  Reg(\h1234,
      [FORMAT |-> <<0, 4>>, TILED |-> <<8, 8>>, COMMAND |-> <<12, 15>>, SWIZZLE |-> <<16, 17>>,
       ENDIAN_CONTROL |-> <<20, 21>>, GDI_STRE |-> <<24, 24>>,
       INTER_TILE_PER_FIX |-> <<25, 25>>, MINOR_TILED |-> <<26, 26>>])
COMMAND == [CLEAR |-> 0, LINE |-> 1, BIT_BLT |-> 2, BIT_BLT_REVERSED |-> 3, STRETCH_BLT |-> 4,
            HOR_FILTER_BLT |-> 5, VER_FILTER_BLT |-> 6, ONE_PASS_FILTER_BLT |-> 7,
            MULTI_SOURCE_BLT |-> 8]

VIVS_DE_PATTERN_CONFIG ==
  Reg(\h123c,
      [FORMAT |-> <<0, 3>>, TYPE |-> <<4, 4>>, COLOR_CONVERT |-> <<5, 5>>,
       INIT_TRIGGER |-> <<6, 7>>, ORIGIN_X |-> <<16, 18>>, ORIGIN_Y |-> <<20, 22>>])
VIVS_DE_PATTERN_MASK_LOW == Plain(\h1248)
VIVS_DE_PATTERN_MASK_HIGH == Plain(\h124c)
VIVS_DE_PATTERN_BG_COLOR == Plain(\h1250)
VIVS_DE_PATTERN_FG_COLOR == Plain(\h1254)
VIVS_DE_ROP == Reg(\h125c, [ROP_FG |-> <<0, 7>>, ROP_BG |-> <<8, 15>>, TYPE |-> <<20, 21>>])
ROP_TYPE == [ROP2_PATTERN |-> 0, ROP2_SOURCE |-> 1, ROP3 |-> 2, ROP4 |-> 3]

VIVS_DE_CLIP_TOP_LEFT == Reg(\h1260, [X |-> <<0, 14>>, Y |-> <<16, 30>>])
VIVS_DE_CLIP_BOTTOM_RIGHT == Reg(\h1264, [X |-> <<0, 14>>, Y |-> <<16, 30>>])
VIVS_DE_CLEAR_BYTE_MASK == Plain(\h1268)
VIVS_DE_CLEAR_PIXEL_VALUE_LOW == Plain(\h1270)
VIVS_DE_CLEAR_PIXEL_VALUE_HIGH == Plain(\h1274)
VIVS_DE_CLEAR_PIXEL_VALUE32 == Plain(\h12c0)

VIVS_DE_ALPHA_CONTROL ==
  Reg(\h127c, [ENABLE |-> <<0, 0>>, PE10_GLOBAL_SRC_ALPHA |-> <<16, 23>>,
               PE10_GLOBAL_DST_ALPHA |-> <<24, 31>>])
VIVS_DE_ALPHA_MODES ==
  Reg(\h1280,
      [SRC_ALPHA_MODE |-> <<0, 0>>, DST_ALPHA_MODE |-> <<4, 4>>,
       GLOBAL_SRC_ALPHA_MODE |-> <<8, 9>>, GLOBAL_DST_ALPHA_MODE |-> <<12, 13>>,
       PE10_SRC_COLOR_MULTIPLY |-> <<16, 16>>, PE10_DST_COLOR_MULTIPLY |-> <<20, 20>>,
       SRC_BLENDING_MODE |-> <<24, 26>>, SRC_ALPHA_FACTOR |-> <<27, 27>>,
       DST_BLENDING_MODE |-> <<28, 30>>, DST_ALPHA_FACTOR |-> <<31, 31>>])
ALPHA_MODE == [NORMAL |-> 0, GLOBAL |-> 1, SCALED |-> 2]
VIVS_DE_GLOBAL_SRC_COLOR == Plain(\h12c8)
VIVS_DE_GLOBAL_DEST_COLOR == Plain(\h12cc)
VIVS_DE_COLOR_MULTIPLY_MODES ==
  Reg(\h12d0, [SRC_PREMULTIPLY |-> <<0, 0>>, DST_PREMULTIPLY |-> <<4, 4>>,
               SRC_GLOBAL_PREMULTIPLY |-> <<8, 9>>, DST_DEMULTIPLY |-> <<20, 20>>])

VIVS_DE_DE_MULTI_SOURCE ==
  Reg(\h1308, [MAX_SOURCE |-> <<0, 2>>, HORIZONTAL_BLOCK |-> <<8, 10>>,
               VERTICAL_BLOCK |-> <<16, 18>>])
HORIZONTAL_BLOCK == [PIXEL16 |-> 0, PIXEL32 |-> 1, PIXEL64 |-> 2, PIXEL128 |-> 3,
                     PIXEL256 |-> 4, PIXEL512 |-> 5]
VERTICAL_BLOCK == [LINE1 |-> 0, LINE2 |-> 1, LINE4 |-> 2, LINE8 |-> 3, LINE16 |-> 4,
                   LINE32 |-> 5, LINE64 |-> 6, LINE128 |-> 7]

VIVS_GL_FLUSH_CACHE ==
  Reg(\h380c,
      [DEPTH |-> <<0, 0>>, COLOR |-> <<1, 1>>, TEXTURE |-> <<2, 2>>, PE2D |-> <<3, 3>>,
       TEXTUREVS |-> <<4, 4>>, SHADER_L1 |-> <<5, 5>>, SHADER_L2 |-> <<6, 6>>,
       UNK10 |-> <<10, 10>>, UNK11 |-> <<11, 11>>, DESCRIPTOR_UNK12 |-> <<12, 12>>,
       DESCRIPTOR_UNK13 |-> <<13, 13>>])

-------------------------------------------------------------------------------
\* The registers of the eight sources of a multi-source blit, each an array; most
\* have the fields of the register of a single source.
Block8(base, i, fields) == Reg(base + 4 * i, fields)
Value == [VALUE |-> <<0, 31>>]

VIVS_DE_BLOCK8_SRC_ADDRESS(i) == Block8(\h12a00, i, Value)
VIVS_DE_BLOCK8_SRC_STRIDE(i) == Block8(\h12a20, i, Stride)
VIVS_DE_BLOCK8_SRC_ROTATION_CONFIG(i) == Block8(\h12a40, i, Rotation)
VIVS_DE_BLOCK8_SRC_CONFIG(i) == Block8(\h12a60, i, VIVS_DE_SRC_CONFIG.fields)
VIVS_DE_BLOCK8_SRC_ORIGIN(i) == Block8(\h12a80, i, XY)
VIVS_DE_BLOCK8_SRC_SIZE(i) == Block8(\h12aa0, i, XY)
VIVS_DE_BLOCK8_SRC_COLOR_BG(i) == Block8(\h12ac0, i, Value)
VIVS_DE_BLOCK8_ROP(i) == Block8(\h12ae0, i, VIVS_DE_ROP.fields)
VIVS_DE_BLOCK8_ALPHA_CONTROL(i) == Block8(\h12b00, i, VIVS_DE_ALPHA_CONTROL.fields)
VIVS_DE_BLOCK8_ALPHA_MODES(i) == Block8(\h12b20, i, VIVS_DE_ALPHA_MODES.fields)
VIVS_DE_BLOCK8_SRC_ROTATION_HEIGHT(i) == Block8(\h12bc0, i, [HEIGHT |-> <<0, 15>>])
VIVS_DE_BLOCK8_ROT_ANGLE(i) ==
  Block8(\h12be0, i,
         [SRC |-> <<0, 2>>, DST |-> <<3, 5>>, SRC_MASK |-> <<8, 8>>, DST_MASK |-> <<9, 9>>,
          SRC_MIRROR |-> <<12, 13>>, SRC_MIRROR_MASK |-> <<15, 15>>,
          DST_MIRROR |-> <<16, 17>>, DST_MIRROR_MASK |-> <<19, 19>>])
VIVS_DE_BLOCK8_GLOBAL_SRC_COLOR(i) == Block8(\h12c00, i, Value)
VIVS_DE_BLOCK8_GLOBAL_DEST_COLOR(i) == Block8(\h12c20, i, Value)
VIVS_DE_BLOCK8_COLOR_MULTIPLY_MODES(i) == Block8(\h12c40, i, VIVS_DE_COLOR_MULTIPLY_MODES.fields)
VIVS_DE_BLOCK8_SRC_COLOR_KEY_HIGH(i) == Block8(\h12ca0, i, Value)
===============================================================================

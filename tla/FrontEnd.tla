-------------------------------- MODULE FrontEnd --------------------------------
(***************************************************************************)
(* viv2d_op_exec word by word, and the front end of the GPU that reads the *)
(* words back.                                                             *)
(*                                                                         *)
(* Viv2dExec has the order of writes and draws, and where the stream is    *)
(* cut into jobs; it takes a write for what it is meant to say.  Here a    *)
(* write is a LOAD_STATE header and a word with its fields or-ed together, *)
(* a draw a header, a padding word, the corners of the rectangles and the  *)
(* data of a mono blit; the front end knows a command from its data by     *)
(* counting alone, and the engine takes the fields out of its registers.   *)
(*                                                                         *)
(* A job runs when it is flushed, and none is refused.                     *)
(***************************************************************************)
EXTENDS Surfaces, Sequences, SequencesExt

CONSTANTS
  GpuAddress,  \* GpuAddress[s]: where the kernel has placed the object of s
  Stale,       \* a word nobody in this client has written
  HeapWords,   \* what malloc leaves in the fields viv2d_op_new does not set
  Rects,       \* bound: rectangles the client draws or clips to
  Colors,      \* bound: words given to viv2d_op_set_color
  Blends,      \* bound: arguments given to viv2d_op_set_blend
  Glyphs,      \* bound: data of a mono blit
  SourceCounts, \* bound: numbers of sources of a multi-source blit
  MaxRects,    \* bound: rectangles of an operation; a draw header can count 255
  MaxEdits,    \* bound: calls that change an operation, over all operations
  MaxOps       \* bound: operations executed

ASSUME FrontEndAssumption ==
  /\ GpuAddress \in [SurfaceIds -> SUBSET WordBits]
  /\ Stale \subseteq WordBits /\ HeapWords \subseteq SUBSET WordBits
  /\ Rects \subseteq [x : Nat, y : Nat, width : Nat, height : Nat]
  /\ Colors \subseteq SUBSET WordBits
  /\ \A b \in Blends : b.src_alpha \in 0 .. 255 /\ b.dst_alpha \in 0 .. 255
  /\ Glyphs \subseteq Seq(SUBSET WordBits) /\ \A d \in Glyphs : Len(d) <= 2047
  /\ SourceCounts \subseteq 1 .. 4
  /\ MaxRects \in 0 .. 255 /\ MaxEdits \in Nat /\ MaxOps \in Nat

VARIABLES
  op,        \* the operation of the client, or NoOp
  edits,     \* calls that changed an operation
  executed,  \* operations executed
  stream,    \* the buffer: what was written between two reserves, in order
  due,       \* (history) what the draws in the buffer are to show
  fe,        \* the front end, with the engine's registers and its last draws
  wanted     \* (history) what the draws of the last job were to show

surfaces == <<surf, file>>
client == <<op, edits, executed>>
vars == <<surfaces, client, stream, due, fe, wanted>>

NoOp == [cmd |-> "none"]
Black == 24 .. 31

-------------------------------------------------------------------------------
\* viv2d_blend_ops.
viv2d_blend_ops ==
  [clear |-> <<"ZERO", "ZERO">>, src |-> <<"ONE", "ZERO">>, dst |-> <<"ZERO", "ONE">>,
   over |-> <<"ONE", "INVERSED">>, over_rev |-> <<"INVERSED", "ONE">>,
   in |-> <<"NORMAL", "ZERO">>, in_rev |-> <<"ZERO", "NORMAL">>,
   out |-> <<"INVERSED", "ZERO">>, out_rev |-> <<"ZERO", "INVERSED">>,
   atop |-> <<"NORMAL", "INVERSED">>, atop_rev |-> <<"INVERSED", "NORMAL">>,
   xor |-> <<"INVERSED", "INVERSED">>, add |-> <<"ONE", "ONE">>,
   saturate |-> <<"SATURATED_ALPHA", "ONE">>]

\* The client asks for blends of viv2d.h, and for nothing that the registers have no
\* bits for: a corner of the clip rectangle has 15.
ASSUME FieldsAssumption ==
  /\ \A s \in SurfaceIds : \A k \in Kinds[s] : k.width <= 32767 /\ k.height <= 32767
  /\ \A r \in Rects : r.x + r.width <= 32767 /\ r.y + r.height <= 32767
  /\ \A b \in Blends : /\ b.cmd \in DOMAIN viv2d_blend_ops
                       /\ b.src_global \in BOOLEAN /\ b.dst_global \in BOOLEAN

BlendMode(i, cmd) == Bits(DE_BLENDMODE[viv2d_blend_ops[cmd][i]])

NoBlend == [cmd |-> "none"]

ROP_SRC == 204
ROP_BRUSH == 240

\* viv2d_op_new: src_x, src_y and data_pitch keep what was there.
OpNew(cmd, srcs, dst, heap) ==
  /\ op = NoOp
  /\ executed < MaxOps
  /\ op' = [cmd |-> cmd, srcs |-> srcs, dst |-> dst, src_x |-> heap, src_y |-> heap,
            rects |-> <<>>,
            clip |-> [x |-> 0, y |-> 0, width |-> surf[dst].width, height |-> surf[dst].height],
            blend |-> NoBlend, color |-> Black, rop |-> ROP_SRC, pat_fill |-> FALSE,
            data |-> <<>>, data_pitch |-> heap]
  /\ UNCHANGED <<surfaces, edits, executed, stream, due, fe, wanted>>

Edit(o) ==
  /\ op # NoOp
  /\ edits < MaxEdits
  /\ op' = o
  /\ edits' = edits + 1
  /\ UNCHANGED <<surfaces, executed, stream, due, fe, wanted>>

OpAddRect(r) ==
  /\ op # NoOp /\ Len(op.rects) < MaxRects
  /\ Edit([op EXCEPT !.rects = Append(@, r)])
OpSetClipRect(r) == Edit([op EXCEPT !.clip = r])
OpSetColor(c) == Edit([op EXCEPT !.color = c])
OpSetBlend(b) == Edit([op EXCEPT !.blend = b])

\* Fields that the callers set.
OpSetPatFill == op.cmd = "bitblt" /\ op.srcs = <<>> /\ Edit([op EXCEPT !.pat_fill = TRUE])
OpSetData(d, pitch) ==
  op.cmd = "mono_blit" /\ Edit([op EXCEPT !.data = d, !.data_pitch = Bits(pitch)])

OpDel ==
  /\ op # NoOp
  /\ op' = NoOp
  /\ UNCHANGED <<surfaces, edits, executed, stream, due, fe, wanted>>

-------------------------------------------------------------------------------
\* etna_emit_load_state.
LoadState(at, count) ==
  Pack(VIV_FE_LOAD_STATE_HEADER,
       [OP |-> OP_LOAD_STATE, OFFSET |-> Bits(at \div 4), COUNT |-> Bits(count)])

\* etna_set_state, with a word or with fields; and with the address of a surface,
\* which the kernel puts there.
SetState(reg, word) == <<<<LoadState(reg.at, 1), word>>>>
Set(reg, v) == SetState(reg, Pack(reg.fields, v))
SetStateFromBo(reg, s) == SetState(reg, GpuAddress[s])

When(cond, writes) == IF cond THEN writes ELSE <<>>
All1 == WordBits
Color24(alpha) == {b + 24 : b \in Bits(alpha)}
Zero(regs) == [i \in 1 .. Len(regs) |-> SetState(regs[i], {})[1]]

\* The switch of viv2d_op_exec.
Command(cmd) ==
  CASE cmd = "line" -> COMMAND.LINE
    [] cmd \in {"bitblt", "mono_blit"} -> COMMAND.BIT_BLT
    [] cmd = "stretchblt" -> COMMAND.STRETCH_BLT
    [] cmd = "multsrcblt" -> COMMAND.MULTI_SOURCE_BLT
    [] OTHER -> COMMAND.CLEAR

DestWrites(o) ==
  SetStateFromBo(VIVS_DE_DEST_ADDRESS, o.dst)
  \o SetState(VIVS_DE_DEST_STRIDE, Bits(surf[o.dst].pitch))
  \o SetState(VIVS_DE_DEST_ROTATION_CONFIG, {})
  \o Set(VIVS_DE_DEST_CONFIG,
         [FORMAT |-> Bits(FormatOf(o.dst).fmt), SWIZZLE |-> Bits(FormatOf(o.dst).swizzle),
          COMMAND |-> Bits(Command(o.cmd)), TILED |-> {}, MINOR_TILED |-> {}])

\* Mutant: the bottom right corner is the size.
ClipWritesSize(o) ==
  Set(VIVS_DE_CLIP_TOP_LEFT, [X |-> Bits(o.clip.x), Y |-> Bits(o.clip.y)])
  \o Set(VIVS_DE_CLIP_BOTTOM_RIGHT, [X |-> Bits(o.clip.width), Y |-> Bits(o.clip.height)])

ClipWrites(o) ==
  Set(VIVS_DE_CLIP_TOP_LEFT, [X |-> Bits(o.clip.x), Y |-> Bits(o.clip.y)])
  \o Set(VIVS_DE_CLIP_BOTTOM_RIGHT,
         [X |-> Bits(o.clip.x + o.clip.width), Y |-> Bits(o.clip.y + o.clip.height)])

\* The fields of VIVS_DE_SRC_CONFIG and VIVS_DE_BLOCK8_SRC_CONFIG for a surface.
SourceConfig(s) ==
  [SOURCE_FORMAT |-> Bits(FormatOf(s).fmt), SWIZZLE |-> Bits(FormatOf(s).swizzle),
   LOCATION |-> Bits(LOCATION.MEMORY), PE10_SOURCE_FORMAT |-> Bits(FormatOf(s).fmt)]

SizeOf(s) == [X |-> Bits(surf[s].width), Y |-> Bits(surf[s].height)]

\* One round of the loop over op->srcs.  Of op->blend only the alphas are looked at.
BlockWrites(o, s, i) ==
  SetStateFromBo(VIVS_DE_BLOCK8_SRC_ADDRESS(i), s)
  \o SetState(VIVS_DE_BLOCK8_SRC_STRIDE(i), Bits(surf[s].pitch))
  \o Set(VIVS_DE_BLOCK8_SRC_ROTATION_CONFIG(i), [WIDTH |-> Bits(surf[s].width)])
  \o Set(VIVS_DE_BLOCK8_SRC_CONFIG(i), SourceConfig(s))
  \o SetState(VIVS_DE_BLOCK8_SRC_COLOR_BG(i), All1)
  \o SetState(VIVS_DE_BLOCK8_SRC_COLOR_KEY_HIGH(i), All1)
  \o Set(VIVS_DE_BLOCK8_SRC_ORIGIN(i), [X |-> o.src_x, Y |-> o.src_y])
  \o Set(VIVS_DE_BLOCK8_SRC_SIZE(i), SizeOf(s))
  \o Set(VIVS_DE_BLOCK8_SRC_ROTATION_HEIGHT(i), [HEIGHT |-> Bits(surf[s].height)])
  \o Set(VIVS_DE_BLOCK8_ROT_ANGLE(i), [SRC |-> {}, DST |-> {}])
  \o Set(VIVS_DE_BLOCK8_ROP(i), [ROP_FG |-> Bits(ROP_SRC), ROP_BG |-> Bits(ROP_SRC),
                                 TYPE |-> Bits(ROP_TYPE.ROP4)])
  \o (IF o.blend # NoBlend
      THEN Set(VIVS_DE_BLOCK8_ALPHA_CONTROL(i),
               [ENABLE |-> {0}, PE10_GLOBAL_SRC_ALPHA |-> Bits(o.blend.src_alpha),
                PE10_GLOBAL_DST_ALPHA |-> Bits(o.blend.dst_alpha)])
           \o Set(VIVS_DE_BLOCK8_ALPHA_MODES(i),
                  [SRC_BLENDING_MODE |-> Bits(DE_BLENDMODE.ONE),
                   DST_BLENDING_MODE |-> Bits(DE_BLENDMODE.INVERSED)])
      ELSE Zero(<<VIVS_DE_BLOCK8_ALPHA_CONTROL(i), VIVS_DE_BLOCK8_ALPHA_MODES(i)>>))
  \o Zero(<<VIVS_DE_BLOCK8_GLOBAL_SRC_COLOR(i), VIVS_DE_BLOCK8_GLOBAL_DEST_COLOR(i),
            VIVS_DE_BLOCK8_COLOR_MULTIPLY_MODES(i)>>)

MultiSourceWrites(o) ==
  FlattenSeq([i \in 1 .. Len(o.srcs) |-> BlockWrites(o, o.srcs[i], i - 1)])
  \o Set(VIVS_DE_DE_MULTI_SOURCE,
         [MAX_SOURCE |-> Bits(Len(o.srcs) - 1),
          VERTICAL_BLOCK |-> Bits(VERTICAL_BLOCK.LINE32),
          HORIZONTAL_BLOCK |-> Bits(HORIZONTAL_BLOCK.PIXEL16)])

SourceWrites(o) ==
  LET s == o.srcs[1]
  IN  SetStateFromBo(VIVS_DE_SRC_ADDRESS, s)
      \o SetState(VIVS_DE_SRC_STRIDE, Bits(surf[s].pitch))
      \o SetState(VIVS_DE_SRC_ROTATION_CONFIG, {})
      \o Set(VIVS_DE_SRC_CONFIG, SourceConfig(s))
      \o Set(VIVS_DE_SRC_ORIGIN, [X |-> o.src_x, Y |-> o.src_y])
      \o Set(VIVS_DE_SRC_SIZE, SizeOf(s))

\* 0xff2020ff.
MonoBackground == (0 .. 7) \cup {13, 21} \cup (24 .. 31)

NoSourceWrites(o) ==
  LET mono == o.cmd = "mono_blit"
  IN  SetState(VIVS_DE_SRC_STRIDE, IF mono THEN o.data_pitch ELSE {})
      \o SetState(VIVS_DE_SRC_ROTATION_CONFIG, {})
      \o (IF mono
          THEN Set(VIVS_DE_SRC_CONFIG,
                   [UNK16 |-> {0}, SOURCE_FORMAT |-> Bits(DE_FORMAT.MONOCHROME),
                    LOCATION |-> Bits(LOCATION.STREAM), PACK |-> {},
                    PE10_SOURCE_FORMAT |-> Bits(DE_FORMAT.MONOCHROME)])
          ELSE SetState(VIVS_DE_SRC_CONFIG, {}))
      \o Zero(<<VIVS_DE_SRC_ORIGIN, VIVS_DE_SRC_SIZE>>)
      \o When(mono, SetState(VIVS_DE_SRC_COLOR_BG, MonoBackground)
                    \o SetState(VIVS_DE_SRC_COLOR_FG, All1))

\* n << 16, of unsigned ints.
Shift16(n) == (n % 65536) * 65536

\* Mutant: the quotient of the sizes.
StretchFactorOfSizes(from, to) == Shift16(from) \div to

\* A step of the source for each pixel of the destination, in 1/65536.  The
\* callers stretch to more than one pixel: the code divides by dst - 1.
StretchFactor(from, to) == Shift16(from - 1) \div (to - 1)

StretchWrites(o) ==
  LET s == surf[o.srcs[1]]
      d == surf[o.dst]
  IN  Set(VIVS_DE_STRETCH_FACTOR_LOW, [X |-> Bits(StretchFactor(s.width, d.width))])
      \o Set(VIVS_DE_STRETCH_FACTOR_HIGH, [Y |-> Bits(StretchFactor(s.height, d.height))])

PatternWrites(o) ==
  SetState(VIVS_DE_PATTERN_MASK_LOW, All1)
  \o SetState(VIVS_DE_PATTERN_MASK_HIGH, All1)
  \o SetState(VIVS_DE_PATTERN_BG_COLOR, {})
  \o SetState(VIVS_DE_PATTERN_FG_COLOR, o.color)
  \o Set(VIVS_DE_PATTERN_CONFIG, [INIT_TRIGGER |-> Bits(3)])

RopWrites(o) ==
  Set(VIVS_DE_ROP, [ROP_FG |-> Bits(o.rop), ROP_BG |-> Bits(o.rop), TYPE |-> Bits(ROP_TYPE.ROP4)])

ClearWrites(o) ==
  SetState(VIVS_DE_CLEAR_PIXEL_VALUE32, o.color)
  \o SetState(VIVS_DE_CLEAR_BYTE_MASK, Bits(255))
  \o SetState(VIVS_DE_CLEAR_PIXEL_VALUE_LOW, o.color)
  \o SetState(VIVS_DE_CLEAR_PIXEL_VALUE_HIGH, o.color)

GlobalMode(on) == Bits(IF on THEN ALPHA_MODE.GLOBAL ELSE ALPHA_MODE.NORMAL)

BlendWrites(b) ==
  Set(VIVS_DE_ALPHA_CONTROL,
      [ENABLE |-> {0}, PE10_GLOBAL_SRC_ALPHA |-> Bits(b.src_alpha),
       PE10_GLOBAL_DST_ALPHA |-> Bits(b.dst_alpha)])
  \o Set(VIVS_DE_ALPHA_MODES,
         [GLOBAL_SRC_ALPHA_MODE |-> GlobalMode(b.src_global),
          GLOBAL_DST_ALPHA_MODE |-> GlobalMode(b.dst_global),
          SRC_BLENDING_MODE |-> BlendMode(1, b.cmd), DST_BLENDING_MODE |-> BlendMode(2, b.cmd)])
  \o SetState(VIVS_DE_GLOBAL_SRC_COLOR, Color24(b.src_alpha))
  \o SetState(VIVS_DE_GLOBAL_DEST_COLOR, Color24(b.dst_alpha))
  \o Set(VIVS_DE_COLOR_MULTIPLY_MODES,
         [SRC_PREMULTIPLY |-> {}, DST_PREMULTIPLY |-> {}, SRC_GLOBAL_PREMULTIPLY |-> {},
          DST_DEMULTIPLY |-> {}])

AlphaWrites(o) ==
  IF o.blend # NoBlend THEN BlendWrites(o.blend)
  ELSE Zero(<<VIVS_DE_ALPHA_CONTROL, VIVS_DE_ALPHA_MODES, VIVS_DE_GLOBAL_SRC_COLOR,
              VIVS_DE_GLOBAL_DEST_COLOR, VIVS_DE_COLOR_MULTIPLY_MODES>>)

RectWords(r) ==
  <<Pack(VIV_FE_DRAW_2D_TOP_LEFT, [X |-> Bits(r.x), Y |-> Bits(r.y)]),
    Pack(VIV_FE_DRAW_2D_BOTTOM_RIGHT, [X |-> Bits(r.x + r.width), Y |-> Bits(r.y + r.height)])>>

\* ETNA_ALIGN: a word may be skipped, and what was in the buffer stays there.
EtnaAlign(words) == IF Len(words) % 2 = 0 THEN words ELSE Append(words, Stale)

DrawHeader(o) ==
  Pack(VIV_FE_DRAW_2D_HEADER,
       [OP |-> OP_DRAW_2D, COUNT |-> Bits(Len(o.rects)), DATA_COUNT |-> Bits(Len(o.data))])

\* Mutant: the data is not aligned.
DrawWritesUnaligned(o) ==
  <<<<DrawHeader(o), {}>>
    \o FlattenSeq([i \in 1 .. Len(o.rects) |-> RectWords(o.rects[i])]) \o o.data>>

DrawWrites(o) ==
  <<EtnaAlign(EtnaAlign(<<DrawHeader(o), {}>>
                        \o FlattenSeq([i \in 1 .. Len(o.rects) |-> RectWords(o.rects[i])]))
              \o o.data)>>

\* viv2d_op_exec: what it does to the operation, and what it writes between one
\* reserve and the next.
Prepared(o) ==
  [o EXCEPT !.rects = IF @ = <<>> THEN <<[x |-> 0, y |-> 0, width |-> surf[o.dst].width,
                                          height |-> surf[o.dst].height]>> ELSE @,
            !.rop = IF o.pat_fill THEN ROP_BRUSH ELSE @]

Program(o) ==
  LET multi == o.cmd = "multsrcblt"
  IN  DestWrites(o)
      \o ClipWrites(o)
      \o (IF multi THEN MultiSourceWrites(o)
          ELSE IF o.srcs # <<>> THEN SourceWrites(o) ELSE NoSourceWrites(o))
      \o When(o.cmd = "stretchblt", StretchWrites(o))
      \o When(o.pat_fill, PatternWrites(o))
      \o When(~multi, RopWrites(o))
      \o When(o.cmd \in {"clear", "mono_blit"}, ClearWrites(o))
      \o When(~multi, AlphaWrites(o))
      \o DrawWrites(o)
      \o Set(VIVS_GL_FLUSH_CACHE, [PE2D |-> {0}])

-------------------------------------------------------------------------------
\* The registers, as far as they were written, by their address divided by four.
Word(regs, reg) == IF reg.at \div 4 \in DOMAIN regs THEN regs[reg.at \div 4] ELSE Stale
Field(regs, reg, n) == Get(Word(regs, reg), reg.fields[n])
Point(regs, reg) == <<Field(regs, reg, "X"), Field(regs, reg, "Y")>>

\* How the engine blends with an ALPHA_CONTROL and an ALPHA_MODES; the alpha of a
\* global color counts when its mode says so.
SeenBlend(regs, control, modes, src_color, dst_color, multiply) ==
  LET Global(mode, color) ==
        IF Field(regs, modes, mode) = Bits(ALPHA_MODE.GLOBAL)
        THEN <<Get(Word(regs, color), <<24, 31>>)>> ELSE <<>>
  IN  IF Field(regs, control, "ENABLE") = {} THEN <<>>
      ELSE <<Field(regs, modes, "SRC_BLENDING_MODE"), Field(regs, modes, "DST_BLENDING_MODE"),
             Global("GLOBAL_SRC_ALPHA_MODE", src_color),
             Global("GLOBAL_DST_ALPHA_MODE", dst_color), Word(regs, multiply)>>

SeenSource(regs, address, stride, config, origin, size) ==
  [at |-> Word(regs, address), pitch |-> Field(regs, stride, "STRIDE"),
   fmt |-> Field(regs, config, "SOURCE_FORMAT"), swizzle |-> Field(regs, config, "SWIZZLE"),
   origin |-> Point(regs, origin), size |-> Point(regs, size)]

SeenBlock(regs, i) ==
  SeenSource(regs, VIVS_DE_BLOCK8_SRC_ADDRESS(i), VIVS_DE_BLOCK8_SRC_STRIDE(i),
             VIVS_DE_BLOCK8_SRC_CONFIG(i), VIVS_DE_BLOCK8_SRC_ORIGIN(i),
             VIVS_DE_BLOCK8_SRC_SIZE(i))

SeenBlockBlend(regs, i) ==
  SeenBlend(regs, VIVS_DE_BLOCK8_ALPHA_CONTROL(i), VIVS_DE_BLOCK8_ALPHA_MODES(i),
            VIVS_DE_BLOCK8_GLOBAL_SRC_COLOR(i), VIVS_DE_BLOCK8_GLOBAL_DEST_COLOR(i),
            VIVS_DE_BLOCK8_COLOR_MULTIPLY_MODES(i))

Corner(w, fields) == <<Get(w, fields.X), Get(w, fields.Y)>>

\* What the engine draws, from its registers, the corners and the data.  Its color
\* is in one of some registers: the source does not say which of them a line is
\* drawn with.
Seen(regs, corners, data) ==
  LET command == Field(regs, VIVS_DE_DEST_CONFIG, "COMMAND")
      Is(c) == command = Bits(c)
      pattern == Is(COMMAND.BIT_BLT) /\ Field(regs, VIVS_DE_ROP, "ROP_FG") = Bits(ROP_BRUSH)
      reads == Is(COMMAND.STRETCH_BLT) \/ (Is(COMMAND.BIT_BLT) /\ ~pattern)
      streamed == reads /\ Field(regs, VIVS_DE_SRC_CONFIG, "LOCATION") = Bits(LOCATION.STREAM)
      multi == Is(COMMAND.MULTI_SOURCE_BLT)
      sources == 0 .. Num(Field(regs, VIVS_DE_DE_MULTI_SOURCE, "MAX_SOURCE"))
  IN  [command |-> command,
       dst |-> <<Word(regs, VIVS_DE_DEST_ADDRESS), Field(regs, VIVS_DE_DEST_STRIDE, "STRIDE"),
                 Field(regs, VIVS_DE_DEST_CONFIG, "FORMAT"),
                 Field(regs, VIVS_DE_DEST_CONFIG, "SWIZZLE")>>,
       clip |-> <<Point(regs, VIVS_DE_CLIP_TOP_LEFT), Point(regs, VIVS_DE_CLIP_BOTTOM_RIGHT)>>,
       corners |-> [i \in 1 .. Len(corners) \div 2 |->
                      <<Corner(corners[2 * i - 1], VIV_FE_DRAW_2D_TOP_LEFT),
                        Corner(corners[2 * i], VIV_FE_DRAW_2D_BOTTOM_RIGHT)>>],
       color |-> CASE Is(COMMAND.CLEAR) -> {Word(regs, VIVS_DE_CLEAR_PIXEL_VALUE32)}
                   [] Is(COMMAND.LINE) ->
                        {Word(regs, VIVS_DE_CLEAR_PIXEL_VALUE32),
                         Word(regs, VIVS_DE_PATTERN_FG_COLOR), Word(regs, VIVS_DE_SRC_COLOR_FG)}
                   [] pattern -> {Word(regs, VIVS_DE_PATTERN_FG_COLOR)}
                   [] streamed -> {Word(regs, VIVS_DE_SRC_COLOR_FG)}
                   [] OTHER -> {},
       data |-> IF streamed THEN <<Field(regs, VIVS_DE_SRC_STRIDE, "STRIDE"), data>> ELSE <<>>,
       src |-> IF reads /\ ~streamed
               THEN <<SeenSource(regs, VIVS_DE_SRC_ADDRESS, VIVS_DE_SRC_STRIDE, VIVS_DE_SRC_CONFIG,
                                 VIVS_DE_SRC_ORIGIN, VIVS_DE_SRC_SIZE)>>
               ELSE <<>>,
       blocks |-> IF multi THEN [i \in sources |-> SeenBlock(regs, i)] ELSE <<>>,
       blend |-> IF multi THEN [i \in sources |-> SeenBlockBlend(regs, i)]
                 ELSE SeenBlend(regs, VIVS_DE_ALPHA_CONTROL, VIVS_DE_ALPHA_MODES,
                                VIVS_DE_GLOBAL_SRC_COLOR, VIVS_DE_GLOBAL_DEST_COLOR,
                                VIVS_DE_COLOR_MULTIPLY_MODES),
       stretch |-> IF Is(COMMAND.STRETCH_BLT)
                   THEN <<Num(Field(regs, VIVS_DE_STRETCH_FACTOR_LOW, "X")),
                          Num(Field(regs, VIVS_DE_STRETCH_FACTOR_HIGH, "Y"))>> ELSE <<>>]

\* The front end before the first word.
PowerOn ==
  [mode |-> "command", odd |-> FALSE, left |-> 0, at |-> 0, data_left |-> 0,
   corners |-> <<>>, data |-> <<>>, regs |-> <<>>, draws |-> <<>>]

\* Commands begin at even words.
Ended(f) == [f EXCEPT !.mode = IF f.odd THEN "pad" ELSE "command"]

Drawn(f) ==
  Ended([f EXCEPT !.draws = Append(@, Seen(f.regs, f.corners, f.data)), !.corners = <<>>,
                  !.data = <<>>])

FeCommand(f, w) ==
  CASE Get(w, VIV_FE_LOAD_STATE_HEADER.OP) = OP_LOAD_STATE ->
         [f EXCEPT !.mode = "state", !.at = Num(Get(w, VIV_FE_LOAD_STATE_HEADER.OFFSET)),
                   !.left = Num(Get(w, VIV_FE_LOAD_STATE_HEADER.COUNT))]
    [] Get(w, VIV_FE_DRAW_2D_HEADER.OP) = OP_DRAW_2D ->
         [f EXCEPT !.mode = "corners", !.left = 1 + 2 * Num(Get(w, VIV_FE_DRAW_2D_HEADER.COUNT)),
                   !.data_left = Num(Get(w, VIV_FE_DRAW_2D_HEADER.DATA_COUNT))]
    [] OTHER -> [f EXCEPT !.mode = "lost"]

FeState(f, w) ==
  LET g == [f EXCEPT !.left = @ - 1, !.at = @ + 1,
                     !.regs = [a \in {f.at} \cup DOMAIN @ |->
                                 IF a = f.at THEN w ELSE f.regs[a]]]
  IN  IF g.left = 0 THEN Ended(g) ELSE g

\* The first of the corners' words is padding.
FeCorners(f, w) ==
  LET g == [f EXCEPT !.left = @ - 1, !.corners = Append(@, w)]
  IN  IF g.left > 0 THEN g
      ELSE LET h == [g EXCEPT !.corners = Tail(@), !.left = g.data_left]
           IN  IF h.left > 0 THEN [h EXCEPT !.mode = "data"] ELSE Drawn(h)

FeData(f, w) ==
  LET g == [f EXCEPT !.left = @ - 1, !.data = Append(@, w)]
  IN  IF g.left = 0 THEN Drawn(g) ELSE g

\* The front end takes a word, and a number of words.
FeStep(f, w) ==
  LET g == [f EXCEPT !.odd = ~@]
  IN  CASE g.mode = "command" -> FeCommand(g, w)
        [] g.mode = "state" -> FeState(g, w)
        [] g.mode = "corners" -> FeCorners(g, w)
        [] g.mode = "data" -> FeData(g, w)
        [] g.mode = "pad" -> [g EXCEPT !.mode = "command"]
        [] OTHER -> g

Steps(f, words, first, last) ==
  LET after[i \in first - 1 .. last] == IF i < first THEN f ELSE FeStep(after[i - 1], words[i])
  IN  after[last]

\* All of them, in blocks: that keeps the recursion shallow.
BlockWords == 16
Fetch(f, words) ==
  LET after[n \in 0 .. Len(words) \div BlockWords + 1] ==
        IF n = 0 THEN f
        ELSE CHOOSE g \in {Steps(h, words, BlockWords * (n - 1) + 1, Min({BlockWords * n, Len(words)})) :
                             h \in {after[n - 1]}} : TRUE
  IN  after[Len(words) \div BlockWords + 1]

-------------------------------------------------------------------------------
Low(w) == w \cap (0 .. 15)

\* The one way the blocks of a multi-source blit are blended.
Over(b) == b.cmd = "over" /\ ~b.src_global /\ ~b.dst_global

\* What a description asks for and viv2d_op_exec does not look at: the color of a
\* line or of a mono blit, and how, not whether, a multi-source blit is blended.
Dropped(o) ==
  {n \in {"color", "blend"} :
     \/ n = "color" /\ o.cmd \in {"line", "mono_blit"}
     \/ n = "blend" /\ o.cmd = "multsrcblt" /\ o.blend # NoBlend /\ ~Over(o.blend)}

\* What the description of an operation asks for.
AskedSource(o, s) ==
  [at |-> GpuAddress[s], pitch |-> Bits(surf[s].pitch), fmt |-> Bits(FormatOf(s).fmt),
   swizzle |-> Bits(FormatOf(s).swizzle), origin |-> <<Low(o.src_x), Low(o.src_y)>>,
   size |-> <<Bits(surf[s].width), Bits(surf[s].height)>>]

AskedBlend(b) ==
  IF b = NoBlend THEN <<>>
  ELSE <<BlendMode(1, b.cmd), BlendMode(2, b.cmd),
         IF b.src_global THEN <<Bits(b.src_alpha)>> ELSE <<>>,
         IF b.dst_global THEN <<Bits(b.dst_alpha)>> ELSE <<>>, {}>>

Corners(r) == <<<<Bits(r.x), Bits(r.y)>>, <<Bits(r.x + r.width), Bits(r.y + r.height)>>>>

Asked(o) ==
  LET multi == o.cmd = "multsrcblt"
      mono == o.cmd = "mono_blit"
  IN  [command |-> Bits(Command(o.cmd)),
       dst |-> <<GpuAddress[o.dst], Bits(surf[o.dst].pitch), Bits(FormatOf(o.dst).fmt),
                 Bits(FormatOf(o.dst).swizzle)>>,
       clip |-> Corners(o.clip),
       corners |-> [i \in 1 .. Len(o.rects) |-> Corners(o.rects[i])],
       color |-> IF o.cmd \in {"clear", "line", "mono_blit"} \/ o.pat_fill
                 THEN {o.color} ELSE {},
       data |-> IF mono THEN <<o.data_pitch, o.data>> ELSE <<>>,
       src |-> IF multi \/ o.srcs = <<>> THEN <<>> ELSE <<AskedSource(o, o.srcs[1])>>,
       blocks |-> IF multi
                  THEN [i \in 0 .. Len(o.srcs) - 1 |-> AskedSource(o, o.srcs[i + 1])]
                  ELSE <<>>,
       blend |-> IF multi THEN [i \in 0 .. Len(o.srcs) - 1 |-> AskedBlend(o.blend)]
                 ELSE AskedBlend(o.blend),
       dropped |-> Dropped(o),
       sizes |-> IF o.cmd = "stretchblt"
                 THEN <<surf[o.srcs[1]].width, surf[o.srcs[1]].height,
                        surf[o.dst].width, surf[o.dst].height>> ELSE <<>>]

\* viv2d_op_exec, in one step.  The callers give a source or a pattern to a bit
\* blit, and data to a mono blit.
OpExec ==
  /\ op # NoOp
  /\ executed < MaxOps
  /\ op.cmd = "bitblt" => op.srcs # <<>> \/ op.pat_fill
  /\ op.cmd = "mono_blit" => op.data # <<>>
  /\ op' = Prepared(op)
  /\ executed' = executed + 1
  /\ stream' = stream \o Program(op')
  /\ due' = Append(due, Asked(op'))
  /\ UNCHANGED <<surfaces, edits, fe, wanted>>

\* viv2d_flush or viv2d_commit, and the job: only the registers outlive it.
Flush ==
  /\ stream # <<>>
  /\ fe' = Fetch([fe EXCEPT !.draws = <<>>], FlattenSeq(stream))
  /\ wanted' = due
  /\ stream' = <<>>
  /\ due' = <<>>
  /\ UNCHANGED <<surfaces, client>>

Init ==
  /\ SurfacesInit
  /\ op = NoOp
  /\ edits = 0
  /\ executed = 0
  /\ stream = <<>>
  /\ due = <<>>
  /\ fe = PowerOn
  /\ wanted = <<>>

\* The sources the callers give; a stretch is to more than one pixel each way.
Made == {s \in SurfaceIds : surf[s] # NoSurface}
Sources(cmd, dst) ==
  CASE cmd = "bitblt" -> {<<>>} \cup {<<s>> : s \in Made}
    [] cmd = "stretchblt" -> {<<s>> : s \in {m \in Made : surf[dst].width > 1 /\ surf[dst].height > 1}}
    [] cmd = "multsrcblt" -> UNION {[1 .. n -> Made] : n \in SourceCounts}
    [] OTHER -> {<<>>}

Cmds == {"clear", "line", "bitblt", "stretchblt", "multsrcblt", "mono_blit"}

\* Surfaces come and go when nothing refers to them, and are dumped after the last
\* operation (a bound).
Surface ==
  /\ op = NoOp /\ stream = <<>>
  /\ \/ \E s \in SurfaceIds : \E k \in Kinds[s] : executed = 0 /\ SurfaceNew(s, k)
     \/ \E s \in SurfaceIds : SurfaceDel(s)
     \/ \E s \in SurfaceIds : executed = MaxOps /\ SurfaceToBmp(s)
  /\ UNCHANGED <<client, stream, due, fe, wanted>>

Describe ==
  \/ \E cmd \in Cmds, dst \in Made, heap \in HeapWords :
       \E srcs \in Sources(cmd, dst) : OpNew(cmd, srcs, dst, heap)
  \/ \E r \in Rects : OpAddRect(r) \/ OpSetClipRect(r)
  \/ \E c \in Colors : OpSetColor(c)
  \/ \E b \in Blends : OpSetBlend(b)
  \/ \E d \in Glyphs : OpSetData(d, 4)
  \/ OpSetPatFill
  \/ OpDel

Next == Surface \/ Describe \/ OpExec \/ Flush

Spec == Init /\ [][Next]_vars

-------------------------------------------------------------------------------
Words == SUBSET WordBits

\* The values of every variable.
TypeOK ==
  /\ \A s \in Made : surf[s].pitch % 32 = 0 /\ surf[s].size = surf[s].pitch * surf[s].height
  /\ op = NoOp \/ (op.cmd \in Cmds /\ op.dst \in Made /\ op.color \subseteq WordBits)
  /\ edits \in 0 .. MaxEdits
  /\ executed \in 0 .. MaxOps
  /\ \A i \in 1 .. Len(stream) : \A j \in 1 .. Len(stream[i]) : stream[i][j] \subseteq WordBits
  /\ fe.mode \in {"command", "state", "corners", "data", "pad", "lost"}
  /\ \A a \in DOMAIN fe.regs : a \in Nat /\ a < 65536 /\ fe.regs[a] \subseteq WordBits
  /\ Len(due) \in 0 .. MaxOps /\ Len(wanted) \in 0 .. MaxOps

\* What is written between two reserves is whole commands, each at an even word:
\* wherever the stream is cut into jobs, the front end never takes a value, a
\* rectangle or data for a command (viv2d.c:121-151, 678-697).
CommandsAreWhole ==
  /\ \A i \in 1 .. Len(stream) :
       Len(stream[i]) % 2 = 0 /\ Fetch(PowerOn, stream[i]).mode = "command"
  /\ fe.mode = "command"

\* Every draw of a job shows what its operation asked for, in order and no other,
\* whatever earlier operations left in the registers: every field arrives at its
\* place and unmixed with its neighbours (viv2d.c:371-712), but for what
\* viv2d_op_exec drops: the color of a line (viv2d.c:600-622), the color of a mono
\* blit (viv2d.c:587-588), and the mode of a multi-source blit that is not blended
\* over (viv2d.c:512-515, BlocksBlendAsAsked).
EngineSeesOp ==
  /\ Len(fe.draws) = Len(wanted)
  /\ \A i \in 1 .. Len(wanted) :
       \A n \in DOMAIN wanted[i] \ ({"sizes", "dropped"} \cup wanted[i].dropped) :
         fe.draws[i][n] = wanted[i][n]

\* A multi-source blit blends its sources as viv2d_op_set_blend was told, "add"
\* included (test_viv2d.c:333-334).
BlocksBlendAsAsked ==
  \A i \in 1 .. Len(wanted) :
    wanted[i].command = Bits(COMMAND.MULTI_SOURCE_BLT) =>
      fe.draws[i].blend = wanted[i].blend

\* The steps of a stretch end at the last pixel of the source and not behind it,
\* nor a whole step before it (viv2d.c:595-598).
StretchSpansSource ==
  \A i \in 1 .. Len(fe.draws) : fe.draws[i].stretch # <<>> =>
    \A d \in {1, 2} :
      LET from == wanted[i].sizes[d]
          to == wanted[i].sizes[d + 2]
          f == fe.draws[i].stretch[d]
      IN  f * (to - 1) <= (from - 1) * 65536 /\ (from - 1) * 65536 < (f + 1) * (to - 1)
===============================================================================

------------------------------- MODULE Viv2dExec -------------------------------
(***************************************************************************)
(* viv2d.c: an operation is described field by field, viv2d_op_exec turns  *)
(* it into register writes and one draw command in the device's command    *)
(* stream, and the GPU runs the jobs the stream is cut into.               *)
(*                                                                         *)
(* Every write goes through etna_cmd_stream_reserve, which submits what is *)
(* there when the buffer is full: an operation may be cut anywhere.  The   *)
(* stream is used at the level of CommandBatch (which CmdStream            *)
(* implements): words, and the buffer objects they name.                   *)
(*                                                                         *)
(* Registers that are written together from the same fields are one        *)
(* register here, and a write is one header and one value whatever the     *)
(* number of registers it stands for.                                      *)
(***************************************************************************)
EXTENDS Integers, Sequences, SequencesExt

CONSTANTS
  Surfaces,   \* surfaces, each with a buffer object of its own
  Colors,     \* values of op->color
  Black,      \* 0xff000000, the color of a new operation
  White,      \* 0xffffffff, the color of every mono blit
  Stale,      \* what a register holds that this client has not written
  Cmds,       \* bound: the viv2d_op_cmd values the client uses
  Edits,      \* bound: the fields the client sets
  Blends,     \* bound: the viv2d_blend_cmd values the client uses
  SizeArg,    \* the size argument of etna_cmd_stream_new, in words
  MaxRects,   \* VIV2D_MAX_RECTS
  MaxData,    \* the longest data of a mono blit, in words
  MaxOps,     \* bound: operations that are executed
  MaxJobs,    \* bound: jobs the GPU has not run yet
  FenceMod    \* the kernel counts fences modulo this (2^32)

ASSUME Viv2dExecAssumption ==
  /\ Black \in Colors
  /\ SizeArg \in Nat /\ MaxRects \in Nat \ {0} /\ MaxData \in Nat
  \* reserve does not look whether what it is asked for fits at all: 2 * 256
  \* rectangles and a glyph do fit the 1024 words of a device.
  /\ 2 + 2 * MaxRects + MaxData + 2 <= SizeArg
  /\ MaxOps \in Nat
  /\ MaxJobs \in Nat \ {0}
  /\ FenceMod \in Nat /\ FenceMod > MaxJobs

VARIABLES
  op,              \* the operation of the client, or NoOp
  pc,              \* where the client's thread is: idle, exec or wait
  todo,            \* what viv2d_op_exec has not emitted yet
  executed,        \* operations executed, up to MaxOps
  cut,             \* (history) a flush came between this operation's writes
  offset,          \* stream->offset, in words
  batch,           \* what is in the buffer
  last_timestamp,  \* fence of the last accepted job
  seqno,           \* the kernel's last fence
  jobs,            \* jobs the GPU has not run, oldest first
  regs,            \* the GPU's registers
  disturbed        \* (history) a job was refused or another client drew

client == <<op, pc, todo, executed, cut>>
stream == <<offset, batch, last_timestamp>>
vars == <<client, stream, seqno, jobs, regs, disturbed>>

NoOp == [cmd |-> "none"]

-------------------------------------------------------------------------------
\* ALIGN(n, 2) and ETNA_ALIGN: the next even number.
Align(n) == n + (n % 2)

\* Mutant: the size is taken as it is.
SizeNotAligned == SizeArg

Size == Align(SizeArg)

END_CLEARANCE == 2
Avail == Size - offset - END_CLEARANCE

\* The blocks of a multi-source blit: VIVS_DE_BLOCK8_*(src_idx).
Blocks == <<"BLOCK8_0", "BLOCK8_1", "BLOCK8_2", "BLOCK8_3">>

Registers ==
  {"DEST_ADDRESS", "DEST_CONFIG", "SRC_ADDRESS", "SRC_CONFIG", "STRETCH", "PATTERN", "ROP",
   "CLEAR", "SRC_COLOR", "ALPHA", "MULTI_SOURCE", "FLUSH_CACHE"} \cup Range(Blocks)

Init ==
  /\ op = NoOp
  /\ pc = "idle"
  /\ todo = <<>>
  /\ executed = 0
  /\ cut = FALSE
  /\ offset = 0
  /\ batch = <<>>
  /\ last_timestamp = 0
  /\ seqno = 0
  /\ jobs = <<>>
  /\ regs = [r \in Registers |-> Stale]
  /\ disturbed = FALSE

-------------------------------------------------------------------------------
\* The client describes an operation; nothing of it reaches the stream yet.
Edit(f, v) ==
  /\ pc = "idle"
  /\ op # NoOp
  /\ f \in Edits
  /\ op' = [op EXCEPT ![f] = v]
  /\ UNCHANGED <<pc, todo, executed, cut, stream, seqno, jobs, regs, disturbed>>

\* The sources the callers give: one, none, or op->srcs with op->src_count.
Sources(cmd) ==
  CASE cmd = "bitblt" -> {<<>>} \cup {<<s>> : s \in Surfaces}
    [] cmd = "stretchblt" -> {<<s>> : s \in Surfaces}
    [] cmd = "multsrcblt" -> {<<s, t>> : s, t \in Surfaces}
    [] OTHER -> {<<>>}

\* viv2d_op_new, and the sources of a multi-source blit, which the callers set.
OpNew(cmd, srcs, dst) ==
  /\ pc = "idle"
  /\ op = NoOp
  /\ op' = [cmd |-> cmd, srcs |-> srcs, dst |-> dst, rects |-> 0, clip |-> "dst",
            color |-> Black, rop |-> "source", pat_fill |-> FALSE, blend |-> "off",
            data |-> 0]
  /\ UNCHANGED <<pc, todo, executed, cut, stream, seqno, jobs, regs, disturbed>>

\* The callers, not the code, keep to VIV2D_MAX_RECTS.
OpAddRect == op # NoOp /\ op.rects < MaxRects /\ Edit("rects", op.rects + 1)
OpSetClipRect == Edit("clip", "rect")
OpSetColor(c) == Edit("color", c)
OpSetBlend(b) == Edit("blend", b)

\* op->pat_fill, and op->data with op->data_size, are set by the callers.
OpSetPatFill == op # NoOp /\ op.cmd = "bitblt" /\ op.srcs = <<>> /\ Edit("pat_fill", TRUE)
OpSetData(n) == op # NoOp /\ op.cmd = "mono_blit" /\ Edit("data", n)

OpDel ==
  /\ pc = "idle"
  /\ op # NoOp
  /\ op' = NoOp
  /\ UNCHANGED <<pc, todo, executed, cut, stream, seqno, jobs, regs, disturbed>>

-------------------------------------------------------------------------------
W(reg, val) == <<[reg |-> reg, val |-> val]>>
When(cond, writes) == IF cond THEN writes ELSE <<>>

\* The switch of viv2d_op_exec; viv2d_cmd_pat_fill takes the default.
Command(cmd) ==
  CASE cmd = "line" -> "LINE"
    [] cmd \in {"bitblt", "mono_blit"} -> "BIT_BLT"
    [] cmd = "stretchblt" -> "STRETCH_BLT"
    [] cmd = "multsrcblt" -> "MULTI_SOURCE_BLT"
    [] OTHER -> "CLEAR"

DestWrites(o) ==
  W("DEST_ADDRESS", o.dst) \o W("DEST_CONFIG", [command |-> Command(o.cmd), clip |-> o.clip])

\* Mutant: a block is blended without being asked to.
BlockBlendAlways(o) == "over"

\* A block is blended ONE and INVERSED, or not at all.
BlockBlend(o) == IF o.blend = "off" THEN "off" ELSE "over"

SourceWrites(o) ==
  IF o.cmd = "multsrcblt"
  THEN [i \in 1 .. Len(o.srcs) |->
          [reg |-> Blocks[i], val |-> [src |-> o.srcs[i], blend |-> BlockBlend(o)]]]
       \o W("MULTI_SOURCE", Len(o.srcs) - 1)
  ELSE IF o.srcs # <<>> THEN W("SRC_ADDRESS", o.srcs[1]) \o W("SRC_CONFIG", "MEMORY")
  ELSE IF o.cmd = "mono_blit" THEN W("SRC_CONFIG", "STREAM") \o W("SRC_COLOR", White)
  ELSE W("SRC_CONFIG", "NONE")

\* Mutant: alpha blending is turned on, and never off.
AlphaWritesOnlyOn(o) ==
  When(o.cmd # "multsrcblt" /\ o.blend # "off", W("ALPHA", o.blend))

AlphaWrites(o) == When(o.cmd # "multsrcblt", W("ALPHA", o.blend))

\* The registers viv2d_op_exec sets up, in its order.
Setup(o) ==
  DestWrites(o)
  \o SourceWrites(o)
  \o When(o.cmd = "stretchblt", W("STRETCH", <<o.srcs, o.dst>>))
  \o When(o.pat_fill, W("PATTERN", o.color))
  \o When(o.cmd # "multsrcblt", W("ROP", o.rop))
  \o When(o.cmd \in {"clear", "mono_blit"}, W("CLEAR", o.color))
  \o AlphaWrites(o)

\* What it emits; the draw command is the item with the operation in it.
Program(o) == Setup(o) \o W("DRAW_2D", o) \o W("FLUSH_CACHE", "PE2D")

\* Mutant: no default rectangle.
PreparedWithoutRect(o) == [o EXCEPT !.rop = IF o.pat_fill THEN "pattern" ELSE @]

\* What viv2d_op_exec does to the operation it is given.
Prepared(o) ==
  [o EXCEPT !.rects = IF @ = 0 THEN 1 ELSE @,
            !.rop = IF o.pat_fill THEN "pattern" ELSE @]

ExecBegin ==
  /\ pc = "idle"
  /\ op # NoOp
  /\ executed < MaxOps
  /\ executed' = executed + 1
  /\ op' = Prepared(op)
  /\ todo' = Program(op')
  /\ pc' = "exec"
  /\ cut' = FALSE
  /\ UNCHANGED <<stream, seqno, jobs, regs, disturbed>>

-------------------------------------------------------------------------------
\* Mutant: the destination is written as a plain address.
RelocsOfSourcesOnly(w) ==
  CASE w.reg = "SRC_ADDRESS" -> {w.val}
    [] w.reg \in Range(Blocks) -> {w.val.src}
    [] OTHER -> {}

\* The buffer objects a write names by a relocation.
Relocs(w) ==
  CASE w.reg \in {"DEST_ADDRESS", "SRC_ADDRESS"} -> {w.val}
    [] w.reg \in Range(Blocks) -> {w.val.src}
    [] OTHER -> {}

Table(items) == UNION {Relocs(items[i]) : i \in 1 .. Len(items)}

\* Mutant: only the kernel keeps the fence.
SubmitForgetsFence(items) ==
  /\ Len(jobs) < MaxJobs
  /\ seqno' = (seqno + 1) % FenceMod
  /\ jobs' = Append(jobs, [fence |-> seqno', items |-> items, bos |-> Table(items)])
  /\ UNCHANGED <<last_timestamp, disturbed>>

\* The kernel takes a job.
SubmitAccepted(items) ==
  /\ Len(jobs) < MaxJobs
  /\ seqno' = (seqno + 1) % FenceMod
  /\ jobs' = Append(jobs, [fence |-> seqno', items |-> items, bos |-> Table(items)])
  /\ last_timestamp' = seqno'
  /\ UNCHANGED disturbed

\* The kernel refuses a job; flush logs that and empties the buffer all the same.
SubmitRefused ==
  /\ disturbed' = TRUE
  /\ UNCHANGED <<seqno, jobs, last_timestamp>>

Submit(items) == SubmitAccepted(items) \/ SubmitRefused

\* The words that etna_cmd_stream_reserve is asked for.
Need(w) == IF w.reg = "DRAW_2D" THEN 2 * w.val.rects + w.val.data + 2 ELSE 2

\* The offset behind an item: the rectangles and the data are aligned.
Behind(off, w) ==
  IF w.reg = "DRAW_2D" THEN Align(Align(off + 2 + 2 * w.val.rects) + w.val.data)
  ELSE off + 2

\* What goes into the buffer: a draw carries the operation and whether all of its
\* writes are in the same batch (only the properties look at that).
Item(w, whole) ==
  IF w.reg = "DRAW_2D" THEN [reg |-> w.reg, val |-> w.val, whole |-> whole] ELSE w

Fits(w) == Avail >= Need(w)

Emitted ==
  /\ pc = "exec"
  /\ todo # <<>>
  /\ todo' = Tail(todo)
  /\ UNCHANGED <<op, pc, executed, regs>>

\* reserve finds room.
Emit ==
  /\ Emitted
  /\ Fits(Head(todo))
  /\ offset' = Behind(offset, Head(todo))
  /\ batch' = Append(batch, Item(Head(todo), ~cut))
  /\ UNCHANGED <<cut, last_timestamp, seqno, jobs, disturbed>>

\* reserve flushes first.
FlushAndEmit ==
  /\ Emitted
  /\ ~Fits(Head(todo))
  /\ Submit(batch)
  /\ cut' = (cut \/ Head(todo).reg # "DEST_ADDRESS")
  /\ offset' = Behind(0, Head(todo))
  /\ batch' = <<Item(Head(todo), ~cut')>>

ExecReturn ==
  /\ pc = "exec"
  /\ todo = <<>>
  /\ pc' = "idle"
  /\ cut' = FALSE
  /\ UNCHANGED <<op, todo, executed, stream, seqno, jobs, regs, disturbed>>

-------------------------------------------------------------------------------
\* viv2d_flush and viv2d_commit: whatever is there, nothing included, is a job.
FlushTo(to) ==
  /\ pc = "idle"
  /\ pc' = to
  /\ Submit(batch)
  /\ offset' = 0
  /\ batch' = <<>>
  /\ UNCHANGED <<op, todo, executed, cut, regs>>

Flush == FlushTo("idle")

\* etna_cmd_stream_finish: flush, then wait for the fence of the last job that
\* was accepted.
Commit == FlushTo("wait")

\* A fence is signalled when no job up to it is left.
Signalled(f) == \A i \in 1 .. Len(jobs) : jobs[i].fence # f

\* The wait returns, on the fence or on its timeout; the result is ignored.
CommitReturn ==
  /\ pc = "wait"
  /\ pc' = "idle"
  /\ UNCHANGED <<op, todo, executed, cut, stream, seqno, jobs, regs, disturbed>>

-------------------------------------------------------------------------------
\* What the GPU draws, from its registers alone (the raster operations as the
\* comment at the head of viv2d.c has them).  Colors are the contents of the
\* registers the color may come from: the source does not say which of them a line
\* is drawn with.
Effect(r) ==
  LET command == r["DEST_CONFIG"].command
      multi == command = "MULTI_SOURCE_BLT"
      source == IF r["SRC_CONFIG"] = "MEMORY" THEN <<r["SRC_ADDRESS"]>> ELSE <<>>
      pattern == command = "BIT_BLT" /\ r["ROP"] = "pattern"
      streamed == command = "BIT_BLT" /\ r["SRC_CONFIG"] = "STREAM" /\ ~pattern
      blocks == IF multi THEN [i \in 1 .. r["MULTI_SOURCE"] + 1 |-> r[Blocks[i]]] ELSE <<>>
  IN  [dst |-> r["DEST_ADDRESS"],
       clip |-> r["DEST_CONFIG"].clip,
       color |-> CASE command = "CLEAR" -> {r["CLEAR"]}
                   [] command = "LINE" -> {r["CLEAR"], r["PATTERN"], r["SRC_COLOR"]}
                   [] pattern -> {r["PATTERN"]}
                   [] streamed -> {r["SRC_COLOR"]}
                   [] OTHER -> {},
       srcs |-> CASE multi -> [i \in DOMAIN blocks |-> blocks[i].src]
                  [] command \in {"BIT_BLT", "STRETCH_BLT"} /\ ~pattern -> source
                  [] OTHER -> <<>>,
       streamed |-> streamed,
       stretch |-> IF command = "STRETCH_BLT" THEN r["STRETCH"] ELSE <<>>,
       blend |-> IF multi THEN {blocks[i].blend : i \in DOMAIN blocks} ELSE {r["ALPHA"]}]

\* What the description of an operation asks for.
Asked(o) ==
  [dst |-> o.dst,
   clip |-> o.clip,
   color |-> IF o.cmd \in {"clear", "line", "mono_blit"} \/ o.pat_fill THEN {o.color} ELSE {},
   srcs |-> o.srcs,
   streamed |-> o.cmd = "mono_blit",
   stretch |-> IF o.cmd = "stretchblt" THEN <<o.srcs, o.dst>> ELSE <<>>,
   blend |-> {o.blend}]

\* What a description asks for and viv2d_op_exec does not look at: the color of a
\* line or of a mono blit, and how, not whether, a multi-source blit is blended.
Dropped(o) ==
  {f \in {"color", "blend"} :
     \/ f = "color" /\ o.cmd \in {"line", "mono_blit"}
     \/ f = "blend" /\ o.cmd = "multsrcblt" /\ o.blend \notin {"off", "over"}}

\* The writes to r before item k.
WritesTo(items, k, r) == {i \in 1 .. k - 1 : items[i].reg = r}

\* The registers when the front end has come to item k, having begun with g: what
\* was written last counts.
RegsAt(g, items, k) ==
  [r \in Registers |->
     IF WritesTo(items, k, r) = {} THEN g[r] ELSE items[Max(WritesTo(items, k, r))].val]

\* The draws of the oldest job, were the GPU to run it now: each with the registers
\* as it finds them.
Drawn ==
  IF jobs = <<>> THEN {}
  ELSE LET items == Head(jobs).items
       IN  {[op |-> items[k].val, whole |-> items[k].whole, regs |-> RegsAt(regs, items, k)] :
              k \in {j \in 1 .. Len(items) : items[j].reg = "DRAW_2D"}}

\* The GPU runs the oldest job.
RunJob ==
  /\ jobs # <<>>
  /\ regs' = RegsAt(regs, Head(jobs).items, Len(Head(jobs).items) + 1)
  /\ jobs' = Tail(jobs)
  /\ UNCHANGED <<client, stream, seqno, disturbed>>

\* A job of another process runs between two of ours: no register is saved.
ForeignJob ==
  /\ regs' = [r \in Registers |-> Stale]
  /\ disturbed' = TRUE
  /\ UNCHANGED <<client, stream, seqno, jobs>>

Client ==
  \/ \E cmd \in Cmds, dst \in Surfaces : \E srcs \in Sources(cmd) : OpNew(cmd, srcs, dst)
  \/ OpAddRect \/ OpSetClipRect \/ OpSetPatFill \/ OpDel
  \/ \E c \in Colors : OpSetColor(c)
  \/ \E b \in Blends : OpSetBlend(b)
  \/ \E n \in 0 .. MaxData : OpSetData(n)
  \/ ExecBegin \/ Flush \/ Commit

Next ==
  \/ Client
  \/ Emit \/ FlushAndEmit \/ ExecReturn
  \/ CommitReturn
  \/ RunJob \/ ForeignJob

Spec == Init /\ [][Next]_vars

-------------------------------------------------------------------------------
Pcs == {"idle", "exec", "wait"}

Op ==
  [cmd : Cmds, srcs : UNION {Sources(cmd) : cmd \in Cmds}, dst : Surfaces,
   rects : 0 .. MaxRects, clip : {"dst", "rect"}, color : Colors,
   rop : {"source", "pattern"}, pat_fill : BOOLEAN, blend : {"off"} \cup Blends,
   data : 0 .. MaxData]

Drawable == {o \in Op : o.rects > 0}

\* The values of every variable; what is executed draws at least one rectangle
\* (viv2d.c:375-377).
TypeOK ==
  /\ op \in Op \cup {NoOp}
  /\ pc \in Pcs
  /\ pc = "exec" => op \in Drawable
  /\ \A i \in 1 .. Len(todo) : todo[i].reg \in Registers \cup {"DRAW_2D"}
  /\ \A i \in 1 .. Len(batch) : batch[i].reg \in Registers \cup {"DRAW_2D"}
  /\ cut \in BOOLEAN /\ disturbed \in BOOLEAN
  /\ offset \in 0 .. Size
  /\ executed \in 0 .. MaxOps
  /\ last_timestamp \in 0 .. FenceMod - 1 /\ seqno \in 0 .. FenceMod - 1
  /\ \A i \in 1 .. Len(jobs) :
       jobs[i].fence \in 0 .. FenceMod - 1 /\ jobs[i].bos \subseteq Surfaces
  /\ DOMAIN regs = Registers

\* A draw does what its operation asks for, whatever was drawn before it and
\* wherever the stream was cut, in everything but what viv2d_op_exec drops: the
\* color of a line (viv2d.c:600-622) and of a mono blit (viv2d.c:587-588), see
\* LinesAndTextHaveTheirColor, and the mode of a multi-source blit that is not
\* blended over (viv2d.c:512-515).  Every other register a draw depends on is
\* set or reset.  A job that was refused, or another process's job, may have taken
\* away what a cut operation wrote before; an operation whose writes are all in one
\* batch (viv2d.c:407-704) is right even then.
DrawsAsAsked ==
  \A d \in Drawn : d.whole \/ ~disturbed =>
    \A f \in DOMAIN Asked(d.op) \ Dropped(d.op) : Effect(d.regs)[f] = Asked(d.op)[f]

\* No write leaves the buffer or enters the words kept for the kernel's LINK,
\* odd data and ETNA_ALIGN included (viv2d.c:677-697, etnaviv.c:294-295).
BufferNotOverrun == offset + END_CLEARANCE <= Size

\* When the fence that viv2d_commit waits for is signalled, nothing this client
\* has drawn is left to run (etnaviv.c:449-456), however many jobs its operations
\* were cut into and whether or not the last one was refused.
CommitSeesDraws == pc = "wait" /\ Signalled(last_timestamp) => jobs = <<>>

Draws(items) == {items[i] : i \in {j \in 1 .. Len(items) : items[j].reg = "DRAW_2D"}}

\* A job lists the surfaces its draws use, when the draw's writes are all in it:
\* the kernel keeps them resident and orders other users behind the job.
WholeOpsAreSynced ==
  \A i \in 1 .. Len(jobs) : \A d \in Draws(jobs[i].items) :
    d.whole => {d.val.dst} \cup Range(d.val.srcs) \subseteq jobs[i].bos

\* "The normal way to synchronize with the GPU is just to CPU_PREP on a buffer"
\* (etnaviv_drm.h:180): when no job lists a surface, none draws into it.  Not so
\* for a draw that was cut from the write of its destination.
PrepSeesDraws ==
  ~disturbed => \A s \in Surfaces :
    (\A i \in 1 .. Len(jobs) : s \notin jobs[i].bos)
      => \A i \in 1 .. Len(jobs) : \A d \in Draws(jobs[i].items) : d.val.dst # s

\* A line and the text of a mono blit are drawn in the color the client gave them
\* (test_viv2d.c:104-105 and 499): some register their color may come from holds
\* it when the draw runs.
LinesAndTextHaveTheirColor ==
  \A d \in Drawn : d.op.cmd \in {"line", "mono_blit"} /\ d.whole
    => d.op.color \in Effect(d.regs).color
===============================================================================

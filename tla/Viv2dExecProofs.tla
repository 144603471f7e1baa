---------------------------- MODULE Viv2dExecProofs ----------------------------
(***************************************************************************)
(* What is proved of Viv2dExec, for every set of surfaces, commands and    *)
(* colors, every buffer size and every number of jobs and operations.      *)
(***************************************************************************)
EXTENDS Viv2dExec, WellFoundedInduction, TLAPS

-------------------------------------------------------------------------------
(***************************************************************************)
(* The fence of viv2d_commit.                                              *)
(***************************************************************************)

\* The fence the stream remembers is that of the newest job.
FencesInv ==
  /\ jobs \in Seq(Range(jobs))
  /\ jobs # <<>> => jobs[Len(jobs)].fence = last_timestamp

\* A sequence is one over its own values.
LEMMA SeqOverRange ==
  ASSUME NEW S, NEW q \in Seq(S)
  PROVE  q \in Seq(Range(q))
BY DEF Range

\* What RunJob and Submit do to the queue leaves it a queue.
LEMMA QueueKept ==
  ASSUME NEW q, q \in Seq(Range(q))
  PROVE  /\ \A e : Append(q, e) \in Seq(Range(Append(q, e)))
         /\ \A e : Append(q, e)[Len(Append(q, e))] = e
         /\ q # <<>> => /\ Tail(q) \in Seq(Range(Tail(q)))
                        /\ Tail(q) # <<>> => Tail(q)[Len(Tail(q))] = q[Len(q)]
<1>1. ASSUME NEW e
      PROVE  /\ Append(q, e) \in Seq(Range(Append(q, e)))
             /\ Append(q, e)[Len(Append(q, e))] = e
  <2>1. q \in Seq(Range(q) \cup {e})
    OBVIOUS
  <2>2. Append(q, e) \in Seq(Range(q) \cup {e})
    BY <2>1
  <2>3. Append(q, e)[Len(Append(q, e))] = e
    BY <2>1
  <2>. QED BY <2>2, <2>3, SeqOverRange
<1>2. ASSUME q # <<>>
      PROVE  /\ Tail(q) \in Seq(Range(Tail(q)))
             /\ Tail(q) # <<>> => Tail(q)[Len(Tail(q))] = q[Len(q)]
  <2>1. Tail(q) \in Seq(Range(q))
    BY <1>2
  <2>2. Tail(q) # <<>> => Tail(q)[Len(Tail(q))] = q[Len(q)]
    BY <1>2, <2>1
  <2>. QED BY <2>1, <2>2, SeqOverRange
<1>. QED BY <1>1, <1>2

\* A submit leaves the remembered fence at the newest job's.
LEMMA SubmitKeepsFences ==
  ASSUME FencesInv, NEW items, Submit(items)
  PROVE  FencesInv'
<1>1. CASE SubmitAccepted(items)
  <2>. DEFINE job == [fence |-> seqno', items |-> items, bos |-> Table(items)]
  <2>1. jobs' = Append(jobs, job) /\ last_timestamp' = job.fence
    BY <1>1 DEF SubmitAccepted
  <2>. HIDE DEF job
  <2>2. jobs' \in Seq(Range(jobs')) /\ jobs'[Len(jobs')] = job
    BY <2>1, QueueKept DEF FencesInv
  <2>. QED BY <2>1, <2>2 DEF FencesInv
<1>2. CASE SubmitRefused
  BY <1>2 DEF SubmitRefused, FencesInv
<1>. QED BY <1>1, <1>2 DEF Submit

\* Nothing is queued at the start.
LEMMA FencesInit == Init => FencesInv
<1>. SUFFICES ASSUME Init PROVE FencesInv
  OBVIOUS
<1>1. jobs = <<>>
  BY DEF Init
<1>2. jobs \in Seq({})
  BY <1>1
<1>. QED BY <1>1, <1>2, SeqOverRange DEF FencesInv

\* Submits and the GPU keep the newest job's fence the remembered one; nothing
\* else touches the queue.
LEMMA FencesNext == FencesInv /\ [Next]_vars => FencesInv'
<1>. SUFFICES ASSUME FencesInv, [Next]_vars PROVE FencesInv'
  OBVIOUS
<1>1. CASE jobs' = jobs /\ last_timestamp' = last_timestamp
  BY <1>1 DEF FencesInv
<1>2. CASE Client
  <2>1. CASE \/ \E cmd \in Cmds, dst \in Surfaces : \E srcs \in Sources(cmd) : OpNew(cmd, srcs, dst)
             \/ OpAddRect \/ OpSetClipRect \/ OpSetPatFill \/ OpDel
             \/ \E c \in Colors : OpSetColor(c)
             \/ \E b \in Blends : OpSetBlend(b)
             \/ \E n \in 0 .. MaxData : OpSetData(n)
             \/ ExecBegin
    BY <2>1, <1>1 DEF OpNew, OpAddRect, OpSetClipRect, OpSetBlend, OpSetPatFill, OpDel,
                     OpSetColor, OpSetData, ExecBegin, Edit, stream
  <2>2. CASE Flush \/ Commit
    BY <2>2, SubmitKeepsFences DEF Flush, Commit, FlushTo
  <2>. QED BY <1>2, <2>1, <2>2 DEF Client
<1>3. CASE Emit \/ ExecReturn \/ CommitReturn \/ ForeignJob \/ UNCHANGED vars
  BY <1>3, <1>1 DEF Emit, ExecReturn, CommitReturn, ForeignJob, vars, stream
<1>4. CASE FlushAndEmit
  BY <1>4, SubmitKeepsFences DEF FlushAndEmit
<1>5. CASE RunJob
  <2>1. jobs # <<>> /\ jobs' = Tail(jobs) /\ last_timestamp' = last_timestamp
    BY <1>5 DEF RunJob, stream
  <2>. QED BY <2>1, QueueKept DEF FencesInv
<1>. QED BY <1>2, <1>3, <1>4, <1>5 DEF Next

\* When the fence that viv2d_commit waits for is signalled, every job of this
\* client has run (etnaviv.c:449-456), whatever the fences are counted modulo.
THEOREM CommitIsSound == Spec => []CommitSeesDraws
<1>1. FencesInv => CommitSeesDraws
  <2>. SUFFICES ASSUME FencesInv, Signalled(last_timestamp), jobs # <<>> PROVE FALSE
    BY DEF CommitSeesDraws
  <2>1. Len(jobs) \in 1 .. Len(jobs)
    BY DEF FencesInv
  <2>. QED BY <2>1 DEF FencesInv, Signalled
<1>. QED BY FencesInit, FencesNext, <1>1, PTL DEF Spec

-------------------------------------------------------------------------------
(***************************************************************************)
(* The room of the buffer.                                                 *)
(***************************************************************************)

\* What a draw carries is an operation with at least one rectangle.
DrawsDrawable(w) == w.reg = "DRAW_2D" => w.val \in Drawable

IsProgram(q) == q \in Seq(Range(q)) /\ \A w \in Range(q) : DrawsDrawable(w)

\* The words of the buffer come in pairs, and what is still to be emitted fits an
\* empty buffer.
RoomInv ==
  /\ op \in Op \cup {NoOp}
  /\ IsProgram(todo)
  /\ offset \in Nat /\ offset % 2 = 0
  /\ offset + END_CLEARANCE <= Size

\* The buffer has an even number of words.
LEMMA SizeEven == Size \in Nat /\ Size >= SizeArg /\ Size % 2 = 0
BY Viv2dExecAssumption, SMT DEF Size, Align

\* What reserve asks for is what is emitted, up to a word of padding.
LEMMA ItemFits ==
  ASSUME NEW w, DrawsDrawable(w), NEW off \in Nat, off % 2 = 0,
         off + Need(w) + END_CLEARANCE <= Size
  PROVE  /\ Behind(off, w) \in Nat /\ Behind(off, w) % 2 = 0
         /\ Behind(off, w) + END_CLEARANCE <= Size
<1>1. CASE w.reg = "DRAW_2D"
  <2>. DEFINE r == w.val.rects  d == w.val.data
  <2>1. r \in Nat /\ d \in Nat
    BY <1>1, Viv2dExecAssumption DEF DrawsDrawable, Drawable, Op
  <2>2. Need(w) = 2 * r + d + 2 /\ Behind(off, w) = Align(Align(off + 2 + 2 * r) + d)
    BY <1>1 DEF Need, Behind
  <2>. HIDE DEF r, d
  <2>3. Align(off + 2 + 2 * r) = off + 2 + 2 * r
    BY <2>1, SMT DEF Align
  <2>4. Align(off + 2 + 2 * r + d) \in Nat /\ Align(off + 2 + 2 * r + d) % 2 = 0
    BY <2>1, SMT DEF Align
  <2>5. Align(off + 2 + 2 * r + d) + END_CLEARANCE <= Size
    BY <2>1, <2>2, SizeEven, SMT DEF Align, END_CLEARANCE
  <2>. QED BY <2>2, <2>3, <2>4, <2>5
<1>2. CASE w.reg # "DRAW_2D"
  <2>1. Need(w) = 2 /\ Behind(off, w) = off + 2
    BY <1>2 DEF Need, Behind
  <2>. QED BY <2>1, SizeEven, SMT DEF END_CLEARANCE
<1>. QED BY <1>1, <1>2

\* No item asks for more than an empty buffer has.
LEMMA ItemFitsEmpty ==
  ASSUME NEW w, DrawsDrawable(w)
  PROVE  Need(w) \in Nat /\ 0 + Need(w) + END_CLEARANCE <= Size
<1>1. CASE w.reg = "DRAW_2D"
  <2>1. w.val.rects \in 0 .. MaxRects /\ w.val.data \in 0 .. MaxData
    BY <1>1 DEF DrawsDrawable, Drawable, Op
  <2>2. Need(w) = 2 * w.val.rects + w.val.data + 2
    BY <1>1 DEF Need
  <2>. QED BY <2>1, <2>2, SizeEven, Viv2dExecAssumption, SMT DEF END_CLEARANCE
<1>2. CASE w.reg # "DRAW_2D"
  <2>1. Need(w) = 2
    BY <1>2 DEF Need
  <2>. QED BY <2>1, SizeEven, Viv2dExecAssumption, SMT DEF END_CLEARANCE
<1>. QED BY <1>1, <1>2

\* The sources of an operation.
LEMMA SrcsType ==
  ASSUME NEW o \in Op
  PROVE  o.srcs \in Seq(Surfaces) /\ Len(o.srcs) \in 0 .. 2
<1>1. PICK cmd \in Cmds : o.srcs \in Sources(cmd)
  BY DEF Op
<1>2. CASE o.srcs = <<>>
  BY <1>2
<1>3. CASE \E s \in Surfaces : o.srcs = <<s>>
  BY <1>3
<1>4. CASE \E s, t \in Surfaces : o.srcs = <<s, t>>
  BY <1>4
<1>. QED BY <1>1, <1>2, <1>3, <1>4 DEF Sources

\* Programs are closed under concatenation.
LEMMA ConcatProgram ==
  ASSUME NEW p, NEW q, IsProgram(p), IsProgram(q)
  PROVE  IsProgram(p \o q)
<1>1. p \in Seq(Range(p) \cup Range(q)) /\ q \in Seq(Range(p) \cup Range(q))
  BY DEF IsProgram
<1>2. p \o q \in Seq(Range(p) \cup Range(q))
  BY <1>1
<1>3. \A w \in Range(p \o q) : w \in Range(p) \cup Range(q)
  BY <1>2 DEF Range
<1>. QED BY <1>2, <1>3, SeqOverRange DEF IsProgram

\* One write is a program.
LEMMA WriteProgram ==
  ASSUME NEW reg, NEW val, reg = "DRAW_2D" => val \in Drawable
  PROVE  IsProgram(W(reg, val))
<1>. DEFINE w == [reg |-> reg, val |-> val]
<1>1. DrawsDrawable(w)
  BY DEF DrawsDrawable
<1>. HIDE DEF w
<1>2. <<w>> \in Seq({w}) /\ Range(<<w>>) = {w}
  BY DEF Range
<1>3. W(reg, val) = <<w>>
  BY DEF W, w
<1>. QED BY <1>1, <1>2, <1>3, SeqOverRange DEF IsProgram

\* A write that may be left out is a program.
LEMMA WhenProgram ==
  ASSUME NEW cond, NEW q, IsProgram(q)
  PROVE  IsProgram(When(cond, q))
<1>1. IsProgram(<<>>)
  <2>1. <<>> \in Seq({}) /\ Range(<<>>) = {}
    BY DEF Range
  <2>. QED BY <2>1 DEF IsProgram
<1>. QED BY <1>1 DEF When

\* Whatever the command, its source registers are a program.
LEMMA SourceWritesProgram ==
  ASSUME NEW o \in Op
  PROVE  IsProgram(SourceWrites(o))
<1>1. o.srcs \in Seq(Surfaces) /\ Len(o.srcs) \in 0 .. 2
  BY SrcsType
<1>2. CASE o.cmd = "multsrcblt"
  <2>0. \A n \in 0 .. 2 : \A i \in 1 .. n : i = 1 \/ i = 2
    BY SMT
  <2>. DEFINE val(i) == [src |-> o.srcs[i], blend |-> BlockBlend(o)]
              write(i) == [reg |-> Blocks[i], val |-> val(i)]
              writes == [i \in 1 .. Len(o.srcs) |-> write(i)]
  <2>1. ASSUME NEW i \in 1 .. Len(o.srcs) PROVE DrawsDrawable(write(i))
    <3>1. i = 1 \/ i = 2
      BY <1>1, <2>0
    <3>2. Blocks[i] # "DRAW_2D"
      BY <3>1 DEF Blocks
    <3>. HIDE DEF val
    <3>3. write(i).reg # "DRAW_2D"
      BY <3>2
    <3>. QED BY <3>3 DEF DrawsDrawable
  <2>. HIDE DEF write
  <2>2. writes \in Seq({write(i) : i \in 1 .. Len(o.srcs)})
    BY <1>1
  <2>3. \A w \in Range(writes) : DrawsDrawable(w)
    BY <2>1 DEF Range
  <2>4. IsProgram(writes)
    BY <2>2, <2>3, SeqOverRange DEF IsProgram
  <2>. HIDE DEF writes
  <2>5. IsProgram(W("MULTI_SOURCE", Len(o.srcs) - 1))
    BY WriteProgram
  <2>6. SourceWrites(o) = writes \o W("MULTI_SOURCE", Len(o.srcs) - 1)
    BY <1>2 DEF SourceWrites, writes, write
  <2>. QED BY <2>4, <2>5, <2>6, ConcatProgram
<1>3. CASE o.cmd # "multsrcblt" /\ o.srcs # <<>>
  <2>1. IsProgram(W("SRC_ADDRESS", o.srcs[1])) /\ IsProgram(W("SRC_CONFIG", "MEMORY"))
    BY WriteProgram
  <2>2. SourceWrites(o) = W("SRC_ADDRESS", o.srcs[1]) \o W("SRC_CONFIG", "MEMORY")
    BY <1>3 DEF SourceWrites
  <2>. QED BY <2>1, <2>2, ConcatProgram
<1>4. CASE o.cmd # "multsrcblt" /\ o.srcs = <<>>
  <2>1. /\ IsProgram(W("SRC_CONFIG", "STREAM")) /\ IsProgram(W("SRC_COLOR", White))
        /\ IsProgram(W("SRC_CONFIG", "NONE"))
    BY WriteProgram
  <2>2. SourceWrites(o) \in {W("SRC_CONFIG", "STREAM") \o W("SRC_COLOR", White),
                             W("SRC_CONFIG", "NONE")}
    BY <1>4 DEF SourceWrites
  <2>. QED BY <2>1, <2>2, ConcatProgram
<1>. QED BY <1>2, <1>3, <1>4

\* An operation with a rectangle is emitted as items the buffer has room for.
LEMMA ProgramOfDrawable ==
  ASSUME NEW o \in Drawable
  PROVE  IsProgram(Program(o))
<1>. DEFINE dest == W("DEST_ADDRESS", o.dst)
            config == W("DEST_CONFIG", [command |-> Command(o.cmd), clip |-> o.clip])
            stretch == When(o.cmd = "stretchblt", W("STRETCH", <<o.srcs, o.dst>>))
            pattern == When(o.pat_fill, W("PATTERN", o.color))
            rop == When(o.cmd # "multsrcblt", W("ROP", o.rop))
            clear == When(o.cmd \in {"clear", "mono_blit"}, W("CLEAR", o.color))
            draw == W("DRAW_2D", o)
            flush == W("FLUSH_CACHE", "PE2D")
<1>1. IsProgram(dest) /\ IsProgram(config) /\ IsProgram(draw) /\ IsProgram(flush)
  BY WriteProgram
<1>2. IsProgram(stretch)
  BY WriteProgram, WhenProgram
<1>3. IsProgram(pattern)
  BY WriteProgram, WhenProgram
<1>4. IsProgram(rop)
  BY WriteProgram, WhenProgram
<1>5. IsProgram(clear)
  BY WriteProgram, WhenProgram
<1>6. IsProgram(AlphaWrites(o))
  BY WriteProgram, WhenProgram DEF AlphaWrites
<1>7. IsProgram(SourceWrites(o))
  BY SourceWritesProgram DEF Drawable
<1>8. Program(o) = (dest \o config) \o SourceWrites(o) \o stretch \o pattern \o rop \o clear
                   \o AlphaWrites(o) \o draw \o flush
  BY DEF Program, Setup, DestWrites
<1>. HIDE DEF dest, config, stretch, pattern, rop, clear, draw, flush
<1>. QED BY <1>1, <1>2, <1>3, <1>4, <1>5, <1>6, <1>7, <1>8, ConcatProgram

\* viv2d_op_exec gives an operation without rectangles one (viv2d.c:375-377).
LEMMA PreparedIsDrawable ==
  ASSUME NEW o \in Op
  PROVE  Prepared(o) \in Drawable
<1>. DEFINE rects == IF o.rects = 0 THEN 1 ELSE o.rects
            rop == IF o.pat_fill THEN "pattern" ELSE o.rop
<1>1. rects \in 0 .. MaxRects /\ rects > 0
  BY Viv2dExecAssumption DEF Op
<1>2. rop \in {"source", "pattern"}
  BY DEF Op
<1>3. Prepared(o) = [o EXCEPT !.rects = rects, !.rop = rop]
  BY DEF Prepared, Op
<1>. HIDE DEF rects, rop
<1>4. Prepared(o) \in Op /\ Prepared(o).rects = rects
  BY <1>1, <1>2, <1>3 DEF Op
<1>. QED BY <1>1, <1>4 DEF Drawable

\* What is left of a program is one.
LEMMA TailProgram ==
  ASSUME NEW q, IsProgram(q), q # <<>>
  PROVE  DrawsDrawable(Head(q)) /\ IsProgram(Tail(q))
<1>1. Head(q) \in Range(q) /\ Tail(q) \in Seq(Range(q))
  BY DEF IsProgram, Range
<1>2. \A w \in Range(Tail(q)) : w \in Range(q)
  BY <1>1 DEF Range
<1>. QED BY <1>1, <1>2, SeqOverRange DEF IsProgram

\* The empty buffer has room.
LEMMA RoomInit == Init => RoomInv
<1>. SUFFICES ASSUME Init PROVE RoomInv
  OBVIOUS
<1>1. IsProgram(<<>>)
  <2>1. <<>> \in Seq({}) /\ Range(<<>>) = {}
    BY DEF Range
  <2>. QED BY <2>1 DEF IsProgram
<1>2. op = NoOp /\ todo = <<>> /\ offset = 0
  BY DEF Init
<1>3. 0 \in Nat /\ 0 % 2 = 0 /\ 0 + END_CLEARANCE <= Size
  BY SizeEven, Viv2dExecAssumption, SMT DEF END_CLEARANCE
<1>. QED BY <1>1, <1>2, <1>3 DEF RoomInv

\* Every setter leaves an operation.
LEMMA EditType ==
  ASSUME op \in Op \cup {NoOp},
         \/ OpAddRect \/ OpSetClipRect \/ OpSetPatFill
         \/ \E c \in Colors : OpSetColor(c)
         \/ \E b \in Blends : OpSetBlend(b)
         \/ \E n \in 0 .. MaxData : OpSetData(n)
  PROVE  op' \in Op /\ UNCHANGED <<todo, offset>>
<1>. USE DEF Edit, stream
<1>1. CASE OpAddRect
  <2>1. op \in Op /\ op.rects + 1 \in 0 .. MaxRects
    BY <1>1, Viv2dExecAssumption DEF OpAddRect, Op
  <2>2. op' = [op EXCEPT !.rects = op.rects + 1] /\ UNCHANGED <<todo, offset>>
    BY <1>1 DEF OpAddRect
  <2>. QED BY <2>1, <2>2 DEF Op
<1>2. CASE OpSetClipRect
  BY <1>2 DEF OpSetClipRect, Op
<1>3. CASE \E b \in Blends : OpSetBlend(b)
  BY <1>3 DEF OpSetBlend, Op
<1>4. CASE OpSetPatFill
  BY <1>4 DEF OpSetPatFill, Op
<1>5. CASE \E c \in Colors : OpSetColor(c)
  BY <1>5 DEF OpSetColor, Op
<1>6. CASE \E n \in 0 .. MaxData : OpSetData(n)
  BY <1>6 DEF OpSetData, Op
<1>. QED BY <1>1, <1>2, <1>3, <1>4, <1>5, <1>6

\* Every step keeps it so: emitting uses what reserve has made sure of, a flush
\* starts from an empty buffer.
LEMMA RoomNext == RoomInv /\ [Next]_vars => RoomInv'
<1>. SUFFICES ASSUME RoomInv, [Next]_vars PROVE RoomInv'
  OBVIOUS
<1>0. 0 \in Nat /\ 0 % 2 = 0
  BY SMT
<1>1. CASE Client
  <2>1. CASE \E cmd \in Cmds, dst \in Surfaces : \E srcs \in Sources(cmd) : OpNew(cmd, srcs, dst)
    <3>1. PICK cmd \in Cmds, dst \in Surfaces : \E srcs \in Sources(cmd) : OpNew(cmd, srcs, dst)
      BY <2>1
    <3>2. PICK srcs \in Sources(cmd) : OpNew(cmd, srcs, dst)
      BY <3>1
    <3>3. srcs \in UNION {Sources(c) : c \in Cmds}
      BY <3>2
    <3>4. op' \in Op
      BY <3>2, <3>3, Viv2dExecAssumption DEF OpNew, Op
    <3>5. UNCHANGED <<todo, offset>>
      BY <3>2 DEF OpNew, stream
    <3>. QED BY <3>4, <3>5 DEF RoomInv
  <2>2. CASE \/ OpAddRect \/ OpSetClipRect \/ OpSetPatFill
             \/ \E c \in Colors : OpSetColor(c)
             \/ \E b \in Blends : OpSetBlend(b)
             \/ \E n \in 0 .. MaxData : OpSetData(n)
    <3>1. op' \in Op /\ UNCHANGED <<todo, offset>>
      BY <2>2, EditType DEF RoomInv
    <3>. QED BY <3>1 DEF RoomInv
  <2>3. CASE OpDel
    BY <2>3 DEF OpDel, RoomInv, stream
  <2>4. CASE ExecBegin
    <3>1. op \in Op /\ op' = Prepared(op) /\ todo' = Program(op') /\ offset' = offset
      BY <2>4 DEF ExecBegin, RoomInv, stream
    <3>2. op' \in Drawable
      BY <3>1, PreparedIsDrawable
    <3>3. IsProgram(todo')
      BY <3>1, <3>2, ProgramOfDrawable
    <3>. QED BY <3>1, <3>2, <3>3 DEF RoomInv, Drawable
  <2>5. CASE Flush \/ Commit
    BY <2>5, <1>0, RoomInit, SizeEven, Viv2dExecAssumption DEF Flush, Commit, FlushTo, RoomInv, END_CLEARANCE
  <2>. QED BY <1>1, <2>1, <2>2, <2>3, <2>4, <2>5 DEF Client
<1>2. CASE Emit
  <2>1. /\ todo # <<>> /\ todo' = Tail(todo) /\ op' = op
        /\ Fits(Head(todo)) /\ offset' = Behind(offset, Head(todo))
    BY <1>2 DEF Emit, Emitted
  <2>2. DrawsDrawable(Head(todo)) /\ IsProgram(todo')
    BY <2>1, TailProgram DEF RoomInv
  <2>3. offset + Need(Head(todo)) + END_CLEARANCE <= Size
    <3>1. Need(Head(todo)) \in Nat
      BY <2>2, ItemFitsEmpty
    <3>2. Avail >= Need(Head(todo))
      BY <2>1 DEF Fits
    <3>. QED BY <3>1, <3>2, SizeEven, SMT DEF Avail, END_CLEARANCE, RoomInv
  <2>4. /\ offset' \in Nat /\ offset' % 2 = 0
        /\ offset' + END_CLEARANCE <= Size
    BY <2>1, <2>2, <2>3, ItemFits DEF RoomInv
  <2>. QED BY <2>1, <2>2, <2>4 DEF RoomInv
<1>3. CASE FlushAndEmit
  <2>1. /\ todo # <<>> /\ todo' = Tail(todo) /\ op' = op
        /\ offset' = Behind(0, Head(todo))
    BY <1>3 DEF FlushAndEmit, Emitted
  <2>2. DrawsDrawable(Head(todo)) /\ IsProgram(todo')
    BY <2>1, TailProgram DEF RoomInv
  <2>3. /\ offset' \in Nat /\ offset' % 2 = 0
        /\ offset' + END_CLEARANCE <= Size
    BY <1>0, <2>1, <2>2, ItemFits, ItemFitsEmpty
  <2>. QED BY <2>1, <2>2, <2>3 DEF RoomInv
<1>4. CASE ExecReturn \/ CommitReturn \/ RunJob \/ ForeignJob \/ UNCHANGED vars
  <2>1. UNCHANGED <<op, todo, offset>>
    BY <1>4 DEF ExecReturn, CommitReturn, RunJob, ForeignJob, vars, client, stream
  <2>. QED BY <2>1 DEF RoomInv
<1>. QED BY <1>1, <1>2, <1>3, <1>4 DEF Next

\* viv2d_op_exec never writes behind the buffer nor into the words kept for the
\* kernel's LINK (viv2d.c:677-697), whatever the size asked for, as long as one
\* draw fits at all.
THEOREM BufferIsNotOverrun == Spec => []BufferNotOverrun
<1>1. RoomInv => BufferNotOverrun
  BY DEF RoomInv, BufferNotOverrun
<1>. QED BY RoomInit, RoomNext, <1>1, PTL DEF Spec

-------------------------------------------------------------------------------
(***************************************************************************)
(* What viv2d_op_exec writes: every register once, DEST_ADDRESS first.     *)
(***************************************************************************)

\* Writes to different registers, all among R.
Over(q, R) ==
  /\ q \in Seq(Range(q))
  /\ \A i \in 1 .. Len(q) : q[i].reg \in R
  /\ \A i, j \in 1 .. Len(q) : q[i].reg = q[j].reg => i = j

\* One write.
LEMMA OverWrite ==
  ASSUME NEW reg, NEW val
  PROVE  Over(W(reg, val), {reg}) /\ Range(W(reg, val)) = {[reg |-> reg, val |-> val]}
<1>. DEFINE w == [reg |-> reg, val |-> val]
<1>1. w.reg = reg
  OBVIOUS
<1>. HIDE DEF w
<1>2. W(reg, val) = <<w>>
  BY DEF W, w
<1>3. <<w>> \in Seq({w}) /\ Len(<<w>>) = 1 /\ <<w>>[1] = w /\ Range(<<w>>) = {w}
  BY DEF Range
<1>. QED BY <1>1, <1>2, <1>3 DEF Over, w

\* No write.
LEMMA OverNothing == Over(<<>>, {}) /\ Range(<<>>) = {}
BY SeqOverRange DEF Over, Range

\* Writes to some registers and then to others.
LEMMA OverConcat ==
  ASSUME NEW p, NEW P, NEW q, NEW Q, Over(p, P), Over(q, Q), P \cap Q = {}
  PROVE  Over(p \o q, P \cup Q) /\ Range(p \o q) = Range(p) \cup Range(q)
<1>. DEFINE S == Range(p) \cup Range(q)
            pq == p \o q
<1>1. p \in Seq(S) /\ q \in Seq(S)
  BY DEF Over
<1>2. /\ pq \in Seq(S) /\ Len(pq) = Len(p) + Len(q)
      /\ \A i \in 1 .. Len(p) : pq[i] = p[i]
      /\ \A i \in 1 .. Len(q) : pq[Len(p) + i] = q[i]
      /\ \A i \in 1 .. Len(pq) :
           \/ i \in 1 .. Len(p) /\ pq[i] = p[i]
           \/ i - Len(p) \in 1 .. Len(q) /\ pq[i] = q[i - Len(p)]
      /\ Len(p) \in Nat /\ Len(q) \in Nat
  BY <1>1
<1>. HIDE DEF pq, S
<1>3. pq \in Seq(Range(pq))
  BY <1>2, SeqOverRange
<1>4. \A i \in 1 .. Len(pq) : pq[i].reg \in P \cup Q
  BY <1>2 DEF Over
<1>5. ASSUME NEW i \in 1 .. Len(pq), NEW j \in 1 .. Len(pq), pq[i].reg = pq[j].reg
      PROVE  i = j
  <2>1. CASE i \in 1 .. Len(p) /\ j \in 1 .. Len(p)
    BY <1>2, <1>5, <2>1 DEF Over
  <2>2. CASE i \notin 1 .. Len(p) /\ j \notin 1 .. Len(p)
    <3>1. /\ i - Len(p) \in 1 .. Len(q) /\ pq[i] = q[i - Len(p)]
          /\ j - Len(p) \in 1 .. Len(q) /\ pq[j] = q[j - Len(p)]
      BY <1>2, <2>2
    <3>2. i - Len(p) = j - Len(p)
      BY <1>5, <3>1 DEF Over
    <3>. QED BY <1>2, <3>2
  <2>3. CASE i \in 1 .. Len(p) /\ j \notin 1 .. Len(p)
    <3>1. pq[i].reg \in P /\ pq[j].reg \in Q
      BY <1>2, <2>3 DEF Over
    <3>. QED BY <1>5, <3>1
  <2>4. CASE i \notin 1 .. Len(p) /\ j \in 1 .. Len(p)
    <3>1. pq[i].reg \in Q /\ pq[j].reg \in P
      BY <1>2, <2>4 DEF Over
    <3>. QED BY <1>5, <3>1
  <2>. QED BY <2>1, <2>2, <2>3, <2>4
<1>6. Range(pq) = Range(p) \cup Range(q)
  <2>1. DOMAIN p = 1 .. Len(p) /\ DOMAIN q = 1 .. Len(q) /\ DOMAIN pq = 1 .. Len(pq)
    BY <1>1, <1>2
  <2>2. \A i \in 1 .. Len(q) : Len(p) + i \in 1 .. Len(pq)
    BY <1>2
  <2>3. \A i \in 1 .. Len(p) : i \in 1 .. Len(pq)
    BY <1>2
  <2>. QED BY <1>2, <2>1, <2>2, <2>3 DEF Range
<1>. QED BY <1>3, <1>4, <1>5, <1>6 DEF Over, pq

\* What comes first stays first.
LEMMA FirstOfConcat ==
  ASSUME NEW S, NEW p \in Seq(S), NEW q \in Seq(S), Len(p) >= 1
  PROVE  p \o q \in Seq(S) /\ Len(p \o q) >= 1 /\ (p \o q)[1] = p[1]
OBVIOUS

\* More registers than are written may be named.
LEMMA OverMore ==
  ASSUME NEW q, NEW R, NEW S, Over(q, R), R \subseteq S
  PROVE  Over(q, S)
BY DEF Over

SourceRegisters == {"SRC_ADDRESS", "SRC_CONFIG", "SRC_COLOR", "MULTI_SOURCE"} \cup Range(Blocks)

\* The blocks are four different registers.
LEMMA BlocksDistinct ==
  /\ Range(Blocks) = {"BLOCK8_0", "BLOCK8_1", "BLOCK8_2", "BLOCK8_3"}
  /\ Blocks[1] = "BLOCK8_0" /\ Blocks[2] = "BLOCK8_1"
<1>1. DOMAIN Blocks = {1, 2, 3, 4}
  BY DEF Blocks
<1>. QED BY <1>1 DEF Blocks, Range

\* The write of a block of a multi-source blit.
BlockWrite(o, i) == [reg |-> Blocks[i], val |-> [src |-> o.srcs[i], blend |-> BlockBlend(o)]]

\* The source registers an operation writes: nothing twice.
LEMMA SourceWritesShape ==
  ASSUME NEW o \in Op
  PROVE  /\ Over(SourceWrites(o), SourceRegisters)
         /\ o.cmd = "multsrcblt" =>
              Range(SourceWrites(o)) =
                {BlockWrite(o, i) : i \in 1 .. Len(o.srcs)}
                  \cup {[reg |-> "MULTI_SOURCE", val |-> Len(o.srcs) - 1]}
         /\ o.cmd # "multsrcblt" /\ o.srcs # <<>> =>
              Range(SourceWrites(o)) =
                {[reg |-> "SRC_ADDRESS", val |-> o.srcs[1]], [reg |-> "SRC_CONFIG", val |-> "MEMORY"]}
         /\ o.cmd = "mono_blit" /\ o.srcs = <<>> =>
              Range(SourceWrites(o)) =
                {[reg |-> "SRC_CONFIG", val |-> "STREAM"], [reg |-> "SRC_COLOR", val |-> White]}
         /\ o.cmd \notin {"multsrcblt", "mono_blit"} /\ o.srcs = <<>> =>
              Range(SourceWrites(o)) = {[reg |-> "SRC_CONFIG", val |-> "NONE"]}
<1>1. o.srcs \in Seq(Surfaces) /\ Len(o.srcs) \in 0 .. 2
  BY SrcsType
<1>2. CASE o.cmd = "multsrcblt"
  <2>. DEFINE blocks == [i \in 1 .. Len(o.srcs) |-> BlockWrite(o, i)]
              last == W("MULTI_SOURCE", Len(o.srcs) - 1)
  <2>0. \A n \in 0 .. 2 : \A i \in 1 .. n : i = 1 \/ i = 2
    BY SMT
  <2>1. /\ blocks \in Seq(Range(blocks)) /\ Len(blocks) = Len(o.srcs)
        /\ \A i \in 1 .. Len(blocks) : blocks[i] = BlockWrite(o, i)
        /\ Range(blocks) = {BlockWrite(o, i) : i \in 1 .. Len(o.srcs)}
    <3>1. blocks \in Seq({BlockWrite(o, i) : i \in 1 .. Len(o.srcs)})
      BY <1>1
    <3>2. blocks \in Seq(Range(blocks))
      BY <3>1, SeqOverRange
    <3>3. Range(blocks) = {BlockWrite(o, i) : i \in 1 .. Len(o.srcs)}
      BY DEF Range
    <3>. QED BY <1>1, <3>1, <3>2, <3>3
  <2>2. \A i \in 1 .. Len(blocks) : blocks[i].reg = Blocks[i]
    BY <2>1 DEF BlockWrite
  <2>3. SourceWrites(o) = blocks \o last
    BY <1>2 DEF SourceWrites, BlockWrite
  <2>. HIDE DEF blocks
  <2>4. Over(blocks, Range(Blocks))
    BY <1>1, <2>0, <2>1, <2>2, BlocksDistinct DEF Over
  <2>5. Over(last, {"MULTI_SOURCE"}) /\ Range(last) = {[reg |-> "MULTI_SOURCE", val |-> Len(o.srcs) - 1]}
    BY OverWrite
  <2>. HIDE DEF last
  <2>6. /\ Over(blocks \o last, Range(Blocks) \cup {"MULTI_SOURCE"})
        /\ Range(blocks \o last) = Range(blocks) \cup Range(last)
    <3>1. Range(Blocks) \cap {"MULTI_SOURCE"} = {}
      BY BlocksDistinct
    <3>. QED BY <2>4, <2>5, <3>1, OverConcat
  <2>7. Over(blocks \o last, SourceRegisters)
    BY <2>6, OverMore DEF SourceRegisters
  <2>. QED BY <1>2, <2>1, <2>3, <2>5, <2>6, <2>7
<1>3. CASE o.cmd # "multsrcblt" /\ o.srcs # <<>>
  <2>. DEFINE address == W("SRC_ADDRESS", o.srcs[1])
              config == W("SRC_CONFIG", "MEMORY")
  <2>1. /\ Over(address, {"SRC_ADDRESS"}) /\ Over(config, {"SRC_CONFIG"})
        /\ Range(address) = {[reg |-> "SRC_ADDRESS", val |-> o.srcs[1]]}
        /\ Range(config) = {[reg |-> "SRC_CONFIG", val |-> "MEMORY"]}
    BY OverWrite
  <2>2. SourceWrites(o) = address \o config
    BY <1>3 DEF SourceWrites
  <2>. HIDE DEF address, config
  <2>3. /\ Over(address \o config, {"SRC_ADDRESS"} \cup {"SRC_CONFIG"})
        /\ Range(address \o config) = Range(address) \cup Range(config)
    <3>1. {"SRC_ADDRESS"} \cap {"SRC_CONFIG"} = {}
      OBVIOUS
    <3>. QED BY <2>1, <3>1, OverConcat
  <2>4. Over(address \o config, SourceRegisters)
    BY <2>3, OverMore DEF SourceRegisters
  <2>. QED BY <1>3, <2>1, <2>2, <2>3, <2>4
<1>4. CASE o.cmd = "mono_blit" /\ o.srcs = <<>>
  <2>. DEFINE config == W("SRC_CONFIG", "STREAM")
              color == W("SRC_COLOR", White)
  <2>1. /\ Over(config, {"SRC_CONFIG"}) /\ Over(color, {"SRC_COLOR"})
        /\ Range(config) = {[reg |-> "SRC_CONFIG", val |-> "STREAM"]}
        /\ Range(color) = {[reg |-> "SRC_COLOR", val |-> White]}
    BY OverWrite
  <2>2. SourceWrites(o) = config \o color
    BY <1>4 DEF SourceWrites
  <2>. HIDE DEF config, color
  <2>3. /\ Over(config \o color, {"SRC_CONFIG"} \cup {"SRC_COLOR"})
        /\ Range(config \o color) = Range(config) \cup Range(color)
    <3>1. {"SRC_CONFIG"} \cap {"SRC_COLOR"} = {}
      OBVIOUS
    <3>. QED BY <2>1, <3>1, OverConcat
  <2>4. Over(config \o color, SourceRegisters)
    BY <2>3, OverMore DEF SourceRegisters
  <2>. QED BY <1>4, <2>1, <2>2, <2>3, <2>4
<1>5. CASE o.cmd \notin {"multsrcblt", "mono_blit"} /\ o.srcs = <<>>
  <2>1. SourceWrites(o) = W("SRC_CONFIG", "NONE")
    BY <1>5 DEF SourceWrites
  <2>2. /\ Over(W("SRC_CONFIG", "NONE"), {"SRC_CONFIG"})
        /\ Range(W("SRC_CONFIG", "NONE")) = {[reg |-> "SRC_CONFIG", val |-> "NONE"]}
    BY OverWrite
  <2>3. Over(W("SRC_CONFIG", "NONE"), SourceRegisters)
    BY <2>2, OverMore DEF SourceRegisters
  <2>. QED BY <1>5, <2>1, <2>2, <2>3
<1>. QED BY <1>2, <1>3, <1>4, <1>5

\* The writes other than those of the sources.
OwnWrites(o) ==
  {[reg |-> "DEST_ADDRESS", val |-> o.dst],
   [reg |-> "DEST_CONFIG", val |-> [command |-> Command(o.cmd), clip |-> o.clip]]}
  \cup {w \in {[reg |-> "STRETCH", val |-> <<o.srcs, o.dst>>]} : o.cmd = "stretchblt"}
  \cup {w \in {[reg |-> "PATTERN", val |-> o.color]} : o.pat_fill}
  \cup {w \in {[reg |-> "ROP", val |-> o.rop]} : o.cmd # "multsrcblt"}
  \cup {w \in {[reg |-> "CLEAR", val |-> o.color]} : o.cmd \in {"clear", "mono_blit"}}
  \cup {w \in {[reg |-> "ALPHA", val |-> o.blend]} : o.cmd # "multsrcblt"}

\* An operation writes no register twice, and the destination first.
LEMMA SetupShape ==
  ASSUME NEW o \in Op
  PROVE  /\ Over(Setup(o), Registers \ {"FLUSH_CACHE"})
         /\ Range(Setup(o)) = OwnWrites(o) \cup Range(SourceWrites(o))
         /\ Len(Setup(o)) >= 1 /\ Setup(o)[1] = [reg |-> "DEST_ADDRESS", val |-> o.dst]
<1>. DEFINE dest == W("DEST_ADDRESS", o.dst)
            config == W("DEST_CONFIG", [command |-> Command(o.cmd), clip |-> o.clip])
            stretch == When(o.cmd = "stretchblt", W("STRETCH", <<o.srcs, o.dst>>))
            pattern == When(o.pat_fill, W("PATTERN", o.color))
            rop == When(o.cmd # "multsrcblt", W("ROP", o.rop))
            clear == When(o.cmd \in {"clear", "mono_blit"}, W("CLEAR", o.color))
            alpha == When(o.cmd # "multsrcblt", W("ALPHA", o.blend))
            source == SourceWrites(o)
            rDest == {[reg |-> "DEST_ADDRESS", val |-> o.dst]}
            rConfig == {[reg |-> "DEST_CONFIG", val |-> [command |-> Command(o.cmd), clip |-> o.clip]]}
            rStretch == {w \in {[reg |-> "STRETCH", val |-> <<o.srcs, o.dst>>]} : o.cmd = "stretchblt"}
            rPattern == {w \in {[reg |-> "PATTERN", val |-> o.color]} : o.pat_fill}
            rRop == {w \in {[reg |-> "ROP", val |-> o.rop]} : o.cmd # "multsrcblt"}
            rClear == {w \in {[reg |-> "CLEAR", val |-> o.color]} : o.cmd \in {"clear", "mono_blit"}}
            rAlpha == {w \in {[reg |-> "ALPHA", val |-> o.blend]} : o.cmd # "multsrcblt"}
<1>1. /\ Over(dest, {"DEST_ADDRESS"}) /\ Range(dest) = rDest
      /\ Over(config, {"DEST_CONFIG"}) /\ Range(config) = rConfig
  BY OverWrite
<1>2. /\ Over(stretch, {"STRETCH"}) /\ Range(stretch) = rStretch
      /\ Over(pattern, {"PATTERN"}) /\ Range(pattern) = rPattern
  <2>1. Over(stretch, {"STRETCH"}) /\ Range(stretch) = rStretch
    <3>1. CASE o.cmd = "stretchblt"
      BY <3>1, OverWrite DEF When
    <3>2. CASE ~(o.cmd = "stretchblt")
      <4>1. stretch = <<>> /\ rStretch = {}
        BY <3>2 DEF When
      <4>. HIDE DEF stretch, rStretch
      <4>. QED BY <4>1, OverNothing, OverMore
    <3>. QED BY <3>1, <3>2
  <2>2. Over(pattern, {"PATTERN"}) /\ Range(pattern) = rPattern
    <3>1. CASE o.pat_fill
      BY <3>1, OverWrite DEF When
    <3>2. CASE ~(o.pat_fill)
      <4>1. pattern = <<>> /\ rPattern = {}
        BY <3>2 DEF When
      <4>. HIDE DEF pattern, rPattern
      <4>. QED BY <4>1, OverNothing, OverMore
    <3>. QED BY <3>1, <3>2
  <2>. QED BY <2>1, <2>2
<1>3. /\ Over(rop, {"ROP"}) /\ Range(rop) = rRop
      /\ Over(clear, {"CLEAR"}) /\ Range(clear) = rClear
      /\ Over(alpha, {"ALPHA"}) /\ Range(alpha) = rAlpha
  <2>1. Over(rop, {"ROP"}) /\ Range(rop) = rRop
    <3>1. CASE o.cmd # "multsrcblt"
      BY <3>1, OverWrite DEF When
    <3>2. CASE ~(o.cmd # "multsrcblt")
      <4>1. rop = <<>> /\ rRop = {}
        BY <3>2 DEF When
      <4>. HIDE DEF rop, rRop
      <4>. QED BY <4>1, OverNothing, OverMore
    <3>. QED BY <3>1, <3>2
  <2>2. Over(clear, {"CLEAR"}) /\ Range(clear) = rClear
    <3>1. CASE o.cmd \in {"clear", "mono_blit"}
      BY <3>1, OverWrite DEF When
    <3>2. CASE ~(o.cmd \in {"clear", "mono_blit"})
      <4>1. clear = <<>> /\ rClear = {}
        BY <3>2 DEF When
      <4>. HIDE DEF clear, rClear
      <4>. QED BY <4>1, OverNothing, OverMore
    <3>. QED BY <3>1, <3>2
  <2>3. Over(alpha, {"ALPHA"}) /\ Range(alpha) = rAlpha
    <3>1. CASE o.cmd # "multsrcblt"
      BY <3>1, OverWrite DEF When
    <3>2. CASE ~(o.cmd # "multsrcblt")
      <4>1. alpha = <<>> /\ rAlpha = {}
        BY <3>2 DEF When
      <4>. HIDE DEF alpha, rAlpha
      <4>. QED BY <4>1, OverNothing, OverMore
    <3>. QED BY <3>1, <3>2
  <2>. QED BY <2>1, <2>2, <2>3
<1>4. Over(source, SourceRegisters)
  BY SourceWritesShape
<1>5. Setup(o) = (dest \o config) \o source \o stretch \o pattern \o rop \o clear \o alpha
  BY DEF Setup, DestWrites, AlphaWrites
<1>6. OwnWrites(o) = rDest \cup rConfig \cup rStretch \cup rPattern \cup rRop \cup rClear \cup rAlpha
  BY DEF OwnWrites
<1>7. dest[1] = [reg |-> "DEST_ADDRESS", val |-> o.dst] /\ Len(dest) = 1
  BY DEF W
<1>. HIDE DEF dest, config, stretch, pattern, rop, clear, alpha, source,
              rDest, rConfig, rStretch, rPattern, rRop, rClear, rAlpha
<1>. DEFINE q1 == dest \o config
            q2 == q1 \o source
            q3 == q2 \o stretch
            q4 == q3 \o pattern
            q5 == q4 \o rop
            q6 == q5 \o clear
            q7 == q6 \o alpha
            R1 == {"DEST_ADDRESS"} \cup {"DEST_CONFIG"}
            R2 == R1 \cup SourceRegisters
            R3 == R2 \cup {"STRETCH"}
            R4 == R3 \cup {"PATTERN"}
            R5 == R4 \cup {"ROP"}
            R6 == R5 \cup {"CLEAR"}
            R7 == R6 \cup {"ALPHA"}
<1>8. SourceRegisters = {"SRC_ADDRESS", "SRC_CONFIG", "SRC_COLOR", "MULTI_SOURCE",
                         "BLOCK8_0", "BLOCK8_1", "BLOCK8_2", "BLOCK8_3"}
  BY BlocksDistinct DEF SourceRegisters
<1>11. Over(q1, R1) /\ Range(q1) = Range(dest) \cup Range(config)
  BY <1>1, OverConcat
<1>12. Over(q2, R2) /\ Range(q2) = Range(q1) \cup Range(source)
  <2>. HIDE DEF q1
  <2>1. R1 \cap SourceRegisters = {}
    BY <1>8
  <2>. HIDE DEF R1
  <2>. QED BY <2>1, <1>11, <1>4, OverConcat
<1>13. Over(q3, R3) /\ Range(q3) = Range(q2) \cup Range(stretch)
  <2>. HIDE DEF q2
  <2>1. R2 \cap {"STRETCH"} = {}
    BY <1>8
  <2>. HIDE DEF R2
  <2>. QED BY <2>1, <1>12, <1>2, OverConcat
<1>14. Over(q4, R4) /\ Range(q4) = Range(q3) \cup Range(pattern)
  <2>. HIDE DEF q3
  <2>1. R3 \cap {"PATTERN"} = {}
    BY <1>8
  <2>. HIDE DEF R3
  <2>. QED BY <2>1, <1>13, <1>2, OverConcat
<1>15. Over(q5, R5) /\ Range(q5) = Range(q4) \cup Range(rop)
  <2>. HIDE DEF q4
  <2>1. R4 \cap {"ROP"} = {}
    BY <1>8
  <2>. HIDE DEF R4
  <2>. QED BY <2>1, <1>14, <1>3, OverConcat
<1>16. Over(q6, R6) /\ Range(q6) = Range(q5) \cup Range(clear)
  <2>. HIDE DEF q5
  <2>1. R5 \cap {"CLEAR"} = {}
    BY <1>8
  <2>. HIDE DEF R5
  <2>. QED BY <2>1, <1>15, <1>3, OverConcat
<1>17. Over(q7, R7) /\ Range(q7) = Range(q6) \cup Range(alpha)
  <2>. HIDE DEF q6
  <2>1. R6 \cap {"ALPHA"} = {}
    BY <1>8
  <2>. HIDE DEF R6
  <2>. QED BY <2>1, <1>16, <1>3, OverConcat
<1>18. R7 \subseteq Registers \ {"FLUSH_CACHE"}
  BY <1>8, BlocksDistinct DEF Registers
<1>19. Range(q7) = OwnWrites(o) \cup Range(source)
  BY <1>1, <1>2, <1>3, <1>6, <1>11, <1>12, <1>13, <1>14, <1>15, <1>16, <1>17
<1>20. Len(q7) >= 1 /\ q7[1] = dest[1]
  <2>. DEFINE S == Range(dest) \cup Range(config) \cup Range(source) \cup Range(stretch)
                   \cup Range(pattern) \cup Range(rop) \cup Range(clear) \cup Range(alpha)
  <2>1. /\ dest \in Seq(S) /\ config \in Seq(S) /\ source \in Seq(S) /\ stretch \in Seq(S)
        /\ pattern \in Seq(S) /\ rop \in Seq(S) /\ clear \in Seq(S) /\ alpha \in Seq(S)
    BY <1>1, <1>2, <1>3, <1>4 DEF Over
  <2>. HIDE DEF S
  <2>2. q1 \in Seq(S) /\ Len(q1) >= 1 /\ q1[1] = dest[1]
    <3>1. Len(dest) >= 1
      BY <1>7
    <3>. QED BY <3>1, <2>1, FirstOfConcat
  <2>3. q2 \in Seq(S) /\ Len(q2) >= 1 /\ q2[1] = dest[1]
    <3>. HIDE DEF q1
    <3>. QED BY <2>1, <2>2, FirstOfConcat
  <2>4. q3 \in Seq(S) /\ Len(q3) >= 1 /\ q3[1] = dest[1]
    <3>. HIDE DEF q2
    <3>. QED BY <2>1, <2>3, FirstOfConcat
  <2>5. q4 \in Seq(S) /\ Len(q4) >= 1 /\ q4[1] = dest[1]
    <3>. HIDE DEF q3
    <3>. QED BY <2>1, <2>4, FirstOfConcat
  <2>6. q5 \in Seq(S) /\ Len(q5) >= 1 /\ q5[1] = dest[1]
    <3>. HIDE DEF q4
    <3>. QED BY <2>1, <2>5, FirstOfConcat
  <2>7. q6 \in Seq(S) /\ Len(q6) >= 1 /\ q6[1] = dest[1]
    <3>. HIDE DEF q5
    <3>. QED BY <2>1, <2>6, FirstOfConcat
  <2>8. q7 \in Seq(S) /\ Len(q7) >= 1 /\ q7[1] = dest[1]
    <3>. HIDE DEF q6
    <3>. QED BY <2>1, <2>7, FirstOfConcat
  <2>. QED BY <2>8
<1>21. Over(q7, Registers \ {"FLUSH_CACHE"})
  <2>. HIDE DEF q7, R7
  <2>. QED BY <1>17, <1>18, OverMore
<1>22. Setup(o) = q7
  BY <1>5
<1>. HIDE DEF q7
<1>. QED BY <1>7, <1>19, <1>20, <1>21, <1>22 DEF source

-------------------------------------------------------------------------------
(***************************************************************************)
(* What a draw does with the registers its operation has set up.           *)
(***************************************************************************)

\* The commands viv2d_op_exec has a case for: all but viv2d_cmd_pat_fill.
Handled == {"clear", "line", "bitblt", "stretchblt", "multsrcblt", "mono_blit"}

\* An operation as the callers describe it.
Described(o) ==
  /\ o \in Op
  /\ o.srcs \in Sources(o.cmd)
  /\ o.pat_fill => o.cmd = "bitblt" /\ o.srcs = <<>>
  /\ o.rop = "pattern" => o.pat_fill

\* An operation as viv2d_op_exec has prepared it.
Ready(o) ==
  /\ Described(o)
  /\ o.rects > 0
  /\ o.pat_fill => o.rop = "pattern"

\* The registers hold what o has written.
Finds(g, o) == \A w \in Range(Setup(o)) : g[w.reg] = w.val

\* The registers of an operation, as its draw finds them.
FoundFor(g, o) ==
  /\ g["DEST_ADDRESS"] = o.dst
  /\ g["DEST_CONFIG"] = [command |-> Command(o.cmd), clip |-> o.clip]
  /\ o.cmd = "stretchblt" => g["STRETCH"] = <<o.srcs, o.dst>>
  /\ o.pat_fill => g["PATTERN"] = o.color
  /\ o.cmd \in {"clear", "mono_blit"} => g["CLEAR"] = o.color
  /\ o.cmd # "multsrcblt" => g["ROP"] = o.rop /\ g["ALPHA"] = o.blend
  /\ o.cmd # "multsrcblt" /\ o.srcs # <<>> =>
       g["SRC_ADDRESS"] = o.srcs[1] /\ g["SRC_CONFIG"] = "MEMORY"
  /\ o.cmd # "multsrcblt" /\ o.srcs = <<>> =>
       g["SRC_CONFIG"] = IF o.cmd = "mono_blit" THEN "STREAM" ELSE "NONE"
  /\ o.cmd = "multsrcblt" =>
       /\ g["MULTI_SOURCE"] = Len(o.srcs) - 1
       /\ \A i \in 1 .. Len(o.srcs) : g[Blocks[i]] = [src |-> o.srcs[i], blend |-> BlockBlend(o)]

\* A draw that finds what its operation has written finds every register it needs.
LEMMA FoundRegisters ==
  ASSUME NEW o, Ready(o), NEW g, Finds(g, o)
  PROVE  FoundFor(g, o)
<1>1. o \in Op
  BY DEF Ready, Described
<1>2. Range(Setup(o)) = OwnWrites(o) \cup Range(SourceWrites(o))
  BY <1>1, SetupShape
<1>3. \A w \in OwnWrites(o) : g[w.reg] = w.val
  BY <1>2 DEF Finds
<1>4. \A w \in Range(SourceWrites(o)) : g[w.reg] = w.val
  BY <1>2 DEF Finds
<1>5. /\ g["DEST_ADDRESS"] = o.dst
      /\ g["DEST_CONFIG"] = [command |-> Command(o.cmd), clip |-> o.clip]
  <2>1. [reg |-> "DEST_ADDRESS", val |-> o.dst] \in OwnWrites(o)
    BY DEF OwnWrites
  <2>2. [reg |-> "DEST_CONFIG", val |-> [command |-> Command(o.cmd), clip |-> o.clip]] \in OwnWrites(o)
    BY DEF OwnWrites
  <2>. QED BY <1>3, <2>1, <2>2
<1>6. ASSUME o.cmd = "stretchblt" PROVE g["STRETCH"] = <<o.srcs, o.dst>>
  <2>1. [reg |-> "STRETCH", val |-> <<o.srcs, o.dst>>] \in OwnWrites(o)
    BY <1>6 DEF OwnWrites
  <2>. QED BY <1>3, <2>1
<1>7. ASSUME o.pat_fill PROVE g["PATTERN"] = o.color
  <2>1. [reg |-> "PATTERN", val |-> o.color] \in OwnWrites(o)
    BY <1>7 DEF OwnWrites
  <2>. QED BY <1>3, <2>1
<1>8. ASSUME o.cmd \in {"clear", "mono_blit"} PROVE g["CLEAR"] = o.color
  <2>1. [reg |-> "CLEAR", val |-> o.color] \in OwnWrites(o)
    BY <1>8 DEF OwnWrites
  <2>. QED BY <1>3, <2>1
<1>9. ASSUME o.cmd # "multsrcblt" PROVE g["ROP"] = o.rop /\ g["ALPHA"] = o.blend
  <2>1. [reg |-> "ROP", val |-> o.rop] \in OwnWrites(o)
    BY <1>9 DEF OwnWrites
  <2>2. [reg |-> "ALPHA", val |-> o.blend] \in OwnWrites(o)
    BY <1>9 DEF OwnWrites
  <2>. QED BY <1>3, <2>1, <2>2
<1>10. ASSUME o.cmd # "multsrcblt", o.srcs # <<>>
       PROVE  g["SRC_ADDRESS"] = o.srcs[1] /\ g["SRC_CONFIG"] = "MEMORY"
  <2>1. Range(SourceWrites(o)) =
          {[reg |-> "SRC_ADDRESS", val |-> o.srcs[1]], [reg |-> "SRC_CONFIG", val |-> "MEMORY"]}
    BY <1>1, <1>10, SourceWritesShape
  <2>2. /\ [reg |-> "SRC_ADDRESS", val |-> o.srcs[1]] \in Range(SourceWrites(o))
        /\ [reg |-> "SRC_CONFIG", val |-> "MEMORY"] \in Range(SourceWrites(o))
    BY <2>1
  <2>. QED BY <1>4, <2>2
<1>11. ASSUME o.cmd # "multsrcblt", o.srcs = <<>>
       PROVE  g["SRC_CONFIG"] = IF o.cmd = "mono_blit" THEN "STREAM" ELSE "NONE"
  <2>. DEFINE mode == IF o.cmd = "mono_blit" THEN "STREAM" ELSE "NONE"
  <2>1. CASE o.cmd = "mono_blit"
    <3>1. [reg |-> "SRC_CONFIG", val |-> "STREAM"] \in Range(SourceWrites(o))
      BY <1>1, <1>11, <2>1, SourceWritesShape
    <3>. QED BY <1>4, <2>1, <3>1
  <2>2. CASE o.cmd # "mono_blit"
    <3>1. [reg |-> "SRC_CONFIG", val |-> "NONE"] \in Range(SourceWrites(o))
      BY <1>1, <1>11, <2>2, SourceWritesShape
    <3>. QED BY <1>4, <2>2, <3>1
  <2>. QED BY <2>1, <2>2
<1>12. ASSUME o.cmd = "multsrcblt"
       PROVE  /\ g["MULTI_SOURCE"] = Len(o.srcs) - 1
              /\ \A i \in 1 .. Len(o.srcs) : g[Blocks[i]] = [src |-> o.srcs[i], blend |-> BlockBlend(o)]
  <2>. DEFINE last == Len(o.srcs) - 1
  <2>1. Range(SourceWrites(o)) = {BlockWrite(o, i) : i \in 1 .. Len(o.srcs)}
                                   \cup {[reg |-> "MULTI_SOURCE", val |-> last]}
    BY <1>1, <1>12, SourceWritesShape
  <2>. HIDE DEF last
  <2>2. [reg |-> "MULTI_SOURCE", val |-> last] \in Range(SourceWrites(o))
    BY <2>1
  <2>3. \A i \in 1 .. Len(o.srcs) : BlockWrite(o, i) \in Range(SourceWrites(o))
    BY <2>1
  <2>4. g["MULTI_SOURCE"] = last
    BY <1>4, <2>2
  <2>5. ASSUME NEW i \in 1 .. Len(o.srcs)
        PROVE  g[Blocks[i]] = [src |-> o.srcs[i], blend |-> BlockBlend(o)]
    <3>1. g[BlockWrite(o, i).reg] = BlockWrite(o, i).val
      BY <1>4, <2>3
    <3>. DEFINE val == [src |-> o.srcs[i], blend |-> BlockBlend(o)]
    <3>2. BlockWrite(o, i) = [reg |-> Blocks[i], val |-> val]
      BY DEF BlockWrite
    <3>. HIDE DEF val
    <3>3. g[Blocks[i]] = val
      BY <3>1, <3>2
    <3>. QED BY <3>3 DEF val
  <2>. QED BY <2>4, <2>5 DEF last
<1>. QED BY <1>5, <1>6, <1>7, <1>8, <1>9, <1>10, <1>11, <1>12 DEF FoundFor

\* What Effect comes to for a command with one source at most.
Patterned(g, c) == c = "BIT_BLT" /\ g["ROP"] = "pattern"
SingleSrcs(g, c) ==
  IF c \in {"BIT_BLT", "STRETCH_BLT"} /\ ~Patterned(g, c) /\ g["SRC_CONFIG"] = "MEMORY"
  THEN <<g["SRC_ADDRESS"]>> ELSE <<>>
SingleStreamed(g, c) == c = "BIT_BLT" /\ g["SRC_CONFIG"] = "STREAM" /\ ~Patterned(g, c)
SingleColor(g, c) ==
  IF c = "CLEAR" THEN {g["CLEAR"]}
  ELSE IF c = "LINE" THEN {g["CLEAR"], g["PATTERN"], g["SRC_COLOR"]}
  ELSE IF Patterned(g, c) THEN {g["PATTERN"]}
  ELSE IF SingleStreamed(g, c) THEN {g["SRC_COLOR"]} ELSE {}
SingleStretch(g, c) == IF c = "STRETCH_BLT" THEN g["STRETCH"] ELSE <<>>

\* The cases of Effect that a command with one source at most can reach.
LEMMA SingleEffect ==
  ASSUME NEW g, NEW c, g["DEST_CONFIG"].command = c, c # "MULTI_SOURCE_BLT"
  PROVE  Effect(g) = [dst |-> g["DEST_ADDRESS"], clip |-> g["DEST_CONFIG"].clip,
                      color |-> SingleColor(g, c), srcs |-> SingleSrcs(g, c),
                      streamed |-> SingleStreamed(g, c), stretch |-> SingleStretch(g, c),
                      blend |-> {g["ALPHA"]}]
<1>. DEFINE source == IF g["SRC_CONFIG"] = "MEMORY" THEN <<g["SRC_ADDRESS"]>> ELSE <<>>
            color == CASE c = "CLEAR" -> {g["CLEAR"]}
                       [] c = "LINE" -> {g["CLEAR"], g["PATTERN"], g["SRC_COLOR"]}
                       [] Patterned(g, c) -> {g["PATTERN"]}
                       [] SingleStreamed(g, c) -> {g["SRC_COLOR"]}
                       [] OTHER -> {}
            srcs == CASE c = "MULTI_SOURCE_BLT" -> Effect(g).srcs
                      [] c \in {"BIT_BLT", "STRETCH_BLT"} /\ ~Patterned(g, c) -> source
                      [] OTHER -> <<>>
<1>1. color = SingleColor(g, c)
  BY DEF SingleColor, SingleStreamed, Patterned
<1>2. srcs = SingleSrcs(g, c)
  BY DEF SingleSrcs, Patterned
<1>. HIDE DEF source
<1>3. Effect(g) = [dst |-> g["DEST_ADDRESS"], clip |-> g["DEST_CONFIG"].clip,
                   color |-> color, srcs |-> srcs,
                   streamed |-> SingleStreamed(g, c), stretch |-> SingleStretch(g, c),
                   blend |-> {g["ALPHA"]}]
  BY DEF Effect, SingleStreamed, SingleStretch, Patterned, source
<1>. QED BY <1>1, <1>2, <1>3

\* The fields of Asked.
LEMMA AskedFields ==
  ASSUME NEW o
  PROVE  DOMAIN Asked(o) = {"dst", "clip", "color", "srcs", "streamed", "stretch", "blend"}
BY DEF Asked

\* What viv2d_op_exec looks at of o shows in a draw with the registers g.
Agrees(g, o) == \A f \in DOMAIN Asked(o) \ Dropped(o) : Effect(g)[f] = Asked(o)[f]

\* A draw that finds what its operation has written does what viv2d_op_exec looks at
\* of it: none of that depends on a register left to the operation before.
LEMMA EffectOfSetup ==
  ASSUME NEW o, Ready(o), o.cmd \in Handled, NEW g, Finds(g, o)
  PROVE  Agrees(g, o)
<1>. DEFINE config == [command |-> Command(o.cmd), clip |-> o.clip]
<1>0. FoundFor(g, o)
  BY FoundRegisters
<1>1. /\ config.command = Command(o.cmd) /\ config.clip = o.clip
      /\ g["DEST_ADDRESS"] = o.dst /\ g["DEST_CONFIG"] = config
  BY <1>0 DEF FoundFor
<1>. HIDE DEF config
<1>2. o.rop \in {"source", "pattern"} /\ o.pat_fill \in BOOLEAN
  BY DEF Ready, Described, Op
<1>3. ASSUME NEW c, c = Command(o.cmd), c # "MULTI_SOURCE_BLT", o.cmd # "multsrcblt",
             o.cmd \in {"line", "mono_blit"} \/ SingleColor(g, c) = Asked(o).color,
             SingleSrcs(g, c) = o.srcs,
             SingleStreamed(g, c) = (o.cmd = "mono_blit"),
             SingleStretch(g, c) = IF o.cmd = "stretchblt" THEN <<o.srcs, o.dst>> ELSE <<>>
      PROVE  Agrees(g, o)
  <2>1. g["DEST_CONFIG"].command = c /\ g["DEST_CONFIG"].clip = o.clip /\ g["ALPHA"] = o.blend
    <3>1. g["ALPHA"] = o.blend
      BY <1>3, <1>0 DEF FoundFor
    <3>2. g["DEST_CONFIG"].command = c /\ g["DEST_CONFIG"].clip = o.clip
      BY <1>1, <1>3
    <3>. QED BY <3>1, <3>2
  <2>2. Effect(g) = [dst |-> g["DEST_ADDRESS"], clip |-> g["DEST_CONFIG"].clip,
                     color |-> SingleColor(g, c), srcs |-> SingleSrcs(g, c),
                     streamed |-> SingleStreamed(g, c), stretch |-> SingleStretch(g, c),
                     blend |-> {g["ALPHA"]}]
    BY <1>3, <2>1, SingleEffect
  <2>3. /\ Effect(g)["dst"] = Asked(o)["dst"] /\ Effect(g)["clip"] = Asked(o)["clip"]
        /\ Effect(g)["srcs"] = Asked(o)["srcs"] /\ Effect(g)["stretch"] = Asked(o)["stretch"]
        /\ Effect(g)["blend"] = Asked(o)["blend"]
    BY <1>1, <1>3, <2>1, <2>2 DEF Asked
  <2>4. Effect(g)["streamed"] = Asked(o)["streamed"]
    BY <1>3, <2>2 DEF Asked
  <2>5. o.cmd \in {"line", "mono_blit"} \/ Effect(g)["color"] = Asked(o)["color"]
    BY <1>3, <2>2
  <2>. QED BY <2>3, <2>4, <2>5, AskedFields DEF Agrees, Dropped
<1>4. CASE o.cmd = "clear"
  <2>. DEFINE c == "CLEAR"
  <2>1. Command(o.cmd) = c /\ o.srcs = <<>> /\ ~o.pat_fill
    BY <1>2, <1>4 DEF Ready, Described, Sources, Command
  <2>2. g["CLEAR"] = o.color
    BY <1>4, <2>1, <1>0 DEF FoundFor
  <2>3. SingleColor(g, c) = Asked(o).color
    BY <1>2, <1>4, <2>1, <2>2 DEF SingleColor, SingleStreamed, Patterned, Asked
  <2>4. SingleSrcs(g, c) = o.srcs
    BY <1>4, <2>1, <2>2 DEF SingleSrcs, Patterned
  <2>5. SingleStreamed(g, c) = (o.cmd = "mono_blit")
    BY <1>4, <2>1, <2>2 DEF SingleStreamed, Patterned
  <2>6. SingleStretch(g, c) = IF o.cmd = "stretchblt" THEN <<o.srcs, o.dst>> ELSE <<>>
    BY <1>4, <2>1, <2>2 DEF SingleStretch
  <2>. QED BY <1>3, <1>4, <2>1, <2>3, <2>4, <2>5, <2>6
<1>5. CASE o.cmd = "line"
  <2>. DEFINE c == "LINE"
  <2>1. Command(o.cmd) = c /\ o.srcs = <<>> /\ ~o.pat_fill
    BY <1>2, <1>5 DEF Ready, Described, Sources, Command
  <2>2. g["ROP"] = o.rop
    BY <1>5, <2>1, <1>0 DEF FoundFor
  <2>4. SingleSrcs(g, c) = o.srcs
    BY <1>5, <2>1, <2>2 DEF SingleSrcs, Patterned
  <2>5. SingleStreamed(g, c) = (o.cmd = "mono_blit")
    BY <1>5, <2>1, <2>2 DEF SingleStreamed, Patterned
  <2>6. SingleStretch(g, c) = IF o.cmd = "stretchblt" THEN <<o.srcs, o.dst>> ELSE <<>>
    BY <1>5, <2>1, <2>2 DEF SingleStretch
  <2>. QED BY <1>3, <1>5, <2>1, <2>4, <2>5, <2>6
<1>6. CASE o.cmd = "bitblt" /\ o.pat_fill
  <2>. DEFINE c == "BIT_BLT"
  <2>1. Command(o.cmd) = c /\ o.srcs = <<>> /\ o.rop = "pattern"
    BY <1>2, <1>6 DEF Ready, Described, Sources, Command
  <2>2. g["PATTERN"] = o.color /\ g["ROP"] = o.rop
    BY <1>6, <2>1, <1>0 DEF FoundFor
  <2>3. SingleColor(g, c) = Asked(o).color
    BY <1>2, <1>6, <2>1, <2>2 DEF SingleColor, SingleStreamed, Patterned, Asked
  <2>4. SingleSrcs(g, c) = o.srcs
    BY <1>6, <2>1, <2>2 DEF SingleSrcs, Patterned
  <2>5. SingleStreamed(g, c) = (o.cmd = "mono_blit")
    BY <1>6, <2>1, <2>2 DEF SingleStreamed, Patterned
  <2>6. SingleStretch(g, c) = IF o.cmd = "stretchblt" THEN <<o.srcs, o.dst>> ELSE <<>>
    BY <1>6, <2>1, <2>2 DEF SingleStretch
  <2>. QED BY <1>3, <1>6, <2>1, <2>3, <2>4, <2>5, <2>6
<1>7. CASE o.cmd = "bitblt" /\ ~o.pat_fill /\ o.srcs = <<>>
  <2>. DEFINE c == "BIT_BLT"
  <2>1. Command(o.cmd) = c /\ o.rop = "source"
    BY <1>2, <1>7 DEF Ready, Described, Sources, Command
  <2>2. g["ROP"] = o.rop /\ g["SRC_CONFIG"] = "NONE"
    BY <1>7, <2>1, <1>0 DEF FoundFor
  <2>3. SingleColor(g, c) = Asked(o).color
    BY <1>2, <1>7, <2>1, <2>2 DEF SingleColor, SingleStreamed, Patterned, Asked
  <2>4. SingleSrcs(g, c) = o.srcs
    BY <1>7, <2>1, <2>2 DEF SingleSrcs, Patterned
  <2>5. SingleStreamed(g, c) = (o.cmd = "mono_blit")
    BY <1>7, <2>1, <2>2 DEF SingleStreamed, Patterned
  <2>6. SingleStretch(g, c) = IF o.cmd = "stretchblt" THEN <<o.srcs, o.dst>> ELSE <<>>
    BY <1>7, <2>1, <2>2 DEF SingleStretch
  <2>. QED BY <1>3, <1>7, <2>1, <2>3, <2>4, <2>5, <2>6
<1>8. CASE o.cmd = "mono_blit"
  <2>. DEFINE c == "BIT_BLT"
  <2>1. Command(o.cmd) = c /\ o.srcs = <<>> /\ ~o.pat_fill /\ o.rop = "source"
    BY <1>2, <1>8 DEF Ready, Described, Sources, Command
  <2>2. g["ROP"] = o.rop /\ g["SRC_CONFIG"] = "STREAM"
    BY <1>8, <2>1, <1>0 DEF FoundFor
  <2>4. SingleSrcs(g, c) = o.srcs
    BY <1>8, <2>1, <2>2 DEF SingleSrcs, Patterned
  <2>5. SingleStreamed(g, c) = (o.cmd = "mono_blit")
    BY <1>8, <2>1, <2>2 DEF SingleStreamed, Patterned
  <2>6. SingleStretch(g, c) = IF o.cmd = "stretchblt" THEN <<o.srcs, o.dst>> ELSE <<>>
    BY <1>8, <2>1, <2>2 DEF SingleStretch
  <2>. QED BY <1>3, <1>8, <2>1, <2>4, <2>5, <2>6
<1>9. CASE o.cmd = "bitblt" /\ ~o.pat_fill /\ o.srcs # <<>>
  <2>. DEFINE c == "BIT_BLT"
  <2>0. PICK s \in Surfaces : o.srcs = <<s>>
    BY <1>9 DEF Ready, Described, Sources
  <2>1. Command(o.cmd) = c /\ o.rop = "source"
    BY <1>2, <1>9 DEF Ready, Described, Sources, Command
  <2>2. g["ROP"] = o.rop /\ g["SRC_CONFIG"] = "MEMORY" /\ g["SRC_ADDRESS"] = s
    <3>1. o.srcs # <<>> /\ o.srcs[1] = s
      BY <2>0
    <3>. QED BY <1>9, <2>1, <3>1, <1>0 DEF FoundFor
  <2>3. SingleColor(g, c) = Asked(o).color
    BY <1>9, <2>1, <2>2 DEF SingleColor, SingleStreamed, Patterned, Asked
  <2>4. SingleSrcs(g, c) = o.srcs
    BY <1>9, <2>0, <2>1, <2>2 DEF SingleSrcs, Patterned
  <2>5. SingleStreamed(g, c) = (o.cmd = "mono_blit")
    BY <1>9, <2>1, <2>2 DEF SingleStreamed, Patterned
  <2>6. SingleStretch(g, c) = IF o.cmd = "stretchblt" THEN <<o.srcs, o.dst>> ELSE <<>>
    BY <1>9, <2>1, <2>2 DEF SingleStretch
  <2>. QED BY <1>3, <1>9, <2>1, <2>3, <2>4, <2>5, <2>6
<1>10. CASE o.cmd = "stretchblt"
  <2>. DEFINE c == "STRETCH_BLT"
  <2>0. PICK s \in Surfaces : o.srcs = <<s>>
    BY <1>10 DEF Ready, Described, Sources
  <2>1. Command(o.cmd) = c /\ ~o.pat_fill
    BY <1>2, <1>10 DEF Ready, Described, Sources, Command
  <2>2. /\ g["STRETCH"] = <<o.srcs, o.dst>>
        /\ g["SRC_CONFIG"] = "MEMORY" /\ g["SRC_ADDRESS"] = s
    <3>1. o.srcs # <<>> /\ o.srcs[1] = s
      BY <2>0
    <3>. QED BY <1>10, <2>1, <3>1, <1>0 DEF FoundFor
  <2>3. SingleColor(g, c) = Asked(o).color
    BY <1>10, <2>1, <2>2 DEF SingleColor, SingleStreamed, Patterned, Asked
  <2>4. SingleSrcs(g, c) = o.srcs
    BY <1>10, <2>0, <2>1, <2>2 DEF SingleSrcs, Patterned
  <2>5. SingleStreamed(g, c) = (o.cmd = "mono_blit")
    BY <1>10, <2>1, <2>2 DEF SingleStreamed, Patterned
  <2>6. SingleStretch(g, c) = IF o.cmd = "stretchblt" THEN <<o.srcs, o.dst>> ELSE <<>>
    BY <1>10, <2>1, <2>2 DEF SingleStretch
  <2>. QED BY <1>3, <1>10, <2>1, <2>3, <2>4, <2>5, <2>6
<1>11. CASE o.cmd = "multsrcblt"
  <2>1. PICK s \in Surfaces, t \in Surfaces : o.srcs = <<s, t>>
    BY <1>11 DEF Ready, Described, Sources
  <2>2. ~o.pat_fill /\ Command(o.cmd) = "MULTI_SOURCE_BLT"
    BY <1>11 DEF Ready, Described, Command
  <2>3. /\ g["MULTI_SOURCE"] = 1
        /\ \A i \in 1 .. 2 : g[Blocks[i]] = [src |-> o.srcs[i], blend |-> BlockBlend(o)]
    <3>1. Len(o.srcs) = 2 /\ 2 - 1 = 1
      BY <2>1
    <3>2. /\ g["MULTI_SOURCE"] = Len(o.srcs) - 1
          /\ \A i \in 1 .. Len(o.srcs) : g[Blocks[i]] = [src |-> o.srcs[i], blend |-> BlockBlend(o)]
      BY <1>11, <1>0 DEF FoundFor
    <3>. QED BY <3>1, <3>2
  <2>. DEFINE blocks == [i \in 1 .. g["MULTI_SOURCE"] + 1 |-> g[Blocks[i]]]
  <2>4. /\ DOMAIN blocks = 1 .. 2
        /\ blocks[1].src = s /\ blocks[2].src = t
        /\ blocks[1].blend = BlockBlend(o) /\ blocks[2].blend = BlockBlend(o)
    BY <2>1, <2>3
  <2>5. Effect(g) =
          [dst |-> o.dst, clip |-> o.clip, color |-> {},
           srcs |-> [i \in DOMAIN blocks |-> blocks[i].src], streamed |-> FALSE, stretch |-> <<>>,
           blend |-> {blocks[i].blend : i \in DOMAIN blocks}]
    BY <1>1, <2>2 DEF Effect
  <2>. HIDE DEF blocks
  <2>6. [i \in DOMAIN blocks |-> blocks[i].src] = o.srcs
    BY <2>1, <2>4
  <2>7. {blocks[i].blend : i \in DOMAIN blocks} = {BlockBlend(o)}
    <3>1. \A i \in 1 .. 2 : i = 1 \/ i = 2
      BY SMT
    <3>2. 1 \in 1 .. 2
      BY SMT
    <3>. QED BY <2>4, <3>1, <3>2
  <2>8. /\ Effect(g)["dst"] = Asked(o)["dst"] /\ Effect(g)["clip"] = Asked(o)["clip"]
        /\ Effect(g)["srcs"] = Asked(o)["srcs"] /\ Effect(g)["stretch"] = Asked(o)["stretch"]
        /\ Effect(g)["color"] = Asked(o)["color"]
    BY <1>11, <2>2, <2>5, <2>6 DEF Asked
  <2>9. Effect(g)["streamed"] = Asked(o)["streamed"]
    <3>1. Effect(g)["streamed"] = FALSE
      BY <2>5
    <3>2. Asked(o)["streamed"] = (o.cmd = "mono_blit")
      BY DEF Asked
    <3>3. ~(o.cmd = "mono_blit")
      BY <1>11
    <3>. QED BY <3>1, <3>2, <3>3
  <2>10. "blend" \notin Dropped(o) => Effect(g)["blend"] = Asked(o)["blend"]
    <3>1. Effect(g)["blend"] = {BlockBlend(o)} /\ Asked(o)["blend"] = {o.blend}
      BY <2>5, <2>7 DEF Asked
    <3>2. "blend" \notin Dropped(o) => BlockBlend(o) = o.blend
      BY <1>11 DEF BlockBlend, Dropped
    <3>. QED BY <3>1, <3>2
  <2>. QED BY <2>8, <2>9, <2>10, AskedFields DEF Agrees
<1>. QED BY <1>4, <1>5, <1>6, <1>7, <1>8, <1>9, <1>10, <1>11 DEF Handled

-------------------------------------------------------------------------------
(***************************************************************************)
(* The registers along a batch.                                            *)
(***************************************************************************)

\* The last of the writes is one of them.
LEMMA MaxIn ==
  ASSUME NEW n \in Nat, NEW S, S \subseteq 1 .. n, S # {}
  PROVE  Max(S) \in S /\ \A y \in S : Max(S) >= y
<1>. DEFINE T == {n - x : x \in S}
            less == OpToRel(<, Nat)
<1>1. T \subseteq Nat /\ T # {}
  OBVIOUS
<1>2. IsWellFoundedOn(less, Nat)
  BY NatLessThanWellFounded
<1>3. \A x, y \in Nat : <<y, x>> \notin less => ~(y < x)
  BY DEF OpToRel
<1>. HIDE DEF less
<1>4. PICK m \in T : \A y \in T : <<y, m>> \notin less
  <2>. HIDE DEF T
  <2>. QED BY <1>1, <1>2, WFMin
<1>5. PICK x \in S : m = n - x
  BY <1>4
<1>6. \A y \in S : x >= y
  <2>. SUFFICES ASSUME NEW y \in S PROVE x >= y
    OBVIOUS
  <2>1. n - y \in T /\ n - y \in Nat /\ m \in Nat
    BY <1>1, <1>4
  <2>2. ~(n - y < m)
    BY <1>3, <1>4, <2>1
  <2>. QED BY <1>5, <2>1, <2>2
<1>7. \E z \in S : \A y \in S : z >= y
  BY <1>5, <1>6
<1>. QED BY <1>7 DEF Max

\* What is written counts for later items only.
LEMMA RegsKept ==
  ASSUME NEW S, NEW items \in Seq(S), NEW x, NEW g, NEW k \in 1 .. Len(items) + 1
  PROVE  RegsAt(g, Append(items, x), k) = RegsAt(g, items, k)
<1>. DEFINE more == Append(items, x)
<1>1. \A i \in 1 .. k - 1 : more[i] = items[i]
  OBVIOUS
<1>2. \A r : WritesTo(more, k, r) = WritesTo(items, k, r)
  BY <1>1 DEF WritesTo
<1>3. \A r : WritesTo(items, k, r) # {} =>
               more[Max(WritesTo(items, k, r))] = items[Max(WritesTo(items, k, r))]
  <2>. SUFFICES ASSUME NEW r, WritesTo(items, k, r) # {}
                PROVE  more[Max(WritesTo(items, k, r))] = items[Max(WritesTo(items, k, r))]
    OBVIOUS
  <2>1. k - 1 \in Nat /\ WritesTo(items, k, r) \subseteq 1 .. k - 1
    BY DEF WritesTo
  <2>2. Max(WritesTo(items, k, r)) \in 1 .. k - 1
    BY <2>1, MaxIn
  <2>. QED BY <1>1, <2>2
<1>. HIDE DEF more
<1>4. \A r : (IF WritesTo(more, k, r) = {} THEN g[r] ELSE more[Max(WritesTo(more, k, r))].val)
             = IF WritesTo(items, k, r) = {} THEN g[r] ELSE items[Max(WritesTo(items, k, r))].val
  BY <1>2, <1>3
<1>5. RegsAt(g, more, k) = RegsAt(g, items, k)
  BY <1>4 DEF RegsAt
<1>. QED BY <1>5 DEF more

\* What is written last counts, and every other register stays.
LEMMA RegsWritten ==
  ASSUME NEW S, NEW items \in Seq(S), NEW x, NEW g, NEW r \in Registers
  PROVE  RegsAt(g, Append(items, x), Len(Append(items, x)) + 1)[r]
         = IF x.reg = r THEN x.val ELSE RegsAt(g, items, Len(items) + 1)[r]
<1>. DEFINE more == Append(items, x)
            n == Len(items)
<1>1. /\ n \in Nat /\ Len(more) = n + 1
      /\ more[n + 1] = x
      /\ \A i \in 1 .. n : more[i] = items[i]
  OBVIOUS
<1>2. /\ WritesTo(more, Len(more) + 1, r) = {i \in 1 .. n + 1 : more[i].reg = r}
      /\ WritesTo(items, n + 1, r) = {i \in 1 .. n : items[i].reg = r}
  BY <1>1 DEF WritesTo
<1>3. CASE x.reg = r
  <2>. DEFINE T == {i \in 1 .. n + 1 : more[i].reg = r}
  <2>1. n + 1 \in T /\ T \subseteq 1 .. n + 1 /\ n + 1 \in Nat
    BY <1>1, <1>3
  <2>. HIDE DEF T
  <2>2. T # {}
    BY <2>1
  <2>3. Max(T) \in T /\ Max(T) >= n + 1
    BY <2>1, <2>2, MaxIn
  <2>4. Max(T) = n + 1
    <3>1. PICK m \in T : m = Max(T)
      BY <2>3
    <3>2. m \in 1 .. n + 1 /\ m >= n + 1
      BY <2>1, <2>3, <3>1
    <3>3. m = n + 1
      BY <2>1, <3>2
    <3>. QED BY <3>1, <3>3
  <2>. HIDE DEF more
  <2>5. WritesTo(more, Len(more) + 1, r) = T
    BY <1>2 DEF T
  <2>6. RegsAt(g, more, Len(more) + 1)[r] = more[Max(T)].val
    BY <2>2, <2>5 DEF RegsAt
  <2>. QED BY <1>1, <1>3, <2>4, <2>6 DEF more
<1>4. CASE x.reg # r
  <2>1. WritesTo(more, Len(more) + 1, r) = WritesTo(items, n + 1, r)
    <3>1. \A i \in 1 .. n + 1 : i \in 1 .. n \/ i = n + 1
      BY <1>1
    <3>2. 1 .. n \subseteq 1 .. n + 1
      BY <1>1
    <3>. HIDE DEF more
    <3>3. {i \in 1 .. n + 1 : more[i].reg = r} = {i \in 1 .. n : items[i].reg = r}
      BY <1>1, <1>4, <3>1, <3>2, Zenon DEF more
    <3>. QED BY <1>2, <3>3
  <2>. DEFINE T == WritesTo(items, n + 1, r)
  <2>2. CASE T = {}
    BY <1>4, <2>1, <2>2 DEF RegsAt
  <2>3. CASE T # {}
    <3>1. T \subseteq 1 .. n
      BY <1>2
    <3>. HIDE DEF T
    <3>2. Max(T) \in 1 .. n
      BY <1>1, <2>3, <3>1, MaxIn
    <3>3. more[Max(T)] = items[Max(T)]
      BY <1>1, <3>2
    <3>. HIDE DEF more
    <3>4. RegsAt(g, more, Len(more) + 1)[r] = more[Max(T)].val
      BY <2>1, <2>3 DEF RegsAt, T
    <3>5. RegsAt(g, items, n + 1)[r] = items[Max(T)].val
      BY <2>3 DEF RegsAt, T
    <3>. QED BY <1>4, <3>3, <3>4, <3>5 DEF more
  <2>. QED BY <2>2, <2>3
<1>. QED BY <1>3, <1>4

\* An empty batch writes nothing.
LEMMA RegsUntouched ==
  ASSUME NEW items, NEW g, NEW r \in Registers
  PROVE  RegsAt(g, items, 1)[r] = g[r]
<1>1. WritesTo(items, 1, r) = {}
  BY DEF WritesTo
<1>. QED BY <1>1 DEF RegsAt

\* After n items r holds v, whatever it held before.
Always(items, n, r, v) == \A g : RegsAt(g, items, n + 1)[r] = v

\* A register that holds what it did not hold before was written on the way.
LEMMA RegsFromWrites ==
  ASSUME NEW items, NEW n \in Nat, NEW r \in Registers, NEW v, Always(items, n, r, v)
  PROVE  \E i \in 1 .. n : items[i].reg = r /\ items[i].val = v
<1>. DEFINE T == WritesTo(items, n + 1, r)
<1>1. T # {}
  <2>. SUFFICES ASSUME T = {} PROVE FALSE
    OBVIOUS
  <2>1. \A g : RegsAt(g, items, n + 1)[r] = g[r]
    BY DEF RegsAt
  <2>2. \A g : g[r] = v
    BY <2>1 DEF Always
  <2>3. [q \in {r} |-> {v}][r] = v /\ [q \in {r} |-> {}][r] = v
    BY <2>2
  <2>. QED BY <2>3
<1>2. T \subseteq {i \in 1 .. n : items[i].reg = r}
  BY DEF WritesTo
<1>3. Max(T) \in T
  <2>1. T \subseteq 1 .. n
    BY <1>2
  <2>. HIDE DEF T
  <2>. QED BY <1>1, <2>1, MaxIn
<1>4. RegsAt([q \in Registers |-> v], items, n + 1)[r] = items[Max(T)].val
  BY <1>1 DEF RegsAt
<1>5. RegsAt([q \in Registers |-> v], items, n + 1)[r] = v
  BY DEF Always
<1>. QED BY <1>2, <1>3, <1>4, <1>5

-------------------------------------------------------------------------------
(***************************************************************************)
(* What a batch is made of.                                                *)
(***************************************************************************)

GoodItem(w) ==
  /\ w.reg \in Registers \cup {"DRAW_2D"}
  /\ w.reg = "DRAW_2D" => Ready(w.val)
  /\ Relocs(w) \subseteq Surfaces

GoodItems(items) ==
  /\ items \in Seq(Range(items))
  /\ \A k \in 1 .. Len(items) : GoodItem(items[k])

\* Every draw of a batch that begins with g finds what its operation has written.
AllFind(g, items) ==
  \A k \in 1 .. Len(items) :
    items[k].reg = "DRAW_2D" => Finds(RegsAt(g, items, k), items[k].val)

\* A whole draw finds it whatever the batch begins with.
WholeFind(items) ==
  \A k \in 1 .. Len(items) :
    items[k].reg = "DRAW_2D" /\ items[k].whole =>
      \A g : Finds(RegsAt(g, items, k), items[k].val)

\* The first n writes of o are in force at the end of a batch that begins with g.
SoFar(o, n, g, items) ==
  \A i \in 1 .. n :
    i <= Len(Setup(o)) => RegsAt(g, items, Len(items) + 1)[Setup(o)[i].reg] = Setup(o)[i].val

\* A program is the set-up, the draw and a flush of the cache.
LEMMA ProgramShape ==
  ASSUME NEW o \in Op
  PROVE  /\ Len(Setup(o)) \in Nat /\ Len(Program(o)) \in Nat
         /\ Len(Program(o)) = Len(Setup(o)) + 2
         /\ Program(o) \in Seq(Range(Program(o)))
         /\ \A i \in 1 .. Len(Setup(o)) : Program(o)[i] = Setup(o)[i]
         /\ Program(o)[Len(Setup(o)) + 1] = [reg |-> "DRAW_2D", val |-> o]
         /\ Program(o)[Len(Setup(o)) + 2] = [reg |-> "FLUSH_CACHE", val |-> "PE2D"]
<1>. DEFINE s == Setup(o)
            draw == [reg |-> "DRAW_2D", val |-> o]
            flush == [reg |-> "FLUSH_CACHE", val |-> "PE2D"]
            S == Range(s) \cup {draw, flush}
<1>1. s \in Seq(Range(s))
  BY SetupShape DEF Over
<1>2. Program(o) = s \o <<draw>> \o <<flush>>
  BY DEF Program, W
<1>. HIDE DEF s, draw, flush
<1>3. s \in Seq(S) /\ <<draw>> \in Seq(S) /\ <<flush>> \in Seq(S)
  BY <1>1
<1>. HIDE DEF S
<1>4. /\ Program(o) \in Seq(S) /\ Len(s) \in Nat /\ Len(Program(o)) = Len(s) + 2
      /\ \A i \in 1 .. Len(s) : Program(o)[i] = s[i]
      /\ Program(o)[Len(s) + 1] = draw
      /\ Program(o)[Len(s) + 2] = flush
  BY <1>2, <1>3
<1>. QED BY <1>4, SeqOverRange DEF s, draw, flush

\* What viv2d_op_exec emits next: a register it has not written yet, the draw, or
\* the flush of the cache.
NextWrite(o, n, w) ==
  \/ /\ n < Len(Setup(o)) /\ w = Setup(o)[n + 1]
     /\ w.reg \in Registers \ {"FLUSH_CACHE"}
     /\ \A i \in 1 .. n : Setup(o)[i].reg # w.reg
     /\ w.reg = "DEST_ADDRESS" => n = 0
  \/ n = Len(Setup(o)) /\ w = [reg |-> "DRAW_2D", val |-> o]
  \/ n = Len(Setup(o)) + 1 /\ w = [reg |-> "FLUSH_CACHE", val |-> "PE2D"]

\* Every item of a program is one of these.
LEMMA NextWrites ==
  ASSUME NEW o \in Op, NEW n \in Nat, n < Len(Program(o))
  PROVE  NextWrite(o, n, Program(o)[n + 1])
<1>. DEFINE s == Setup(o)
            w == Program(o)[n + 1]
<1>1. /\ Len(s) \in Nat /\ Len(Program(o)) = Len(s) + 2
      /\ \A i \in 1 .. Len(s) : Program(o)[i] = s[i]
      /\ Program(o)[Len(s) + 1] = [reg |-> "DRAW_2D", val |-> o]
      /\ Program(o)[Len(s) + 2] = [reg |-> "FLUSH_CACHE", val |-> "PE2D"]
  BY ProgramShape
<1>2. Over(s, Registers \ {"FLUSH_CACHE"}) /\ Len(s) >= 1 /\ s[1].reg = "DEST_ADDRESS"
  <2>1. Over(s, Registers \ {"FLUSH_CACHE"}) /\ Len(s) >= 1
    BY SetupShape
  <2>2. s[1] = [reg |-> "DEST_ADDRESS", val |-> o.dst]
    BY SetupShape
  <2>. HIDE DEF s
  <2>. QED BY <2>1, <2>2
<1>3. CASE n < Len(s)
  <2>1. n + 1 \in 1 .. Len(s) /\ w = s[n + 1]
    BY <1>1, <1>3
  <2>2. w.reg \in Registers \ {"FLUSH_CACHE"}
    BY <1>2, <2>1 DEF Over
  <2>3. \A i \in 1 .. n : s[i].reg # w.reg
    <3>1. \A i \in 1 .. n : i \in 1 .. Len(s) /\ i # n + 1
      BY <1>1, <1>3
    <3>. QED BY <1>2, <2>1, <3>1 DEF Over
  <2>4. w.reg = "DEST_ADDRESS" => n = 0
    <3>1. 1 \in 1 .. Len(s)
      BY <1>1, <1>2
    <3>2. w.reg = "DEST_ADDRESS" => n + 1 = 1
      BY <1>2, <2>1, <3>1 DEF Over
    <3>. QED BY <3>2
  <2>. QED BY <1>3, <2>1, <2>2, <2>3, <2>4 DEF NextWrite
<1>4. CASE n = Len(s)
  BY <1>1, <1>4 DEF NextWrite
<1>5. CASE n = Len(s) + 1
  BY <1>1, <1>5 DEF NextWrite
<1>6. n < Len(s) \/ n = Len(s) \/ n = Len(s) + 1
  BY <1>1
<1>. QED BY <1>3, <1>4, <1>5, <1>6

\* What an item is.
LEMMA ItemShape ==
  ASSUME NEW w, NEW whole
  PROVE  /\ Item(w, whole).reg = w.reg /\ Item(w, whole).val = w.val
         /\ w.reg = "DRAW_2D" => Item(w, whole).whole = whole
<1>1. CASE w.reg = "DRAW_2D"
  <2>1. Item(w, whole) = [reg |-> w.reg, val |-> w.val, whole |-> whole]
    BY <1>1 DEF Item
  <2>. QED BY <2>1
<1>2. CASE w.reg # "DRAW_2D"
  BY <1>2 DEF Item
<1>. QED BY <1>1, <1>2

\* Neither the draw nor the flush of the cache is a register of the set-up, and a
\* write of the set-up is to a register of its own.
LEMMA NextIsNew ==
  ASSUME NEW o \in Op, NEW n \in Nat, NEW w, NextWrite(o, n, w),
         NEW i \in 1 .. n, i <= Len(Setup(o))
  PROVE  Setup(o)[i].reg \in Registers /\ Setup(o)[i].reg # w.reg
<1>1. Over(Setup(o), Registers \ {"FLUSH_CACHE"})
  BY SetupShape
<1>2. Len(Setup(o)) \in Nat
  BY ProgramShape
<1>3. i \in 1 .. Len(Setup(o))
  BY <1>2
<1>4. Setup(o)[i].reg \in Registers \ {"FLUSH_CACHE"}
  BY <1>1, <1>3 DEF Over
<1>5. "DRAW_2D" \notin Registers
  BY BlocksDistinct DEF Registers
<1>6. CASE n < Len(Setup(o)) /\ \A j \in 1 .. n : Setup(o)[j].reg # w.reg
  BY <1>4, <1>6
<1>7. CASE w.reg = "DRAW_2D" \/ w.reg = "FLUSH_CACHE"
  BY <1>4, <1>5, <1>7
<1>8. w = [reg |-> "DRAW_2D", val |-> o] => w.reg = "DRAW_2D"
  OBVIOUS
<1>9. w = [reg |-> "FLUSH_CACHE", val |-> "PE2D"] => w.reg = "FLUSH_CACHE"
  OBVIOUS
<1>. QED BY <1>6, <1>7, <1>8, <1>9, Zenon DEF NextWrite

\* The draw comes after the set-up.
LEMMA DrawIsNext ==
  ASSUME NEW o \in Op, NEW n \in Nat, NEW w, NextWrite(o, n, w), w.reg = "DRAW_2D"
  PROVE  n = Len(Setup(o)) /\ w.val = o
<1>1. "DRAW_2D" \notin Registers
  BY BlocksDistinct DEF Registers
<1>2. w = [reg |-> "DRAW_2D", val |-> o] => w.val = o
  OBVIOUS
<1>3. w # [reg |-> "FLUSH_CACHE", val |-> "PE2D"]
  OBVIOUS
<1>. QED BY <1>1, <1>2, <1>3, Zenon DEF NextWrite

\* The item that is emitted leaves what the operation has written in force, and
\* adds to it.
LEMMA SoFarAppend ==
  ASSUME NEW o \in Op, NEW n \in Nat, NEW w, NextWrite(o, n, w), NEW whole,
         NEW S, NEW items \in Seq(S), NEW g, SoFar(o, n, g, items)
  PROVE  SoFar(o, n + 1, g, Append(items, Item(w, whole)))
<1>. DEFINE x == Item(w, whole)
            more == Append(items, x)
<1>1. x.reg = w.reg /\ x.val = w.val
  BY ItemShape
<1>. HIDE DEF x
<1>. SUFFICES ASSUME NEW i \in 1 .. n + 1, i <= Len(Setup(o))
              PROVE  RegsAt(g, more, Len(more) + 1)[Setup(o)[i].reg] = Setup(o)[i].val
  BY DEF SoFar, x
<1>2. CASE i \in 1 .. n
  <2>1. Setup(o)[i].reg \in Registers /\ Setup(o)[i].reg # w.reg
    BY <1>2, NextIsNew
  <2>2. RegsAt(g, more, Len(more) + 1)[Setup(o)[i].reg]
          = RegsAt(g, items, Len(items) + 1)[Setup(o)[i].reg]
    BY <1>1, <2>1, RegsWritten
  <2>. QED BY <1>2, <2>2 DEF SoFar
<1>3. CASE i = n + 1
  <2>1. Len(Setup(o)) \in Nat
    BY ProgramShape
  <2>2. ~(n = Len(Setup(o))) /\ ~(n = Len(Setup(o)) + 1)
    BY <1>3, <2>1
  <2>3. w = Setup(o)[i] /\ w.reg \in Registers
    BY <1>3, <2>2 DEF NextWrite
  <2>. QED BY <1>1, <2>3, RegsWritten
<1>. QED BY <1>2, <1>3

\* What has been written is in force for the whole set-up when the draw comes.
LEMMA SoFarFinds ==
  ASSUME NEW o \in Op, NEW g, NEW items, SoFar(o, Len(Setup(o)), g, items)
  PROVE  Finds(RegsAt(g, items, Len(items) + 1), o)
<1>1. Setup(o) \in Seq(Range(Setup(o)))
  BY SetupShape DEF Over
<1>. DEFINE s == Setup(o)
            r == RegsAt(g, items, Len(items) + 1)
<1>2. \A i \in 1 .. Len(s) : r[s[i].reg] = s[i].val
  BY <1>1 DEF SoFar
<1>. SUFFICES ASSUME NEW w \in Range(s) PROVE r[w.reg] = w.val
  BY DEF Finds
<1>. HIDE DEF s, r
<1>3. PICK i \in 1 .. Len(s) : w = s[i]
  BY <1>1 DEF Range, s
<1>. QED BY <1>2, <1>3

\* Whatever is emitted, the draws find what they have to.
LEMMA AllFindAppend ==
  ASSUME NEW o \in Op, NEW n \in Nat, NEW w, NextWrite(o, n, w), NEW whole,
         NEW S, NEW items \in Seq(S), NEW g, SoFar(o, n, g, items), AllFind(g, items)
  PROVE  AllFind(g, Append(items, Item(w, whole)))
<1>. DEFINE x == Item(w, whole)
            more == Append(items, x)
<1>1. x.reg = w.reg /\ x.val = w.val
  BY ItemShape
<1>. HIDE DEF x
<1>. SUFFICES ASSUME NEW k \in 1 .. Len(more), more[k].reg = "DRAW_2D"
              PROVE  Finds(RegsAt(g, more, k), more[k].val)
  BY DEF AllFind, x
<1>2. k \in 1 .. Len(items) + 1 /\ RegsAt(g, more, k) = RegsAt(g, items, k)
  BY RegsKept
<1>3. CASE k \in 1 .. Len(items)
  <2>1. more[k] = items[k]
    BY <1>3
  <2>. QED BY <1>2, <1>3, <2>1 DEF AllFind
<1>4. CASE k = Len(items) + 1
  <2>1. more[k] = x
    BY <1>4
  <2>2. w.reg = "DRAW_2D"
    BY <1>1, <2>1
  <2>3. n = Len(Setup(o)) /\ w.val = o
    BY <2>2, DrawIsNext
  <2>. QED BY <1>1, <1>2, <1>4, <2>1, <2>3, SoFarFinds
<1>. QED BY <1>2, <1>3, <1>4

\* A draw is called whole when none of its writes went with another batch.
LEMMA WholeFindAppend ==
  ASSUME NEW o \in Op, NEW n \in Nat, NEW w, NextWrite(o, n, w), NEW whole,
         NEW S, NEW items \in Seq(S), whole => \A g : SoFar(o, n, g, items), WholeFind(items)
  PROVE  WholeFind(Append(items, Item(w, whole)))
<1>. DEFINE x == Item(w, whole)
            more == Append(items, x)
<1>1. x.reg = w.reg /\ x.val = w.val /\ (w.reg = "DRAW_2D" => x.whole = whole)
  BY ItemShape
<1>. HIDE DEF x
<1>. SUFFICES ASSUME NEW k \in 1 .. Len(more), more[k].reg = "DRAW_2D", more[k].whole, NEW g
              PROVE  Finds(RegsAt(g, more, k), more[k].val)
  BY DEF WholeFind, x
<1>2. k \in 1 .. Len(items) + 1 /\ RegsAt(g, more, k) = RegsAt(g, items, k)
  BY RegsKept
<1>3. CASE k \in 1 .. Len(items)
  <2>1. more[k] = items[k]
    BY <1>3
  <2>. QED BY <1>2, <1>3, <2>1 DEF WholeFind
<1>4. CASE k = Len(items) + 1
  <2>1. more[k] = x
    BY <1>4
  <2>2. w.reg = "DRAW_2D" /\ whole
    BY <1>1, <2>1
  <2>3. n = Len(Setup(o)) /\ w.val = o
    BY <2>2, DrawIsNext
  <2>. QED BY <1>1, <1>2, <1>4, <2>1, <2>2, <2>3, SoFarFinds
<1>. QED BY <1>2, <1>3, <1>4

\* The surfaces the writes of an operation name.
LEMMA RelocsOfSetup ==
  ASSUME NEW o, Ready(o)
  PROVE  /\ \A w \in Range(Setup(o)) : Relocs(w) \subseteq Surfaces
         /\ \A s \in {o.dst} \cup Range(o.srcs) : \E w \in Range(Setup(o)) : s \in Relocs(w)
<1>1. o \in Op /\ o.dst \in Surfaces
  BY DEF Ready, Described, Op
<1>2. o.srcs \in Seq(Surfaces) /\ Len(o.srcs) \in 0 .. 2
  BY <1>1, SrcsType
<1>3. Range(Setup(o)) = OwnWrites(o) \cup Range(SourceWrites(o))
  BY <1>1, SetupShape
<1>0. Relocs([reg |-> "DEST_ADDRESS", val |-> o.dst]) = {o.dst}
  <2>. DEFINE w == [reg |-> "DEST_ADDRESS", val |-> o.dst]
  <2>1. w.reg = "DEST_ADDRESS" /\ w.val = o.dst
    OBVIOUS
  <2>. HIDE DEF w
  <2>2. Relocs(w) = {o.dst}
    BY <2>1, BlocksDistinct DEF Relocs
  <2>. QED BY <2>2 DEF w
<1>4. ASSUME NEW w \in OwnWrites(o) PROVE Relocs(w) \subseteq Surfaces
  <2>1. CASE w = [reg |-> "DEST_ADDRESS", val |-> o.dst]
    BY <1>0, <1>1, <2>1
  <2>2. CASE w.reg \in {"DEST_CONFIG", "STRETCH", "PATTERN", "ROP", "CLEAR", "ALPHA"}
    <3>1. w.reg \notin {"DEST_ADDRESS", "SRC_ADDRESS"} /\ w.reg \notin Range(Blocks)
      BY <2>2, BlocksDistinct
    <3>. QED BY <3>1 DEF Relocs
  <2>. QED BY <1>4, <2>1, <2>2 DEF OwnWrites
<1>5. [reg |-> "DEST_ADDRESS", val |-> o.dst] \in OwnWrites(o)
  BY DEF OwnWrites
<1>6. o.dst \in Relocs([reg |-> "DEST_ADDRESS", val |-> o.dst])
  BY <1>0
<1>7. CASE o.cmd = "multsrcblt"
  <2>. DEFINE last == [reg |-> "MULTI_SOURCE", val |-> Len(o.srcs) - 1]
  <2>1. Range(SourceWrites(o)) = {BlockWrite(o, i) : i \in 1 .. Len(o.srcs)} \cup {last}
    BY <1>1, <1>7, SourceWritesShape
  <2>2. last.reg = "MULTI_SOURCE"
    OBVIOUS
  <2>. HIDE DEF last
  <2>3. Relocs(last) = {}
    BY <2>2, BlocksDistinct DEF Relocs
  <2>4. ASSUME NEW i \in 1 .. Len(o.srcs)
        PROVE  Relocs(BlockWrite(o, i)) = {o.srcs[i]} /\ o.srcs[i] \in Surfaces
    <3>1. i = 1 \/ i = 2
      <4>1. \A n \in 0 .. 2 : \A j \in 1 .. n : j = 1 \/ j = 2
        BY SMT
      <4>. QED BY <1>2, <4>1
    <3>. DEFINE val == [src |-> o.srcs[i], blend |-> BlockBlend(o)]
    <3>2. val.src = o.srcs[i]
      OBVIOUS
    <3>3. BlockWrite(o, i) = [reg |-> Blocks[i], val |-> val]
      BY DEF BlockWrite
    <3>. HIDE DEF val
    <3>4. BlockWrite(o, i).reg = Blocks[i] /\ BlockWrite(o, i).val = val
      BY <3>3
    <3>5. /\ BlockWrite(o, i).reg \in Range(Blocks)
          /\ BlockWrite(o, i).reg \notin {"DEST_ADDRESS", "SRC_ADDRESS"}
      BY <3>1, <3>4, BlocksDistinct
    <3>6. o.srcs[i] \in Surfaces
      BY <1>2
    <3>. QED BY <3>2, <3>4, <3>5, <3>6 DEF Relocs
  <2>5. \A w \in Range(SourceWrites(o)) : Relocs(w) \subseteq Surfaces
    BY <2>1, <2>3, <2>4
  <2>6. \A s \in Range(o.srcs) : \E i \in 1 .. Len(o.srcs) : s = o.srcs[i]
    BY <1>2 DEF Range
  <2>7. \A s \in Range(o.srcs) : \E w \in Range(SourceWrites(o)) : s \in Relocs(w)
    BY <2>1, <2>4, <2>6
  <2>. QED BY <1>3, <1>4, <1>5, <1>6, <2>5, <2>7
<1>8. CASE o.cmd # "multsrcblt" /\ o.srcs # <<>>
  <2>. DEFINE address == [reg |-> "SRC_ADDRESS", val |-> o.srcs[1]]
              config == [reg |-> "SRC_CONFIG", val |-> "MEMORY"]
  <2>1. Range(SourceWrites(o)) = {address, config}
    BY <1>1, <1>8, SourceWritesShape
  <2>2. address.reg = "SRC_ADDRESS" /\ address.val = o.srcs[1] /\ config.reg = "SRC_CONFIG"
    OBVIOUS
  <2>. HIDE DEF address, config
  <2>3. Relocs(address) = {o.srcs[1]} /\ Relocs(config) = {}
    BY <2>2, BlocksDistinct DEF Relocs
  <2>4. Len(o.srcs) = 1
    <3>1. o.srcs = <<>> \/ \E s \in Surfaces : o.srcs = <<s>>
      BY <1>8 DEF Ready, Described, Sources
    <3>2. PICK s \in Surfaces : o.srcs = <<s>>
      BY <1>8, <3>1
    <3>. QED BY <3>2
  <2>5. o.srcs[1] \in Surfaces
    BY <1>2, <2>4
  <2>6. \A s \in Range(o.srcs) : s = o.srcs[1]
    <3>1. DOMAIN o.srcs = {1}
      BY <1>2, <2>4
    <3>. QED BY <3>1 DEF Range
  <2>7. \A w \in Range(SourceWrites(o)) : Relocs(w) \subseteq Surfaces
    BY <2>1, <2>3, <2>5
  <2>8. \A s \in Range(o.srcs) : \E w \in Range(SourceWrites(o)) : s \in Relocs(w)
    BY <2>1, <2>3, <2>6
  <2>. QED BY <1>3, <1>4, <1>5, <1>6, <2>7, <2>8
<1>9. CASE o.cmd # "multsrcblt" /\ o.srcs = <<>>
  <2>1. \A w \in Range(SourceWrites(o)) : w.reg \in {"SRC_CONFIG", "SRC_COLOR"}
    <3>1. CASE o.cmd = "mono_blit"
      BY <1>1, <1>9, <3>1, SourceWritesShape
    <3>2. CASE o.cmd # "mono_blit"
      BY <1>1, <1>9, <3>2, SourceWritesShape
    <3>. QED BY <3>1, <3>2
  <2>3. \A w : w.reg \in {"SRC_CONFIG", "SRC_COLOR"} => Relocs(w) = {}
    BY BlocksDistinct DEF Relocs
  <2>4. Range(o.srcs) = {}
    BY <1>9 DEF Range
  <2>5. \A w \in Range(SourceWrites(o)) : Relocs(w) \subseteq Surfaces
    BY <2>1, <2>3
  <2>. QED BY <1>3, <1>4, <1>5, <1>6, <2>4, <2>5
<1>. QED BY <1>7, <1>8, <1>9

\* What is emitted is an item.
LEMMA NextIsGood ==
  ASSUME NEW o, Ready(o), NEW n \in Nat, NEW w, NextWrite(o, n, w), NEW whole
  PROVE  GoodItem(Item(w, whole))
<1>. DEFINE x == Item(w, whole)
<1>1. x.reg = w.reg /\ x.val = w.val
  BY ItemShape
<1>. HIDE DEF x
<1>2. Relocs(x) = Relocs(w)
  BY <1>1 DEF Relocs
<1>3. o \in Op
  BY DEF Ready, Described
<1>4. "DRAW_2D" \notin Registers /\ "FLUSH_CACHE" \in Registers
  BY BlocksDistinct DEF Registers
<1>5. CASE n < Len(Setup(o)) /\ w = Setup(o)[n + 1] /\ w.reg \in Registers
  <2>1. Setup(o) \in Seq(Range(Setup(o)))
    BY <1>3, SetupShape DEF Over
  <2>2. w \in Range(Setup(o))
    BY <1>5, <2>1
  <2>3. Relocs(w) \subseteq Surfaces
    BY <2>2, RelocsOfSetup
  <2>. QED BY <1>1, <1>2, <1>4, <1>5, <2>3 DEF GoodItem, x
<1>6. CASE w.reg \in {"DRAW_2D", "FLUSH_CACHE"} /\ (w.reg = "DRAW_2D" => w.val = o)
  <2>1. Relocs(w) = {}
    BY <1>6, BlocksDistinct DEF Relocs
  <2>. QED BY <1>1, <1>2, <1>4, <1>6, <2>1 DEF GoodItem, x
<1>7. w = [reg |-> "DRAW_2D", val |-> o] => w.reg = "DRAW_2D" /\ w.val = o
  OBVIOUS
<1>8. w = [reg |-> "FLUSH_CACHE", val |-> "PE2D"] => w.reg = "FLUSH_CACHE"
  OBVIOUS
<1>9. w.reg = "FLUSH_CACHE" => w.reg # "DRAW_2D"
  OBVIOUS
<1>. QED BY <1>5, <1>6, <1>7, <1>8, <1>9 DEF NextWrite

\* What is appended comes last.
LEMMA ItemsOfAppend ==
  ASSUME NEW S, NEW q \in Seq(S), NEW e
  PROVE  /\ Len(Append(q, e)) = Len(q) + 1
         /\ \A k \in 1 .. Len(Append(q, e)) :
              \/ Append(q, e)[k] = e
              \/ k \in 1 .. Len(q) /\ Append(q, e)[k] = q[k]
OBVIOUS

\* A batch that an item is added to.
LEMMA GoodItemsAppend ==
  ASSUME NEW items, GoodItems(items), NEW x, GoodItem(x)
  PROVE  GoodItems(Append(items, x))
<1>1. items \in Seq(Range(items))
  BY DEF GoodItems
<1>2. Append(items, x) \in Seq(Range(Append(items, x)))
  BY <1>1, QueueKept
<1>3. \A k \in 1 .. Len(Append(items, x)) :
        \/ Append(items, x)[k] = x
        \/ k \in 1 .. Len(items) /\ Append(items, x)[k] = items[k]
  BY <1>1, ItemsOfAppend
<1>. QED BY <1>2, <1>3 DEF GoodItems

-------------------------------------------------------------------------------
(***************************************************************************)
(* Where viv2d_op_exec is in its program.                                  *)
(***************************************************************************)

\* The items that have been emitted.
Done == Len(Program(op)) - Len(todo)

\* The operation is one the callers can describe, and what is left to emit is the
\* end of its program.
ExecInv ==
  /\ op # NoOp => Described(op)
  /\ pc = "exec" => /\ Ready(op)
                    /\ todo \in Seq(Range(todo)) /\ Len(todo) <= Len(Program(op))
                    /\ \A i \in 1 .. Len(todo) : todo[i] = Program(op)[Done + i]

\* viv2d_op_exec prepares whatever it is given.
LEMMA PreparedIsReady ==
  ASSUME NEW o, Described(o)
  PROVE  Ready(Prepared(o))
<1>1. Prepared(o) \in Drawable
  BY PreparedIsDrawable DEF Described
<1>2. /\ Prepared(o).cmd = o.cmd /\ Prepared(o).srcs = o.srcs /\ Prepared(o).pat_fill = o.pat_fill
      /\ Prepared(o).rop = IF o.pat_fill THEN "pattern" ELSE o.rop
  BY DEF Prepared, Described, Op
<1>. QED BY <1>1, <1>2 DEF Ready, Described, Drawable

\* Every setter leaves a described operation.
LEMMA EditDescribed ==
  ASSUME Described(op),
         \/ OpAddRect \/ OpSetClipRect \/ OpSetPatFill
         \/ \E c \in Colors : OpSetColor(c)
         \/ \E b \in Blends : OpSetBlend(b)
         \/ \E n \in 0 .. MaxData : OpSetData(n)
  PROVE  Described(op')
<1>1. op \in Op /\ op' \in Op
  BY EditType DEF Described
<1>2. CASE OpSetPatFill
  <2>1. op' = [op EXCEPT !["pat_fill"] = TRUE] /\ op.cmd = "bitblt" /\ op.srcs = <<>>
    BY <1>2 DEF OpSetPatFill, Edit
  <2>2. op'.cmd = op.cmd /\ op'.srcs = op.srcs /\ op'.pat_fill = TRUE
    BY <1>1, <2>1 DEF Op
  <2>. QED BY <1>1, <2>1, <2>2 DEF Described
<1>3. ASSUME NEW f \in {"rects", "clip", "color", "blend", "data"}, NEW v, Edit(f, v)
      PROVE  Described(op')
  <2>1. op' = [op EXCEPT ![f] = v]
    BY <1>3 DEF Edit
  <2>2. op'.cmd = op.cmd /\ op'.srcs = op.srcs /\ op'.pat_fill = op.pat_fill /\ op'.rop = op.rop
    BY <1>1, <1>3, <2>1 DEF Op
  <2>. QED BY <1>1, <2>2 DEF Described
<1>4. CASE OpAddRect \/ OpSetClipRect \/ \E b \in Blends : OpSetBlend(b)
  BY <1>3, <1>4 DEF OpAddRect, OpSetClipRect, OpSetBlend
<1>5. CASE \E c \in Colors : OpSetColor(c)
  BY <1>3, <1>5 DEF OpSetColor
<1>6. CASE \E n \in 0 .. MaxData : OpSetData(n)
  BY <1>3, <1>6 DEF OpSetData
<1>. QED BY <1>2, <1>4, <1>5, <1>6

\* What is emitted next, and how far the program is then.
LEMMA Emitting ==
  ASSUME ExecInv, Emitted
  PROVE  /\ Ready(op) /\ op \in Op /\ op' = op /\ pc' = "exec"
         /\ Done \in Nat /\ NextWrite(op, Done, Head(todo))
         /\ Done' = Done + 1
         /\ ExecInv'
<1>1. /\ Ready(op) /\ op' = op /\ pc' = "exec" /\ todo # <<>> /\ todo' = Tail(todo)
      /\ todo \in Seq(Range(todo)) /\ Len(todo) <= Len(Program(op))
      /\ \A i \in 1 .. Len(todo) : todo[i] = Program(op)[Done + i]
  BY DEF Emitted, ExecInv
<1>2. op \in Op
  BY <1>1 DEF Ready, Described
<1>3. Len(Program(op)) \in Nat
  BY <1>2, ProgramShape
<1>4. /\ Head(todo) = todo[1] /\ 1 \in 1 .. Len(todo) /\ Len(todo) \in Nat
      /\ Len(todo') = Len(todo) - 1 /\ todo' \in Seq(Range(todo))
      /\ \A i \in 1 .. Len(todo) - 1 : todo'[i] = todo[i + 1] /\ i + 1 \in 1 .. Len(todo)
  BY <1>1
<1>. DEFINE p == Len(Program(op))
<1>5. Done = p - Len(todo) /\ Done' = p - Len(todo')
  BY <1>1 DEF Done
<1>. HIDE DEF p
<1>6. Done \in Nat /\ Done < p /\ Done' = Done + 1
  BY <1>1, <1>3, <1>4, <1>5 DEF p
<1>7. Head(todo) = Program(op)[Done + 1]
  BY <1>1, <1>4
<1>8. NextWrite(op, Done, Head(todo))
  BY <1>2, <1>6, <1>7, NextWrites DEF p
<1>9. ExecInv'
  <2>1. todo' \in Seq(Range(todo'))
    BY <1>4, SeqOverRange
  <2>2. Len(todo') <= Len(Program(op'))
    BY <1>1, <1>3, <1>4
  <2>3. ASSUME NEW i \in 1 .. Len(todo') PROVE todo'[i] = Program(op')[Done' + i]
    <3>1. i \in 1 .. Len(todo) - 1
      BY <1>4
    <3>2. todo'[i] = todo[i + 1] /\ todo[i + 1] = Program(op)[Done + (i + 1)]
      BY <1>1, <1>4, <3>1
    <3>3. Done' + i = Done + (i + 1)
      BY <1>6
    <3>. QED BY <1>1, <3>2, <3>3
  <2>4. op # NoOp => Described(op)
    BY DEF ExecInv
  <2>. QED BY <1>1, <2>1, <2>2, <2>3, <2>4 DEF ExecInv
<1>. QED BY <1>1, <1>2, <1>6, <1>8, <1>9

\* No operation at the start.
LEMMA ExecInit == Init => ExecInv
BY DEF Init, ExecInv

\* Callers describe operations, and viv2d_op_exec goes through one program at a
\* time.
LEMMA ExecNext == ExecInv /\ [Next]_vars => ExecInv'
<1>. SUFFICES ASSUME ExecInv, [Next]_vars PROVE ExecInv'
  OBVIOUS
<1>1. ASSUME UNCHANGED op, pc' # "exec" PROVE ExecInv'
  BY <1>1 DEF ExecInv
<1>2. CASE Client
  <2>1. CASE \E cmd \in Cmds, dst \in Surfaces : \E srcs \in Sources(cmd) : OpNew(cmd, srcs, dst)
    <3>1. PICK cmd \in Cmds, dst \in Surfaces : \E srcs \in Sources(cmd) : OpNew(cmd, srcs, dst)
      BY <2>1
    <3>2. PICK srcs \in Sources(cmd) : OpNew(cmd, srcs, dst)
      BY <3>1
    <3>3. srcs \in UNION {Sources(c) : c \in Cmds}
      BY <3>2
    <3>4. /\ op' = [cmd |-> cmd, srcs |-> srcs, dst |-> dst, rects |-> 0, clip |-> "dst",
                    color |-> Black, rop |-> "source", pat_fill |-> FALSE, blend |-> "off",
                    data |-> 0]
          /\ pc' = "idle"
      BY <3>2 DEF OpNew
    <3>5. op' \in Op
      BY <3>3, <3>4, Viv2dExecAssumption DEF Op
    <3>6. op'.cmd = cmd /\ op'.srcs = srcs /\ ~op'.pat_fill /\ op'.rop = "source"
      BY <3>4
    <3>. QED BY <3>4, <3>5, <3>6 DEF ExecInv, Described
  <2>2. CASE \/ OpAddRect \/ OpSetClipRect \/ OpSetPatFill
             \/ \E c \in Colors : OpSetColor(c)
             \/ \E b \in Blends : OpSetBlend(b)
             \/ \E n \in 0 .. MaxData : OpSetData(n)
    <3>1. op # NoOp /\ pc' = "idle"
      BY <2>2 DEF OpAddRect, OpSetClipRect, OpSetBlend, OpSetPatFill, OpSetColor, OpSetData, Edit
    <3>2. Described(op')
      BY <2>2, <3>1, EditDescribed DEF ExecInv
    <3>. QED BY <3>1, <3>2 DEF ExecInv
  <2>3. CASE OpDel
    BY <2>3 DEF OpDel, ExecInv
  <2>4. CASE ExecBegin
    <3>1. Described(op) /\ op' = Prepared(op) /\ todo' = Program(op') /\ pc' = "exec"
      BY <2>4 DEF ExecBegin, ExecInv
    <3>2. Ready(op')
      BY <3>1, PreparedIsReady
    <3>3. op' \in Op
      BY <3>2 DEF Ready, Described
    <3>4. Program(op') \in Seq(Range(Program(op'))) /\ Len(Program(op')) \in Nat
      <4>1. \A o \in Op : Program(o) \in Seq(Range(Program(o))) /\ Len(Program(o)) \in Nat
        BY ProgramShape, Zenon
      <4>. QED BY <3>3, <4>1
    <3>5. Done' = 0
      BY <3>1, <3>4 DEF Done
    <3>6. \A i \in 1 .. Len(todo') : todo'[i] = Program(op')[Done' + i]
      BY <3>1, <3>4, <3>5
    <3>. QED BY <3>1, <3>2, <3>4, <3>6 DEF ExecInv, Ready
  <2>5. CASE Flush \/ Commit
    BY <2>5, <1>1 DEF Flush, Commit, FlushTo
  <2>. QED BY <1>2, <2>1, <2>2, <2>3, <2>4, <2>5 DEF Client
<1>3. CASE Emit \/ FlushAndEmit
  BY <1>3, Emitting DEF Emit, FlushAndEmit
<1>4. CASE ExecReturn \/ CommitReturn
  BY <1>4, <1>1 DEF ExecReturn, CommitReturn
<1>5. CASE RunJob \/ ForeignJob \/ UNCHANGED vars
  <2>1. UNCHANGED <<op, pc, todo>>
    BY <1>5 DEF RunJob, ForeignJob, vars, client
  <2>2. Done' = Done
    BY <2>1 DEF Done
  <2>. QED BY <2>1, <2>2 DEF ExecInv
<1>. QED BY <1>2, <1>3, <1>4, <1>5 DEF Next

-------------------------------------------------------------------------------
(***************************************************************************)
(* Whole draws: what the jobs are made of, whatever runs between them.     *)
(***************************************************************************)

JobGood(j) ==
  /\ GoodItems(j.items) /\ WholeFind(j.items)
  /\ j.bos = Table(j.items)

\* As long as nothing was cut, all that the operation has written is in the batch.
BatchesInv ==
  /\ GoodItems(batch) /\ WholeFind(batch)
  /\ \A i \in 1 .. Len(jobs) : JobGood(jobs[i])
  /\ pc = "exec" /\ ~cut => \A g : SoFar(op, Done, g, batch)

\* A new batch.
LEMMA EmptyBatch ==
  /\ <<>> \in Seq({}) /\ GoodItems(<<>>) /\ WholeFind(<<>>)
  /\ \A g : AllFind(g, <<>>)
  /\ \A x : Append(<<>>, x) = <<x>>
<1>1. <<>> \in Seq({}) /\ Len(<<>>) = 0 /\ \A x : Append(<<>>, x) = <<x>>
  OBVIOUS
<1>2. 1 .. 0 = {}
  BY SMT
<1>. QED BY <1>1, <1>2, SeqOverRange DEF GoodItems, WholeFind, AllFind

\* Nothing is in force before anything is written.
LEMMA SoFarNothing ==
  ASSUME NEW o, NEW g, NEW items
  PROVE  SoFar(o, 0, g, items)
<1>1. 1 .. 0 = {}
  BY SMT
<1>. QED BY <1>1 DEF SoFar

\* The batch becomes a job, or is dropped.
LEMMA SubmitJobs ==
  ASSUME FencesInv, BatchesInv, Submit(batch)
  PROVE  \A i \in 1 .. Len(jobs') : JobGood(jobs'[i])
<1>1. CASE SubmitAccepted(batch)
  <2>. DEFINE job == [fence |-> seqno', items |-> batch, bos |-> Table(batch)]
  <2>1. jobs' = Append(jobs, job)
    BY <1>1 DEF SubmitAccepted
  <2>2. job.items = batch /\ job.bos = Table(batch)
    OBVIOUS
  <2>. HIDE DEF job
  <2>3. JobGood(job)
    BY <2>2 DEF JobGood, BatchesInv
  <2>4. jobs \in Seq(Range(jobs))
    BY DEF FencesInv
  <2>5. \A i \in 1 .. Len(jobs') :
          \/ jobs'[i] = job
          \/ i \in 1 .. Len(jobs) /\ jobs'[i] = jobs[i]
    BY <2>1, <2>4, ItemsOfAppend
  <2>. QED BY <2>3, <2>5 DEF BatchesInv
<1>2. CASE SubmitRefused
  BY <1>2 DEF SubmitRefused, BatchesInv
<1>. QED BY <1>1, <1>2 DEF Submit

\* Nothing is collected at the start.
LEMMA BatchesInit == Init => BatchesInv
<1>. SUFFICES ASSUME Init PROVE BatchesInv
  OBVIOUS
<1>1. batch = <<>> /\ jobs = <<>> /\ pc = "idle" /\ Len(<<>>) = 0
  BY DEF Init
<1>2. 1 .. 0 = {}
  BY SMT
<1>. QED BY <1>1, <1>2, EmptyBatch DEF BatchesInv

\* Only the first write of an operation may begin a batch of a whole draw.
LEMMA BatchesNext == FencesInv /\ ExecInv /\ BatchesInv /\ [Next]_vars => BatchesInv'
<1>. SUFFICES ASSUME FencesInv, ExecInv, BatchesInv, [Next]_vars PROVE BatchesInv'
  OBVIOUS
<1>1. ASSUME UNCHANGED <<batch, jobs>>, pc' # "exec" PROVE BatchesInv'
  BY <1>1 DEF BatchesInv
<1>2. CASE Client
  <2>1. CASE \/ \E cmd \in Cmds, dst \in Surfaces : \E srcs \in Sources(cmd) : OpNew(cmd, srcs, dst)
             \/ OpAddRect \/ OpSetClipRect \/ OpSetPatFill \/ OpDel
             \/ \E c \in Colors : OpSetColor(c)
             \/ \E b \in Blends : OpSetBlend(b)
             \/ \E n \in 0 .. MaxData : OpSetData(n)
    <3>1. UNCHANGED <<batch, jobs>> /\ pc' = "idle"
      BY <2>1 DEF OpNew, OpAddRect, OpSetClipRect, OpSetBlend, OpSetPatFill, OpDel,
                  OpSetColor, OpSetData, Edit, stream
    <3>. QED BY <3>1, <1>1
  <2>2. CASE ExecBegin
    <3>1. UNCHANGED <<batch, jobs>> /\ Ready(op') /\ todo' = Program(op')
      <4>1. Described(op) /\ op' = Prepared(op)
        BY <2>2 DEF ExecBegin, ExecInv
      <4>2. Ready(op')
        BY <4>1, PreparedIsReady
      <4>. QED BY <2>2, <4>2 DEF ExecBegin, stream
    <3>2. Len(Program(op')) \in Nat
      <4>1. \A o \in Op : Len(Program(o)) \in Nat
        BY ProgramShape, Zenon
      <4>. QED BY <3>1, <4>1 DEF Ready, Described
    <3>3. Done' = 0
      BY <3>1, <3>2 DEF Done
    <3>4. \A g : SoFar(op', Done', g, batch')
      BY <3>3, SoFarNothing
    <3>. QED BY <3>1, <3>4 DEF BatchesInv
  <2>3. CASE Flush \/ Commit
    <3>1. Submit(batch) /\ batch' = <<>> /\ pc' # "exec"
      BY <2>3 DEF Flush, Commit, FlushTo
    <3>. QED BY <3>1, SubmitJobs, EmptyBatch DEF BatchesInv
  <2>. QED BY <1>2, <2>1, <2>2, <2>3 DEF Client
<1>3. CASE Emit
  <2>1. /\ Ready(op) /\ op \in Op /\ op' = op
        /\ Done \in Nat /\ NextWrite(op, Done, Head(todo)) /\ Done' = Done + 1
    BY <1>3, Emitting DEF Emit
  <2>2. PICK n \in Nat, w \in {Head(todo)} : n = Done /\ w = Head(todo)
    BY <2>1
  <2>3. PICK whole \in BOOLEAN : whole = ~cut
    OBVIOUS
  <2>4. batch' = Append(batch, Item(w, whole)) /\ cut' = cut /\ jobs' = jobs
    BY <1>3, <2>2, <2>3 DEF Emit
  <2>5. batch \in Seq(Range(batch))
    BY DEF BatchesInv, GoodItems
  <2>6. whole => \A g : SoFar(op, n, g, batch)
    BY <1>3, <2>2, <2>3 DEF BatchesInv, Emit, Emitted
  <2>7. NextWrite(op, n, w)
    BY <2>1, <2>2
  <2>8. GoodItems(batch')
    BY <2>1, <2>4, <2>7, NextIsGood, GoodItemsAppend DEF BatchesInv
  <2>9. WholeFind(batch')
    BY <2>1, <2>4, <2>5, <2>6, <2>7, WholeFindAppend DEF BatchesInv
  <2>10. ASSUME ~cut' PROVE \A g : SoFar(op', Done', g, batch')
    <3>1. \A g : SoFar(op, n, g, batch)
      BY <2>3, <2>4, <2>6, <2>10
    <3>2. \A g : SoFar(op, n + 1, g, Append(batch, Item(w, whole)))
      BY <2>1, <2>5, <2>7, <3>1, SoFarAppend
    <3>. QED BY <2>1, <2>2, <2>4, <3>2
  <2>. QED BY <2>4, <2>8, <2>9, <2>10 DEF BatchesInv
<1>4. CASE FlushAndEmit
  <2>1. /\ Ready(op) /\ op \in Op /\ op' = op
        /\ Done \in Nat /\ NextWrite(op, Done, Head(todo)) /\ Done' = Done + 1
    BY <1>4, Emitting DEF FlushAndEmit
  <2>2. PICK n \in Nat, w \in {Head(todo)} : n = Done /\ w = Head(todo)
    BY <2>1
  <2>3. PICK whole \in BOOLEAN : whole = ~cut'
    OBVIOUS
  <2>4. batch' = Append(<<>>, Item(w, whole)) /\ Submit(batch)
    BY <1>4, <2>2, <2>3, EmptyBatch DEF FlushAndEmit
  <2>5. NextWrite(op, n, w)
    BY <2>1, <2>2
  <2>6. ASSUME whole PROVE n = 0
    <3>1. w.reg = "DEST_ADDRESS"
      BY <1>4, <2>2, <2>3, <2>6 DEF FlushAndEmit
    <3>2. w # [reg |-> "DRAW_2D", val |-> op] /\ w # [reg |-> "FLUSH_CACHE", val |-> "PE2D"]
      BY <3>1
    <3>. QED BY <2>5, <3>1, <3>2 DEF NextWrite
  <2>7. whole => \A g : SoFar(op, n, g, <<>>)
    BY <2>6, SoFarNothing
  <2>8. GoodItems(batch')
    BY <2>1, <2>4, <2>5, NextIsGood, GoodItemsAppend, EmptyBatch
  <2>9. WholeFind(batch')
    BY <2>1, <2>4, <2>5, <2>7, WholeFindAppend, EmptyBatch
  <2>10. ASSUME ~cut' PROVE \A g : SoFar(op', Done', g, batch')
    <3>1. \A g : SoFar(op, n, g, <<>>)
      BY <2>3, <2>7, <2>10
    <3>2. \A g : SoFar(op, n + 1, g, Append(<<>>, Item(w, whole)))
      BY <2>1, <2>5, <3>1, SoFarAppend, EmptyBatch
    <3>. QED BY <2>1, <2>2, <2>4, <3>2
  <2>11. \A i \in 1 .. Len(jobs') : JobGood(jobs'[i])
    BY <2>4, SubmitJobs
  <2>. QED BY <2>8, <2>9, <2>10, <2>11 DEF BatchesInv
<1>5. CASE ExecReturn \/ CommitReturn
  <2>1. UNCHANGED <<batch, jobs>> /\ pc' = "idle"
    BY <1>5 DEF ExecReturn, CommitReturn, stream
  <2>. QED BY <2>1, <1>1
<1>6. CASE ForeignJob \/ UNCHANGED vars
  <2>1. UNCHANGED <<op, pc, todo, cut, batch, jobs>>
    BY <1>6 DEF ForeignJob, vars, client, stream
  <2>2. Done' = Done
    BY <2>1 DEF Done
  <2>. QED BY <2>1, <2>2 DEF BatchesInv
<1>7. CASE RunJob
  <2>1. UNCHANGED <<op, pc, todo, cut, batch>> /\ jobs' = Tail(jobs) /\ jobs # <<>>
    BY <1>7 DEF RunJob, client, stream
  <2>2. Done' = Done
    BY <2>1 DEF Done
  <2>3. jobs \in Seq(Range(jobs))
    BY DEF FencesInv
  <2>4. \A i \in 1 .. Len(jobs') : i + 1 \in 1 .. Len(jobs) /\ jobs'[i] = jobs[i + 1]
    BY <2>1, <2>3
  <2>. QED BY <2>1, <2>2, <2>4 DEF BatchesInv
<1>. QED BY <1>2, <1>3, <1>4, <1>5, <1>6, <1>7 DEF Next

\* Every whole draw of a job lists the surfaces it uses: what it has written to
\* name them is in the job.
LEMMA WholeDrawsListed ==
  ASSUME NEW j, JobGood(j), NEW k \in 1 .. Len(j.items),
         j.items[k].reg = "DRAW_2D", j.items[k].whole
  PROVE  {j.items[k].val.dst} \cup Range(j.items[k].val.srcs) \subseteq j.bos
<1>. DEFINE items == j.items
            o == items[k].val
<1>1. Ready(o) /\ o \in Op
  BY DEF JobGood, GoodItems, GoodItem, Ready, Described
<1>2. \A g : Finds(RegsAt(g, items, k), o)
  BY DEF JobGood, WholeFind
<1>3. items \in Seq(Range(items)) /\ Len(items) \in Nat /\ k - 1 \in Nat /\ (k - 1) + 1 = k
  BY DEF JobGood, GoodItems
<1>4. j.bos = Table(items)
  BY DEF JobGood
<1>. HIDE DEF items, o
<1>5. Over(Setup(o), Registers \ {"FLUSH_CACHE"})
  BY <1>1, SetupShape
<1>. SUFFICES ASSUME NEW s \in {o.dst} \cup Range(o.srcs) PROVE s \in j.bos
  BY DEF o, items
<1>6. PICK w \in Range(Setup(o)) : s \in Relocs(w)
  BY <1>1, RelocsOfSetup
<1>7. w.reg \in Registers
  BY <1>5 DEF Over, Range
<1>8. PICK n \in Nat : n = k - 1 /\ n + 1 = k
  BY <1>3
<1>9. PICK i \in 1 .. k - 1 : items[i].reg = w.reg /\ items[i].val = w.val
  <2>1. \A g : RegsAt(g, items, n + 1)[w.reg] = w.val
    BY <1>2, <1>8 DEF Finds
  <2>2. Always(items, n, w.reg, w.val)
    BY <2>1 DEF Always
  <2>0. \A q, v : \A m \in Nat, r \in Registers :
          Always(q, m, r, v) => \E i \in 1 .. m : q[i].reg = r /\ q[i].val = v
    BY RegsFromWrites
  <2>3. \E i \in 1 .. n : items[i].reg = w.reg /\ items[i].val = w.val
    <3>1. n \in Nat
      OBVIOUS
    <3>2. Always(items, n, w.reg, w.val) => \E i \in 1 .. n : items[i].reg = w.reg /\ items[i].val = w.val
      BY <1>7, <2>0, <3>1
    <3>. QED BY <2>2, <3>2, Zenon
  <2>. QED BY <1>8, <2>3
<1>10. Relocs(items[i]) = Relocs(w)
  BY <1>9 DEF Relocs
<1>11. i \in 1 .. Len(items)
  BY <1>3, <1>9 DEF items
<1>. QED BY <1>4, <1>6, <1>10, <1>11 DEF Table

\* A job lists the surfaces its whole draws use, whatever was cut, refused or drawn
\* by others around it (viv2d.c:407-704, etnaviv.c:371-420).
THEOREM WholeOpsAreListed == Spec => []WholeOpsAreSynced
<1>1. BatchesInv => WholeOpsAreSynced
  <2>. SUFFICES ASSUME BatchesInv, NEW i \in 1 .. Len(jobs), NEW d \in Draws(jobs[i].items), d.whole
                PROVE  {d.val.dst} \cup Range(d.val.srcs) \subseteq jobs[i].bos
    BY DEF WholeOpsAreSynced
  <2>1. JobGood(jobs[i])
    BY DEF BatchesInv
  <2>2. PICK k \in 1 .. Len(jobs[i].items) : jobs[i].items[k].reg = "DRAW_2D" /\ d = jobs[i].items[k]
    BY DEF Draws
  <2>. QED BY <2>1, <2>2, WholeDrawsListed
<1>. QED BY FencesInit, FencesNext, ExecInit, ExecNext, BatchesInit, BatchesNext, <1>1, PTL DEF Spec

-------------------------------------------------------------------------------
(***************************************************************************)
(* Draws that were cut: the registers from one job to the next.            *)
(***************************************************************************)

\* G[i] is what the GPU's registers hold when it comes to job i, and at the end of
\* the queue, to the batch.
Chain(G) ==
  /\ G[1] = regs
  /\ \A i \in 1 .. Len(jobs) :
       /\ G[i + 1] = RegsAt(G[i], jobs[i].items, Len(jobs[i].items) + 1)
       /\ AllFind(G[i], jobs[i].items)

\* Undisturbed, every draw finds what its operation has written, and what has been
\* written so far is in force where the next item goes.
ChainInv ==
  ~disturbed =>
    \E G : /\ Chain(G)
           /\ AllFind(G[Len(jobs) + 1], batch)
           /\ pc = "exec" => SoFar(op, Done, G[Len(jobs) + 1], batch)

\* A job that is accepted is one more link.
LEMMA ChainSubmit ==
  ASSUME FencesInv, NEW G, Chain(G), AllFind(G[Len(jobs) + 1], batch),
         SubmitAccepted(batch), UNCHANGED regs
  PROVE  \E H : /\ Chain(H)'
                /\ H[Len(jobs') + 1] = RegsAt(G[Len(jobs) + 1], batch, Len(batch) + 1)
<1>1. PICK n : n = Len(jobs)
  OBVIOUS
<1>2. PICK last : last = RegsAt(G[n + 1], batch, Len(batch) + 1)
  OBVIOUS
<1>. DEFINE H == [i \in 1 .. n + 2 |-> IF i <= n + 1 THEN G[i] ELSE last]
            job == [fence |-> seqno', items |-> batch, bos |-> Table(batch)]
<1>3. jobs' = Append(jobs, job)
  BY DEF SubmitAccepted
<1>4. job.items = batch
  OBVIOUS
<1>. HIDE DEF job
<1>5. /\ jobs \in Seq(Range(jobs)) /\ n \in Nat
  BY <1>1 DEF FencesInv
<1>6. /\ Len(jobs') = n + 1
      /\ jobs'[n + 1] = job
      /\ \A i \in 1 .. n : jobs'[i] = jobs[i]
  BY <1>1, <1>3, <1>5
<1>7. /\ \A i \in 1 .. n + 1 : H[i] = G[i]
      /\ H[n + 2] = last
  BY <1>5
<1>. HIDE DEF H
<1>8. H[1] = regs'
  <2>1. 1 \in 1 .. n + 1
    BY <1>5
  <2>. QED BY <1>7, <2>1 DEF Chain
<1>9. ASSUME NEW i \in 1 .. Len(jobs')
      PROVE  /\ H[i + 1] = RegsAt(H[i], jobs'[i].items, Len(jobs'[i].items) + 1)
             /\ AllFind(H[i], jobs'[i].items)
  <2>1. CASE i \in 1 .. n
    <3>1. i \in 1 .. n + 1 /\ i + 1 \in 1 .. n + 1
      BY <1>5, <2>1
    <3>. QED BY <1>1, <1>6, <1>7, <2>1, <3>1 DEF Chain
  <2>2. CASE i = n + 1
    <3>1. n + 1 \in 1 .. n + 1 /\ (n + 1) + 1 = n + 2
      BY <1>5
    <3>2. H[i] = G[n + 1] /\ H[i + 1] = last /\ jobs'[i].items = batch
      BY <1>4, <1>6, <1>7, <2>2, <3>1
    <3>. QED BY <1>1, <1>2, <3>2
  <2>. QED BY <1>5, <1>6, <2>1, <2>2
<1>10. Chain(H)'
  BY <1>8, <1>9 DEF Chain
<1>11. Len(jobs') + 1 = n + 2
  BY <1>5, <1>6
<1>. QED BY <1>1, <1>2, <1>7, <1>10, <1>11

\* The registers are nobody's at the start.
LEMMA ChainInit == Init => ChainInv
<1>. SUFFICES ASSUME Init PROVE ChainInv
  OBVIOUS
<1>. DEFINE G == [i \in {1} |-> regs]
<1>1. G[1] = regs
  OBVIOUS
<1>. HIDE DEF G
<1>2. batch = <<>> /\ jobs = <<>> /\ pc = "idle" /\ Len(<<>>) = 0 /\ 0 + 1 = 1
  BY DEF Init
<1>3. 1 .. 0 = {}
  BY SMT
<1>4. Chain(G)
  BY <1>1, <1>2, <1>3 DEF Chain
<1>. QED BY <1>2, <1>4, EmptyBatch DEF ChainInv

\* What is in force at the end of a batch is in force at the start of the next.
LEMMA SoFarCarried ==
  ASSUME NEW o \in Op, NEW n \in Nat, NEW g, NEW items, SoFar(o, n, g, items)
  PROVE  SoFar(o, n, RegsAt(g, items, Len(items) + 1), <<>>)
<1>. SUFFICES ASSUME NEW i \in 1 .. n, i <= Len(Setup(o))
              PROVE  RegsAt(RegsAt(g, items, Len(items) + 1), <<>>, Len(<<>>) + 1)[Setup(o)[i].reg]
                     = Setup(o)[i].val
  BY DEF SoFar
<1>1. Over(Setup(o), Registers \ {"FLUSH_CACHE"}) /\ Len(Setup(o)) \in Nat
  BY SetupShape, ProgramShape
<1>2. i \in 1 .. Len(Setup(o))
  BY <1>1
<1>3. Setup(o)[i].reg \in Registers
  BY <1>1, <1>2 DEF Over
<1>4. Len(<<>>) + 1 = 1
  OBVIOUS
<1>. QED BY <1>3, <1>4, RegsUntouched DEF SoFar

\* Emitting, cutting, submitting and running keep the chain; a refused job or
\* another process's ends what it says.
LEMMA ChainNext == FencesInv /\ ExecInv /\ BatchesInv /\ ChainInv /\ [Next]_vars => ChainInv'
<1>. SUFFICES ASSUME FencesInv, ExecInv, BatchesInv, ChainInv, [Next]_vars, ~disturbed' PROVE ChainInv'
  BY DEF ChainInv
<1>1. ~disturbed
  <2>1. ASSUME NEW items, Submit(items) PROVE ~disturbed
    BY <2>1 DEF Submit, SubmitAccepted, SubmitRefused
  <2>2. CASE Client
    BY <2>1, <2>2 DEF Client, OpNew, OpAddRect, OpSetClipRect, OpSetBlend, OpSetPatFill, OpDel,
                     OpSetColor, OpSetData, Edit, ExecBegin, Flush, Commit, FlushTo
  <2>3. CASE \/ Emit \/ FlushAndEmit \/ ExecReturn \/ CommitReturn \/ RunJob \/ ForeignJob
             \/ UNCHANGED vars
    BY <2>1, <2>3 DEF Emit, FlushAndEmit, ExecReturn, CommitReturn, RunJob, ForeignJob, vars
  <2>. QED BY <2>2, <2>3 DEF Next
<1>2. PICK G : /\ Chain(G)
               /\ AllFind(G[Len(jobs) + 1], batch)
               /\ pc = "exec" => SoFar(op, Done, G[Len(jobs) + 1], batch)
  BY <1>1 DEF ChainInv
<1>3. ASSUME UNCHANGED <<batch, jobs, regs>>, pc' # "exec" PROVE ChainInv'
  <2>1. Chain(G)'
    BY <1>2, <1>3 DEF Chain
  <2>. QED BY <1>2, <1>3, <2>1 DEF ChainInv
<1>4. CASE Client
  <2>1. CASE \/ \E cmd \in Cmds, dst \in Surfaces : \E srcs \in Sources(cmd) : OpNew(cmd, srcs, dst)
             \/ OpAddRect \/ OpSetClipRect \/ OpSetPatFill \/ OpDel
             \/ \E c \in Colors : OpSetColor(c)
             \/ \E b \in Blends : OpSetBlend(b)
             \/ \E n \in 0 .. MaxData : OpSetData(n)
    <3>1. UNCHANGED <<batch, jobs, regs>> /\ pc' = "idle"
      BY <2>1 DEF OpNew, OpAddRect, OpSetClipRect, OpSetBlend, OpSetPatFill, OpDel,
                  OpSetColor, OpSetData, Edit, stream
    <3>. QED BY <3>1, <1>3
  <2>2. CASE ExecBegin
    <3>1. UNCHANGED <<batch, jobs, regs>> /\ Ready(op') /\ todo' = Program(op')
      <4>1. Described(op) /\ op' = Prepared(op)
        BY <2>2 DEF ExecBegin, ExecInv
      <4>2. Ready(op')
        BY <4>1, PreparedIsReady
      <4>. QED BY <2>2, <4>2 DEF ExecBegin, stream
    <3>2. Len(Program(op')) \in Nat
      <4>1. \A o \in Op : Len(Program(o)) \in Nat
        BY ProgramShape, Zenon
      <4>. QED BY <3>1, <4>1 DEF Ready, Described
    <3>3. Done' = 0
      BY <3>1, <3>2 DEF Done
    <3>4. SoFar(op', Done', G[Len(jobs') + 1], batch')
      BY <3>3, SoFarNothing
    <3>5. Chain(G)'
      BY <1>2, <3>1 DEF Chain
    <3>. QED BY <1>2, <3>1, <3>4, <3>5 DEF ChainInv
  <2>3. CASE Flush \/ Commit
    <3>1. Submit(batch) /\ batch' = <<>> /\ pc' # "exec" /\ UNCHANGED regs
      BY <2>3 DEF Flush, Commit, FlushTo
    <3>2. SubmitAccepted(batch)
      BY <3>1 DEF Submit, SubmitRefused
    <3>3. PICK H : Chain(H)'
      BY <1>2, <3>1, <3>2, ChainSubmit
    <3>4. AllFind(H[Len(jobs') + 1], batch')
      BY <3>1, EmptyBatch
    <3>. QED BY <3>1, <3>3, <3>4 DEF ChainInv
  <2>. QED BY <1>4, <2>1, <2>2, <2>3 DEF Client
<1>5. CASE Emit
  <2>1. /\ op \in Op /\ op' = op /\ pc = "exec"
        /\ Done \in Nat /\ NextWrite(op, Done, Head(todo)) /\ Done' = Done + 1
    BY <1>5, Emitting DEF Emit, Emitted
  <2>2. PICK n \in Nat, w \in {Head(todo)}, g \in {G[Len(jobs) + 1]} :
               n = Done /\ w = Head(todo) /\ g = G[Len(jobs) + 1]
    BY <2>1
  <2>3. PICK whole \in BOOLEAN : whole = ~cut
    OBVIOUS
  <2>4. batch' = Append(batch, Item(w, whole)) /\ UNCHANGED <<jobs, regs>>
    BY <1>5, <2>2, <2>3 DEF Emit, Emitted
  <2>5. batch \in Seq(Range(batch))
    BY DEF BatchesInv, GoodItems
  <2>6. NextWrite(op, n, w) /\ SoFar(op, n, g, batch) /\ AllFind(g, batch)
    BY <1>2, <2>1, <2>2
  <2>7. AllFind(g, batch')
    BY <2>1, <2>4, <2>5, <2>6, AllFindAppend
  <2>8. SoFar(op', Done', g, batch')
    <3>1. SoFar(op, n + 1, g, Append(batch, Item(w, whole)))
      BY <2>1, <2>5, <2>6, SoFarAppend
    <3>. QED BY <2>1, <2>2, <2>4, <3>1
  <2>9. Chain(G)'
    BY <1>2, <2>4 DEF Chain
  <2>10. G[Len(jobs') + 1] = g
    BY <2>2, <2>4
  <2>. QED BY <2>7, <2>8, <2>9, <2>10 DEF ChainInv
<1>6. CASE FlushAndEmit
  <2>1. /\ op \in Op /\ op' = op /\ pc = "exec"
        /\ Done \in Nat /\ NextWrite(op, Done, Head(todo)) /\ Done' = Done + 1
    BY <1>6, Emitting DEF FlushAndEmit, Emitted
  <2>2. PICK n \in Nat, w \in {Head(todo)} : n = Done /\ w = Head(todo)
    BY <2>1
  <2>3. PICK whole \in BOOLEAN : whole = ~cut'
    OBVIOUS
  <2>4. batch' = Append(<<>>, Item(w, whole)) /\ SubmitAccepted(batch) /\ UNCHANGED regs
    BY <1>6, <2>2, <2>3, EmptyBatch DEF FlushAndEmit, Emitted, Submit, SubmitRefused
  <2>5. PICK H : /\ Chain(H)'
                 /\ H[Len(jobs') + 1] = RegsAt(G[Len(jobs) + 1], batch, Len(batch) + 1)
    BY <1>2, <2>4, ChainSubmit
  <2>6. PICK g, h : g = G[Len(jobs) + 1] /\ h = RegsAt(g, batch, Len(batch) + 1)
    OBVIOUS
  <2>7. SoFar(op, n, h, <<>>)
    <3>1. SoFar(op, n, g, batch)
      BY <1>2, <2>1, <2>2, <2>6
    <3>. QED BY <2>1, <2>6, <3>1, SoFarCarried
  <2>8. NextWrite(op, n, w)
    BY <2>1, <2>2
  <2>9. AllFind(h, batch')
    BY <2>1, <2>4, <2>7, <2>8, AllFindAppend, EmptyBatch
  <2>10. SoFar(op', Done', h, batch')
    <3>1. SoFar(op, n + 1, h, Append(<<>>, Item(w, whole)))
      BY <2>1, <2>7, <2>8, SoFarAppend, EmptyBatch
    <3>. QED BY <2>1, <2>2, <2>4, <3>1
  <2>11. H[Len(jobs') + 1] = h
    BY <2>5, <2>6
  <2>. QED BY <2>5, <2>9, <2>10, <2>11 DEF ChainInv
<1>7. CASE ExecReturn \/ CommitReturn
  <2>1. UNCHANGED <<batch, jobs, regs>> /\ pc' = "idle"
    BY <1>7 DEF ExecReturn, CommitReturn, stream
  <2>. QED BY <2>1, <1>3
<1>8. CASE ForeignJob
  BY <1>8 DEF ForeignJob, ChainInv
<1>9. CASE UNCHANGED vars
  <2>1. UNCHANGED <<op, pc, todo, batch, jobs, regs>>
    BY <1>9 DEF vars, client, stream
  <2>2. Done' = Done
    BY <2>1 DEF Done
  <2>3. Chain(G)'
    BY <1>2, <2>1 DEF Chain
  <2>. QED BY <1>2, <2>1, <2>2, <2>3 DEF ChainInv
<1>10. CASE RunJob
  <2>1. /\ UNCHANGED <<op, pc, todo, batch>> /\ jobs' = Tail(jobs) /\ jobs # <<>>
        /\ regs' = RegsAt(regs, Head(jobs).items, Len(Head(jobs).items) + 1)
    BY <1>10 DEF RunJob, client, stream
  <2>2. Done' = Done
    BY <2>1 DEF Done
  <2>3. PICK n : n = Len(jobs)
    OBVIOUS
  <2>4. /\ jobs \in Seq(Range(jobs)) /\ n \in Nat /\ n >= 1 /\ 1 \in 1 .. n
        /\ Head(jobs) = jobs[1] /\ Len(jobs') = n - 1
        /\ \A i \in 1 .. n - 1 : i + 1 \in 1 .. n /\ jobs'[i] = jobs[i + 1]
    BY <2>1, <2>3 DEF FencesInv
  <2>. DEFINE H == [i \in 1 .. n |-> G[i + 1]]
  <2>5. \A i \in 1 .. n : H[i] = G[i + 1]
    OBVIOUS
  <2>. HIDE DEF H
  <2>6. H[1] = regs'
    <3>1. G[1 + 1] = RegsAt(G[1], jobs[1].items, Len(jobs[1].items) + 1) /\ G[1] = regs
      BY <1>2, <2>3, <2>4 DEF Chain
    <3>. QED BY <2>1, <2>4, <2>5, <3>1
  <2>7. ASSUME NEW i \in 1 .. Len(jobs')
        PROVE  /\ H[i + 1] = RegsAt(H[i], jobs'[i].items, Len(jobs'[i].items) + 1)
               /\ AllFind(H[i], jobs'[i].items)
    <3>1. i \in 1 .. n - 1 /\ i \in 1 .. n /\ i + 1 \in 1 .. n
      BY <2>4
    <3>2. H[i] = G[i + 1] /\ H[i + 1] = G[(i + 1) + 1] /\ jobs'[i] = jobs[i + 1]
      BY <2>4, <2>5, <3>1
    <3>3. /\ G[(i + 1) + 1] = RegsAt(G[i + 1], jobs[i + 1].items, Len(jobs[i + 1].items) + 1)
          /\ AllFind(G[i + 1], jobs[i + 1].items)
      BY <1>2, <2>3, <3>1 DEF Chain
    <3>. QED BY <3>2, <3>3
  <2>8. Chain(H)'
    BY <2>6, <2>7 DEF Chain
  <2>9. H[Len(jobs') + 1] = G[Len(jobs) + 1]
    <3>1. Len(jobs') + 1 = n /\ n \in 1 .. n
      BY <2>4
    <3>. QED BY <2>3, <2>5, <3>1
  <2>. QED BY <1>2, <2>1, <2>2, <2>8, <2>9 DEF ChainInv
<1>. QED BY <1>4, <1>5, <1>6, <1>7, <1>8, <1>9, <1>10 DEF Next

\* A draw does what its operation asks for in everything viv2d_op_exec does not
\* drop (Dropped: the color of a line or a mono blit, the mode of a multi-source
\* blit that is not blended over), whatever was drawn before it, wherever the stream
\* was cut and whatever the other operations were: undisturbed always, and whole
\* even after a refused job or another process's (viv2d.c:371-704).
THEOREM DrawsDoAsAsked ==
  ASSUME Cmds \subseteq Handled
  PROVE  Spec => []DrawsAsAsked
<1>1. FencesInv /\ BatchesInv /\ ChainInv => DrawsAsAsked
  <2>. SUFFICES ASSUME FencesInv, BatchesInv, ChainInv, NEW d \in Drawn, d.whole \/ ~disturbed
                PROVE  Agrees(d.regs, d.op)
    BY DEF DrawsAsAsked, Agrees
  <2>. DEFINE items == Head(jobs).items
  <2>1. jobs # <<>>
    BY DEF Drawn
  <2>2. PICK k \in 1 .. Len(items) :
          /\ items[k].reg = "DRAW_2D"
          /\ d = [op |-> items[k].val, whole |-> items[k].whole, regs |-> RegsAt(regs, items, k)]
    BY <2>1 DEF Drawn
  <2>3. Head(jobs) = jobs[1] /\ 1 \in 1 .. Len(jobs)
    BY <2>1 DEF FencesInv
  <2>4. GoodItems(items) /\ WholeFind(items)
    BY <2>3 DEF BatchesInv, JobGood
  <2>5. ~disturbed => AllFind(regs, items)
    BY <2>3 DEF ChainInv, Chain
  <2>. HIDE DEF items
  <2>6. d.op = items[k].val /\ d.whole = items[k].whole /\ d.regs = RegsAt(regs, items, k)
    BY <2>2
  <2>7. Finds(d.regs, d.op)
    BY <2>2, <2>4, <2>5, <2>6 DEF WholeFind, AllFind
  <2>8. Ready(d.op)
    BY <2>2, <2>4, <2>6 DEF GoodItems, GoodItem
  <2>9. d.op.cmd \in Handled
    BY <2>8 DEF Ready, Described, Op
  <2>. QED BY <2>7, <2>8, <2>9, EffectOfSetup
<1>. QED BY FencesInit, FencesNext, ExecInit, ExecNext, BatchesInit, BatchesNext,
            ChainInit, ChainNext, <1>1, PTL DEF Spec

-------------------------------------------------------------------------------
(***************************************************************************)
(* The values of the variables.                                            *)
(***************************************************************************)

\* The types that the invariants above do not give.
ValuesInv ==
  /\ pc \in Pcs /\ (pc # "exec" => todo = <<>>)
  /\ cut \in BOOLEAN /\ disturbed \in BOOLEAN
  /\ executed \in 0 .. MaxOps
  /\ last_timestamp \in 0 .. FenceMod - 1 /\ seqno \in 0 .. FenceMod - 1
  /\ \A i \in 1 .. Len(jobs) : jobs[i].fence \in 0 .. FenceMod - 1
  /\ DOMAIN regs = Registers

\* The fences and what comes with them.
FencesTyped ==
  /\ disturbed \in BOOLEAN
  /\ last_timestamp \in 0 .. FenceMod - 1 /\ seqno \in 0 .. FenceMod - 1
  /\ \A i \in 1 .. Len(jobs) : jobs[i].fence \in 0 .. FenceMod - 1

\* A submit counts fences modulo FenceMod.
LEMMA SubmitValues ==
  ASSUME FencesInv, ValuesInv, NEW items, Submit(items)
  PROVE  FencesTyped'
<1>1. (seqno + 1) % FenceMod \in 0 .. FenceMod - 1
  BY Viv2dExecAssumption, SMT DEF ValuesInv
<1>2. CASE SubmitAccepted(items)
  <2>. DEFINE job == [fence |-> seqno', items |-> items, bos |-> Table(items)]
  <2>1. /\ jobs' = Append(jobs, job) /\ seqno' = (seqno + 1) % FenceMod
        /\ last_timestamp' = seqno' /\ disturbed' = disturbed
    BY <1>2 DEF SubmitAccepted
  <2>2. job.fence = seqno'
    OBVIOUS
  <2>. HIDE DEF job
  <2>3. jobs \in Seq(Range(jobs))
    BY DEF FencesInv
  <2>4. \A i \in 1 .. Len(jobs') :
          \/ jobs'[i] = job
          \/ i \in 1 .. Len(jobs) /\ jobs'[i] = jobs[i]
    BY <2>1, <2>3, ItemsOfAppend
  <2>. QED BY <1>1, <2>1, <2>2, <2>4 DEF FencesTyped, ValuesInv
<1>3. CASE SubmitRefused
  BY <1>3 DEF SubmitRefused, FencesTyped, ValuesInv
<1>. QED BY <1>2, <1>3 DEF Submit

\* Nothing is counted at the start.
LEMMA ValuesInit == Init => ValuesInv
<1>. SUFFICES ASSUME Init PROVE ValuesInv
  OBVIOUS
<1>1. jobs = <<>> /\ Len(<<>>) = 0 /\ DOMAIN regs = Registers
  BY DEF Init
<1>2. 1 .. 0 = {}
  BY SMT
<1>3. 0 \in 0 .. FenceMod - 1 /\ 0 \in 0 .. MaxOps
  BY Viv2dExecAssumption
<1>. QED BY <1>1, <1>2, <1>3 DEF Init, ValuesInv, Pcs

\* Every step counts within its bounds.
LEMMA ValuesNext == FencesInv /\ ValuesInv /\ [Next]_vars => ValuesInv'
<1>. SUFFICES ASSUME FencesInv, ValuesInv, [Next]_vars PROVE ValuesInv'
  OBVIOUS
<1>. USE DEF Pcs
<1>1. ASSUME FencesTyped', pc' \in Pcs, pc' # "exec" => todo' = <<>>, cut' \in BOOLEAN,
             UNCHANGED <<executed, regs>>
      PROVE  ValuesInv'
  BY <1>1 DEF ValuesInv, FencesTyped
<1>2. ASSUME UNCHANGED <<jobs, last_timestamp, seqno, disturbed>> PROVE FencesTyped'
  BY <1>2 DEF ValuesInv, FencesTyped
<1>3. CASE Client
  <2>1. CASE \/ \E cmd \in Cmds, dst \in Surfaces : \E srcs \in Sources(cmd) : OpNew(cmd, srcs, dst)
             \/ OpAddRect \/ OpSetClipRect \/ OpSetPatFill \/ OpDel
             \/ \E c \in Colors : OpSetColor(c)
             \/ \E b \in Blends : OpSetBlend(b)
             \/ \E n \in 0 .. MaxData : OpSetData(n)
    <3>1. /\ UNCHANGED <<pc, todo, cut, executed, regs, jobs, last_timestamp, seqno, disturbed>>
      BY <2>1 DEF OpNew, OpAddRect, OpSetClipRect, OpSetBlend, OpSetPatFill, OpDel,
                  OpSetColor, OpSetData, Edit, stream
    <3>. QED BY <3>1 DEF ValuesInv
  <2>2. CASE ExecBegin
    <3>1. /\ UNCHANGED <<regs, jobs, last_timestamp, seqno, disturbed>> /\ pc' = "exec"
          /\ cut' = FALSE /\ executed' = executed + 1 /\ executed < MaxOps
      BY <2>2 DEF ExecBegin, stream
    <3>2. executed' \in 0 .. MaxOps
      BY <3>1, Viv2dExecAssumption DEF ValuesInv
    <3>. QED BY <3>1, <3>2 DEF ValuesInv
  <2>3. CASE Flush \/ Commit
    <3>1. /\ Submit(batch) /\ pc = "idle" /\ pc' \in {"idle", "wait"}
          /\ UNCHANGED <<todo, cut, executed, regs>>
      BY <2>3 DEF Flush, Commit, FlushTo
    <3>2. FencesTyped'
      BY <3>1, SubmitValues
    <3>3. todo' = <<>> /\ cut' \in BOOLEAN
      BY <3>1 DEF ValuesInv
    <3>. QED BY <1>1, <3>1, <3>2, <3>3
  <2>. QED BY <1>3, <2>1, <2>2, <2>3 DEF Client
<1>4. CASE Emit
  <2>1. /\ pc = "exec" /\ UNCHANGED <<pc, cut, executed, regs>>
        /\ UNCHANGED <<jobs, last_timestamp, seqno, disturbed>>
    BY <1>4 DEF Emit, Emitted
  <2>2. cut' \in BOOLEAN
    BY <2>1 DEF ValuesInv
  <2>. QED BY <1>1, <1>2, <2>1, <2>2
<1>5. CASE FlushAndEmit
  <2>1. /\ pc = "exec" /\ UNCHANGED <<pc, executed, regs>> /\ Submit(batch)
        /\ cut' = (cut \/ Head(todo).reg # "DEST_ADDRESS")
    BY <1>5 DEF FlushAndEmit, Emitted
  <2>2. cut' \in BOOLEAN
    BY <2>1, Zenon DEF ValuesInv
  <2>3. FencesTyped'
    BY <2>1, SubmitValues
  <2>. QED BY <1>1, <2>1, <2>2, <2>3
<1>6. CASE ExecReturn \/ CommitReturn
  <2>1. /\ pc' = "idle" /\ todo' = <<>> /\ cut' \in BOOLEAN /\ UNCHANGED <<executed, regs>>
        /\ UNCHANGED <<jobs, last_timestamp, seqno, disturbed>>
    BY <1>6 DEF ExecReturn, CommitReturn, stream, ValuesInv
  <2>. QED BY <1>1, <1>2, <2>1
<1>7. CASE RunJob
  <2>1. /\ UNCHANGED <<client, stream, seqno, disturbed>> /\ jobs' = Tail(jobs) /\ jobs # <<>>
        /\ regs' = RegsAt(regs, Head(jobs).items, Len(Head(jobs).items) + 1)
    BY <1>7 DEF RunJob
  <2>2. jobs \in Seq(Range(jobs))
    BY DEF FencesInv
  <2>3. \A i \in 1 .. Len(jobs') : i + 1 \in 1 .. Len(jobs) /\ jobs'[i] = jobs[i + 1]
    BY <2>1, <2>2
  <2>4. DOMAIN regs' = Registers
    BY <2>1 DEF RegsAt
  <2>. QED BY <2>1, <2>3, <2>4 DEF ValuesInv, client, stream
<1>8. CASE ForeignJob
  BY <1>8 DEF ForeignJob, ValuesInv, client, stream
<1>9. CASE UNCHANGED vars
  BY <1>9 DEF vars, ValuesInv, client, stream
<1>. QED BY <1>3, <1>4, <1>5, <1>6, <1>7, <1>8, <1>9 DEF Next

\* Every variable keeps to its values, for every set of surfaces and commands and
\* every size of the buffer; viv2d_op_exec never draws without a rectangle
\* (viv2d.c:375-377).
THEOREM TypesHold == Spec => []TypeOK
<1>1. FencesInv /\ RoomInv /\ ExecInv /\ BatchesInv /\ ValuesInv => TypeOK
  <2>. SUFFICES ASSUME FencesInv, RoomInv, ExecInv, BatchesInv, ValuesInv PROVE TypeOK
    OBVIOUS
  <2>1. pc = "exec" => op \in Drawable
    BY DEF ExecInv, Ready, Described, Drawable
  <2>2. ASSUME NEW i \in 1 .. Len(todo) PROVE todo[i].reg \in Registers \cup {"DRAW_2D"}
    <3>1. pc = "exec"
      <4>1. 1 .. Len(<<>>) = {}
        OBVIOUS
      <4>. QED BY <2>2, <4>1 DEF ValuesInv
    <3>2. op \in Op /\ todo \in Seq(Range(todo)) /\ Len(todo) <= Len(Program(op))
          /\ todo[i] = Program(op)[Done + i]
      BY <3>1 DEF ExecInv, Ready, Described
    <3>3. Len(Program(op)) \in Nat
      BY <3>2, ProgramShape
    <3>4. PICK n \in Nat : n + 1 = Done + i /\ n < Len(Program(op))
      <4>1. /\ (Done + i) - 1 \in Nat /\ ((Done + i) - 1) + 1 = Done + i
            /\ (Done + i) - 1 < Len(Program(op))
        BY <3>2, <3>3 DEF Done
      <4>. QED BY <4>1
    <3>5. NextWrite(op, n, todo[i])
      BY <3>2, <3>4, NextWrites
    <3>6. "FLUSH_CACHE" \in Registers
      BY DEF Registers
    <3>7. todo[i] = [reg |-> "DRAW_2D", val |-> op] => todo[i].reg = "DRAW_2D"
      OBVIOUS
    <3>8. todo[i] = [reg |-> "FLUSH_CACHE", val |-> "PE2D"] => todo[i].reg = "FLUSH_CACHE"
      OBVIOUS
    <3>. QED BY <3>5, <3>6, <3>7, <3>8, Zenon DEF NextWrite
  <2>3. \A i \in 1 .. Len(batch) : batch[i].reg \in Registers \cup {"DRAW_2D"}
    BY DEF BatchesInv, GoodItems, GoodItem
  <2>4. offset \in 0 .. Size
    BY SizeEven DEF RoomInv, END_CLEARANCE
  <2>5. \A i \in 1 .. Len(jobs) : jobs[i].bos \subseteq Surfaces
    BY DEF BatchesInv, JobGood, GoodItems, GoodItem, Table
  <2>6. op \in Op \cup {NoOp}
    BY DEF RoomInv
  <2>. QED BY <2>1, <2>2, <2>3, <2>4, <2>5, <2>6 DEF TypeOK, ValuesInv
<1>. QED BY FencesInit, FencesNext, RoomInit, RoomNext, ExecInit, ExecNext,
            BatchesInit, BatchesNext, ValuesInit, ValuesNext, <1>1, PTL DEF Spec

===============================================================================

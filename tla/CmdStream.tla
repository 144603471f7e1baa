------------------------------- MODULE CmdStream -------------------------------
(***************************************************************************)
(* The command streams of etnaviv.c, as viv2d.c drives them.               *)
(*                                                                         *)
(* A stream is a buffer of 32-bit words with two tables beside it: the     *)
(* buffer objects its words refer to, and one relocation per word that     *)
(* will hold an address.  A buffer object remembers in current_stream and  *)
(* idx where it is in the table of ONE stream; idx_lock guards that mark   *)
(* when bo2idx reads and writes it, flush clears it without the lock.      *)
(*                                                                         *)
(* Each stream is driven by one thread (nothing guards its offset or its   *)
(* tables); the marks of the buffer objects are all the threads share.  So *)
(* every access to a mark, to the lock and to the kernel is a step of its  *)
(* own, and what a thread does to its own stream in between is part of the *)
(* step.  A store or a load of a mark is one aligned word and is taken to  *)
(* be indivisible; bo2idx loads the mark twice, as the Makefile builds it  *)
(* (no -O), and a build that merges the loads has fewer behaviours.        *)
(***************************************************************************)
EXTENDS Integers, Sequences

CONSTANTS
  Streams,   \* addresses of command streams: one of a deleted stream is reused
  Bos,       \* buffer objects
  NoStream,  \* NULL, for current_stream; the free idx_lock
  NoBo,      \* no buffer object in the call in progress
  Handle,    \* Handle[b]: the GEM handle of buffer object b
  SizeArg,   \* the size argument of etna_cmd_stream_new, in words
  FenceMod   \* the kernel counts fences modulo this (2^32)

ASSUME CmdStreamAssumption ==
  /\ NoStream \notin Streams
  /\ NoBo \notin Bos
  /\ SizeArg \in Nat /\ SizeArg > 2  \* room for one state besides END_CLEARANCE
  /\ FenceMod \in Nat \ {0}

VARIABLES
  current_stream,  \* current_stream[b]: the stream whose table bo_idx indexes
  bo_idx,          \* bo_idx[b]: bo->idx
  idx_lock,        \* the stream whose thread holds idx_lock, or NoStream
  offset,          \* offset[s]: words in the buffer
  bos,             \* bos[s]: priv->bos, entry i at position i + 1
  submit_bos,      \* submit_bos[s]: priv->submit.bos, the table of the ioctl
  relocs,          \* relocs[s]: priv->submit.relocs
  last_timestamp,  \* last_timestamp[s]: fence of the last accepted job
  seqno,           \* the kernel's last fence number
  pc,              \* pc[s]: where the thread of s is
  call,            \* call[s]: the call in progress
  arg,             \* arg[s]: its buffer object
  idx,             \* idx[s]: the local idx of bo2idx
  pos              \* pos[s]: the loop counter of flush

bovars == <<current_stream, bo_idx>>
tables == <<bos, submit_bos, relocs>>
kernel == <<last_timestamp, seqno>>
thread == <<pc, call, arg, idx, pos>>
vars == <<bovars, idx_lock, offset, tables, kernel, thread>>

-------------------------------------------------------------------------------
\* ALIGN(size, 2): an even number of words.
Size == SizeArg + (SizeArg % 2)

END_CLEARANCE == 2

\* What one etna_set_state reserves and emits: a header and a value.
StateWords == 2

\* Mutant: the words of the LINK command are not kept free.
AvailWithoutClearance(s) == Size - offset[s]

\* The subtraction is unsigned in C; OffsetInBounds says that it never wraps.
Avail(s) == Size - offset[s] - END_CLEARANCE

\* .flags = ETNA_RELOC_READ | ETNA_RELOC_WRITE, the one value callers pass.
RelocFlags == {"READ", "WRITE"}

\* What the two tables of a submit hold; submit_offset counts words here.
Handles == {Handle[b] : b \in Bos}
SubmitBo == [handle : Handles, flags : SUBSET RelocFlags]
SubmitReloc == [reloc_idx : Nat, submit_offset : Nat]

Calls == {"none", "state", "reloc", "flush", "finish"}
Emitting == {"state", "reloc"}
Locked == {"test", "owner", "setcur", "setidx", "unlock"}
Flushing == {"submit", "clear", "wait", "reset"}
Labels == {"free", "idle", "body"} \cup Locked \cup Flushing

TypeOK ==
  /\ current_stream \in [Bos -> Streams \cup {NoStream}]
  /\ bo_idx \in [Bos -> Nat]
  /\ idx_lock \in Streams \cup {NoStream}
  /\ offset \in [Streams -> Nat]
  /\ bos \in [Streams -> Seq(Bos)]
  /\ submit_bos \in [Streams -> Seq(SubmitBo)]
  /\ relocs \in [Streams -> Seq(SubmitReloc)]
  /\ last_timestamp \in [Streams -> 0 .. FenceMod - 1]
  /\ seqno \in 0 .. FenceMod - 1
  /\ pc \in [Streams -> Labels]
  /\ call \in [Streams -> Calls]
  /\ arg \in [Streams -> Bos \cup {NoBo}]
  /\ idx \in [Streams -> Nat]
  /\ pos \in [Streams -> Nat]

Init ==
  /\ current_stream = [b \in Bos |-> NoStream]
  /\ bo_idx = [b \in Bos |-> 0]
  /\ idx_lock = NoStream
  /\ offset = [s \in Streams |-> 0]
  /\ bos = [s \in Streams |-> <<>>]
  /\ submit_bos = [s \in Streams |-> <<>>]
  /\ relocs = [s \in Streams |-> <<>>]
  /\ last_timestamp = [s \in Streams |-> 0]
  /\ seqno = 0
  /\ pc = [s \in Streams |-> "free"]
  /\ call = [s \in Streams |-> "none"]
  /\ arg = [s \in Streams |-> NoBo]
  /\ idx = [s \in Streams |-> 0]
  /\ pos = [s \in Streams |-> 0]

Goto(s, from, to) ==
  /\ pc[s] = from
  /\ pc' = [pc EXCEPT ![s] = to]

-------------------------------------------------------------------------------
\* etna_cmd_stream_new: calloc, and a buffer of Size words.
StreamNew(s) ==
  /\ Goto(s, "free", "idle")
  /\ offset' = [offset EXCEPT ![s] = 0]
  /\ bos' = [bos EXCEPT ![s] = <<>>]
  /\ submit_bos' = [submit_bos EXCEPT ![s] = <<>>]
  /\ relocs' = [relocs EXCEPT ![s] = <<>>]
  /\ last_timestamp' = [last_timestamp EXCEPT ![s] = 0]
  /\ UNCHANGED <<bovars, idx_lock, seqno, call, arg, idx, pos>>

\* etna_cmd_stream_del frees the stream and leaves every mark as it is.  The
\* callers commit before they close a device; the guard is that discipline.
StreamDel(s) ==
  /\ bos[s] = <<>>
  /\ Goto(s, "idle", "free")
  /\ UNCHANGED <<bovars, idx_lock, offset, tables, kernel, call, arg, idx, pos>>

\* A call begins.  An emitting call goes through etna_cmd_stream_reserve first,
\* which flushes a stream that has no room for one more state.
Enter(s, c, b) ==
  /\ pc[s] = "idle"
  /\ call' = [call EXCEPT ![s] = c]
  /\ arg' = [arg EXCEPT ![s] = b]
  /\ pc' = [pc EXCEPT ![s] = IF c \in Emitting /\ Avail(s) >= StateWords
                             THEN "body" ELSE "submit"]
  /\ UNCHANGED <<bovars, idx_lock, offset, tables, kernel, idx, pos>>

\* A call returns and its locals are gone.
Return(s, from) ==
  /\ Goto(s, from, "idle")
  /\ call' = [call EXCEPT ![s] = "none"]
  /\ arg' = [arg EXCEPT ![s] = NoBo]
  /\ idx' = [idx EXCEPT ![s] = 0]
  /\ pos' = [pos EXCEPT ![s] = 0]

\* The rest of etna_set_state: the two emits.
EmitState(s) ==
  /\ Return(s, "body")
  /\ call[s] = "state"
  /\ offset' = [offset EXCEPT ![s] = @ + StateWords]
  /\ UNCHANGED <<bovars, idx_lock, tables, kernel>>

-------------------------------------------------------------------------------
\* Mutant: bo2idx without its mutex.
LockWithoutMutex(s) ==
  /\ Goto(s, "body", "test")
  /\ call[s] = "reloc"
  /\ UNCHANGED <<bovars, idx_lock, offset, tables, kernel, call, arg, idx, pos>>

\* bo2idx, under idx_lock.
Lock(s) ==
  /\ Goto(s, "body", "test")
  /\ call[s] = "reloc"
  /\ idx_lock = NoStream
  /\ idx_lock' = s
  /\ UNCHANGED <<bovars, offset, tables, kernel, call, arg, idx, pos>>

\* Mutant: the index of the entry before the new one.
AppendBoOffByOne(s, b) ==
  /\ bos' = [bos EXCEPT ![s] = Append(@, b)]
  /\ submit_bos' = [submit_bos EXCEPT
                      ![s] = Append(@, [handle |-> Handle[b], flags |-> {}])]
  /\ idx' = [idx EXCEPT ![s] = Len(bos[s]) - 1]

\* append_bo: both tables grow, and the entry starts without flags.
AppendBo(s, b) ==
  /\ bos' = [bos EXCEPT ![s] = Append(@, b)]
  /\ submit_bos' = [submit_bos EXCEPT
                      ![s] = Append(@, [handle |-> Handle[b], flags |-> {}])]
  /\ idx' = [idx EXCEPT ![s] = Len(bos[s])]

\* if (!bo->current_stream), taken.
TestUnmarked(s) ==
  /\ Goto(s, "test", "setcur")
  /\ current_stream[arg[s]] = NoStream
  /\ AppendBo(s, arg[s])
  /\ UNCHANGED <<bovars, idx_lock, offset, relocs, kernel, call, arg, pos>>

\* if (!bo->current_stream), not taken.
TestMarked(s) ==
  /\ Goto(s, "test", "owner")
  /\ current_stream[arg[s]] # NoStream
  /\ UNCHANGED <<bovars, idx_lock, offset, tables, kernel, call, arg, idx, pos>>

SetCurrentStream(s) ==
  /\ Goto(s, "setcur", "setidx")
  /\ current_stream' = [current_stream EXCEPT ![arg[s]] = s]
  /\ UNCHANGED <<bo_idx, idx_lock, offset, tables, kernel, call, arg, idx, pos>>

SetIdx(s) ==
  /\ Goto(s, "setidx", "unlock")
  /\ bo_idx' = [bo_idx EXCEPT ![arg[s]] = idx[s]]
  /\ UNCHANGED <<current_stream, idx_lock, offset, tables, kernel, call, arg, idx, pos>>

\* else if (bo->current_stream == stream): a second load of the mark.
OwnerIsSelf(s) ==
  /\ Goto(s, "owner", "unlock")
  /\ current_stream[arg[s]] = s
  /\ idx' = [idx EXCEPT ![s] = bo_idx[arg[s]]]
  /\ UNCHANGED <<bovars, idx_lock, offset, tables, kernel, call, arg, pos>>

\* Mutant: the search stops at an entry that is not b.
FirstListedInverted(s, b, k) == k = 1

\* Entry k of the stream's own table is the first that is b.
FirstListed(s, b, k) ==
  /\ bos[s][k] = b
  /\ \A j \in 1 .. k - 1 : bos[s][j] # b

\* Mutant: wait, under the lock, for the other stream to give its mark back.
OwnerIsOtherSpins(s) ==
  /\ Goto(s, "owner", "test")
  /\ current_stream[arg[s]] # s
  /\ UNCHANGED <<bovars, idx_lock, offset, tables, kernel, call, arg, idx, pos>>

\* The slow path: search the stream's own table; the mark is left alone.
OwnerIsOther(s) ==
  /\ Goto(s, "owner", "unlock")
  /\ current_stream[arg[s]] # s
  /\ \/ \E k \in 1 .. Len(bos[s]) :
          /\ FirstListed(s, arg[s], k)
          /\ idx' = [idx EXCEPT ![s] = k - 1]
          /\ UNCHANGED <<bos, submit_bos>>
     \/ /\ \A k \in 1 .. Len(bos[s]) : bos[s][k] # arg[s]
        /\ AppendBo(s, arg[s])
  /\ UNCHANGED <<bovars, idx_lock, offset, relocs, kernel, call, arg, pos>>

\* flags |= ETNA_SUBMIT_BO_READ, |= ETNA_SUBMIT_BO_WRITE, in entry k.
UseEntry(q, k) == [q EXCEPT ![k].flags = @ \cup RelocFlags]

\* bo2idx unlocks and sets the entry's flags; etna_cmd_stream_reloc records the
\* relocation of the word after the header and emits the word.
UnlockAndReloc(s) ==
  /\ Return(s, "unlock")
  /\ idx_lock' = NoStream
  /\ submit_bos' = [submit_bos EXCEPT ![s] = UseEntry(@, idx[s] + 1)]
  /\ relocs' = [relocs EXCEPT ![s] =
                  Append(@, [reloc_idx |-> idx[s], submit_offset |-> offset[s] + 1])]
  /\ offset' = [offset EXCEPT ![s] = @ + StateWords]
  /\ UNCHANGED <<bovars, bos, kernel>>

-------------------------------------------------------------------------------
\* flush: the ioctl.  A refused submit is only logged.
Submit(s, accepted) ==
  /\ Goto(s, "submit", "clear")
  /\ seqno' = IF accepted THEN (seqno + 1) % FenceMod ELSE seqno
  /\ last_timestamp' = IF accepted THEN [last_timestamp EXCEPT ![s] = seqno']
                       ELSE last_timestamp
  /\ pos' = [pos EXCEPT ![s] = 0]
  /\ UNCHANGED <<bovars, idx_lock, offset, tables, call, arg, idx>>

\* Mutant: the loop does not advance.
ClearMarkStuck(s) ==
  /\ pc[s] = "clear"
  /\ pos[s] < Len(bos[s])
  /\ current_stream' = [current_stream EXCEPT ![bos[s][pos[s] + 1]] = NoStream]
  /\ UNCHANGED <<bo_idx, idx_lock, offset, tables, kernel, thread>>

\* flush: one turn of the loop over priv->bos; it takes no lock and does not
\* look at whose mark it clears.
ClearMark(s) ==
  /\ pc[s] = "clear"
  /\ pos[s] < Len(bos[s])
  /\ current_stream' = [current_stream EXCEPT ![bos[s][pos[s] + 1]] = NoStream]
  /\ pos' = [pos EXCEPT ![s] = @ + 1]
  /\ UNCHANGED <<bo_idx, idx_lock, offset, tables, kernel, pc, call, arg, idx>>

\* The loop ends; etna_cmd_stream_finish waits for the fence before it resets.
ClearDone(s) ==
  /\ Goto(s, "clear", IF call[s] = "finish" THEN "wait" ELSE "reset")
  /\ pos[s] >= Len(bos[s])
  /\ UNCHANGED <<bovars, idx_lock, offset, tables, kernel, call, arg, idx, pos>>

\* etna_pipe_wait returns, because of the fence or of its timeout: the result is
\* ignored either way.
Wait(s) ==
  /\ Goto(s, "wait", "reset")
  /\ UNCHANGED <<bovars, idx_lock, offset, tables, kernel, call, arg, idx, pos>>

\* Mutant: nr_relocs is not reset.
ResetBufferKeepsRelocs(s) ==
  /\ offset' = [offset EXCEPT ![s] = 0]
  /\ bos' = [bos EXCEPT ![s] = <<>>]
  /\ submit_bos' = [submit_bos EXCEPT ![s] = <<>>]
  /\ UNCHANGED relocs

\* Mutant: the nr_bos outside submit is not reset.
ResetBufferKeepsBos(s) ==
  /\ offset' = [offset EXCEPT ![s] = 0]
  /\ submit_bos' = [submit_bos EXCEPT ![s] = <<>>]
  /\ relocs' = [relocs EXCEPT ![s] = <<>>]
  /\ UNCHANGED bos

\* reset_buffer.  A flush that etna_cmd_stream_reserve asked for goes on with the
\* call that needed the room.
ResetBuffer(s) ==
  /\ offset' = [offset EXCEPT ![s] = 0]
  /\ bos' = [bos EXCEPT ![s] = <<>>]
  /\ submit_bos' = [submit_bos EXCEPT ![s] = <<>>]
  /\ relocs' = [relocs EXCEPT ![s] = <<>>]

ResetInReserve(s) ==
  /\ call[s] \in Emitting
  /\ Goto(s, "reset", "body")
  /\ ResetBuffer(s)
  /\ pos' = [pos EXCEPT ![s] = 0]
  /\ UNCHANGED <<bovars, idx_lock, kernel, call, arg, idx>>

ResetAndReturn(s) ==
  /\ call[s] \notin Emitting
  /\ Return(s, "reset")
  /\ ResetBuffer(s)
  /\ UNCHANGED <<bovars, idx_lock, kernel>>

-------------------------------------------------------------------------------
\* What a client chooses to do.
Client(s) ==
  \/ StreamNew(s)
  \/ StreamDel(s)
  \/ \E c \in {"state", "flush", "finish"} : Enter(s, c, NoBo)
  \/ \E b \in Bos : Enter(s, "reloc", b)

\* What a thread inside a call does next.
Step(s) ==
  \/ EmitState(s)
  \/ Lock(s)
  \/ TestUnmarked(s) \/ TestMarked(s)
  \/ SetCurrentStream(s) \/ SetIdx(s)
  \/ OwnerIsSelf(s) \/ OwnerIsOther(s)
  \/ UnlockAndReloc(s)
  \/ \E accepted \in BOOLEAN : Submit(s, accepted)
  \/ ClearMark(s) \/ ClearDone(s)
  \/ Wait(s)
  \/ ResetInReserve(s) \/ ResetAndReturn(s)

Next == \E s \in Streams : Client(s) \/ Step(s)

Spec == Init /\ [][Next]_vars

\* The scheduler runs every thread that can run, and a wait ends because it has
\* a timeout.  Nothing is assumed of the order in which the lock is handed out.
FairSpec == Spec /\ \A s \in Streams : WF_vars(Step(s))

-------------------------------------------------------------------------------
(***************************************************************************)
(* Safety.                                                                 *)
(***************************************************************************)

\* Where the table of s has b, by its mark: between the two stores of bo2idx the
\* index of the entry is still in the local idx.
MarkedIdx(s, b) == IF pc[s] = "setidx" /\ arg[s] = b THEN idx[s] ELSE bo_idx[b]

\* A buffer object marked with a stream is in that stream's table at its idx,
\* whatever other threads flush in the meantime: the fast path of bo2idx
\* (etnaviv.c:369-370) uses idx without looking.
MarkedBoIsListed ==
  \A s \in Streams, b \in Bos :
    current_stream[b] = s =>
      MarkedIdx(s, b) < Len(bos[s]) /\ bos[s][MarkedIdx(s, b) + 1] = b

\* A mark goes back to NULL before another stream takes it: a thread that has
\* marked a buffer object can lose the mark to a flush, never to a rival whose
\* index would then be stored beside it (etnaviv.c:365-368).
MarkNeverStolen ==
  [][\A b \in Bos : \A s \in Streams :
       current_stream[b] = s => current_stream'[b] \in {s, NoStream}]_vars

\* Kernel rules for the tables of a submit: relocations in order of increasing
\* submit_offset (etnaviv_drm.h:124), each on a word of the stream, none on a
\* word twice, each naming an entry of the table, and an entry a relocation
\* names says how the GPU uses it.
RelocsWellFormed ==
  \A s \in Streams : \A k \in 1 .. Len(relocs[s]) :
    LET r == relocs[s][k]
    IN  /\ r.submit_offset < offset[s]
        /\ k > 1 => relocs[s][k - 1].submit_offset < r.submit_offset
        /\ r.reloc_idx < Len(submit_bos[s])
        /\ submit_bos[s][r.reloc_idx + 1].flags = RelocFlags

\* "should have matching entries in submit.bos" (etnaviv.h:52): the table flush
\* walks and the table the kernel gets list the same buffer objects.
TablesMatch ==
  \A s \in Streams :
    /\ Len(bos[s]) = Len(submit_bos[s])
    /\ \A k \in 1 .. Len(bos[s]) : submit_bos[s][k].handle = Handle[bos[s][k]]

\* The words always end at an even offset that leaves END_CLEARANCE free, so the
\* unsigned subtraction of etna_cmd_stream_avail does not wrap and the word an
\* emit writes is in the buffer.
OffsetInBounds ==
  \A s \in Streams : (offset[s] % 2) = 0 /\ offset[s] + END_CLEARANCE <= Size

\* Each buffer has "one (and only one) entry in the submit->bos[] table"
\* (etnaviv_drm.h:134-136).  True for a client with one stream.
OneEntryPerBuffer ==
  \A s \in Streams : \A j, k \in 1 .. Len(submit_bos[s]) :
    submit_bos[s][j].handle = submit_bos[s][k].handle => j = k

-------------------------------------------------------------------------------
(***************************************************************************)
(* Liveness.                                                               *)
(***************************************************************************)

\* Every path through bo2idx gives idx_lock back.
LockIsReleased == \A s \in Streams : idx_lock = s ~> idx_lock # s

\* A flush comes to its end although other streams keep marking and clearing.
FlushEnds == \A s \in Streams : pc[s] \in Flushing ~> pc[s] \notin Flushing

-------------------------------------------------------------------------------
(***************************************************************************)
(* The tables implement CommandBatch: read word w of a stream through its  *)
(* relocations and its table, and it is the buffer object the caller gave. *)
(***************************************************************************)
WordAt(s, w) ==
  IF \E k \in 1 .. Len(relocs[s]) : relocs[s][k].submit_offset = w - 1
  THEN LET k == CHOOSE k \in 1 .. Len(relocs[s]) : relocs[s][k].submit_offset = w - 1
       IN  bos[s][relocs[s][k].reloc_idx + 1]
  ELSE NoBo

Words(s) == [w \in 1 .. offset[s] |-> WordAt(s, w)]

Handed(s) == pc[s] \in {"clear", "wait", "reset"}

Batch == INSTANCE CommandBatch WITH
  open <- {s \in Streams : pc[s] # "free"},
  batch <- [s \in Streams |-> IF Handed(s) THEN <<>> ELSE Words(s)],
  want <- arg,
  sent <- [s \in Streams |-> IF Handed(s) THEN Words(s) ELSE <<>>],
  timestamp <- last_timestamp

\* A job holds the words its stream's callers emitted, every address word bound
\* to the buffer object it was emitted for.
ImplementsBatch == Batch!Spec
===============================================================================

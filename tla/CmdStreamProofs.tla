---------------------------- MODULE CmdStreamProofs ----------------------------
(***************************************************************************)
(* What is proved of CmdStream, for every set of streams and of buffer     *)
(* objects and every size.                                                 *)
(***************************************************************************)
EXTENDS CmdStream, TLAPS

\* An update outside a sequence's domain changes nothing.
LEMMA UpdateOutside ==
  ASSUME NEW R, NEW q \in Seq(R), NEW k, k \notin DOMAIN q, NEW e
  PROVE  [q EXCEPT ![k] = e] = q
OBVIOUS

\* Setting the flags of an entry of a submit table leaves a submit table.
LEMMA UseEntryType ==
  ASSUME NEW q \in Seq(SubmitBo), NEW k
  PROVE  UseEntry(q, k) \in Seq(SubmitBo)
<1>. USE DEF UseEntry
<1>. DEFINE e == [q[k] EXCEPT !.flags = @ \cup RelocFlags]
<1>1. CASE k \in DOMAIN q
  <2>1. q[k] \in SubmitBo
    BY <1>1
  <2>2. e \in SubmitBo
    BY <2>1 DEF SubmitBo
  <2>. QED BY <1>1, <2>2
<1>2. CASE k \notin DOMAIN q
  <2>1. [q EXCEPT ![k] = e] = q
    BY <1>2, UpdateOutside
  <2>. QED BY <2>1
<1>. QED BY <1>1, <1>2

\* What else it does: the entry has both flags, the rest is as it was.
LEMMA UseEntryFlags ==
  ASSUME NEW q \in Seq(SubmitBo), NEW k \in 1 .. Len(q),
         NEW p, p = UseEntry(q, k)
  PROVE  /\ Len(p) = Len(q)
         /\ p[k].flags = RelocFlags
         /\ \A j \in 1 .. Len(q) : p[j].handle = q[j].handle
         /\ \A j \in 1 .. Len(q) : j # k => p[j] = q[j]
<1>. DEFINE e == [q[k] EXCEPT !.flags = @ \cup RelocFlags]
<1>1. q[k] \in SubmitBo
  OBVIOUS
<1>2. q[k].flags \subseteq RelocFlags
  BY <1>1 DEF SubmitBo
<1>3. e.flags = RelocFlags /\ e.handle = q[k].handle
  BY <1>1, <1>2 DEF SubmitBo
<1>4. p = [q EXCEPT ![k] = e]
  BY DEF UseEntry
<1>. HIDE DEF e
<1>5. /\ Len(p) = Len(q)
      /\ p[k] = e
      /\ \A j \in 1 .. Len(q) : j # k => p[j] = q[j]
  BY <1>4
<1>. QED BY <1>3, <1>5

\* A relocation holds two numbers.
LEMMA RelocType ==
  ASSUME NEW q \in Seq(SubmitReloc), NEW k \in 1 .. Len(q)
  PROVE  q[k].reloc_idx \in Nat /\ q[k].submit_offset \in Nat
<1>1. q[k] \in SubmitReloc
  OBVIOUS
<1>. QED BY <1>1 DEF SubmitReloc

\* A fence number is one of the FenceMod the kernel counts with.
LEMMA NextFence ==
  ASSUME NEW n \in Nat
  PROVE  n % FenceMod \in 0 .. FenceMod - 1
BY CmdStreamAssumption

\* Appending an entry to both tables leaves tables.
LEMMA AppendBoType ==
  ASSUME TypeOK, NEW s \in Streams, NEW b \in Bos, AppendBo(s, b)
  PROVE  /\ bos' \in [Streams -> Seq(Bos)]
         /\ submit_bos' \in [Streams -> Seq(SubmitBo)]
         /\ idx' \in [Streams -> Nat]
<1>1. [handle |-> Handle[b], flags |-> {}] \in SubmitBo
  BY DEF SubmitBo, Handles
<1>2. /\ bos[s] \in Seq(Bos)
      /\ submit_bos[s] \in Seq(SubmitBo)
  BY DEF TypeOK
<1>3. Len(bos[s]) \in Nat
  BY <1>2
<1>4. Append(submit_bos[s], [handle |-> Handle[b], flags |-> {}]) \in Seq(SubmitBo)
  BY <1>1, <1>2
<1>5. Append(bos[s], b) \in Seq(Bos)
  BY <1>2
<1>. QED BY <1>3, <1>4, <1>5 DEF TypeOK, AppendBo

\* The thread of an emitting call has its buffer object at hand when it needs it.
ArgOK ==
  \A s \in Streams :
    /\ pc[s] \in Locked => call[s] = "reloc"
    /\ call[s] = "reloc" => arg[s] \in Bos

\* Every variable has its type in every reachable state.
THEOREM TypeCorrect == Spec => [](TypeOK /\ ArgOK)
<1>1. Init => TypeOK /\ ArgOK
  BY CmdStreamAssumption DEF Init, TypeOK, ArgOK, Labels, Calls, Locked
<1>2. TypeOK /\ ArgOK /\ [Next]_vars => TypeOK' /\ ArgOK'
  <2>. SUFFICES ASSUME TypeOK, ArgOK, [Next]_vars PROVE TypeOK' /\ ArgOK'
    OBVIOUS
  <2>. USE DEF Goto, Labels, Locked, Flushing, Calls, Emitting, bovars, tables, kernel
  <2>1. ASSUME NEW s \in Streams, StreamNew(s) PROVE TypeOK' /\ ArgOK'
    BY <2>1, CmdStreamAssumption DEF TypeOK, ArgOK, StreamNew
  <2>2. ASSUME NEW s \in Streams, StreamDel(s) PROVE TypeOK' /\ ArgOK'
    BY <2>2 DEF TypeOK, ArgOK, StreamDel
  <2>3. ASSUME NEW s \in Streams, NEW c \in {"state", "flush", "finish"}, Enter(s, c, NoBo)
        PROVE  TypeOK' /\ ArgOK'
    BY <2>3 DEF TypeOK, ArgOK, Enter
  <2>4. ASSUME NEW s \in Streams, NEW b \in Bos, Enter(s, "reloc", b)
        PROVE  TypeOK' /\ ArgOK'
    BY <2>4 DEF TypeOK, ArgOK, Enter
  <2>5. ASSUME NEW s \in Streams, EmitState(s) PROVE TypeOK' /\ ArgOK'
    BY <2>5 DEF TypeOK, ArgOK, EmitState, Return, StateWords
  <2>6. ASSUME NEW s \in Streams, Lock(s) PROVE TypeOK' /\ ArgOK'
    BY <2>6 DEF TypeOK, ArgOK, Lock
  <2>7. ASSUME NEW s \in Streams, TestUnmarked(s) PROVE TypeOK' /\ ArgOK'
    BY <2>7, AppendBoType DEF TypeOK, ArgOK, TestUnmarked
  <2>8. ASSUME NEW s \in Streams, TestMarked(s) PROVE TypeOK' /\ ArgOK'
    BY <2>8 DEF TypeOK, ArgOK, TestMarked
  <2>9. ASSUME NEW s \in Streams, SetCurrentStream(s) PROVE TypeOK' /\ ArgOK'
    BY <2>9 DEF TypeOK, ArgOK, SetCurrentStream
  <2>10. ASSUME NEW s \in Streams, SetIdx(s) PROVE TypeOK' /\ ArgOK'
    BY <2>10 DEF TypeOK, ArgOK, SetIdx
  <2>11. ASSUME NEW s \in Streams, OwnerIsSelf(s) PROVE TypeOK' /\ ArgOK'
    BY <2>11 DEF TypeOK, ArgOK, OwnerIsSelf
  <2>12. ASSUME NEW s \in Streams, OwnerIsOther(s) PROVE TypeOK' /\ ArgOK'
    <3>1. ASSUME NEW k \in 1 .. Len(bos[s]), idx' = [idx EXCEPT ![s] = k - 1],
                 UNCHANGED <<bos, submit_bos>>
          PROVE  TypeOK' /\ ArgOK'
      BY <2>12, <3>1 DEF TypeOK, ArgOK, OwnerIsOther
    <3>2. ASSUME AppendBo(s, arg[s]) PROVE TypeOK' /\ ArgOK'
      BY <2>12, <3>2, AppendBoType DEF TypeOK, ArgOK, OwnerIsOther
    <3>. QED BY <2>12, <3>1, <3>2 DEF OwnerIsOther
  <2>13. ASSUME NEW s \in Streams, UnlockAndReloc(s) PROVE TypeOK' /\ ArgOK'
    <3>1. submit_bos' \in [Streams -> Seq(SubmitBo)]
      <4>1. submit_bos[s] \in Seq(SubmitBo)
        BY DEF TypeOK
      <4>2. UseEntry(submit_bos[s], idx[s] + 1) \in Seq(SubmitBo)
        BY <4>1, UseEntryType
      <4>. QED BY <2>13, <4>2 DEF TypeOK, UnlockAndReloc
    <3>2. relocs' \in [Streams -> Seq(SubmitReloc)]
      <4>1. [reloc_idx |-> idx[s], submit_offset |-> offset[s] + 1] \in SubmitReloc
        BY DEF TypeOK, SubmitReloc
      <4>2. relocs[s] \in Seq(SubmitReloc)
        BY DEF TypeOK
      <4>. QED BY <2>13, <4>1, <4>2 DEF TypeOK, UnlockAndReloc
    <3>3. offset' \in [Streams -> Nat]
      BY <2>13 DEF TypeOK, UnlockAndReloc, StateWords
    <3>4. /\ idx_lock' = NoStream
          /\ Return(s, "unlock")
          /\ UNCHANGED <<current_stream, bo_idx, bos, last_timestamp, seqno>>
      BY <2>13 DEF UnlockAndReloc
    <3>. QED BY <3>1, <3>2, <3>3, <3>4 DEF TypeOK, ArgOK, Return
  <2>14. ASSUME NEW s \in Streams, NEW accepted \in BOOLEAN, Submit(s, accepted)
        PROVE  TypeOK' /\ ArgOK'
    <3>1. (seqno + 1) % FenceMod \in 0 .. FenceMod - 1
      <4>1. seqno + 1 \in Nat
        BY CmdStreamAssumption DEF TypeOK
      <4>. QED BY <4>1, NextFence
    <3>. QED BY <2>14, <3>1 DEF TypeOK, ArgOK, Submit
  <2>15. ASSUME NEW s \in Streams, ClearMark(s) PROVE TypeOK' /\ ArgOK'
    BY <2>15 DEF TypeOK, ArgOK, ClearMark
  <2>16. ASSUME NEW s \in Streams, ClearDone(s) PROVE TypeOK' /\ ArgOK'
    BY <2>16 DEF TypeOK, ArgOK, ClearDone
  <2>17. ASSUME NEW s \in Streams, Wait(s) PROVE TypeOK' /\ ArgOK'
    BY <2>17 DEF TypeOK, ArgOK, Wait
  <2>18. ASSUME NEW s \in Streams, ResetInReserve(s) PROVE TypeOK' /\ ArgOK'
    BY <2>18 DEF TypeOK, ArgOK, ResetInReserve, ResetBuffer
  <2>19. ASSUME NEW s \in Streams, ResetAndReturn(s) PROVE TypeOK' /\ ArgOK'
    BY <2>19 DEF TypeOK, ArgOK, ResetAndReturn, ResetBuffer, Return
  <2>20. CASE UNCHANGED vars
    BY <2>20 DEF TypeOK, ArgOK, vars, thread
  <2>. QED
    BY <2>1, <2>2, <2>3, <2>4, <2>5, <2>6, <2>7, <2>8, <2>9, <2>10, <2>11, <2>12,
       <2>13, <2>14, <2>15, <2>16, <2>17, <2>18, <2>19, <2>20
       DEF Next, Client, Step
<1>. QED BY <1>1, <1>2, PTL DEF Spec
-------------------------------------------------------------------------------
(***************************************************************************)
(* The marks.  MarkedBoIsListed is not inductive: it needs that one thread *)
(* is in bo2idx at a time, what its local idx means, and how far the loop  *)
(* of flush has come.                                                      *)
(***************************************************************************)
LockInv == \A s \in Streams : pc[s] \in Locked <=> idx_lock = s

\* From append_bo, or the search, on idx is the entry of the buffer object.
LocalIdx ==
  \A s \in Streams :
    pc[s] \in {"setcur", "setidx", "unlock"} =>
      idx[s] < Len(bos[s]) /\ bos[s][idx[s] + 1] = arg[s]

\* Another thread can take the new mark away again, never make it its own.
MarkStable ==
  \A s \in Streams :
    /\ pc[s] = "setcur" => current_stream[arg[s]] = NoStream
    /\ pc[s] = "setidx" => current_stream[arg[s]] \in {s, NoStream}

\* What the loop of flush has walked over does not carry the stream's mark.
ClearLoop ==
  \A s \in Streams : pc[s] = "clear" =>
    \A j \in 1 .. Len(bos[s]) : j <= pos[s] => current_stream[bos[s][j]] # s

\* Nothing carries the mark of a stream whose table is about to be emptied.
Unmarked ==
  \A s \in Streams : pc[s] \in {"wait", "reset"} =>
    \A b \in Bos : current_stream[b] # s

FreeIsEmpty == \A s \in Streams : pc[s] = "free" => bos[s] = <<>>

MarkInv ==
  /\ LockInv
  /\ LocalIdx
  /\ MarkStable
  /\ ClearLoop
  /\ Unmarked
  /\ FreeIsEmpty
  /\ MarkedBoIsListed

\* Initially no thread is in a call and nothing is marked.
LEMMA MarkInit == Init => MarkInv
BY CmdStreamAssumption
   DEF Init, MarkInv, LockInv, LocalIdx, MarkStable, ClearLoop, Unmarked, FreeIsEmpty,
       MarkedBoIsListed, Locked

\* A step keeps MarkedBoIsListed when every mark there is after it was there
\* before it, and names the same place in the same table.
LEMMA MarksKept ==
  ASSUME MarkedBoIsListed,
         \A s \in Streams, b \in Bos : current_stream'[b] = s =>
           /\ current_stream[b] = s
           /\ MarkedIdx(s, b)' = MarkedIdx(s, b)
           /\ bos'[s] = bos[s]
  PROVE  MarkedBoIsListed'
BY DEF MarkedBoIsListed

\* Every step preserves the marks.
LEMMA MarkNext == TypeOK /\ ArgOK /\ MarkInv /\ [Next]_vars => MarkInv'
<1>. SUFFICES ASSUME TypeOK, ArgOK, LockInv, LocalIdx, MarkStable, ClearLoop, Unmarked,
                     FreeIsEmpty, MarkedBoIsListed, [Next]_vars
              PROVE  MarkInv'
  BY DEF MarkInv
<1>. USE CmdStreamAssumption DEF Goto, bovars, tables, kernel, Locked
<1>0. /\ current_stream \in [Bos -> Streams \cup {NoStream}]
      /\ bo_idx \in [Bos -> Nat]
      /\ bos \in [Streams -> Seq(Bos)]
      /\ pc \in [Streams -> Labels]
      /\ arg \in [Streams -> Bos \cup {NoBo}]
      /\ idx \in [Streams -> Nat]
      /\ pos \in [Streams -> Nat]
  BY DEF TypeOK
<1>1. ASSUME NEW s \in Streams, StreamNew(s) PROVE MarkInv'
  <2>1. LockInv'
    BY <1>0, <1>1 DEF StreamNew, LockInv
  <2>2. LocalIdx'
    BY <1>0, <1>1 DEF StreamNew, LocalIdx
  <2>3. MarkStable'
    BY <1>0, <1>1 DEF StreamNew, MarkStable
  <2>4. ClearLoop'
    BY <1>0, <1>1 DEF StreamNew, ClearLoop
  <2>5. Unmarked'
    BY <1>0, <1>1 DEF StreamNew, Unmarked
  <2>6. FreeIsEmpty'
    BY <1>0, <1>1 DEF StreamNew, FreeIsEmpty
  <2>7. MarkedBoIsListed'
    BY <1>0, <1>1, MarksKept DEF StreamNew, MarkedIdx, FreeIsEmpty
  <2>. QED BY <2>1, <2>2, <2>3, <2>4, <2>5, <2>6, <2>7 DEF MarkInv
<1>2. ASSUME NEW s \in Streams, StreamDel(s) PROVE MarkInv'
  <2>1. LockInv'
    BY <1>0, <1>2 DEF StreamDel, LockInv
  <2>2. LocalIdx'
    BY <1>0, <1>2 DEF StreamDel, LocalIdx
  <2>3. MarkStable'
    BY <1>0, <1>2 DEF StreamDel, MarkStable
  <2>4. ClearLoop'
    BY <1>0, <1>2 DEF StreamDel, ClearLoop
  <2>5. Unmarked'
    BY <1>0, <1>2 DEF StreamDel, Unmarked
  <2>6. FreeIsEmpty'
    BY <1>0, <1>2 DEF StreamDel, FreeIsEmpty
  <2>7. MarkedBoIsListed'
    BY <1>0, <1>2, MarksKept DEF StreamDel, MarkedIdx
  <2>. QED BY <2>1, <2>2, <2>3, <2>4, <2>5, <2>6, <2>7 DEF MarkInv
<1>3. ASSUME NEW s \in Streams, NEW c \in {"state", "flush", "finish"}, Enter(s, c, NoBo) PROVE MarkInv'
  <2>1. LockInv'
    BY <1>0, <1>3 DEF Enter, LockInv
  <2>2. LocalIdx'
    BY <1>0, <1>3 DEF Enter, LocalIdx
  <2>3. MarkStable'
    BY <1>0, <1>3 DEF Enter, MarkStable
  <2>4. ClearLoop'
    BY <1>0, <1>3 DEF Enter, ClearLoop
  <2>5. Unmarked'
    BY <1>0, <1>3 DEF Enter, Unmarked
  <2>6. FreeIsEmpty'
    BY <1>0, <1>3 DEF Enter, FreeIsEmpty
  <2>7. MarkedBoIsListed'
    BY <1>0, <1>3, MarksKept DEF Enter, MarkedIdx
  <2>. QED BY <2>1, <2>2, <2>3, <2>4, <2>5, <2>6, <2>7 DEF MarkInv
<1>4. ASSUME NEW s \in Streams, NEW b \in Bos, Enter(s, "reloc", b) PROVE MarkInv'
  <2>1. LockInv'
    BY <1>0, <1>4 DEF Enter, LockInv
  <2>2. LocalIdx'
    BY <1>0, <1>4 DEF Enter, LocalIdx
  <2>3. MarkStable'
    BY <1>0, <1>4 DEF Enter, MarkStable
  <2>4. ClearLoop'
    BY <1>0, <1>4 DEF Enter, ClearLoop
  <2>5. Unmarked'
    BY <1>0, <1>4 DEF Enter, Unmarked
  <2>6. FreeIsEmpty'
    BY <1>0, <1>4 DEF Enter, FreeIsEmpty
  <2>7. MarkedBoIsListed'
    BY <1>0, <1>4, MarksKept DEF Enter, MarkedIdx
  <2>. QED BY <2>1, <2>2, <2>3, <2>4, <2>5, <2>6, <2>7 DEF MarkInv
<1>5. ASSUME NEW s \in Streams, EmitState(s) PROVE MarkInv'
  <2>1. LockInv'
    BY <1>0, <1>5 DEF EmitState, Return, LockInv
  <2>2. LocalIdx'
    BY <1>0, <1>5 DEF EmitState, Return, LocalIdx
  <2>3. MarkStable'
    BY <1>0, <1>5 DEF EmitState, Return, MarkStable
  <2>4. ClearLoop'
    BY <1>0, <1>5 DEF EmitState, Return, ClearLoop
  <2>5. Unmarked'
    BY <1>0, <1>5 DEF EmitState, Return, Unmarked
  <2>6. FreeIsEmpty'
    BY <1>0, <1>5 DEF EmitState, Return, FreeIsEmpty
  <2>7. MarkedBoIsListed'
    BY <1>0, <1>5, MarksKept DEF EmitState, Return, MarkedIdx
  <2>. QED BY <2>1, <2>2, <2>3, <2>4, <2>5, <2>6, <2>7 DEF MarkInv
<1>6. ASSUME NEW s \in Streams, Lock(s) PROVE MarkInv'
  <2>1. LockInv'
    BY <1>0, <1>6 DEF Lock, LockInv
  <2>2. LocalIdx'
    BY <1>0, <1>6 DEF Lock, LocalIdx
  <2>3. MarkStable'
    BY <1>0, <1>6 DEF Lock, MarkStable
  <2>4. ClearLoop'
    BY <1>0, <1>6 DEF Lock, ClearLoop
  <2>5. Unmarked'
    BY <1>0, <1>6 DEF Lock, Unmarked
  <2>6. FreeIsEmpty'
    BY <1>0, <1>6 DEF Lock, FreeIsEmpty
  <2>7. MarkedBoIsListed'
    BY <1>0, <1>6, MarksKept DEF Lock, MarkedIdx
  <2>. QED BY <2>1, <2>2, <2>3, <2>4, <2>5, <2>6, <2>7 DEF MarkInv
<1>7. ASSUME NEW s \in Streams, TestUnmarked(s) PROVE MarkInv'
  <2>1. LockInv'
    BY <1>0, <1>7 DEF TestUnmarked, AppendBo, LockInv, ArgOK
  <2>2. LocalIdx'
    BY <1>0, <1>7 DEF TestUnmarked, AppendBo, LocalIdx, ArgOK
  <2>3. MarkStable'
    BY <1>0, <1>7 DEF TestUnmarked, AppendBo, MarkStable, ArgOK
  <2>4. ClearLoop'
    BY <1>0, <1>7 DEF TestUnmarked, AppendBo, ClearLoop, ArgOK
  <2>5. Unmarked'
    BY <1>0, <1>7 DEF TestUnmarked, AppendBo, Unmarked, ArgOK
  <2>6. FreeIsEmpty'
    BY <1>0, <1>7 DEF TestUnmarked, AppendBo, FreeIsEmpty, ArgOK
  <2>7. MarkedBoIsListed'
    BY <1>0, <1>7 DEF TestUnmarked, AppendBo, ArgOK, MarkedBoIsListed, MarkedIdx
  <2>. QED BY <2>1, <2>2, <2>3, <2>4, <2>5, <2>6, <2>7 DEF MarkInv
<1>8. ASSUME NEW s \in Streams, TestMarked(s) PROVE MarkInv'
  <2>1. LockInv'
    BY <1>0, <1>8 DEF TestMarked, LockInv
  <2>2. LocalIdx'
    BY <1>0, <1>8 DEF TestMarked, LocalIdx
  <2>3. MarkStable'
    BY <1>0, <1>8 DEF TestMarked, MarkStable
  <2>4. ClearLoop'
    BY <1>0, <1>8 DEF TestMarked, ClearLoop
  <2>5. Unmarked'
    BY <1>0, <1>8 DEF TestMarked, Unmarked
  <2>6. FreeIsEmpty'
    BY <1>0, <1>8 DEF TestMarked, FreeIsEmpty
  <2>7. MarkedBoIsListed'
    BY <1>0, <1>8, MarksKept DEF TestMarked, MarkedIdx
  <2>. QED BY <2>1, <2>2, <2>3, <2>4, <2>5, <2>6, <2>7 DEF MarkInv
<1>9. ASSUME NEW s \in Streams, SetCurrentStream(s) PROVE MarkInv'
  <2>1. LockInv'
    BY <1>0, <1>9 DEF SetCurrentStream, LockInv
  <2>2. LocalIdx'
    BY <1>0, <1>9 DEF SetCurrentStream, LocalIdx
  <2>3. MarkStable'
    BY <1>0, <1>9 DEF SetCurrentStream, MarkStable, LockInv
  <2>4. ClearLoop'
    BY <1>0, <1>9 DEF SetCurrentStream, ClearLoop
  <2>5. Unmarked'
    BY <1>0, <1>9 DEF SetCurrentStream, Unmarked
  <2>6. FreeIsEmpty'
    BY <1>0, <1>9 DEF SetCurrentStream, FreeIsEmpty
  <2>7. MarkedBoIsListed'
    BY <1>0, <1>9 DEF SetCurrentStream, ArgOK, MarkedBoIsListed, MarkedIdx, LocalIdx, MarkStable, LockInv
  <2>. QED BY <2>1, <2>2, <2>3, <2>4, <2>5, <2>6, <2>7 DEF MarkInv
<1>10. ASSUME NEW s \in Streams, SetIdx(s) PROVE MarkInv'
  <2>1. LockInv'
    BY <1>0, <1>10 DEF SetIdx, LockInv
  <2>2. LocalIdx'
    BY <1>0, <1>10 DEF SetIdx, LocalIdx
  <2>3. MarkStable'
    BY <1>0, <1>10 DEF SetIdx, MarkStable
  <2>4. ClearLoop'
    BY <1>0, <1>10 DEF SetIdx, ClearLoop
  <2>5. Unmarked'
    BY <1>0, <1>10 DEF SetIdx, Unmarked
  <2>6. FreeIsEmpty'
    BY <1>0, <1>10 DEF SetIdx, FreeIsEmpty
  <2>7. MarkedBoIsListed'
    BY <1>0, <1>10 DEF SetIdx, ArgOK, MarkedBoIsListed, MarkedIdx, LocalIdx, MarkStable
  <2>. QED BY <2>1, <2>2, <2>3, <2>4, <2>5, <2>6, <2>7 DEF MarkInv
<1>11. ASSUME NEW s \in Streams, OwnerIsSelf(s) PROVE MarkInv'
  <2>1. LockInv'
    BY <1>0, <1>11 DEF OwnerIsSelf, LockInv
  <2>2. LocalIdx'
    BY <1>0, <1>11 DEF OwnerIsSelf, LocalIdx, MarkedBoIsListed, MarkedIdx, ArgOK
  <2>3. MarkStable'
    BY <1>0, <1>11 DEF OwnerIsSelf, MarkStable
  <2>4. ClearLoop'
    BY <1>0, <1>11 DEF OwnerIsSelf, ClearLoop
  <2>5. Unmarked'
    BY <1>0, <1>11 DEF OwnerIsSelf, Unmarked
  <2>6. FreeIsEmpty'
    BY <1>0, <1>11 DEF OwnerIsSelf, FreeIsEmpty
  <2>7. MarkedBoIsListed'
    BY <1>0, <1>11, MarksKept DEF OwnerIsSelf, MarkedIdx
  <2>. QED BY <2>1, <2>2, <2>3, <2>4, <2>5, <2>6, <2>7 DEF MarkInv
<1>12. ASSUME NEW s \in Streams, OwnerIsOther(s) PROVE MarkInv'
  <2>1. LockInv'
    BY <1>0, <1>12 DEF OwnerIsOther, AppendBo, FirstListed, LockInv, ArgOK
  <2>2. LocalIdx'
    BY <1>0, <1>12 DEF OwnerIsOther, AppendBo, FirstListed, LocalIdx, ArgOK
  <2>3. MarkStable'
    BY <1>0, <1>12 DEF OwnerIsOther, AppendBo, FirstListed, MarkStable, ArgOK
  <2>4. ClearLoop'
    BY <1>0, <1>12 DEF OwnerIsOther, AppendBo, FirstListed, ClearLoop, ArgOK
  <2>5. Unmarked'
    BY <1>0, <1>12 DEF OwnerIsOther, AppendBo, FirstListed, Unmarked, ArgOK
  <2>6. FreeIsEmpty'
    BY <1>0, <1>12 DEF OwnerIsOther, AppendBo, FirstListed, FreeIsEmpty, ArgOK
  <2>7. MarkedBoIsListed'
    <3>1. ASSUME UNCHANGED bos PROVE MarkedBoIsListed'
      <4>1. \A t \in Streams \ {s} : idx'[t] = idx[t]
        BY <1>0, <1>12 DEF OwnerIsOther, AppendBo
      <4>2. /\ Goto(s, "owner", "unlock")
            /\ UNCHANGED <<current_stream, bo_idx, arg>>
        BY <1>12 DEF OwnerIsOther
      <4>3. \A t \in Streams, b \in Bos : MarkedIdx(t, b)' = MarkedIdx(t, b)
        BY <1>0, <4>1, <4>2 DEF MarkedIdx
      <4>. QED BY <3>1, <4>2, <4>3, MarksKept
    <3>2. ASSUME AppendBo(s, arg[s]) PROVE MarkedBoIsListed'
      BY <1>0, <1>12, <3>2 DEF OwnerIsOther, AppendBo, ArgOK, MarkedBoIsListed, MarkedIdx
    <3>. QED BY <1>12, <3>1, <3>2 DEF OwnerIsOther
  <2>. QED BY <2>1, <2>2, <2>3, <2>4, <2>5, <2>6, <2>7 DEF MarkInv
<1>13. ASSUME NEW s \in Streams, UnlockAndReloc(s) PROVE MarkInv'
  <2>1. LockInv'
    BY <1>0, <1>13 DEF UnlockAndReloc, Return, LockInv
  <2>2. LocalIdx'
    BY <1>0, <1>13 DEF UnlockAndReloc, Return, LocalIdx
  <2>3. MarkStable'
    BY <1>0, <1>13 DEF UnlockAndReloc, Return, MarkStable
  <2>4. ClearLoop'
    BY <1>0, <1>13 DEF UnlockAndReloc, Return, ClearLoop
  <2>5. Unmarked'
    BY <1>0, <1>13 DEF UnlockAndReloc, Return, Unmarked
  <2>6. FreeIsEmpty'
    BY <1>0, <1>13 DEF UnlockAndReloc, Return, FreeIsEmpty
  <2>7. MarkedBoIsListed'
    BY <1>0, <1>13, MarksKept DEF UnlockAndReloc, Return, MarkedIdx
  <2>. QED BY <2>1, <2>2, <2>3, <2>4, <2>5, <2>6, <2>7 DEF MarkInv
<1>14. ASSUME NEW s \in Streams, NEW accepted \in BOOLEAN, Submit(s, accepted) PROVE MarkInv'
  <2>1. LockInv'
    BY <1>0, <1>14 DEF Submit, LockInv
  <2>2. LocalIdx'
    BY <1>0, <1>14 DEF Submit, LocalIdx
  <2>3. MarkStable'
    BY <1>0, <1>14 DEF Submit, MarkStable
  <2>4. ClearLoop'
    BY <1>0, <1>14 DEF Submit, ClearLoop
  <2>5. Unmarked'
    BY <1>0, <1>14 DEF Submit, Unmarked
  <2>6. FreeIsEmpty'
    BY <1>0, <1>14 DEF Submit, FreeIsEmpty
  <2>7. MarkedBoIsListed'
    BY <1>0, <1>14, MarksKept DEF Submit, MarkedIdx
  <2>. QED BY <2>1, <2>2, <2>3, <2>4, <2>5, <2>6, <2>7 DEF MarkInv
<1>15. ASSUME NEW s \in Streams, ClearMark(s) PROVE MarkInv'
  <2>1. LockInv'
    BY <1>0, <1>15 DEF ClearMark, LockInv
  <2>2. LocalIdx'
    BY <1>0, <1>15 DEF ClearMark, LocalIdx
  <2>3. MarkStable'
    BY <1>0, <1>15 DEF ClearMark, MarkStable
  <2>4. ClearLoop'
    BY <1>0, <1>15 DEF ClearMark, ClearLoop
  <2>5. Unmarked'
    BY <1>0, <1>15 DEF ClearMark, Unmarked
  <2>6. FreeIsEmpty'
    BY <1>0, <1>15 DEF ClearMark, FreeIsEmpty
  <2>7. MarkedBoIsListed'
    BY <1>0, <1>15, MarksKept DEF ClearMark, MarkedIdx
  <2>. QED BY <2>1, <2>2, <2>3, <2>4, <2>5, <2>6, <2>7 DEF MarkInv
<1>16. ASSUME NEW s \in Streams, ClearDone(s) PROVE MarkInv'
  <2>1. LockInv'
    BY <1>0, <1>16 DEF ClearDone, LockInv
  <2>2. LocalIdx'
    BY <1>0, <1>16 DEF ClearDone, LocalIdx
  <2>3. MarkStable'
    BY <1>0, <1>16 DEF ClearDone, MarkStable
  <2>4. ClearLoop'
    BY <1>0, <1>16 DEF ClearDone, ClearLoop
  <2>5. Unmarked'
    <3>1. ASSUME NEW b \in Bos, current_stream[b] = s PROVE FALSE
      <4>1. /\ MarkedIdx(s, b) \in Nat
            /\ MarkedIdx(s, b) < Len(bos[s])
            /\ bos[s][MarkedIdx(s, b) + 1] = b
        BY <1>0, <3>1 DEF MarkedBoIsListed, MarkedIdx
      <4>2. /\ pc[s] = "clear"
            /\ pos[s] >= Len(bos[s])
        BY <1>16 DEF ClearDone
      <4>. QED BY <1>0, <3>1, <4>1, <4>2 DEF ClearLoop
    <3>. QED BY <1>0, <1>16, <3>1 DEF ClearDone, Unmarked
  <2>6. FreeIsEmpty'
    BY <1>0, <1>16 DEF ClearDone, FreeIsEmpty
  <2>7. MarkedBoIsListed'
    BY <1>0, <1>16, MarksKept DEF ClearDone, MarkedIdx
  <2>. QED BY <2>1, <2>2, <2>3, <2>4, <2>5, <2>6, <2>7 DEF MarkInv
<1>17. ASSUME NEW s \in Streams, Wait(s) PROVE MarkInv'
  <2>1. LockInv'
    BY <1>0, <1>17 DEF Wait, LockInv
  <2>2. LocalIdx'
    BY <1>0, <1>17 DEF Wait, LocalIdx
  <2>3. MarkStable'
    BY <1>0, <1>17 DEF Wait, MarkStable
  <2>4. ClearLoop'
    BY <1>0, <1>17 DEF Wait, ClearLoop
  <2>5. Unmarked'
    BY <1>0, <1>17 DEF Wait, Unmarked
  <2>6. FreeIsEmpty'
    BY <1>0, <1>17 DEF Wait, FreeIsEmpty
  <2>7. MarkedBoIsListed'
    BY <1>0, <1>17, MarksKept DEF Wait, MarkedIdx
  <2>. QED BY <2>1, <2>2, <2>3, <2>4, <2>5, <2>6, <2>7 DEF MarkInv
<1>18. ASSUME NEW s \in Streams, ResetInReserve(s) PROVE MarkInv'
  <2>1. LockInv'
    BY <1>0, <1>18 DEF ResetInReserve, ResetBuffer, LockInv
  <2>2. LocalIdx'
    BY <1>0, <1>18 DEF ResetInReserve, ResetBuffer, LocalIdx
  <2>3. MarkStable'
    BY <1>0, <1>18 DEF ResetInReserve, ResetBuffer, MarkStable
  <2>4. ClearLoop'
    BY <1>0, <1>18 DEF ResetInReserve, ResetBuffer, ClearLoop
  <2>5. Unmarked'
    BY <1>0, <1>18 DEF ResetInReserve, ResetBuffer, Unmarked
  <2>6. FreeIsEmpty'
    BY <1>0, <1>18 DEF ResetInReserve, ResetBuffer, FreeIsEmpty
  <2>7. MarkedBoIsListed'
    BY <1>0, <1>18, MarksKept DEF ResetInReserve, ResetBuffer, MarkedIdx, Unmarked
  <2>. QED BY <2>1, <2>2, <2>3, <2>4, <2>5, <2>6, <2>7 DEF MarkInv
<1>19. ASSUME NEW s \in Streams, ResetAndReturn(s) PROVE MarkInv'
  <2>1. LockInv'
    BY <1>0, <1>19 DEF ResetAndReturn, ResetBuffer, Return, LockInv
  <2>2. LocalIdx'
    BY <1>0, <1>19 DEF ResetAndReturn, ResetBuffer, Return, LocalIdx
  <2>3. MarkStable'
    BY <1>0, <1>19 DEF ResetAndReturn, ResetBuffer, Return, MarkStable
  <2>4. ClearLoop'
    BY <1>0, <1>19 DEF ResetAndReturn, ResetBuffer, Return, ClearLoop
  <2>5. Unmarked'
    BY <1>0, <1>19 DEF ResetAndReturn, ResetBuffer, Return, Unmarked
  <2>6. FreeIsEmpty'
    BY <1>0, <1>19 DEF ResetAndReturn, ResetBuffer, Return, FreeIsEmpty
  <2>7. MarkedBoIsListed'
    BY <1>0, <1>19, MarksKept DEF ResetAndReturn, ResetBuffer, Return, MarkedIdx, Unmarked
  <2>. QED BY <2>1, <2>2, <2>3, <2>4, <2>5, <2>6, <2>7 DEF MarkInv
<1>20. CASE UNCHANGED vars
  BY <1>20 DEF vars, thread, MarkInv, MarkedIdx, LockInv, LocalIdx, MarkStable, ClearLoop, Unmarked, FreeIsEmpty, MarkedBoIsListed
<1>. QED
  BY <1>1, <1>2, <1>3, <1>4, <1>5, <1>6, <1>7, <1>8, <1>9, <1>10, <1>11, <1>12, <1>13, <1>14, <1>15, <1>16, <1>17, <1>18, <1>19, <1>20
     DEF Next, Client, Step

\* In every reachable state a mark points into the table of the stream it names
\* (property MarkedBoIsListed), however the threads interleave.
THEOREM MarksAreSound == Spec => []MarkedBoIsListed
<1>1. Init => MarkInv
  BY MarkInit
<1>2. TypeOK /\ ArgOK /\ MarkInv /\ [Next]_vars => MarkInv'
  BY MarkNext
<1>3. MarkInv => MarkedBoIsListed
  BY DEF MarkInv
<1>. QED BY <1>1, <1>2, <1>3, TypeCorrect, PTL DEF Spec

\* A step takes a mark from a stream only to clear it (property MarkNeverStolen):
\* SetCurrentStream writes over NULL, ClearMark writes NULL.
THEOREM MarksAreNotStolen == Spec => MarkNeverStolen
<1>. DEFINE Kept == \A b \in Bos : \A s \in Streams :
                      current_stream[b] = s => current_stream'[b] \in {s, NoStream}
<1>1. TypeOK /\ ArgOK /\ MarkInv /\ [Next]_vars => [Kept]_vars
  <2>. SUFFICES ASSUME TypeOK, ArgOK, MarkInv, Next PROVE Kept
    BY DEF vars, bovars
  <2>. USE DEF TypeOK, Goto, bovars
  <2>1. ASSUME NEW s \in Streams, Client(s) PROVE Kept
    BY <2>1 DEF Client, StreamNew, StreamDel, Enter
  <2>2. ASSUME NEW s \in Streams, SetCurrentStream(s) PROVE Kept
    BY <2>2, CmdStreamAssumption DEF SetCurrentStream, MarkInv, MarkStable
  <2>3. ASSUME NEW s \in Streams, ClearMark(s) PROVE Kept
    BY <2>3 DEF ClearMark
  <2>4. ASSUME NEW s \in Streams, Step(s), UNCHANGED current_stream PROVE Kept
    BY <2>4
  <2>5. ASSUME NEW s \in Streams, Step(s)
        PROVE  SetCurrentStream(s) \/ ClearMark(s) \/ UNCHANGED current_stream
    BY <2>5 DEF Step, EmitState, Lock, TestUnmarked, TestMarked, SetIdx, OwnerIsSelf,
                OwnerIsOther, UnlockAndReloc, Submit, ClearDone, Wait, ResetInReserve,
                ResetAndReturn
  <2>. QED BY <2>1, <2>2, <2>3, <2>4, <2>5 DEF Next
<1>2. Spec => [](TypeOK /\ ArgOK /\ MarkInv)
  BY MarkInit, MarkNext, TypeCorrect, PTL DEF Spec
<1>. QED BY <1>1, <1>2, PTL DEF Spec, MarkNeverStolen

-------------------------------------------------------------------------------
(***************************************************************************)
(* The tables a flush hands to the kernel.                                 *)
(***************************************************************************)

\* A thread that is past etna_cmd_stream_reserve has room for what it will emit.
RoomInv ==
  \A s \in Streams :
    pc[s] = "body" \/ pc[s] \in Locked => Avail(s) >= StateWords

TablesInv == TablesMatch /\ RelocsWellFormed /\ OffsetInBounds /\ RoomInv

\* The size is even and leaves room for a state.
LEMMA SizeEven == Size \in Nat /\ Size >= 4 /\ (Size % 2) = 0
BY CmdStreamAssumption DEF Size

\* A new entry is at the same place of both tables, and the old ones stay.
LEMMA AppendBoTables ==
  ASSUME TypeOK, TablesInv, NEW s \in Streams, NEW b \in Bos, AppendBo(s, b),
         UNCHANGED <<offset, relocs>>
  PROVE  TablesMatch' /\ RelocsWellFormed' /\ OffsetInBounds'
<1>. DEFINE e == [handle |-> Handle[b], flags |-> {}]
<1>0. /\ bos \in [Streams -> Seq(Bos)]
      /\ submit_bos \in [Streams -> Seq(SubmitBo)]
      /\ relocs \in [Streams -> Seq(SubmitReloc)]
      /\ bos' = [bos EXCEPT ![s] = Append(@, b)]
      /\ submit_bos' = [submit_bos EXCEPT ![s] = Append(@, e)]
      /\ UNCHANGED <<offset, relocs>>
  BY DEF TypeOK, AppendBo
<1>1. e.handle = Handle[b]
  OBVIOUS
<1>. HIDE DEF e
<1>2. TablesMatch'
  BY <1>0, <1>1 DEF TablesInv, TablesMatch
<1>3. RelocsWellFormed'
  <2>. SUFFICES ASSUME NEW t \in Streams, NEW k \in 1 .. Len(relocs[t])
       PROVE  /\ relocs[t][k].submit_offset < offset[t]
              /\ k > 1 => relocs[t][k - 1].submit_offset < relocs[t][k].submit_offset
              /\ relocs[t][k].reloc_idx < Len(submit_bos'[t])
              /\ submit_bos'[t][relocs[t][k].reloc_idx + 1].flags = RelocFlags
    BY <1>0 DEF RelocsWellFormed
  <2>1. relocs[t][k].reloc_idx \in Nat
    BY <1>0, RelocType
  <2>2. /\ relocs[t][k].submit_offset < offset[t]
        /\ k > 1 => relocs[t][k - 1].submit_offset < relocs[t][k].submit_offset
        /\ relocs[t][k].reloc_idx < Len(submit_bos[t])
        /\ submit_bos[t][relocs[t][k].reloc_idx + 1].flags = RelocFlags
    BY DEF TablesInv, RelocsWellFormed
  <2>3. /\ Len(submit_bos[t]) <= Len(submit_bos'[t])
        /\ \A j \in 1 .. Len(submit_bos[t]) : submit_bos'[t][j] = submit_bos[t][j]
    BY <1>0
  <2>. QED BY <1>0, <2>1, <2>2, <2>3
<1>4. OffsetInBounds'
  BY <1>0 DEF TablesInv, OffsetInBounds
<1>. QED BY <1>2, <1>3, <1>4

\* Every step preserves the tables.
LEMMA TablesNext == TypeOK /\ ArgOK /\ MarkInv /\ TablesInv /\ [Next]_vars => TablesInv'
<1>. SUFFICES ASSUME TypeOK, ArgOK, MarkInv, TablesInv, [Next]_vars
              PROVE  TablesInv'
  OBVIOUS
<1>. USE DEF Goto
<1>0. /\ bos \in [Streams -> Seq(Bos)]
      /\ submit_bos \in [Streams -> Seq(SubmitBo)]
      /\ relocs \in [Streams -> Seq(SubmitReloc)]
      /\ offset \in [Streams -> Nat]
      /\ pc \in [Streams -> Labels]
  BY DEF TypeOK
<1>1. ASSUME UNCHANGED <<offset, tables>>, RoomInv' PROVE TablesInv'
  BY <1>1 DEF tables, TablesInv, TablesMatch, RelocsWellFormed, OffsetInBounds
<1>2. ASSUME NEW s \in Streams,
             offset' = [offset EXCEPT ![s] = 0],
             bos' = [bos EXCEPT ![s] = <<>>],
             submit_bos' = [submit_bos EXCEPT ![s] = <<>>],
             relocs' = [relocs EXCEPT ![s] = <<>>],
             \A t \in Streams \ {s} : pc'[t] = pc[t]
      PROVE  TablesInv'
  <2>1. TablesMatch'
    BY <1>0, <1>2 DEF TablesInv, TablesMatch
  <2>2. RelocsWellFormed'
    BY <1>0, <1>2 DEF TablesInv, RelocsWellFormed
  <2>3. OffsetInBounds'
    BY <1>0, <1>2, SizeEven DEF TablesInv, OffsetInBounds, END_CLEARANCE
  <2>4. RoomInv'
    BY <1>0, <1>2, SizeEven
       DEF TablesInv, RoomInv, Avail, END_CLEARANCE, StateWords
  <2>. QED BY <2>1, <2>2, <2>3, <2>4 DEF TablesInv
<1>3. ASSUME NEW s \in Streams, StreamNew(s) PROVE TablesInv'
  BY <1>0, <1>2, <1>3 DEF StreamNew
<1>4. ASSUME NEW s \in Streams, ResetInReserve(s) PROVE TablesInv'
  BY <1>0, <1>2, <1>4 DEF ResetInReserve, ResetBuffer
<1>5. ASSUME NEW s \in Streams, ResetAndReturn(s) PROVE TablesInv'
  BY <1>0, <1>2, <1>5 DEF ResetAndReturn, ResetBuffer, Return
<1>6. ASSUME NEW s \in Streams, NEW c, NEW b, Enter(s, c, b) PROVE TablesInv'
  <2>1. RoomInv'
    BY <1>0, <1>6 DEF Enter, TablesInv, RoomInv, Avail, Locked
  <2>. QED BY <1>1, <1>6, <2>1 DEF Enter
<1>7. ASSUME NEW s \in Streams, StreamDel(s) PROVE TablesInv'
  <2>1. RoomInv'
    BY <1>0, <1>7 DEF StreamDel, TablesInv, RoomInv, Avail, Locked
  <2>. QED BY <1>1, <1>7, <2>1 DEF StreamDel
<1>8. ASSUME NEW s \in Streams, EmitState(s) PROVE TablesInv'
  <2>1. TablesMatch'
    BY <1>8 DEF EmitState, tables, TablesInv, TablesMatch
  <2>2. RelocsWellFormed'
    <3>. SUFFICES ASSUME NEW t \in Streams, NEW k \in 1 .. Len(relocs[t])
         PROVE  relocs[t][k].submit_offset < offset'[t]
      BY <1>8 DEF EmitState, tables, TablesInv, RelocsWellFormed
    <3>1. relocs[t][k].submit_offset \in Nat
      BY <1>0, RelocType
    <3>2. relocs[t][k].submit_offset < offset[t]
      BY DEF TablesInv, RelocsWellFormed
    <3>. QED BY <1>0, <1>8, <3>1, <3>2 DEF EmitState, StateWords
  <2>3. OffsetInBounds'
    BY <1>0, <1>8, SizeEven
       DEF EmitState, Return, TablesInv, OffsetInBounds, RoomInv, Avail, END_CLEARANCE,
           StateWords
  <2>4. RoomInv'
    BY <1>0, <1>8 DEF EmitState, Return, TablesInv, RoomInv, Avail, Locked
  <2>. QED BY <2>1, <2>2, <2>3, <2>4 DEF TablesInv
<1>9. ASSUME NEW s \in Streams,
             \/ Lock(s) \/ TestMarked(s) \/ SetCurrentStream(s) \/ SetIdx(s) \/ OwnerIsSelf(s)
             \/ \E a \in BOOLEAN : Submit(s, a)
             \/ ClearMark(s) \/ ClearDone(s) \/ Wait(s)
      PROVE  TablesInv'
  <2>1. UNCHANGED <<offset, tables>>
    BY <1>9 DEF Lock, TestMarked, SetCurrentStream, SetIdx, OwnerIsSelf, Submit, ClearMark,
                ClearDone, Wait
  <2>2. RoomInv'
    BY <1>0, <1>9, <2>1
       DEF Lock, TestMarked, SetCurrentStream, SetIdx, OwnerIsSelf, Submit, ClearMark,
           ClearDone, Wait, TablesInv, RoomInv, Avail, Locked
  <2>. QED BY <1>1, <2>1, <2>2
<1>10. ASSUME NEW s \in Streams, TestUnmarked(s) PROVE TablesInv'
  <2>1. /\ arg[s] \in Bos
        /\ AppendBo(s, arg[s])
        /\ UNCHANGED <<offset, relocs>>
    BY <1>10 DEF TestUnmarked, ArgOK, Locked
  <2>2. RoomInv'
    BY <1>0, <1>10 DEF TestUnmarked, TablesInv, RoomInv, Avail, Locked
  <2>. QED BY <2>1, <2>2, AppendBoTables DEF TablesInv
<1>11. ASSUME NEW s \in Streams, OwnerIsOther(s) PROVE TablesInv'
  <2>1. /\ arg[s] \in Bos
        /\ UNCHANGED <<offset, relocs>>
    BY <1>11 DEF OwnerIsOther, ArgOK, Locked
  <2>2. RoomInv'
    <3>1. Goto(s, "owner", "unlock")
      BY <1>11 DEF OwnerIsOther
    <3>. QED BY <1>0, <2>1, <3>1 DEF TablesInv, RoomInv, Avail, Locked
  <2>3. CASE AppendBo(s, arg[s])
    BY <2>1, <2>2, <2>3, AppendBoTables DEF TablesInv
  <2>4. CASE UNCHANGED <<bos, submit_bos>>
    BY <1>1, <2>1, <2>2, <2>4 DEF tables
  <2>. QED BY <1>11, <2>3, <2>4 DEF OwnerIsOther
<1>12. ASSUME NEW s \in Streams, UnlockAndReloc(s) PROVE TablesInv'
  <2>. DEFINE i == idx[s] + 1
              new == [reloc_idx |-> idx[s], submit_offset |-> offset[s] + 1]
  <2>1. /\ pc[s] = "unlock"
        /\ pc' = [pc EXCEPT ![s] = "idle"]
        /\ offset' = [offset EXCEPT ![s] = @ + 2]
        /\ relocs' = [relocs EXCEPT ![s] = Append(@, new)]
        /\ UNCHANGED bos
    BY <1>12 DEF UnlockAndReloc, Return, StateWords
  <2>2. submit_bos' = [submit_bos EXCEPT ![s] = UseEntry(@, i)]
    BY <1>12 DEF UnlockAndReloc
  <2>3. i \in 1 .. Len(submit_bos[s])
    BY <1>0, <2>1 DEF TypeOK, MarkInv, LocalIdx, TablesInv, TablesMatch
  <2>4. /\ Len(submit_bos'[s]) = Len(submit_bos[s])
        /\ submit_bos'[s][i].flags = RelocFlags
        /\ \A j \in 1 .. Len(submit_bos[s]) : submit_bos'[s][j].handle = submit_bos[s][j].handle
        /\ \A j \in 1 .. Len(submit_bos[s]) : j # i => submit_bos'[s][j] = submit_bos[s][j]
    <3>1. submit_bos[s] \in Seq(SubmitBo)
      BY <1>0
    <3>2. submit_bos'[s] = UseEntry(submit_bos[s], i)
      BY <1>0, <2>2
    <3>. QED BY <2>3, <3>1, <3>2, UseEntryFlags
  <2>5. \A t \in Streams \ {s} : submit_bos'[t] = submit_bos[t]
    BY <1>0, <2>2
  <2>6. new.reloc_idx = idx[s] /\ new.submit_offset = offset[s] + 1
    OBVIOUS
  <2>. HIDE DEF new
  <2>7. TablesMatch'
    <3>. SUFFICES ASSUME NEW t \in Streams
         PROVE  /\ Len(bos[t]) = Len(submit_bos'[t])
                /\ \A k \in 1 .. Len(bos[t]) : submit_bos'[t][k].handle = Handle[bos[t][k]]
      BY <2>1 DEF TablesMatch
    <3>1. /\ Len(bos[t]) = Len(submit_bos[t])
          /\ \A k \in 1 .. Len(bos[t]) : submit_bos[t][k].handle = Handle[bos[t][k]]
      BY DEF TablesInv, TablesMatch
    <3>2. CASE t = s
      BY <2>4, <3>1, <3>2
    <3>3. CASE t # s
      <4>1. submit_bos'[t] = submit_bos[t]
        BY <2>5, <3>3
      <4>. QED BY <3>1, <4>1
    <3>. QED BY <3>2, <3>3
  <2>8. RelocsWellFormed'
    <3>. SUFFICES ASSUME NEW t \in Streams, NEW k \in 1 .. Len(relocs'[t])
         PROVE  /\ relocs'[t][k].submit_offset < offset'[t]
                /\ k > 1 => relocs'[t][k - 1].submit_offset < relocs'[t][k].submit_offset
                /\ relocs'[t][k].reloc_idx < Len(submit_bos'[t])
                /\ submit_bos'[t][relocs'[t][k].reloc_idx + 1].flags = RelocFlags
      BY DEF RelocsWellFormed
    <3>1. ASSUME NEW j \in 1 .. Len(relocs[t])
          PROVE  /\ relocs[t][j].submit_offset \in Nat
                 /\ relocs[t][j].submit_offset < offset[t]
                 /\ j > 1 => relocs[t][j - 1].submit_offset < relocs[t][j].submit_offset
                 /\ relocs[t][j].reloc_idx \in Nat
                 /\ relocs[t][j].reloc_idx < Len(submit_bos[t])
                 /\ submit_bos[t][relocs[t][j].reloc_idx + 1].flags = RelocFlags
      BY <1>0, RelocType DEF TablesInv, RelocsWellFormed
    <3>2. CASE t # s
      <4>1. relocs'[t] = relocs[t] /\ offset'[t] = offset[t] /\ submit_bos'[t] = submit_bos[t]
        BY <1>0, <2>1, <2>5, <3>2
      <4>. QED BY <3>1, <4>1
    <3>3. CASE t = s /\ k \in 1 .. Len(relocs[s])
      <4>1. /\ relocs'[t][k] = relocs[t][k]
            /\ k > 1 => relocs'[t][k - 1] = relocs[t][k - 1]
            /\ offset'[t] = offset[t] + 2
        BY <1>0, <2>1, <3>3
      <4>2. /\ relocs[t][k].reloc_idx + 1 \in 1 .. Len(submit_bos[s])
            /\ submit_bos[s][relocs[t][k].reloc_idx + 1].flags = RelocFlags
        BY <1>0, <3>1, <3>3
      <4>3. submit_bos'[s][relocs[t][k].reloc_idx + 1].flags = RelocFlags
        BY <2>4, <4>2
      <4>. QED BY <1>0, <2>4, <3>1, <3>3, <4>1, <4>2, <4>3
    <3>4. CASE t = s /\ k = Len(relocs[s]) + 1
      <4>1. /\ relocs'[t][k] = new
            /\ k > 1 => relocs'[t][k - 1] = relocs[t][k - 1]
            /\ offset'[t] = offset[t] + 2
        BY <1>0, <2>1, <3>4
      <4>2. k > 1 => relocs[t][k - 1].submit_offset < offset[t]
        BY <1>0, <3>1, <3>4
      <4>3. new.reloc_idx \in Nat /\ new.reloc_idx < Len(submit_bos'[s])
        BY <1>0, <2>3, <2>4, <2>6 DEF TypeOK
      <4>4. submit_bos'[s][new.reloc_idx + 1].flags = RelocFlags
        BY <2>4, <2>6
      <4>5. new.submit_offset < offset[t] + 2
        BY <1>0, <2>6, <3>4
      <4>6. k > 1 => relocs[t][k - 1].submit_offset < new.submit_offset
        <5>1. ASSUME k > 1 PROVE relocs[t][k - 1].submit_offset \in Nat
          BY <1>0, <3>1, <3>4, <5>1
        <5>. QED BY <1>0, <2>6, <3>4, <4>2, <5>1
      <4>. QED BY <3>4, <4>1, <4>3, <4>4, <4>5, <4>6
    <3>. QED BY <1>0, <2>1, <3>2, <3>3, <3>4
  <2>9. OffsetInBounds'
    BY <1>0, <2>1, SizeEven
       DEF TablesInv, OffsetInBounds, RoomInv, Avail, END_CLEARANCE, StateWords, Locked
  <2>10. RoomInv'
    BY <1>0, <2>1 DEF TablesInv, RoomInv, Avail, Locked
  <2>. QED BY <2>7, <2>8, <2>9, <2>10 DEF TablesInv
<1>13. CASE UNCHANGED vars
  <2>1. RoomInv'
    BY <1>13 DEF vars, thread, TablesInv, RoomInv, Avail
  <2>. QED BY <1>1, <1>13, <2>1 DEF vars
<1>. QED
  BY <1>3, <1>4, <1>5, <1>6, <1>7, <1>8, <1>9, <1>10, <1>11, <1>12, <1>13
     DEF Next, Client, Step

\* The tables are sound in every reachable state, for any number of streams and
\* any size.
LEMMA TablesAlways == Spec => []TablesInv
<1>1. Init => TablesInv
  BY SizeEven
     DEF Init, TablesInv, TablesMatch, RelocsWellFormed, OffsetInBounds, RoomInv, Locked,
         END_CLEARANCE
<1>2. TypeOK /\ ArgOK /\ MarkInv /\ TablesInv /\ [Next]_vars => TablesInv'
  BY TablesNext
<1>3. Spec => [](TypeOK /\ ArgOK /\ MarkInv)
  BY MarkInit, MarkNext, TypeCorrect, PTL DEF Spec
<1>. QED BY <1>1, <1>2, <1>3, PTL DEF Spec

\* The relocations of a stream are what the kernel asks for (property
\* RelocsWellFormed).
THEOREM RelocsAreSound == Spec => []RelocsWellFormed
<1>1. TablesInv => RelocsWellFormed
  BY DEF TablesInv
<1>. QED BY <1>1, TablesAlways, PTL

\* The two tables of a stream list the same buffer objects (property
\* TablesMatch).
THEOREM TablesAreMatched == Spec => []TablesMatch
<1>1. TablesInv => TablesMatch
  BY DEF TablesInv
<1>. QED BY <1>1, TablesAlways, PTL

\* The words of a stream are in its buffer (property OffsetInBounds).
THEOREM OffsetsStayInBounds == Spec => []OffsetInBounds
<1>1. TablesInv => OffsetInBounds
  BY DEF TablesInv
<1>. QED BY <1>1, TablesAlways, PTL

-------------------------------------------------------------------------------
(***************************************************************************)
(* A client with one stream.                                               *)
(***************************************************************************)

\* What is listed is marked, except for the entry bo2idx has just appended and
\* while flush clears the marks, and nothing is listed twice.
SoleInv(s) ==
  /\ pc[s] = "owner" => current_stream[arg[s]] # NoStream
  /\ \A k \in 1 .. Len(bos[s]) :
       \/ pc[s] \in {"clear", "wait", "reset"}
       \/ pc[s] = "setcur" /\ bos[s][k] = arg[s]
       \/ current_stream[bos[s][k]] = s
  /\ \A j, k \in 1 .. Len(bos[s]) : bos[s][j] = bos[s][k] => j = k

\* Every step preserves this, since no one else clears a mark.
LEMMA SoleNext ==
  ASSUME NEW s, Streams = {s}, TypeOK, ArgOK, FreeIsEmpty, SoleInv(s), [Next]_vars
  PROVE  SoleInv(s)'
<1>. USE DEF Goto, bovars, tables, kernel
<1>0. /\ s \in Streams /\ s # NoStream
      /\ current_stream \in [Bos -> Streams \cup {NoStream}]
      /\ bos \in [Streams -> Seq(Bos)]
      /\ pc \in [Streams -> Labels]
      /\ arg \in [Streams -> Bos \cup {NoBo}]
  BY CmdStreamAssumption DEF TypeOK
<1>1. ASSUME bos'[s] = <<>>, pc'[s] # "owner" PROVE SoleInv(s)'
  BY <1>1 DEF SoleInv
<1>2. ASSUME bos'[s] = bos[s], current_stream' = current_stream,
             pc[s] \notin {"clear", "wait", "reset", "setcur"}, pc'[s] # "owner"
      PROVE  SoleInv(s)'
  BY <1>0, <1>2 DEF SoleInv
<1>3. ASSUME bos'[s] = bos[s], pc'[s] \in {"clear", "wait", "reset"} PROVE SoleInv(s)'
  BY <1>0, <1>3 DEF SoleInv
<1>4. ASSUME StreamNew(s) \/ ResetInReserve(s) \/ ResetAndReturn(s) PROVE SoleInv(s)'
  BY <1>0, <1>1, <1>4
     DEF StreamNew, ResetInReserve, ResetAndReturn, ResetBuffer, Return
<1>5. ASSUME \/ StreamDel(s) \/ EmitState(s) \/ Lock(s) \/ SetIdx(s) \/ OwnerIsSelf(s)
             \/ UnlockAndReloc(s) \/ \E c, b : Enter(s, c, b)
      PROVE  SoleInv(s)'
  BY <1>0, <1>2, <1>5
     DEF StreamDel, EmitState, Lock, SetIdx, OwnerIsSelf, UnlockAndReloc, Enter, Return
<1>6. ASSUME (\E a \in BOOLEAN : Submit(s, a)) \/ ClearMark(s) \/ ClearDone(s) \/ Wait(s)
      PROVE  SoleInv(s)'
  BY <1>0, <1>3, <1>6 DEF Submit, ClearMark, ClearDone, Wait
<1>7. ASSUME TestMarked(s) PROVE SoleInv(s)'
  BY <1>0, <1>7 DEF TestMarked, SoleInv
<1>8. ASSUME TestUnmarked(s) PROVE SoleInv(s)'
  <2>1. /\ arg[s] \in Bos /\ arg' = arg /\ current_stream' = current_stream
        /\ current_stream[arg[s]] = NoStream
        /\ pc[s] = "test" /\ pc'[s] = "setcur"
        /\ bos'[s] = Append(bos[s], arg[s])
    BY <1>0, <1>8 DEF TestUnmarked, AppendBo, ArgOK, Locked
  <2>2. \A k \in 1 .. Len(bos[s]) : bos[s][k] # arg[s] /\ current_stream[bos[s][k]] = s
    BY <1>0, <2>1 DEF SoleInv
  <2>3. \A k \in 1 .. Len(bos'[s]) :
          (k \in 1 .. Len(bos[s]) /\ bos'[s][k] = bos[s][k])
          \/ (k = Len(bos[s]) + 1 /\ bos'[s][k] = arg[s])
    BY <1>0, <2>1
  <2>. QED BY <1>0, <2>1, <2>2, <2>3 DEF SoleInv
<1>9. ASSUME SetCurrentStream(s) PROVE SoleInv(s)'
  BY <1>0, <1>9 DEF SetCurrentStream, SoleInv, ArgOK, Locked
<1>10. ASSUME OwnerIsOther(s) PROVE FALSE
  BY <1>0, <1>10 DEF OwnerIsOther, SoleInv, ArgOK, Locked
<1>11. CASE UNCHANGED vars
  BY <1>11 DEF vars, thread, SoleInv
<1>. QED
  BY <1>4, <1>5, <1>6, <1>7, <1>8, <1>9, <1>10, <1>11 DEF Next, Client, Step

\* A client with one stream lists every buffer object once (property
\* OneEntryPerBuffer, which two streams violate), when no two of its buffer
\* objects have the same handle.
THEOREM SoleStreamListsOnce ==
  ASSUME NEW s, Streams = {s}, \A a, b \in Bos : Handle[a] = Handle[b] => a = b
  PROVE  Spec => []OneEntryPerBuffer
<1>1. Init => SoleInv(s)
  BY DEF Init, SoleInv
<1>2. TypeOK /\ ArgOK /\ MarkInv /\ SoleInv(s) /\ [Next]_vars => SoleInv(s)'
  BY SoleNext DEF MarkInv
<1>3. TypeOK /\ TablesInv /\ SoleInv(s) => OneEntryPerBuffer
  <2>. SUFFICES ASSUME TypeOK, TablesMatch, SoleInv(s),
                       NEW j \in 1 .. Len(submit_bos[s]), NEW k \in 1 .. Len(submit_bos[s]),
                       submit_bos[s][j].handle = submit_bos[s][k].handle
                PROVE  j = k
    BY DEF OneEntryPerBuffer, TablesInv
  <2>1. /\ bos[s] \in Seq(Bos)
        /\ j \in 1 .. Len(bos[s]) /\ k \in 1 .. Len(bos[s])
    BY DEF TypeOK, TablesMatch
  <2>2. Handle[bos[s][j]] = Handle[bos[s][k]]
    BY <2>1 DEF TablesMatch
  <2>3. bos[s][j] \in Bos /\ bos[s][k] \in Bos
    BY <2>1
  <2>4. bos[s][j] = bos[s][k]
    BY <2>2, <2>3
  <2>. QED BY <2>1, <2>4 DEF SoleInv
<1>4. Spec => [](TypeOK /\ ArgOK /\ MarkInv)
  BY MarkInit, MarkNext, TypeCorrect, PTL DEF Spec
<1>5. Spec => []TablesInv
  BY TablesAlways
<1>. QED BY <1>1, <1>2, <1>3, <1>4, <1>5, PTL DEF Spec
===============================================================================

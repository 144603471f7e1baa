------------------------------- MODULE BatchProofs -------------------------------
(***************************************************************************)
(* CmdStream implements CommandBatch, for every set of streams and of      *)
(* buffer objects, every size and every interleaving: each step of a       *)
(* thread is a step of its batch, or changes nothing a batch consists of.  *)
(***************************************************************************)
EXTENDS CmdStreamProofs

-------------------------------------------------------------------------------
(***************************************************************************)
(* What the refinement needs besides the invariants of CmdStreamProofs.    *)
(***************************************************************************)

\* Between calls there is no buffer object at hand, and only a relocation has one.
CallInv ==
  \A s \in Streams :
    /\ pc[s] \in {"free", "idle"} => call[s] = "none"
    /\ pc[s] = "body" => call[s] \in Emitting
    /\ call[s] # "reloc" => arg[s] = NoBo

\* No two relocations of a stream are for the same word.
RelocsSorted ==
  \A s \in Streams : \A j, k \in 1 .. Len(relocs[s]) :
    j < k => relocs[s][j].submit_offset < relocs[s][k].submit_offset

BatchInv == CallInv /\ RelocsSorted

\* Initially no thread is in a call.
LEMMA BatchInit == Init => BatchInv
BY DEF Init, BatchInv, CallInv, RelocsSorted

\* A call takes its buffer object in at the start and forgets it at the end.
LEMMA CallNext == TypeOK /\ ArgOK /\ CallInv /\ [Next]_vars => CallInv'
<1>. SUFFICES ASSUME TypeOK, ArgOK, CallInv, [Next]_vars PROVE CallInv'
  OBVIOUS
<1>. USE DEF Goto, Emitting
<1>0. /\ pc \in [Streams -> Labels]
      /\ call \in [Streams -> Calls]
      /\ arg \in [Streams -> Bos \cup {NoBo}]
  BY DEF TypeOK
<1>1. ASSUME NEW s \in Streams, Client(s) PROVE CallInv'
  BY <1>0, <1>1 DEF Client, StreamNew, StreamDel, Enter, CallInv
<1>2. ASSUME NEW s \in Streams, EmitState(s) \/ UnlockAndReloc(s) \/ ResetAndReturn(s)
      PROVE  CallInv'
  BY <1>0, <1>2 DEF EmitState, UnlockAndReloc, ResetAndReturn, Return, CallInv
<1>3. ASSUME NEW s \in Streams,
             \/ Lock(s) \/ TestUnmarked(s) \/ TestMarked(s) \/ SetCurrentStream(s) \/ SetIdx(s)
             \/ OwnerIsSelf(s) \/ OwnerIsOther(s)
             \/ \E accepted \in BOOLEAN : Submit(s, accepted)
             \/ ClearMark(s) \/ ClearDone(s) \/ Wait(s) \/ ResetInReserve(s)
      PROVE  CallInv'
  BY <1>0, <1>3 DEF Lock, TestUnmarked, TestMarked, SetCurrentStream, SetIdx, OwnerIsSelf,
                    OwnerIsOther, Submit, ClearMark, ClearDone, Wait, ResetInReserve, CallInv
<1>4. CASE UNCHANGED vars
  BY <1>4 DEF vars, thread, CallInv
<1>. QED BY <1>1, <1>2, <1>3, <1>4 DEF Next, Step

\* A new relocation is for a word behind all the others.
LEMMA SortedNext == TypeOK /\ TablesInv /\ RelocsSorted /\ [Next]_vars => RelocsSorted'
<1>. SUFFICES ASSUME TypeOK, TablesInv, RelocsSorted, [Next]_vars PROVE RelocsSorted'
  OBVIOUS
<1>0. /\ relocs \in [Streams -> Seq(SubmitReloc)]
      /\ offset \in [Streams -> Nat]
  BY DEF TypeOK
<1>1. CASE UNCHANGED relocs
  BY <1>1 DEF RelocsSorted
<1>2. ASSUME NEW s \in Streams, relocs' = [relocs EXCEPT ![s] = <<>>] PROVE RelocsSorted'
  BY <1>0, <1>2 DEF RelocsSorted
<1>3. ASSUME NEW s \in Streams, UnlockAndReloc(s) PROVE RelocsSorted'
  <2>. DEFINE new == [reloc_idx |-> idx[s], submit_offset |-> offset[s] + 1]
  <2>1. new.submit_offset = offset[s] + 1
    OBVIOUS
  <2>2. relocs' = [relocs EXCEPT ![s] = Append(@, new)]
    BY <1>3 DEF UnlockAndReloc
  <2>. HIDE DEF new
  <2>3. ASSUME NEW j \in 1 .. Len(relocs[s])
        PROVE  relocs[s][j].submit_offset < new.submit_offset
    <3>1. relocs[s][j].submit_offset \in Nat
      BY <1>0, RelocType
    <3>2. relocs[s][j].submit_offset < offset[s]
      BY DEF TablesInv, RelocsWellFormed
    <3>. QED BY <1>0, <2>1, <3>1, <3>2
  <2>. SUFFICES ASSUME NEW t \in Streams, NEW j \in 1 .. Len(relocs'[t]),
                       NEW k \in 1 .. Len(relocs'[t]), j < k
                PROVE  relocs'[t][j].submit_offset < relocs'[t][k].submit_offset
    BY DEF RelocsSorted
  <2>4. CASE t # s
    <3>1. relocs'[t] = relocs[t]
      BY <1>0, <2>2, <2>4
    <3>. QED BY <3>1 DEF RelocsSorted
  <2>5. CASE t = s
    <3>1. /\ j \in 1 .. Len(relocs[s]) /\ relocs'[s][j] = relocs[s][j]
          /\ \/ k \in 1 .. Len(relocs[s]) /\ relocs'[s][k] = relocs[s][k]
             \/ relocs'[s][k] = new
      BY <1>0, <2>2, <2>5
    <3>. QED BY <2>3, <2>5, <3>1 DEF RelocsSorted
  <2>. QED BY <2>4, <2>5
<1>4. ASSUME NEW s \in Streams, Client(s) \/ Step(s)
      PROVE  \/ UNCHANGED relocs
             \/ relocs' = [relocs EXCEPT ![s] = <<>>]
             \/ UnlockAndReloc(s)
  BY <1>4 DEF Client, Step, StreamNew, StreamDel, Enter, EmitState, Lock, TestUnmarked,
              TestMarked, SetCurrentStream, SetIdx, OwnerIsSelf, OwnerIsOther, Submit,
              ClearMark, ClearDone, Wait, ResetInReserve, ResetAndReturn, ResetBuffer, tables
<1>5. CASE UNCHANGED vars
  BY <1>1, <1>5 DEF vars, tables
<1>. QED BY <1>1, <1>2, <1>3, <1>4, <1>5 DEF Next

-------------------------------------------------------------------------------
(***************************************************************************)
(* The words of a stream, read through its tables.                         *)
(***************************************************************************)

\* Of relocations in increasing order at most one is for a word.
LEMMA RelocOfWord ==
  ASSUME NEW q \in Seq(SubmitReloc),
         \A i, j \in 1 .. Len(q) : i < j => q[i].submit_offset < q[j].submit_offset,
         NEW v, NEW k \in 1 .. Len(q), q[k].submit_offset = v
  PROVE  (CHOOSE j \in 1 .. Len(q) : q[j].submit_offset = v) = k
<1>. DEFINE c == CHOOSE j \in 1 .. Len(q) : q[j].submit_offset = v
<1>1. c \in 1 .. Len(q) /\ q[c].submit_offset = v
  OBVIOUS
<1>. HIDE DEF c
<1>2. v \in Nat
  BY RelocType
<1>3. c = k
  BY <1>1, <1>2
<1>. QED BY <1>3 DEF c

\* A word is a buffer object of the stream's table or none.
LEMMA WordType ==
  ASSUME TypeOK, TablesInv, NEW s \in Streams, NEW w \in 1 .. offset[s]
  PROVE  WordAt(s, w) \in Bos \cup {NoBo}
<1>. DEFINE c == CHOOSE j \in 1 .. Len(relocs[s]) : relocs[s][j].submit_offset = w - 1
<1>0. relocs[s] \in Seq(SubmitReloc) /\ bos[s] \in Seq(Bos)
  BY DEF TypeOK
<1>1. CASE \E k \in 1 .. Len(relocs[s]) : relocs[s][k].submit_offset = w - 1
  <2>1. c \in 1 .. Len(relocs[s])
    BY <1>1
  <2>2. WordAt(s, w) = bos[s][relocs[s][c].reloc_idx + 1]
    BY <1>1 DEF WordAt
  <2>. HIDE DEF c
  <2>3. relocs[s][c].reloc_idx \in Nat /\ relocs[s][c].reloc_idx < Len(bos[s])
    BY <1>0, <2>1, RelocType DEF TablesInv, RelocsWellFormed, TablesMatch
  <2>. QED BY <1>0, <2>2, <2>3
<1>2. CASE ~ \E k \in 1 .. Len(relocs[s]) : relocs[s][k].submit_offset = w - 1
  BY <1>2 DEF WordAt
<1>. QED BY <1>1, <1>2

\* The words are as many as the offset says.
LEMMA WordsType ==
  ASSUME TypeOK, TablesInv, NEW s \in Streams
  PROVE  Words(s) \in Seq(Bos \cup {NoBo}) /\ Len(Words(s)) = offset[s]
<1>1. offset[s] \in Nat
  BY DEF TypeOK
<1>. QED BY <1>1, WordType DEF Words

\* A longer table says the same of the words there are.
LEMMA WordsKept ==
  ASSUME TypeOK, TablesInv, NEW s \in Streams,
         offset'[s] = offset[s], relocs'[s] = relocs[s],
         \A k \in 1 .. Len(bos[s]) : bos'[s][k] = bos[s][k]
  PROVE  Words(s)' = Words(s)
<1>0. relocs[s] \in Seq(SubmitReloc) /\ bos[s] \in Seq(Bos)
  BY DEF TypeOK
<1>1. ASSUME NEW w \in 1 .. offset[s] PROVE WordAt(s, w)' = WordAt(s, w)
  <2>. DEFINE c == CHOOSE k \in 1 .. Len(relocs[s]) : relocs[s][k].submit_offset = w - 1
  <2>1. CASE \E k \in 1 .. Len(relocs[s]) : relocs[s][k].submit_offset = w - 1
    <3>1. c \in 1 .. Len(relocs[s])
      BY <2>1
    <3>2. /\ WordAt(s, w) = bos[s][relocs[s][c].reloc_idx + 1]
          /\ WordAt(s, w)' = bos'[s][relocs[s][c].reloc_idx + 1]
      BY <2>1 DEF WordAt
    <3>. HIDE DEF c
    <3>3. relocs[s][c].reloc_idx \in Nat /\ relocs[s][c].reloc_idx < Len(bos[s])
      BY <1>0, <3>1, RelocType DEF TablesInv, RelocsWellFormed, TablesMatch
    <3>. QED BY <1>0, <3>2, <3>3
  <2>2. CASE ~ \E k \in 1 .. Len(relocs[s]) : relocs[s][k].submit_offset = w - 1
    BY <2>2 DEF WordAt
  <2>. QED BY <2>1, <2>2
<1>. QED BY <1>1 DEF Words

\* A state that is emitted is two words without an address.
LEMMA WordsOfState ==
  ASSUME TypeOK, TablesInv, NEW s \in Streams, EmitState(s)
  PROVE  Words(s)' = Words(s) \o <<NoBo, NoBo>>
<1>0. /\ offset[s] \in Nat /\ offset'[s] = offset[s] + 2
      /\ relocs' = relocs /\ bos' = bos
      /\ relocs[s] \in Seq(SubmitReloc)
  BY DEF TypeOK, EmitState, StateWords, tables
<1>1. \A w : WordAt(s, w)' = WordAt(s, w)
  BY <1>0 DEF WordAt
<1>2. ASSUME NEW w \in {offset[s] + 1, offset[s] + 2} PROVE WordAt(s, w) = NoBo
  <2>1. ASSUME NEW k \in 1 .. Len(relocs[s]) PROVE relocs[s][k].submit_offset # w - 1
    <3>1. relocs[s][k].submit_offset \in Nat /\ relocs[s][k].submit_offset < offset[s]
      BY <1>0, RelocType DEF TablesInv, RelocsWellFormed
    <3>. QED BY <1>0, <3>1
  <2>. QED BY <2>1 DEF WordAt
<1>3. Words(s) \in Seq(Bos \cup {NoBo}) /\ Len(Words(s)) = offset[s]
  BY WordsType
<1>4. \A w \in 1 .. offset[s] : Words(s)[w] = WordAt(s, w)
  BY DEF Words
<1>5. Words(s)' = [w \in 1 .. offset[s] + 2 |-> WordAt(s, w)]
  BY <1>0, <1>1 DEF Words
<1>. HIDE DEF Words
<1>. DEFINE n == offset[s]
            old == Words(s)
            longer == old \o <<NoBo, NoBo>>
<1>6. /\ n \in Nat /\ old \in Seq(Bos \cup {NoBo}) /\ Len(old) = n
      /\ \A w \in 1 .. n : old[w] = WordAt(s, w)
      /\ WordAt(s, n + 1) = NoBo /\ WordAt(s, n + 2) = NoBo
      /\ Words(s)' = [w \in 1 .. n + 2 |-> WordAt(s, w)]
  BY <1>0, <1>2, <1>3, <1>4, <1>5
<1>. HIDE DEF n, old
<1>7. longer \in Seq(Bos \cup {NoBo}) /\ Len(longer) = n + 2
  BY <1>6
<1>8. \A w \in 1 .. n : longer[w] = WordAt(s, w)
  BY <1>6
<1>9. longer[n + 1] = NoBo /\ longer[n + 2] = NoBo
  BY <1>6
<1>. HIDE DEF longer
<1>10. ASSUME NEW w \in 1 .. n + 2 PROVE longer[w] = WordAt(s, w)
  <2>1. w \in 1 .. n \/ w = n + 1 \/ w = n + 2
    BY <1>6
  <2>. QED BY <1>6, <1>8, <1>9, <2>1
<1>11. longer = [w \in 1 .. n + 2 |-> WordAt(s, w)]
  BY <1>6, <1>7, <1>10
<1>. QED BY <1>6, <1>11 DEF longer, old

\* A relocation is a word without an address and one with the buffer object the
\* caller gave.
LEMMA WordsOfReloc ==
  ASSUME TypeOK, LocalIdx, TablesInv, RelocsSorted, RelocsSorted',
         NEW s \in Streams, UnlockAndReloc(s), arg[s] \in Bos
  PROVE  Words(s)' = Words(s) \o <<NoBo, arg[s]>>
<1>a. PICK n : n = offset[s]
  OBVIOUS
<1>. DEFINE q == relocs[s]
            new == [reloc_idx |-> idx[s], submit_offset |-> offset[s] + 1]
            longer == Words(s) \o <<NoBo, arg[s]>>
<1>0. /\ n \in Nat /\ q \in Seq(SubmitReloc) /\ new \in SubmitReloc
      /\ offset'[s] = n + 2 /\ bos' = bos /\ relocs'[s] = Append(q, new)
      /\ bos[s][idx[s] + 1] = arg[s]
  BY <1>a DEF TypeOK, LocalIdx, UnlockAndReloc, StateWords, SubmitReloc, Return, Goto
<1>1. new.reloc_idx = idx[s] /\ new.submit_offset = n + 1
  BY <1>a
<1>. HIDE DEF new
<1>2. \A k \in 1 .. Len(q) : q[k].submit_offset \in Nat /\ q[k].submit_offset < n
  BY <1>0, <1>a, RelocType DEF TablesInv, RelocsWellFormed
<1>3. /\ \A i, j \in 1 .. Len(q) : i < j => q[i].submit_offset < q[j].submit_offset
      /\ \A i, j \in 1 .. Len(relocs'[s]) :
           i < j => relocs'[s][i].submit_offset < relocs'[s][j].submit_offset
  BY DEF RelocsSorted
<1>. HIDE DEF q
<1>. DEFINE r == Append(q, new)
<1>4. /\ r \in Seq(SubmitReloc) /\ Len(r) = Len(q) + 1 /\ Len(q) \in Nat
      /\ r[Len(q) + 1] = new
      /\ \A k \in 1 .. Len(q) : r[k] = q[k]
  BY <1>0
<1>5. \A i, j \in 1 .. Len(r) : i < j => r[i].submit_offset < r[j].submit_offset
  BY <1>0, <1>3
<1>6. \A w : WordAt(s, w)' =
        IF \E k \in 1 .. Len(r) : r[k].submit_offset = w - 1
        THEN bos[s][r[CHOOSE k \in 1 .. Len(r) : r[k].submit_offset = w - 1].reloc_idx + 1]
        ELSE NoBo
  BY <1>0 DEF WordAt
<1>7. \A w : WordAt(s, w) =
        IF \E k \in 1 .. Len(q) : q[k].submit_offset = w - 1
        THEN bos[s][q[CHOOSE k \in 1 .. Len(q) : q[k].submit_offset = w - 1].reloc_idx + 1]
        ELSE NoBo
  BY DEF WordAt, q
<1>. HIDE DEF r
<1>8. ASSUME NEW w \in 1 .. n PROVE WordAt(s, w)' = WordAt(s, w)
  <2>1. CASE \E k \in 1 .. Len(q) : q[k].submit_offset = w - 1
    <3>1. PICK k \in 1 .. Len(q) : q[k].submit_offset = w - 1
      BY <2>1
    <3>2. k \in 1 .. Len(r) /\ r[k].submit_offset = w - 1 /\ r[k] = q[k]
      BY <1>4, <3>1
    <3>3. (CHOOSE j \in 1 .. Len(q) : q[j].submit_offset = w - 1) = k
      BY <1>0, <1>3, <3>1, RelocOfWord
    <3>4. (CHOOSE j \in 1 .. Len(r) : r[j].submit_offset = w - 1) = k
      BY <1>4, <1>5, <3>2, RelocOfWord
    <3>. QED BY <1>6, <1>7, <3>1, <3>2, <3>3, <3>4
  <2>2. CASE ~ \E k \in 1 .. Len(q) : q[k].submit_offset = w - 1
    <3>1. ASSUME NEW k \in 1 .. Len(r) PROVE r[k].submit_offset # w - 1
      <4>1. CASE k \in 1 .. Len(q)
        BY <1>4, <2>2, <4>1
      <4>2. CASE k = Len(q) + 1
        BY <1>0, <1>1, <1>4, <4>2
      <4>. QED BY <1>4, <4>1, <4>2
    <3>. QED BY <1>6, <1>7, <2>2, <3>1
  <2>. QED BY <2>1, <2>2
<1>9. WordAt(s, n + 1)' = NoBo
  <2>1. ASSUME NEW k \in 1 .. Len(r) PROVE r[k].submit_offset # (n + 1) - 1
    <3>1. CASE k \in 1 .. Len(q)
      BY <1>0, <1>2, <1>4, <3>1
    <3>2. CASE k = Len(q) + 1
      BY <1>0, <1>1, <1>4, <3>2
    <3>. QED BY <1>4, <3>1, <3>2
  <2>. QED BY <1>0, <1>6, <2>1
<1>10. WordAt(s, n + 2)' = arg[s]
  <2>1. Len(q) + 1 \in 1 .. Len(r) /\ r[Len(q) + 1].submit_offset = (n + 2) - 1
    BY <1>0, <1>1, <1>4
  <2>2. (CHOOSE j \in 1 .. Len(r) : r[j].submit_offset = (n + 2) - 1) = Len(q) + 1
    BY <1>4, <1>5, <2>1, RelocOfWord
  <2>. QED BY <1>0, <1>1, <1>4, <1>6, <2>1, <2>2
<1>11. /\ Words(s) \in Seq(Bos \cup {NoBo}) /\ Len(Words(s)) = n
       /\ \A w \in 1 .. n : Words(s)[w] = WordAt(s, w)
       /\ Words(s)' = [w \in 1 .. n + 2 |-> WordAt(s, w)']
  BY <1>0, <1>a, WordsType DEF Words
<1>. HIDE DEF Words, WordAt
<1>12. longer \in Seq(Bos \cup {NoBo}) /\ Len(longer) = n + 2
  BY <1>0, <1>11
<1>13. \A w \in 1 .. n : longer[w] = WordAt(s, w)'
  BY <1>0, <1>8, <1>11
<1>14. longer[n + 1] = NoBo /\ longer[n + 2] = arg[s]
  BY <1>0, <1>11
<1>. HIDE DEF longer
<1>15. ASSUME NEW w \in 1 .. n + 2 PROVE longer[w] = WordAt(s, w)'
  <2>1. w \in 1 .. n \/ w = n + 1 \/ w = n + 2
    BY <1>0
  <2>. QED BY <1>9, <1>10, <1>13, <1>14, <2>1
<1>16. longer = Words(s)'
  BY <1>0, <1>11, <1>12, <1>15
<1>. QED BY <1>16 DEF longer

-------------------------------------------------------------------------------
(***************************************************************************)
(* Steps.                                                                  *)
(***************************************************************************)

\* The streams that are not in a step keep their words and their state.
Apart(s) ==
  \A t \in Streams \ {s} :
    /\ pc'[t] = "free" <=> pc[t] = "free"
    /\ Handed(t)' <=> Handed(t)
    /\ Words(t)' = Words(t)

\* The step of a thread leaves the other streams alone.
LEMMA OthersKeepWords ==
  ASSUME TypeOK, TablesInv, NEW s \in Streams, Client(s) \/ Step(s)
  PROVE  Apart(s)
<1>. SUFFICES ASSUME NEW t \in Streams \ {s}
              PROVE  pc'[t] = pc[t] /\ offset'[t] = offset[t] /\ relocs'[t] = relocs[t]
                     /\ bos'[t] = bos[t]
  <2>1. ASSUME NEW t \in Streams \ {s}, offset'[t] = offset[t], relocs'[t] = relocs[t], bos'[t] = bos[t]
        PROVE  Words(t)' = Words(t)
    BY <2>1, WordsKept
  <2>. QED BY <2>1 DEF Apart, Handed
<1>0. /\ pc \in [Streams -> Labels] /\ offset \in [Streams -> Nat]
      /\ relocs \in [Streams -> Seq(SubmitReloc)] /\ bos \in [Streams -> Seq(Bos)]
  BY DEF TypeOK
<1>. USE DEF Goto, tables
<1>1. CASE Client(s)
  BY <1>0, <1>1 DEF Client, StreamNew, StreamDel, Enter
<1>2. CASE Step(s)
  <2>1. CASE \/ EmitState(s) \/ Lock(s) \/ TestMarked(s) \/ SetCurrentStream(s) \/ SetIdx(s)
             \/ OwnerIsSelf(s) \/ UnlockAndReloc(s)
    BY <1>0, <2>1 DEF EmitState, Lock, TestMarked, SetCurrentStream, SetIdx, OwnerIsSelf,
                      UnlockAndReloc, Return
  <2>2. CASE TestUnmarked(s) \/ OwnerIsOther(s)
    BY <1>0, <2>2 DEF TestUnmarked, OwnerIsOther, AppendBo
  <2>3. CASE \/ \E accepted \in BOOLEAN : Submit(s, accepted)
             \/ ClearMark(s) \/ ClearDone(s) \/ Wait(s) \/ ResetInReserve(s) \/ ResetAndReturn(s)
    BY <1>0, <2>3 DEF Submit, ClearMark, ClearDone, Wait, ResetInReserve, ResetAndReturn,
                      ResetBuffer, Return
  <2>. QED BY <1>2, <2>1, <2>2, <2>3 DEF Step
<1>. QED BY <1>1, <1>2

\* A step that changes no words, hands none over and has no buffer object in its
\* call is no step of a batch.
LEMMA Stutters ==
  ASSUME NEW s \in Streams, Apart(s),
         pc'[s] = "free" <=> pc[s] = "free", Handed(s)' <=> Handed(s), Words(s)' = Words(s),
         UNCHANGED <<arg, last_timestamp, seqno>>
  PROVE  UNCHANGED Batch!vars
<1>1. ASSUME NEW t \in Streams
      PROVE  /\ pc'[t] = "free" <=> pc[t] = "free"
             /\ Handed(t)' <=> Handed(t)
             /\ Words(t)' = Words(t)
  BY DEF Apart
<1>. HIDE DEF Handed, Words
<1>. QED BY <1>1 DEF Batch!vars

\* A new stream starts with an empty batch.
LEMMA NewStep ==
  ASSUME TypeOK, TablesInv, NEW s \in Streams, StreamNew(s)
  PROVE  Batch!New(s)
<1>1. Apart(s)
  BY OthersKeepWords DEF Client
<1>2. /\ pc[s] = "free" /\ pc'[s] = "idle" /\ offset'[s] = 0
      /\ last_timestamp' = [last_timestamp EXCEPT ![s] = 0]
      /\ UNCHANGED <<arg, seqno>>
  BY DEF StreamNew, Goto, TypeOK
<1>3. ~Handed(s) /\ ~Handed(s)'
  BY <1>2 DEF Handed
<1>4. Words(s)' = <<>>
  BY <1>2 DEF Words
<1>. HIDE DEF Handed, Words
<1>. QED BY <1>1, <1>2, <1>3, <1>4 DEF Apart, Batch!New

\* A stream that is deleted refers to nothing.
LEMMA DelStep ==
  ASSUME TypeOK, TablesInv, NEW s \in Streams, StreamDel(s)
  PROVE  Batch!Del(s)
<1>1. Apart(s)
  BY OthersKeepWords DEF Client
<1>2. /\ pc[s] = "idle" /\ pc'[s] = "free" /\ bos[s] = <<>>
      /\ UNCHANGED <<offset, bos, relocs, arg, last_timestamp, seqno>>
  BY DEF StreamDel, Goto, TypeOK, tables, kernel
<1>3. ~Handed(s) /\ ~Handed(s)'
  BY <1>2 DEF Handed
<1>4. Words(s)' = Words(s)
  BY <1>2, WordsKept
<1>5. ASSUME NEW w \in 1 .. Len(Words(s)) PROVE Words(s)[w] = NoBo
  <2>1. relocs[s] = <<>>
    <3>. SUFFICES ASSUME NEW k \in 1 .. Len(relocs[s]) PROVE FALSE
      BY DEF TypeOK
    <3>1. relocs[s][k].reloc_idx \in Nat /\ relocs[s][k].reloc_idx < Len(bos[s])
      BY RelocType DEF TypeOK, TablesInv, RelocsWellFormed, TablesMatch
    <3>. QED BY <1>2, <3>1
  <2>2. WordAt(s, w) = NoBo
    BY <2>1 DEF WordAt
  <2>3. w \in 1 .. offset[s]
    BY WordsType
  <2>. QED BY <2>2, <2>3 DEF Words
<1>. HIDE DEF Handed, Words
<1>. QED BY <1>1, <1>2, <1>3, <1>4, <1>5 DEF Apart, Batch!Del, Batch!Data

\* A call begins: only the one of etna_cmd_stream_reloc shows.
LEMMA EnterStep ==
  ASSUME TypeOK, TablesInv, CallInv, NEW s \in Streams, NEW c \in Calls,
         NEW b \in Bos \cup {NoBo}, Enter(s, c, b), Client(s)
  PROVE  IF b = NoBo THEN UNCHANGED Batch!vars ELSE Batch!Request(s, b)
<1>1. Apart(s)
  BY OthersKeepWords
<1>2. /\ pc[s] = "idle" /\ pc'[s] \in {"body", "submit"} /\ arg[s] = NoBo
      /\ arg' = [arg EXCEPT ![s] = b]
      /\ UNCHANGED <<offset, bos, relocs, last_timestamp, seqno>>
  BY DEF Enter, TypeOK, CallInv, tables, kernel
<1>3. ~Handed(s) /\ ~Handed(s)'
  BY <1>2 DEF Handed
<1>4. Words(s)' = Words(s)
  BY <1>2, WordsKept
<1>. HIDE DEF Handed, Words
<1>5. CASE b = NoBo
  <2>1. arg' = arg
    BY <1>2, <1>5 DEF TypeOK
  <2>. QED BY <1>1, <1>2, <1>3, <1>4, <1>5, <2>1, Stutters
<1>6. CASE b # NoBo
  BY <1>1, <1>2, <1>3, <1>4, <1>6 DEF Apart, Batch!Request
<1>. QED BY <1>5, <1>6

\* The two words of a state.
LEMMA EmitStep ==
  ASSUME TypeOK, TablesInv, CallInv, NEW s \in Streams, EmitState(s)
  PROVE  Batch!Emit(s)
<1>1. Apart(s)
  BY OthersKeepWords DEF Step
<1>2. /\ pc[s] = "body" /\ pc'[s] = "idle" /\ arg[s] = NoBo
      /\ arg' = [arg EXCEPT ![s] = NoBo]
      /\ UNCHANGED <<last_timestamp, seqno>>
  BY DEF EmitState, Return, Goto, TypeOK, CallInv, kernel
<1>3. ~Handed(s) /\ ~Handed(s)'
  BY <1>2 DEF Handed
<1>4. Words(s)' = Words(s) \o <<NoBo, NoBo>>
  BY WordsOfState
<1>5. arg' = arg
  BY <1>2 DEF TypeOK
<1>. HIDE DEF Handed, Words
<1>. QED BY <1>1, <1>2, <1>3, <1>4, <1>5 DEF Apart, Batch!Emit, Batch!Data

\* The two words of a relocation.
LEMMA RelocStep ==
  ASSUME TypeOK, ArgOK, LocalIdx, TablesInv, RelocsSorted, RelocsSorted',
         NEW s \in Streams, UnlockAndReloc(s)
  PROVE  Batch!Reference(s)
<1>1. Apart(s)
  BY OthersKeepWords DEF Step
<1>2. /\ pc[s] = "unlock" /\ pc'[s] = "idle" /\ arg[s] \in Bos
      /\ arg' = [arg EXCEPT ![s] = NoBo]
      /\ UNCHANGED <<last_timestamp, seqno>>
  BY DEF UnlockAndReloc, Return, Goto, TypeOK, ArgOK, Locked, kernel
<1>3. ~Handed(s) /\ ~Handed(s)'
  BY <1>2 DEF Handed
<1>4. Words(s)' = Words(s) \o <<NoBo, arg[s]>>
  BY <1>2, WordsOfReloc
<1>5. arg[s] # NoBo
  BY <1>2, CmdStreamAssumption
<1>. HIDE DEF Handed, Words
<1>. QED BY <1>1, <1>2, <1>3, <1>4, <1>5 DEF Apart, Batch!Reference, Batch!Data

\* The ioctl takes the batch as it is.
LEMMA SubmitStep ==
  ASSUME TypeOK, TablesInv, NEW s \in Streams, NEW accepted \in BOOLEAN, Submit(s, accepted)
  PROVE  Batch!Submit(s)
<1>1. Apart(s)
  BY OthersKeepWords DEF Step
<1>2. /\ pc[s] = "submit" /\ pc'[s] = "clear"
      /\ UNCHANGED <<offset, bos, relocs, arg>>
      /\ \/ /\ seqno' = (seqno + 1) % FenceMod
            /\ last_timestamp' = [last_timestamp EXCEPT ![s] = seqno']
         \/ UNCHANGED <<seqno, last_timestamp>>
  BY DEF Submit, Goto, TypeOK, tables
<1>3. ~Handed(s) /\ Handed(s)'
  BY <1>2 DEF Handed
<1>4. Words(s)' = Words(s)
  BY <1>2, WordsKept
<1>. HIDE DEF Handed, Words
<1>. QED BY <1>1, <1>2, <1>3, <1>4 DEF Apart, Batch!Submit

\* The buffer is empty again.
LEMMA ResetStep ==
  ASSUME TypeOK, TablesInv, CallInv, NEW s \in Streams,
         ResetInReserve(s) \/ ResetAndReturn(s)
  PROVE  Batch!Return(s)
<1>1. Apart(s)
  BY OthersKeepWords DEF Step
<1>2. /\ pc[s] = "reset" /\ pc'[s] \in {"idle", "body"} /\ offset'[s] = 0
      /\ UNCHANGED <<last_timestamp, seqno>>
  BY DEF ResetInReserve, ResetAndReturn, ResetBuffer, Return, Goto, TypeOK, kernel
<1>3. arg' = arg
  BY DEF ResetInReserve, ResetAndReturn, Return, Goto, TypeOK, CallInv, Emitting
<1>4. Handed(s) /\ ~Handed(s)'
  BY <1>2 DEF Handed
<1>5. Words(s)' = <<>>
  BY <1>2 DEF Words
<1>. HIDE DEF Handed, Words
<1>. QED BY <1>1, <1>2, <1>3, <1>4, <1>5 DEF Apart, Batch!Return

\* What bo2idx does to the tables, the marks and the lock, and what a flush does
\* between the ioctl and the reset, is the implementation's own affair.
LEMMA InnerStep ==
  ASSUME TypeOK, ArgOK, TablesInv, NEW s \in Streams,
         \/ Lock(s) \/ TestUnmarked(s) \/ TestMarked(s) \/ SetCurrentStream(s) \/ SetIdx(s)
         \/ OwnerIsSelf(s) \/ OwnerIsOther(s)
         \/ ClearMark(s) \/ ClearDone(s) \/ Wait(s)
  PROVE  UNCHANGED Batch!vars
<1>. USE DEF Goto, tables, kernel
<1>1. Apart(s)
  BY OthersKeepWords DEF Step
<1>2. /\ offset'[s] = offset[s] /\ relocs'[s] = relocs[s]
      /\ UNCHANGED <<arg, last_timestamp, seqno>>
  BY DEF Lock, TestUnmarked, TestMarked, SetCurrentStream, SetIdx, OwnerIsSelf, OwnerIsOther,
         ClearMark, ClearDone, Wait
<1>3. \/ pc[s] \in Locked \cup {"body"} /\ pc'[s] \in Locked
      \/ pc[s] \in {"clear", "wait"} /\ pc'[s] \in {"clear", "wait", "reset"}
  BY DEF TypeOK, Locked, Lock, TestUnmarked, TestMarked, SetCurrentStream, SetIdx, OwnerIsSelf,
         OwnerIsOther, ClearMark, ClearDone, Wait
<1>4. \A k \in 1 .. Len(bos[s]) : bos'[s][k] = bos[s][k]
  <2>1. CASE UNCHANGED bos
    BY <2>1
  <2>2. CASE bos' = [bos EXCEPT ![s] = Append(@, arg[s])]
    <3>1. bos'[s] = Append(bos[s], arg[s]) /\ bos[s] \in Seq(Bos)
      BY <2>2 DEF TypeOK
    <3>. QED BY <3>1
  <2>. QED BY <2>1, <2>2 DEF Lock, TestUnmarked, TestMarked, SetCurrentStream, SetIdx,
                   OwnerIsSelf, OwnerIsOther, AppendBo, ClearMark, ClearDone, Wait
<1>5. Words(s)' = Words(s)
  BY <1>2, <1>4, WordsKept
<1>6. (pc'[s] = "free" <=> pc[s] = "free") /\ (Handed(s)' <=> Handed(s))
  BY <1>3 DEF Handed, Locked
<1>. QED BY <1>1, <1>2, <1>5, <1>6, Stutters

\* Every step of CmdStream is a step of CommandBatch or none.
LEMMA BatchStep ==
  ASSUME TypeOK, ArgOK, MarkInv, TablesInv, BatchInv, RelocsSorted', [Next]_vars
  PROVE  [Batch!Next]_(Batch!vars)
<1>. USE DEF BatchInv
<1>1. ASSUME NEW s \in Streams, Client(s)
      PROVE  Batch!Next \/ UNCHANGED Batch!vars
  <2>1. CASE StreamNew(s)
    BY <2>1, NewStep DEF Batch!Next
  <2>2. CASE StreamDel(s)
    BY <2>2, DelStep DEF Batch!Next
  <2>3. ASSUME NEW c \in {"state", "flush", "finish"}, Enter(s, c, NoBo)
        PROVE  UNCHANGED Batch!vars
    BY <1>1, <2>3, EnterStep DEF Calls
  <2>4. ASSUME NEW b \in Bos, Enter(s, "reloc", b) PROVE Batch!Request(s, b)
    BY <1>1, <2>4, EnterStep, CmdStreamAssumption DEF Calls
  <2>. QED BY <1>1, <2>1, <2>2, <2>3, <2>4 DEF Client, Batch!Next
<1>2. ASSUME NEW s \in Streams, Step(s)
      PROVE  Batch!Next \/ UNCHANGED Batch!vars
  <2>1. CASE EmitState(s)
    BY <2>1, EmitStep DEF Batch!Next
  <2>2. CASE UnlockAndReloc(s)
    BY <2>2, RelocStep DEF Batch!Next, MarkInv
  <2>3. ASSUME NEW accepted \in BOOLEAN, Submit(s, accepted) PROVE Batch!Next
    BY <2>3, SubmitStep DEF Batch!Next
  <2>4. CASE ResetInReserve(s) \/ ResetAndReturn(s)
    BY <2>4, ResetStep DEF Batch!Next
  <2>5. CASE \/ Lock(s) \/ TestUnmarked(s) \/ TestMarked(s) \/ SetCurrentStream(s) \/ SetIdx(s)
             \/ OwnerIsSelf(s) \/ OwnerIsOther(s)
             \/ ClearMark(s) \/ ClearDone(s) \/ Wait(s)
    BY <2>5, InnerStep
  <2>. QED BY <1>2, <2>1, <2>2, <2>3, <2>4, <2>5 DEF Step
<1>3. CASE UNCHANGED vars
  BY <1>3 DEF vars, bovars, tables, kernel, thread, Batch!vars, Handed, Words, WordAt
<1>. QED BY <1>1, <1>2, <1>3 DEF Next

\* Initially there is no stream and no batch.
LEMMA BatchStart == Init => Batch!Init
<1>. SUFFICES ASSUME Init PROVE Batch!Init
  OBVIOUS
<1>1. ASSUME NEW s \in Streams PROVE pc[s] = "free" /\ ~Handed(s) /\ Words(s) = <<>>
  BY DEF Init, Handed, Words
<1>. HIDE DEF Handed, Words
<1>. QED BY <1>1 DEF Init, Batch!Init

\* The tables, the marks and the lock together do what CommandBatch promises
\* (property ImplementsBatch): every job is the words its stream's callers emitted
\* since the last flush, every address word bound to the buffer object it was
\* emitted for, however the threads interleave (etnaviv.c:335-473).
THEOREM StreamsImplementBatches == Spec => ImplementsBatch
<1>1. Spec => [](TypeOK /\ ArgOK /\ MarkInv)
  BY MarkInit, MarkNext, TypeCorrect, PTL DEF Spec
<1>2. Spec => []TablesInv
  BY TablesAlways
<1>3. TypeOK /\ ArgOK /\ TablesInv /\ BatchInv /\ [Next]_vars => BatchInv'
  BY CallNext, SortedNext DEF BatchInv
<1>4. TypeOK /\ ArgOK /\ MarkInv /\ TablesInv /\ BatchInv /\ BatchInv' /\ [Next]_vars
        => [Batch!Next]_(Batch!vars)
  BY BatchStep DEF BatchInv
<1>. QED BY <1>1, <1>2, <1>3, <1>4, BatchInit, BatchStart, PTL DEF Spec, ImplementsBatch, Batch!Spec
===============================================================================

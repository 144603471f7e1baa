------------------------------ MODULE BuffersProofs ------------------------------
(***************************************************************************)
(* Handles, mappings, table entries and marks are sound for any number of  *)
(* addresses, objects, handles and streams, as long as no client imports   *)
(* an object it already has a handle of.                                   *)
(***************************************************************************)
EXTENDS Buffers, TLAPS

\* What holds of structs, handles and mappings.
HInv ==
  /\ live \subseteq Addrs
  /\ bo \in [Addrs -> EtnaBo]
  /\ obj_of \in [Addrs -> Objs \cup {NoObj}]
  /\ handle_of \in [Handles -> Objs \cup {NoObj}]
  /\ dmabuf \in [Fds -> Objs \cup {NoObj}]
  /\ maps \subseteq Addrs \X Objs
  /\ \A a \in live : /\ bo[a].handle \in Handles
                     /\ obj_of[a] \in Objs
                     /\ bo[a].map \in {NoObj, obj_of[a]}
                     /\ bo[a].offset \in {NoObj, obj_of[a]}
  /\ HandleIsOwn
  /\ HandlesAreBalanced
  /\ maps = {<<a, bo[a].map>> : a \in {b \in live : bo[b].map # NoObj}}

\* What holds of the streams.
SInv ==
  /\ streams \subseteq Streams
  /\ table \in [Streams -> Seq(Entry)]
  /\ words \in [Streams -> Seq(Word)]
  /\ BatchIsAlive
  /\ MarksAreAlive

IInv == HInv /\ SInv

LEMMA InitEstablishes == Init => IInv
BY BuffersAssumption
   DEF Init, IInv, HInv, SInv, Zeroed, EtnaBo, HandleIsOwn, HandlesAreBalanced,
       BatchIsAlive, MarksAreAlive

\* Setting marks leaves the rest of a struct alone.
LEMMA MarksOnly ==
  ASSUME HInv, bo' \in [Addrs -> EtnaBo], UNCHANGED <<live, obj_of, kernel>>,
         \A a \in Addrs : /\ bo'[a].handle = bo[a].handle
                          /\ bo'[a].map = bo[a].map
                          /\ bo'[a].offset = bo[a].offset
  PROVE  HInv'
<1>1. UNCHANGED <<handle_of, dmabuf, maps, live, obj_of>>
  BY DEF kernel
<1>2. live \subseteq Addrs
  BY DEF HInv
<1>3. HandleIsOwn' /\ HandlesAreBalanced'
  BY <1>1, <1>2 DEF HInv, HandleIsOwn, HandlesAreBalanced
<1>4. maps = {<<a, bo'[a].map>> : a \in {b \in live : bo'[b].map # NoObj}}
  BY <1>1, <1>2 DEF HInv
<1>5. \A a \in live : /\ bo'[a].handle \in Handles
                      /\ obj_of[a] \in Objs
                      /\ bo'[a].map \in {NoObj, obj_of[a]}
                      /\ bo'[a].offset \in {NoObj, obj_of[a]}
  BY <1>2 DEF HInv
<1> QED
  BY <1>1, <1>3, <1>4, <1>5 DEF HInv

\* A struct made for an object under a handle that was free.
LEMMA FreshBo ==
  ASSUME HInv, NEW a \in Addrs, NEW o \in Objs, NEW h \in Handles,
         handle_of[h] = NoObj, BoFromHandle(a, o, h),
         handle_of' = [handle_of EXCEPT ![h] = o], UNCHANGED <<dmabuf, maps>>
  PROVE  HInv'
<1> DEFINE z == [Zeroed EXCEPT !.handle = h]
<1>1. /\ a \notin live /\ live' = live \cup {a}
      /\ bo' = [bo EXCEPT ![a] = z] /\ obj_of' = [obj_of EXCEPT ![a] = o]
  BY DEF BoFromHandle
<1>2. z \in EtnaBo /\ z.handle = h /\ z.map = NoObj /\ z.offset = NoObj
  BY DEF Zeroed, EtnaBo
<1> HIDE DEF z
<1>3. /\ live' \subseteq Addrs /\ bo' \in [Addrs -> EtnaBo]
      /\ obj_of' \in [Addrs -> Objs \cup {NoObj}]
      /\ handle_of' \in [Handles -> Objs \cup {NoObj}]
  BY <1>1, <1>2 DEF HInv
<1>4. /\ bo'[a] = z /\ obj_of'[a] = o /\ handle_of'[h] = o
      /\ \A b \in live : /\ b # a /\ bo'[b] = bo[b] /\ obj_of'[b] = obj_of[b]
                         /\ bo[b].handle # h
                         /\ handle_of'[bo[b].handle] = handle_of[bo[b].handle]
  BY <1>1, BuffersAssumption DEF HInv, HandleIsOwn
<1>5. \A b \in live' : /\ bo'[b].handle \in Handles
                       /\ obj_of'[b] \in Objs
                       /\ bo'[b].map \in {NoObj, obj_of'[b]}
                       /\ bo'[b].offset \in {NoObj, obj_of'[b]}
  BY <1>1, <1>2, <1>4 DEF HInv
<1>6. HandleIsOwn'
  BY <1>1, <1>2, <1>4 DEF HInv, HandleIsOwn
<1>7. HandlesAreBalanced'
  <2>1. ASSUME NEW g \in Handles, handle_of'[g] # NoObj
        PROVE  \E b \in live' : bo'[b].handle = g
    <3>1. CASE g = h
      BY <3>1, <1>1, <1>2, <1>4
    <3>2. CASE g # h
      BY <2>1, <3>2, <1>1, <1>4 DEF HInv, HandlesAreBalanced
    <3> QED
      BY <3>1, <3>2
  <2>2. \A b, c \in live' : bo'[b].handle = bo'[c].handle => b = c
    BY <1>1, <1>2, <1>4 DEF HInv, HandlesAreBalanced
  <2> QED
    BY <2>1, <2>2 DEF HandlesAreBalanced
<1>8. {b \in live' : bo'[b].map # NoObj} = {b \in live : bo[b].map # NoObj}
  BY <1>1, <1>2, <1>4
<1>9. maps' = {<<b, bo'[b].map>> : b \in {c \in live' : bo'[c].map # NoObj}}
  BY <1>4, <1>8 DEF HInv
<1> QED
  BY <1>3, <1>5, <1>6, <1>7, <1>9 DEF HInv

\* A mapping made for a struct that had none is of the struct's own object.
LEMMA MapKeeps ==
  ASSUME HInv, NEW a \in Addrs, NEW info \in BOOLEAN, NEW mmap \in BOOLEAN,
         BoMap(a, info, mmap)
  PROVE  HInv'
<1> DEFINE off == IF bo[a].offset = NoObj /\ info THEN handle_of[bo[a].handle]
                  ELSE bo[a].offset
           m == IF mmap THEN off ELSE NoObj
           z == [bo[a] EXCEPT !.offset = off, !.map = m]
<1>1. /\ a \in live /\ bo[a].map = NoObj
      /\ maps' = maps \cup ({<<a, m>>} \ {<<a, NoObj>>})
      /\ UNCHANGED <<live, obj_of, handle_of, dmabuf>>
  BY DEF BoMap
<1>2. bo' = [bo EXCEPT ![a] = z]
  BY DEF BoMap, HInv
<1>3. /\ bo[a] \in EtnaBo /\ obj_of[a] \in Objs
      /\ handle_of[bo[a].handle] = obj_of[a] /\ bo[a].offset \in {NoObj, obj_of[a]}
  BY <1>1 DEF HInv, HandleIsOwn
<1>4. off \in {NoObj, obj_of[a]} /\ m \in {NoObj, obj_of[a]}
  BY <1>3
<1> HIDE DEF off, m
<1>5. z \in EtnaBo /\ z.handle = bo[a].handle /\ z.map = m /\ z.offset = off
  BY <1>3, <1>4 DEF EtnaBo
<1> HIDE DEF z
<1>6. /\ bo' \in [Addrs -> EtnaBo] /\ bo'[a] = z
      /\ \A b \in Addrs : b # a => bo'[b] = bo[b]
      /\ \A b \in Addrs : bo'[b].handle = bo[b].handle
  BY <1>2, <1>5 DEF HInv
<1>7. \A b \in live : /\ bo'[b].handle \in Handles
                      /\ obj_of[b] \in Objs
                      /\ bo'[b].map \in {NoObj, obj_of[b]}
                      /\ bo'[b].offset \in {NoObj, obj_of[b]}
  BY <1>4, <1>5, <1>6 DEF HInv
<1>8. HandleIsOwn' /\ HandlesAreBalanced'
  BY <1>1, <1>6 DEF HInv, HandleIsOwn, HandlesAreBalanced
<1>9. maps' = {<<b, bo'[b].map>> : b \in {c \in live : bo'[c].map # NoObj}}
  <2>1. CASE m = NoObj
    <3>1. \A b \in live : bo'[b].map = bo[b].map
      BY <2>1, <1>1, <1>5, <1>6 DEF HInv
    <3>2. maps' = maps
      BY <2>1, <1>1
    <3> QED
      BY <3>1, <3>2 DEF HInv
  <2>2. CASE m # NoObj
    <3>1. maps' = maps \cup {<<a, m>>}
      BY <2>2, <1>1
    <3>2. \A b \in live : b # a => bo'[b].map = bo[b].map
      BY <1>6 DEF HInv
    <3>3. bo'[a].map = m
      BY <1>5, <1>6
    <3>4. {c \in live : bo'[c].map # NoObj} = {c \in live : bo[c].map # NoObj} \cup {a}
      BY <2>2, <1>1, <3>2, <3>3
    <3>5. maps = {<<b, bo[b].map>> : b \in {c \in live : bo[c].map # NoObj}}
      BY DEF HInv
    <3> QED
      BY <1>1, <3>1, <3>2, <3>3, <3>4, <3>5
  <2> QED
    BY <2>1, <2>2
<1>10. maps' \subseteq Addrs \X Objs
  <2>1. m # NoObj => m \in Objs
    BY <1>3, <1>4
  <2> QED
    BY <1>1, <2>1 DEF HInv
<1> QED
  BY <1>1, <1>6, <1>7, <1>8, <1>9, <1>10 DEF HInv

\* Deleting a buffer object closes its handle and removes its mapping, no other.
LEMMA DelKeeps ==
  ASSUME HInv, NEW a \in Addrs, BoDel(a)
  PROVE  HInv'
<1>1. /\ a \in live /\ live' = live \ {a} /\ maps' = maps \ {<<a, bo[a].map>>}
      /\ handle_of' = [handle_of EXCEPT ![bo[a].handle] = NoObj]
      /\ UNCHANGED <<bo, obj_of, dmabuf>>
  BY DEF BoDel
<1>2. \A b \in live' : /\ b \in live /\ bo[b].handle # bo[a].handle
                       /\ handle_of'[bo[b].handle] = handle_of[bo[b].handle]
  BY <1>1 DEF HInv, HandlesAreBalanced
<1>3. HandleIsOwn'
  BY <1>1, <1>2 DEF HInv, HandleIsOwn
<1>4. HandlesAreBalanced'
  BY <1>1, <1>2 DEF HInv, HandlesAreBalanced
<1>5. maps' = {<<b, bo[b].map>> : b \in {c \in live' : bo[c].map # NoObj}}
  <2>1. maps = {<<b, bo[b].map>> : b \in {c \in live : bo[c].map # NoObj}}
    BY DEF HInv
  <2> QED
    BY <2>1, <1>1
<1>6. /\ live' \subseteq Addrs /\ handle_of' \in [Handles -> Objs \cup {NoObj}]
      /\ maps' \subseteq Addrs \X Objs
  BY <1>1 DEF HInv
<1> QED
  BY <1>1, <1>2, <1>3, <1>4, <1>5, <1>6 DEF HInv

-------------------------------------------------------------------------------
\* Steps that leave the streams alone, the structs they list, and the marks.
LEMMA StreamsStay ==
  ASSUME SInv, UNCHANGED stream,
         \A b \in live' : \/ bo'[b].current_stream = NoStream
                          \/ /\ b \in live
                             /\ bo'[b].current_stream = bo[b].current_stream
                             /\ bo'[b].idx = bo[b].idx,
         \A b \in live : (\E s \in streams : Listed(s, b)) =>
                            b \in live' /\ bo'[b].handle = bo[b].handle
  PROVE  SInv'
<1>1. UNCHANGED <<streams, table, words>>
  BY DEF stream
<1>2. BatchIsAlive'
  <2> SUFFICES ASSUME NEW s \in streams
               PROVE  /\ \A k \in 1 .. Len(table[s]) :
                           /\ table[s][k].bo \in live'
                           /\ table[s][k].handle = bo'[table[s][k].bo].handle
                      /\ \A k \in 1 .. Len(words[s]) :
                           /\ words[s][k].idx < Len(table[s])
                           /\ table[s][words[s][k].idx + 1].bo = words[s][k].bo
    BY <1>1 DEF BatchIsAlive
  <2>1. ASSUME NEW k \in 1 .. Len(table[s])
        PROVE  /\ table[s][k].bo \in live'
               /\ table[s][k].handle = bo'[table[s][k].bo].handle
    BY DEF SInv, BatchIsAlive, Listed
  <2> QED
    BY <2>1 DEF SInv, BatchIsAlive
<1>3. MarksAreAlive'
  BY <1>1 DEF SInv, MarksAreAlive
<1> QED
  BY <1>1, <1>2, <1>3 DEF SInv

\* A new struct is unmarked.
LEMMA FreshKeepsStreams ==
  ASSUME HInv, SInv, NEW a \in Addrs, NEW o, NEW h \in Handles,
         BoFromHandle(a, o, h), UNCHANGED stream
  PROVE  SInv'
BY StreamsStay DEF BoFromHandle, Zeroed, HInv

\* Appending keeps the entries there are.
LEMMA Appended ==
  ASSUME NEW T, NEW q \in Seq(T), NEW e \in T
  PROVE  /\ Append(q, e) \in Seq(T)
         /\ Len(q) \in Nat
         /\ Len(Append(q, e)) = Len(q) + 1
         /\ \A k \in 1 .. Len(q) : Append(q, e)[k] = q[k]
         /\ Append(q, e)[Len(q) + 1] = e
OBVIOUS

\* A relocation on an entry there is.
LEMMA RelocateKeeps ==
  ASSUME NEW s \in Streams, NEW a \in Addrs, NEW i \in Nat,
         streams \subseteq Streams, words \in [Streams -> Seq(Word)],
         table' \in [Streams -> Seq(Entry)], Relocate(s, a, i),
         \A u \in streams : \A k \in 1 .. Len(words[u]) :
           /\ words[u][k].idx < Len(table'[u])
           /\ table'[u][words[u][k].idx + 1].bo = words[u][k].bo,
         i < Len(table'[s]), table'[s][i + 1].bo = a
  PROVE  /\ words' \in [Streams -> Seq(Word)]
         /\ \A u \in streams : \A k \in 1 .. Len(words'[u]) :
              /\ words'[u][k].idx < Len(table'[u])
              /\ table'[u][words'[u][k].idx + 1].bo = words'[u][k].bo
<1> DEFINE w == [bo |-> a, idx |-> i]
<1>1. w \in Word /\ w.bo = a /\ w.idx = i
  BY DEF Word
<1>2. words' = [words EXCEPT ![s] = Append(words[s], w)]
  BY DEF Relocate
<1> HIDE DEF w
<1>3. words[s] \in Seq(Word)
  OBVIOUS
<1>4. /\ words'[s] = Append(words[s], w) /\ words'[s] \in Seq(Word)
      /\ \A u \in Streams : u # s => words'[u] = words[u]
  BY <1>1, <1>2, <1>3
<1>5. /\ Len(words[s]) \in Nat /\ Len(words'[s]) = Len(words[s]) + 1
      /\ \A k \in 1 .. Len(words[s]) : words'[s][k] = words[s][k]
      /\ words'[s][Len(words[s]) + 1] = w
  BY <1>1, <1>3, <1>4, Appended
<1>6. words' \in [Streams -> Seq(Word)]
  BY <1>1, <1>2, <1>3, <1>4
<1>7. ASSUME NEW u \in streams, NEW k \in 1 .. Len(words'[u])
      PROVE  /\ words'[u][k].idx < Len(table'[u])
             /\ table'[u][words'[u][k].idx + 1].bo = words'[u][k].bo
  <2>1. CASE u = s /\ k = Len(words[s]) + 1
    BY <2>1, <1>1, <1>5
  <2>2. CASE u = s /\ k # Len(words[s]) + 1
    <3>1. k \in 1 .. Len(words[u]) /\ words'[u][k] = words[u][k]
      BY <2>2, <1>5
    <3> QED
      BY <3>1
  <2>3. CASE u # s
    <3>1. words'[u] = words[u]
      BY <2>3, <1>4
    <3> QED
      BY <3>1
  <2> QED
    BY <2>1, <2>2, <2>3
<1> QED
  BY <1>6, <1>7

\* An entry appended for a live buffer object.
LEMMA AppendBoKeeps ==
  ASSUME HInv, SInv, NEW s \in streams, NEW a \in live, AppendBo(s, a)
  PROVE  /\ table' \in [Streams -> Seq(Entry)]
         /\ Len(table[s]) \in Nat /\ Len(table'[s]) = Len(table[s]) + 1
         /\ table'[s][Len(table[s]) + 1].bo = a
         /\ table'[s][Len(table[s]) + 1].handle = bo[a].handle
         /\ \A k \in 1 .. Len(table[s]) : table'[s][k] = table[s][k]
         /\ \A u \in streams : u # s => table'[u] = table[u]
<1> DEFINE e == [bo |-> a, handle |-> bo[a].handle]
<1>1. e \in Entry /\ e.bo = a /\ e.handle = bo[a].handle
  BY DEF Entry, HInv
<1>2. table' = [table EXCEPT ![s] = Append(table[s], e)]
  BY DEF AppendBo
<1> HIDE DEF e
<1>3. table[s] \in Seq(Entry) /\ s \in Streams
  BY DEF SInv
<1>4. table'[s] = Append(table[s], e) /\ table'[s] \in Seq(Entry)
  BY <1>1, <1>2, <1>3 DEF SInv
<1>5. table' \in [Streams -> Seq(Entry)] /\ \A u \in streams : u # s => table'[u] = table[u]
  BY <1>2, <1>3, <1>4 DEF SInv
<1> QED
  BY <1>1, <1>3, <1>4, <1>5, Appended

\* What led to an entry still does when another entry is appended.
LEMMA OldEntriesStay ==
  ASSUME HInv, SInv, NEW s \in streams, NEW a \in live, AppendBo(s, a)
  PROVE  /\ \A u \in streams : \A k \in 1 .. Len(words[u]) :
              /\ words[u][k].idx < Len(table'[u])
              /\ table'[u][words[u][k].idx + 1].bo = words[u][k].bo
         /\ \A u \in streams : \A k \in 1 .. Len(table'[u]) :
              /\ table'[u][k].bo \in live
              /\ table'[u][k].handle = bo[table'[u][k].bo].handle
         /\ \A b \in live : bo[b].current_stream # NoStream =>
              /\ bo[b].current_stream \in streams
              /\ bo[b].idx < Len(table'[bo[b].current_stream])
              /\ table'[bo[b].current_stream][bo[b].idx + 1].bo = b
<1>1. /\ Len(table[s]) \in Nat /\ Len(table'[s]) = Len(table[s]) + 1
      /\ table'[s][Len(table[s]) + 1].bo = a
      /\ table'[s][Len(table[s]) + 1].handle = bo[a].handle
      /\ \A k \in 1 .. Len(table[s]) : table'[s][k] = table[s][k]
      /\ \A u \in streams : u # s => table'[u] = table[u]
  BY AppendBoKeeps
<1>2. ASSUME NEW i \in Nat, i < Len(table[s])
      PROVE  i < Len(table'[s]) /\ table'[s][i + 1] = table[s][i + 1]
  BY <1>1, <1>2
<1>3. ASSUME NEW u \in streams, NEW k \in 1 .. Len(words[u])
      PROVE  /\ words[u][k].idx < Len(table'[u])
             /\ table'[u][words[u][k].idx + 1].bo = words[u][k].bo
  <2>1. /\ words[u][k].idx < Len(table[u])
        /\ table[u][words[u][k].idx + 1].bo = words[u][k].bo
    BY DEF SInv, BatchIsAlive
  <2>2. words[u][k].idx \in Nat
    <3>1. words[u] \in Seq(Word)
      BY DEF SInv
    <3>2. words[u][k] \in Word
      BY <3>1
    <3> QED
      BY <3>2 DEF Word
  <2> QED
    BY <1>1, <1>2, <2>1, <2>2
<1>4. ASSUME NEW u \in streams, NEW k \in 1 .. Len(table'[u])
      PROVE  /\ table'[u][k].bo \in live
             /\ table'[u][k].handle = bo[table'[u][k].bo].handle
  <2>1. CASE u = s /\ k = Len(table[s]) + 1
    BY <2>1, <1>1
  <2>2. CASE u = s /\ k # Len(table[s]) + 1
    <3>1. k \in 1 .. Len(table[u]) /\ table'[u][k] = table[u][k]
      BY <2>2, <1>1
    <3> QED
      BY <3>1 DEF SInv, BatchIsAlive
  <2>3. CASE u # s
    <3>1. table'[u] = table[u]
      BY <2>3, <1>1
    <3> QED
      BY <3>1 DEF SInv, BatchIsAlive
  <2> QED
    BY <2>1, <2>2, <2>3
<1>5. ASSUME NEW b \in live, bo[b].current_stream # NoStream
      PROVE  /\ bo[b].current_stream \in streams
             /\ bo[b].idx < Len(table'[bo[b].current_stream])
             /\ table'[bo[b].current_stream][bo[b].idx + 1].bo = b
  <2>1. /\ bo[b].current_stream \in streams
        /\ bo[b].idx < Len(table[bo[b].current_stream])
        /\ table[bo[b].current_stream][bo[b].idx + 1].bo = b
    BY <1>5 DEF SInv, MarksAreAlive
  <2>2. bo[b].idx \in Nat
    BY DEF HInv, EtnaBo
  <2> QED
    BY <1>1, <1>2, <2>1, <2>2
<1> QED
  BY <1>3, <1>4, <1>5

\* A relocation against an unmarked buffer object: entry, mark and relocation.
LEMMA UnmarkedKeeps ==
  ASSUME HInv, SInv, NEW s \in streams, NEW a \in live, RelocUnmarked(s, a),
         UNCHANGED <<live, obj_of, streams, kernel>>
  PROVE  HInv' /\ SInv'
<1> DEFINE n == Len(table[s])
           z == [bo[a] EXCEPT !.current_stream = s, !.idx = n]
<1>1. AppendBo(s, a) /\ Relocate(s, a, n)
  BY DEF RelocUnmarked
<1>2. s \in Streams /\ a \in Addrs /\ bo[a] \in EtnaBo /\ s # NoStream
  BY BuffersAssumption DEF SInv, HInv
<1>3. /\ table' \in [Streams -> Seq(Entry)] /\ n \in Nat /\ Len(table'[s]) = n + 1
      /\ table'[s][n + 1].bo = a
  BY <1>1, AppendBoKeeps
<1>4. bo' = [bo EXCEPT ![a] = z]
  BY <1>2 DEF RelocUnmarked, HInv
<1>5. /\ z \in EtnaBo /\ z.handle = bo[a].handle /\ z.map = bo[a].map
      /\ z.offset = bo[a].offset /\ z.current_stream = s /\ z.idx = n
  BY <1>2, <1>3 DEF EtnaBo
<1> HIDE DEF z
<1>6. /\ bo' \in [Addrs -> EtnaBo] /\ bo'[a] = z
      /\ \A b \in Addrs : b # a => bo'[b] = bo[b]
  BY <1>2, <1>4, <1>5 DEF HInv
<1>7. \A b \in Addrs : /\ bo'[b].handle = bo[b].handle /\ bo'[b].map = bo[b].map
                       /\ bo'[b].offset = bo[b].offset
  BY <1>5, <1>6
<1>8. HInv'
  BY <1>6, <1>7, MarksOnly
<1>9. \A u \in streams : \A k \in 1 .. Len(words[u]) :
           /\ words[u][k].idx < Len(table'[u])
           /\ table'[u][words[u][k].idx + 1].bo = words[u][k].bo
  BY <1>1, OldEntriesStay
<1>10. n < Len(table'[s])
  BY <1>3
<1>11. /\ words' \in [Streams -> Seq(Word)]
       /\ \A u \in streams : \A k \in 1 .. Len(words'[u]) :
            /\ words'[u][k].idx < Len(table'[u])
            /\ table'[u][words'[u][k].idx + 1].bo = words'[u][k].bo
  <2>1. streams \subseteq Streams /\ words \in [Streams -> Seq(Word)]
    BY DEF SInv
  <2> QED
    BY <1>1, <1>2, <1>3, <1>9, <1>10, <2>1, RelocateKeeps
<1>12. BatchIsAlive'
  <2>1. live \subseteq Addrs
    BY DEF HInv
  <2>2. \A u \in streams : \A k \in 1 .. Len(table'[u]) :
           /\ table'[u][k].bo \in live
           /\ table'[u][k].handle = bo'[table'[u][k].bo].handle
    BY <1>1, <1>7, <2>1, OldEntriesStay
  <2> QED
    BY <1>11, <2>2 DEF BatchIsAlive
<1>13. MarksAreAlive'
  <2>1. ASSUME NEW b \in live, bo'[b].current_stream # NoStream
        PROVE  /\ bo'[b].current_stream \in streams
               /\ bo'[b].idx < Len(table'[bo'[b].current_stream])
               /\ table'[bo'[b].current_stream][bo'[b].idx + 1].bo = b
    <3>1. CASE b = a
      BY <3>1, <1>3, <1>5, <1>6, <1>10
    <3>2. CASE b # a
      <4>1. bo'[b] = bo[b]
        BY <3>2, <1>6 DEF HInv
      <4> QED
        BY <2>1, <4>1, <1>1, OldEntriesStay
    <3> QED
      BY <3>1, <3>2
  <2> QED
    BY <2>1 DEF MarksAreAlive
<1> QED
  BY <1>3, <1>8, <1>11, <1>12, <1>13 DEF SInv

\* ... against one that is marked for this stream.
LEMMA MarkedKeeps ==
  ASSUME HInv, SInv, NEW s \in streams, NEW a \in live, RelocMarked(s, a),
         UNCHANGED <<live, obj_of, streams, kernel>>
  PROVE  HInv' /\ SInv'
<1>1. UNCHANGED <<live, obj_of, streams, handle_of, dmabuf, maps, table, bo>>
  BY DEF RelocMarked, kernel
<1>2. HInv'
  BY <1>1 DEF HInv, HandleIsOwn, HandlesAreBalanced
<1>3. /\ s \in Streams /\ a \in Addrs /\ bo[a].idx \in Nat /\ s # NoStream
      /\ streams \subseteq Streams
  BY BuffersAssumption DEF SInv, HInv, EtnaBo
<1>4. bo[a].idx < Len(table'[s]) /\ table'[s][bo[a].idx + 1].bo = a
  BY <1>1, <1>3 DEF RelocMarked, SInv, MarksAreAlive
<1>5. Relocate(s, a, bo[a].idx) /\ table' \in [Streams -> Seq(Entry)]
      /\ words \in [Streams -> Seq(Word)]
  BY <1>1 DEF RelocMarked, SInv
<1>6. \A u \in streams : \A k \in 1 .. Len(words[u]) :
           /\ words[u][k].idx < Len(table'[u])
           /\ table'[u][words[u][k].idx + 1].bo = words[u][k].bo
  BY <1>1 DEF SInv, BatchIsAlive
<1>7. /\ words' \in [Streams -> Seq(Word)]
      /\ \A u \in streams : \A k \in 1 .. Len(words'[u]) :
            /\ words'[u][k].idx < Len(table'[u])
            /\ table'[u][words'[u][k].idx + 1].bo = words'[u][k].bo
  BY <1>3, <1>4, <1>5, <1>6, RelocateKeeps
<1>8. BatchIsAlive' /\ MarksAreAlive'
  BY <1>1, <1>7 DEF SInv, BatchIsAlive, MarksAreAlive
<1> QED
  BY <1>1, <1>2, <1>7, <1>8 DEF SInv

\* ... against one that is marked for another stream, found or not.
LEMMA ElsewhereKeeps ==
  ASSUME HInv, SInv, NEW s \in streams, NEW a \in live, RelocElsewhere(s, a),
         UNCHANGED <<live, obj_of, streams, kernel>>
  PROVE  HInv' /\ SInv'
<1>1. UNCHANGED <<live, obj_of, streams, handle_of, dmabuf, maps, bo>>
  BY DEF RelocElsewhere, kernel
<1>2. HInv'
  BY <1>1 DEF HInv, HandleIsOwn, HandlesAreBalanced
<1>3. /\ s \in Streams /\ a \in Addrs /\ streams \subseteq Streams
      /\ table \in [Streams -> Seq(Entry)] /\ words \in [Streams -> Seq(Word)]
      /\ table[s] \in Seq(Entry) /\ Len(table[s]) \in Nat
  BY DEF SInv, HInv
<1>4. CASE \E k \in 1 .. Len(table[s]) :
             /\ table[s][k].bo = a /\ Relocate(s, a, k - 1) /\ UNCHANGED table
  <2>1. PICK k \in 1 .. Len(table[s]) :
          table[s][k].bo = a /\ Relocate(s, a, k - 1) /\ UNCHANGED table
    BY <1>4
  <2> DEFINE i == k - 1
  <2>2. i \in Nat /\ i + 1 = k /\ i < Len(table[s])
    BY <1>3
  <2> HIDE DEF i
  <2>3. table' = table /\ table'[s][i + 1].bo = a /\ Relocate(s, a, i)
    BY <2>1, <2>2 DEF i
  <2>4. \A u \in streams : \A j \in 1 .. Len(words[u]) :
           /\ words[u][j].idx < Len(table'[u])
           /\ table'[u][words[u][j].idx + 1].bo = words[u][j].bo
    BY <2>3 DEF SInv, BatchIsAlive
  <2>5. /\ words' \in [Streams -> Seq(Word)]
        /\ \A u \in streams : \A j \in 1 .. Len(words'[u]) :
              /\ words'[u][j].idx < Len(table'[u])
              /\ table'[u][words'[u][j].idx + 1].bo = words'[u][j].bo
    BY <1>3, <2>2, <2>3, <2>4, RelocateKeeps
  <2>6. BatchIsAlive' /\ MarksAreAlive'
    BY <1>1, <2>3, <2>5 DEF SInv, BatchIsAlive, MarksAreAlive
  <2> QED
    BY <1>1, <1>2, <1>3, <2>3, <2>5, <2>6 DEF SInv
<1>5. CASE AppendBo(s, a) /\ Relocate(s, a, Len(table[s]))
  <2> DEFINE n == Len(table[s])
  <2>1. /\ table' \in [Streams -> Seq(Entry)] /\ n \in Nat /\ n < Len(table'[s])
        /\ table'[s][n + 1].bo = a
    BY <1>5, AppendBoKeeps
  <2>2. \A u \in streams : \A k \in 1 .. Len(words[u]) :
           /\ words[u][k].idx < Len(table'[u])
           /\ table'[u][words[u][k].idx + 1].bo = words[u][k].bo
    BY <1>5, OldEntriesStay
  <2>3. /\ words' \in [Streams -> Seq(Word)]
        /\ \A u \in streams : \A k \in 1 .. Len(words'[u]) :
              /\ words'[u][k].idx < Len(table'[u])
              /\ table'[u][words'[u][k].idx + 1].bo = words'[u][k].bo
    BY <1>3, <1>5, <2>1, <2>2, RelocateKeeps
  <2>4. BatchIsAlive'
    BY <1>1, <1>5, <2>3, OldEntriesStay DEF BatchIsAlive
  <2>5. MarksAreAlive'
    BY <1>1, <1>5, OldEntriesStay DEF MarksAreAlive
  <2> QED
    BY <1>1, <1>2, <1>3, <2>1, <2>3, <2>4, <2>5 DEF SInv
<1> QED
  BY <1>4, <1>5 DEF RelocElsewhere

\* The flush of a stream takes back every mark that leads to it.
LEMMA FlushKeeps ==
  ASSUME HInv, SInv, NEW s \in Streams, Flush(s)
  PROVE  HInv' /\ SInv'
<1>1. /\ s \in streams /\ UNCHANGED <<live, obj_of, streams, handle_of, dmabuf, maps>>
      /\ table' = [table EXCEPT ![s] = <<>>] /\ words' = [words EXCEPT ![s] = <<>>]
  BY DEF Flush, kernel
<1>2. /\ bo \in [Addrs -> EtnaBo] /\ live \subseteq Addrs
      /\ table \in [Streams -> Seq(Entry)] /\ words \in [Streams -> Seq(Word)]
  BY DEF HInv, SInv
<1>3. \A a \in Addrs : bo'[a] = IF Listed(s, a)
                               THEN [bo[a] EXCEPT !.current_stream = NoStream] ELSE bo[a]
  BY DEF Flush, Listed
<1>4. bo' \in [Addrs -> EtnaBo]
  <2>1. \A a \in Addrs : bo'[a] \in EtnaBo
    BY <1>2, <1>3 DEF EtnaBo
  <2>2. DOMAIN bo' = Addrs /\ bo' = [a \in Addrs |-> bo'[a]]
    BY DEF Flush
  <2> QED
    BY <2>1, <2>2
<1>5. \A a \in Addrs : /\ bo'[a].handle = bo[a].handle /\ bo'[a].map = bo[a].map
                       /\ bo'[a].offset = bo[a].offset /\ bo'[a].idx = bo[a].idx
                       /\ bo'[a].current_stream \in {NoStream, bo[a].current_stream}
                       /\ Listed(s, a) => bo'[a].current_stream = NoStream
  BY <1>2, <1>3 DEF EtnaBo
<1>6. HInv'
  BY <1>1, <1>4, <1>5, MarksOnly DEF kernel
<1>7. /\ table'[s] = <<>> /\ words'[s] = <<>>
      /\ \A u \in Streams : u # s => table'[u] = table[u] /\ words'[u] = words[u]
      /\ table' \in [Streams -> Seq(Entry)] /\ words' \in [Streams -> Seq(Word)]
  BY <1>1, <1>2
<1>8. BatchIsAlive'
  <2>1. ASSUME NEW u \in streams, NEW k \in 1 .. Len(table'[u])
        PROVE  table'[u][k].bo \in live /\ table'[u][k].handle = bo'[table'[u][k].bo].handle
    <3>1. u # s /\ table'[u] = table[u]
      BY <1>7 DEF SInv
    <3> DEFINE e == table[u][k]
    <3>2. e.bo \in live /\ e.handle = bo[e.bo].handle
      BY <3>1 DEF SInv, BatchIsAlive
    <3>3. bo'[e.bo].handle = bo[e.bo].handle
      BY <1>2, <1>5, <3>2
    <3> QED
      BY <3>1, <3>2, <3>3
  <2>2. ASSUME NEW u \in streams, NEW k \in 1 .. Len(words'[u])
        PROVE  /\ words'[u][k].idx < Len(table'[u])
               /\ table'[u][words'[u][k].idx + 1].bo = words'[u][k].bo
    <3>1. u # s /\ table'[u] = table[u] /\ words'[u] = words[u]
      BY <1>7 DEF SInv
    <3> QED
      BY <3>1 DEF SInv, BatchIsAlive
  <2> QED
    BY <1>1, <2>1, <2>2 DEF BatchIsAlive
<1>9. MarksAreAlive'
  <2>1. ASSUME NEW a \in live, bo'[a].current_stream # NoStream
        PROVE  /\ bo'[a].current_stream \in streams
               /\ bo'[a].idx < Len(table'[bo'[a].current_stream])
               /\ table'[bo'[a].current_stream][bo'[a].idx + 1].bo = a
    <3> DEFINE u == bo[a].current_stream
    <3>1. bo'[a].current_stream = u /\ bo'[a].idx = bo[a].idx /\ ~Listed(s, a) /\ a \in Addrs
      BY <2>1, <1>2, <1>5
    <3>2. u \in streams /\ bo[a].idx < Len(table[u]) /\ table[u][bo[a].idx + 1].bo = a
      BY <2>1, <3>1 DEF SInv, MarksAreAlive
    <3>3. u # s
      <4>1. bo[a].idx \in Nat /\ Len(table[u]) \in Nat
        <5>1. table[u] \in Seq(Entry)
          BY <1>2, <3>2 DEF SInv
        <5> QED
          BY <1>2, <3>1, <5>1 DEF EtnaBo
      <4>2. bo[a].idx + 1 \in 1 .. Len(table[u])
        BY <3>2, <4>1
      <4> QED
        BY <3>1, <3>2, <4>2 DEF Listed
    <3>4. table'[u] = table[u]
      BY <1>7, <3>2, <3>3 DEF SInv
    <3> QED
      BY <3>1, <3>2, <3>4
  <2> QED
    BY <1>1, <2>1 DEF MarksAreAlive
<1> QED
  BY <1>1, <1>6, <1>7, <1>8, <1>9 DEF SInv

\* A stream comes and goes empty, so no mark leads to it.
LEMMA StreamKeeps ==
  ASSUME HInv, SInv, NEW s \in Streams, StreamNew(s) \/ DeviceClose(s)
  PROVE  HInv' /\ SInv'
<1>1. UNCHANGED <<live, bo, obj_of, handle_of, dmabuf, maps>>
  BY DEF StreamNew, DeviceClose, StreamDel, kernel
<1>2. HInv'
  BY <1>1 DEF HInv, HandleIsOwn, HandlesAreBalanced
<1>3. CASE StreamNew(s)
  <2>1. /\ s \notin streams /\ streams' = streams \cup {s}
        /\ table'[s] = <<>> /\ words'[s] = <<>>
        /\ \A u \in Streams : u # s => table'[u] = table[u] /\ words'[u] = words[u]
        /\ table' \in [Streams -> Seq(Entry)] /\ words' \in [Streams -> Seq(Word)]
    BY <1>3 DEF StreamNew, SInv
  <2>2. \A u \in streams : u \in Streams /\ u # s
    BY <2>1 DEF SInv
  <2>3. BatchIsAlive'
    <3> SUFFICES ASSUME NEW u \in streams'
                 PROVE  /\ \A k \in 1 .. Len(table'[u]) :
                             /\ table'[u][k].bo \in live
                             /\ table'[u][k].handle = bo[table'[u][k].bo].handle
                        /\ \A k \in 1 .. Len(words'[u]) :
                             /\ words'[u][k].idx < Len(table'[u])
                             /\ table'[u][words'[u][k].idx + 1].bo = words'[u][k].bo
      BY <1>1 DEF BatchIsAlive
    <3>1. CASE u = s
      BY <2>1, <3>1
    <3>2. CASE u # s
      <4>1. u \in streams /\ table'[u] = table[u] /\ words'[u] = words[u]
        BY <2>1, <2>2, <3>2
      <4> QED
        BY <4>1 DEF SInv, BatchIsAlive
    <3> QED
      BY <3>1, <3>2
  <2>4. MarksAreAlive'
    BY <1>1, <2>1, <2>2 DEF SInv, MarksAreAlive
  <2> QED
    BY <1>2, <2>1, <2>3, <2>4 DEF SInv
<1>4. CASE DeviceClose(s)
  <2>1. streams' = streams \ {s} /\ UNCHANGED <<table, words>> /\ table[s] = <<>>
    BY <1>4 DEF DeviceClose, StreamDel
  <2>2. \A a \in live : bo[a].current_stream # s
    <3> SUFFICES ASSUME NEW a \in live, bo[a].current_stream = s PROVE FALSE
      OBVIOUS
    <3>1. bo[a].idx < Len(table[s]) /\ bo[a].idx \in Nat
      BY BuffersAssumption DEF SInv, MarksAreAlive, HInv, EtnaBo
    <3> QED
      BY <2>1, <3>1
  <2> QED
    BY <1>1, <1>2, <2>1, <2>2 DEF SInv, BatchIsAlive, MarksAreAlive
<1> QED
  BY <1>3, <1>4

-------------------------------------------------------------------------------
\* Every step keeps both parts.
LEMMA NextKeeps ==
  ASSUME ~Reimport, IInv, [Next]_vars
  PROVE  IInv'
<1> USE DEF IInv
<1>1. ASSUME NEW a \in Addrs, NewObject(a) PROVE IInv'
  <2>1. PICK o \in Objs, h \in Handles :
          /\ handle_of[h] = NoObj /\ BoFromHandle(a, o, h)
          /\ handle_of' = [handle_of EXCEPT ![h] = o]
    BY <1>1 DEF NewObject
  <2>2. UNCHANGED <<stream, dmabuf, maps>>
    BY <1>1 DEF NewObject
  <2> QED
    BY <2>1, <2>2, FreshBo, FreshKeepsStreams
<1>2. ASSUME NEW a \in Addrs, NEW fd \in Fds, BoFromDmabuf(a, fd) PROVE IInv'
  <2>1. PICK h \in Handles : PrimeFDToHandle(fd, h) /\ BoFromHandle(a, dmabuf[fd], h)
    BY <1>2 DEF BoFromDmabuf
  <2>2. handle_of[h] = NoObj /\ handle_of' = [handle_of EXCEPT ![h] = dmabuf[fd]]
        /\ dmabuf[fd] \in Objs
    BY <1>2, <2>1 DEF BoFromDmabuf, PrimeFDToHandle, HInv
  <2>3. UNCHANGED <<stream, dmabuf, maps>>
    BY <1>2 DEF BoFromDmabuf
  <2> QED
    BY <2>1, <2>2, <2>3, FreshBo, FreshKeepsStreams
<1>3. ASSUME NEW a \in Addrs, SurfaceDel(a) PROVE IInv'
  <2>1. BoDel(a) /\ \A s \in streams : ~Listed(s, a)
    BY <1>3 DEF SurfaceDel
  <2>2. UNCHANGED <<bo, stream>> /\ live' = live \ {a}
    BY <2>1 DEF BoDel
  <2> QED
    BY <2>1, <2>2, DelKeeps, StreamsStay
<1>4. ASSUME NEW a \in Addrs, NEW info \in BOOLEAN, NEW mmap \in BOOLEAN,
             BoMap(a, info, mmap)
      PROVE  IInv'
  <2>1. UNCHANGED <<live, stream>>
    BY <1>4 DEF BoMap
  <2>2. \A b \in live : /\ bo'[b].current_stream = bo[b].current_stream
                        /\ bo'[b].idx = bo[b].idx /\ bo'[b].handle = bo[b].handle
    BY <1>4 DEF BoMap, HInv, EtnaBo
  <2> QED
    BY <1>4, <2>1, <2>2, MapKeeps, StreamsStay
<1>5. ASSUME UNCHANGED <<live, bo, obj_of, stream, handle_of, maps>>,
             dmabuf' \in [Fds -> Objs \cup {NoObj}]
      PROVE  IInv'
  <2>1. HInv'
    BY <1>5 DEF HInv, HandleIsOwn, HandlesAreBalanced
  <2>2. SInv'
    BY <1>5, StreamsStay
  <2> QED
    BY <2>1, <2>2
<1>6. ASSUME NEW a \in Addrs, NEW fd \in Fds, BoDmabuf(a, fd) PROVE IInv'
  <2>1. dmabuf' \in [Fds -> Objs \cup {NoObj}]
    <3>1. bo[a].handle \in Handles
      BY <1>6 DEF BoDmabuf, HInv
    <3> QED
      BY <1>6, <3>1 DEF BoDmabuf, HInv
  <2> QED
    BY <1>5, <1>6, <2>1 DEF BoDmabuf
<1>7. ASSUME NEW fd \in Fds, ForeignDmabuf(fd) \/ CloseFd(fd) PROVE IInv'
  <2>1. dmabuf' \in [Fds -> Objs \cup {NoObj}]
    BY <1>7 DEF ForeignDmabuf, CloseFd, HInv
  <2> QED
    BY <1>5, <1>7, <2>1 DEF ForeignDmabuf, CloseFd
<1>8. ASSUME NEW s \in Streams, NEW a \in Addrs, Reloc(s, a) PROVE IInv'
  BY <1>8, UnmarkedKeeps, MarkedKeeps, ElsewhereKeeps DEF Reloc
<1>9. CASE UNCHANGED vars
  BY <1>9, <1>5 DEF vars, kernel, HInv
<1> QED
  BY <1>1, <1>2, <1>3, <1>4, <1>6, <1>7, <1>8, <1>9, FlushKeeps, StreamKeeps
     DEF Next, BoNew, BoFromUsermem

LEMMA Inductive ==
  ASSUME ~Reimport
  PROVE  Spec => []IInv
<1>1. Init => IInv
  BY InitEstablishes
<1>2. IInv /\ [Next]_vars => IInv'
  BY NextKeeps
<1> QED
  BY <1>1, <1>2, PTL DEF Spec

\* The structs, tables, handles and mappings keep their types.
THEOREM BuffersTypeCorrect == ~Reimport => (Spec => []TypeOK)
<1> SUFFICES ASSUME ~Reimport PROVE Spec => []TypeOK
  OBVIOUS
<1>1. IInv => TypeOK
  BY DEF IInv, HInv, SInv, TypeOK
<1> QED
  BY <1>1, Inductive, PTL

\* Handles are opened and closed in pairs, none is shared, and that of a buffer
\* object means the object it was made for until etna_bo_del.
THEOREM HandlesAreSound == ~Reimport => (Spec => [](HandleIsOwn /\ HandlesAreBalanced))
<1> SUFFICES ASSUME ~Reimport PROVE Spec => [](HandleIsOwn /\ HandlesAreBalanced)
  OBVIOUS
<1>1. IInv => HandleIsOwn /\ HandlesAreBalanced
  BY DEF IInv, HInv
<1> QED
  BY <1>1, Inductive, PTL

\* A buffer object that was not deleted can be used: its handle is open and means
\* the object it was made for, whatever handles the kernel gives out again
\* (property HandleIsOwn, etnaviv.c:477-601).
THEOREM HandlesAreOwn == ~Reimport => (Spec => []HandleIsOwn)
<1> SUFFICES ASSUME ~Reimport PROVE Spec => []HandleIsOwn
  OBVIOUS
<1>1. IInv => HandleIsOwn
  BY DEF IInv, HInv
<1> QED
  BY <1>1, Inductive, PTL

\* Whatever fails in etna_bo_map, bo->map is NULL or a mapping of the own object,
\* and etna_bo_del leaves no mapping behind.
THEOREM MapsAreSound == ~Reimport => (Spec => []MapsAreOwn)
<1> SUFFICES ASSUME ~Reimport PROVE Spec => []MapsAreOwn
  OBVIOUS
<1>1. IInv => MapsAreOwn
  BY DEF IInv, HInv, MapsAreOwn
<1> QED
  BY <1>1, Inductive, PTL

\* A batch lists buffer objects that exist, and its relocations lead to them.
THEOREM BatchesAreSound == ~Reimport => (Spec => []BatchIsAlive)
<1> SUFFICES ASSUME ~Reimport PROVE Spec => []BatchIsAlive
  OBVIOUS
<1>1. IInv => BatchIsAlive
  BY DEF IInv, SInv
<1> QED
  BY <1>1, Inductive, PTL

\* No mark leads to a stream that is gone, or to the wrong entry, however the
\* memory of streams and buffer objects is reused.
THEOREM MarksStayAlive == ~Reimport => (Spec => []MarksAreAlive)
<1> SUFFICES ASSUME ~Reimport PROVE Spec => []MarksAreAlive
  OBVIOUS
<1>1. IInv => MarksAreAlive
  BY DEF IInv, SInv
<1> QED
  BY <1>1, Inductive, PTL
===============================================================================

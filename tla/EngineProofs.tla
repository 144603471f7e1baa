------------------------------- MODULE EngineProofs ------------------------------
(***************************************************************************)
(* What the engine sees of an operation, for every operation: EngineSeesOp *)
(* and StretchSpansSource of FrontEnd, and that cutting an operation       *)
(* between two jobs changes nothing.                                       *)
(*                                                                         *)
(* The words of an operation are writes of registers and a draw.  The      *)
(* writes are taken together as a set of addresses and words: no register  *)
(* is given two words, so the front end holds each when it draws, in       *)
(* whatever order they came and whatever was there before.  Each field is  *)
(* then read back from its word, and what is drawn is what was asked for.  *)
(***************************************************************************)
EXTENDS FrontEndProofs

(***************************************************************************)
(* What a draw finds in the registers: the words its own operation wrote.  *)
(***************************************************************************)

\* The front end behind pieces, one after the other.
Through(f, s) == Fetch(f, FlattenSeq(s))

\* A run of the front end over pieces.
IsPieceRun(G, f, s) ==
  G[0] = f /\ \A i \in 1 .. Len(s) : G[i] = Fetch(G[i - 1], s[i])

\* There is one, and it ends where the front end does.
LEMMA PieceRunExists ==
  ASSUME NEW s \in Seq(Pieces), NEW f
  PROVE  \E G : IsPieceRun(G, f, s) /\ G[Len(s)] = Through(f, s)
<1>. DEFINE L == Len(s)
<1>1. s \in Seq(Seq(Words)) /\ L \in Nat /\ \A i \in 1 .. L : s[i] \in Seq(Words)
  BY DEF Pieces
<1>2. PICK F : /\ F[0] = <<>> /\ F[L] = FlattenSeq(s)
               /\ \A i \in 0 .. L : F[i] \in Seq(Words)
               /\ \A i \in 1 .. L : F[i] = F[i - 1] \o s[i]
  BY <1>1, FlattenSteps
<1>. DEFINE G == [i \in 0 .. L |-> Fetch(f, F[i])]
<1>3. G[0] = f
  <2>1. 0 \in 0 .. L
    BY <1>1
  <2>. QED BY <1>2, <2>1, FetchNothing
<1>4. ASSUME NEW i \in 1 .. L PROVE G[i] = Fetch(G[i - 1], s[i])
  <2>1. i \in 0 .. L /\ i - 1 \in 0 .. L
    BY <1>1
  <2>. DEFINE u == F[i - 1]
              v == s[i]
  <2>2. u \in Seq(Words) /\ v \in Seq(Words) /\ F[i] = u \o v
    BY <1>1, <1>2, <2>1
  <2>3. G[i] = Fetch(f, F[i]) /\ G[i - 1] = Fetch(f, u)
    BY <2>1
  <2>. HIDE DEF u, v, G
  <2>4. Fetch(f, u \o v) = Fetch(Fetch(f, u), v)
    BY ONLY <2>2, FetchConcat, Zenon
  <2>. QED BY ONLY <2>2, <2>3, <2>4 DEF v
<1>5. G[L] = Through(f, s)
  <2>1. L \in 0 .. L
    BY <1>1
  <2>. QED BY <1>2, <2>1 DEF Through
<1>. HIDE DEF G
<1>. QED BY <1>3, <1>4, <1>5 DEF IsPieceRun

\* Every run does.
LEMMA PieceRunEnds ==
  ASSUME NEW s \in Seq(Pieces), NEW f, NEW H, IsPieceRun(H, f, s)
  PROVE  H[Len(s)] = Through(f, s)
<1>. DEFINE L == Len(s)
<1>0. L \in Nat
  OBVIOUS
<1>1. PICK G : IsPieceRun(G, f, s) /\ G[L] = Through(f, s)
  BY PieceRunExists
<1>2. /\ G[0] = H[0]
      /\ \A i \in 1 .. L : G[i] = Fetch(G[i - 1], s[i]) /\ H[i] = Fetch(H[i - 1], s[i])
  BY <1>1 DEF IsPieceRun
<1>. DEFINE T == {i \in Nat : i <= L => G[i] = H[i]}
<1>3. 0 \in T
  BY <1>2
<1>4. ASSUME NEW i \in Nat, i \in T PROVE i + 1 \in T
  <2>. SUFFICES ASSUME i + 1 <= L PROVE G[i + 1] = H[i + 1]
    OBVIOUS
  <2>1. i + 1 \in 1 .. L /\ (i + 1) - 1 = i /\ G[i] = H[i]
    BY <1>0, <1>4
  <2>. QED BY <1>2, <2>1
<1>. HIDE DEF T
<1>5. L \in T
  BY <1>0, <1>3, <1>4, Induct
<1>. QED BY <1>0, <1>1, <1>5 DEF T

\* Pieces behind pieces are taken behind them.
LEMMA ThroughConcat ==
  ASSUME NEW s \in Seq(Pieces), NEW t \in Seq(Pieces), NEW f
  PROVE  Through(f, s \o t) = Through(Through(f, s), t)
<1>. DEFINE g == Through(f, s)
            m == Len(s)
            n == Len(t)
<1>1. PICK G : IsPieceRun(G, f, s) /\ G[m] = g
  BY PieceRunExists
<1>2. PICK H : IsPieceRun(H, g, t) /\ H[n] = Through(g, t)
  BY PieceRunExists
<1>3. /\ s \o t \in Seq(Pieces) /\ Len(s \o t) = m + n /\ m \in Nat /\ n \in Nat
      /\ \A i \in 1 .. m + n : (s \o t)[i] = IF i <= m THEN s[i] ELSE t[i - m]
  BY ConcatProperties
<1>. DEFINE K == [i \in 0 .. m + n |-> IF i <= m THEN G[i] ELSE H[i - m]]
<1>4. /\ G[0] = f /\ \A i \in 1 .. m : G[i] = Fetch(G[i - 1], s[i])
      /\ H[0] = g /\ \A i \in 1 .. n : H[i] = Fetch(H[i - 1], t[i])
  BY <1>1, <1>2 DEF IsPieceRun
<1>. HIDE DEF m, n, g
<1>5. K[0] = f
  BY <1>3, <1>4
<1>6. \A i \in 0 .. m + n : i >= m => K[i] = H[i - m]
  BY <1>1, <1>3, <1>4
<1>6a. \A i \in 0 .. m + n : i <= m => K[i] = G[i]
  BY <1>3
<1>. HIDE DEF K
<1>7. ASSUME NEW i \in 1 .. m + n PROVE K[i] = Fetch(K[i - 1], (s \o t)[i])
  <2>1. i \in 0 .. m + n /\ i - 1 \in 0 .. m + n
    BY <1>3
  <2>2. CASE i <= m
    <3>1. i \in 1 .. m /\ i - 1 <= m
      BY <1>3, <2>2
    <3>2. K[i] = G[i] /\ K[i - 1] = G[i - 1] /\ (s \o t)[i] = s[i]
      BY <1>3, <1>6a, <2>1, <2>2, <3>1
    <3>. QED BY <1>4, <3>1, <3>2
  <2>3. CASE ~(i <= m)
    <3>1. PICK j \in 1 .. n : j = i - m /\ j - 1 = (i - 1) - m /\ i >= m /\ i - 1 >= m
      BY <1>3, <2>3
    <3>2. K[i] = H[j] /\ K[i - 1] = H[j - 1] /\ (s \o t)[i] = t[j]
      BY <1>3, <1>6, <2>1, <2>3, <3>1
    <3>. QED BY <1>4, <3>1, <3>2
  <2>. QED BY <2>2, <2>3
<1>8. IsPieceRun(K, f, s \o t)
  BY <1>3, <1>5, <1>7 DEF IsPieceRun
<1>9. K[m + n] = H[n]
  BY <1>3, <1>6
<1>10. K[Len(s \o t)] = Through(f, s \o t)
  BY ONLY <1>3, <1>8, PieceRunEnds, Zenon
<1>. QED BY <1>2, <1>3, <1>9, <1>10 DEF g

\* A write of a word to the register at an address, as SetState has it.
Write(x) == <<LoadState(x[1], 1), x[2]>>

\* s writes the words of S, and no others.
Makes(s, S) ==
  /\ s \in Seq({Write(x) : x \in S})
  /\ \A x \in S : \E i \in 1 .. Len(s) : s[i] = Write(x)

\* The register of a write, as the front end counts.
Offset(x) == x[1] \div 4

\* No register is given two words.
Sole(S) == \A x, y \in S : Offset(x) = Offset(y) => x[2] = y[2]

\* The registers hold the words of S.
Held(regs, S) == \A x \in S : Offset(x) \in DOMAIN regs /\ regs[Offset(x)] = x[2]

\* What is written once is held, whatever was there and in whatever order.
LEMMA WritesAreHeld ==
  ASSUME NEW s \in Seq(Pieces), NEW S, Makes(s, S), Sole(S), \A x \in S : IsAt(x[1]),
         NEW f, Ready(f)
  PROVE  LET g == Through(f, s)
         IN  Ready(g) /\ g.draws = f.draws /\ Held(g.regs, S)
<1>. DEFINE L == Len(s)
<1>0. L \in Nat /\ \A i \in 1 .. L : s[i] \in Pieces
  OBVIOUS
<1>a. \A i \in 1 .. L : \E x \in S : s[i] = Write(x)
  BY DEF Makes
<1>1. PICK G : IsPieceRun(G, f, s) /\ G[L] = Through(f, s)
  BY <1>0, PieceRunExists
<1>2. G[0] = f /\ \A i \in 1 .. L : G[i] = Fetch(G[i - 1], s[i])
  BY <1>1 DEF IsPieceRun
<1>. DEFINE Upto(i) == /\ Ready(G[i]) /\ G[i].draws = f.draws
                       /\ \A x \in S : (\E j \in 1 .. i : s[j] = Write(x)) =>
                            x[1] \div 4 \in DOMAIN G[i].regs /\ G[i].regs[x[1] \div 4] = x[2]
            T == {i \in Nat : i <= L => Upto(i)}
<1>3. 0 \in T
  <2>1. \A j : ~(j \in 1 .. 0)
    OBVIOUS
  <2>2. Upto(0)
    BY <1>2, <2>1
  <2>. HIDE DEF Upto
  <2>. QED BY <2>2
<1>4. ASSUME NEW i \in Nat, i \in T PROVE i + 1 \in T
  <2>. SUFFICES ASSUME i + 1 <= L PROVE Upto(i + 1)
    OBVIOUS
  <2>1. i + 1 \in 1 .. L /\ (i + 1) - 1 = i /\ Upto(i)
    BY <1>0, <1>4
  <2>. DEFINE e == G[i]
              g == G[i + 1]
  <2>2. Ready(e) /\ e.draws = f.draws /\ g = Fetch(e, s[i + 1])
    BY <1>2, <2>1
  <2>3. PICK y \in S : s[i + 1] = Write(y)
    BY <1>a, <2>1
  <2>4. ASSUME NEW x \in S, s[i + 1] = Write(x) PROVE IsAt(x[1]) /\ x[2] \in Words
    <3>1. Write(x) \in Seq(Words)
      BY ONLY <1>0, <2>1, <2>4 DEF Pieces
    <3>2. Write(x)[2] = x[2] /\ Len(Write(x)) = 2
      BY DEF Write
    <3>3. ASSUME NEW u \in Seq(Words), Len(u) = 2 PROVE u[2] \in Words
      BY ONLY <3>3
    <3>4. x[2] \in Words
      BY ONLY <3>1, <3>2, <3>3, Zenon
    <3>. QED BY <2>4, <3>4
  <2>5. \A x \in S : s[i + 1] = Write(x) =>
          Ready(g) /\ g.draws = e.draws /\ g.regs = SetReg(e.regs, x[1] \div 4, x[2])
    <3>. SUFFICES ASSUME NEW x \in S, s[i + 1] = Write(x)
                  PROVE  Ready(g) /\ g.draws = e.draws /\ g.regs = SetReg(e.regs, x[1] \div 4, x[2])
      OBVIOUS
    <3>. DEFINE at == x[1]
                w == x[2]
    <3>1. IsAt(at) /\ w \in Words /\ g = Fetch(e, <<LoadState(at, 1), w>>)
      BY <2>2, <2>4 DEF Write
    <3>. HIDE DEF e, g, at, w
    <3>2. LET k == Fetch(e, <<LoadState(at, 1), w>>)
          IN  Ready(k) /\ k.draws = e.draws /\ k.regs = SetReg(e.regs, at \div 4, w)
      BY ONLY <2>2, <3>1, PairIsTaken
    <3>. QED BY ONLY <3>1, <3>2 DEF at, w
  <2>6. Ready(g) /\ g.draws = f.draws
    BY ONLY <2>2, <2>3, <2>5
  <2>7. ASSUME NEW x \in S, NEW j \in 1 .. i + 1, s[j] = Write(x)
        PROVE  x[1] \div 4 \in DOMAIN g.regs /\ g.regs[x[1] \div 4] = x[2]
    <3>1. CASE s[i + 1] = Write(x)
      <4>1. g.regs = SetReg(e.regs, x[1] \div 4, x[2])
        BY ONLY <2>5, <3>1, x \in S
      <4>. HIDE DEF g, e
      <4>. QED BY ONLY <4>1 DEF SetReg
    <3>2. CASE s[i + 1] # Write(x)
      <4>1. j \in 1 .. i
        BY ONLY <2>7, <3>2, i \in Nat
      <4>2. x[1] \div 4 \in DOMAIN e.regs /\ e.regs[x[1] \div 4] = x[2]
        BY ONLY <2>1, <2>7, <4>1, x \in S
      <4>3. g.regs = SetReg(e.regs, y[1] \div 4, y[2])
        BY ONLY <2>3, <2>5
      <4>4. x[1] \div 4 = y[1] \div 4 => x[2] = y[2]
        BY ONLY Sole(S), <2>3, x \in S DEF Sole, Offset
      <4>. DEFINE a == x[1] \div 4
                  b == y[1] \div 4
      <4>. HIDE DEF g, e, a, b
      <4>5. a \in DOMAIN g.regs /\ g.regs[a] = x[2]
        BY ONLY <4>2, <4>3, <4>4 DEF SetReg, a, b
      <4>. QED BY ONLY <4>5 DEF a
    <3>. QED BY ONLY <3>1, <3>2
  <2>. QED BY ONLY <2>6, <2>7 DEF g
<1>. HIDE DEF T
<1>5. L \in T
  BY <1>0, <1>3, <1>4, Induct
<1>6. Upto(L)
  BY <1>0, <1>5 DEF T
<1>7. \A x \in S : \E j \in 1 .. L : s[j] = Write(x)
  BY DEF Makes
<1>. QED BY ONLY <1>1, <1>6, <1>7 DEF Held, Offset

\* Nothing written.
LEMMA MakesNothing == Makes(<<>>, {})
BY DEF Makes

\* Writes behind writes.
LEMMA MakesConcat ==
  ASSUME NEW s, NEW S, Makes(s, S), NEW t, NEW T, Makes(t, T)
  PROVE  Makes(s \o t, S \cup T)
<1>. DEFINE m == Len(s)
            n == Len(t)
            u == s \o t
            W == {Write(x) : x \in S \cup T}
<1>0. s \in Seq({Write(x) : x \in S}) /\ t \in Seq({Write(x) : x \in T})
  BY DEF Makes
<1>1. s \in Seq(W) /\ t \in Seq(W)
  <2>1. {Write(x) : x \in S} \subseteq W /\ {Write(x) : x \in T} \subseteq W
    OBVIOUS
  <2>. HIDE DEF W
  <2>2. \A A : A \subseteq W => Seq(A) \subseteq Seq(W)
    OBVIOUS
  <2>. QED BY ONLY <1>0, <2>1, <2>2, Zenon
<1>2. /\ u \in Seq(W) /\ Len(u) = m + n /\ m \in Nat /\ n \in Nat
      /\ \A i \in 1 .. m + n : u[i] = IF i <= m THEN s[i] ELSE t[i - m]
  <2>. HIDE DEF W
  <2>. QED BY <1>1, ConcatProperties
<1>3. /\ \A x \in S : \E i \in 1 .. m : s[i] = Write(x)
      /\ \A x \in T : \E i \in 1 .. n : t[i] = Write(x)
  BY DEF Makes
<1>. HIDE DEF u, m, n
<1>4. ASSUME NEW x \in S PROVE \E i \in 1 .. m + n : u[i] = Write(x)
  <2>1. PICK i \in 1 .. m : s[i] = Write(x)
    BY <1>3
  <2>2. i \in 1 .. m + n /\ u[i] = s[i]
    BY <1>2
  <2>. QED BY <2>1, <2>2
<1>5. ASSUME NEW x \in T PROVE \E i \in 1 .. m + n : u[i] = Write(x)
  <2>1. PICK i \in 1 .. n : t[i] = Write(x)
    BY <1>3
  <2>2. i + m \in 1 .. m + n /\ u[i + m] = t[i]
    BY <1>2
  <2>. QED BY <2>1, <2>2
<1>6. \A x \in S \cup T : \E i \in 1 .. Len(u) : u[i] = Write(x)
  BY <1>2, <1>4, <1>5
<1>. QED BY <1>2, <1>6 DEF Makes, u

\* A word in a register, and fields.
At(reg, w) == {<<reg.at, w>>}
AtFields(reg, v) == At(reg, Pack(reg.fields, v))

\* One register.
LEMMA SetStateMakes ==
  ASSUME NEW reg, NEW w
  PROVE  Makes(SetState(reg, w), At(reg, w))
<1>. DEFINE x == <<reg.at, w>>
            W == {Write(y) : y \in {x}}
            s == <<Write(x)>>
<1>1. SetState(reg, w) = s
  BY DEF SetState, Write
<1>2. Write(x) \in W
  OBVIOUS
<1>. HIDE DEF x
<1>3. s \in Seq(W) /\ Len(s) = 1 /\ s[1] = Write(x)
  <2>. HIDE DEF W
  <2>. QED BY <1>2
<1>. HIDE DEF s
<1>4. Makes(s, {x})
  BY <1>3 DEF Makes
<1>. QED BY <1>1, <1>4 DEF x, At

\* One register with fields, or with an address.
LEMMA SetMakes ==
  /\ \A reg, v : Makes(Set(reg, v), AtFields(reg, v))
  /\ \A reg, s : Makes(SetStateFromBo(reg, s), At(reg, GpuAddress[s]))
BY ONLY SetStateMakes, Zenon DEF Set, SetStateFromBo, AtFields

\* Writes that are made or not.
LEMMA WhenMakes ==
  ASSUME NEW c \in BOOLEAN, NEW s, NEW S, c => Makes(s, S)
  PROVE  Makes(When(c, s), IF c THEN S ELSE {})
BY ONLY c \in BOOLEAN, c => Makes(s, S), MakesNothing, Zenon DEF When

\* Zeros in registers.
LEMMA ZeroMakes ==
  ASSUME NEW regs, NEW n \in Nat, DOMAIN regs = 1 .. n, Len(regs) = n
  PROVE  Makes(Zero(regs), {<<regs[i].at, {}>> : i \in 1 .. n})
<1>. DEFINE X(i) == <<regs[i].at, {}>>
            S == {X(i) : i \in 1 .. n}
            W == {Write(x) : x \in S}
            z == Zero(regs)
<1>1. \A i \in 1 .. n : SetState(regs[i], {})[1] = Write(X(i))
  BY DEF SetState, Write
<1>2. z = [i \in 1 .. n |-> SetState(regs[i], {})[1]]
  BY DEF Zero
<1>3. \A i \in 1 .. n : z[i] = Write(X(i)) /\ X(i) \in S
  BY ONLY <1>1, <1>2, n \in Nat
<1>4. \A i \in 1 .. n : Write(X(i)) \in W
  BY ONLY <1>3
<1>. HIDE DEF X, W, S
<1>5. z \in Seq(W) /\ Len(z) = n
  BY ONLY <1>1, <1>2, <1>4, n \in Nat
<1>6. \A x \in S : \E i \in 1 .. n : z[i] = Write(x)
  BY ONLY <1>3, Zenon DEF S
<1>7. Makes(z, S)
  BY ONLY <1>5, <1>6 DEF Makes, W
<1>. QED BY ONLY <1>7 DEF S, X

\* In two.
LEMMA ZeroTwoMakes ==
  ASSUME NEW a, NEW b
  PROVE  Makes(Zero(<<a, b>>), At(a, {}) \cup At(b, {}))
<1>. DEFINE regs == <<a, b>>
<1>1. DOMAIN regs = 1 .. 2 /\ Len(regs) = 2 /\ regs[1] = a /\ regs[2] = b
  OBVIOUS
<1>. HIDE DEF regs
<1>2. Makes(Zero(regs), {<<regs[i].at, {}>> : i \in 1 .. 2})
  BY ONLY <1>1, 2 \in Nat, ZeroMakes
<1>3. {<<regs[i].at, {}>> : i \in 1 .. 2}
        = At(a, {}) \cup At(b, {})
  BY ONLY <1>1 DEF At
<1>. QED BY <1>2, <1>3 DEF regs

\* In three.
LEMMA ZeroThreeMakes ==
  ASSUME NEW a, NEW b, NEW c
  PROVE  Makes(Zero(<<a, b, c>>), At(a, {}) \cup At(b, {}) \cup At(c, {}))
<1>. DEFINE regs == <<a, b, c>>
<1>1. DOMAIN regs = 1 .. 3 /\ Len(regs) = 3 /\ regs[1] = a /\ regs[2] = b /\ regs[3] = c
  OBVIOUS
<1>. HIDE DEF regs
<1>2. Makes(Zero(regs), {<<regs[i].at, {}>> : i \in 1 .. 3})
  BY ONLY <1>1, 3 \in Nat, ZeroMakes
<1>3. {<<regs[i].at, {}>> : i \in 1 .. 3}
        = At(a, {}) \cup At(b, {}) \cup At(c, {})
  BY ONLY <1>1 DEF At
<1>. QED BY <1>2, <1>3 DEF regs

\* In five.
LEMMA ZeroFiveMakes ==
  ASSUME NEW a, NEW b, NEW c, NEW d, NEW e
  PROVE  Makes(Zero(<<a, b, c, d, e>>),
               At(a, {}) \cup At(b, {}) \cup At(c, {}) \cup At(d, {}) \cup At(e, {}))
<1>. DEFINE regs == <<a, b, c, d, e>>
<1>1. /\ DOMAIN regs = 1 .. 5 /\ Len(regs) = 5
      /\ regs[1] = a /\ regs[2] = b /\ regs[3] = c /\ regs[4] = d /\ regs[5] = e
  OBVIOUS
<1>. HIDE DEF regs
<1>2. Makes(Zero(regs), {<<regs[i].at, {}>> : i \in 1 .. 5})
  BY ONLY <1>1, 5 \in Nat, ZeroMakes
<1>3. {<<regs[i].at, {}>> : i \in 1 .. 5}
        = At(a, {}) \cup At(b, {}) \cup At(c, {}) \cup At(d, {}) \cup At(e, {})
  BY ONLY <1>1 DEF At
<1>. QED BY <1>2, <1>3 DEF regs

\* The words of several sources.
AllOf(S, n) == UNION {S[i] : i \in 1 .. n}

\* Writes of several sources.
LEMMA FlattenMakes ==
  ASSUME NEW n \in Nat, NEW s \in Seq(Seq(Pieces)), Len(s) = n, NEW S,
         \A i \in 1 .. n : Makes(s[i], S[i])
  PROVE  Makes(FlattenSeq(s), AllOf(S, n))
<1>1. PICK F : /\ F[0] = <<>> /\ F[Len(s)] = FlattenSeq(s)
               /\ \A i \in 0 .. Len(s) : F[i] \in Seq(Pieces)
               /\ \A i \in 1 .. Len(s) : F[i] = F[i - 1] \o s[i]
  BY ONLY s \in Seq(Seq(Pieces)), FlattenSteps, Zenon
<1>. DEFINE U(i) == AllOf(S, i)
            T == {i \in Nat : i <= n => Makes(F[i], U(i))}
<1>2. 0 \in T
  <2>1. U(0) = {}
    BY DEF AllOf
  <2>. QED BY <1>1, <2>1, MakesNothing
<1>3. ASSUME NEW i \in Nat, i \in T PROVE i + 1 \in T
  <2>. SUFFICES ASSUME i + 1 <= n PROVE Makes(F[i + 1], U(i + 1))
    OBVIOUS
  <2>1. i + 1 \in 1 .. n /\ (i + 1) - 1 = i /\ i <= n
    OBVIOUS
  <2>2. Makes(F[i], U(i)) /\ Makes(s[i + 1], S[i + 1])
    BY <1>3, <2>1
  <2>3. F[i + 1] = F[i] \o s[i + 1]
    BY <1>1, <2>1
  <2>4. U(i + 1) = U(i) \cup S[i + 1]
    <3>1. 1 .. i + 1 = (1 .. i) \cup {i + 1}
      OBVIOUS
    <3>. QED BY ONLY <3>1 DEF AllOf
  <2>. HIDE DEF U
  <2>. QED BY ONLY <2>2, <2>3, <2>4, MakesConcat
<1>. HIDE DEF T
<1>4. n \in T
  BY <1>2, <1>3, Induct
<1>5. Makes(F[n], U(n))
  BY <1>4 DEF T
<1>. QED BY <1>1, <1>5

-------------------------------------------------------------------------------
(***************************************************************************)
(* The words an operation gives to the registers, group by group, as       *)
(* viv2d_op_exec writes them.                                              *)
(***************************************************************************)
\* The destination.
DestConfig(o) ==
  [FORMAT |-> Bits(FormatOf(o.dst).fmt), SWIZZLE |-> Bits(FormatOf(o.dst).swizzle),
   COMMAND |-> Bits(Command(o.cmd)), TILED |-> {}, MINOR_TILED |-> {}]

DestSet(o) ==
  At(VIVS_DE_DEST_ADDRESS, GpuAddress[o.dst])
  \cup At(VIVS_DE_DEST_STRIDE, Bits(surf[o.dst].pitch))
  \cup At(VIVS_DE_DEST_ROTATION_CONFIG, {})
  \cup AtFields(VIVS_DE_DEST_CONFIG, DestConfig(o))

\* The clip rectangle.
ClipSet(o) ==
  AtFields(VIVS_DE_CLIP_TOP_LEFT, [X |-> Bits(o.clip.x), Y |-> Bits(o.clip.y)])
  \cup AtFields(VIVS_DE_CLIP_BOTTOM_RIGHT,
                [X |-> Bits(o.clip.x + o.clip.width), Y |-> Bits(o.clip.y + o.clip.height)])

\* A block of a multi-source blit: how it is blended, its source, the rest.
BlockBlendSet(o, i) ==
  IF o.blend # NoBlend
  THEN AtFields(VIVS_DE_BLOCK8_ALPHA_CONTROL(i),
                [ENABLE |-> {0}, PE10_GLOBAL_SRC_ALPHA |-> Bits(o.blend.src_alpha),
                 PE10_GLOBAL_DST_ALPHA |-> Bits(o.blend.dst_alpha)])
       \cup AtFields(VIVS_DE_BLOCK8_ALPHA_MODES(i),
                     [SRC_BLENDING_MODE |-> Bits(DE_BLENDMODE.ONE),
                      DST_BLENDING_MODE |-> Bits(DE_BLENDMODE.INVERSED)])
  ELSE At(VIVS_DE_BLOCK8_ALPHA_CONTROL(i), {}) \cup At(VIVS_DE_BLOCK8_ALPHA_MODES(i), {})

\* Its source.
BlockSourceSet(o, s, i) ==
  At(VIVS_DE_BLOCK8_SRC_ADDRESS(i), GpuAddress[s])
  \cup At(VIVS_DE_BLOCK8_SRC_STRIDE(i), Bits(surf[s].pitch))
  \cup AtFields(VIVS_DE_BLOCK8_SRC_ROTATION_CONFIG(i), [WIDTH |-> Bits(surf[s].width)])
  \cup AtFields(VIVS_DE_BLOCK8_SRC_CONFIG(i), SourceConfig(s))
  \cup At(VIVS_DE_BLOCK8_SRC_COLOR_BG(i), All1)
  \cup At(VIVS_DE_BLOCK8_SRC_COLOR_KEY_HIGH(i), All1)
  \cup AtFields(VIVS_DE_BLOCK8_SRC_ORIGIN(i), [X |-> o.src_x, Y |-> o.src_y])
  \cup AtFields(VIVS_DE_BLOCK8_SRC_SIZE(i), SizeOf(s))
  \cup AtFields(VIVS_DE_BLOCK8_SRC_ROTATION_HEIGHT(i), [HEIGHT |-> Bits(surf[s].height)])
  \cup AtFields(VIVS_DE_BLOCK8_ROT_ANGLE(i), [SRC |-> {}, DST |-> {}])
  \cup AtFields(VIVS_DE_BLOCK8_ROP(i), [ROP_FG |-> Bits(ROP_SRC), ROP_BG |-> Bits(ROP_SRC),
                                        TYPE |-> Bits(ROP_TYPE.ROP4)])

\* Its colors.
BlockColorSet(i) ==
  At(VIVS_DE_BLOCK8_GLOBAL_SRC_COLOR(i), {}) \cup At(VIVS_DE_BLOCK8_GLOBAL_DEST_COLOR(i), {})
  \cup At(VIVS_DE_BLOCK8_COLOR_MULTIPLY_MODES(i), {})

\* All of it.
BlockSet(o, s, i) == BlockSourceSet(o, s, i) \cup BlockBlendSet(o, i) \cup BlockColorSet(i)

\* The blocks together.
MultiConfig(o) ==
  [MAX_SOURCE |-> Bits(Len(o.srcs) - 1), VERTICAL_BLOCK |-> Bits(VERTICAL_BLOCK.LINE32),
   HORIZONTAL_BLOCK |-> Bits(HORIZONTAL_BLOCK.PIXEL16)]

\* Every block, and how many there are.
MultiSet(o) ==
  AllOf([i \in 1 .. Len(o.srcs) |-> BlockSet(o, o.srcs[i], i - 1)], Len(o.srcs))
  \cup AtFields(VIVS_DE_DE_MULTI_SOURCE, MultiConfig(o))

\* A single source.
SourceSet(o) ==
  LET s == o.srcs[1]
  IN  At(VIVS_DE_SRC_ADDRESS, GpuAddress[s])
      \cup At(VIVS_DE_SRC_STRIDE, Bits(surf[s].pitch))
      \cup At(VIVS_DE_SRC_ROTATION_CONFIG, {})
      \cup AtFields(VIVS_DE_SRC_CONFIG, SourceConfig(s))
      \cup AtFields(VIVS_DE_SRC_ORIGIN, [X |-> o.src_x, Y |-> o.src_y])
      \cup AtFields(VIVS_DE_SRC_SIZE, SizeOf(s))

\* Data instead of a source, or nothing.
MonoConfig ==
  [UNK16 |-> {0}, SOURCE_FORMAT |-> Bits(DE_FORMAT.MONOCHROME),
   LOCATION |-> Bits(LOCATION.STREAM), PACK |-> {},
   PE10_SOURCE_FORMAT |-> Bits(DE_FORMAT.MONOCHROME)]

\* Without a source.
NoSourceSet(o) ==
  LET mono == o.cmd = "mono_blit"
  IN  At(VIVS_DE_SRC_STRIDE, IF mono THEN o.data_pitch ELSE {})
      \cup At(VIVS_DE_SRC_ROTATION_CONFIG, {})
      \cup (IF mono THEN AtFields(VIVS_DE_SRC_CONFIG, MonoConfig) ELSE At(VIVS_DE_SRC_CONFIG, {}))
      \cup (At(VIVS_DE_SRC_ORIGIN, {}) \cup At(VIVS_DE_SRC_SIZE, {}))
      \cup (IF mono
            THEN At(VIVS_DE_SRC_COLOR_BG, MonoBackground) \cup At(VIVS_DE_SRC_COLOR_FG, All1)
            ELSE {})

\* The steps of a stretch.
StretchSet(o) ==
  LET s == surf[o.srcs[1]]
      d == surf[o.dst]
  IN  AtFields(VIVS_DE_STRETCH_FACTOR_LOW, [X |-> Bits(StretchFactor(s.width, d.width))])
      \cup AtFields(VIVS_DE_STRETCH_FACTOR_HIGH, [Y |-> Bits(StretchFactor(s.height, d.height))])

\* The pattern.
PatternSet(o) ==
  At(VIVS_DE_PATTERN_MASK_LOW, All1) \cup At(VIVS_DE_PATTERN_MASK_HIGH, All1)
  \cup At(VIVS_DE_PATTERN_BG_COLOR, {}) \cup At(VIVS_DE_PATTERN_FG_COLOR, o.color)
  \cup AtFields(VIVS_DE_PATTERN_CONFIG, [INIT_TRIGGER |-> Bits(3)])

\* The raster operation.
RopConfig(o) == [ROP_FG |-> Bits(o.rop), ROP_BG |-> Bits(o.rop), TYPE |-> Bits(ROP_TYPE.ROP4)]
RopSet(o) == AtFields(VIVS_DE_ROP, RopConfig(o))

\* The color of a clear.
ClearSet(o) ==
  At(VIVS_DE_CLEAR_PIXEL_VALUE32, o.color) \cup At(VIVS_DE_CLEAR_BYTE_MASK, Bits(255))
  \cup At(VIVS_DE_CLEAR_PIXEL_VALUE_LOW, o.color) \cup At(VIVS_DE_CLEAR_PIXEL_VALUE_HIGH, o.color)

\* A blend.
BlendModes(b) ==
  [GLOBAL_SRC_ALPHA_MODE |-> GlobalMode(b.src_global),
   GLOBAL_DST_ALPHA_MODE |-> GlobalMode(b.dst_global),
   SRC_BLENDING_MODE |-> BlendMode(1, b.cmd), DST_BLENDING_MODE |-> BlendMode(2, b.cmd)]

BlendSet(b) ==
  AtFields(VIVS_DE_ALPHA_CONTROL,
           [ENABLE |-> {0}, PE10_GLOBAL_SRC_ALPHA |-> Bits(b.src_alpha),
            PE10_GLOBAL_DST_ALPHA |-> Bits(b.dst_alpha)])
  \cup AtFields(VIVS_DE_ALPHA_MODES, BlendModes(b))
  \cup At(VIVS_DE_GLOBAL_SRC_COLOR, Color24(b.src_alpha))
  \cup At(VIVS_DE_GLOBAL_DEST_COLOR, Color24(b.dst_alpha))
  \cup AtFields(VIVS_DE_COLOR_MULTIPLY_MODES,
                [SRC_PREMULTIPLY |-> {}, DST_PREMULTIPLY |-> {}, SRC_GLOBAL_PREMULTIPLY |-> {},
                 DST_DEMULTIPLY |-> {}])

\* The blend of an operation, or none.
AlphaSet(o) ==
  IF o.blend # NoBlend THEN BlendSet(o.blend)
  ELSE At(VIVS_DE_ALPHA_CONTROL, {}) \cup At(VIVS_DE_ALPHA_MODES, {})
       \cup At(VIVS_DE_GLOBAL_SRC_COLOR, {}) \cup At(VIVS_DE_GLOBAL_DEST_COLOR, {})
       \cup At(VIVS_DE_COLOR_MULTIPLY_MODES, {})

\* Nothing, when the code does not get there.
WhenSet(cond, S) == IF cond THEN S ELSE {}

\* All of them.
ProgramSet(o) ==
  LET multi == o.cmd = "multsrcblt"
  IN  DestSet(o)
      \cup ClipSet(o)
      \cup (IF multi THEN MultiSet(o) ELSE IF o.srcs # <<>> THEN SourceSet(o) ELSE NoSourceSet(o))
      \cup WhenSet(o.cmd = "stretchblt", StretchSet(o))
      \cup WhenSet(o.pat_fill, PatternSet(o))
      \cup WhenSet(~multi, RopSet(o))
      \cup WhenSet(o.cmd \in {"clear", "mono_blit"}, ClearSet(o))
      \cup WhenSet(~multi, AlphaSet(o))

\* The writes of viv2d_op_exec before its draw.
StateWrites(o) ==
  LET multi == o.cmd = "multsrcblt"
  IN  DestWrites(o)
      \o ClipWrites(o)
      \o (IF multi THEN MultiSourceWrites(o)
          ELSE IF o.srcs # <<>> THEN SourceWrites(o) ELSE NoSourceWrites(o))
      \o When(o.cmd = "stretchblt", StretchWrites(o))
      \o When(o.pat_fill, PatternWrites(o))
      \o When(~multi, RopWrites(o))
      \o When(o.cmd \in {"clear", "mono_blit"}, ClearWrites(o))
      \o When(~multi, AlphaWrites(o))

\* Each group is made by the writes of it.
LEMMA GroupsMake ==
  ASSUME NEW o
  PROVE  /\ Makes(DestWrites(o), DestSet(o)) /\ Makes(ClipWrites(o), ClipSet(o))
         /\ Makes(SourceWrites(o), SourceSet(o)) /\ Makes(StretchWrites(o), StretchSet(o))
         /\ Makes(PatternWrites(o), PatternSet(o)) /\ Makes(RopWrites(o), RopSet(o))
         /\ Makes(ClearWrites(o), ClearSet(o)) /\ Makes(AlphaWrites(o), AlphaSet(o))
         /\ Makes(NoSourceWrites(o), NoSourceSet(o))
<1>1. Makes(DestWrites(o), DestSet(o))
  BY ONLY SetStateMakes, SetMakes, MakesConcat, Zenon DEF DestWrites, DestSet, DestConfig
<1>2. Makes(ClipWrites(o), ClipSet(o))
  BY ONLY SetMakes, MakesConcat, Zenon DEF ClipWrites, ClipSet
<1>3. Makes(SourceWrites(o), SourceSet(o))
  BY ONLY SetStateMakes, SetMakes, MakesConcat, Zenon DEF SourceWrites, SourceSet
<1>4. Makes(StretchWrites(o), StretchSet(o))
  BY ONLY SetMakes, MakesConcat, Zenon DEF StretchWrites, StretchSet
<1>5. Makes(PatternWrites(o), PatternSet(o))
  BY ONLY SetStateMakes, SetMakes, MakesConcat, Zenon DEF PatternWrites, PatternSet
<1>6. Makes(RopWrites(o), RopSet(o))
  BY ONLY SetMakes, Zenon DEF RopWrites, RopSet, RopConfig
<1>7. Makes(ClearWrites(o), ClearSet(o))
  <2>. DEFINE all == Bits(255)
  <2>1. Makes(SetState(VIVS_DE_CLEAR_PIXEL_VALUE32, o.color)
              \o SetState(VIVS_DE_CLEAR_BYTE_MASK, all)
              \o SetState(VIVS_DE_CLEAR_PIXEL_VALUE_LOW, o.color)
              \o SetState(VIVS_DE_CLEAR_PIXEL_VALUE_HIGH, o.color),
              At(VIVS_DE_CLEAR_PIXEL_VALUE32, o.color) \cup At(VIVS_DE_CLEAR_BYTE_MASK, all)
              \cup At(VIVS_DE_CLEAR_PIXEL_VALUE_LOW, o.color)
              \cup At(VIVS_DE_CLEAR_PIXEL_VALUE_HIGH, o.color))
    <3>. HIDE DEF all
    <3>. QED BY ONLY SetStateMakes, MakesConcat, Zenon
  <2>. QED BY ONLY <2>1, SMT DEF ClearWrites, ClearSet
<1>8. Makes(AlphaWrites(o), AlphaSet(o))
  <2>1. \A b : Makes(BlendWrites(b), BlendSet(b))
    BY ONLY SetStateMakes, SetMakes, MakesConcat, Zenon DEF BlendWrites, BlendSet, BlendModes
  <2>. QED BY ONLY <2>1, ZeroFiveMakes, Zenon DEF AlphaWrites, AlphaSet
<1>9. Makes(NoSourceWrites(o), NoSourceSet(o))
  <2>. DEFINE mono == o.cmd = "mono_blit"
              colors == SetState(VIVS_DE_SRC_COLOR_BG, MonoBackground)
                        \o SetState(VIVS_DE_SRC_COLOR_FG, All1)
              colorSet == At(VIVS_DE_SRC_COLOR_BG, MonoBackground)
                          \cup At(VIVS_DE_SRC_COLOR_FG, All1)
  <2>1. Makes(When(mono, colors), IF mono THEN colorSet ELSE {})
    <3>1. Makes(colors, colorSet)
      BY ONLY SetStateMakes, MakesConcat, Zenon
    <3>. HIDE DEF colors, colorSet
    <3>2. mono \in BOOLEAN
      OBVIOUS
    <3>. QED BY ONLY <3>1, <3>2, WhenMakes, Zenon
  <2>2. Makes(IF mono THEN Set(VIVS_DE_SRC_CONFIG, MonoConfig)
              ELSE SetState(VIVS_DE_SRC_CONFIG, {}),
              IF mono THEN AtFields(VIVS_DE_SRC_CONFIG, MonoConfig) ELSE At(VIVS_DE_SRC_CONFIG, {}))
    BY ONLY SetStateMakes, SetMakes, Zenon
  <2>. QED BY ONLY <2>1, <2>2, SetStateMakes, ZeroTwoMakes, MakesConcat, Zenon
           DEF NoSourceWrites, NoSourceSet, MonoConfig
<1>. QED BY ONLY <1>1, <1>2, <1>3, <1>4, <1>5, <1>6, <1>7, <1>8, <1>9, Zenon

\* A block is made by a round of the loop.
LEMMA BlockMakes ==
  ASSUME NEW o, NEW s, NEW i
  PROVE  Makes(BlockWrites(o, s, i), BlockSet(o, s, i))
<1>1. Makes(IF o.blend # NoBlend
            THEN Set(VIVS_DE_BLOCK8_ALPHA_CONTROL(i),
                     [ENABLE |-> {0}, PE10_GLOBAL_SRC_ALPHA |-> Bits(o.blend.src_alpha),
                      PE10_GLOBAL_DST_ALPHA |-> Bits(o.blend.dst_alpha)])
                 \o Set(VIVS_DE_BLOCK8_ALPHA_MODES(i),
                        [SRC_BLENDING_MODE |-> Bits(DE_BLENDMODE.ONE),
                         DST_BLENDING_MODE |-> Bits(DE_BLENDMODE.INVERSED)])
            ELSE Zero(<<VIVS_DE_BLOCK8_ALPHA_CONTROL(i), VIVS_DE_BLOCK8_ALPHA_MODES(i)>>),
            BlockBlendSet(o, i))
  BY ONLY SetMakes, ZeroTwoMakes, MakesConcat, Zenon DEF BlockBlendSet
<1>2. Makes(Zero(<<VIVS_DE_BLOCK8_GLOBAL_SRC_COLOR(i), VIVS_DE_BLOCK8_GLOBAL_DEST_COLOR(i),
                   VIVS_DE_BLOCK8_COLOR_MULTIPLY_MODES(i)>>), BlockColorSet(i))
  BY ONLY ZeroThreeMakes, Zenon DEF BlockColorSet
<1>. QED BY ONLY <1>1, <1>2, SetStateMakes, SetMakes, MakesConcat, ZenonT(60)
         DEF BlockWrites, BlockSet, BlockSourceSet

\* The rounds of a multi-source blit make the words of its blocks.
LEMMA MultiSourceMakes ==
  ASSUME NEW o \in Ops, Len(o.srcs) <= 8
  PROVE  Makes(MultiSourceWrites(o), MultiSet(o))
<1>. PICK n \in Nat : n = Len(o.srcs) /\ n <= 8
  BY DEF Ops
<1>1. \A i \in 1 .. n : o.srcs[i] \in SurfaceIds /\ i - 1 \in 0 .. 7
  BY DEF Ops
<1>. DEFINE blocks == [i \in 1 .. n |-> BlockWrites(o, o.srcs[i], i - 1)]
            S == [i \in 1 .. n |-> BlockSet(o, o.srcs[i], i - 1)]
<1>2. \A i \in 1 .. n : BlockWrites(o, o.srcs[i], i - 1) \in Seq(Pieces)
  BY ONLY o \in Ops, <1>1, BlockWritesFit, Zenon
<1>3. blocks \in Seq(Seq(Pieces)) /\ Len(blocks) = n
  BY ONLY <1>2, n \in Nat
<1>4. \A i \in 1 .. n : Makes(blocks[i], S[i])
  BY ONLY BlockMakes, Zenon
<1>. HIDE DEF blocks, S
<1>5. Makes(FlattenSeq(blocks), AllOf(S, n))
  BY ONLY <1>3, <1>4, n \in Nat, FlattenMakes, Zenon
<1>. QED BY ONLY <1>5, n = Len(o.srcs), SetMakes, MakesConcat, Zenon
         DEF MultiSourceWrites, MultiSet, MultiConfig, blocks, S

\* All of them make the words of the program, and are whole commands.
LEMMA StateWritesMake ==
  ASSUME NEW o \in Ops, Len(o.srcs) <= 8
  PROVE  StateWrites(o) \in Seq(Pieces) /\ Makes(StateWrites(o), ProgramSet(o))
<1>. DEFINE multi == o.cmd = "multsrcblt"
            clear == o.cmd \in {"clear", "mono_blit"}
            stretch == o.cmd = "stretchblt"
            body == IF multi THEN MultiSourceWrites(o)
                    ELSE IF o.srcs # <<>> THEN SourceWrites(o) ELSE NoSourceWrites(o)
            bodySet == IF multi THEN MultiSet(o)
                       ELSE IF o.srcs # <<>> THEN SourceSet(o) ELSE NoSourceSet(o)
<1>0. o.pat_fill \in BOOLEAN
  BY DEF Ops
<1>1. DestWrites(o) \in Seq(Pieces) /\ ClipWrites(o) \in Seq(Pieces)
  BY DestWritesFit, ClipWritesFit
<1>2. body \in Seq(Pieces)
  <2>1. MultiSourceWrites(o) \in Seq(Pieces)
    BY MultiSourceWritesFit
  <2>2. o.srcs # <<>> => SourceWrites(o) \in Seq(Pieces)
    BY SourceWritesFit
  <2>3. NoSourceWrites(o) \in Seq(Pieces)
    BY NoSourceWritesFit
  <2>. QED BY ONLY <2>1, <2>2, <2>3, Zenon
<1>3. Makes(body, bodySet)
  BY MultiSourceMakes, GroupsMake, Zenon
<1>4. multi \in BOOLEAN /\ clear \in BOOLEAN /\ stretch \in BOOLEAN
  OBVIOUS
<1>. HIDE DEF multi, clear, stretch, body, bodySet
<1>5. ASSUME NEW c \in BOOLEAN, NEW s \in Seq(Pieces), NEW S, Makes(s, S)
      PROVE  When(c, s) \in Seq(Pieces) /\ Makes(When(c, s), WhenSet(c, S))
  BY ONLY <1>5, WhenIsPieces, WhenMakes, Zenon DEF WhenSet
<1>6. /\ StretchWrites(o) \in Seq(Pieces) /\ PatternWrites(o) \in Seq(Pieces)
      /\ RopWrites(o) \in Seq(Pieces) /\ ClearWrites(o) \in Seq(Pieces)
      /\ AlphaWrites(o) \in Seq(Pieces)
  BY ONLY o \in Ops, StretchWritesFit, PatternWritesFit, RopWritesFit, ClearWritesFit,
          AlphaWritesFit, Zenon
<1>7. /\ When(stretch, StretchWrites(o)) \in Seq(Pieces)
      /\ Makes(When(stretch, StretchWrites(o)), WhenSet(stretch, StretchSet(o)))
  BY ONLY <1>4, <1>5, <1>6, GroupsMake, Zenon
<1>8. /\ When(o.pat_fill, PatternWrites(o)) \in Seq(Pieces)
      /\ Makes(When(o.pat_fill, PatternWrites(o)), WhenSet(o.pat_fill, PatternSet(o)))
  BY ONLY <1>0, <1>5, <1>6, GroupsMake, Zenon
<1>9. /\ When(~multi, RopWrites(o)) \in Seq(Pieces)
      /\ Makes(When(~multi, RopWrites(o)), WhenSet(~multi, RopSet(o)))
      /\ When(~multi, AlphaWrites(o)) \in Seq(Pieces)
      /\ Makes(When(~multi, AlphaWrites(o)), WhenSet(~multi, AlphaSet(o)))
  <2>1. (~multi) \in BOOLEAN
    BY ONLY <1>4
  <2>. QED BY ONLY <2>1, <1>5, <1>6, GroupsMake, Zenon
<1>10. /\ When(clear, ClearWrites(o)) \in Seq(Pieces)
       /\ Makes(When(clear, ClearWrites(o)), WhenSet(clear, ClearSet(o)))
  BY ONLY <1>4, <1>5, <1>6, GroupsMake, Zenon
<1>11. Makes(DestWrites(o), DestSet(o)) /\ Makes(ClipWrites(o), ClipSet(o))
  BY ONLY GroupsMake, Zenon
<1>. DEFINE p1 == DestWrites(o)
            p2 == ClipWrites(o)
            p4 == When(stretch, StretchWrites(o))
            p5 == When(o.pat_fill, PatternWrites(o))
            p6 == When(~multi, RopWrites(o))
            p7 == When(clear, ClearWrites(o))
            p8 == When(~multi, AlphaWrites(o))
            all == p1 \o p2 \o body \o p4 \o p5 \o p6 \o p7 \o p8
            q1 == DestSet(o)
            q2 == ClipSet(o)
            q4 == WhenSet(stretch, StretchSet(o))
            q5 == WhenSet(o.pat_fill, PatternSet(o))
            q6 == WhenSet(~multi, RopSet(o))
            q7 == WhenSet(clear, ClearSet(o))
            q8 == WhenSet(~multi, AlphaSet(o))
            allSet == q1 \cup q2 \cup bodySet \cup q4 \cup q5 \cup q6 \cup q7 \cup q8
<1>12. StateWrites(o) = all
  BY ONLY TRUE, Zenon DEF StateWrites, body, multi, clear, stretch
<1>13. ProgramSet(o) = allSet
  BY ONLY TRUE, Zenon DEF ProgramSet, bodySet, multi, clear, stretch
<1>14. /\ p1 \in Seq(Pieces) /\ p2 \in Seq(Pieces) /\ p4 \in Seq(Pieces)
       /\ p5 \in Seq(Pieces) /\ p6 \in Seq(Pieces) /\ p7 \in Seq(Pieces) /\ p8 \in Seq(Pieces)
       /\ Makes(p1, q1) /\ Makes(p2, q2) /\ Makes(p4, q4) /\ Makes(p5, q5) /\ Makes(p6, q6)
       /\ Makes(p7, q7) /\ Makes(p8, q8)
  BY ONLY <1>1, <1>7, <1>8, <1>9, <1>10, <1>11
<1>. HIDE DEF p1, p2, p4, p5, p6, p7, p8, q1, q2, q4, q5, q6, q7, q8
<1>15. all \in Seq(Pieces)
  BY ONLY <1>2, <1>14, PiecesConcat, Zenon
<1>16. Makes(all, allSet)
  BY ONLY <1>3, <1>14, MakesConcat, Zenon
<1>. QED BY ONLY <1>12, <1>13, <1>15, <1>16, Zenon

-------------------------------------------------------------------------------
\* No register of a zone is given two words, and no register outside it one.
Zoned(S, Z) == Sole(S) /\ \A x \in S : IsAt(x[1]) /\ Offset(x) \in Z

\* Zones apart from each other.
LEMMA ZonedUnion ==
  ASSUME NEW S, NEW Y, Zoned(S, Y), NEW T, NEW Z, Zoned(T, Z), Y \cap Z = {}
  PROVE  Zoned(S \cup T, Y \cup Z)
<1>1. \A x \in S, y \in T : Offset(x) # Offset(y)
  BY DEF Zoned
<1>. QED BY ONLY <1>1, Zoned(S, Y), Zoned(T, Z) DEF Zoned, Sole

\* No register is in any zone.
LEMMA ZonedNothing == \A Z : Zoned({}, Z)
BY DEF Zoned, Sole

\* A wider zone.
LEMMA ZonedIn == \A S, Y, Z : Zoned(S, Y) /\ Y \subseteq Z => Zoned(S, Z)
BY DEF Zoned

\* One register.
LEMMA ZonedAt ==
  ASSUME NEW reg, IsReg(reg), NEW w
  PROVE  /\ Zoned(At(reg, w), {reg.at \div 4})
         /\ \A v : Zoned(AtFields(reg, v), {reg.at \div 4})
<1>1. \A u : Zoned(At(reg, u), {reg.at \div 4})
  BY DEF IsReg, At, Zoned, Sole, Offset
<1>. QED BY ONLY <1>1, Zenon DEF AtFields

\* The places of the registers.
LEMMA PlacesOfDest ==
  /\ VIVS_DE_DEST_ADDRESS.at \div 4 = 1162 /\ VIVS_DE_DEST_STRIDE.at \div 4 = 1163
  /\ VIVS_DE_DEST_ROTATION_CONFIG.at \div 4 = 1164 /\ VIVS_DE_DEST_CONFIG.at \div 4 = 1165
  /\ VIVS_DE_CLIP_TOP_LEFT.at \div 4 = 1176 /\ VIVS_DE_CLIP_BOTTOM_RIGHT.at \div 4 = 1177
BY SMT DEF VIVS_DE_DEST_ADDRESS, VIVS_DE_DEST_STRIDE, VIVS_DE_DEST_ROTATION_CONFIG,
           VIVS_DE_DEST_CONFIG, VIVS_DE_CLIP_TOP_LEFT, VIVS_DE_CLIP_BOTTOM_RIGHT, Plain, Reg

\* Of a source.
LEMMA PlacesOfSource ==
  /\ VIVS_DE_SRC_ADDRESS.at \div 4 = 1152 /\ VIVS_DE_SRC_STRIDE.at \div 4 = 1153
  /\ VIVS_DE_SRC_ROTATION_CONFIG.at \div 4 = 1154 /\ VIVS_DE_SRC_CONFIG.at \div 4 = 1155
  /\ VIVS_DE_SRC_ORIGIN.at \div 4 = 1156 /\ VIVS_DE_SRC_SIZE.at \div 4 = 1157
  /\ VIVS_DE_SRC_COLOR_BG.at \div 4 = 1158 /\ VIVS_DE_SRC_COLOR_FG.at \div 4 = 1159
  /\ VIVS_DE_STRETCH_FACTOR_LOW.at \div 4 = 1160 /\ VIVS_DE_STRETCH_FACTOR_HIGH.at \div 4 = 1161
  /\ VIVS_DE_DE_MULTI_SOURCE.at \div 4 = 1218
BY SMT DEF VIVS_DE_SRC_ADDRESS, VIVS_DE_SRC_STRIDE, VIVS_DE_SRC_ROTATION_CONFIG,
           VIVS_DE_SRC_CONFIG, VIVS_DE_SRC_ORIGIN, VIVS_DE_SRC_SIZE, VIVS_DE_SRC_COLOR_BG,
           VIVS_DE_SRC_COLOR_FG, VIVS_DE_STRETCH_FACTOR_LOW, VIVS_DE_STRETCH_FACTOR_HIGH,
           VIVS_DE_DE_MULTI_SOURCE, Plain, Reg

\* Of the colors, the raster operation and the blend.
LEMMA PlacesOfColors ==
  /\ VIVS_DE_PATTERN_CONFIG.at \div 4 = 1167 /\ VIVS_DE_PATTERN_MASK_LOW.at \div 4 = 1170
  /\ VIVS_DE_PATTERN_MASK_HIGH.at \div 4 = 1171 /\ VIVS_DE_PATTERN_BG_COLOR.at \div 4 = 1172
  /\ VIVS_DE_PATTERN_FG_COLOR.at \div 4 = 1173 /\ VIVS_DE_ROP.at \div 4 = 1175
  /\ VIVS_DE_CLEAR_BYTE_MASK.at \div 4 = 1178 /\ VIVS_DE_CLEAR_PIXEL_VALUE_LOW.at \div 4 = 1180
  /\ VIVS_DE_CLEAR_PIXEL_VALUE_HIGH.at \div 4 = 1181
  /\ VIVS_DE_CLEAR_PIXEL_VALUE32.at \div 4 = 1200
  /\ VIVS_DE_ALPHA_CONTROL.at \div 4 = 1183 /\ VIVS_DE_ALPHA_MODES.at \div 4 = 1184
  /\ VIVS_DE_GLOBAL_SRC_COLOR.at \div 4 = 1202 /\ VIVS_DE_GLOBAL_DEST_COLOR.at \div 4 = 1203
  /\ VIVS_DE_COLOR_MULTIPLY_MODES.at \div 4 = 1204
BY SMT DEF VIVS_DE_PATTERN_CONFIG, VIVS_DE_PATTERN_MASK_LOW, VIVS_DE_PATTERN_MASK_HIGH,
           VIVS_DE_PATTERN_BG_COLOR, VIVS_DE_PATTERN_FG_COLOR, VIVS_DE_ROP,
           VIVS_DE_CLEAR_BYTE_MASK, VIVS_DE_CLEAR_PIXEL_VALUE_LOW,
           VIVS_DE_CLEAR_PIXEL_VALUE_HIGH, VIVS_DE_CLEAR_PIXEL_VALUE32, VIVS_DE_ALPHA_CONTROL,
           VIVS_DE_ALPHA_MODES, VIVS_DE_GLOBAL_SRC_COLOR, VIVS_DE_GLOBAL_DEST_COLOR,
           VIVS_DE_COLOR_MULTIPLY_MODES, Plain, Reg

\* Of a block.
LEMMA PlacesOfBlocks ==
  ASSUME NEW i \in 0 .. 7
  PROVE  /\ VIVS_DE_BLOCK8_SRC_ADDRESS(i).at \div 4 = 19072 + i
         /\ VIVS_DE_BLOCK8_SRC_STRIDE(i).at \div 4 = 19080 + i
         /\ VIVS_DE_BLOCK8_SRC_ROTATION_CONFIG(i).at \div 4 = 19088 + i
         /\ VIVS_DE_BLOCK8_SRC_CONFIG(i).at \div 4 = 19096 + i
         /\ VIVS_DE_BLOCK8_SRC_ORIGIN(i).at \div 4 = 19104 + i
         /\ VIVS_DE_BLOCK8_SRC_SIZE(i).at \div 4 = 19112 + i
         /\ VIVS_DE_BLOCK8_SRC_COLOR_BG(i).at \div 4 = 19120 + i
         /\ VIVS_DE_BLOCK8_ROP(i).at \div 4 = 19128 + i
         /\ VIVS_DE_BLOCK8_ALPHA_CONTROL(i).at \div 4 = 19136 + i
         /\ VIVS_DE_BLOCK8_ALPHA_MODES(i).at \div 4 = 19144 + i
         /\ VIVS_DE_BLOCK8_SRC_ROTATION_HEIGHT(i).at \div 4 = 19184 + i
         /\ VIVS_DE_BLOCK8_ROT_ANGLE(i).at \div 4 = 19192 + i
         /\ VIVS_DE_BLOCK8_GLOBAL_SRC_COLOR(i).at \div 4 = 19200 + i
         /\ VIVS_DE_BLOCK8_GLOBAL_DEST_COLOR(i).at \div 4 = 19208 + i
         /\ VIVS_DE_BLOCK8_COLOR_MULTIPLY_MODES(i).at \div 4 = 19216 + i
         /\ VIVS_DE_BLOCK8_SRC_COLOR_KEY_HIGH(i).at \div 4 = 19240 + i
<1>1. /\ VIVS_DE_BLOCK8_SRC_ADDRESS(i).at = 4 * (19072 + i)
      /\ VIVS_DE_BLOCK8_SRC_STRIDE(i).at = 4 * (19080 + i)
      /\ VIVS_DE_BLOCK8_SRC_ROTATION_CONFIG(i).at = 4 * (19088 + i)
      /\ VIVS_DE_BLOCK8_SRC_CONFIG(i).at = 4 * (19096 + i)
      /\ VIVS_DE_BLOCK8_SRC_ORIGIN(i).at = 4 * (19104 + i)
      /\ VIVS_DE_BLOCK8_SRC_SIZE(i).at = 4 * (19112 + i)
      /\ VIVS_DE_BLOCK8_SRC_COLOR_BG(i).at = 4 * (19120 + i)
      /\ VIVS_DE_BLOCK8_ROP(i).at = 4 * (19128 + i)
  BY SMT DEF VIVS_DE_BLOCK8_SRC_ADDRESS, VIVS_DE_BLOCK8_SRC_STRIDE,
             VIVS_DE_BLOCK8_SRC_ROTATION_CONFIG, VIVS_DE_BLOCK8_SRC_CONFIG,
             VIVS_DE_BLOCK8_SRC_ORIGIN, VIVS_DE_BLOCK8_SRC_SIZE, VIVS_DE_BLOCK8_SRC_COLOR_BG,
             VIVS_DE_BLOCK8_ROP, Block8, Reg
<1>2. /\ VIVS_DE_BLOCK8_ALPHA_CONTROL(i).at = 4 * (19136 + i)
      /\ VIVS_DE_BLOCK8_ALPHA_MODES(i).at = 4 * (19144 + i)
      /\ VIVS_DE_BLOCK8_SRC_ROTATION_HEIGHT(i).at = 4 * (19184 + i)
      /\ VIVS_DE_BLOCK8_ROT_ANGLE(i).at = 4 * (19192 + i)
      /\ VIVS_DE_BLOCK8_GLOBAL_SRC_COLOR(i).at = 4 * (19200 + i)
      /\ VIVS_DE_BLOCK8_GLOBAL_DEST_COLOR(i).at = 4 * (19208 + i)
      /\ VIVS_DE_BLOCK8_COLOR_MULTIPLY_MODES(i).at = 4 * (19216 + i)
      /\ VIVS_DE_BLOCK8_SRC_COLOR_KEY_HIGH(i).at = 4 * (19240 + i)
  BY SMT DEF VIVS_DE_BLOCK8_ALPHA_CONTROL, VIVS_DE_BLOCK8_ALPHA_MODES,
             VIVS_DE_BLOCK8_SRC_ROTATION_HEIGHT, VIVS_DE_BLOCK8_ROT_ANGLE,
             VIVS_DE_BLOCK8_GLOBAL_SRC_COLOR, VIVS_DE_BLOCK8_GLOBAL_DEST_COLOR,
             VIVS_DE_BLOCK8_COLOR_MULTIPLY_MODES, VIVS_DE_BLOCK8_SRC_COLOR_KEY_HIGH, Block8, Reg
<1>3. \A k \in Nat : (4 * k) \div 4 = k
  BY SMT
<1>4. \A k \in Nat : k + i \in Nat
  OBVIOUS
<1>. QED BY ONLY <1>1, <1>2, <1>3, <1>4, SMT

\* Each group has a zone of its own.
LEMMA DestZoned ==
  ASSUME NEW o
  PROVE  Zoned(DestSet(o), 1162 .. 1165)
<1>. DEFINE a == At(VIVS_DE_DEST_ADDRESS, GpuAddress[o.dst])
            b == At(VIVS_DE_DEST_STRIDE, Bits(surf[o.dst].pitch))
            c == At(VIVS_DE_DEST_ROTATION_CONFIG, {})
            d == AtFields(VIVS_DE_DEST_CONFIG, DestConfig(o))
<1>1. /\ Zoned(a, {VIVS_DE_DEST_ADDRESS.at \div 4})
      /\ Zoned(b, {VIVS_DE_DEST_STRIDE.at \div 4})
      /\ Zoned(c, {VIVS_DE_DEST_ROTATION_CONFIG.at \div 4})
      /\ Zoned(d, {VIVS_DE_DEST_CONFIG.at \div 4})
  BY ONLY ZonedAt, ValuesAreRegs, SizesAreRegs, ConfigsFit, Zenon
<1>2. DestSet(o) = a \cup b \cup c \cup d
  BY ONLY TRUE, Zenon DEF DestSet
<1>. HIDE DEF a, b, c, d
<1>3. /\ Zoned(a, {1162})
      /\ Zoned(b, {1163})
      /\ Zoned(c, {1164})
      /\ Zoned(d, {1165})
  BY ONLY <1>1, PlacesOfDest, SMT DEF Zoned
<1>4. Zoned(a \cup b \cup c \cup d, 1162 .. 1165)
  BY ONLY <1>3, SMT DEF Zoned, Sole
<1>. QED BY ONLY <1>2, <1>4

\* The clip rectangle.
LEMMA ClipZoned ==
  ASSUME NEW o
  PROVE  Zoned(ClipSet(o), 1176 .. 1177)
<1>. DEFINE a == AtFields(VIVS_DE_CLIP_TOP_LEFT, [X |-> Bits(o.clip.x), Y |-> Bits(o.clip.y)])
            b == AtFields(VIVS_DE_CLIP_BOTTOM_RIGHT,
                          [X |-> Bits(o.clip.x + o.clip.width),
                           Y |-> Bits(o.clip.y + o.clip.height)])
<1>1. /\ Zoned(a, {VIVS_DE_CLIP_TOP_LEFT.at \div 4})
      /\ Zoned(b, {VIVS_DE_CLIP_BOTTOM_RIGHT.at \div 4})
  BY ONLY ZonedAt, ValuesAreRegs, SizesAreRegs, ConfigsFit, Zenon
<1>2. ClipSet(o) = a \cup b
  BY ONLY TRUE, Zenon DEF ClipSet
<1>. HIDE DEF a, b
<1>3. /\ Zoned(a, {1176})
      /\ Zoned(b, {1177})
  BY ONLY <1>1, PlacesOfDest, SMT DEF Zoned
<1>4. Zoned(a \cup b, 1176 .. 1177)
  BY ONLY <1>3, SMT DEF Zoned, Sole
<1>. QED BY ONLY <1>2, <1>4

\* The source.
LEMMA SourceZoned ==
  ASSUME NEW o
  PROVE  Zoned(SourceSet(o), 1152 .. 1159)
<1>. DEFINE a == At(VIVS_DE_SRC_ADDRESS, GpuAddress[o.srcs[1]])
            b == At(VIVS_DE_SRC_STRIDE, Bits(surf[o.srcs[1]].pitch))
            c == At(VIVS_DE_SRC_ROTATION_CONFIG, {})
            d == AtFields(VIVS_DE_SRC_CONFIG, SourceConfig(o.srcs[1]))
            e == AtFields(VIVS_DE_SRC_ORIGIN, [X |-> o.src_x, Y |-> o.src_y])
            f == AtFields(VIVS_DE_SRC_SIZE, SizeOf(o.srcs[1]))
<1>1. /\ Zoned(a, {VIVS_DE_SRC_ADDRESS.at \div 4})
      /\ Zoned(b, {VIVS_DE_SRC_STRIDE.at \div 4})
      /\ Zoned(c, {VIVS_DE_SRC_ROTATION_CONFIG.at \div 4})
      /\ Zoned(d, {VIVS_DE_SRC_CONFIG.at \div 4})
      /\ Zoned(e, {VIVS_DE_SRC_ORIGIN.at \div 4})
      /\ Zoned(f, {VIVS_DE_SRC_SIZE.at \div 4})
  BY ONLY ZonedAt, ValuesAreRegs, SizesAreRegs, ConfigsFit, Zenon
<1>2. SourceSet(o) = a \cup b \cup c \cup d \cup e \cup f
  BY ONLY TRUE, Zenon DEF SourceSet
<1>. HIDE DEF a, b, c, d, e, f
<1>3. /\ Zoned(a, {1152})
      /\ Zoned(b, {1153})
      /\ Zoned(c, {1154})
      /\ Zoned(d, {1155})
      /\ Zoned(e, {1156})
      /\ Zoned(f, {1157})
  BY ONLY <1>1, PlacesOfSource, SMT DEF Zoned
<1>4. Zoned(a \cup b \cup c \cup d \cup e \cup f, 1152 .. 1159)
  BY ONLY <1>3, SMT DEF Zoned, Sole
<1>. QED BY ONLY <1>2, <1>4

\* The steps of a stretch.
LEMMA StretchZoned ==
  ASSUME NEW o
  PROVE  Zoned(StretchSet(o), 1160 .. 1161)
<1>. DEFINE a == AtFields(VIVS_DE_STRETCH_FACTOR_LOW,
                          [X |-> Bits(StretchFactor(surf[o.srcs[1]].width, surf[o.dst].width))])
            b == AtFields(VIVS_DE_STRETCH_FACTOR_HIGH,
                          [Y |-> Bits(StretchFactor(surf[o.srcs[1]].height, surf[o.dst].height))])
<1>1. /\ Zoned(a, {VIVS_DE_STRETCH_FACTOR_LOW.at \div 4})
      /\ Zoned(b, {VIVS_DE_STRETCH_FACTOR_HIGH.at \div 4})
  BY ONLY ZonedAt, ValuesAreRegs, SizesAreRegs, ConfigsFit, Zenon
<1>2. StretchSet(o) = a \cup b
  BY ONLY TRUE, Zenon DEF StretchSet
<1>. HIDE DEF a, b
<1>3. /\ Zoned(a, {1160})
      /\ Zoned(b, {1161})
  BY ONLY <1>1, PlacesOfSource, SMT DEF Zoned
<1>4. Zoned(a \cup b, 1160 .. 1161)
  BY ONLY <1>3, SMT DEF Zoned, Sole
<1>. QED BY ONLY <1>2, <1>4

\* The pattern.
LEMMA PatternZoned ==
  ASSUME NEW o
  PROVE  Zoned(PatternSet(o), 1167 .. 1173)
<1>. DEFINE a == At(VIVS_DE_PATTERN_MASK_LOW, All1)
            b == At(VIVS_DE_PATTERN_MASK_HIGH, All1)
            c == At(VIVS_DE_PATTERN_BG_COLOR, {})
            d == At(VIVS_DE_PATTERN_FG_COLOR, o.color)
            e == AtFields(VIVS_DE_PATTERN_CONFIG, [INIT_TRIGGER |-> Bits(3)])
<1>1. /\ Zoned(a, {VIVS_DE_PATTERN_MASK_LOW.at \div 4})
      /\ Zoned(b, {VIVS_DE_PATTERN_MASK_HIGH.at \div 4})
      /\ Zoned(c, {VIVS_DE_PATTERN_BG_COLOR.at \div 4})
      /\ Zoned(d, {VIVS_DE_PATTERN_FG_COLOR.at \div 4})
      /\ Zoned(e, {VIVS_DE_PATTERN_CONFIG.at \div 4})
  BY ONLY ZonedAt, ValuesAreRegs, SizesAreRegs, ConfigsFit, Zenon
<1>2. PatternSet(o) = a \cup b \cup c \cup d \cup e
  BY ONLY TRUE, Zenon DEF PatternSet
<1>. HIDE DEF a, b, c, d, e
<1>3. /\ Zoned(a, {1170})
      /\ Zoned(b, {1171})
      /\ Zoned(c, {1172})
      /\ Zoned(d, {1173})
      /\ Zoned(e, {1167})
  BY ONLY <1>1, PlacesOfColors, SMT DEF Zoned
<1>4. Zoned(a \cup b \cup c \cup d \cup e, 1167 .. 1173)
  BY ONLY <1>3, SMT DEF Zoned, Sole
<1>. QED BY ONLY <1>2, <1>4

\* The raster operation.
LEMMA RopZoned ==
  ASSUME NEW o
  PROVE  Zoned(RopSet(o), 1175 .. 1175)
<1>. DEFINE a == AtFields(VIVS_DE_ROP, RopConfig(o))
<1>1. /\ Zoned(a, {VIVS_DE_ROP.at \div 4})
  BY ONLY ZonedAt, ValuesAreRegs, SizesAreRegs, ConfigsFit, Zenon
<1>2. RopSet(o) = a
  BY ONLY TRUE, Zenon DEF RopSet
<1>. HIDE DEF a
<1>3. /\ Zoned(a, {1175})
  BY ONLY <1>1, PlacesOfColors, SMT DEF Zoned
<1>4. Zoned(a, 1175 .. 1175)
  BY ONLY <1>3, SMT DEF Zoned, Sole
<1>. QED BY ONLY <1>2, <1>4

\* The color of a clear.
LEMMA ClearZoned ==
  ASSUME NEW o
  PROVE  Zoned(ClearSet(o), {1178, 1180, 1181, 1200})
<1>. DEFINE a == At(VIVS_DE_CLEAR_PIXEL_VALUE32, o.color)
            b == At(VIVS_DE_CLEAR_BYTE_MASK, Bits(255))
            c == At(VIVS_DE_CLEAR_PIXEL_VALUE_LOW, o.color)
            d == At(VIVS_DE_CLEAR_PIXEL_VALUE_HIGH, o.color)
<1>1. /\ Zoned(a, {VIVS_DE_CLEAR_PIXEL_VALUE32.at \div 4})
      /\ Zoned(b, {VIVS_DE_CLEAR_BYTE_MASK.at \div 4})
      /\ Zoned(c, {VIVS_DE_CLEAR_PIXEL_VALUE_LOW.at \div 4})
      /\ Zoned(d, {VIVS_DE_CLEAR_PIXEL_VALUE_HIGH.at \div 4})
  BY ONLY ZonedAt, ValuesAreRegs, SizesAreRegs, ConfigsFit, Zenon
<1>2. ClearSet(o) = a \cup b \cup c \cup d
  BY ONLY TRUE, Zenon DEF ClearSet
<1>. HIDE DEF a, b, c, d
<1>3. /\ Zoned(a, {1200})
      /\ Zoned(b, {1178})
      /\ Zoned(c, {1180})
      /\ Zoned(d, {1181})
  BY ONLY <1>1, PlacesOfColors, SMT DEF Zoned
<1>4. Zoned(a \cup b \cup c \cup d, {1178, 1180, 1181, 1200})
  BY ONLY <1>3, SMT DEF Zoned, Sole
<1>. QED BY ONLY <1>2, <1>4

\* The blending, when there is one and when there is none.
LEMMA BlendZoned ==
  ASSUME NEW o
  PROVE  Zoned(BlendSet(o), {1183, 1184, 1202, 1203, 1204})
<1>. DEFINE a == AtFields(VIVS_DE_ALPHA_CONTROL,
                          [ENABLE |-> {0}, PE10_GLOBAL_SRC_ALPHA |-> Bits(o.src_alpha),
                           PE10_GLOBAL_DST_ALPHA |-> Bits(o.dst_alpha)])
            b == AtFields(VIVS_DE_ALPHA_MODES, BlendModes(o))
            c == At(VIVS_DE_GLOBAL_SRC_COLOR, Color24(o.src_alpha))
            d == At(VIVS_DE_GLOBAL_DEST_COLOR, Color24(o.dst_alpha))
            e == AtFields(VIVS_DE_COLOR_MULTIPLY_MODES,
                          [SRC_PREMULTIPLY |-> {}, DST_PREMULTIPLY |-> {},
                           SRC_GLOBAL_PREMULTIPLY |-> {}, DST_DEMULTIPLY |-> {}])
<1>1. /\ Zoned(a, {VIVS_DE_ALPHA_CONTROL.at \div 4})
      /\ Zoned(b, {VIVS_DE_ALPHA_MODES.at \div 4})
      /\ Zoned(c, {VIVS_DE_GLOBAL_SRC_COLOR.at \div 4})
      /\ Zoned(d, {VIVS_DE_GLOBAL_DEST_COLOR.at \div 4})
      /\ Zoned(e, {VIVS_DE_COLOR_MULTIPLY_MODES.at \div 4})
  BY ONLY ZonedAt, ValuesAreRegs, SizesAreRegs, ConfigsFit, Zenon
<1>2. BlendSet(o) = a \cup b \cup c \cup d \cup e
  BY ONLY TRUE, Zenon DEF BlendSet
<1>. HIDE DEF a, b, c, d, e
<1>3. /\ Zoned(a, {1183})
      /\ Zoned(b, {1184})
      /\ Zoned(c, {1202})
      /\ Zoned(d, {1203})
      /\ Zoned(e, {1204})
  BY ONLY <1>1, PlacesOfColors, SMT DEF Zoned
<1>4. Zoned(a \cup b \cup c \cup d \cup e, {1183, 1184, 1202, 1203, 1204})
  BY ONLY <1>3, SMT DEF Zoned, Sole
<1>. QED BY ONLY <1>2, <1>4

\* The registers of no blend.
NoAlphaSet ==
  At(VIVS_DE_ALPHA_CONTROL, {}) \cup At(VIVS_DE_ALPHA_MODES, {})
  \cup At(VIVS_DE_GLOBAL_SRC_COLOR, {}) \cup At(VIVS_DE_GLOBAL_DEST_COLOR, {})
  \cup At(VIVS_DE_COLOR_MULTIPLY_MODES, {})

\* They are apart as well.
LEMMA NoAlphaZoned == Zoned(NoAlphaSet, {1183, 1184, 1202, 1203, 1204})
<1>. DEFINE a == At(VIVS_DE_ALPHA_CONTROL, {})
            b == At(VIVS_DE_ALPHA_MODES, {})
            c == At(VIVS_DE_GLOBAL_SRC_COLOR, {})
            d == At(VIVS_DE_GLOBAL_DEST_COLOR, {})
            e == At(VIVS_DE_COLOR_MULTIPLY_MODES, {})
<1>1. /\ Zoned(a, {VIVS_DE_ALPHA_CONTROL.at \div 4})
      /\ Zoned(b, {VIVS_DE_ALPHA_MODES.at \div 4})
      /\ Zoned(c, {VIVS_DE_GLOBAL_SRC_COLOR.at \div 4})
      /\ Zoned(d, {VIVS_DE_GLOBAL_DEST_COLOR.at \div 4})
      /\ Zoned(e, {VIVS_DE_COLOR_MULTIPLY_MODES.at \div 4})
  BY ONLY ZonedAt, ValuesAreRegs, SizesAreRegs, ConfigsFit, Zenon
<1>2. NoAlphaSet = a \cup b \cup c \cup d \cup e
  BY ONLY TRUE, Zenon DEF NoAlphaSet
<1>. HIDE DEF a, b, c, d, e
<1>3. /\ Zoned(a, {1183})
      /\ Zoned(b, {1184})
      /\ Zoned(c, {1202})
      /\ Zoned(d, {1203})
      /\ Zoned(e, {1204})
  BY ONLY <1>1, PlacesOfColors, SMT DEF Zoned
<1>4. Zoned(a \cup b \cup c \cup d \cup e, {1183, 1184, 1202, 1203, 1204})
  BY ONLY <1>3, SMT DEF Zoned, Sole
<1>. QED BY ONLY <1>2, <1>4

\* The registers of a blend, or of none.
LEMMA AlphaZoned ==
  ASSUME NEW o
  PROVE  Zoned(AlphaSet(o), {1183, 1184, 1202, 1203, 1204})
<1>1. AlphaSet(o) = IF o.blend # NoBlend THEN BlendSet(o.blend) ELSE NoAlphaSet
  BY ONLY TRUE, Zenon DEF AlphaSet, NoAlphaSet
<1>. QED BY ONLY <1>1, BlendZoned, NoAlphaZoned

\* An operation without a source.
LEMMA NoSourceZoned ==
  ASSUME NEW o
  PROVE  Zoned(NoSourceSet(o), 1152 .. 1159)
<1>. DEFINE mono == o.cmd = "mono_blit"
            a == At(VIVS_DE_SRC_STRIDE, IF mono THEN o.data_pitch ELSE {})
            b == At(VIVS_DE_SRC_ROTATION_CONFIG, {})
            c == IF mono THEN AtFields(VIVS_DE_SRC_CONFIG, MonoConfig)
                 ELSE At(VIVS_DE_SRC_CONFIG, {})
            d == At(VIVS_DE_SRC_ORIGIN, {})
            e == At(VIVS_DE_SRC_SIZE, {})
            f == At(VIVS_DE_SRC_COLOR_BG, MonoBackground)
            g == At(VIVS_DE_SRC_COLOR_FG, All1)
            h == IF mono THEN f \cup g ELSE {}
<1>1. /\ Zoned(a, {VIVS_DE_SRC_STRIDE.at \div 4})
      /\ Zoned(b, {VIVS_DE_SRC_ROTATION_CONFIG.at \div 4})
      /\ Zoned(c, {VIVS_DE_SRC_CONFIG.at \div 4})
      /\ Zoned(d, {VIVS_DE_SRC_ORIGIN.at \div 4})
      /\ Zoned(e, {VIVS_DE_SRC_SIZE.at \div 4})
      /\ Zoned(f, {VIVS_DE_SRC_COLOR_BG.at \div 4})
      /\ Zoned(g, {VIVS_DE_SRC_COLOR_FG.at \div 4})
  BY ONLY ZonedAt, ValuesAreRegs, SizesAreRegs, ConfigsFit, Zenon
<1>2. NoSourceSet(o) = a \cup b \cup c \cup (d \cup e) \cup h
  BY ONLY TRUE, Zenon DEF NoSourceSet
<1>. HIDE DEF a, b, c, d, e, f, g, mono
<1>3. /\ Zoned(a, {1153}) /\ Zoned(b, {1154}) /\ Zoned(c, {1155}) /\ Zoned(d, {1156})
      /\ Zoned(e, {1157}) /\ Zoned(f, {1158}) /\ Zoned(g, {1159})
  BY ONLY <1>1, PlacesOfSource, SMT DEF Zoned
<1>4. Zoned(h, {1158, 1159})
  BY ONLY <1>3, SMT DEF Zoned, Sole
<1>. HIDE DEF h
<1>5. Zoned(a \cup b \cup c \cup (d \cup e) \cup h, 1152 .. 1159)
  BY ONLY <1>3, <1>4, SMT DEF Zoned, Sole
<1>. QED BY ONLY <1>2, <1>5

\* The registers of block i are i behind a multiple of eight.
BlockZone(i, first, last) == {a \in Nat : first <= a /\ a <= last /\ a % 8 = i}

\* Where the registers of its source are.
BlockSourceZone(i) ==
  BlockZone(i, 19072, 19135) \cup BlockZone(i, 19184, 19199) \cup BlockZone(i, 19240, 19247)

\* Its source, in three parts,
LEMMA BlockSourceZoned ==
  ASSUME NEW o, NEW s, NEW i \in 0 .. 7
  PROVE  Zoned(BlockSourceSet(o, s, i), BlockSourceZone(i))
<1>. DEFINE a == At(VIVS_DE_BLOCK8_SRC_ADDRESS(i), GpuAddress[s])
            b == At(VIVS_DE_BLOCK8_SRC_STRIDE(i), Bits(surf[s].pitch))
            c == AtFields(VIVS_DE_BLOCK8_SRC_ROTATION_CONFIG(i), [WIDTH |-> Bits(surf[s].width)])
            d == AtFields(VIVS_DE_BLOCK8_SRC_CONFIG(i), SourceConfig(s))
            e == At(VIVS_DE_BLOCK8_SRC_COLOR_BG(i), All1)
            f == At(VIVS_DE_BLOCK8_SRC_COLOR_KEY_HIGH(i), All1)
            g == AtFields(VIVS_DE_BLOCK8_SRC_ORIGIN(i), [X |-> o.src_x, Y |-> o.src_y])
            h == AtFields(VIVS_DE_BLOCK8_SRC_SIZE(i), SizeOf(s))
            j == AtFields(VIVS_DE_BLOCK8_SRC_ROTATION_HEIGHT(i), [HEIGHT |-> Bits(surf[s].height)])
            k == AtFields(VIVS_DE_BLOCK8_ROT_ANGLE(i), [SRC |-> {}, DST |-> {}])
            l == AtFields(VIVS_DE_BLOCK8_ROP(i),
                          [ROP_FG |-> Bits(ROP_SRC), ROP_BG |-> Bits(ROP_SRC),
                           TYPE |-> Bits(ROP_TYPE.ROP4)])
<1>1. /\ Zoned(a, {VIVS_DE_BLOCK8_SRC_ADDRESS(i).at \div 4})
      /\ Zoned(b, {VIVS_DE_BLOCK8_SRC_STRIDE(i).at \div 4})
      /\ Zoned(c, {VIVS_DE_BLOCK8_SRC_ROTATION_CONFIG(i).at \div 4})
      /\ Zoned(d, {VIVS_DE_BLOCK8_SRC_CONFIG(i).at \div 4})
      /\ Zoned(e, {VIVS_DE_BLOCK8_SRC_COLOR_BG(i).at \div 4})
      /\ Zoned(f, {VIVS_DE_BLOCK8_SRC_COLOR_KEY_HIGH(i).at \div 4})
      /\ Zoned(g, {VIVS_DE_BLOCK8_SRC_ORIGIN(i).at \div 4})
      /\ Zoned(h, {VIVS_DE_BLOCK8_SRC_SIZE(i).at \div 4})
      /\ Zoned(j, {VIVS_DE_BLOCK8_SRC_ROTATION_HEIGHT(i).at \div 4})
      /\ Zoned(k, {VIVS_DE_BLOCK8_ROT_ANGLE(i).at \div 4})
      /\ Zoned(l, {VIVS_DE_BLOCK8_ROP(i).at \div 4})
  BY ONLY i \in 0 .. 7, ZonedAt, BlocksAreRegs, Zenon
<1>2. BlockSourceSet(o, s, i) =
        a \cup b \cup c \cup d \cup e \cup f \cup g \cup h \cup j \cup k \cup l
  BY ONLY TRUE, Zenon DEF BlockSourceSet
<1>. HIDE DEF a, b, c, d, e, f, g, h, j, k, l
<1>3. /\ Zoned(a, {19072 + i})
      /\ Zoned(b, {19080 + i})
      /\ Zoned(c, {19088 + i})
      /\ Zoned(d, {19096 + i})
      /\ Zoned(e, {19120 + i})
      /\ Zoned(f, {19240 + i})
      /\ Zoned(g, {19104 + i})
      /\ Zoned(h, {19112 + i})
      /\ Zoned(j, {19184 + i})
      /\ Zoned(k, {19192 + i})
      /\ Zoned(l, {19128 + i})
  BY ONLY i \in 0 .. 7, <1>1, PlacesOfBlocks, SMT DEF Zoned
<1>4. Zoned(a \cup b \cup c \cup d \cup e \cup f \cup g \cup h \cup j \cup k \cup l,
            BlockSourceZone(i))
  BY ONLY i \in 0 .. 7, <1>3, SMT DEF Zoned, Sole, BlockZone, BlockSourceZone
<1>. QED BY ONLY <1>2, <1>4

\* Its blending,
LEMMA BlockBlendZoned ==
  ASSUME NEW o, NEW i \in 0 .. 7
  PROVE  Zoned(BlockBlendSet(o, i), BlockZone(i, 19136, 19151))
<1>. DEFINE C == VIVS_DE_BLOCK8_ALPHA_CONTROL(i).at \div 4
            M == VIVS_DE_BLOCK8_ALPHA_MODES(i).at \div 4
            a == AtFields(VIVS_DE_BLOCK8_ALPHA_CONTROL(i),
                          [ENABLE |-> {0}, PE10_GLOBAL_SRC_ALPHA |-> Bits(o.blend.src_alpha),
                           PE10_GLOBAL_DST_ALPHA |-> Bits(o.blend.dst_alpha)])
            b == AtFields(VIVS_DE_BLOCK8_ALPHA_MODES(i),
                          [SRC_BLENDING_MODE |-> Bits(DE_BLENDMODE.ONE),
                           DST_BLENDING_MODE |-> Bits(DE_BLENDMODE.INVERSED)])
            c == At(VIVS_DE_BLOCK8_ALPHA_CONTROL(i), {})
            d == At(VIVS_DE_BLOCK8_ALPHA_MODES(i), {})
<1>1. Zoned(a, {C}) /\ Zoned(b, {M}) /\ Zoned(c, {C}) /\ Zoned(d, {M})
  BY ONLY i \in 0 .. 7, ZonedAt, BlocksAreRegs, Zenon
<1>2. BlockBlendSet(o, i) = IF o.blend # NoBlend THEN a \cup b ELSE c \cup d
  BY ONLY TRUE, Zenon DEF BlockBlendSet
<1>3. C = 19136 + i /\ M = 19144 + i
  BY ONLY i \in 0 .. 7, PlacesOfBlocks
<1>. HIDE DEF a, b, c, d, C, M
<1>4. Zoned(a \cup b, BlockZone(i, 19136, 19151)) /\ Zoned(c \cup d, BlockZone(i, 19136, 19151))
  BY ONLY i \in 0 .. 7, <1>1, <1>3, SMT DEF Zoned, Sole, BlockZone
<1>. QED BY ONLY <1>2, <1>4

\* its colors,
LEMMA BlockColorZoned ==
  ASSUME NEW i \in 0 .. 7
  PROVE  Zoned(BlockColorSet(i), BlockZone(i, 19200, 19223))
<1>. DEFINE a == At(VIVS_DE_BLOCK8_GLOBAL_SRC_COLOR(i), {})
            b == At(VIVS_DE_BLOCK8_GLOBAL_DEST_COLOR(i), {})
            c == At(VIVS_DE_BLOCK8_COLOR_MULTIPLY_MODES(i), {})
<1>1. /\ Zoned(a, {VIVS_DE_BLOCK8_GLOBAL_SRC_COLOR(i).at \div 4})
      /\ Zoned(b, {VIVS_DE_BLOCK8_GLOBAL_DEST_COLOR(i).at \div 4})
      /\ Zoned(c, {VIVS_DE_BLOCK8_COLOR_MULTIPLY_MODES(i).at \div 4})
  BY ONLY i \in 0 .. 7, ZonedAt, BlocksAreRegs, Zenon
<1>2. BlockColorSet(i) = a \cup b \cup c
  BY ONLY TRUE, Zenon DEF BlockColorSet
<1>. HIDE DEF a, b, c
<1>3. Zoned(a, {19200 + i}) /\ Zoned(b, {19208 + i}) /\ Zoned(c, {19216 + i})
  BY ONLY i \in 0 .. 7, <1>1, PlacesOfBlocks, SMT DEF Zoned
<1>4. Zoned(a \cup b \cup c, BlockZone(i, 19200, 19223))
  BY ONLY i \in 0 .. 7, <1>3, SMT DEF Zoned, Sole, BlockZone
<1>. QED BY ONLY <1>2, <1>4

\* and all of it.
LEMMA BlockZoned ==
  ASSUME NEW o, NEW s, NEW i \in 0 .. 7
  PROVE  Zoned(BlockSet(o, s, i), BlockZone(i, 19072, 19247))
<1>. DEFINE a == BlockSourceSet(o, s, i)
            b == BlockBlendSet(o, i)
            c == BlockColorSet(i)
<1>1. /\ Zoned(a, BlockSourceZone(i)) /\ Zoned(b, BlockZone(i, 19136, 19151))
      /\ Zoned(c, BlockZone(i, 19200, 19223))
  <2>1. Zoned(a, BlockSourceZone(i))
    BY ONLY i \in 0 .. 7, BlockSourceZoned, SMT
  <2>2. Zoned(b, BlockZone(i, 19136, 19151))
    BY ONLY i \in 0 .. 7, BlockBlendZoned, SMT
  <2>3. Zoned(c, BlockZone(i, 19200, 19223))
    BY ONLY i \in 0 .. 7, BlockColorZoned, SMT
  <2>. QED BY ONLY <2>1, <2>2, <2>3
<1>2. BlockSet(o, s, i) = a \cup b \cup c
  BY ONLY TRUE, Zenon DEF BlockSet
<1>. HIDE DEF a, b, c
<1>3. \A x \in a, y \in b : Offset(x) # Offset(y)
  BY ONLY <1>1, SMT DEF Zoned, BlockZone, BlockSourceZone
<1>4. \A x \in a, y \in c : Offset(x) # Offset(y)
  BY ONLY <1>1, SMT DEF Zoned, BlockZone, BlockSourceZone
<1>5. \A x \in b, y \in c : Offset(x) # Offset(y)
  BY ONLY <1>1, SMT DEF Zoned, BlockZone, BlockSourceZone
<1>6. Sole(a \cup b \cup c)
  BY ONLY <1>1, <1>3, <1>4, <1>5, SMT DEF Zoned, Sole
<1>7. \A x \in a \cup b \cup c : IsAt(x[1]) /\ Offset(x) \in BlockZone(i, 19072, 19247)
  BY ONLY <1>1, SMT DEF Zoned, BlockZone, BlockSourceZone
<1>. QED BY ONLY <1>2, <1>6, <1>7 DEF Zoned

\* The blocks do not touch each other.
MultiZone == {1218} \cup (19072 .. 19247)

\* So together they are in one zone.
LEMMA MultiZoned ==
  ASSUME NEW o, Len(o.srcs) \in Nat, Len(o.srcs) <= 8
  PROVE  Zoned(MultiSet(o), MultiZone)
<1>. PICK n \in Nat : n = Len(o.srcs) /\ n <= 8
  OBVIOUS
<1>. DEFINE S == [i \in 1 .. n |-> BlockSet(o, o.srcs[i], i - 1)]
            m == AtFields(VIVS_DE_DE_MULTI_SOURCE, MultiConfig(o))
<1>1. ASSUME NEW i \in 1 .. n
      PROVE  Zoned(S[i], BlockZone(i - 1, 19072, 19247))
  <2>1. i - 1 \in 0 .. 7
    OBVIOUS
  <2>2. S[i] = BlockSet(o, o.srcs[i], i - 1)
    OBVIOUS
  <2>. QED BY ONLY <2>1, <2>2, BlockZoned
<1>2. MultiSet(o) = AllOf(S, n) \cup m
  BY ONLY n = Len(o.srcs), Zenon DEF MultiSet
<1>3. Zoned(m, {VIVS_DE_DE_MULTI_SOURCE.at \div 4})
  BY ONLY ZonedAt, ConfigsFit, Zenon
<1>. HIDE DEF S, m
<1>4. Zoned(m, {1218})
  BY ONLY <1>3, PlacesOfSource, SMT DEF Zoned
<1>5. \A x \in AllOf(S, n) : \E i \in 1 .. n : x \in S[i]
  BY ONLY TRUE DEF AllOf
<1>6. ASSUME NEW x \in AllOf(S, n), NEW y \in AllOf(S, n), Offset(x) = Offset(y)
      PROVE  x[2] = y[2]
  <2>1. PICK i \in 1 .. n : x \in S[i]
    BY ONLY <1>5
  <2>2. PICK j \in 1 .. n : y \in S[j]
    BY ONLY <1>5
  <2>3. Offset(x) % 8 = i - 1 /\ Offset(y) % 8 = j - 1
    BY ONLY <1>1, <2>1, <2>2, SMT DEF Zoned, BlockZone, BlockSourceZone
  <2>4. i = j
    BY ONLY <1>6, <2>3, n \in Nat
  <2>. QED BY ONLY <1>1, <1>6, <2>1, <2>2, <2>4 DEF Zoned, Sole
<1>7. \A x \in AllOf(S, n) : IsAt(x[1]) /\ Offset(x) \in 19072 .. 19247
  BY ONLY <1>1, <1>5, SMT DEF Zoned, BlockZone, BlockSourceZone
<1>8. Zoned(AllOf(S, n), 19072 .. 19247)
  BY ONLY <1>6, <1>7 DEF Zoned, Sole
<1>9. {1218} \cap (19072 .. 19247) = {}
  BY SMT
<1>. HIDE DEF Zoned
<1>. QED BY ONLY <1>2, <1>4, <1>8, <1>9, SMT DEF Zoned, Sole, MultiZone

\* The writes of an operation touch every register once.
LEMMA ProgramZoned ==
  ASSUME NEW o \in Ops, Len(o.srcs) <= 8
  PROVE  Sole(ProgramSet(o)) /\ \A x \in ProgramSet(o) : IsAt(x[1])
<1>. DEFINE multi == o.cmd = "multsrcblt"
            a == DestSet(o)
            b == ClipSet(o)
            c == IF multi THEN MultiSet(o) ELSE IF o.srcs # <<>> THEN SourceSet(o)
                 ELSE NoSourceSet(o)
            d == WhenSet(o.cmd = "stretchblt", StretchSet(o))
            e == WhenSet(o.pat_fill, PatternSet(o))
            f == WhenSet(~multi, RopSet(o))
            g == WhenSet(o.cmd \in {"clear", "mono_blit"}, ClearSet(o))
            h == WhenSet(~multi, AlphaSet(o))
            Z == (1152 .. 1159) \cup MultiZone
<1>1. ProgramSet(o) = a \cup b \cup c \cup d \cup e \cup f \cup g \cup h
  BY ONLY TRUE, Zenon DEF ProgramSet
<1>2. \A cond, S, Y : Zoned(S, Y) => Zoned(WhenSet(cond, S), Y)
  BY ZonedNothing DEF WhenSet
<1>3. Zoned(a, 1162 .. 1165) /\ Zoned(b, 1176 .. 1177)
  BY DestZoned, ClipZoned
<1>4. Zoned(c, Z)
  <2>1. Len(o.srcs) \in Nat
    BY DEF Ops
  <2>2. Zoned(MultiSet(o), MultiZone)
    BY ONLY <2>1, Len(o.srcs) <= 8, MultiZoned, SMT
  <2>3. Zoned(SourceSet(o), 1152 .. 1159) /\ Zoned(NoSourceSet(o), 1152 .. 1159)
    BY SourceZoned, NoSourceZoned
  <2>4. MultiZone \subseteq Z /\ 1152 .. 1159 \subseteq Z
    BY SMT DEF MultiZone
  <2>5. Zoned(MultiSet(o), Z) /\ Zoned(SourceSet(o), Z) /\ Zoned(NoSourceSet(o), Z)
    BY ONLY <2>2, <2>3, <2>4, SMT DEF Zoned
  <2>. HIDE DEF Z
  <2>. QED BY ONLY <2>5, Zenon
<1>5. Zoned(d, 1160 .. 1161) /\ Zoned(e, 1167 .. 1173) /\ Zoned(f, 1175 .. 1175)
  BY <1>2, StretchZoned, PatternZoned, RopZoned
<1>6. Zoned(g, {1178, 1180, 1181, 1200}) /\ Zoned(h, {1183, 1184, 1202, 1203, 1204})
  BY <1>2, ClearZoned, AlphaZoned
<1>. HIDE DEF a, b, c, d, e, f, g, h
<1>7. Zoned(a \cup b, (1162 .. 1165) \cup (1176 .. 1177))
  BY ONLY <1>3, SMT DEF Zoned, Sole
<1>8. Zoned(a \cup b \cup c, (1162 .. 1165) \cup (1176 .. 1177) \cup Z)
  BY ONLY <1>7, <1>4, SMT DEF Zoned, Sole, MultiZone
<1>9. /\ Zoned(d \cup e \cup f, 1160 .. 1175)
      /\ \A x \in d \cup e \cup f : Offset(x) \notin 1162 .. 1165
  BY ONLY <1>5, SMT DEF Zoned, Sole
<1>10. Zoned(g \cup h, {1178, 1180, 1181, 1200, 1183, 1184, 1202, 1203, 1204})
  BY ONLY <1>6, SMT DEF Zoned, Sole
<1>11. \A x \in a \cup b \cup c, y \in d \cup e \cup f : Offset(x) # Offset(y)
  BY ONLY <1>8, <1>9, SMT DEF Zoned, MultiZone
<1>12. \A x \in a \cup b \cup c, y \in g \cup h : Offset(x) # Offset(y)
  BY ONLY <1>8, <1>10, SMT DEF Zoned, MultiZone
<1>13. \A x \in d \cup e \cup f, y \in g \cup h : Offset(x) # Offset(y)
  BY ONLY <1>9, <1>10, SMT DEF Zoned
<1>. DEFINE u == a \cup b \cup c
            v == d \cup e \cup f
            w == g \cup h
<1>14. ProgramSet(o) = u \cup v \cup w
  BY ONLY <1>1
<1>. HIDE DEF u, v, w
<1>15. Sole(u) /\ Sole(v) /\ Sole(w) /\ \A x \in u \cup v \cup w : IsAt(x[1])
  BY ONLY <1>8, <1>9, <1>10 DEF Zoned, u, v, w
<1>16. Sole(u \cup v \cup w)
  BY ONLY <1>11, <1>12, <1>13, <1>15 DEF Sole, u, v, w
<1>. QED BY ONLY <1>14, <1>15, <1>16

-------------------------------------------------------------------------------
(***************************************************************************)
(* What the engine finds in the fields of its registers.                   *)
(***************************************************************************)
\* What is put into a field is read from it as far as the field has bits.
LEMMA FieldReads ==
  ASSUME NEW f, IsField(f), NEW x, x \subseteq Nat
  PROVE  Get(Put(x, f), f) = x \cap (0 .. f[2] - f[1])
<1>. DEFINE y == x \cap (0 .. f[2] - f[1])
<1>1. f[1] \in Nat /\ f[2] \in Nat
  BY DEF IsField
<1>2. Put(x, f) = Put(y, f)
  BY <1>1 DEF Put, Mask
<1>3. Fits(y, f)
  BY DEF Fits
<1>. HIDE DEF y
<1>4. Get(Put(y, f), f) = y
  BY ONLY IsField(f), <1>3, FieldReadsBack
<1>. QED BY <1>2, <1>4 DEF y

\* A field that shares no bit with the others of its register.
Alone(fields, n) ==
  n \in DOMAIN fields /\ IsField(fields[n])
  /\ \A m \in DOMAIN fields \ {n} : Apart(fields[m], fields[n])

\* The value given to a field, or none.
Given(v, n) == IF n \in DOMAIN v THEN v[n] ELSE {}

\* Whatever else is written to its register, it holds the bits it was given.
LEMMA FieldIsGiven ==
  ASSUME NEW fields, NEW v, DOMAIN v \subseteq DOMAIN fields, NEW n, Alone(fields, n),
         Given(v, n) \subseteq Nat
  PROVE  Get(Pack(fields, v), fields[n]) = Given(v, n) \cap (0 .. fields[n][2] - fields[n][1])
<1>. DEFINE P(m) == Put(v[m], fields[m])
            rest == UNION {P(m) : m \in DOMAIN v \ {n}}
<1>1. rest \cap Mask(fields[n]) = {}
  <2>1. \A m \in DOMAIN v \ {n} : P(m) \cap Mask(fields[n]) = {}
    BY PutInMask DEF Apart, Alone
  <2>. QED BY <2>1
<1>2. Pack(fields, v) = Put(Given(v, n), fields[n]) \cup rest
  <2>1. CASE n \in DOMAIN v
    BY <2>1 DEF Pack, Given
  <2>2. CASE n \notin DOMAIN v
    <3>1. Put({}, fields[n]) = {}
      BY DEF Put
    <3>. QED BY <2>2, <3>1 DEF Pack, Given
  <2>. QED BY <2>1, <2>2
<1>3. Get(Pack(fields, v), fields[n]) = Get(Put(Given(v, n), fields[n]), fields[n])
  BY <1>1, <1>2, OthersDontMatter
<1>. QED BY <1>3, FieldReads DEF Alone

\* A register holds what was written to it.
LEMMA WordIsHeld ==
  ASSUME NEW regs, NEW S, Held(regs, S), NEW reg, NEW w, At(reg, w) \subseteq S
  PROVE  Word(regs, reg) = w
BY DEF Held, At, Word, Offset

\* And so do its fields.
LEMMA FieldIsHeld ==
  ASSUME NEW regs, NEW S, Held(regs, S), NEW reg, NEW v, AtFields(reg, v) \subseteq S,
         DOMAIN v \subseteq DOMAIN reg.fields, NEW n, Alone(reg.fields, n),
         Given(v, n) \subseteq Nat
  PROVE  Field(regs, reg, n) = Given(v, n) \cap (0 .. reg.fields[n][2] - reg.fields[n][1])
<1>1. Word(regs, reg) = Pack(reg.fields, v)
  BY WordIsHeld DEF AtFields
<1>. QED BY <1>1, FieldIsGiven DEF Field

\* The fields that are read share no bit with their neighbours.
LEMMA PairsAreAlone ==
  /\ Alone(XY, "X") /\ Alone(XY, "Y")
  /\ Alone([X |-> <<0, 14>>, Y |-> <<16, 30>>], "X")
  /\ Alone([X |-> <<0, 14>>, Y |-> <<16, 30>>], "Y")
  /\ Alone([X |-> <<0, 30>>], "X") /\ Alone([Y |-> <<0, 30>>], "Y")
BY SMT DEF Alone, IsField, Apart, Mask, XY

\* Of the configurations.
LEMMA ConfigsAreAlone ==
  /\ Alone(VIVS_DE_SRC_CONFIG.fields, "SOURCE_FORMAT")
  /\ Alone(VIVS_DE_SRC_CONFIG.fields, "SWIZZLE") /\ Alone(VIVS_DE_SRC_CONFIG.fields, "LOCATION")
  /\ Alone(VIVS_DE_DEST_CONFIG.fields, "FORMAT") /\ Alone(VIVS_DE_DEST_CONFIG.fields, "SWIZZLE")
  /\ Alone(VIVS_DE_DEST_CONFIG.fields, "COMMAND")
  /\ Alone(VIVS_DE_ROP.fields, "ROP_FG") /\ Alone(VIVS_DE_DE_MULTI_SOURCE.fields, "MAX_SOURCE")
<1>1. Alone(VIVS_DE_SRC_CONFIG.fields, "SOURCE_FORMAT")
  BY SMT DEF Alone, IsField, Apart, Mask, VIVS_DE_SRC_CONFIG, Reg
<1>2. Alone(VIVS_DE_SRC_CONFIG.fields, "SWIZZLE")
  BY SMT DEF Alone, IsField, Apart, Mask, VIVS_DE_SRC_CONFIG, Reg
<1>3. Alone(VIVS_DE_SRC_CONFIG.fields, "LOCATION")
  BY SMT DEF Alone, IsField, Apart, Mask, VIVS_DE_SRC_CONFIG, Reg
<1>4. Alone(VIVS_DE_DEST_CONFIG.fields, "FORMAT")
  BY SMT DEF Alone, IsField, Apart, Mask, VIVS_DE_DEST_CONFIG, Reg
<1>5. Alone(VIVS_DE_DEST_CONFIG.fields, "SWIZZLE")
  BY SMT DEF Alone, IsField, Apart, Mask, VIVS_DE_DEST_CONFIG, Reg
<1>6. Alone(VIVS_DE_DEST_CONFIG.fields, "COMMAND")
  BY SMT DEF Alone, IsField, Apart, Mask, VIVS_DE_DEST_CONFIG, Reg
<1>7. Alone(VIVS_DE_ROP.fields, "ROP_FG")
  BY SMT DEF Alone, IsField, Apart, Mask, VIVS_DE_ROP, Reg
<1>8. Alone(VIVS_DE_DE_MULTI_SOURCE.fields, "MAX_SOURCE")
  BY SMT DEF Alone, IsField, Apart, Mask, VIVS_DE_DE_MULTI_SOURCE, Reg
<1>. QED BY ONLY <1>1, <1>2, <1>3, <1>4, <1>5, <1>6, <1>7, <1>8

\* Of a blend.
LEMMA AlphasAreAlone ==
  /\ Alone(VIVS_DE_ALPHA_CONTROL.fields, "ENABLE")
  /\ Alone(VIVS_DE_ALPHA_MODES.fields, "GLOBAL_SRC_ALPHA_MODE")
  /\ Alone(VIVS_DE_ALPHA_MODES.fields, "GLOBAL_DST_ALPHA_MODE")
  /\ Alone(VIVS_DE_ALPHA_MODES.fields, "SRC_BLENDING_MODE")
  /\ Alone(VIVS_DE_ALPHA_MODES.fields, "DST_BLENDING_MODE")
<1>1. Alone(VIVS_DE_ALPHA_CONTROL.fields, "ENABLE")
  BY SMT DEF Alone, IsField, Apart, Mask, VIVS_DE_ALPHA_CONTROL, Reg
<1>2. Alone(VIVS_DE_ALPHA_MODES.fields, "GLOBAL_SRC_ALPHA_MODE")
  BY SMT DEF Alone, IsField, Apart, Mask, VIVS_DE_ALPHA_MODES, Reg
<1>3. Alone(VIVS_DE_ALPHA_MODES.fields, "GLOBAL_DST_ALPHA_MODE")
  BY SMT DEF Alone, IsField, Apart, Mask, VIVS_DE_ALPHA_MODES, Reg
<1>4. Alone(VIVS_DE_ALPHA_MODES.fields, "SRC_BLENDING_MODE")
  BY SMT DEF Alone, IsField, Apart, Mask, VIVS_DE_ALPHA_MODES, Reg
<1>5. Alone(VIVS_DE_ALPHA_MODES.fields, "DST_BLENDING_MODE")
  BY SMT DEF Alone, IsField, Apart, Mask, VIVS_DE_ALPHA_MODES, Reg
<1>. QED BY ONLY <1>1, <1>2, <1>3, <1>4, <1>5

\* Numbers of a few bits.
LEMMA BitsFit ==
  /\ \A n \in 0 .. 1 : Bits(n) \subseteq 0 .. 0
  /\ \A n \in 0 .. 3 : Bits(n) \subseteq 0 .. 1
  /\ \A n \in 0 .. 7 : Bits(n) \subseteq 0 .. 2
  /\ \A n \in 0 .. 15 : Bits(n) \subseteq 0 .. 3
  /\ \A n \in 0 .. 31 : Bits(n) \subseteq 0 .. 4
  /\ \A n \in 0 .. 255 : Bits(n) \subseteq 0 .. 7
  /\ \A n \in Nat : n <= 32767 => Bits(n) \subseteq 0 .. 14
  /\ \A n \in Nat : n <= 262143 => Bits(n) \subseteq 0 .. 17
<1>1. /\ Power(1) = 2 /\ Power(2) = 4 /\ Power(3) = 8 /\ Power(4) = 16 /\ Power(5) = 32
      /\ Power(8) = 256 /\ Power(15) = 32768 /\ Power(18) = 262144
  BY SMT DEF Power
<1>2. ASSUME NEW k \in 0 .. 30, NEW n \in Nat, n < Power(k) PROVE Bits(n) \subseteq 0 .. k - 1
  BY ONLY <1>2, SmallBits
<1>3. \A n \in 0 .. 1 : Bits(n) \subseteq 0 .. 0
  <2>. SUFFICES ASSUME NEW n \in 0 .. 1 PROVE Bits(n) \subseteq 0 .. 0
    BY SMT
  <2>1. n \in Nat /\ n < Power(1) /\ 1 \in 0 .. 30 /\ 1 - 1 = 0
    BY ONLY <1>1, n \in 0 .. 1, SMT
  <2>2. Bits(n) \subseteq 0 .. 1 - 1
    BY ONLY <1>2, <2>1, SMT
  <2>. QED BY ONLY <2>1, <2>2, SMT
<1>4. \A n \in 0 .. 3 : Bits(n) \subseteq 0 .. 1
  <2>. SUFFICES ASSUME NEW n \in 0 .. 3 PROVE Bits(n) \subseteq 0 .. 1
    BY SMT
  <2>1. n \in Nat /\ n < Power(2) /\ 2 \in 0 .. 30 /\ 2 - 1 = 1
    BY ONLY <1>1, n \in 0 .. 3, SMT
  <2>2. Bits(n) \subseteq 0 .. 2 - 1
    BY ONLY <1>2, <2>1, SMT
  <2>. QED BY ONLY <2>1, <2>2, SMT
<1>5. \A n \in 0 .. 7 : Bits(n) \subseteq 0 .. 2
  <2>. SUFFICES ASSUME NEW n \in 0 .. 7 PROVE Bits(n) \subseteq 0 .. 2
    BY SMT
  <2>1. n \in Nat /\ n < Power(3) /\ 3 \in 0 .. 30 /\ 3 - 1 = 2
    BY ONLY <1>1, n \in 0 .. 7, SMT
  <2>2. Bits(n) \subseteq 0 .. 3 - 1
    BY ONLY <1>2, <2>1, SMT
  <2>. QED BY ONLY <2>1, <2>2, SMT
<1>6. \A n \in 0 .. 15 : Bits(n) \subseteq 0 .. 3
  <2>. SUFFICES ASSUME NEW n \in 0 .. 15 PROVE Bits(n) \subseteq 0 .. 3
    BY SMT
  <2>1. n \in Nat /\ n < Power(4) /\ 4 \in 0 .. 30 /\ 4 - 1 = 3
    BY ONLY <1>1, n \in 0 .. 15, SMT
  <2>2. Bits(n) \subseteq 0 .. 4 - 1
    BY ONLY <1>2, <2>1, SMT
  <2>. QED BY ONLY <2>1, <2>2, SMT
<1>7. \A n \in 0 .. 31 : Bits(n) \subseteq 0 .. 4
  <2>. SUFFICES ASSUME NEW n \in 0 .. 31 PROVE Bits(n) \subseteq 0 .. 4
    BY SMT
  <2>1. n \in Nat /\ n < Power(5) /\ 5 \in 0 .. 30 /\ 5 - 1 = 4
    BY ONLY <1>1, n \in 0 .. 31, SMT
  <2>2. Bits(n) \subseteq 0 .. 5 - 1
    BY ONLY <1>2, <2>1, SMT
  <2>. QED BY ONLY <2>1, <2>2, SMT
<1>8. \A n \in 0 .. 255 : Bits(n) \subseteq 0 .. 7
  <2>. SUFFICES ASSUME NEW n \in 0 .. 255 PROVE Bits(n) \subseteq 0 .. 7
    BY SMT
  <2>1. n \in Nat /\ n < Power(8) /\ 8 \in 0 .. 30 /\ 8 - 1 = 7
    BY ONLY <1>1, n \in 0 .. 255, SMT
  <2>2. Bits(n) \subseteq 0 .. 8 - 1
    BY ONLY <1>2, <2>1, SMT
  <2>. QED BY ONLY <2>1, <2>2, SMT
<1>9. \A n \in Nat : n <= 32767 => Bits(n) \subseteq 0 .. 14
  <2>. SUFFICES ASSUME NEW n \in Nat, n <= 32767 PROVE Bits(n) \subseteq 0 .. 14
    BY SMT
  <2>1. n \in Nat /\ n < Power(15) /\ 15 \in 0 .. 30 /\ 15 - 1 = 14
    BY ONLY <1>1, n \in Nat, n <= 32767, SMT
  <2>2. Bits(n) \subseteq 0 .. 15 - 1
    BY ONLY <1>2, <2>1, SMT
  <2>. QED BY ONLY <2>1, <2>2, SMT
<1>10. \A n \in Nat : n <= 262143 => Bits(n) \subseteq 0 .. 17
  <2>. SUFFICES ASSUME NEW n \in Nat, n <= 262143 PROVE Bits(n) \subseteq 0 .. 17
    BY SMT
  <2>1. n \in Nat /\ n < Power(18) /\ 18 \in 0 .. 30 /\ 18 - 1 = 17
    BY ONLY <1>1, n \in Nat, n <= 262143, SMT
  <2>2. Bits(n) \subseteq 0 .. 18 - 1
    BY ONLY <1>2, <2>1, SMT
  <2>. QED BY ONLY <2>1, <2>2, SMT
<1>. QED BY ONLY <1>3, <1>4, <1>5, <1>6, <1>7, <1>8, <1>9, <1>10

\* Small numbers have different bits, and no bit is negative.
LEMMA BitsDiffer ==
  /\ \A m, n \in 0 .. 255 : Bits(m) = Bits(n) => m = n
  /\ \A n \in 0 .. 255 : Num(Bits(n)) = n
  /\ \A n : Bits(n) \subseteq Nat
<1>1. Power(8) = 256
  BY SMT DEF Power
<1>2. \A n \in 0 .. 255 : Num(Bits(n)) = n
  <2>. SUFFICES ASSUME NEW n \in 0 .. 255 PROVE Num(Bits(n)) = n
    OBVIOUS
  <2>1. 8 \in 0 .. 30 /\ n \in Nat /\ n < Power(8)
    BY <1>1
  <2>. QED BY ONLY <2>1, SmallBits
<1>3. \A n : Bits(n) \subseteq Nat
  BY DEF Bits
<1>. QED BY ONLY <1>2, <1>3

\* A part of what is held.
LEMMA HeldPart == \A regs, S, T : Held(regs, S) /\ T \subseteq S => Held(regs, T)
BY DEF Held

\* The lowest bits of a register that was written as a whole.
LEMMA LowestBits ==
  ASSUME NEW w, w \subseteq Nat, NEW k \in Nat
  PROVE  Get(w, <<0, k>>) = w \cap (0 .. k)
BY DEF Get, Mask

\* A stride is one.
LEMMA StrideIsHeld ==
  ASSUME NEW regs, NEW S, Held(regs, S), NEW reg, NEW w, At(reg, w) \subseteq S, w \subseteq Nat,
         reg.fields = Stride
  PROVE  Field(regs, reg, "STRIDE") = w \cap (0 .. 17)
<1>1. Word(regs, reg) = w
  BY WordIsHeld
<1>2. reg.fields["STRIDE"] = <<0, 17>>
  BY DEF Stride
<1>. QED BY <1>1, <1>2, LowestBits DEF Field

\* A surface that the engine can address: a client asks for no more than the 15 bits
\* of the clip registers.
Addressable(s) ==
  /\ s \in SurfaceIds /\ surf[s] # NoSurface
  /\ surf[s].width \in Nat \ {0} /\ surf[s].width <= 32767
  /\ surf[s].height \in Nat \ {0} /\ surf[s].height <= 32767
  /\ surf[s].pitch \in Nat /\ surf[s].pitch <= 262143
  /\ surf[s].format \in DOMAIN viv2d_color_formats

\* The numbers of its format fit into the fields of the registers.
LEMMA FormatsFit ==
  ASSUME NEW s, Addressable(s)
  PROVE  /\ FormatOf(s).fmt \in 0 .. 31 /\ FormatOf(s).swizzle \in 0 .. 3
<1>1. /\ DE_FORMAT["A8R8G8B8"] = 6 /\ DE_FORMAT["X8R8G8B8"] = 5 /\ DE_FORMAT["R5G6B5"] = 4
      /\ DE_FORMAT["A1R5G5B5"] = 3 /\ DE_FORMAT["X1R5G5B5"] = 2 /\ DE_FORMAT["A4R4G4B4"] = 1
      /\ DE_FORMAT["X4R4G4B4"] = 0 /\ DE_FORMAT["A8"] = 16
  BY SMT DEF DE_FORMAT
<1>2. /\ DE_SWIZZLE["ARGB"] = 0 /\ DE_SWIZZLE["ABGR"] = 2 /\ DE_SWIZZLE["BGRA"] = 3
  BY SMT DEF DE_SWIZZLE
<1>3. \A b, d, f, z : ColorFormat(b, d, f, z).fmt = DE_FORMAT[f]
                      /\ ColorFormat(b, d, f, z).swizzle = DE_SWIZZLE[z]
  BY SMT DEF ColorFormat
<1>4. ASSUME NEW f \in DOMAIN viv2d_color_formats
      PROVE  \E b, d, x, z : /\ viv2d_color_formats[f] = ColorFormat(b, d, x, z)
                             /\ x \in {"A8R8G8B8", "X8R8G8B8", "R5G6B5", "A1R5G5B5", "X1R5G5B5",
                                       "A4R4G4B4", "X4R4G4B4", "A8"}
                             /\ z \in {"ARGB", "ABGR", "BGRA"}
  BY <1>4, SMT DEF viv2d_color_formats
<1>5. \A f \in DOMAIN viv2d_color_formats :
        viv2d_color_formats[f].fmt \in 0 .. 31 /\ viv2d_color_formats[f].swizzle \in 0 .. 3
  <2>. SUFFICES ASSUME NEW f \in DOMAIN viv2d_color_formats
                PROVE  /\ viv2d_color_formats[f].fmt \in 0 .. 31
                       /\ viv2d_color_formats[f].swizzle \in 0 .. 3
    OBVIOUS
  <2>1. PICK b, d, x, z : /\ viv2d_color_formats[f] = ColorFormat(b, d, x, z)
                          /\ x \in {"A8R8G8B8", "X8R8G8B8", "R5G6B5", "A1R5G5B5", "X1R5G5B5",
                                    "A4R4G4B4", "X4R4G4B4", "A8"}
                          /\ z \in {"ARGB", "ABGR", "BGRA"}
    BY ONLY <1>4
  <2>2. DE_FORMAT[x] \in 0 .. 31 /\ DE_SWIZZLE[z] \in 0 .. 3
    BY ONLY <1>1, <1>2, <2>1, SMT
  <2>. QED BY ONLY <1>3, <2>1, <2>2
<1>6. surf[s].format \in DOMAIN viv2d_color_formats
  BY ONLY Addressable(s), SMT DEF Addressable
<1>7. FormatOf(s) = viv2d_color_formats[surf[s].format]
  BY ONLY TRUE, SMT DEF FormatOf
<1>. PICK f : f = surf[s].format
  OBVIOUS
<1>. QED BY ONLY <1>5, <1>6, <1>7, f = surf[s].format, SMT

\* A field that was given what it can hold, and one that was given nothing.
LEMMA FieldArrives ==
  ASSUME NEW regs, NEW S, Held(regs, S), NEW reg, NEW v, AtFields(reg, v) \subseteq S,
         DOMAIN v \subseteq DOMAIN reg.fields, NEW n, Alone(reg.fields, n)
  PROVE  /\ n \in DOMAIN v /\ v[n] \subseteq 0 .. reg.fields[n][2] - reg.fields[n][1] =>
              Field(regs, reg, n) = v[n]
         /\ n \notin DOMAIN v => Field(regs, reg, n) = {}
<1>1. ASSUME n \in DOMAIN v, v[n] \subseteq 0 .. reg.fields[n][2] - reg.fields[n][1]
      PROVE  Field(regs, reg, n) = v[n]
  <2>1. Given(v, n) = v[n]
    BY <1>1 DEF Given
  <2>2. Given(v, n) \subseteq Nat
    BY ONLY <1>1, <2>1
  <2>3. Field(regs, reg, n) = Given(v, n) \cap (0 .. reg.fields[n][2] - reg.fields[n][1])
    BY <2>2, FieldIsHeld
  <2>. QED BY ONLY <1>1, <2>1, <2>3
<1>2. ASSUME n \notin DOMAIN v PROVE Field(regs, reg, n) = {}
  <2>1. Given(v, n) = {}
    BY <1>2 DEF Given
  <2>2. Given(v, n) \subseteq Nat
    BY ONLY <2>1
  <2>3. Field(regs, reg, n) = Given(v, n) \cap (0 .. reg.fields[n][2] - reg.fields[n][1])
    BY <2>2, FieldIsHeld
  <2>. QED BY ONLY <2>1, <2>3
<1>. QED BY ONLY <1>1, <1>2

\* The widths of the fields that are read.
LEMMA DestFields ==
  LET F == VIVS_DE_DEST_CONFIG.fields
  IN  /\ F["FORMAT"] = <<0, 4>> /\ F["SWIZZLE"] = <<16, 17>> /\ F["COMMAND"] = <<12, 15>>
      /\ {"FORMAT", "SWIZZLE", "COMMAND", "TILED", "MINOR_TILED"} \subseteq DOMAIN F
BY SMT DEF VIVS_DE_DEST_CONFIG, Reg

\* Of a source.
LEMMA SourceFields ==
  LET F == VIVS_DE_SRC_CONFIG.fields
  IN  /\ F["SOURCE_FORMAT"] = <<24, 28>> /\ F["SWIZZLE"] = <<20, 21>> /\ F["LOCATION"] = <<8, 8>>
      /\ {"SOURCE_FORMAT", "SWIZZLE", "LOCATION", "PE10_SOURCE_FORMAT", "UNK16", "PACK"}
           \subseteq DOMAIN F
BY SMT DEF VIVS_DE_SRC_CONFIG, Reg

\* Of a blend.
LEMMA AlphaFields ==
  LET C == VIVS_DE_ALPHA_CONTROL.fields
      M == VIVS_DE_ALPHA_MODES.fields
  IN  /\ C["ENABLE"] = <<0, 0>>
      /\ {"ENABLE", "PE10_GLOBAL_SRC_ALPHA", "PE10_GLOBAL_DST_ALPHA"} \subseteq DOMAIN C
      /\ M["GLOBAL_SRC_ALPHA_MODE"] = <<8, 9>> /\ M["GLOBAL_DST_ALPHA_MODE"] = <<12, 13>>
      /\ M["SRC_BLENDING_MODE"] = <<24, 26>> /\ M["DST_BLENDING_MODE"] = <<28, 30>>
      /\ {"GLOBAL_SRC_ALPHA_MODE", "GLOBAL_DST_ALPHA_MODE", "SRC_BLENDING_MODE",
          "DST_BLENDING_MODE"} \subseteq DOMAIN M
BY SMT DEF VIVS_DE_ALPHA_CONTROL, VIVS_DE_ALPHA_MODES, Reg

\* The commands are few.
LEMMA CommandsAreSmall ==
  /\ COMMAND.CLEAR = 0 /\ COMMAND.LINE = 1 /\ COMMAND.BIT_BLT = 2 /\ COMMAND.STRETCH_BLT = 4
  /\ COMMAND.MULTI_SOURCE_BLT = 8
  /\ \A cmd : Command(cmd) \in 0 .. 15
<1>1. /\ COMMAND.CLEAR = 0 /\ COMMAND.LINE = 1 /\ COMMAND.BIT_BLT = 2 /\ COMMAND.STRETCH_BLT = 4
      /\ COMMAND.MULTI_SOURCE_BLT = 8
  BY SMT DEF COMMAND
<1>. QED BY ONLY <1>1, SMT DEF Command

\* And so are the sizes of a surface.
LEMMA SizesFit ==
  ASSUME NEW s, Addressable(s)
  PROVE  /\ Bits(surf[s].width) \subseteq 0 .. 14 /\ Bits(surf[s].height) \subseteq 0 .. 14
         /\ Bits(surf[s].pitch) \subseteq 0 .. 17
<1>. PICK w, h, p : w = surf[s].width /\ h = surf[s].height /\ p = surf[s].pitch
  OBVIOUS
<1>1. /\ w \in Nat /\ w <= 32767 /\ h \in Nat /\ h <= 32767 /\ p \in Nat /\ p <= 262143
  BY SMT DEF Addressable
<1>2. Bits(w) \subseteq 0 .. 14 /\ Bits(h) \subseteq 0 .. 14 /\ Bits(p) \subseteq 0 .. 17
  BY ONLY <1>1, BitsFit, SMT
<1>. QED BY ONLY <1>2, w = surf[s].width /\ h = surf[s].height /\ p = surf[s].pitch

\* The destination is the one of the operation, and so is the command.
LEMMA DestIsSeen ==
  ASSUME NEW o, Addressable(o.dst), NEW regs, Held(regs, DestSet(o)), GpuAddress[o.dst] \in Words
  PROVE  /\ Field(regs, VIVS_DE_DEST_CONFIG, "COMMAND") = Bits(Command(o.cmd))
         /\ Word(regs, VIVS_DE_DEST_ADDRESS) = GpuAddress[o.dst]
         /\ Field(regs, VIVS_DE_DEST_STRIDE, "STRIDE") = Bits(surf[o.dst].pitch)
         /\ Field(regs, VIVS_DE_DEST_CONFIG, "FORMAT") = Bits(FormatOf(o.dst).fmt)
         /\ Field(regs, VIVS_DE_DEST_CONFIG, "SWIZZLE") = Bits(FormatOf(o.dst).swizzle)
<1>. DEFINE S == DestSet(o)
            v == DestConfig(o)
            reg == VIVS_DE_DEST_CONFIG
<1>1. /\ At(VIVS_DE_DEST_ADDRESS, GpuAddress[o.dst]) \subseteq S
      /\ At(VIVS_DE_DEST_STRIDE, Bits(surf[o.dst].pitch)) \subseteq S
      /\ AtFields(reg, v) \subseteq S
  BY ONLY TRUE, Zenon DEF DestSet
<1>2. /\ DOMAIN v = {"FORMAT", "SWIZZLE", "COMMAND", "TILED", "MINOR_TILED"}
      /\ v["FORMAT"] = Bits(FormatOf(o.dst).fmt) /\ v["SWIZZLE"] = Bits(FormatOf(o.dst).swizzle)
      /\ v["COMMAND"] = Bits(Command(o.cmd))
  BY ONLY TRUE, SMT DEF DestConfig
<1>3. /\ v["FORMAT"] \subseteq 0 .. 4 /\ v["SWIZZLE"] \subseteq 0 .. 1
      /\ v["COMMAND"] \subseteq 0 .. 3
  BY ONLY <1>2, Addressable(o.dst), FormatsFit, CommandsAreSmall, BitsFit, SMT
<1>. HIDE DEF v, S, reg
<1>4. /\ \A n \in {"FORMAT", "SWIZZLE", "COMMAND"} :
           /\ Alone(reg.fields, n) /\ n \in DOMAIN v
           /\ v[n] \subseteq 0 .. reg.fields[n][2] - reg.fields[n][1]
      /\ DOMAIN v \subseteq DOMAIN reg.fields
  BY ONLY <1>2, <1>3, DestFields, ConfigsAreAlone, SMT DEF reg
<1>5. \A n \in {"FORMAT", "SWIZZLE", "COMMAND"} : Field(regs, reg, n) = v[n]
  BY ONLY Held(regs, DestSet(o)), <1>1, <1>4, FieldArrives DEF S
<1>6. Word(regs, VIVS_DE_DEST_ADDRESS) = GpuAddress[o.dst]
  BY ONLY Held(regs, DestSet(o)), <1>1, WordIsHeld DEF S
<1>7. Bits(surf[o.dst].pitch) \subseteq 0 .. 17 /\ Bits(surf[o.dst].pitch) \subseteq Nat
  BY ONLY Addressable(o.dst), SizesFit, SMT
<1>8. VIVS_DE_DEST_STRIDE.fields = Stride
  BY DEF VIVS_DE_DEST_STRIDE, Reg
<1>9. Field(regs, VIVS_DE_DEST_STRIDE, "STRIDE") = Bits(surf[o.dst].pitch) \cap (0 .. 17)
  BY ONLY Held(regs, DestSet(o)), <1>1, <1>7, <1>8, StrideIsHeld DEF S
<1>. QED BY ONLY <1>2, <1>5, <1>6, <1>7, <1>9 DEF reg

\* What is within bounds is not cut.
LEMMA NothingCut == \A x, B : x \subseteq B => x \cap B = x
OBVIOUS

\* Neither cuts what is small enough.
LEMMA LowKeeps == \A w : w \subseteq 0 .. 14 => Low(w) = w /\ w \subseteq Nat
<1>1. \A b \in 0 .. 14 : b \in 0 .. 15 /\ b \in Nat
  BY SMT
<1>. QED BY <1>1, Zenon DEF Low

\* Nor does a stride.
LEMMA StrideKeeps == \A p : p \subseteq 0 .. 17 => p \cap (0 .. 17) = p /\ p \subseteq Nat
<1>1. \A b \in 0 .. 17 : b \in Nat
  BY SMT
<1>. QED BY <1>1, Zenon

\* The fields of a point, of which one is read.
LEMMA OneIsHeld ==
  ASSUME NEW regs, NEW S, Held(regs, S), NEW reg, NEW v, AtFields(reg, v) \subseteq S,
         DOMAIN v = {"X", "Y"}, DOMAIN reg.fields = {"X", "Y"}, NEW n, n \in {"X", "Y"},
         Alone(reg.fields, n), v[n] \subseteq Nat
  PROVE  Field(regs, reg, n) = v[n] \cap (0 .. reg.fields[n][2] - reg.fields[n][1])
<1>1. Given(v, n) = v[n]
  BY DEF Given
<1>2. DOMAIN v \subseteq DOMAIN reg.fields /\ Given(v, n) \subseteq Nat
  BY ONLY <1>1, DOMAIN v = {"X", "Y"}, DOMAIN reg.fields = {"X", "Y"}, v[n] \subseteq Nat
<1>3. Field(regs, reg, n) = Given(v, n) \cap (0 .. reg.fields[n][2] - reg.fields[n][1])
  BY <1>2, FieldIsHeld
<1>. QED BY ONLY <1>1, <1>3

\* Sets of bits.
BitSets == SUBSET Nat

\* The coordinates of a point, and of a corner of the clip rectangle.
LEMMA PointIsHeld ==
  ASSUME NEW regs, NEW S, Held(regs, S), NEW reg, reg.fields = XY, NEW x, NEW y,
         x \in BitSets, y \in BitSets, AtFields(reg, [X |-> x, Y |-> y]) \subseteq S
  PROVE  Point(regs, reg) = <<Low(x), Low(y)>>
<1>. DEFINE v == [X |-> x, Y |-> y]
<1>1. DOMAIN v = {"X", "Y"} /\ v["X"] = x /\ v["Y"] = y
  OBVIOUS
<1>2. DOMAIN XY = {"X", "Y"} /\ XY["X"] = <<0, 15>> /\ XY["Y"] = <<16, 31>>
  BY DEF XY
<1>. HIDE DEF v
<1>3. AtFields(reg, v) \subseteq S
  BY DEF v
<1>4. DOMAIN reg.fields = {"X", "Y"} /\ Alone(reg.fields, "X") /\ Alone(reg.fields, "Y")
  BY ONLY reg.fields = XY, <1>2, PairsAreAlone
<1>5. Field(regs, reg, "X") = v["X"] \cap (0 .. reg.fields["X"][2] - reg.fields["X"][1])
  <2>1. v["X"] \subseteq Nat
    BY ONLY <1>1, x \in BitSets DEF BitSets
  <2>2. DOMAIN v = {"X", "Y"} /\ "X" \in {"X", "Y"}
    BY ONLY <1>1
  <2>. QED BY ONLY Held(regs, S), <1>3, <1>4, <2>1, <2>2, OneIsHeld
<1>6. Field(regs, reg, "Y") = v["Y"] \cap (0 .. reg.fields["Y"][2] - reg.fields["Y"][1])
  <2>1. v["Y"] \subseteq Nat
    BY ONLY <1>1, y \in BitSets DEF BitSets
  <2>2. DOMAIN v = {"X", "Y"} /\ "Y" \in {"X", "Y"}
    BY ONLY <1>1
  <2>. QED BY ONLY Held(regs, S), <1>3, <1>4, <2>1, <2>2, OneIsHeld
<1>7. Field(regs, reg, "X") = x \cap (0 .. 15) /\ Field(regs, reg, "Y") = y \cap (0 .. 15)
  <2>1. 31 - 16 = 15 /\ 15 - 0 = 15
    BY SMT
  <2>2. /\ reg.fields["X"][1] = 0 /\ reg.fields["X"][2] = 15
        /\ reg.fields["Y"][1] = 16 /\ reg.fields["Y"][2] = 31
    BY ONLY reg.fields = XY, <1>2
  <2>. QED BY ONLY <1>1, <1>5, <1>6, <2>1, <2>2
<1>. QED BY ONLY <1>7 DEF Point, Low

\* The fields of a corner of the clip rectangle.
ClipBits == 0 .. 14
ClipFields == [X |-> <<0, 14>>, Y |-> <<16, 30>>]

\* Such a corner.
LEMMA ClipPointIsHeld ==
  ASSUME NEW regs, NEW S, Held(regs, S), NEW reg, reg.fields = ClipFields, NEW x, NEW y,
         x \subseteq ClipBits, y \subseteq ClipBits, AtFields(reg, [X |-> x, Y |-> y]) \subseteq S
  PROVE  Point(regs, reg) = <<x, y>>
<1>. DEFINE v == [X |-> x, Y |-> y]
<1>1. DOMAIN v = {"X", "Y"} /\ v["X"] = x /\ v["Y"] = y
  OBVIOUS
<1>2. /\ DOMAIN ClipFields = {"X", "Y"}
      /\ ClipFields["X"] = <<0, 14>> /\ ClipFields["Y"] = <<16, 30>>
  BY DEF ClipFields
<1>3. Alone(ClipFields, "X") /\ Alone(ClipFields, "Y")
  BY PairsAreAlone DEF ClipFields
<1>. HIDE DEF v
<1>4. AtFields(reg, v) \subseteq S
  BY DEF v
<1>5. Field(regs, reg, "X") = v["X"]
  <2>1. v["X"] \subseteq 0 .. 14 - 0
    BY ONLY <1>1, x \subseteq ClipBits DEF ClipBits
  <2>. QED BY ONLY Held(regs, S), reg.fields = ClipFields, <1>1, <1>2, <1>3, <1>4, <2>1,
                   FieldArrives
<1>6. Field(regs, reg, "Y") = v["Y"]
  <2>1. v["Y"] \subseteq 0 .. 30 - 16
    BY ONLY <1>1, y \subseteq ClipBits DEF ClipBits
  <2>. QED BY ONLY Held(regs, S), reg.fields = ClipFields, <1>1, <1>2, <1>3, <1>4, <2>1,
                   FieldArrives
<1>. QED BY ONLY <1>1, <1>5, <1>6 DEF Point

\* A rectangle whose corners have 15 bits.
CornersFit(r) == r \in RectSet /\ r.x + r.width <= 32767 /\ r.y + r.height <= 32767

\* They fit.
LEMMA CornersAreSmall ==
  ASSUME NEW r, CornersFit(r)
  PROVE  /\ Bits(r.x) \subseteq ClipBits /\ Bits(r.y) \subseteq ClipBits
         /\ Bits(r.x + r.width) \subseteq ClipBits /\ Bits(r.y + r.height) \subseteq ClipBits
<1>1. r.x \in Nat /\ r.y \in Nat /\ r.width \in Nat /\ r.height \in Nat
  BY DEF CornersFit, RectSet
<1>. PICK x, y, u, v : x = r.x /\ y = r.y /\ u = r.x + r.width /\ v = r.y + r.height
  OBVIOUS
<1>2. /\ x \in Nat /\ y \in Nat /\ u \in Nat /\ v \in Nat
      /\ x <= 32767 /\ y <= 32767 /\ u <= 32767 /\ v <= 32767
  BY <1>1 DEF CornersFit
<1>3. /\ Bits(x) \subseteq 0 .. 14 /\ Bits(y) \subseteq 0 .. 14
      /\ Bits(u) \subseteq 0 .. 14 /\ Bits(v) \subseteq 0 .. 14
  BY ONLY <1>2, BitsFit, SMT
<1>. QED BY <1>3 DEF ClipBits

\* The clip rectangle is the one of the operation.
LEMMA ClipIsSeen ==
  ASSUME NEW o, CornersFit(o.clip), NEW regs, Held(regs, ClipSet(o))
  PROVE  /\ Point(regs, VIVS_DE_CLIP_TOP_LEFT) = <<Bits(o.clip.x), Bits(o.clip.y)>>
         /\ Point(regs, VIVS_DE_CLIP_BOTTOM_RIGHT) =
              <<Bits(o.clip.x + o.clip.width), Bits(o.clip.y + o.clip.height)>>
<1>. DEFINE S == ClipSet(o)
            R1 == VIVS_DE_CLIP_TOP_LEFT
            R2 == VIVS_DE_CLIP_BOTTOM_RIGHT
<1>0. PICK x, y, u, v : /\ x = Bits(o.clip.x) /\ u = Bits(o.clip.x + o.clip.width)
                       /\ y = Bits(o.clip.y) /\ v = Bits(o.clip.y + o.clip.height)
  OBVIOUS
<1>1. /\ AtFields(R1, [X |-> x, Y |-> y]) \subseteq S
      /\ AtFields(R2, [X |-> u, Y |-> v]) \subseteq S
  BY ONLY <1>0, Zenon DEF ClipSet
<1>2. /\ x \subseteq ClipBits /\ y \subseteq ClipBits
      /\ u \subseteq ClipBits /\ v \subseteq ClipBits
  BY <1>0, CornersAreSmall
<1>3. R1.fields = ClipFields /\ R2.fields = ClipFields
  BY SMT DEF VIVS_DE_CLIP_TOP_LEFT, VIVS_DE_CLIP_BOTTOM_RIGHT, Reg, ClipFields
<1>4. Held(regs, S)
  OBVIOUS
<1>. HIDE DEF S, R1, R2
<1>5. Point(regs, R1) = <<x, y>>
  BY ONLY <1>1, <1>2, <1>3, <1>4, ClipPointIsHeld
<1>6. Point(regs, R2) = <<u, v>>
  BY ONLY <1>1, <1>2, <1>3, <1>4, ClipPointIsHeld
<1>. QED BY ONLY <1>0, <1>5, <1>6 DEF R1, R2

\* The registers of a source, of a single one or of one of several.
IsSourceRegs(address, stride, config, origin, size) ==
  /\ stride.fields = Stride /\ config.fields = VIVS_DE_SRC_CONFIG.fields
  /\ origin.fields = XY /\ size.fields = XY

\* The source is the one of the operation.
LEMMA SourceIsSeen ==
  ASSUME NEW o, o.src_x \in Words, o.src_y \in Words, NEW s, Addressable(s),
         GpuAddress[s] \in Words, NEW regs, NEW S, Held(regs, S),
         NEW address, NEW stride, NEW config, NEW origin, NEW size,
         IsSourceRegs(address, stride, config, origin, size),
         At(address, GpuAddress[s]) \subseteq S, At(stride, Bits(surf[s].pitch)) \subseteq S,
         AtFields(config, SourceConfig(s)) \subseteq S,
         AtFields(origin, [X |-> o.src_x, Y |-> o.src_y]) \subseteq S,
         AtFields(size, SizeOf(s)) \subseteq S
  PROVE  /\ SeenSource(regs, address, stride, config, origin, size) = AskedSource(o, s)
         /\ Field(regs, config, "LOCATION") = Bits(LOCATION.MEMORY)
<1>. DEFINE v == SourceConfig(s)
<1>0. PICK w, h, p : w = Bits(surf[s].width) /\ h = Bits(surf[s].height) /\ p = Bits(surf[s].pitch)
  OBVIOUS
<1>1. /\ DOMAIN v = {"SOURCE_FORMAT", "SWIZZLE", "LOCATION", "PE10_SOURCE_FORMAT"}
      /\ v["SOURCE_FORMAT"] = Bits(FormatOf(s).fmt) /\ v["SWIZZLE"] = Bits(FormatOf(s).swizzle)
      /\ v["LOCATION"] = Bits(LOCATION.MEMORY)
  BY ONLY TRUE, SMT DEF SourceConfig
<1>2. LOCATION.MEMORY = 0
  BY SMT DEF LOCATION
<1>3. /\ v["SOURCE_FORMAT"] \subseteq 0 .. 4 /\ v["SWIZZLE"] \subseteq 0 .. 1
      /\ v["LOCATION"] \subseteq 0 .. 0
  BY ONLY <1>1, <1>2, Addressable(s), FormatsFit, BitsFit, SMT
<1>4. w \subseteq 0 .. 14 /\ h \subseteq 0 .. 14 /\ p \subseteq 0 .. 17
  BY ONLY <1>0, Addressable(s), SizesFit, SMT
<1>4a. SizeOf(s) = [X |-> w, Y |-> h]
  BY ONLY <1>0, Zenon DEF SizeOf
<1>5. /\ Held(regs, S) /\ AtFields(config, v) \subseteq S /\ At(stride, p) \subseteq S
      /\ AtFields(size, [X |-> w, Y |-> h]) \subseteq S
  BY <1>0, <1>4a
<1>. HIDE DEF v
<1>6. /\ \A n \in {"SOURCE_FORMAT", "SWIZZLE", "LOCATION"} :
           /\ Alone(config.fields, n) /\ n \in DOMAIN v
           /\ v[n] \subseteq 0 .. config.fields[n][2] - config.fields[n][1]
      /\ DOMAIN v \subseteq DOMAIN config.fields
  BY ONLY <1>1, <1>3, SourceFields, ConfigsAreAlone,
          IsSourceRegs(address, stride, config, origin, size), SMT DEF IsSourceRegs
<1>7. \A n \in {"SOURCE_FORMAT", "SWIZZLE", "LOCATION"} : Field(regs, config, n) = v[n]
  BY ONLY <1>5, <1>6, FieldArrives
<1>8. Word(regs, address) = GpuAddress[s]
  BY WordIsHeld
<1>8a. stride.fields = Stride
  BY DEF IsSourceRegs
<1>8b. size.fields = XY
  BY DEF IsSourceRegs
<1>8c. origin.fields = XY
  BY DEF IsSourceRegs
<1>8d. AtFields(size, [X |-> w, Y |-> h]) \subseteq S
  BY ONLY <1>5
<1>9. Field(regs, stride, "STRIDE") = p
  <2>1. p \subseteq Nat /\ p \cap (0 .. 17) = p
    BY ONLY <1>4, StrideKeeps, Zenon
  <2>2. Field(regs, stride, "STRIDE") = p \cap (0 .. 17)
    BY ONLY <1>5, <2>1, <1>8a, StrideIsHeld
  <2>. QED BY ONLY <2>1, <2>2
<1>10. Point(regs, size) = <<w, h>>
  <2>1. w \in BitSets /\ h \in BitSets
    BY ONLY <1>4, LowKeeps, Zenon DEF BitSets
  <2>2. Point(regs, size) = <<Low(w), Low(h)>>
    BY ONLY Held(regs, S), <1>8d, <2>1, <1>8b, PointIsHeld
  <2>3. Low(w) = w /\ Low(h) = h
    BY ONLY <1>4, LowKeeps, Zenon
  <2>. QED BY ONLY <2>2, <2>3
<1>11. Point(regs, origin) = <<Low(o.src_x), Low(o.src_y)>>
  <2>. PICK x, y : x = o.src_x /\ y = o.src_y
    OBVIOUS
  <2>1. x \in BitSets /\ y \in BitSets
    BY DEF Words, WordBits, BitSets
  <2>2. AtFields(origin, [X |-> x, Y |-> y]) \subseteq S
    OBVIOUS
  <2>3. Point(regs, origin) = <<Low(x), Low(y)>>
    BY ONLY Held(regs, S), <2>1, <2>2, <1>8c, PointIsHeld
  <2>. QED BY <2>3
<1>12. SeenSource(regs, address, stride, config, origin, size) = AskedSource(o, s)
  BY ONLY <1>0, <1>1, <1>7, <1>8, <1>9, <1>10, <1>11, SMT DEF SeenSource, AskedSource
<1>. QED BY ONLY <1>1, <1>7, <1>12

-------------------------------------------------------------------------------
(***************************************************************************)
(* How the engine blends, what it reads and what it draws.                 *)
(***************************************************************************)
\* An argument of viv2d_op_set_blend.
IsBlend(b) ==
  /\ b.cmd \in DOMAIN viv2d_blend_ops
  /\ b.src_global \in BOOLEAN /\ b.dst_global \in BOOLEAN
  /\ b.src_alpha \in 0 .. 255 /\ b.dst_alpha \in 0 .. 255

\* The registers of a blend, of a single one or of one of several.
IsBlendRegs(control, modes) ==
  /\ control.fields = VIVS_DE_ALPHA_CONTROL.fields
  /\ modes.fields = VIVS_DE_ALPHA_MODES.fields

\* The alpha of a global color.
LEMMA AlphaIsHeld ==
  ASSUME NEW n \in 0 .. 255
  PROVE  Get(Color24(n), <<24, 31>>) = Bits(n)
<1>. DEFINE f == <<24, 31>>
<1>1. Bits(n) \subseteq 0 .. 7
  BY BitsFit, SMT
<1>. PICK w : w = Bits(n)
  OBVIOUS
<1>2. IsField(f) /\ Fits(w, f)
  BY <1>1, SMT DEF IsField, Fits
<1>3. Get(Put(w, f), f) = w
  BY ONLY <1>2, FieldReadsBack
<1>4. \A b \in 0 .. 7 : b + 24 \in 24 .. 31
  BY SMT
<1>4a. w \subseteq 0 .. 7
  BY <1>1
<1>5. Put(w, f) = {b + 24 : b \in w}
  BY ONLY <1>4a, SMT DEF Put, Mask
<1>. QED BY ONLY <1>3, <1>5, w = Bits(n), Zenon DEF Color24

\* The numbers of the blending modes have three bits.
LEMMA ModesFit ==
  /\ DE_BLENDMODE.ONE = 1 /\ DE_BLENDMODE.INVERSED = 3
  /\ \A cmd \in DOMAIN viv2d_blend_ops, i \in {1, 2} : BlendMode(i, cmd) \subseteq 0 .. 2
  /\ BlendMode(1, "over") = Bits(DE_BLENDMODE.ONE)
  /\ BlendMode(2, "over") = Bits(DE_BLENDMODE.INVERSED)
<1>. DEFINE Names == {"ZERO", "ONE", "NORMAL", "INVERSED", "SATURATED_ALPHA"}
<1>1. /\ DE_BLENDMODE.ONE = 1 /\ DE_BLENDMODE.INVERSED = 3
      /\ \A n \in Names : DE_BLENDMODE[n] \in 0 .. 7
  BY SMT DEF DE_BLENDMODE
<1>2. ASSUME NEW cmd \in DOMAIN viv2d_blend_ops
      PROVE  viv2d_blend_ops[cmd][1] \in Names /\ viv2d_blend_ops[cmd][2] \in Names
  BY <1>2, SMT DEF viv2d_blend_ops
<1>3. viv2d_blend_ops["over"] = <<"ONE", "INVERSED">>
  BY SMT DEF viv2d_blend_ops
<1>. HIDE DEF Names
<1>4. ASSUME NEW cmd \in DOMAIN viv2d_blend_ops, NEW i \in {1, 2}
      PROVE  BlendMode(i, cmd) \subseteq 0 .. 2
  <2>. PICK m : m = DE_BLENDMODE[viv2d_blend_ops[cmd][i]]
    OBVIOUS
  <2>1. m \in 0 .. 7
    BY ONLY <1>1, <1>2, cmd \in DOMAIN viv2d_blend_ops, i \in {1, 2},
            m = DE_BLENDMODE[viv2d_blend_ops[cmd][i]]
  <2>2. Bits(m) \subseteq 0 .. 2
    BY ONLY <2>1, BitsFit, SMT
  <2>. QED BY ONLY <2>2, m = DE_BLENDMODE[viv2d_blend_ops[cmd][i]], Zenon DEF BlendMode
<1>5. /\ BlendMode(1, "over") = Bits(DE_BLENDMODE.ONE)
      /\ BlendMode(2, "over") = Bits(DE_BLENDMODE.INVERSED)
  BY ONLY <1>3 DEF BlendMode
<1>. QED BY ONLY <1>1, <1>4, <1>5

\* The modes of global alpha differ.
LEMMA GlobalModesDiffer ==
  /\ GlobalMode(TRUE) = Bits(ALPHA_MODE.GLOBAL) /\ GlobalMode(FALSE) # Bits(ALPHA_MODE.GLOBAL)
  /\ {} # Bits(ALPHA_MODE.GLOBAL)
  /\ \A on \in BOOLEAN : GlobalMode(on) \subseteq 0 .. 1
<1>1. ALPHA_MODE.GLOBAL = 1 /\ ALPHA_MODE.NORMAL = 0
  BY SMT DEF ALPHA_MODE
<1>2. GlobalMode(TRUE) = Bits(1) /\ GlobalMode(FALSE) = Bits(0)
  BY ONLY <1>1 DEF GlobalMode
<1>3. Bits(0) # Bits(1) /\ Bits(0) \subseteq 0 .. 1 /\ Bits(1) \subseteq 0 .. 1
  <2>1. 0 \in 0 .. 255 /\ 1 \in 0 .. 255 /\ 0 \in 0 .. 3 /\ 1 \in 0 .. 3 /\ 0 # 1
    BY SMT
  <2>2. \A n \in 0 .. 3 : Bits(n) \subseteq 0 .. 1
    BY ONLY BitsFit, SMT
  <2>3. Bits(0) \subseteq 0 .. 1 /\ Bits(1) \subseteq 0 .. 1
    BY ONLY <2>1, <2>2
  <2>4. \A m, n \in 0 .. 255 : Bits(m) = Bits(n) => m = n
    BY ONLY BitsDiffer
  <2>5. Bits(0) # Bits(1)
    BY ONLY <2>1, <2>4
  <2>. QED BY ONLY <2>3, <2>5
<1>4. Num({}) = 0 /\ Num(Bits(1)) = 1
  <2>1. 1 \in 0 .. 255
    BY SMT
  <2>2. {} \subseteq 0 .. 30
    OBVIOUS
  <2>3. Num({}) = 0
    BY ONLY <2>2, NumWithout
  <2>. QED BY ONLY <2>1, <2>3, BitsDiffer, Zenon
<1>5. {} # Bits(1)
  BY ONLY <1>4, SMT
<1>. QED BY ONLY <1>1, <1>2, <1>3, <1>5

\* Without a blend, nothing is blended.
LEMMA NoBlendIsSeen ==
  ASSUME NEW regs, NEW S, Held(regs, S), NEW control, NEW modes, NEW src_color, NEW dst_color,
         NEW multiply, IsBlendRegs(control, modes), At(control, {}) \subseteq S
  PROVE  SeenBlend(regs, control, modes, src_color, dst_color, multiply) = AskedBlend(NoBlend)
<1>1. Word(regs, control) = {}
  BY WordIsHeld
<1>2. Field(regs, control, "ENABLE") = {}
  BY ONLY <1>1 DEF Field, Get
<1>. QED BY ONLY <1>2 DEF SeenBlend, AskedBlend

\* With one, the fields of the control and of the modes arrive.
LEMMA BlendFieldsAreSeen ==
  ASSUME NEW regs, NEW S, Held(regs, S), NEW control, NEW modes, IsBlendRegs(control, modes),
         NEW c, AtFields(control, c) \subseteq S, DOMAIN c \subseteq DOMAIN control.fields,
         "ENABLE" \in DOMAIN c, c["ENABLE"] = {0},
         NEW m, AtFields(modes, m) \subseteq S, DOMAIN m \subseteq DOMAIN modes.fields,
         {"SRC_BLENDING_MODE", "DST_BLENDING_MODE"} \subseteq DOMAIN m,
         m["SRC_BLENDING_MODE"] \subseteq 0 .. 2, m["DST_BLENDING_MODE"] \subseteq 0 .. 2,
         \A n \in {"GLOBAL_SRC_ALPHA_MODE", "GLOBAL_DST_ALPHA_MODE"} \cap DOMAIN m :
           m[n] \subseteq 0 .. 1
  PROVE  /\ Field(regs, control, "ENABLE") = {0}
         /\ Field(regs, modes, "SRC_BLENDING_MODE") = m["SRC_BLENDING_MODE"]
         /\ Field(regs, modes, "DST_BLENDING_MODE") = m["DST_BLENDING_MODE"]
         /\ \A n \in {"GLOBAL_SRC_ALPHA_MODE", "GLOBAL_DST_ALPHA_MODE"} :
              Field(regs, modes, n) = Given(m, n)
<1>1. /\ Alone(control.fields, "ENABLE") /\ control.fields["ENABLE"] = <<0, 0>>
      /\ \A n \in {"SRC_BLENDING_MODE", "DST_BLENDING_MODE", "GLOBAL_SRC_ALPHA_MODE",
                   "GLOBAL_DST_ALPHA_MODE"} : Alone(modes.fields, n)
  BY ONLY IsBlendRegs(control, modes), AlphaFields, AlphasAreAlone, SMT DEF IsBlendRegs
<1>2. /\ modes.fields["SRC_BLENDING_MODE"] = <<24, 26>>
      /\ modes.fields["DST_BLENDING_MODE"] = <<28, 30>>
      /\ modes.fields["GLOBAL_SRC_ALPHA_MODE"] = <<8, 9>>
      /\ modes.fields["GLOBAL_DST_ALPHA_MODE"] = <<12, 13>>
  BY ONLY IsBlendRegs(control, modes), AlphaFields, SMT DEF IsBlendRegs
<1>3. Field(regs, control, "ENABLE") = {0}
  <2>1. c["ENABLE"] \subseteq 0 .. control.fields["ENABLE"][2] - control.fields["ENABLE"][1]
    BY ONLY <1>1, c["ENABLE"] = {0}, SMT
  <2>2. Field(regs, control, "ENABLE") = c["ENABLE"]
    BY ONLY <1>1, <2>1, Held(regs, S), AtFields(control, c) \subseteq S,
            DOMAIN c \subseteq DOMAIN control.fields, "ENABLE" \in DOMAIN c, FieldArrives
  <2>. QED BY ONLY <2>2, c["ENABLE"] = {0}
<1>4. /\ m["SRC_BLENDING_MODE"] \subseteq
           0 .. modes.fields["SRC_BLENDING_MODE"][2] - modes.fields["SRC_BLENDING_MODE"][1]
      /\ m["DST_BLENDING_MODE"] \subseteq
           0 .. modes.fields["DST_BLENDING_MODE"][2] - modes.fields["DST_BLENDING_MODE"][1]
  BY ONLY <1>2, m["SRC_BLENDING_MODE"] \subseteq 0 .. 2, m["DST_BLENDING_MODE"] \subseteq 0 .. 2,
          SMT
<1>5. ASSUME NEW n \in {"GLOBAL_SRC_ALPHA_MODE", "GLOBAL_DST_ALPHA_MODE"}, n \in DOMAIN m
      PROVE  m[n] \subseteq 0 .. modes.fields[n][2] - modes.fields[n][1]
  <2>1. m[n] \subseteq 0 .. 1
    BY <1>5
  <2>2. modes.fields[n][2] - modes.fields[n][1] = 1
    BY ONLY <1>2, n \in {"GLOBAL_SRC_ALPHA_MODE", "GLOBAL_DST_ALPHA_MODE"}, SMT
  <2>. QED BY ONLY <2>1, <2>2
<1>6. /\ Held(regs, S) /\ AtFields(modes, m) \subseteq S /\ DOMAIN m \subseteq DOMAIN modes.fields
      /\ "SRC_BLENDING_MODE" \in DOMAIN m /\ "DST_BLENDING_MODE" \in DOMAIN m
  OBVIOUS
<1>7. Field(regs, modes, "SRC_BLENDING_MODE") = m["SRC_BLENDING_MODE"]
  BY ONLY <1>1, <1>4, <1>6, FieldArrives
<1>8. Field(regs, modes, "DST_BLENDING_MODE") = m["DST_BLENDING_MODE"]
  BY ONLY <1>1, <1>4, <1>6, FieldArrives
<1>9. ASSUME NEW n \in {"GLOBAL_SRC_ALPHA_MODE", "GLOBAL_DST_ALPHA_MODE"}
      PROVE  Field(regs, modes, n) = Given(m, n)
  <2>1. Alone(modes.fields, n)
    BY ONLY <1>1, n \in {"GLOBAL_SRC_ALPHA_MODE", "GLOBAL_DST_ALPHA_MODE"}
  <2>2. CASE n \in DOMAIN m
    <3>1. m[n] \subseteq 0 .. modes.fields[n][2] - modes.fields[n][1]
      BY ONLY <1>5, <1>9, <2>2
    <3>2. Field(regs, modes, n) = m[n]
      BY ONLY <1>6, <2>1, <2>2, <3>1, FieldArrives
    <3>. QED BY ONLY <2>2, <3>2 DEF Given
  <2>3. CASE n \notin DOMAIN m
    <3>2. Field(regs, modes, n) = {}
      BY ONLY <1>6, <2>1, <2>3, FieldArrives
    <3>. QED BY ONLY <2>3, <3>2 DEF Given
  <2>. QED BY ONLY <2>2, <2>3
<1>. QED BY ONLY <1>3, <1>7, <1>8, <1>9

\* The blend is the one of the operation,
LEMMA BlendIsSeen ==
  ASSUME NEW b, IsBlend(b), NEW regs, Held(regs, BlendSet(b))
  PROVE  SeenBlend(regs, VIVS_DE_ALPHA_CONTROL, VIVS_DE_ALPHA_MODES, VIVS_DE_GLOBAL_SRC_COLOR,
                   VIVS_DE_GLOBAL_DEST_COLOR, VIVS_DE_COLOR_MULTIPLY_MODES) = AskedBlend(b)
<1>. DEFINE S == BlendSet(b)
            control == VIVS_DE_ALPHA_CONTROL
            modes == VIVS_DE_ALPHA_MODES
            c == [ENABLE |-> {0}, PE10_GLOBAL_SRC_ALPHA |-> Bits(b.src_alpha),
                  PE10_GLOBAL_DST_ALPHA |-> Bits(b.dst_alpha)]
            m == BlendModes(b)
            z == [SRC_PREMULTIPLY |-> {}, DST_PREMULTIPLY |-> {}, SRC_GLOBAL_PREMULTIPLY |-> {},
                  DST_DEMULTIPLY |-> {}]
<1>1. /\ AtFields(control, c) \subseteq S /\ AtFields(modes, m) \subseteq S
      /\ At(VIVS_DE_GLOBAL_SRC_COLOR, Color24(b.src_alpha)) \subseteq S
      /\ At(VIVS_DE_GLOBAL_DEST_COLOR, Color24(b.dst_alpha)) \subseteq S
      /\ AtFields(VIVS_DE_COLOR_MULTIPLY_MODES, z) \subseteq S
  BY ONLY TRUE, Zenon DEF BlendSet
<1>2. /\ DOMAIN c = {"ENABLE", "PE10_GLOBAL_SRC_ALPHA", "PE10_GLOBAL_DST_ALPHA"}
      /\ c["ENABLE"] = {0}
  BY ONLY TRUE, SMT
<1>3. /\ DOMAIN m = {"GLOBAL_SRC_ALPHA_MODE", "GLOBAL_DST_ALPHA_MODE", "SRC_BLENDING_MODE",
                     "DST_BLENDING_MODE"}
      /\ m["GLOBAL_SRC_ALPHA_MODE"] = GlobalMode(b.src_global)
      /\ m["GLOBAL_DST_ALPHA_MODE"] = GlobalMode(b.dst_global)
      /\ m["SRC_BLENDING_MODE"] = BlendMode(1, b.cmd)
      /\ m["DST_BLENDING_MODE"] = BlendMode(2, b.cmd)
  BY ONLY TRUE, SMT DEF BlendModes
<1>4. Pack(VIVS_DE_COLOR_MULTIPLY_MODES.fields, z) = {}
  <2>1. \A n \in DOMAIN z : z[n] = {}
    BY ONLY TRUE, SMT
  <2>. HIDE DEF z
  <2>2. \A f : Put({}, f) = {}
    BY ONLY TRUE DEF Put
  <2>. QED BY ONLY <2>1, <2>2 DEF Pack
<1>5. Held(regs, S)
  OBVIOUS
<1>. HIDE DEF S, c, m, z, control, modes
<1>6. /\ Word(regs, VIVS_DE_GLOBAL_SRC_COLOR) = Color24(b.src_alpha)
      /\ Word(regs, VIVS_DE_GLOBAL_DEST_COLOR) = Color24(b.dst_alpha)
      /\ Word(regs, VIVS_DE_COLOR_MULTIPLY_MODES) = {}
  <2>1. At(VIVS_DE_COLOR_MULTIPLY_MODES, {}) \subseteq S
    BY ONLY <1>1, <1>4 DEF AtFields
  <2>. QED BY ONLY <1>1, <1>5, <2>1, WordIsHeld
<1>7. IsBlendRegs(control, modes)
  BY DEF IsBlendRegs, control, modes
<1>8. DOMAIN c \subseteq DOMAIN control.fields /\ DOMAIN m \subseteq DOMAIN modes.fields
  BY ONLY <1>2, <1>3, AlphaFields, SMT DEF control, modes
<1>9. /\ b.cmd \in DOMAIN viv2d_blend_ops /\ b.src_global \in BOOLEAN /\ b.dst_global \in BOOLEAN
      /\ b.src_alpha \in 0 .. 255 /\ b.dst_alpha \in 0 .. 255
  BY DEF IsBlend
<1>10. /\ m["SRC_BLENDING_MODE"] \subseteq 0 .. 2 /\ m["DST_BLENDING_MODE"] \subseteq 0 .. 2
  BY ONLY <1>3, <1>9, ModesFit
<1>11. \A n \in {"GLOBAL_SRC_ALPHA_MODE", "GLOBAL_DST_ALPHA_MODE"} \cap DOMAIN m :
         m[n] \subseteq 0 .. 1
  BY ONLY <1>3, <1>9, GlobalModesDiffer
<1>12. /\ "ENABLE" \in DOMAIN c
       /\ {"SRC_BLENDING_MODE", "DST_BLENDING_MODE"} \subseteq DOMAIN m
  BY ONLY <1>2, <1>3
<1>13. /\ Field(regs, control, "ENABLE") = {0}
       /\ Field(regs, modes, "SRC_BLENDING_MODE") = m["SRC_BLENDING_MODE"]
       /\ Field(regs, modes, "DST_BLENDING_MODE") = m["DST_BLENDING_MODE"]
       /\ \A n \in {"GLOBAL_SRC_ALPHA_MODE", "GLOBAL_DST_ALPHA_MODE"} :
            Field(regs, modes, n) = Given(m, n)
  BY ONLY <1>1, <1>2, <1>5, <1>7, <1>8, <1>10, <1>11, <1>12, BlendFieldsAreSeen
<1>14. /\ Field(regs, modes, "GLOBAL_SRC_ALPHA_MODE") = GlobalMode(b.src_global)
       /\ Field(regs, modes, "GLOBAL_DST_ALPHA_MODE") = GlobalMode(b.dst_global)
  BY ONLY <1>3, <1>13 DEF Given
<1>15. /\ GlobalMode(b.src_global) = Bits(ALPHA_MODE.GLOBAL) <=> b.src_global
       /\ GlobalMode(b.dst_global) = Bits(ALPHA_MODE.GLOBAL) <=> b.dst_global
  BY ONLY <1>9, GlobalModesDiffer, Zenon
<1>16. /\ Get(Color24(b.src_alpha), <<24, 31>>) = Bits(b.src_alpha)
       /\ Get(Color24(b.dst_alpha), <<24, 31>>) = Bits(b.dst_alpha)
  BY ONLY <1>9, AlphaIsHeld
<1>17. b # NoBlend
  <2>1. "none" \notin DOMAIN viv2d_blend_ops
    BY SMT DEF viv2d_blend_ops
  <2>. QED BY ONLY <1>9, <2>1 DEF NoBlend
<1>18. SeenBlend(regs, control, modes, VIVS_DE_GLOBAL_SRC_COLOR, VIVS_DE_GLOBAL_DEST_COLOR,
                 VIVS_DE_COLOR_MULTIPLY_MODES) =
         <<Field(regs, modes, "SRC_BLENDING_MODE"), Field(regs, modes, "DST_BLENDING_MODE"),
           IF b.src_global THEN <<Bits(b.src_alpha)>> ELSE <<>>,
           IF b.dst_global THEN <<Bits(b.dst_alpha)>> ELSE <<>>, {}>>
  <2>1. {0} # {}
    OBVIOUS
  <2>. QED BY ONLY <1>6, <1>13, <1>14, <1>15, <1>16, <2>1, Zenon DEF SeenBlend
<1>19. AskedBlend(b) =
         <<BlendMode(1, b.cmd), BlendMode(2, b.cmd),
           IF b.src_global THEN <<Bits(b.src_alpha)>> ELSE <<>>,
           IF b.dst_global THEN <<Bits(b.dst_alpha)>> ELSE <<>>, {}>>
  BY ONLY <1>17 DEF AskedBlend
<1>. QED BY ONLY <1>3, <1>13, <1>18, <1>19 DEF control, modes

\* Each of several is blended over, or not at all.
LEMMA BlockBlendIsSeen ==
  ASSUME NEW o, NEW i \in 0 .. 7, NEW regs, Held(regs, BlockBlendSet(o, i) \cup BlockColorSet(i)),
         o.blend = NoBlend \/ Over(o.blend)
  PROVE  SeenBlockBlend(regs, i) = AskedBlend(o.blend)
<1>. DEFINE T == BlockBlendSet(o, i) \cup BlockColorSet(i)
            control == VIVS_DE_BLOCK8_ALPHA_CONTROL(i)
            modes == VIVS_DE_BLOCK8_ALPHA_MODES(i)
            src_color == VIVS_DE_BLOCK8_GLOBAL_SRC_COLOR(i)
            dst_color == VIVS_DE_BLOCK8_GLOBAL_DEST_COLOR(i)
            multiply == VIVS_DE_BLOCK8_COLOR_MULTIPLY_MODES(i)
<1>1. IsBlendRegs(control, modes)
  BY SMT DEF IsBlendRegs, VIVS_DE_BLOCK8_ALPHA_CONTROL, VIVS_DE_BLOCK8_ALPHA_MODES, Block8, Reg
<1>2. At(multiply, {}) \subseteq T
  BY ONLY TRUE, Zenon DEF BlockColorSet
<1>3. Held(regs, T)
  OBVIOUS
<1>4. CASE o.blend = NoBlend
  <2>1. At(control, {}) \subseteq T
    BY ONLY <1>4, Zenon DEF BlockBlendSet
  <2>. HIDE DEF T, control, modes, src_color, dst_color, multiply
  <2>2. SeenBlend(regs, control, modes, src_color, dst_color, multiply) = AskedBlend(NoBlend)
    BY ONLY <1>1, <1>3, <2>1, NoBlendIsSeen, Zenon
  <2>. QED BY ONLY <1>4, <2>2
           DEF SeenBlockBlend, control, modes, src_color, dst_color, multiply
<1>5. CASE o.blend # NoBlend
  <2>. DEFINE c == [ENABLE |-> {0}, PE10_GLOBAL_SRC_ALPHA |-> Bits(o.blend.src_alpha),
                    PE10_GLOBAL_DST_ALPHA |-> Bits(o.blend.dst_alpha)]
              m == [SRC_BLENDING_MODE |-> Bits(DE_BLENDMODE.ONE),
                    DST_BLENDING_MODE |-> Bits(DE_BLENDMODE.INVERSED)]
  <2>0. o.blend.cmd = "over" /\ ~o.blend.src_global /\ ~o.blend.dst_global
    BY <1>5 DEF Over
  <2>1. AtFields(control, c) \subseteq T /\ AtFields(modes, m) \subseteq T
    BY ONLY <1>5, Zenon DEF BlockBlendSet
  <2>2. /\ DOMAIN c = {"ENABLE", "PE10_GLOBAL_SRC_ALPHA", "PE10_GLOBAL_DST_ALPHA"}
        /\ c["ENABLE"] = {0} /\ DOMAIN m = {"SRC_BLENDING_MODE", "DST_BLENDING_MODE"}
        /\ m["SRC_BLENDING_MODE"] = BlendMode(1, "over")
        /\ m["DST_BLENDING_MODE"] = BlendMode(2, "over")
    BY ONLY ModesFit, SMT
  <2>. HIDE DEF T, control, modes, src_color, dst_color, multiply, c, m
  <2>3. DOMAIN c \subseteq DOMAIN control.fields /\ DOMAIN m \subseteq DOMAIN modes.fields
    BY ONLY <1>1, <2>2, AlphaFields, SMT DEF IsBlendRegs
  <2>4. "over" \in DOMAIN viv2d_blend_ops
    BY SMT DEF viv2d_blend_ops
  <2>5. m["SRC_BLENDING_MODE"] \subseteq 0 .. 2 /\ m["DST_BLENDING_MODE"] \subseteq 0 .. 2
    BY ONLY <2>2, <2>4, ModesFit
  <2>6. {"GLOBAL_SRC_ALPHA_MODE", "GLOBAL_DST_ALPHA_MODE"} \cap DOMAIN m = {}
    BY ONLY <2>2
  <2>7. \A n \in {"GLOBAL_SRC_ALPHA_MODE", "GLOBAL_DST_ALPHA_MODE"} \cap DOMAIN m :
          m[n] \subseteq 0 .. 1
    BY ONLY <2>6
  <2>8. /\ "ENABLE" \in DOMAIN c
        /\ {"SRC_BLENDING_MODE", "DST_BLENDING_MODE"} \subseteq DOMAIN m
    BY ONLY <2>2
  <2>9. /\ Field(regs, control, "ENABLE") = {0}
        /\ Field(regs, modes, "SRC_BLENDING_MODE") = m["SRC_BLENDING_MODE"]
        /\ Field(regs, modes, "DST_BLENDING_MODE") = m["DST_BLENDING_MODE"]
        /\ \A n \in {"GLOBAL_SRC_ALPHA_MODE", "GLOBAL_DST_ALPHA_MODE"} :
             Field(regs, modes, n) = Given(m, n)
    BY ONLY <1>1, <1>3, <2>1, <2>2, <2>3, <2>5, <2>7, <2>8, BlendFieldsAreSeen
  <2>10. /\ Field(regs, modes, "GLOBAL_SRC_ALPHA_MODE") = {}
         /\ Field(regs, modes, "GLOBAL_DST_ALPHA_MODE") = {}
    BY ONLY <2>6, <2>9 DEF Given
  <2>11. Word(regs, multiply) = {}
    BY ONLY <1>2, <1>3, WordIsHeld
  <2>12. SeenBlend(regs, control, modes, src_color, dst_color, multiply) =
           <<BlendMode(1, "over"), BlendMode(2, "over"), <<>>, <<>>, {}>>
    <3>1. {0} # {}
      OBVIOUS
    <3>. QED BY ONLY <2>2, <2>9, <2>10, <2>11, <3>1, GlobalModesDiffer, Zenon DEF SeenBlend
  <2>13. AskedBlend(o.blend) = <<BlendMode(1, "over"), BlendMode(2, "over"), <<>>, <<>>, {}>>
    BY ONLY <1>5, <2>0, Zenon DEF AskedBlend
  <2>. QED BY ONLY <2>12, <2>13 DEF SeenBlockBlend, control, modes, src_color, dst_color, multiply
<1>. QED BY ONLY <1>4, <1>5

\* The command of the engine is the one of the operation, and no other.
LEMMA CommandIs ==
  ASSUME NEW cmd \in Cmds
  PROVE  /\ Bits(Command(cmd)) = Bits(COMMAND.CLEAR) <=> cmd = "clear"
         /\ Bits(Command(cmd)) = Bits(COMMAND.LINE) <=> cmd = "line"
         /\ Bits(Command(cmd)) = Bits(COMMAND.BIT_BLT) <=> cmd \in {"bitblt", "mono_blit"}
         /\ Bits(Command(cmd)) = Bits(COMMAND.STRETCH_BLT) <=> cmd = "stretchblt"
         /\ Bits(Command(cmd)) = Bits(COMMAND.MULTI_SOURCE_BLT) <=> cmd = "multsrcblt"
<1>1. /\ COMMAND.CLEAR = 0 /\ COMMAND.LINE = 1 /\ COMMAND.BIT_BLT = 2 /\ COMMAND.STRETCH_BLT = 4
      /\ COMMAND.MULTI_SOURCE_BLT = 8
  BY ONLY CommandsAreSmall
<1>2. /\ Command("clear") = 0 /\ Command("line") = 1 /\ Command("bitblt") = 2
      /\ Command("mono_blit") = 2 /\ Command("stretchblt") = 4 /\ Command("multsrcblt") = 8
  BY ONLY <1>1, SMT DEF Command
<1>3. \A m, n \in {0, 1, 2, 4, 8} : Bits(m) = Bits(n) => m = n
  <2>1. \A n \in {0, 1, 2, 4, 8} : n \in 0 .. 255
    BY SMT
  <2>2. \A m, n \in 0 .. 255 : Bits(m) = Bits(n) => m = n
    BY ONLY BitsDiffer
  <2>. QED BY ONLY <2>1, <2>2
<1>4. /\ Command(cmd) \in {0, 1, 2, 4, 8}
      /\ Command(cmd) = 0 <=> cmd = "clear"
      /\ Command(cmd) = 1 <=> cmd = "line"
      /\ Command(cmd) = 2 <=> cmd \in {"bitblt", "mono_blit"}
      /\ Command(cmd) = 4 <=> cmd = "stretchblt"
      /\ Command(cmd) = 8 <=> cmd = "multsrcblt"
  BY ONLY cmd \in Cmds, <1>2, SMT DEF Cmds
<1>. PICK n : n = Command(cmd)
  OBVIOUS
<1>5. /\ Bits(n) = Bits(0) <=> n = 0
      /\ Bits(n) = Bits(1) <=> n = 1
      /\ Bits(n) = Bits(2) <=> n = 2
      /\ Bits(n) = Bits(4) <=> n = 4
      /\ Bits(n) = Bits(8) <=> n = 8
  BY ONLY <1>3, <1>4, n = Command(cmd), SMT
<1>. QED BY ONLY <1>1, <1>4, <1>5, n = Command(cmd)

\* So is the raster operation: with the brush, or with the source.
LEMMA RopIsSeen ==
  ASSUME NEW o, o.rop \in {ROP_SRC, ROP_BRUSH}, NEW regs, Held(regs, RopSet(o))
  PROVE  Field(regs, VIVS_DE_ROP, "ROP_FG") = Bits(ROP_BRUSH) <=> o.rop = ROP_BRUSH
<1>. DEFINE S == RopSet(o)
            v == RopConfig(o)
            reg == VIVS_DE_ROP
<1>0. ROP_SRC \in 0 .. 255 /\ ROP_BRUSH \in 0 .. 255 /\ ROP_SRC # ROP_BRUSH
  BY SMT DEF ROP_SRC, ROP_BRUSH
<1>. PICK rop : rop = o.rop
  OBVIOUS
<1>0a. rop \in 0 .. 255
  BY <1>0
<1>1. AtFields(reg, v) \subseteq S
  BY ONLY TRUE, Zenon DEF RopSet
<1>2. DOMAIN v = {"ROP_FG", "ROP_BG", "TYPE"} /\ v["ROP_FG"] = Bits(rop)
  BY ONLY rop = o.rop, SMT DEF RopConfig
<1>3. {"ROP_FG", "ROP_BG", "TYPE"} \subseteq DOMAIN reg.fields /\ reg.fields["ROP_FG"] = <<0, 7>>
  BY SMT DEF VIVS_DE_ROP, Reg
<1>4. Bits(rop) \subseteq 0 .. 7
  BY ONLY <1>0a, BitsFit, SMT
<1>5. Held(regs, S) /\ Alone(reg.fields, "ROP_FG")
  BY ConfigsAreAlone
<1>. HIDE DEF S, v, reg
<1>6. Field(regs, reg, "ROP_FG") = v["ROP_FG"]
  <2>1. v["ROP_FG"] \subseteq 0 .. reg.fields["ROP_FG"][2] - reg.fields["ROP_FG"][1]
    BY ONLY <1>2, <1>3, <1>4, SMT
  <2>2. DOMAIN v \subseteq DOMAIN reg.fields /\ "ROP_FG" \in DOMAIN v
    BY ONLY <1>2, <1>3
  <2>. QED BY ONLY <1>1, <1>5, <2>1, <2>2, FieldArrives
<1>7. Bits(rop) = Bits(ROP_BRUSH) <=> rop = ROP_BRUSH
  <2>1. \A m, n \in 0 .. 255 : Bits(m) = Bits(n) => m = n
    BY ONLY BitsDiffer
  <2>. QED BY ONLY <1>0, <1>0a, <2>1
<1>. QED BY ONLY <1>2, <1>6, <1>7, rop = o.rop DEF reg

\* The source of a blit, and that it is in memory.
LEMMA OneSourceIsSeen ==
  ASSUME NEW o \in Ops, Addressable(o.srcs[1]), NEW regs, Held(regs, SourceSet(o))
  PROVE  /\ SeenSource(regs, VIVS_DE_SRC_ADDRESS, VIVS_DE_SRC_STRIDE, VIVS_DE_SRC_CONFIG,
                       VIVS_DE_SRC_ORIGIN, VIVS_DE_SRC_SIZE) = AskedSource(o, o.srcs[1])
         /\ Field(regs, VIVS_DE_SRC_CONFIG, "LOCATION") # Bits(LOCATION.STREAM)
<1>. DEFINE S == SourceSet(o)
<1>. PICK s : s = o.srcs[1]
  OBVIOUS
<1>1. /\ At(VIVS_DE_SRC_ADDRESS, GpuAddress[s]) \subseteq S
      /\ At(VIVS_DE_SRC_STRIDE, Bits(surf[s].pitch)) \subseteq S
      /\ AtFields(VIVS_DE_SRC_CONFIG, SourceConfig(s)) \subseteq S
      /\ AtFields(VIVS_DE_SRC_ORIGIN, [X |-> o.src_x, Y |-> o.src_y]) \subseteq S
      /\ AtFields(VIVS_DE_SRC_SIZE, SizeOf(s)) \subseteq S
  BY ONLY s = o.srcs[1], Zenon DEF SourceSet
<1>2. IsSourceRegs(VIVS_DE_SRC_ADDRESS, VIVS_DE_SRC_STRIDE, VIVS_DE_SRC_CONFIG,
                   VIVS_DE_SRC_ORIGIN, VIVS_DE_SRC_SIZE)
  BY SMT DEF IsSourceRegs, VIVS_DE_SRC_STRIDE, VIVS_DE_SRC_ORIGIN, VIVS_DE_SRC_SIZE, Reg
<1>3. Held(regs, S) /\ o.src_x \in Words /\ o.src_y \in Words
  BY DEF Ops
<1>4. Addressable(s)
  OBVIOUS
<1>5. GpuAddress[s] \in Words
  <2>1. s \in SurfaceIds
    BY <1>4 DEF Addressable
  <2>. QED BY ONLY <2>1, SomeWords
<1>. HIDE DEF S
<1>6. /\ SeenSource(regs, VIVS_DE_SRC_ADDRESS, VIVS_DE_SRC_STRIDE, VIVS_DE_SRC_CONFIG,
                    VIVS_DE_SRC_ORIGIN, VIVS_DE_SRC_SIZE) = AskedSource(o, s)
      /\ Field(regs, VIVS_DE_SRC_CONFIG, "LOCATION") = Bits(LOCATION.MEMORY)
  BY ONLY <1>1, <1>2, <1>3, <1>4, <1>5, SourceIsSeen, Zenon
<1>7. Bits(LOCATION.MEMORY) # Bits(LOCATION.STREAM)
  <2>1. LOCATION.MEMORY \in 0 .. 255 /\ LOCATION.STREAM \in 0 .. 255
        /\ LOCATION.MEMORY # LOCATION.STREAM
    BY SMT DEF LOCATION
  <2>2. \A m, n \in 0 .. 255 : Bits(m) = Bits(n) => m = n
    BY ONLY BitsDiffer
  <2>. QED BY ONLY <2>1, <2>2
<1>. QED BY ONLY <1>6, <1>7, s = o.srcs[1]

\* The data of a mono blit: it comes with the draw, and its rows are as long as the
\* caller says.
LEMMA StreamIsSeen ==
  ASSUME NEW o, o.cmd = "mono_blit", o.data_pitch = Bits(4), NEW regs, Held(regs, NoSourceSet(o))
  PROVE  /\ Field(regs, VIVS_DE_SRC_CONFIG, "LOCATION") = Bits(LOCATION.STREAM)
         /\ Field(regs, VIVS_DE_SRC_STRIDE, "STRIDE") = o.data_pitch
<1>. DEFINE S == NoSourceSet(o)
            v == MonoConfig
            reg == VIVS_DE_SRC_CONFIG
<1>. PICK p : p = o.data_pitch
  OBVIOUS
<1>1. AtFields(reg, v) \subseteq S /\ At(VIVS_DE_SRC_STRIDE, p) \subseteq S
  BY ONLY o.cmd = "mono_blit", p = o.data_pitch, Zenon DEF NoSourceSet
<1>2. /\ DOMAIN v = {"UNK16", "SOURCE_FORMAT", "LOCATION", "PACK", "PE10_SOURCE_FORMAT"}
      /\ v["LOCATION"] = Bits(LOCATION.STREAM)
  BY ONLY TRUE, SMT DEF MonoConfig
<1>3. Bits(LOCATION.STREAM) \subseteq 0 .. 0
  <2>1. LOCATION.STREAM = 1
    BY SMT DEF LOCATION
  <2>. QED BY ONLY <2>1, BitsFit, SMT
<1>4. Held(regs, S) /\ Alone(reg.fields, "LOCATION")
  BY ConfigsAreAlone
<1>5. p \subseteq 0 .. 17
  <2>1. p = Bits(4)
    OBVIOUS
  <2>2. 4 \in Nat /\ 4 <= 262143
    BY SMT
  <2>. QED BY ONLY <2>1, <2>2, BitsFit, SMT
<1>. HIDE DEF S, v
<1>6. Field(regs, reg, "LOCATION") = v["LOCATION"]
  <2>1. DOMAIN v \subseteq DOMAIN reg.fields /\ "LOCATION" \in DOMAIN v
        /\ reg.fields["LOCATION"] = <<8, 8>>
    BY ONLY <1>2, SourceFields, SMT
  <2>. HIDE DEF reg
  <2>2. v["LOCATION"] \subseteq 0 .. reg.fields["LOCATION"][2] - reg.fields["LOCATION"][1]
    BY ONLY <1>2, <1>3, <2>1, SMT
  <2>. QED BY ONLY <1>1, <1>4, <2>1, <2>2, FieldArrives
<1>7. VIVS_DE_SRC_STRIDE.fields = Stride
  BY SMT DEF VIVS_DE_SRC_STRIDE, Reg
<1>8. p \subseteq Nat /\ p \cap (0 .. 17) = p
  BY ONLY <1>5, StrideKeeps, Zenon
<1>9. Field(regs, VIVS_DE_SRC_STRIDE, "STRIDE") = p \cap (0 .. 17)
  BY ONLY <1>1, <1>4, <1>7, <1>8, StrideIsHeld
<1>. QED BY ONLY <1>2, <1>6, <1>8, <1>9, p = o.data_pitch

\* A source of several.
LEMMA BlockIsSeen ==
  ASSUME NEW o \in Ops, NEW s, Addressable(s), NEW i \in 0 .. 7,
         NEW regs, Held(regs, BlockSet(o, s, i))
  PROVE  SeenBlock(regs, i) = AskedSource(o, s)
<1>. DEFINE S == BlockSet(o, s, i)
            address == VIVS_DE_BLOCK8_SRC_ADDRESS(i)
            stride == VIVS_DE_BLOCK8_SRC_STRIDE(i)
            config == VIVS_DE_BLOCK8_SRC_CONFIG(i)
            origin == VIVS_DE_BLOCK8_SRC_ORIGIN(i)
            size == VIVS_DE_BLOCK8_SRC_SIZE(i)
<1>1. /\ At(address, GpuAddress[s]) \subseteq S
      /\ At(stride, Bits(surf[s].pitch)) \subseteq S
      /\ AtFields(config, SourceConfig(s)) \subseteq S
      /\ AtFields(origin, [X |-> o.src_x, Y |-> o.src_y]) \subseteq S
      /\ AtFields(size, SizeOf(s)) \subseteq S
  BY ONLY TRUE, Zenon DEF BlockSet, BlockSourceSet
<1>2. IsSourceRegs(address, stride, config, origin, size)
  BY SMT DEF IsSourceRegs, VIVS_DE_BLOCK8_SRC_STRIDE, VIVS_DE_BLOCK8_SRC_CONFIG,
             VIVS_DE_BLOCK8_SRC_ORIGIN, VIVS_DE_BLOCK8_SRC_SIZE, Block8, Reg
<1>3. Held(regs, S) /\ o.src_x \in Words /\ o.src_y \in Words
  BY DEF Ops
<1>4. Addressable(s)
  OBVIOUS
<1>5. GpuAddress[s] \in Words
  <2>1. s \in SurfaceIds
    BY <1>4 DEF Addressable
  <2>. QED BY ONLY <2>1, SomeWords
<1>. HIDE DEF S, address, stride, config, origin, size
<1>6. SeenSource(regs, address, stride, config, origin, size) = AskedSource(o, s)
  BY ONLY <1>1, <1>2, <1>3, <1>4, <1>5, SourceIsSeen
<1>. QED BY ONLY <1>6, Zenon DEF SeenBlock, address, stride, config, origin, size

\* All of them, and no other.
LEMMA BlocksAreSeen ==
  ASSUME NEW o \in Ops, Len(o.srcs) \in Nat \ {0}, Len(o.srcs) <= 4,
         \A i \in 1 .. Len(o.srcs) : Addressable(o.srcs[i]),
         NEW regs, Held(regs, MultiSet(o))
  PROVE  /\ Num(Field(regs, VIVS_DE_DE_MULTI_SOURCE, "MAX_SOURCE")) = Len(o.srcs) - 1
         /\ \A i \in 0 .. Len(o.srcs) - 1 :
              /\ SeenBlock(regs, i) = AskedSource(o, o.srcs[i + 1])
              /\ o.blend = NoBlend \/ Over(o.blend) =>
                   SeenBlockBlend(regs, i) = AskedBlend(o.blend)
<1>. DEFINE B == [i \in 1 .. Len(o.srcs) |-> BlockSet(o, o.srcs[i], i - 1)]
            S == MultiSet(o)
            v == MultiConfig(o)
            reg == VIVS_DE_DE_MULTI_SOURCE
<1>. PICK n \in Nat \ {0} : n = Len(o.srcs) /\ n <= 4
  OBVIOUS
<1>1. AtFields(reg, v) \subseteq S /\ AllOf(B, n) \subseteq S
  BY ONLY n = Len(o.srcs), Zenon DEF MultiSet
<1>2. Held(regs, S)
  OBVIOUS
<1>3. ASSUME NEW i \in 0 .. n - 1
      PROVE  /\ SeenBlock(regs, i) = AskedSource(o, o.srcs[i + 1])
             /\ o.blend = NoBlend \/ Over(o.blend) =>
                  SeenBlockBlend(regs, i) = AskedBlend(o.blend)
  <2>1. i + 1 \in 1 .. n /\ i \in 0 .. 7 /\ (i + 1) - 1 = i
    OBVIOUS
  <2>2. B[i + 1] = BlockSet(o, o.srcs[i + 1], i)
    BY ONLY <2>1, n = Len(o.srcs)
  <2>3. B[i + 1] \subseteq S
    <3>. HIDE DEF B, S
    <3>. QED BY ONLY <1>1, <2>1 DEF AllOf
  <2>4. Held(regs, BlockSet(o, o.srcs[i + 1], i))
    BY ONLY <1>2, <2>2, <2>3, HeldPart, Zenon
  <2>5. Addressable(o.srcs[i + 1])
    BY <2>1
  <2>6. SeenBlock(regs, i) = AskedSource(o, o.srcs[i + 1])
    BY <2>1, <2>4, <2>5, BlockIsSeen, Zenon
  <2>7. Held(regs, BlockBlendSet(o, i) \cup BlockColorSet(i))
    <3>1. BlockBlendSet(o, i) \cup BlockColorSet(i) \subseteq BlockSet(o, o.srcs[i + 1], i)
      BY ONLY TRUE, Zenon DEF BlockSet
    <3>. QED BY ONLY <2>4, <3>1, HeldPart, Zenon
  <2>8. ASSUME o.blend = NoBlend \/ Over(o.blend)
        PROVE  SeenBlockBlend(regs, i) = AskedBlend(o.blend)
    BY ONLY <2>1, <2>7, <2>8, BlockBlendIsSeen, Zenon
  <2>. QED BY <2>6, <2>8
<1>4. DOMAIN v = {"MAX_SOURCE", "VERTICAL_BLOCK", "HORIZONTAL_BLOCK"}
      /\ v["MAX_SOURCE"] = Bits(n - 1)
  BY ONLY n = Len(o.srcs), SMT DEF MultiConfig
<1>5. /\ {"MAX_SOURCE", "VERTICAL_BLOCK", "HORIZONTAL_BLOCK"} \subseteq DOMAIN reg.fields
      /\ reg.fields["MAX_SOURCE"] = <<0, 2>>
  BY SMT DEF VIVS_DE_DE_MULTI_SOURCE, Reg
<1>6. Alone(reg.fields, "MAX_SOURCE")
  BY ConfigsAreAlone
<1>. HIDE DEF S, v, reg, B
<1>7. n - 1 \in 0 .. 7 /\ n - 1 \in 0 .. 255
  <2>1. n <= 4
    OBVIOUS
  <2>. QED BY ONLY <2>1, n \in Nat \ {0}, SMT
<1>8. Field(regs, reg, "MAX_SOURCE") = v["MAX_SOURCE"]
  <2>1. Bits(n - 1) \subseteq 0 .. 2
    BY ONLY <1>7, BitsFit, SMT
  <2>2. v["MAX_SOURCE"] \subseteq 0 .. reg.fields["MAX_SOURCE"][2] - reg.fields["MAX_SOURCE"][1]
    BY ONLY <1>4, <1>5, <2>1, SMT
  <2>3. DOMAIN v \subseteq DOMAIN reg.fields /\ "MAX_SOURCE" \in DOMAIN v
    BY ONLY <1>4, <1>5
  <2>. QED BY ONLY <1>1, <1>2, <1>6, <2>2, <2>3, FieldArrives
<1>9. Num(Bits(n - 1)) = n - 1
  BY ONLY <1>7, BitsDiffer
<1>10. Num(Field(regs, reg, "MAX_SOURCE")) = n - 1
  BY ONLY <1>4, <1>8, <1>9
<1>. QED BY ONLY <1>3, <1>10, n = Len(o.srcs) DEF reg

\* The factors of a stretch, and where its steps end.
LEMMA StretchIsSeen ==
  ASSUME NEW o, Addressable(o.srcs[1]), Addressable(o.dst),
         surf[o.dst].width > 1, surf[o.dst].height > 1, NEW regs, Held(regs, StretchSet(o))
  PROVE  /\ Num(Field(regs, VIVS_DE_STRETCH_FACTOR_LOW, "X")) =
              StretchFactor(surf[o.srcs[1]].width, surf[o.dst].width)
         /\ Num(Field(regs, VIVS_DE_STRETCH_FACTOR_HIGH, "Y")) =
              StretchFactor(surf[o.srcs[1]].height, surf[o.dst].height)
<1>. DEFINE S == StretchSet(o)
<1>. PICK u, v, x, y : /\ u = surf[o.srcs[1]].width /\ v = surf[o.srcs[1]].height
                      /\ x = surf[o.dst].width /\ y = surf[o.dst].height
  OBVIOUS
<1>1. /\ u \in Nat \ {0} /\ u <= 32767 /\ v \in Nat \ {0} /\ v <= 32767
      /\ x \in Nat /\ x > 1 /\ y \in Nat /\ y > 1
  BY SMT DEF Addressable
<1>2. ASSUME NEW from \in Nat \ {0}, from <= 32767, NEW to \in Nat, to > 1
      PROVE  LET f == StretchFactor(from, to)
             IN  Num(Bits(f)) = f /\ Bits(f) \subseteq 0 .. 30 /\ Bits(f) \subseteq Nat
  <2>. DEFINE f == StretchFactor(from, to)
              a == (from - 1) * 65536
              b == to - 1
  <2>1. f \in Nat /\ f * b <= a
    BY <1>2, StretchEndsInSource
  <2>2. b \in Nat \ {0} /\ a \in Nat /\ a < 2147483648
    BY <1>2, SMT
  <2>3. Power(31) = 2147483648
    BY SMT DEF Power
  <2>. HIDE DEF f, a, b
  <2>4. f <= f * b
    BY ONLY <2>1, <2>2, SMT
  <2>5. f < Power(31)
    BY ONLY <2>1, <2>2, <2>3, <2>4, f * b \in Nat, SMT
  <2>6. Num(Bits(f)) = f
    BY ONLY <2>1, <2>5, NumOfBits
  <2>7. Bits(f) \subseteq 0 .. 30 /\ Bits(f) \subseteq Nat
    BY ONLY TRUE, BitsByPower, SMT
  <2>. QED BY ONLY <2>6, <2>7 DEF f
<1>. PICK f, g : f = StretchFactor(u, x) /\ g = StretchFactor(v, y)
  OBVIOUS
<1>3. /\ Num(Bits(f)) = f /\ Bits(f) \subseteq 0 .. 30
      /\ Num(Bits(g)) = g /\ Bits(g) \subseteq 0 .. 30
  BY ONLY <1>1, <1>2, f = StretchFactor(u, x) /\ g = StretchFactor(v, y)
<1>4. /\ AtFields(VIVS_DE_STRETCH_FACTOR_LOW, [X |-> Bits(f)]) \subseteq S
      /\ AtFields(VIVS_DE_STRETCH_FACTOR_HIGH, [Y |-> Bits(g)]) \subseteq S
  BY ONLY f = StretchFactor(u, x) /\ g = StretchFactor(v, y),
          u = surf[o.srcs[1]].width /\ v = surf[o.srcs[1]].height
          /\ x = surf[o.dst].width /\ y = surf[o.dst].height, Zenon DEF StretchSet
<1>5. Held(regs, S)
  OBVIOUS
<1>6. /\ VIVS_DE_STRETCH_FACTOR_LOW.fields = [X |-> <<0, 30>>]
      /\ VIVS_DE_STRETCH_FACTOR_HIGH.fields = [Y |-> <<0, 30>>]
  BY SMT DEF VIVS_DE_STRETCH_FACTOR_LOW, VIVS_DE_STRETCH_FACTOR_HIGH, Reg
<1>. HIDE DEF S
<1>7. Field(regs, VIVS_DE_STRETCH_FACTOR_LOW, "X") = Bits(f)
  <2>. DEFINE w == [X |-> Bits(f)]
              F == [X |-> <<0, 30>>]
              reg == VIVS_DE_STRETCH_FACTOR_LOW
  <2>1. DOMAIN w = {"X"} /\ w["X"] = Bits(f) /\ DOMAIN F = {"X"} /\ F["X"] = <<0, 30>>
    BY ONLY TRUE, SMT
  <2>2. Alone(F, "X")
    BY ONLY PairsAreAlone
  <2>3. reg.fields = F /\ AtFields(reg, w) \subseteq S
    BY ONLY <1>4, <1>6
  <2>. HIDE DEF w, F, reg
  <2>4. w["X"] \subseteq 0 .. reg.fields["X"][2] - reg.fields["X"][1]
    BY ONLY <1>3, <2>1, <2>3, SMT
  <2>5. Field(regs, reg, "X") = w["X"]
    BY ONLY <1>5, <2>1, <2>2, <2>3, <2>4, FieldArrives
  <2>. QED BY ONLY <2>1, <2>5 DEF reg
<1>8. Field(regs, VIVS_DE_STRETCH_FACTOR_HIGH, "Y") = Bits(g)
  <2>. DEFINE w == [Y |-> Bits(g)]
              F == [Y |-> <<0, 30>>]
              reg == VIVS_DE_STRETCH_FACTOR_HIGH
  <2>1. DOMAIN w = {"Y"} /\ w["Y"] = Bits(g) /\ DOMAIN F = {"Y"} /\ F["Y"] = <<0, 30>>
    BY ONLY TRUE, SMT
  <2>2. Alone(F, "Y")
    BY ONLY PairsAreAlone
  <2>3. reg.fields = F /\ AtFields(reg, w) \subseteq S
    BY ONLY <1>4, <1>6
  <2>. HIDE DEF w, F, reg
  <2>4. w["Y"] \subseteq 0 .. reg.fields["Y"][2] - reg.fields["Y"][1]
    BY ONLY <1>3, <2>1, <2>3, SMT
  <2>5. Field(regs, reg, "Y") = w["Y"]
    BY ONLY <1>5, <2>1, <2>2, <2>3, <2>4, FieldArrives
  <2>. QED BY ONLY <2>1, <2>5 DEF reg
<1>. QED BY ONLY <1>3, <1>7, <1>8, f = StretchFactor(u, x) /\ g = StretchFactor(v, y),
             u = surf[o.srcs[1]].width /\ v = surf[o.srcs[1]].height
             /\ x = surf[o.dst].width /\ y = surf[o.dst].height

\* The words of pairs, one behind the other.
LEMMA PairsAt ==
  ASSUME NEW s \in Seq(Seq(Words)), \A i \in 1 .. Len(s) : Len(s[i]) = 2
  PROVE  \A i \in 1 .. Len(s) : /\ FlattenSeq(s)[2 * i - 1] = s[i][1]
                                /\ FlattenSeq(s)[2 * i] = s[i][2]
<1>. DEFINE L == Len(s)
<1>0. L \in Nat /\ \A i \in 1 .. L : s[i] \in Seq(Words) /\ Len(s[i]) = 2
  OBVIOUS
<1>1. PICK F : /\ F[0] = <<>> /\ F[L] = FlattenSeq(s)
               /\ \A i \in 0 .. L : F[i] \in Seq(Words)
               /\ \A i \in 1 .. L : F[i] = F[i - 1] \o s[i]
  BY FlattenSteps
<1>. HIDE DEF L
<1>. DEFINE Paired(k) == /\ Len(F[k]) = 2 * k
                         /\ \A i \in 1 .. k : F[k][2 * i - 1] = s[i][1] /\ F[k][2 * i] = s[i][2]
            T == {k \in Nat : k <= L => Paired(k)}
<1>2. 0 \in T
  BY <1>1
<1>3. ASSUME NEW k \in Nat, k \in T PROVE k + 1 \in T
  <2>. SUFFICES ASSUME k + 1 <= L PROVE Paired(k + 1)
    OBVIOUS
  <2>1. k + 1 \in 1 .. L /\ k \in 0 .. L /\ (k + 1) - 1 = k /\ k <= L
    BY <1>0
  <2>2. Paired(k)
    BY <1>3, <2>1
  <2>3. F[k + 1] = F[(k + 1) - 1] \o s[k + 1]
    BY ONLY <1>1, <2>1, Zenon
  <2>. PICK u, v : u = F[k] /\ v = s[k + 1]
    OBVIOUS
  <2>4. u \in Seq(Words) /\ Len(u) = 2 * k /\ v \in Seq(Words) /\ Len(v) = 2
    BY ONLY <1>0, <1>1, <2>1, <2>2, u = F[k] /\ v = s[k + 1]
  <2>5. F[k + 1] = u \o v
    BY ONLY <2>1, <2>3, u = F[k] /\ v = s[k + 1]
  <2>6. /\ Len(u \o v) = 2 * k + 2
        /\ \A j \in 1 .. 2 * k : (u \o v)[j] = u[j]
        /\ (u \o v)[2 * k + 1] = v[1] /\ (u \o v)[2 * k + 2] = v[2]
    <3>1. /\ Len(u \o v) = Len(u) + Len(v)
          /\ \A j \in 1 .. Len(u) + Len(v) :
               (u \o v)[j] = IF j <= Len(u) THEN u[j] ELSE v[j - Len(u)]
      BY ONLY <2>4, ConcatProperties
    <3>. PICK w : w = u \o v
      OBVIOUS
    <3>2. /\ Len(w) = 2 * k + 2
          /\ \A j \in 1 .. 2 * k + 2 : w[j] = IF j <= 2 * k THEN u[j] ELSE v[j - 2 * k]
      BY ONLY <2>4, <3>1, w = u \o v, k \in Nat
    <3>3. /\ 2 * k + 1 \in 1 .. 2 * k + 2 /\ 2 * k + 2 \in 1 .. 2 * k + 2
          /\ (2 * k + 1) - 2 * k = 1 /\ (2 * k + 2) - 2 * k = 2
          /\ ~(2 * k + 1 <= 2 * k) /\ ~(2 * k + 2 <= 2 * k)
          /\ \A j \in 1 .. 2 * k : j \in 1 .. 2 * k + 2 /\ j <= 2 * k
      BY ONLY k \in Nat
    <3>. QED BY ONLY <3>2, <3>3, w = u \o v
  <2>. PICK w : w = F[k + 1]
    OBVIOUS
  <2>7. /\ Len(w) = 2 * k + 2 /\ \A j \in 1 .. 2 * k : w[j] = u[j]
        /\ w[2 * k + 1] = s[k + 1][1] /\ w[2 * k + 2] = s[k + 1][2]
    BY ONLY <2>5, <2>6, w = F[k + 1], u = F[k] /\ v = s[k + 1]
  <2>8. ASSUME NEW i \in 1 .. k + 1
        PROVE  w[2 * i - 1] = s[i][1] /\ w[2 * i] = s[i][2]
    <3>1. CASE i <= k
      <4>1. i \in 1 .. k /\ 2 * i - 1 \in 1 .. 2 * k /\ 2 * i \in 1 .. 2 * k
        BY ONLY <3>1, i \in 1 .. k + 1, k \in Nat
      <4>2. u[2 * i - 1] = s[i][1] /\ u[2 * i] = s[i][2]
        BY ONLY <2>2, <4>1, u = F[k] /\ v = s[k + 1]
      <4>. QED BY ONLY <2>7, <4>1, <4>2
    <3>2. CASE i = k + 1
      <4>1. 2 * i - 1 = 2 * k + 1 /\ 2 * i = 2 * k + 2
        BY ONLY <3>2, k \in Nat
      <4>. QED BY ONLY <2>7, <3>2, <4>1
    <3>. QED BY ONLY <3>1, <3>2, i \in 1 .. k + 1, k \in Nat
  <2>9. Len(w) = 2 * (k + 1)
    BY ONLY <2>7, k \in Nat
  <2>. QED BY ONLY <2>8, <2>9, w = F[k + 1]
<1>. HIDE DEF T
<1>4. L \in T
  BY <1>0, <1>2, <1>3, Induct
<1>5. Paired(L)
  BY <1>0, <1>4 DEF T
<1>6. F[L] = FlattenSeq(s)
  BY ONLY <1>1
<1>. QED BY ONLY <1>5, <1>6 DEF L

\* The words of the rectangles of an operation, and their corners.
RectsOf(o) == [i \in 1 .. Len(o.rects) |-> RectWords(o.rects[i])]
CornerPair(c, i) ==
  <<Corner(c[2 * i - 1], VIV_FE_DRAW_2D_TOP_LEFT), Corner(c[2 * i], VIV_FE_DRAW_2D_BOTTOM_RIGHT)>>

\* The corners are read back from the words.
LEMMA CornersAreSeen ==
  ASSUME NEW o, Len(o.rects) \in Nat, \A i \in 1 .. Len(o.rects) : CornersFit(o.rects[i])
  PROVE  LET c == FlattenSeq(RectsOf(o))
         IN  /\ c \in Seq(Words) /\ Len(c) = 2 * Len(o.rects)
             /\ Len(c) \div 2 = Len(o.rects)
             /\ \A i \in 1 .. Len(o.rects) : CornerPair(c, i) = Corners(o.rects[i])
<1>. DEFINE s == RectsOf(o)
            c == FlattenSeq(s)
<1>. PICK n \in Nat : n = Len(o.rects)
  OBVIOUS
<1>1. /\ s \in Seq(Seq(Words)) /\ Len(s) = n
      /\ \A i \in 1 .. n : Len(s[i]) = 2 /\ s[i] = RectWords(o.rects[i])
  BY ONLY n = Len(o.rects), n \in Nat, RectWordsFit DEF RectsOf
<1>. HIDE DEF s
<1>2. c \in Seq(Words) /\ Len(c) = 2 * n
  BY ONLY <1>1, PairsFlat
<1>3. \A i \in 1 .. n : c[2 * i - 1] = s[i][1] /\ c[2 * i] = s[i][2]
  BY ONLY <1>1, PairsAt
<1>4. ASSUME NEW r, CornersFit(r)
      PROVE  /\ Corner(RectWords(r)[1], VIV_FE_DRAW_2D_TOP_LEFT) = Corners(r)[1]
             /\ Corner(RectWords(r)[2], VIV_FE_DRAW_2D_BOTTOM_RIGHT) = Corners(r)[2]
  <2>1. \A w : w \subseteq ClipBits => w \subseteq 0 .. 15
    BY SMT DEF ClipBits
  <2>2. \A m \in {r.x, r.y, r.x + r.width, r.y + r.height} : Bits(m) \subseteq ClipBits
    BY ONLY <1>4, CornersAreSmall
  <2>3. \A m \in {r.x, r.y, r.x + r.width, r.y + r.height} : Bits(m) \subseteq 0 .. 15
    BY ONLY <2>1, <2>2, Zenon
  <2>. QED BY ONLY <2>3, RectArrives
<1>5. ASSUME NEW i \in 1 .. n
      PROVE  CornerPair(c, i) = Corners(o.rects[i])
  <2>. PICK r : r = o.rects[i]
    OBVIOUS
  <2>1. CornersFit(r)
    BY ONLY r = o.rects[i], i \in 1 .. n, n = Len(o.rects),
            \A k \in 1 .. Len(o.rects) : CornersFit(o.rects[k])
  <2>2. c[2 * i - 1] = RectWords(r)[1] /\ c[2 * i] = RectWords(r)[2]
    BY ONLY <1>1, <1>3, r = o.rects[i], i \in 1 .. n
  <2>3. CornerPair(c, i) = <<Corners(r)[1], Corners(r)[2]>>
    BY ONLY <1>4, <2>1, <2>2 DEF CornerPair
  <2>. QED BY ONLY <2>3, r = o.rects[i] DEF Corners
<1>6. Len(c) \div 2 = n
  <2>. PICK m : m = Len(c)
    OBVIOUS
  <2>1. m = 2 * n
    BY <1>2
  <2>2. m \div 2 = n
    BY ONLY <2>1, n \in Nat, SMT
  <2>. QED BY ONLY <2>2, m = Len(c)
<1>. QED BY ONLY <1>2, <1>5, <1>6, n = Len(o.rects) DEF s

\* What the engine makes of its command and of its registers.
Commanded(regs, c) == Field(regs, VIVS_DE_DEST_CONFIG, "COMMAND") = Bits(c)
Brushed(regs) ==
  Commanded(regs, COMMAND.BIT_BLT) /\ Field(regs, VIVS_DE_ROP, "ROP_FG") = Bits(ROP_BRUSH)
Reads(regs) ==
  Commanded(regs, COMMAND.STRETCH_BLT) \/ (Commanded(regs, COMMAND.BIT_BLT) /\ ~Brushed(regs))
Streamed(regs) ==
  Reads(regs) /\ Field(regs, VIVS_DE_SRC_CONFIG, "LOCATION") = Bits(LOCATION.STREAM)
SourcesSeen(regs) == 0 .. Num(Field(regs, VIVS_DE_DE_MULTI_SOURCE, "MAX_SOURCE"))

\* The parts of what is asked for.
AskedSizes(o) ==
  IF o.cmd = "stretchblt"
  THEN <<surf[o.srcs[1]].width, surf[o.srcs[1]].height, surf[o.dst].width, surf[o.dst].height>>
  ELSE <<>>

\* A draw shows what was asked for, as EngineSeesOp and StretchSpansSource have it.
Shows(d, a) ==
  /\ \A n \in DOMAIN a \ ({"sizes", "dropped"} \cup a.dropped) : d[n] = a[n]
  /\ d.stretch # <<>> =>
       \A k \in {1, 2} :
         LET from == a.sizes[k]
             to == a.sizes[k + 2]
             f == d.stretch[k]
         IN  f * (to - 1) <= (from - 1) * 65536 /\ (from - 1) * 65536 < (f + 1) * (to - 1)

\* A blend as viv2d_op_set_blend takes it.
Blended(o) == o.blend # NoBlend => IsBlend(o.blend)

\* An operation as the client describes it: sources and data for its command, colors
\* and a pattern for a fill, and nothing wider than the clip registers.
Described(o) ==
  /\ o \in Ops /\ Addressable(o.dst) /\ CornersFit(o.clip)
  /\ \A i \in 1 .. Len(o.rects) : CornersFit(o.rects[i])
  /\ \A i \in 1 .. Len(o.srcs) : Addressable(o.srcs[i])
  /\ Len(o.srcs) \in Nat /\ Len(o.srcs) <= 4
  /\ Blended(o)
  /\ o.cmd \in {"clear", "line", "mono_blit"} => o.srcs = <<>>
  /\ o.cmd = "bitblt" => Len(o.srcs) <= 1
  /\ o.cmd = "stretchblt" => Len(o.srcs) = 1 /\ surf[o.dst].width > 1 /\ surf[o.dst].height > 1
  /\ o.cmd = "multsrcblt" => o.srcs # <<>>
  /\ o.pat_fill => o.cmd = "bitblt" /\ o.srcs = <<>>
  /\ o.rop = ROP_BRUSH => o.pat_fill
  /\ o.cmd = "mono_blit" /\ o.data # <<>> => o.data_pitch = Bits(4)

\* And as viv2d_op_exec sends it.
Executed(o) ==
  /\ Described(o) /\ Len(o.rects) \in Nat
  /\ o.rop = ROP_BRUSH <=> o.pat_fill
  /\ o.cmd = "bitblt" => o.srcs # <<>> \/ o.pat_fill
  /\ o.cmd = "mono_blit" => o.data_pitch = Bits(4)

\* The registers that an operation writes hold its words, group by group.
LEMMA GroupsAreHeld ==
  ASSUME NEW o, NEW regs, Held(regs, ProgramSet(o))
  PROVE  /\ Held(regs, DestSet(o)) /\ Held(regs, ClipSet(o))
         /\ o.cmd = "multsrcblt" => Held(regs, MultiSet(o))
         /\ o.cmd # "multsrcblt" =>
              /\ o.srcs # <<>> => Held(regs, SourceSet(o))
              /\ o.srcs = <<>> => Held(regs, NoSourceSet(o))
              /\ Held(regs, RopSet(o)) /\ Held(regs, AlphaSet(o))
         /\ o.cmd = "stretchblt" => Held(regs, StretchSet(o))
         /\ o.pat_fill => Held(regs, PatternSet(o))
         /\ o.cmd = "clear" => Held(regs, ClearSet(o))
<1>. DEFINE P == ProgramSet(o)
<1>1. /\ DestSet(o) \subseteq P /\ ClipSet(o) \subseteq P
      /\ o.cmd = "multsrcblt" => MultiSet(o) \subseteq P
      /\ o.cmd # "multsrcblt" /\ o.srcs # <<>> => SourceSet(o) \subseteq P
      /\ o.cmd # "multsrcblt" /\ o.srcs = <<>> => NoSourceSet(o) \subseteq P
      /\ o.cmd # "multsrcblt" => RopSet(o) \subseteq P
      /\ o.cmd # "multsrcblt" => AlphaSet(o) \subseteq P
      /\ o.cmd = "stretchblt" => StretchSet(o) \subseteq P
      /\ o.pat_fill => PatternSet(o) \subseteq P
      /\ o.cmd = "clear" => ClearSet(o) \subseteq P
  BY ONLY TRUE, SMT DEF ProgramSet, WhenSet
<1>2. Held(regs, P)
  OBVIOUS
<1>. HIDE DEF P
<1>. QED BY ONLY <1>1, <1>2, HeldPart, Zenon

\* The engine knows the kind of the operation.
LEMMA KindIsSeen ==
  ASSUME NEW o, Executed(o), NEW regs, Held(regs, ProgramSet(o))
  PROVE  /\ Field(regs, VIVS_DE_DEST_CONFIG, "COMMAND") = Bits(Command(o.cmd))
         /\ Commanded(regs, COMMAND.CLEAR) <=> o.cmd = "clear"
         /\ Commanded(regs, COMMAND.LINE) <=> o.cmd = "line"
         /\ Commanded(regs, COMMAND.STRETCH_BLT) <=> o.cmd = "stretchblt"
         /\ Commanded(regs, COMMAND.MULTI_SOURCE_BLT) <=> o.cmd = "multsrcblt"
         /\ Brushed(regs) <=> o.pat_fill
         /\ Reads(regs) <=>
              o.cmd \in {"stretchblt", "mono_blit"} \/ (o.cmd = "bitblt" /\ ~o.pat_fill)
         /\ Streamed(regs) <=> o.cmd = "mono_blit"
<1>0. /\ o \in Ops /\ Addressable(o.dst) /\ o.cmd \in Cmds /\ o.rop \in {ROP_SRC, ROP_BRUSH}
      /\ o.dst \in SurfaceIds /\ o.srcs \in Seq(SurfaceIds) /\ o.pat_fill \in BOOLEAN
  BY SMT DEF Executed, Described, Ops
<1>1. /\ \A i \in 1 .. Len(o.srcs) : Addressable(o.srcs[i])
      /\ o.cmd \in {"clear", "line", "mono_blit"} => o.srcs = <<>>
      /\ o.cmd = "stretchblt" => Len(o.srcs) = 1
      /\ o.pat_fill => o.cmd = "bitblt" /\ o.srcs = <<>>
      /\ o.rop = ROP_BRUSH <=> o.pat_fill
      /\ o.cmd = "bitblt" => o.srcs # <<>> \/ o.pat_fill
      /\ o.cmd = "mono_blit" => o.data_pitch = Bits(4)
  BY SMT DEF Executed, Described
<1>2. Field(regs, VIVS_DE_DEST_CONFIG, "COMMAND") = Bits(Command(o.cmd))
  <2>1. Held(regs, DestSet(o))
    BY ONLY Held(regs, ProgramSet(o)), GroupsAreHeld, Zenon
  <2>2. GpuAddress[o.dst] \in Words
    BY ONLY <1>0, SomeWords
  <2>. QED BY ONLY <1>0, <2>1, <2>2, DestIsSeen, Zenon
<1>3. /\ Commanded(regs, COMMAND.CLEAR) <=> o.cmd = "clear"
      /\ Commanded(regs, COMMAND.LINE) <=> o.cmd = "line"
      /\ Commanded(regs, COMMAND.BIT_BLT) <=> o.cmd \in {"bitblt", "mono_blit"}
      /\ Commanded(regs, COMMAND.STRETCH_BLT) <=> o.cmd = "stretchblt"
      /\ Commanded(regs, COMMAND.MULTI_SOURCE_BLT) <=> o.cmd = "multsrcblt"
  BY ONLY <1>0, <1>2, CommandIs, Zenon DEF Commanded
<1>4. o.cmd # "multsrcblt" =>
        (Field(regs, VIVS_DE_ROP, "ROP_FG") = Bits(ROP_BRUSH) <=> o.pat_fill)
  <2>1. o.cmd # "multsrcblt" => Held(regs, RopSet(o))
    BY ONLY Held(regs, ProgramSet(o)), GroupsAreHeld, Zenon
  <2>2. ASSUME o.cmd # "multsrcblt"
        PROVE  Field(regs, VIVS_DE_ROP, "ROP_FG") = Bits(ROP_BRUSH) <=> o.rop = ROP_BRUSH
    <3>1. Held(regs, RopSet(o)) /\ o.rop \in {ROP_SRC, ROP_BRUSH}
      BY ONLY <1>0, <2>1, <2>2
    <3>. QED BY ONLY <3>1, RopIsSeen
  <2>. QED BY ONLY <1>1, <2>2
<1>5. Brushed(regs) <=> o.pat_fill
  BY ONLY <1>1, <1>3, <1>4, SMT DEF Brushed
<1>6. Reads(regs) <=> o.cmd \in {"stretchblt", "mono_blit"} \/ (o.cmd = "bitblt" /\ ~o.pat_fill)
  BY ONLY <1>1, <1>3, <1>5, SMT DEF Reads
<1>7. o.cmd = "mono_blit" => Field(regs, VIVS_DE_SRC_CONFIG, "LOCATION") = Bits(LOCATION.STREAM)
  <2>. SUFFICES ASSUME o.cmd = "mono_blit"
                PROVE  Field(regs, VIVS_DE_SRC_CONFIG, "LOCATION") = Bits(LOCATION.STREAM)
    OBVIOUS
  <2>1. o.srcs = <<>> /\ o.data_pitch = Bits(4) /\ o.cmd # "multsrcblt"
    BY ONLY <1>1, o.cmd = "mono_blit", SMT
  <2>2. Held(regs, NoSourceSet(o))
    BY ONLY <2>1, Held(regs, ProgramSet(o)), GroupsAreHeld, Zenon
  <2>. QED BY ONLY <2>1, <2>2, o.cmd = "mono_blit", StreamIsSeen, Zenon
<1>8. Reads(regs) /\ o.cmd # "mono_blit" =>
        Field(regs, VIVS_DE_SRC_CONFIG, "LOCATION") # Bits(LOCATION.STREAM)
  <2>. SUFFICES ASSUME Reads(regs), o.cmd # "mono_blit"
                PROVE  Field(regs, VIVS_DE_SRC_CONFIG, "LOCATION") # Bits(LOCATION.STREAM)
    OBVIOUS
  <2>0. o.cmd = "stretchblt" \/ (o.cmd = "bitblt" /\ ~o.pat_fill)
    BY ONLY <1>6, Reads(regs), o.cmd # "mono_blit", Zenon
  <2>z. Len(<<>>) = 0
    OBVIOUS
  <2>a. o.cmd = "stretchblt" => o.srcs # <<>>
    BY ONLY <1>1, <2>z
  <2>b. o.srcs # <<>> /\ o.cmd # "multsrcblt"
    BY ONLY <1>1, <2>0, <2>a
  <2>1. o.srcs # <<>> /\ o.cmd # "multsrcblt" /\ 1 \in 1 .. Len(o.srcs)
    BY ONLY <1>0, <2>b
  <2>2. Held(regs, SourceSet(o))
    BY ONLY <2>1, Held(regs, ProgramSet(o)), GroupsAreHeld, Zenon
  <2>3. Addressable(o.srcs[1])
    BY ONLY <1>1, <2>1
  <2>. QED BY ONLY <1>0, <2>2, <2>3, OneSourceIsSeen, Zenon
<1>9. Streamed(regs) <=> o.cmd = "mono_blit"
  BY ONLY <1>6, <1>7, <1>8, SMT DEF Streamed
<1>. QED BY ONLY <1>2, <1>3, <1>5, <1>6, <1>9

\* The blocks that are asked for, and their blends.
AskedBlocks(o) ==
  [i \in 0 .. Len(o.srcs) - 1 |-> AskedSource(o, o.srcs[i + 1])]
AskedBlends(o) == [i \in 0 .. Len(o.srcs) - 1 |-> AskedBlend(o.blend)]

\* A draw behind the writes of its operation shows what the operation asked for.
LEMMA SeenIsAsked ==
  ASSUME NEW o, Executed(o), NEW regs, Held(regs, ProgramSet(o))
  PROVE  Shows(Seen(regs, FlattenSeq(RectsOf(o)), o.data), Asked(o))
<1>. PICK c : c = FlattenSeq(RectsOf(o))
  OBVIOUS
<1>. PICK d, a : d = Seen(regs, c, o.data) /\ a = Asked(o)
  OBVIOUS
<1>s. /\ d.command = Field(regs, VIVS_DE_DEST_CONFIG, "COMMAND")
      /\ d.dst = <<Word(regs, VIVS_DE_DEST_ADDRESS),
                   Field(regs, VIVS_DE_DEST_STRIDE, "STRIDE"),
                   Field(regs, VIVS_DE_DEST_CONFIG, "FORMAT"),
                   Field(regs, VIVS_DE_DEST_CONFIG, "SWIZZLE")>>
      /\ d.clip = <<Point(regs, VIVS_DE_CLIP_TOP_LEFT),
                    Point(regs, VIVS_DE_CLIP_BOTTOM_RIGHT)>>
      /\ d.corners = [i \in 1 .. Len(c) \div 2 |-> CornerPair(c, i)]
      /\ d.color = CASE Commanded(regs, COMMAND.CLEAR) -> {Word(regs, VIVS_DE_CLEAR_PIXEL_VALUE32)}
                      [] Commanded(regs, COMMAND.LINE) ->
                           {Word(regs, VIVS_DE_CLEAR_PIXEL_VALUE32),
                            Word(regs, VIVS_DE_PATTERN_FG_COLOR), Word(regs, VIVS_DE_SRC_COLOR_FG)}
                      [] Brushed(regs) -> {Word(regs, VIVS_DE_PATTERN_FG_COLOR)}
                      [] Streamed(regs) -> {Word(regs, VIVS_DE_SRC_COLOR_FG)}
                      [] OTHER -> {}
      /\ d.data = IF Streamed(regs)
                  THEN <<Field(regs, VIVS_DE_SRC_STRIDE, "STRIDE"), o.data>> ELSE <<>>
      /\ d.src = IF Reads(regs) /\ ~Streamed(regs)
                 THEN <<SeenSource(regs, VIVS_DE_SRC_ADDRESS, VIVS_DE_SRC_STRIDE,
                                   VIVS_DE_SRC_CONFIG, VIVS_DE_SRC_ORIGIN,
                                   VIVS_DE_SRC_SIZE)>>
                 ELSE <<>>
      /\ d.blocks = IF Commanded(regs, COMMAND.MULTI_SOURCE_BLT)
                    THEN [i \in SourcesSeen(regs) |-> SeenBlock(regs, i)] ELSE <<>>
      /\ d.blend = IF Commanded(regs, COMMAND.MULTI_SOURCE_BLT)
                   THEN [i \in SourcesSeen(regs) |-> SeenBlockBlend(regs, i)]
                   ELSE SeenBlend(regs, VIVS_DE_ALPHA_CONTROL, VIVS_DE_ALPHA_MODES,
                                  VIVS_DE_GLOBAL_SRC_COLOR, VIVS_DE_GLOBAL_DEST_COLOR,
                                  VIVS_DE_COLOR_MULTIPLY_MODES)
      /\ d.stretch = IF Commanded(regs, COMMAND.STRETCH_BLT)
                     THEN <<Num(Field(regs, VIVS_DE_STRETCH_FACTOR_LOW, "X")),
                            Num(Field(regs, VIVS_DE_STRETCH_FACTOR_HIGH, "Y"))>>
                     ELSE <<>>
  BY ONLY d = Seen(regs, c, o.data), SMT
     DEF Seen, Commanded, Brushed, Reads, Streamed, SourcesSeen, CornerPair
<1>a. /\ DOMAIN a = {"command", "dst", "clip", "corners", "color", "data", "src", "blocks",
                     "blend", "dropped", "sizes"}
      /\ a.command = Bits(Command(o.cmd))
      /\ a.dst = <<GpuAddress[o.dst], Bits(surf[o.dst].pitch),
                   Bits(FormatOf(o.dst).fmt), Bits(FormatOf(o.dst).swizzle)>>
      /\ a.clip = Corners(o.clip)
      /\ a.corners = [i \in 1 .. Len(o.rects) |-> Corners(o.rects[i])]
      /\ a.color = IF o.cmd \in {"clear", "line", "mono_blit"} \/ o.pat_fill
                   THEN {o.color} ELSE {}
      /\ a.data = IF o.cmd = "mono_blit" THEN <<o.data_pitch, o.data>> ELSE <<>>
      /\ a.src = IF o.cmd = "multsrcblt" \/ o.srcs = <<>> THEN <<>>
                 ELSE <<AskedSource(o, o.srcs[1])>>
      /\ a.blocks = IF o.cmd = "multsrcblt" THEN AskedBlocks(o) ELSE <<>>
      /\ a.blend = IF o.cmd = "multsrcblt" THEN AskedBlends(o) ELSE AskedBlend(o.blend)
      /\ a.dropped = Dropped(o)
      /\ a.sizes = AskedSizes(o)
  BY ONLY a = Asked(o), SMT DEF Asked, AskedSizes, AskedBlocks, AskedBlends
<1>0. /\ o \in Ops /\ Addressable(o.dst) /\ o.cmd \in Cmds /\ CornersFit(o.clip)
      /\ o.dst \in SurfaceIds /\ o.srcs \in Seq(SurfaceIds) /\ o.pat_fill \in BOOLEAN
      /\ Len(o.rects) \in Nat /\ \A i \in 1 .. Len(o.rects) : CornersFit(o.rects[i])
  BY SMT DEF Executed, Described, Ops
<1>1. /\ \A i \in 1 .. Len(o.srcs) : Addressable(o.srcs[i])
      /\ o.cmd \in {"clear", "line", "mono_blit"} => o.srcs = <<>>
      /\ o.cmd = "stretchblt" => Len(o.srcs) = 1 /\ surf[o.dst].width > 1 /\ surf[o.dst].height > 1
      /\ o.pat_fill => o.cmd = "bitblt" /\ o.srcs = <<>>
      /\ o.cmd = "bitblt" => o.srcs # <<>> \/ o.pat_fill
      /\ o.cmd = "mono_blit" => o.data_pitch = Bits(4)
      /\ Len(o.srcs) \in Nat /\ Len(o.srcs) <= 4
      /\ o.cmd = "multsrcblt" => o.srcs # <<>>
  BY SMT DEF Executed, Described
<1>1b. Blended(o)
  BY DEF Executed, Described
<1>2. /\ Field(regs, VIVS_DE_DEST_CONFIG, "COMMAND") = Bits(Command(o.cmd))
      /\ Commanded(regs, COMMAND.CLEAR) <=> o.cmd = "clear"
      /\ Commanded(regs, COMMAND.LINE) <=> o.cmd = "line"
      /\ Commanded(regs, COMMAND.STRETCH_BLT) <=> o.cmd = "stretchblt"
      /\ Commanded(regs, COMMAND.MULTI_SOURCE_BLT) <=> o.cmd = "multsrcblt"
      /\ Brushed(regs) <=> o.pat_fill
      /\ Reads(regs) <=> o.cmd \in {"stretchblt", "mono_blit"} \/ (o.cmd = "bitblt" /\ ~o.pat_fill)
      /\ Streamed(regs) <=> o.cmd = "mono_blit"
  BY ONLY Executed(o), Held(regs, ProgramSet(o)), KindIsSeen, Zenon
<1>3. d.command = a.command
  BY ONLY <1>2, <1>s, <1>a
<1>4. d.dst = a.dst
  <2>1. Held(regs, DestSet(o))
    BY ONLY Held(regs, ProgramSet(o)), GroupsAreHeld, Zenon
  <2>2. GpuAddress[o.dst] \in Words
    BY ONLY <1>0, SomeWords
  <2>3. /\ Word(regs, VIVS_DE_DEST_ADDRESS) = GpuAddress[o.dst]
        /\ Field(regs, VIVS_DE_DEST_STRIDE, "STRIDE") = Bits(surf[o.dst].pitch)
        /\ Field(regs, VIVS_DE_DEST_CONFIG, "FORMAT") = Bits(FormatOf(o.dst).fmt)
        /\ Field(regs, VIVS_DE_DEST_CONFIG, "SWIZZLE") = Bits(FormatOf(o.dst).swizzle)
    BY ONLY <1>0, <2>1, <2>2, DestIsSeen, Zenon
  <2>. QED BY ONLY <2>3, <1>s, <1>a
<1>5. d.clip = a.clip
  <2>1. Held(regs, ClipSet(o))
    BY ONLY Held(regs, ProgramSet(o)), GroupsAreHeld, Zenon
  <2>2. /\ Point(regs, VIVS_DE_CLIP_TOP_LEFT) = <<Bits(o.clip.x), Bits(o.clip.y)>>
        /\ Point(regs, VIVS_DE_CLIP_BOTTOM_RIGHT) =
             <<Bits(o.clip.x + o.clip.width), Bits(o.clip.y + o.clip.height)>>
    BY ONLY <1>0, <2>1, ClipIsSeen, Zenon
  <2>. QED BY ONLY <2>2, <1>s, <1>a DEF Corners
<1>6. d.corners = a.corners
  <2>1. Len(c) \div 2 = Len(o.rects)
        /\ \A i \in 1 .. Len(o.rects) : CornerPair(c, i) = Corners(o.rects[i])
    BY ONLY <1>0, c = FlattenSeq(RectsOf(o)), CornersAreSeen
  <2>2. d.corners = [i \in 1 .. Len(c) \div 2 |-> CornerPair(c, i)]
    BY ONLY <1>s
  <2>3. a.corners = [i \in 1 .. Len(o.rects) |-> Corners(o.rects[i])]
    BY ONLY <1>a
  <2>. QED BY ONLY <2>1, <2>2, <2>3
<1>7. o.cmd \notin {"line", "mono_blit"} => d.color = a.color
  <2>1. d.color = CASE Commanded(regs, COMMAND.CLEAR) -> {Word(regs, VIVS_DE_CLEAR_PIXEL_VALUE32)}
                    [] Commanded(regs, COMMAND.LINE) ->
                         {Word(regs, VIVS_DE_CLEAR_PIXEL_VALUE32),
                          Word(regs, VIVS_DE_PATTERN_FG_COLOR), Word(regs, VIVS_DE_SRC_COLOR_FG)}
                    [] Brushed(regs) -> {Word(regs, VIVS_DE_PATTERN_FG_COLOR)}
                    [] Streamed(regs) -> {Word(regs, VIVS_DE_SRC_COLOR_FG)}
                    [] OTHER -> {}
    BY ONLY <1>s
  <2>2. a.color = IF o.cmd \in {"clear", "line", "mono_blit"} \/ o.pat_fill
                  THEN {o.color} ELSE {}
    BY ONLY <1>a
  <2>3. o.cmd = "clear" => Word(regs, VIVS_DE_CLEAR_PIXEL_VALUE32) = o.color
    <3>1. At(VIVS_DE_CLEAR_PIXEL_VALUE32, o.color) \subseteq ClearSet(o)
      BY ONLY TRUE, SMT DEF ClearSet
    <3>2. ASSUME o.cmd = "clear" PROVE Held(regs, ClearSet(o))
      BY ONLY <3>2, Held(regs, ProgramSet(o)), GroupsAreHeld, Zenon
    <3>3. ASSUME o.cmd = "clear" PROVE Word(regs, VIVS_DE_CLEAR_PIXEL_VALUE32) = o.color
      BY ONLY <3>1, <3>2, <3>3, WordIsHeld
    <3>. QED BY ONLY <3>3
  <2>4. o.pat_fill => Word(regs, VIVS_DE_PATTERN_FG_COLOR) = o.color
    <3>1. At(VIVS_DE_PATTERN_FG_COLOR, o.color) \subseteq PatternSet(o)
      BY ONLY TRUE, SMT DEF PatternSet
    <3>2. ASSUME o.pat_fill PROVE Held(regs, PatternSet(o))
      BY ONLY <3>2, Held(regs, ProgramSet(o)), GroupsAreHeld, Zenon
    <3>3. ASSUME o.pat_fill PROVE Word(regs, VIVS_DE_PATTERN_FG_COLOR) = o.color
      BY ONLY <3>1, <3>2, <3>3, WordIsHeld
    <3>. QED BY ONLY <3>3
  <2>5. ~(o.cmd = "clear" /\ o.pat_fill)
    BY ONLY <1>1
  <2>. QED BY ONLY <1>2, <2>1, <2>2, <2>3, <2>4, <2>5, SMT
<1>8. d.data = a.data
  <2>1. d.data = IF Streamed(regs)
                 THEN <<Field(regs, VIVS_DE_SRC_STRIDE, "STRIDE"), o.data>> ELSE <<>>
    BY ONLY <1>s
  <2>2. a.data = IF o.cmd = "mono_blit" THEN <<o.data_pitch, o.data>> ELSE <<>>
    BY ONLY <1>a
  <2>3. ASSUME o.cmd = "mono_blit" PROVE Field(regs, VIVS_DE_SRC_STRIDE, "STRIDE") = o.data_pitch
    <3>1. o.srcs = <<>> /\ o.data_pitch = Bits(4) /\ o.cmd # "multsrcblt"
      BY ONLY <1>1, <2>3, SMT
    <3>2. Held(regs, NoSourceSet(o))
      BY ONLY <3>1, Held(regs, ProgramSet(o)), GroupsAreHeld, Zenon
    <3>. QED BY ONLY <2>3, <3>1, <3>2, StreamIsSeen, Zenon
  <2>. QED BY ONLY <1>2, <2>1, <2>2, <2>3
<1>9. d.src = a.src
  <2>. DEFINE seen == SeenSource(regs, VIVS_DE_SRC_ADDRESS, VIVS_DE_SRC_STRIDE,
                                 VIVS_DE_SRC_CONFIG, VIVS_DE_SRC_ORIGIN, VIVS_DE_SRC_SIZE)
  <2>1. d.src = IF Reads(regs) /\ ~Streamed(regs) THEN <<seen>> ELSE <<>>
    BY ONLY <1>s
  <2>2. a.src = IF o.cmd = "multsrcblt" \/ o.srcs = <<>> THEN <<>>
                ELSE <<AskedSource(o, o.srcs[1])>>
    BY ONLY <1>a
  <2>z. Len(<<>>) = 0
    OBVIOUS
  <2>y. o.cmd = "stretchblt" => Len(o.srcs) = 1
    BY <1>1, Zenon
  <2>a. o.cmd = "stretchblt" => o.srcs # <<>>
    BY ONLY <2>y, <2>z
  <2>b. o.cmd \in {"clear", "line", "bitblt", "stretchblt", "mono_blit", "multsrcblt"}
    BY ONLY <1>0 DEF Cmds
  <2>3. Reads(regs) /\ ~Streamed(regs) <=> ~(o.cmd = "multsrcblt" \/ o.srcs = <<>>)
    BY ONLY <1>1, <1>2, <2>a, <2>b
  <2>4. ASSUME o.cmd # "multsrcblt", o.srcs # <<>> PROVE seen = AskedSource(o, o.srcs[1])
    <3>1. 1 \in 1 .. Len(o.srcs)
      BY ONLY <1>0, <2>4, SMT
    <3>2. Addressable(o.srcs[1])
      BY ONLY <1>1, <3>1
    <3>3. Held(regs, SourceSet(o))
      BY ONLY <2>4, Held(regs, ProgramSet(o)), GroupsAreHeld, Zenon
    <3>. QED BY ONLY <1>0, <3>2, <3>3, OneSourceIsSeen, Zenon
  <2>. HIDE DEF seen
  <2>. QED BY ONLY <2>1, <2>2, <2>3, <2>4
<1>10. d.blocks = a.blocks
  <2>1. d.blocks = IF Commanded(regs, COMMAND.MULTI_SOURCE_BLT)
                   THEN [i \in SourcesSeen(regs) |-> SeenBlock(regs, i)] ELSE <<>>
    BY ONLY <1>s
  <2>2. a.blocks =
          IF o.cmd = "multsrcblt" THEN AskedBlocks(o) ELSE <<>>
    BY ONLY <1>a
  <2>3. ASSUME o.cmd = "multsrcblt"
        PROVE  [i \in SourcesSeen(regs) |-> SeenBlock(regs, i)] = AskedBlocks(o)
    <3>1. Len(o.srcs) \in Nat \ {0} /\ Len(o.srcs) <= 4
      BY ONLY <1>0, <1>1, <2>3, SMT
    <3>2. Held(regs, MultiSet(o))
      BY ONLY <2>3, Held(regs, ProgramSet(o)), GroupsAreHeld, Zenon
    <3>3. /\ Num(Field(regs, VIVS_DE_DE_MULTI_SOURCE, "MAX_SOURCE")) = Len(o.srcs) - 1
          /\ \A i \in 0 .. Len(o.srcs) - 1 : SeenBlock(regs, i) = AskedSource(o, o.srcs[i + 1])
      BY ONLY <1>0, <1>1, <3>1, <3>2, BlocksAreSeen, Zenon
    <3>4. SourcesSeen(regs) = 0 .. Len(o.srcs) - 1
      BY ONLY <3>3 DEF SourcesSeen
    <3>. QED BY ONLY <3>3, <3>4 DEF AskedBlocks
  <2>. QED BY ONLY <1>2, <2>1, <2>2, <2>3
<1>11. "blend" \notin Dropped(o) => d.blend = a.blend
  <2>. DEFINE seen == SeenBlend(regs, VIVS_DE_ALPHA_CONTROL, VIVS_DE_ALPHA_MODES,
                                VIVS_DE_GLOBAL_SRC_COLOR, VIVS_DE_GLOBAL_DEST_COLOR,
                                VIVS_DE_COLOR_MULTIPLY_MODES)
  <2>1. d.blend = IF Commanded(regs, COMMAND.MULTI_SOURCE_BLT)
                  THEN [i \in SourcesSeen(regs) |-> SeenBlockBlend(regs, i)] ELSE seen
    BY ONLY <1>s
  <2>2. a.blend = IF o.cmd = "multsrcblt" THEN AskedBlends(o) ELSE AskedBlend(o.blend)
    BY ONLY <1>a
  <2>3. ASSUME o.cmd # "multsrcblt" PROVE seen = AskedBlend(o.blend)
    <3>1. Held(regs, AlphaSet(o))
      BY ONLY <2>3, Held(regs, ProgramSet(o)), GroupsAreHeld, Zenon
    <3>2. CASE o.blend = NoBlend
      <4>1. At(VIVS_DE_ALPHA_CONTROL, {}) \subseteq AlphaSet(o)
        BY ONLY <3>2, Zenon DEF AlphaSet, NoAlphaSet
      <4>2. IsBlendRegs(VIVS_DE_ALPHA_CONTROL, VIVS_DE_ALPHA_MODES)
        BY DEF IsBlendRegs
      <4>. QED BY ONLY <3>1, <3>2, <4>1, <4>2, NoBlendIsSeen, Zenon
    <3>3. CASE o.blend # NoBlend
      <4>1. AlphaSet(o) = BlendSet(o.blend)
        BY ONLY <3>3, Zenon DEF AlphaSet
      <4>2. IsBlend(o.blend)
        BY ONLY <1>1b, <3>3 DEF Blended
      <4>. QED BY ONLY <3>1, <4>1, <4>2, BlendIsSeen, Zenon
    <3>. QED BY ONLY <3>2, <3>3
  <2>4. ASSUME o.cmd = "multsrcblt", "blend" \notin Dropped(o)
        PROVE  [i \in SourcesSeen(regs) |-> SeenBlockBlend(regs, i)] = AskedBlends(o)
    <3>1. Len(o.srcs) \in Nat \ {0} /\ Len(o.srcs) <= 4
      BY ONLY <1>0, <1>1, <2>4, SMT
    <3>2. Held(regs, MultiSet(o))
      BY ONLY <2>4, Held(regs, ProgramSet(o)), GroupsAreHeld, Zenon
    <3>3. o.blend = NoBlend \/ Over(o.blend)
      BY ONLY <2>4 DEF Dropped
    <3>4. /\ Num(Field(regs, VIVS_DE_DE_MULTI_SOURCE, "MAX_SOURCE")) = Len(o.srcs) - 1
          /\ \A i \in 0 .. Len(o.srcs) - 1 : SeenBlockBlend(regs, i) = AskedBlend(o.blend)
      BY ONLY <1>0, <1>1, <3>1, <3>2, <3>3, BlocksAreSeen, Zenon
    <3>5. SourcesSeen(regs) = 0 .. Len(o.srcs) - 1
      BY ONLY <3>4 DEF SourcesSeen
    <3>. QED BY ONLY <3>4, <3>5 DEF AskedBlends
  <2>. HIDE DEF seen
  <2>. QED BY ONLY <1>2, <2>1, <2>2, <2>3, <2>4
<1>12. \A n \in DOMAIN a \ ({"sizes", "dropped"} \cup a.dropped) : d[n] = a[n]
  <2>1. /\ DOMAIN a = {"command", "dst", "clip", "corners", "color", "data", "src", "blocks",
                       "blend", "dropped", "sizes"}
        /\ a.dropped = Dropped(o)
    BY ONLY <1>a
  <2>2. "color" \notin Dropped(o) => o.cmd \notin {"line", "mono_blit"}
    BY ONLY TRUE DEF Dropped
  <2>. QED BY ONLY <1>3, <1>4, <1>5, <1>6, <1>7, <1>8, <1>9, <1>10, <1>11, <2>1, <2>2
<1>13. ASSUME d.stretch # <<>>, NEW k \in {1, 2}
       PROVE  LET from == a.sizes[k]
                  to == a.sizes[k + 2]
                  f == d.stretch[k]
              IN  f * (to - 1) <= (from - 1) * 65536 /\ (from - 1) * 65536 < (f + 1) * (to - 1)
  <2>1. d.stretch = IF Commanded(regs, COMMAND.STRETCH_BLT)
                    THEN <<Num(Field(regs, VIVS_DE_STRETCH_FACTOR_LOW, "X")),
                           Num(Field(regs, VIVS_DE_STRETCH_FACTOR_HIGH, "Y"))>> ELSE <<>>
    BY ONLY <1>s
  <2>2. a.sizes = AskedSizes(o)
    BY ONLY <1>a
  <2>3. o.cmd = "stretchblt"
    BY ONLY <1>2, <1>13, <2>1, Zenon
  <2>4. /\ Len(o.srcs) = 1 /\ surf[o.dst].width > 1 /\ surf[o.dst].height > 1
        /\ Addressable(o.srcs[1])
    BY ONLY <1>1, <2>3, SMT
  <2>5. Held(regs, StretchSet(o))
    BY ONLY <2>3, Held(regs, ProgramSet(o)), GroupsAreHeld, Zenon
  <2>6. /\ Num(Field(regs, VIVS_DE_STRETCH_FACTOR_LOW, "X")) =
             StretchFactor(surf[o.srcs[1]].width, surf[o.dst].width)
        /\ Num(Field(regs, VIVS_DE_STRETCH_FACTOR_HIGH, "Y")) =
             StretchFactor(surf[o.srcs[1]].height, surf[o.dst].height)
    BY ONLY <1>0, <2>4, <2>5, StretchIsSeen, Zenon
  <2>. PICK u, v, x, y : /\ u = surf[o.srcs[1]].width /\ v = surf[o.srcs[1]].height
                        /\ x = surf[o.dst].width /\ y = surf[o.dst].height
    OBVIOUS
  <2>7. /\ u \in Nat \ {0} /\ u <= 65536 /\ v \in Nat \ {0} /\ v <= 65536
        /\ x \in Nat /\ x > 1 /\ y \in Nat /\ y > 1
    BY <1>0, <2>4, SMT DEF Addressable
  <2>8. /\ d.stretch = <<StretchFactor(u, x), StretchFactor(v, y)>> /\ a.sizes = <<u, v, x, y>>
    BY ONLY <1>2, <2>1, <2>2, <2>3, <2>6, u = surf[o.srcs[1]].width /\ v = surf[o.srcs[1]].height
            /\ x = surf[o.dst].width /\ y = surf[o.dst].height DEF AskedSizes
  <2>9. /\ StretchFactor(u, x) * (x - 1) <= (u - 1) * 65536
        /\ (u - 1) * 65536 < (StretchFactor(u, x) + 1) * (x - 1)
        /\ StretchFactor(v, y) * (y - 1) <= (v - 1) * 65536
        /\ (v - 1) * 65536 < (StretchFactor(v, y) + 1) * (y - 1)
    <3>1. /\ StretchFactor(u, x) * (x - 1) <= (u - 1) * 65536
          /\ (u - 1) * 65536 < (StretchFactor(u, x) + 1) * (x - 1)
      BY ONLY <2>7, StretchEndsInSource
    <3>2. /\ StretchFactor(v, y) * (y - 1) <= (v - 1) * 65536
          /\ (v - 1) * 65536 < (StretchFactor(v, y) + 1) * (y - 1)
      BY ONLY <2>7, StretchEndsInSource
    <3>. QED BY ONLY <3>1, <3>2
  <2>10. CASE k = 1
    <3>1. d.stretch[k] = StretchFactor(u, x) /\ a.sizes[k] = u /\ a.sizes[k + 2] = x
      BY ONLY <2>8, <2>10
    <3>. QED BY ONLY <2>9, <3>1
  <2>11. CASE k = 2
    <3>1. d.stretch[k] = StretchFactor(v, y) /\ a.sizes[k] = v /\ a.sizes[k + 2] = y
      BY ONLY <2>8, <2>11
    <3>. QED BY ONLY <2>9, <3>1
  <2>. QED BY ONLY <2>10, <2>11, k \in {1, 2}
<1>14. Shows(d, a)
  BY ONLY <1>12, <1>13 DEF Shows
<1>. QED BY <1>14

\* What the client asks for is no wider than the registers.
LEMMA AskedFits ==
  /\ \A s \in SurfaceIds : \A k \in Kinds[s] : k.width <= 32767 /\ k.height <= 32767
  /\ \A r \in Rects : CornersFit(r)
  /\ \A b \in Blends : IsBlend(b)
<1>1. \A s \in SurfaceIds : \A k \in Kinds[s] : k.width <= 32767 /\ k.height <= 32767
  BY FieldsAssumption, SMT
<1>2. \A r \in Rects : r.x + r.width <= 32767 /\ r.y + r.height <= 32767
  BY FieldsAssumption, SMT
<1>3. \A b \in Blends : /\ b.cmd \in DOMAIN viv2d_blend_ops
                        /\ b.src_global \in BOOLEAN /\ b.dst_global \in BOOLEAN
  BY FieldsAssumption, SMT
<1>4. \A r \in Rects : CornersFit(r)
  BY <1>2, ConstantsFit, SMT DEF CornersFit
<1>5. \A b \in Blends : IsBlend(b)
  BY ONLY <1>3, AlphasAreBytes, Zenon DEF IsBlend
<1>. QED BY ONLY <1>1, <1>4, <1>5

\* Every surface fits the registers.
SizeInv ==
  /\ DOMAIN surf = SurfaceIds
  /\ \A s \in SurfaceIds : surf[s] # NoSurface => Addressable(s)

\* A new surface does.
LEMMA NewFits ==
  ASSUME NEW s \in SurfaceIds, NEW k \in Kinds[s]
  PROVE  LET a == SurfaceAlloc(k)
         IN  /\ a.width \in Nat \ {0} /\ a.width <= 32767
             /\ a.height \in Nat \ {0} /\ a.height <= 32767
             /\ a.pitch \in Nat /\ a.pitch <= 262143 /\ a.format \in DOMAIN viv2d_color_formats
<1>1. /\ k.width \in Nat \ {0} /\ k.height \in Nat \ {0}
      /\ k.format \in DOMAIN viv2d_color_formats
  BY SurfacesAssumption, Zenon
<1>2. k.width <= 32767 /\ k.height <= 32767
  BY AskedFits
<1>. PICK b : b = viv2d_color_formats[k.format].bpp
  OBVIOUS
<1>3. b \in {8, 16, 32}
  BY ONLY <1>1, b = viv2d_color_formats[k.format].bpp, SMT DEF viv2d_color_formats, ColorFormat
<1>. PICK w : w = k.width
  OBVIOUS
<1>4. Pitch(w, b) \in Nat /\ Pitch(w, b) <= 262143
  <2>1. w \in Nat /\ w <= 32767
    BY ONLY <1>1, <1>2, w = k.width
  <2>. PICK c \in Nat : c = (b + 7) \div 8 /\ c <= 4
    BY ONLY <1>3
  <2>2. w * c \in Nat /\ w * c <= 131068
    BY ONLY <2>1, c \in Nat, c <= 4
  <2>. PICK n \in Nat : n = w * c
    BY <2>2
  <2>3. Pitch(w, b) = ((n + 32 - 1) \div 32) * 32
    BY ONLY n = w * c, c = (b + 7) \div 8 DEF Pitch, ALIGN
  <2>. QED BY ONLY <2>2, <2>3, n \in Nat, n = w * c
<1>5. /\ SurfaceAlloc(k).width = k.width /\ SurfaceAlloc(k).height = k.height
      /\ SurfaceAlloc(k).format = k.format /\ SurfaceAlloc(k).pitch = Pitch(w, b)
  BY ONLY b = viv2d_color_formats[k.format].bpp, w = k.width DEF SurfaceAlloc
<1>. QED BY ONLY <1>1, <1>2, <1>4, <1>5

\* No surface changes that.
LEMMA SizesStayFit == SizeInv /\ Surface => SizeInv'
<1>. SUFFICES ASSUME SizeInv, Surface PROVE SizeInv'
  OBVIOUS
<1>0. DOMAIN surf = SurfaceIds
  BY DEF SizeInv
<1>1. ASSUME NEW s \in SurfaceIds, NEW k \in Kinds[s], SurfaceNew(s, k) PROVE SizeInv'
  <2>. PICK a : a = SurfaceAlloc(k)
    OBVIOUS
  <2>1. /\ a.width \in Nat \ {0} /\ a.width <= 32767
        /\ a.height \in Nat \ {0} /\ a.height <= 32767
        /\ a.pitch \in Nat /\ a.pitch <= 262143 /\ a.format \in DOMAIN viv2d_color_formats
    BY NewFits
  <2>2. surf' = [surf EXCEPT ![s] = a]
    BY <1>1 DEF SurfaceNew
  <2>3. DOMAIN surf' = SurfaceIds
    BY <1>0, <2>2
  <2>4. ASSUME NEW t \in SurfaceIds, surf'[t] # NoSurface PROVE Addressable(t)'
    <3>1. CASE t = s
      BY ONLY <1>0, <2>1, <2>2, <2>4, <3>1 DEF Addressable
    <3>2. CASE t # s
      <4>1. surf'[t] = surf[t]
        BY ONLY <1>0, <2>2, <3>2
      <4>2. Addressable(t)
        BY <2>4, <4>1 DEF SizeInv
      <4>. QED BY ONLY <4>1, <4>2 DEF Addressable
    <3>. QED BY <3>1, <3>2
  <2>. QED BY ONLY <2>3, <2>4 DEF SizeInv
<1>2. ASSUME NEW s \in SurfaceIds, SurfaceDel(s) PROVE SizeInv'
  <2>2. surf' = [surf EXCEPT ![s] = NoSurface]
    BY <1>2 DEF SurfaceDel
  <2>3. DOMAIN surf' = SurfaceIds
    BY <1>0, <2>2
  <2>4. ASSUME NEW t \in SurfaceIds, surf'[t] # NoSurface PROVE Addressable(t)'
    <3>1. surf'[t] = surf[t]
      BY <1>0, <2>2, <2>4
    <3>2. Addressable(t)
      BY <2>4, <3>1 DEF SizeInv
    <3>. QED BY ONLY <3>1, <3>2 DEF Addressable
  <2>. QED BY ONLY <2>3, <2>4 DEF SizeInv
<1>3. ASSUME NEW s \in SurfaceIds, SurfaceToBmp(s) PROVE SizeInv'
  BY <1>3 DEF SurfaceToBmp, SizeInv, Addressable
<1>. QED BY <1>1, <1>2, <1>3 DEF Surface

\* One call changes a described operation.
LEMMA EditIsDescribed ==
  ASSUME NEW p, Described(p), NEW o \in Ops,
         o.cmd = p.cmd, o.srcs = p.srcs, o.dst = p.dst,
         o.clip = p.clip \/ CornersFit(o.clip),
         \A i \in 1 .. Len(o.rects) : CornersFit(o.rects[i]),
         o.blend = p.blend \/ Blended(o),
         o.pat_fill = p.pat_fill \/ (o.cmd = "bitblt" /\ o.srcs = <<>>),
         o.rop = ROP_BRUSH => o.pat_fill,
         (o.data = p.data /\ o.data_pitch = p.data_pitch) \/ o.data_pitch = Bits(4)
  PROVE  Described(o)
<1>1. Addressable(o.dst) /\ CornersFit(o.clip)
  BY DEF Described
<1>2. /\ \A i \in 1 .. Len(o.srcs) : Addressable(o.srcs[i])
      /\ Len(o.srcs) \in Nat /\ Len(o.srcs) <= 4
  BY ONLY Described(p), o.srcs = p.srcs DEF Described
<1>3. Blended(o)
  BY DEF Described, Blended
<1>4. /\ o.cmd \in {"clear", "line", "mono_blit"} => o.srcs = <<>>
      /\ o.cmd = "bitblt" => Len(o.srcs) <= 1
      /\ o.cmd = "stretchblt" =>
           Len(o.srcs) = 1 /\ surf[o.dst].width > 1 /\ surf[o.dst].height > 1
      /\ o.cmd = "multsrcblt" => o.srcs # <<>>
  BY ONLY Described(p), o.cmd = p.cmd, o.srcs = p.srcs, o.dst = p.dst DEF Described
<1>5. o.pat_fill => o.cmd = "bitblt" /\ o.srcs = <<>>
  BY DEF Described
<1>6. o.cmd = "mono_blit" /\ o.data # <<>> => o.data_pitch = Bits(4)
  BY DEF Described
<1>. QED BY <1>1, <1>2, <1>3, <1>4, <1>5, <1>6 DEF Described

\* What an operation begins with.
LEMMA NewIsDescribed ==
  ASSUME SizeInv, NEW cmd \in Cmds, NEW dst \in Made, NEW heap \in HeapWords,
         NEW srcs \in Sources(cmd, dst), NEW o \in Ops,
         o.cmd = cmd, o.srcs = srcs, o.dst = dst, o.rects = <<>>,
         o.clip = [x |-> 0, y |-> 0, width |-> surf[dst].width, height |-> surf[dst].height],
         o.blend = NoBlend, o.rop = ROP_SRC, o.pat_fill = FALSE, o.data = <<>>
  PROVE  Described(o)
<1>1. \A s \in Made : Addressable(s)
  BY DEF SizeInv, Made
<1>2. Addressable(o.dst)
  BY <1>1
<1>3. CornersFit(o.clip)
  <2>. PICK w, h : w = surf[dst].width /\ h = surf[dst].height
    OBVIOUS
  <2>1. w \in Nat /\ w <= 32767 /\ h \in Nat /\ h <= 32767
    BY ONLY <1>2, o.dst = dst, w = surf[dst].width /\ h = surf[dst].height DEF Addressable
  <2>2. o.clip = [x |-> 0, y |-> 0, width |-> w, height |-> h]
    BY w = surf[dst].width /\ h = surf[dst].height, Zenon
  <2>. QED BY ONLY <2>1, <2>2 DEF CornersFit, RectSet
<1>4. /\ \A i \in 1 .. Len(srcs) : srcs[i] \in Made
      /\ Len(srcs) \in Nat /\ Len(srcs) <= 4
      /\ cmd \in {"clear", "line", "mono_blit"} => srcs = <<>>
      /\ cmd = "bitblt" => Len(srcs) <= 1
      /\ cmd = "stretchblt" => Len(srcs) = 1 /\ surf[dst].width > 1 /\ surf[dst].height > 1
      /\ cmd = "multsrcblt" => srcs # <<>>
  <2>0. /\ Len(<<>>) = 0 /\ \A s : Len(<<s>>) = 1 /\ <<s>>[1] = s
        /\ 1 .. 0 = {} /\ 1 .. 1 = {1}
    BY ONLY TRUE
  <2>1. CASE cmd = "bitblt"
    <3>1. srcs = <<>> \/ \E s \in Made : srcs = <<s>>
      BY ONLY <2>1, srcs \in Sources(cmd, dst) DEF Sources
    <3>2. (Len(srcs) = 0 \/ Len(srcs) = 1) /\ \A i \in 1 .. Len(srcs) : srcs[i] \in Made
      BY ONLY <2>0, <3>1
    <3>. QED BY ONLY <2>1, <3>2
  <2>2. CASE cmd = "stretchblt"
    <3>1. \E s \in {m \in Made : surf[dst].width > 1 /\ surf[dst].height > 1} : srcs = <<s>>
      BY ONLY <2>2, srcs \in Sources(cmd, dst) DEF Sources
    <3>2. /\ Len(srcs) = 1 /\ \A i \in 1 .. Len(srcs) : srcs[i] \in Made
          /\ surf[dst].width > 1 /\ surf[dst].height > 1
      BY ONLY <2>0, <3>1
    <3>. QED BY ONLY <2>2, <3>2
  <2>3. CASE cmd = "multsrcblt"
    <3>1. srcs \in UNION {[1 .. n -> Made] : n \in SourceCounts}
      BY ONLY <2>3, srcs \in Sources(cmd, dst) DEF Sources
    <3>2. PICK n \in SourceCounts : srcs \in [1 .. n -> Made]
      BY ONLY <3>1, Zenon
    <3>3. n \in Nat /\ 1 <= n /\ n <= 4
      BY FrontEndAssumption
    <3>4. Len(srcs) = n /\ \A i \in 1 .. n : srcs[i] \in Made
      BY ONLY <3>2, <3>3
    <3>5. srcs # <<>>
      BY ONLY <2>0, <3>3, <3>4
    <3>. QED BY ONLY <2>3, <3>3, <3>4, <3>5
  <2>4. CASE cmd \notin {"bitblt", "stretchblt", "multsrcblt"}
    <3>1. srcs = <<>>
      BY ONLY <2>4, srcs \in Sources(cmd, dst) DEF Sources
    <3>2. Len(srcs) = 0 /\ \A i \in 1 .. Len(srcs) : srcs[i] \in Made
      BY ONLY <2>0, <3>1
    <3>. QED BY ONLY <2>4, <3>1, <3>2
  <2>. QED BY ONLY <2>1, <2>2, <2>3, <2>4, Zenon
<1>5. Blended(o)
  BY DEF Blended
<1>6. \A i \in 1 .. Len(o.srcs) : Addressable(o.srcs[i])
  BY ONLY <1>1, <1>4, o.srcs = srcs
<1>7. \A i \in 1 .. Len(o.rects) : CornersFit(o.rects[i])
  <2>1. 1 .. Len(<<>>) = {}
    BY ONLY TRUE
  <2>. QED BY ONLY <2>1, o.rects = <<>>
<1>8. ROP_SRC # ROP_BRUSH
  BY DEF ROP_SRC, ROP_BRUSH
<1>. QED BY <1>2, <1>3, <1>4, <1>5, <1>6, <1>7, <1>8 DEF Described

\* The operation of the client is described, whatever it calls.
DescInv == op = NoOp \/ Described(op)

\* What is described stays so while no surface changes.
LEMMA DescribedHolds ==
  ASSUME surf' = surf, NEW o, op' = o, Described(o)
  PROVE  DescInv'
BY DEF DescInv, Described, Blended, Addressable

\* No call of the client changes that.
LEMMA DescribeDescribes ==
  PictInv /\ OpInv /\ SizeInv /\ DescInv /\ Describe => DescInv'
<1>. SUFFICES ASSUME PictInv, OpInv, SizeInv, DescInv, Describe PROVE DescInv'
  OBVIOUS
<1>1. surf' = surf
  BY DEF Describe, OpNew, OpAddRect, OpSetClipRect, OpSetColor, OpSetBlend, OpSetData,
         OpSetPatFill, Edit, OpDel, surfaces
<1>2. op' = NoOp \/ op' \in Ops
  BY DescribeKeepsOp DEF OpInv
<1>. PICK o, p : o = op' /\ p = op
  OBVIOUS
<1>3. op # NoOp => op \in Ops /\ p \in Ops /\ Described(p)
  BY DEF OpInv, DescInv
<1>4. op' # NoOp => o \in Ops
  BY <1>2
<1>5. op # NoOp => /\ \A i \in 1 .. Len(p.rects) : CornersFit(p.rects[i])
                   /\ p.rop = ROP_BRUSH => p.pat_fill
  BY ONLY <1>3 DEF Described
<1>6. op # NoOp /\ o.cmd = p.cmd => o \in Ops
  <2>1. NoOp.cmd \notin Cmds
    BY DEF NoOp, Cmds
  <2>2. op # NoOp => p.cmd \in Cmds
    BY ONLY <1>3 DEF Ops
  <2>. QED BY ONLY <1>4, <2>1, <2>2, o = op'
<1>7. ASSUME NEW cmd \in Cmds, NEW dst \in Made, NEW heap \in HeapWords,
             NEW srcs \in Sources(cmd, dst), OpNew(cmd, srcs, dst, heap)
      PROVE  DescInv'
  <2>1. /\ o.cmd = cmd /\ o.srcs = srcs /\ o.dst = dst /\ o.rects = <<>>
        /\ o.clip = [x |-> 0, y |-> 0, width |-> surf[dst].width, height |-> surf[dst].height]
        /\ o.blend = NoBlend /\ o.rop = ROP_SRC /\ o.pat_fill = FALSE /\ o.data = <<>>
    BY ONLY <1>7, o = op', SMT DEF OpNew
  <2>2. NoOp.cmd \notin Cmds
    BY DEF NoOp, Cmds
  <2>3. o \in Ops
    BY ONLY <1>4, <2>1, <2>2, cmd \in Cmds, o = op'
  <2>4. Described(o)
    BY ONLY SizeInv, cmd \in Cmds, dst \in Made, heap \in HeapWords, srcs \in Sources(cmd, dst),
            <2>1, <2>3, NewIsDescribed
  <2>. QED BY ONLY <1>1, <2>4, o = op', DescribedHolds
<1>8. ASSUME NEW r \in Rects, OpAddRect(r) PROVE DescInv'
  <2>1. op # NoOp /\ o = [p EXCEPT !.rects = Append(p.rects, r)]
    BY ONLY <1>8, o = op', p = op, SMT DEF OpAddRect, Edit
  <2>2. p \in Ops /\ CornersFit(r)
    BY ONLY <1>3, <2>1, r \in Rects, AskedFits
  <2>3. /\ o.rects = Append(p.rects, r)
        /\ o.cmd = p.cmd /\ o.srcs = p.srcs /\ o.dst = p.dst /\ o.clip = p.clip
        /\ o.blend = p.blend /\ o.pat_fill = p.pat_fill /\ o.rop = p.rop
        /\ o.data = p.data /\ o.data_pitch = p.data_pitch
    BY ONLY <2>1, <2>2, SMT DEF Ops
  <2>4. p.rects \in Seq(RectSet) /\ r \in RectSet
    BY ONLY <2>2, SMT DEF Ops, CornersFit
  <2>5. \A i \in 1 .. Len(o.rects) : CornersFit(o.rects[i])
    <3>. PICK s, t : s = p.rects /\ t = o.rects
      OBVIOUS
    <3>1. s \in Seq(RectSet) /\ t = Append(s, r)
      BY ONLY <2>3, <2>4, s = p.rects /\ t = o.rects
    <3>2. /\ Len(t) = Len(s) + 1 /\ Len(s) \in Nat
          /\ \A i \in 1 .. Len(s) : t[i] = s[i]
          /\ t[Len(s) + 1] = r
      BY ONLY <2>4, <3>1
    <3>3. \A i \in 1 .. Len(s) : CornersFit(s[i])
      BY ONLY <1>5, <2>1, s = p.rects /\ t = o.rects
    <3>4. ASSUME NEW i \in 1 .. Len(t) PROVE CornersFit(t[i])
      <4>1. CASE i = Len(s) + 1
        BY ONLY <2>2, <3>2, <4>1
      <4>2. CASE i # Len(s) + 1
        <5>1. i \in 1 .. Len(s)
          BY ONLY <3>2, <4>2, i \in 1 .. Len(t)
        <5>. QED BY ONLY <3>2, <3>3, <5>1
      <4>. QED BY ONLY <4>1, <4>2
    <3>. QED BY ONLY <3>4, s = p.rects /\ t = o.rects
  <2>6. Described(p) /\ o \in Ops /\ (o.rop = ROP_BRUSH => o.pat_fill)
    BY ONLY <1>3, <1>5, <1>6, <2>1, <2>3
  <2>7. Described(o)
    BY ONLY <2>3, <2>5, <2>6, EditIsDescribed, Zenon
  <2>. QED BY ONLY <1>1, <2>7, o = op', DescribedHolds
<1>9. ASSUME NEW r \in Rects, OpSetClipRect(r) PROVE DescInv'
  <2>1. op # NoOp /\ o = [p EXCEPT !.clip = r]
    BY ONLY <1>9, o = op', p = op, SMT DEF OpSetClipRect, Edit
  <2>2. p \in Ops /\ Described(p)
    BY ONLY <1>3, <2>1
  <2>3. /\ o.clip = r
        /\ o.cmd = p.cmd /\ o.srcs = p.srcs /\ o.dst = p.dst /\ o.rects = p.rects
        /\ o.blend = p.blend /\ o.pat_fill = p.pat_fill /\ o.rop = p.rop
        /\ o.data = p.data /\ o.data_pitch = p.data_pitch
    BY ONLY <2>1, <2>2, SMT DEF Ops
  <2>4. /\ o \in Ops /\ (o.rop = ROP_BRUSH => o.pat_fill)
        /\ \A i \in 1 .. Len(o.rects) : CornersFit(o.rects[i])
    BY ONLY <1>5, <1>6, <2>1, <2>3
  <2>5. CornersFit(o.clip)
    BY ONLY <2>3, r \in Rects, AskedFits
  <2>6. Described(o)
    BY ONLY <2>2, <2>3, <2>4, <2>5, EditIsDescribed, Zenon
  <2>. QED BY ONLY <1>1, <2>6, o = op', DescribedHolds
<1>10. ASSUME NEW c \in Colors, OpSetColor(c) PROVE DescInv'
  <2>1. op # NoOp /\ o = [p EXCEPT !.color = c]
    BY ONLY <1>10, o = op', p = op, SMT DEF OpSetColor, Edit
  <2>2. p \in Ops /\ Described(p)
    BY ONLY <1>3, <2>1
  <2>3. /\ o.color = c
        /\ o.cmd = p.cmd /\ o.srcs = p.srcs /\ o.dst = p.dst /\ o.rects = p.rects
        /\ o.clip = p.clip /\ o.blend = p.blend /\ o.pat_fill = p.pat_fill /\ o.rop = p.rop
        /\ o.data = p.data /\ o.data_pitch = p.data_pitch
    BY ONLY <2>1, <2>2, SMT DEF Ops
  <2>4. /\ o \in Ops /\ (o.rop = ROP_BRUSH => o.pat_fill)
        /\ \A i \in 1 .. Len(o.rects) : CornersFit(o.rects[i])
    BY ONLY <1>5, <1>6, <2>1, <2>3
  <2>6. Described(o)
    BY ONLY <2>2, <2>3, <2>4, EditIsDescribed, Zenon
  <2>. QED BY ONLY <1>1, <2>6, o = op', DescribedHolds
<1>11. ASSUME NEW b \in Blends, OpSetBlend(b) PROVE DescInv'
  <2>1. op # NoOp /\ o = [p EXCEPT !.blend = b]
    BY ONLY <1>11, o = op', p = op, SMT DEF OpSetBlend, Edit
  <2>2. p \in Ops /\ Described(p)
    BY ONLY <1>3, <2>1
  <2>3. /\ o.blend = b
        /\ o.cmd = p.cmd /\ o.srcs = p.srcs /\ o.dst = p.dst /\ o.rects = p.rects
        /\ o.clip = p.clip /\ o.pat_fill = p.pat_fill /\ o.rop = p.rop
        /\ o.data = p.data /\ o.data_pitch = p.data_pitch
    BY ONLY <2>1, <2>2, SMT DEF Ops
  <2>4. /\ o \in Ops /\ (o.rop = ROP_BRUSH => o.pat_fill)
        /\ \A i \in 1 .. Len(o.rects) : CornersFit(o.rects[i])
    BY ONLY <1>5, <1>6, <2>1, <2>3
  <2>5. Blended(o)
    <3>1. IsBlend(b)
      BY ONLY b \in Blends, AskedFits
    <3>. QED BY ONLY <2>3, <3>1, SMT DEF Blended
  <2>6. Described(o)
    BY ONLY <2>2, <2>3, <2>4, <2>5, EditIsDescribed, Zenon
  <2>. QED BY ONLY <1>1, <2>6, o = op', DescribedHolds
<1>12. ASSUME NEW d \in Glyphs, OpSetData(d, 4) PROVE DescInv'
  <2>1. op # NoOp /\ o = [p EXCEPT !.data = d, !.data_pitch = Bits(4)]
    BY ONLY <1>12, o = op', p = op, SMT DEF OpSetData, Edit
  <2>2. p \in Ops /\ Described(p)
    BY ONLY <1>3, <2>1
  <2>3. /\ o.data = d /\ o.data_pitch = Bits(4)
        /\ o.cmd = p.cmd /\ o.srcs = p.srcs /\ o.dst = p.dst /\ o.rects = p.rects
        /\ o.clip = p.clip /\ o.blend = p.blend /\ o.pat_fill = p.pat_fill /\ o.rop = p.rop
    BY ONLY <2>1, <2>2, SMT DEF Ops
  <2>4. /\ o \in Ops /\ (o.rop = ROP_BRUSH => o.pat_fill)
        /\ \A i \in 1 .. Len(o.rects) : CornersFit(o.rects[i])
    BY ONLY <1>5, <1>6, <2>1, <2>3
  <2>6. Described(o)
    BY ONLY <2>2, <2>3, <2>4, EditIsDescribed, Zenon
  <2>. QED BY ONLY <1>1, <2>6, o = op', DescribedHolds
<1>13. ASSUME OpSetPatFill PROVE DescInv'
  <2>1. op # NoOp /\ o = [p EXCEPT !.pat_fill = TRUE]
    BY ONLY <1>13, o = op', p = op, SMT DEF OpSetPatFill, Edit
  <2>2. p \in Ops /\ Described(p)
    BY ONLY <1>3, <2>1
  <2>3. /\ o.pat_fill = TRUE
        /\ o.cmd = p.cmd /\ o.srcs = p.srcs /\ o.dst = p.dst /\ o.rects = p.rects
        /\ o.clip = p.clip /\ o.blend = p.blend /\ o.rop = p.rop
        /\ o.data = p.data /\ o.data_pitch = p.data_pitch
    BY ONLY <2>1, <2>2, SMT DEF Ops
  <2>4. /\ o \in Ops /\ (o.rop = ROP_BRUSH => o.pat_fill)
        /\ \A i \in 1 .. Len(o.rects) : CornersFit(o.rects[i])
    BY ONLY <1>5, <1>6, <2>1, <2>3
  <2>5. o.cmd = "bitblt" /\ o.srcs = <<>>
    BY ONLY <1>13, <2>3, p = op, SMT DEF OpSetPatFill
  <2>6. Described(o)
    BY ONLY <2>2, <2>3, <2>4, <2>5, EditIsDescribed, Zenon
  <2>. QED BY ONLY <1>1, <2>6, o = op', DescribedHolds
<1>14. ASSUME OpDel PROVE DescInv'
  BY <1>14 DEF OpDel, DescInv
<1>. QED BY <1>7, <1>8, <1>9, <1>10, <1>11, <1>12, <1>13, <1>14 DEF Describe

\* What viv2d_op_exec makes of it is still described, and can be sent.
LEMMA PreparedIsExecuted ==
  ASSUME PictInv, OpInv, DescInv, op # NoOp,
         op.cmd = "bitblt" => op.srcs # <<>> \/ op.pat_fill,
         op.cmd = "mono_blit" => op.data # <<>>
  PROVE  Executed(Prepared(op))
<1>. PICK p : p = op
  OBVIOUS
<1>. PICK o : o = Prepared(p)
  OBVIOUS
<1>1. p \in Ops /\ Described(p)
  BY DEF OpInv, DescInv
<1>2. o \in Ops /\ Draws(o)
  BY ONLY PictInv, OpInv, op # NoOp, p = op, o = Prepared(p), PreparedIsOp
<1>. PICK all : all = [x |-> 0, y |-> 0, width |-> surf[p.dst].width,
                      height |-> surf[p.dst].height]
  OBVIOUS
<1>3. o = [p EXCEPT !.rects = IF p.rects = <<>> THEN <<all>> ELSE p.rects,
                    !.rop = IF p.pat_fill THEN ROP_BRUSH ELSE p.rop]
  BY ONLY o = Prepared(p), all = [x |-> 0, y |-> 0, width |-> surf[p.dst].width,
                                  height |-> surf[p.dst].height], Zenon DEF Prepared
<1>4. /\ o.rects = (IF p.rects = <<>> THEN <<all>> ELSE p.rects)
      /\ o.rop = (IF p.pat_fill THEN ROP_BRUSH ELSE p.rop)
      /\ o.cmd = p.cmd /\ o.srcs = p.srcs /\ o.dst = p.dst /\ o.clip = p.clip
      /\ o.blend = p.blend /\ o.pat_fill = p.pat_fill
      /\ o.data = p.data /\ o.data_pitch = p.data_pitch
  BY ONLY <1>1, <1>3 DEF Ops
<1>5. CornersFit(all)
  <2>1. Addressable(p.dst)
    BY ONLY <1>1 DEF Described
  <2>. PICK w, h : w = surf[p.dst].width /\ h = surf[p.dst].height
    OBVIOUS
  <2>2. w \in Nat /\ w <= 32767 /\ h \in Nat /\ h <= 32767
    BY ONLY <2>1, w = surf[p.dst].width /\ h = surf[p.dst].height DEF Addressable
  <2>3. all = [x |-> 0, y |-> 0, width |-> w, height |-> h]
    BY w = surf[p.dst].width /\ h = surf[p.dst].height, Zenon
  <2>. QED BY ONLY <2>2, <2>3 DEF CornersFit, RectSet
<1>6. /\ \A i \in 1 .. Len(p.rects) : CornersFit(p.rects[i])
      /\ p.rop = ROP_BRUSH => p.pat_fill
      /\ p.cmd = "mono_blit" /\ p.data # <<>> => p.data_pitch = Bits(4)
  BY ONLY <1>1 DEF Described
<1>7. \A i \in 1 .. Len(o.rects) : CornersFit(o.rects[i])
  <2>0. Len(<<all>>) = 1 /\ <<all>>[1] = all /\ 1 .. 1 = {1}
    BY ONLY TRUE
  <2>1. CASE p.rects = <<>>
    <3>1. o.rects = <<all>>
      BY ONLY <1>4, <2>1
    <3>. QED BY ONLY <1>5, <2>0, <3>1
  <2>2. CASE p.rects # <<>>
    <3>1. o.rects = p.rects
      BY ONLY <1>4, <2>2
    <3>. QED BY ONLY <1>6, <3>1
  <2>. QED BY ONLY <2>1, <2>2
<1>8. o.rop = ROP_BRUSH <=> o.pat_fill
  BY ONLY <1>4, <1>6
<1>9. Described(o)
  <2>1. o.rop = ROP_BRUSH => o.pat_fill
    BY ONLY <1>8
  <2>. QED BY ONLY <1>1, <1>2, <1>4, <1>7, <2>1, EditIsDescribed, Zenon
<1>10. /\ Len(o.rects) \in Nat
       /\ o.cmd = "bitblt" => o.srcs # <<>> \/ o.pat_fill
       /\ o.cmd = "mono_blit" => o.data_pitch = Bits(4)
  <2>1. Len(o.rects) \in Nat
    BY ONLY <1>2 DEF Draws
  <2>. QED BY <1>4, <1>6, <2>1
<1>11. Executed(o)
  BY ONLY <1>8, <1>9, <1>10 DEF Executed
<1>. QED BY ONLY <1>11, p = op, o = Prepared(p)

\* Draws show what was asked for, one by one.
Shown(ds, qs) ==
  /\ \E S : ds \in Seq(S)
  /\ \E S : qs \in Seq(S)
  /\ Len(ds) = Len(qs)
  /\ \A i \in 1 .. Len(qs) : Shows(ds[i], qs[i])

\* Nothing shows nothing.
LEMMA NothingIsShown == Shown(<<>>, <<>>)
<1>1. <<>> \in Seq({}) /\ 1 .. Len(<<>>) = {}
  OBVIOUS
<1>. QED BY ONLY <1>1 DEF Shown

\* What Append does.
LEMMA AppendSeen ==
  ASSUME NEW S, NEW s \in Seq(S), NEW a
  PROVE  /\ Append(s, a) \in Seq(S \cup {a})
         /\ Len(s) \in Nat /\ Len(Append(s, a)) = Len(s) + 1
         /\ \A i \in 1 .. Len(s) : Append(s, a)[i] = s[i]
         /\ Append(s, a)[Len(s) + 1] = a
<1>. DEFINE U == S \cup {a}
<1>1. s \in Seq(U) /\ a \in U
  OBVIOUS
<1>. HIDE DEF U
<1>2. /\ Append(s, a) \in Seq(U)
      /\ Len(s) \in Nat /\ Len(Append(s, a)) = Len(s) + 1
      /\ \A i \in 1 .. Len(s) : Append(s, a)[i] = s[i]
      /\ Append(s, a)[Len(s) + 1] = a
  BY ONLY <1>1
<1>. QED BY ONLY <1>2 DEF U

\* One more draw.
LEMMA ShownAppend ==
  ASSUME NEW ds, NEW qs, Shown(ds, qs), NEW d, NEW a, Shows(d, a)
  PROVE  Shown(Append(ds, d), Append(qs, a))
<1>1. PICK S : ds \in Seq(S)
  BY DEF Shown
<1>2. PICK T : qs \in Seq(T)
  BY DEF Shown
<1>. PICK x, y : x = Append(ds, d) /\ y = Append(qs, a)
  OBVIOUS
<1>. PICK m, n : m = Len(ds) /\ n = Len(qs)
  OBVIOUS
<1>4. /\ x \in Seq(S \cup {d}) /\ Len(x) = m + 1 /\ m \in Nat
      /\ \A i \in 1 .. m : x[i] = ds[i]
      /\ x[m + 1] = d
  <2>1. /\ Append(ds, d) \in Seq(S \cup {d})
        /\ Len(ds) \in Nat /\ Len(Append(ds, d)) = Len(ds) + 1
        /\ \A i \in 1 .. Len(ds) : Append(ds, d)[i] = ds[i]
        /\ Append(ds, d)[Len(ds) + 1] = d
    BY ONLY <1>1, AppendSeen
  <2>. QED BY ONLY <2>1, x = Append(ds, d) /\ y = Append(qs, a), m = Len(ds) /\ n = Len(qs), Zenon
<1>5. /\ y \in Seq(T \cup {a}) /\ Len(y) = n + 1 /\ n \in Nat
      /\ \A i \in 1 .. n : y[i] = qs[i]
      /\ y[n + 1] = a
  <2>1. /\ Append(qs, a) \in Seq(T \cup {a})
        /\ Len(qs) \in Nat /\ Len(Append(qs, a)) = Len(qs) + 1
        /\ \A i \in 1 .. Len(qs) : Append(qs, a)[i] = qs[i]
        /\ Append(qs, a)[Len(qs) + 1] = a
    BY ONLY <1>2, AppendSeen
  <2>. QED BY ONLY <2>1, x = Append(ds, d) /\ y = Append(qs, a), m = Len(ds) /\ n = Len(qs), Zenon
<1>6. m = n /\ \A i \in 1 .. n : Shows(ds[i], qs[i])
  BY ONLY Shown(ds, qs), m = Len(ds) /\ n = Len(qs) DEF Shown
<1>6a. m = n /\ n \in Nat /\ Len(y) = n + 1 /\ x[n + 1] = d /\ y[n + 1] = a
  BY ONLY <1>4, <1>5, <1>6
<1>7. ASSUME NEW i \in 1 .. Len(y) PROVE Shows(x[i], y[i])
  <2>1. CASE i = n + 1
    BY ONLY <1>6a, <2>1, Shows(d, a)
  <2>2. CASE i # n + 1
    <3>1. i \in 1 .. n
      BY ONLY <1>6a, <2>2, i \in 1 .. Len(y)
    <3>. QED BY ONLY <1>4, <1>5, <1>6, <3>1
  <2>. QED BY ONLY <2>1, <2>2
<1>8. Len(x) = Len(y)
  BY ONLY <1>4, <1>5, <1>6
<1>9. Shown(x, y)
  BY ONLY <1>4, <1>5, <1>7, <1>8, Zenon DEF Shown
<1>. QED BY ONLY <1>9, x = Append(ds, d) /\ y = Append(qs, a)

\* Through one piece, and through none.
LEMMA ThroughOne ==
  ASSUME NEW u \in Pieces, NEW f
  PROVE  Through(f, <<u>>) = Fetch(f, u)
<1>1. <<u>> \in Seq(Pieces) /\ Len(<<u>>) = 1 /\ <<u>>[1] = u /\ 1 \in 1 .. 1
  OBVIOUS
<1>2. PICK G : IsPieceRun(G, f, <<u>>) /\ G[1] = Through(f, <<u>>)
  BY <1>1, PieceRunExists
<1>3. G[1 - 1] = f /\ G[1] = Fetch(G[1 - 1], u)
  BY <1>1, <1>2 DEF IsPieceRun
<1>. QED BY ONLY <1>2, <1>3

\* No piece leaves the front end as it is.
LEMMA ThroughNothing == \A f : Through(f, <<>>) = f
<1>. SUFFICES ASSUME NEW f PROVE Through(f, <<>>) = f
  OBVIOUS
<1>1. <<>> \in Seq(Pieces) /\ Len(<<>>) = 0
  OBVIOUS
<1>2. PICK G : IsPieceRun(G, f, <<>>) /\ G[0] = Through(f, <<>>)
  BY <1>1, PieceRunExists
<1>. QED BY ONLY <1>2 DEF IsPieceRun

\* The draw of an operation, behind its writes.
LEMMA DrawIsSeen ==
  ASSUME NEW o \in Ops, Draws(o), NEW f, Ready(f)
  PROVE  LET g == Through(f, DrawWrites(o))
         IN  /\ Ready(g)
             /\ g.draws = Append(f.draws, Seen(f.regs, FlattenSeq(RectsOf(o)), o.data))
<1>. DEFINE n == Len(o.rects)
            s == [i \in 1 .. n |-> RectWords(o.rects[i])]
            c == FlattenSeq(s)
            u == EtnaAlign(EtnaAlign(<<DrawWord(n, Len(o.data)), {}>> \o c) \o o.data)
<1>0. RectsOf(o) = s
  BY Zenon DEF RectsOf
<1>1. n \in Nat \ {0} /\ n <= 255 /\ o.data \in Seq(Words) /\ Len(o.data) <= 2047
  <2>1. o.data \in Seq(Words)
    BY DEF Ops
  <2>2. n \in Nat \ {0} /\ n <= 255 /\ Len(o.data) <= 2047
    BY ONLY Draws(o), SMT DEF Draws
  <2>. QED BY ONLY <2>1, <2>2, SMT
<1>2. s \in Seq(Seq(Words)) /\ Len(s) = n /\ \A i \in 1 .. n : Len(s[i]) = 2
  BY <1>1, RectWordsFit
<1>8. DrawWrites(o) = <<u>>
  BY DEF DrawWrites, DrawHeader, DrawWord
<1>. HIDE DEF s, n
<1>3. c \in Seq(Words) /\ Len(c) = 2 * n
  BY <1>2, PairsFlat
<1>. HIDE DEF c, u
<1>s. Stale \in Words
  BY ConstantsFit
<1>4. IsDraw(n, c, o.data, u)
  BY <1>1, <1>3, <1>s DEF IsDraw, u
<1>5. \A h : Ready(h) => /\ u \in Seq(Words) /\ Len(u) % 2 = 0 /\ Ready(Fetch(h, u))
                         /\ Fetch(h, u).draws = Append(h.draws, Seen(h.regs, c, o.data))
  <2>. SUFFICES ASSUME NEW h, Ready(h)
                PROVE  /\ u \in Seq(Words) /\ Len(u) % 2 = 0 /\ Ready(Fetch(h, u))
                       /\ Fetch(h, u).draws = Append(h.draws, Seen(h.regs, c, o.data))
    OBVIOUS
  <2>. PICK data : data = o.data
    OBVIOUS
  <2>1. IsDraw(n, c, data, u)
    BY ONLY <1>4, data = o.data
  <2>2. /\ u \in Seq(Words) /\ Len(u) % 2 = 0 /\ Ready(Fetch(h, u))
        /\ Fetch(h, u).draws = Append(h.draws, Seen(h.regs, c, data))
    BY ONLY <2>1, Ready(h), DrawIsTaken
  <2>. QED BY ONLY <2>2, data = o.data
<1>6. Ready(PowerOn)
  BY DEF Ready, PowerOn, FeFields, IsRegs
<1>7. u \in Pieces
  BY ONLY <1>5, <1>6, Zenon DEF Pieces
<1>9. Through(f, DrawWrites(o)) = Fetch(f, u)
  BY ONLY <1>7, <1>8, ThroughOne, Zenon
<1>10. FlattenSeq(RectsOf(o)) = c
  BY ONLY <1>0 DEF c
<1>. QED BY ONLY <1>5, <1>9, <1>10, Ready(f), Zenon

\* The flush of the cache draws nothing.
LEMMA CacheIsFlushed ==
  ASSUME NEW f, Ready(f)
  PROVE  LET g == Through(f, Set(VIVS_GL_FLUSH_CACHE, [PE2D |-> {0}]))
         IN  Ready(g) /\ g.draws = f.draws
<1>. PICK w : w = Pack(VIVS_GL_FLUSH_CACHE.fields, [PE2D |-> {0}])
  OBVIOUS
<1>. PICK at : at = VIVS_GL_FLUSH_CACHE.at
  OBVIOUS
<1>. PICK u : u = <<LoadState(at, 1), w>>
  OBVIOUS
<1>1. Set(VIVS_GL_FLUSH_CACHE, [PE2D |-> {0}]) = <<u>>
  BY ONLY w = Pack(VIVS_GL_FLUSH_CACHE.fields, [PE2D |-> {0}]), at = VIVS_GL_FLUSH_CACHE.at,
          u = <<LoadState(at, 1), w>>, Zenon DEF Set, SetState
<1>2. <<u>> \in Seq(Pieces)
  <2>1. Set(VIVS_GL_FLUSH_CACHE, [PE2D |-> {0}]) \in Seq(Pieces)
    BY ONLY SomeSets, SMT
  <2>. QED BY ONLY <1>1, <2>1, Zenon
<1>3. u \in Pieces
  BY ONLY <1>2
<1>4. w \in Words /\ IsAt(at)
  <2>1. u \in Seq(Words)
    BY ONLY <1>3, Zenon DEF Pieces
  <2>2. w \in Words
    BY ONLY <2>1, u = <<LoadState(at, 1), w>>
  <2>3. IsAt(at)
    BY ONLY at = VIVS_GL_FLUSH_CACHE.at DEF IsAt, VIVS_GL_FLUSH_CACHE, Reg, Offsets
  <2>. QED BY ONLY <2>2, <2>3
<1>5. Ready(Fetch(f, u)) /\ Fetch(f, u).draws = f.draws
  BY ONLY <1>4, Ready(f), u = <<LoadState(at, 1), w>>, PairIsTaken, Zenon
<1>6. Through(f, <<u>>) = Fetch(f, u)
  BY ONLY <1>3, ThroughOne, Zenon
<1>. QED BY ONLY <1>1, <1>5, <1>6, Zenon

\* The words of an operation, wherever the front end takes them up and whatever its
\* registers held: it draws once, what was asked for.
LEMMA ProgramIsSeen ==
  ASSUME NEW o \in Ops, Draws(o), Executed(o), NEW f, Ready(f)
  PROVE  LET g == Through(f, Program(o))
         IN  Ready(g) /\ \E d : Shows(d, Asked(o)) /\ g.draws = Append(f.draws, d)
<1>. DEFINE a == StateWrites(o)
            b == DrawWrites(o)
            c == Set(VIVS_GL_FLUSH_CACHE, [PE2D |-> {0}])
<1>1. Len(o.srcs) <= 8
  <2>1. Len(o.srcs) \in Nat /\ Len(o.srcs) <= 4
    BY ONLY Executed(o) DEF Executed, Described
  <2>. QED BY ONLY <2>1
<1>2. a \in Seq(Pieces) /\ Makes(a, ProgramSet(o))
  BY ONLY <1>1, o \in Ops, StateWritesMake
<1>3. b \in Seq(Pieces)
  <2>1. Stale \in Words
    BY ConstantsFit
  <2>. QED BY ONLY <2>1, o \in Ops, Draws(o), DrawWritesFit
<1>4. c \in Seq(Pieces)
  BY ONLY SomeSets, SMT
<1>5. Program(o) = (a \o b) \o c
  BY Zenon DEF Program, StateWrites
<1>6. Sole(ProgramSet(o)) /\ \A x \in ProgramSet(o) : IsAt(x[1])
  BY ONLY <1>1, o \in Ops, ProgramZoned
<1>. HIDE DEF a, b, c
<1>. PICK g1 : g1 = Through(f, a)
  OBVIOUS
<1>. PICK g2 : g2 = Through(g1, b)
  OBVIOUS
<1>. PICK g3 : g3 = Through(g2, c)
  OBVIOUS
<1>7. Ready(g1) /\ g1.draws = f.draws /\ Held(g1.regs, ProgramSet(o))
  BY ONLY <1>2, <1>6, Ready(f), g1 = Through(f, a), WritesAreHeld, Zenon
<1>. PICK d : d = Seen(g1.regs, FlattenSeq(RectsOf(o)), o.data)
  OBVIOUS
<1>8. Ready(g2) /\ g2.draws = Append(f.draws, d)
  <2>1. LET g == Through(g1, DrawWrites(o))
        IN  /\ Ready(g)
            /\ g.draws = Append(g1.draws, Seen(g1.regs, FlattenSeq(RectsOf(o)), o.data))
    BY ONLY <1>7, o \in Ops, Draws(o), DrawIsSeen, Zenon
  <2>. QED BY ONLY <1>7, <2>1, g2 = Through(g1, b),
                   d = Seen(g1.regs, FlattenSeq(RectsOf(o)), o.data), Zenon DEF b
<1>9. Ready(g3) /\ g3.draws = g2.draws
  BY ONLY <1>8, g3 = Through(g2, c), CacheIsFlushed, Zenon DEF c
<1>10. Shows(d, Asked(o))
  BY ONLY <1>7, Executed(o), d = Seen(g1.regs, FlattenSeq(RectsOf(o)), o.data), SeenIsAsked, Zenon
<1>11. Through(f, Program(o)) = g3
  <2>1. a \o b \in Seq(Pieces)
    BY ONLY <1>2, <1>3, PiecesConcat, Zenon
  <2>2. Through(f, (a \o b) \o c) = Through(Through(f, a \o b), c)
    BY ONLY <2>1, <1>4, ThroughConcat, Zenon
  <2>3. Through(f, a \o b) = Through(Through(f, a), b)
    BY ONLY <1>2, <1>3, ThroughConcat, Zenon
  <2>. QED BY ONLY <1>5, <2>2, <2>3, g1 = Through(f, a), g2 = Through(g1, b),
                   g3 = Through(g2, c), Zenon
<1>. QED BY ONLY <1>8, <1>9, <1>10, <1>11, Zenon

\* What is in the stream will be drawn as asked, and what was drawn was.
DueInv == \A f : Ready(f) /\ f.draws = <<>> => Shown(Through(f, stream).draws, due)
WantedInv == Shown(fe.draws, wanted)

\* The whole invariant.
SeenInv == WholeInv /\ SizeInv /\ DescInv /\ DueInv /\ WantedInv

\* At first.
LEMMA SeenInit == Init => SeenInv
<1>. SUFFICES ASSUME Init PROVE SeenInv
  OBVIOUS
<1>1. SizeInv
  BY DEF Init, SurfacesInit, SizeInv
<1>2. DescInv
  BY DEF Init, DescInv
<1>3. stream = <<>> /\ due = <<>> /\ wanted = <<>> /\ fe.draws = <<>>
  BY DEF Init, PowerOn
<1>4. DueInv /\ WantedInv
  BY ONLY <1>3, ThroughNothing, NothingIsShown, Zenon DEF DueInv, WantedInv
<1>. QED BY <1>1, <1>2, <1>4, WholeInit DEF SeenInv

\* Every step.
LEMMA SeenNext == SeenInv /\ [Next]_vars => SeenInv'
<1>. SUFFICES ASSUME SeenInv, [Next]_vars PROVE SeenInv'
  OBVIOUS
<1>0. /\ WholeInv /\ SizeInv /\ DescInv /\ DueInv /\ WantedInv
      /\ PictInv /\ OpInv /\ stream \in Seq(Pieces) /\ Ready(fe)
  BY DEF SeenInv, WholeInv
<1>1. WholeInv'
  BY <1>0, WholeNext
<1>2. CASE UNCHANGED vars
  <2>1. SizeInv' /\ DescInv'
    BY <1>0, <1>2 DEF SizeInv, DescInv, Described, Blended, Addressable, vars, surfaces, client
  <2>2. UNCHANGED <<stream, due, fe, wanted>>
    BY <1>2 DEF vars
  <2>3. DueInv' /\ WantedInv'
    BY ONLY <1>0, <2>2 DEF DueInv, WantedInv
  <2>. QED BY ONLY <1>1, <2>1, <2>3 DEF SeenInv
<1>3. CASE Surface
  <2>1. op = NoOp /\ UNCHANGED <<op, stream, due, fe, wanted>>
    BY <1>3 DEF Surface, client
  <2>2. SizeInv'
    BY <1>0, <1>3, SizesStayFit
  <2>3. DescInv'
    BY ONLY <2>1 DEF DescInv
  <2>4. DueInv' /\ WantedInv'
    BY ONLY <1>0, <2>1 DEF DueInv, WantedInv
  <2>. QED BY ONLY <1>1, <2>2, <2>3, <2>4 DEF SeenInv
<1>4. CASE Describe
  <2>1. UNCHANGED <<surfaces, stream, due, fe, wanted>>
    BY <1>4 DEF Describe, OpNew, OpAddRect, OpSetClipRect, OpSetColor, OpSetBlend, OpSetData,
                OpSetPatFill, Edit, OpDel
  <2>2. SizeInv'
    BY <1>0, <2>1 DEF SizeInv, Addressable, surfaces
  <2>3. DescInv'
    BY <1>0, <1>4, DescribeDescribes
  <2>4. DueInv' /\ WantedInv'
    BY ONLY <1>0, <2>1 DEF DueInv, WantedInv
  <2>. QED BY ONLY <1>1, <2>2, <2>3, <2>4 DEF SeenInv
<1>5. CASE OpExec
  <2>. PICK o : o = op'
    OBVIOUS
  <2>1. /\ op # NoOp /\ o = Prepared(op) /\ UNCHANGED <<surfaces, fe, wanted>>
        /\ op.cmd = "bitblt" => op.srcs # <<>> \/ op.pat_fill
        /\ op.cmd = "mono_blit" => op.data # <<>>
        /\ stream' = stream \o Program(o) /\ due' = Append(due, Asked(o))
    BY <1>5 DEF OpExec
  <2>2. Executed(o)
    BY ONLY <1>0, <2>1, PreparedIsExecuted
  <2>3. o \in Ops /\ Draws(o) /\ Len(o.srcs) <= 8
    <3>1. o \in Ops /\ Draws(o) /\ Len(o.srcs) <= 4
      BY ONLY <1>0, <2>1, PreparedIsOp
    <3>2. Len(o.srcs) \in Nat
      BY ONLY <3>1 DEF Ops
    <3>. QED BY ONLY <3>1, <3>2
  <2>4. SizeInv'
    BY <1>0, <2>1 DEF SizeInv, Addressable, surfaces
  <2>5. DescInv'
    <3>1. Described(o) /\ surf' = surf
      BY <2>1, <2>2 DEF Executed, surfaces
    <3>. QED BY ONLY <3>1, o = op', DescribedHolds
  <2>6. WantedInv'
    BY ONLY <1>0, <2>1 DEF WantedInv
  <2>7. Program(o) \in Seq(Pieces)
    <3>1. Stale \in Words
      BY ConstantsFit
    <3>. QED BY ONLY <2>3, <3>1, ProgramFits, SMT
  <2>8. ASSUME NEW f, Ready(f), f.draws = <<>>
        PROVE  Shown(Through(f, stream').draws, due')
    <3>. PICK g : g = Through(f, stream)
      OBVIOUS
    <3>1. Shown(g.draws, due)
      BY ONLY <1>0, <2>8, g = Through(f, stream), Zenon DEF DueInv
    <3>2. Ready(g)
      <4>1. FlattenSeq(stream) \in Pieces
        BY ONLY <1>0, StreamIsTaken
      <4>. QED BY ONLY <2>8, <4>1, g = Through(f, stream), Zenon DEF Pieces, Through
    <3>3. PICK d : Shows(d, Asked(o)) /\ Through(g, Program(o)).draws = Append(g.draws, d)
      BY ONLY <2>2, <2>3, <3>2, ProgramIsSeen, Zenon
    <3>4. Through(f, stream \o Program(o)) = Through(g, Program(o))
      BY ONLY <1>0, <2>7, g = Through(f, stream), ThroughConcat, Zenon
    <3>5. Shown(Append(g.draws, d), Append(due, Asked(o)))
      BY ONLY <3>1, <3>3, ShownAppend, Zenon
    <3>. QED BY ONLY <2>1, <3>3, <3>4, <3>5, Zenon
  <2>9. DueInv'
    BY ONLY <2>8 DEF DueInv
  <2>. QED BY ONLY <1>1, <2>4, <2>5, <2>6, <2>9 DEF SeenInv
<1>6. CASE Flush
  <2>. PICK f : f = [fe EXCEPT !.draws = <<>>]
    OBVIOUS
  <2>1. /\ UNCHANGED <<surfaces, client>> /\ stream' = <<>> /\ due' = <<>> /\ wanted' = due
        /\ fe' = Through(f, stream)
    BY <1>6 DEF Flush, Through
  <2>2. Ready(f) /\ f.draws = <<>>
    BY <1>0 DEF Ready, FeFields
  <2>3. WantedInv'
    BY ONLY <1>0, <2>1, <2>2 DEF DueInv, WantedInv
  <2>4. DueInv'
    BY ONLY <2>1, ThroughNothing, NothingIsShown, Zenon DEF DueInv
  <2>5. SizeInv' /\ DescInv'
    BY <1>0, <2>1 DEF SizeInv, DescInv, Described, Blended, Addressable, surfaces, client
  <2>. QED BY ONLY <1>1, <2>3, <2>4, <2>5 DEF SeenInv
<1>. QED BY <1>2, <1>3, <1>4, <1>5, <1>6 DEF Next

\* Every draw of a job shows what its operation asked for, whatever earlier operations
\* left in the registers (property EngineSeesOp, viv2d.c:371-712): any number of
\* operations and any interleaving of calls, any surfaces, rectangles, colors, blends
\* and data that the registers have bits for.  Not the color of a line or of a mono
\* blit, nor the mode of a multi-source blit that is not blended over: viv2d_op_exec
\* drops them (Dropped of FrontEnd, and property BlocksBlendAsAsked).
THEOREM EngineDrawsAsAsked == Spec => []EngineSeesOp
<1>1. SeenInv => EngineSeesOp
  BY DEF SeenInv, WantedInv, Shown, Shows, EngineSeesOp
<1>. QED BY <1>1, SeenInit, SeenNext, PTL DEF Spec

\* And every stretch that is drawn ends at the last pixel of its source (property
\* StretchSpansSource, viv2d.c:595-598): the steps of StretchEndsInSource arrive in the
\* engine whole, for all sizes of surfaces.
THEOREM StretchesSpanSource == Spec => []StretchSpansSource
<1>1. SeenInv => StretchSpansSource
  <2>. SUFFICES ASSUME SeenInv PROVE StretchSpansSource
    OBVIOUS
  <2>1. \A i \in 1 .. Len(fe.draws) : Shows(fe.draws[i], wanted[i])
    BY DEF SeenInv, WantedInv, Shown
  <2>2. \A i \in 1 .. Len(fe.draws) : fe.draws[i].stretch # <<>> =>
          \A k \in {1, 2} :
            LET from == wanted[i].sizes[k]
                to == wanted[i].sizes[k + 2]
                f == fe.draws[i].stretch[k]
            IN  f * (to - 1) <= (from - 1) * 65536 /\ (from - 1) * 65536 < (f + 1) * (to - 1)
    BY ONLY <2>1, SMT DEF Shows
  <2>. QED BY ONLY <2>2, SMT DEF StretchSpansSource
<1>. QED BY <1>1, SeenInit, SeenNext, PTL DEF Spec

(***************************************************************************)
(* Where a stream is cut into jobs does not matter to what is drawn: an    *)
(* operation may be cut between any two reserves.                          *)
(***************************************************************************)
\* A sequence, of anything.
IsSeq(s) == \E D : s \in Seq(D)

\* a is b with the draws of earlier jobs, ds, before its own.
Behind(a, b, ds) ==
  /\ DOMAIN a = FeFields /\ DOMAIN b = FeFields
  /\ a.mode = b.mode /\ a.odd = b.odd /\ a.left = b.left /\ a.at = b.at
  /\ a.data_left = b.data_left /\ a.corners = b.corners /\ a.data = b.data
  /\ a.regs = b.regs
  /\ IsSeq(b.draws) /\ a.draws = ds \o b.draws

\* What Append does behind other elements.
LEMMA AppendDraw ==
  ASSUME NEW ds, IsSeq(ds), NEW s, IsSeq(s), NEW d
  PROVE  IsSeq(Append(s, d)) /\ Append(ds \o s, d) = ds \o Append(s, d)
<1>1. PICK C : ds \in Seq(C)
  BY DEF IsSeq
<1>2. PICK D : s \in Seq(D)
  BY DEF IsSeq
<1>. DEFINE U == C \cup D \cup {d}
<1>3. ds \in Seq(U) /\ s \in Seq(U) /\ d \in U
  BY <1>1, <1>2
<1>. HIDE DEF U
<1>4. Append(s, d) \in Seq(U)
  BY ONLY <1>3
<1>5. Append(ds \o s, d) = ds \o Append(s, d)
  <2>. PICK e : e = <<d>>
    OBVIOUS
  <2>1. e \in Seq(U) /\ ds \o s \in Seq(U)
    BY ONLY <1>3, e = <<d>>
  <2>2. Append(ds \o s, d) = (ds \o s) \o e /\ Append(s, d) = s \o e
    BY ONLY <1>3, <2>1, AppendIsConcat, e = <<d>>, Zenon
  <2>3. (ds \o s) \o e = ds \o (s \o e)
    BY <1>3, <2>1
  <2>. QED BY ONLY <2>2, <2>3, Zenon
<1>. QED BY ONLY <1>4, <1>5 DEF IsSeq

\* Counting a word keeps that.
LEMMA CountedBehind ==
  ASSUME NEW ds, NEW a, NEW b, Behind(a, b, ds)
  PROVE  Behind(Counted(a), Counted(b), ds)
BY DEF Behind, Counted, FeFields

\* The end of a command does.
LEMMA EndedBehind ==
  ASSUME NEW ds, NEW a, NEW b, Behind(a, b, ds)
  PROVE  Behind(Ended(a), Ended(b), ds)
BY DEF Behind, Ended, FeFields

\* A draw is appended to both.
LEMMA DrawnBehind ==
  ASSUME NEW ds, IsSeq(ds), NEW a, NEW b, Behind(a, b, ds)
  PROVE  Behind(Drawn(a), Drawn(b), ds)
<1>. DEFINE With(f, d) == [f EXCEPT !.draws = Append(@, d), !.corners = <<>>, !.data = <<>>]
<1>1. PICK d : d = Seen(a.regs, a.corners, a.data)
  OBVIOUS
<1>2. d = Seen(b.regs, b.corners, b.data)
  BY ONLY <1>1, Behind(a, b, ds) DEF Behind
<1>3. Drawn(a) = Ended(With(a, d)) /\ Drawn(b) = Ended(With(b, d))
  BY ONLY <1>1, <1>2, Zenon DEF Drawn
<1>4. IsSeq(Append(b.draws, d)) /\ Append(a.draws, d) = ds \o Append(b.draws, d)
  <2>1. PICK s : s = b.draws
    OBVIOUS
  <2>2. IsSeq(s) /\ a.draws = ds \o s
    BY ONLY <2>1, Behind(a, b, ds) DEF Behind
  <2>3. IsSeq(Append(s, d)) /\ Append(ds \o s, d) = ds \o Append(s, d)
    BY ONLY <2>2, IsSeq(ds), AppendDraw
  <2>. QED BY ONLY <2>1, <2>2, <2>3, Zenon
<1>5. Behind(With(a, d), With(b, d), ds)
  BY ONLY Behind(a, b, ds), <1>4 DEF Behind, FeFields
<1>. HIDE DEF With
<1>. QED BY ONLY <1>3, <1>5, EndedBehind, Zenon

\* Each kind of word does: a header,
LEMMA CommandBehind ==
  ASSUME NEW ds, NEW a, NEW b, Behind(a, b, ds), NEW w
  PROVE  Behind(FeCommand(a, w), FeCommand(b, w), ds)
<1>. DEFINE op1 == Get(w, VIV_FE_LOAD_STATE_HEADER.OP)
            op2 == Get(w, VIV_FE_DRAW_2D_HEADER.OP)
            at == Num(Get(w, VIV_FE_LOAD_STATE_HEADER.OFFSET))
            n == Num(Get(w, VIV_FE_LOAD_STATE_HEADER.COUNT))
            c == 1 + 2 * Num(Get(w, VIV_FE_DRAW_2D_HEADER.COUNT))
            k == Num(Get(w, VIV_FE_DRAW_2D_HEADER.DATA_COUNT))
            Does(f) == CASE op1 = OP_LOAD_STATE ->
                             [f EXCEPT !.mode = "state", !.at = at, !.left = n]
                        [] op2 = OP_DRAW_2D ->
                             [f EXCEPT !.mode = "corners", !.left = c, !.data_left = k]
                        [] OTHER -> [f EXCEPT !.mode = "lost"]
<1>1. FeCommand(a, w) = Does(a) /\ FeCommand(b, w) = Does(b)
  BY ONLY DEF FeCommand
<1>. HIDE DEF op1, op2, at, n, c, k
<1>2. Behind(Does(a), Does(b), ds)
  BY ONLY Behind(a, b, ds), CommandsDiffer DEF Behind, FeFields
<1>. HIDE DEF Does
<1>. QED BY ONLY <1>1, <1>2, Zenon

\* a word for a register,
LEMMA StateBehind ==
  ASSUME NEW ds, NEW a, NEW b, Behind(a, b, ds), NEW w
  PROVE  Behind(FeState(a, w), FeState(b, w), ds)
<1>. DEFINE Does(f, l, at, r) == [f EXCEPT !.left = l, !.at = at, !.regs = r]
<1>1. PICK l, at, r : l = a.left - 1 /\ at = a.at + 1 /\ r = SetReg(a.regs, a.at, w)
  OBVIOUS
<1>2. l = b.left - 1 /\ at = b.at + 1 /\ r = SetReg(b.regs, b.at, w)
  BY ONLY <1>1, Behind(a, b, ds), Zenon DEF Behind
<1>. DEFINE c == Does(a, l, at, r)
            d == Does(b, l, at, r)
<1>3. /\ FeState(a, w) = IF c.left = 0 THEN Ended(c) ELSE c
      /\ FeState(b, w) = IF d.left = 0 THEN Ended(d) ELSE d
  BY ONLY <1>1, <1>2, Behind(a, b, ds) DEF FeState, SetReg, Behind, FeFields
<1>4. Behind(c, d, ds) /\ c.left = d.left
  BY ONLY Behind(a, b, ds) DEF Behind, FeFields
<1>. HIDE DEF c, d
<1>5. Behind(Ended(c), Ended(d), ds)
  BY ONLY <1>4, EndedBehind, Zenon
<1>. QED BY ONLY <1>3, <1>4, <1>5, Zenon

\* data of a draw,
LEMMA DataBehind ==
  ASSUME NEW ds, IsSeq(ds), NEW a, NEW b, Behind(a, b, ds), NEW w
  PROVE  Behind(FeData(a, w), FeData(b, w), ds)
<1>. DEFINE Does(f, l, x) == [f EXCEPT !.left = l, !.data = x]
<1>1. PICK l, x : l = a.left - 1 /\ x = Append(a.data, w)
  OBVIOUS
<1>2. l = b.left - 1 /\ x = Append(b.data, w)
  BY ONLY <1>1, Behind(a, b, ds), Zenon DEF Behind
<1>. DEFINE c == Does(a, l, x)
            d == Does(b, l, x)
<1>3. /\ FeData(a, w) = IF c.left = 0 THEN Drawn(c) ELSE c
      /\ FeData(b, w) = IF d.left = 0 THEN Drawn(d) ELSE d
  BY ONLY <1>1, <1>2 DEF FeData
<1>4. Behind(c, d, ds) /\ c.left = d.left
  BY ONLY Behind(a, b, ds) DEF Behind, FeFields
<1>. HIDE DEF c, d
<1>5. Behind(Drawn(c), Drawn(d), ds)
  BY ONLY <1>4, IsSeq(ds), DrawnBehind, Zenon
<1>. QED BY ONLY <1>3, <1>4, <1>5, Zenon

\* and corners, the last of which may start the data or end the draw.
LEMMA CornersBehind ==
  ASSUME NEW ds, IsSeq(ds), NEW a, NEW b, Behind(a, b, ds), NEW w
  PROVE  Behind(FeCorners(a, w), FeCorners(b, w), ds)
<1>. DEFINE Does(f, l, x) == [f EXCEPT !.left = l, !.corners = x]
            InData(f) == [f EXCEPT !.mode = "data"]
<1>1. PICK l, x : l = a.left - 1 /\ x = Append(a.corners, w)
  OBVIOUS
<1>2. l = b.left - 1 /\ x = Append(b.corners, w)
  BY ONLY <1>1, Behind(a, b, ds), Zenon DEF Behind
<1>. DEFINE c == Does(a, l, x)
            d == Does(b, l, x)
            After(f) == [f EXCEPT !.corners = Tail(@), !.left = f.data_left]
            Goes(g, h) == IF g.left > 0 THEN g
                          ELSE IF h.left > 0 THEN InData(h) ELSE Drawn(h)
            m == After(c)
            n == After(d)
<1>3. FeCorners(a, w) = Goes(c, m) /\ FeCorners(b, w) = Goes(d, n)
  <2>1. c = [a EXCEPT !.left = @ - 1, !.corners = Append(@, w)]
    BY ONLY <1>1
  <2>2. d = [b EXCEPT !.left = @ - 1, !.corners = Append(@, w)]
    BY ONLY <1>2
  <2>. HIDE DEF c, d
  <2>3. FeCorners(a, w) = Goes(c, m)
    BY ONLY <2>1 DEF FeCorners
  <2>4. FeCorners(b, w) = Goes(d, n)
    BY ONLY <2>2 DEF FeCorners
  <2>. QED BY ONLY <2>3, <2>4, Zenon
<1>4. Behind(c, d, ds) /\ c.left = d.left
  BY ONLY Behind(a, b, ds) DEF Behind, FeFields
<1>. HIDE DEF c, d
<1>5. Behind(m, n, ds) /\ m.left = n.left
  BY ONLY <1>4 DEF Behind, FeFields
<1>. HIDE DEF m, n
<1>6. Behind(Drawn(m), Drawn(n), ds)
  BY ONLY <1>5, IsSeq(ds), DrawnBehind, Zenon
<1>7. Behind(InData(m), InData(n), ds)
  BY ONLY <1>5 DEF Behind, FeFields
<1>. QED BY ONLY <1>3, <1>4, <1>5, <1>6, <1>7, Zenon

\* So does every word.
LEMMA StepBehind ==
  ASSUME NEW ds, IsSeq(ds), NEW a, NEW b, Behind(a, b, ds), NEW w
  PROVE  Behind(FeStep(a, w), FeStep(b, w), ds)
<1>. DEFINE Padded(f) == [f EXCEPT !.mode = "command"]
            Does(g) == CASE g.mode = "command" -> FeCommand(g, w)
                         [] g.mode = "state" -> FeState(g, w)
                         [] g.mode = "corners" -> FeCorners(g, w)
                         [] g.mode = "data" -> FeData(g, w)
                         [] g.mode = "pad" -> Padded(g)
                         [] OTHER -> g
<1>. PICK c, d : c = Counted(a) /\ d = Counted(b)
  OBVIOUS
<1>1. FeStep(a, w) = Does(c) /\ FeStep(b, w) = Does(d)
  BY ONLY c = Counted(a), d = Counted(b), Zenon DEF FeStep, Counted
<1>2. Behind(c, d, ds)
  BY CountedBehind
<1>3. Behind(FeCommand(c, w), FeCommand(d, w), ds)
  BY ONLY <1>2, CommandBehind, Zenon
<1>4. Behind(FeState(c, w), FeState(d, w), ds)
  BY ONLY <1>2, StateBehind, Zenon
<1>5. Behind(FeCorners(c, w), FeCorners(d, w), ds)
  BY ONLY <1>2, IsSeq(ds), CornersBehind, Zenon
<1>6. Behind(FeData(c, w), FeData(d, w), ds)
  BY ONLY <1>2, IsSeq(ds), DataBehind, Zenon
<1>7. Behind(Padded(c), Padded(d), ds)
  BY ONLY <1>2 DEF Behind, FeFields
<1>8. c.mode = d.mode
  BY ONLY <1>2 DEF Behind
<1>. HIDE DEF Padded
<1>. QED BY ONLY <1>1, <1>2, <1>3, <1>4, <1>5, <1>6, <1>7, <1>8

\* And all the words of a job.
LEMMA FetchBehind ==
  ASSUME NEW ds, IsSeq(ds), NEW a, NEW b, Behind(a, b, ds), NEW u \in Seq(Words)
  PROVE  Behind(Fetch(a, u), Fetch(b, u), ds)
<1>. DEFINE L == Len(u)
<1>1. PICK g : IsRun(g, a, u)
  BY RunExists
<1>2. PICK h : IsRun(h, b, u)
  BY RunExists
<1>3. L \in Nat /\ Fetch(a, u) = g[L] /\ Fetch(b, u) = h[L]
  BY <1>1, <1>2, FetchFollowsRun
<1>4. /\ g[0] = a /\ \A i \in 1 .. L : g[i] = FeStep(g[i - 1], u[i])
      /\ h[0] = b /\ \A i \in 1 .. L : h[i] = FeStep(h[i - 1], u[i])
  BY <1>1, <1>2 DEF IsRun
<1>. HIDE DEF L
<1>. DEFINE S == {n \in Nat : n <= L => Behind(g[n], h[n], ds)}
<1>5. 0 \in S
  BY ONLY <1>4, Behind(a, b, ds)
<1>6. ASSUME NEW n \in Nat, n \in S PROVE n + 1 \in S
  <2>. SUFFICES ASSUME n + 1 <= L PROVE Behind(g[n + 1], h[n + 1], ds)
    OBVIOUS
  <2>1. n + 1 \in 1 .. L /\ (n + 1) - 1 = n /\ Behind(g[n], h[n], ds)
    BY ONLY <1>3, <1>6, n + 1 <= L
  <2>. PICK x, y, w : x = g[n] /\ y = h[n] /\ w = u[n + 1]
    OBVIOUS
  <2>2. g[n + 1] = FeStep(x, w) /\ h[n + 1] = FeStep(y, w)
    BY ONLY <1>4, <2>1, x = g[n], y = h[n], w = u[n + 1]
  <2>3. Behind(FeStep(x, w), FeStep(y, w), ds)
    BY ONLY <2>1, x = g[n], y = h[n], IsSeq(ds), StepBehind, Zenon
  <2>. QED BY ONLY <2>2, <2>3, Zenon
<1>. HIDE DEF S
<1>7. L \in S
  BY <1>3, <1>5, <1>6, Induct
<1>. QED BY <1>3, <1>7 DEF S

\* Two jobs, cut between any two reserves, do what one would: the registers end up the
\* same and the same is drawn in the same order (etnaviv.c:391-440: a job is what was
\* emitted since the last flush, and a reserve flushes when the buffer is full).
THEOREM CutsChangeNothing ==
  ASSUME NEW s \in Seq(Pieces), NEW t \in Seq(Pieces), NEW f, Ready(f), f.draws = <<>>
  PROVE  LET one == Through(f, s \o t)
             first == Through(f, s)
             second == Through([first EXCEPT !.draws = <<>>], t)
         IN  /\ Ready(first) /\ Ready(second) /\ Ready(one)
             /\ one.regs = second.regs
             /\ one.draws = first.draws \o second.draws
<1>. PICK one, a : one = Through(f, s \o t) /\ a = Through(f, s)
  OBVIOUS
<1>. PICK b : b = [a EXCEPT !.draws = <<>>]
  OBVIOUS
<1>. PICK c : c = Through(b, t)
  OBVIOUS
<1>1. one = Through(a, t)
  BY ONLY ThroughConcat, s \in Seq(Pieces), t \in Seq(Pieces), one = Through(f, s \o t),
          a = Through(f, s), Zenon
<1>2. FlattenSeq(s) \in Pieces /\ FlattenSeq(t) \in Pieces
  BY StreamIsTaken
<1>3. /\ FlattenSeq(s) \in Seq(Words) /\ FlattenSeq(t) \in Seq(Words)
      /\ \A g : Ready(g) => Ready(Through(g, s)) /\ Ready(Through(g, t))
  BY ONLY <1>2 DEF Pieces, Through
<1>4. Ready(a)
  BY ONLY <1>3, Ready(f), a = Through(f, s)
<1>5. Ready(b) /\ b.draws = <<>>
  BY ONLY <1>4, b = [a EXCEPT !.draws = <<>>] DEF Ready, FeFields
<1>6. Ready(one) /\ Ready(c)
  BY ONLY <1>1, <1>3, <1>4, <1>5, c = Through(b, t)
<1>7. IsSeq(<<>>)
  <2>1. <<>> \in Seq({})
    OBVIOUS
  <2>. QED BY ONLY <2>1 DEF IsSeq
<1>8. IsSeq(a.draws)
  <2>1. <<>> \o <<>> = <<>>
    OBVIOUS
  <2>2. Behind(f, f, <<>>)
    BY ONLY <1>7, <2>1, Ready(f), f.draws = <<>> DEF Behind, Ready
  <2>3. Behind(a, a, <<>>)
    BY ONLY <1>3, <1>7, <2>2, FetchBehind, a = Through(f, s), Zenon DEF Through
  <2>. QED BY ONLY <2>3 DEF Behind
<1>9. Behind(a, b, a.draws)
  <2>1. PICK D : a.draws \in Seq(D)
    BY <1>8 DEF IsSeq
  <2>2. a.draws \o <<>> = a.draws
    BY ONLY <2>1
  <2>. QED BY ONLY <1>4, <1>7, <2>2, b = [a EXCEPT !.draws = <<>>] DEF Behind, Ready, FeFields
<1>10. Behind(one, c, a.draws)
  BY ONLY <1>1, <1>3, <1>8, <1>9, FetchBehind, c = Through(b, t), Zenon DEF Through
<1>11. one.regs = c.regs /\ one.draws = a.draws \o c.draws
  BY ONLY <1>10 DEF Behind
<1>. QED BY ONLY <1>4, <1>6, <1>11, one = Through(f, s \o t), a = Through(f, s),
             b = [a EXCEPT !.draws = <<>>], c = Through(b, t), Zenon

\* What is in the stream is drawn as asked by two jobs, wherever it is cut.
CutsShow ==
  \A n \in 0 .. Len(stream) :
    LET first == Through([fe EXCEPT !.draws = <<>>], SubSeq(stream, 1, n))
        second == Through([first EXCEPT !.draws = <<>>], SubSeq(stream, n + 1, Len(stream)))
    IN  Shown(first.draws \o second.draws, due)

\* An operation that is cut between any two of its reserves is drawn as one that is not
\* (viv2d.c:371-702: every call that emits reserves, and may flush): what it asked for
\* arrives, but for what Dropped of FrontEnd names.
THEOREM CutDrawsAsAsked == Spec => []CutsShow
<1>1. SeenInv => CutsShow
  <2>. SUFFICES ASSUME SeenInv, NEW n \in 0 .. Len(stream)
                PROVE  LET first == Through([fe EXCEPT !.draws = <<>>], SubSeq(stream, 1, n))
                           second == Through([first EXCEPT !.draws = <<>>],
                                             SubSeq(stream, n + 1, Len(stream)))
                       IN  Shown(first.draws \o second.draws, due)
    BY DEF CutsShow
  <2>. PICK f : f = [fe EXCEPT !.draws = <<>>]
    OBVIOUS
  <2>. PICK s, t : s = SubSeq(stream, 1, n) /\ t = SubSeq(stream, n + 1, Len(stream))
    OBVIOUS
  <2>1. stream \in Seq(Pieces) /\ Ready(fe) /\ DueInv
    BY DEF SeenInv, WholeInv
  <2>2. Ready(f) /\ f.draws = <<>>
    BY ONLY <2>1, f = [fe EXCEPT !.draws = <<>>] DEF Ready, FeFields
  <2>3. s \in Seq(Pieces) /\ t \in Seq(Pieces) /\ s \o t = stream
    <3>. PICK m : m = Len(stream)
      OBVIOUS
    <3>1. m \in Nat /\ n \in Nat /\ n <= m
      BY ONLY <2>1, m = Len(stream), n \in 0 .. Len(stream)
    <3>2. s \in Seq(Pieces) /\ t \in Seq(Pieces) /\ Len(s) = n /\ Len(t) = m - n
      BY ONLY <2>1, <3>1, m = Len(stream), s = SubSeq(stream, 1, n),
              t = SubSeq(stream, n + 1, Len(stream))
    <3>3. \A i \in 1 .. n : s[i] = stream[i]
      BY ONLY <2>1, <3>1, m = Len(stream), s = SubSeq(stream, 1, n)
    <3>4. \A i \in 1 .. m - n : t[i] = stream[n + i]
      BY ONLY <2>1, <3>1, m = Len(stream), t = SubSeq(stream, n + 1, Len(stream))
    <3>5. s \o t \in Seq(Pieces) /\ Len(s \o t) = m
      BY ONLY <3>1, <3>2
    <3>6. \A i \in 1 .. m : (s \o t)[i] = stream[i]
      BY ONLY <3>1, <3>2, <3>3, <3>4
    <3>. QED BY ONLY <2>1, <3>1, <3>2, <3>5, <3>6, m = Len(stream), SeqEqual
  <2>. PICK first : first = Through(f, s)
    OBVIOUS
  <2>. PICK second : second = Through([first EXCEPT !.draws = <<>>], t)
    OBVIOUS
  <2>4. Through(f, stream).draws = first.draws \o second.draws
    BY ONLY <2>2, <2>3, CutsChangeNothing, first = Through(f, s),
            second = Through([first EXCEPT !.draws = <<>>], t), Zenon
  <2>5. Shown(Through(f, stream).draws, due)
    BY ONLY <2>1, <2>2, Zenon DEF DueInv
  <2>. QED BY ONLY <2>4, <2>5, first = Through(f, s), f = [fe EXCEPT !.draws = <<>>],
              second = Through([first EXCEPT !.draws = <<>>], t), s = SubSeq(stream, 1, n),
              t = SubSeq(stream, n + 1, Len(stream)), Zenon
<1>. QED BY <1>1, SeenInit, SeenNext, PTL DEF Spec
===============================================================================

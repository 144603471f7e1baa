----------------------------- MODULE FrontEndProofs -----------------------------
(***************************************************************************)
(* What is proved of Registers, Surfaces and FrontEnd, for every set of    *)
(* surfaces and every width, height and format.  EngineProofs goes on.     *)
(***************************************************************************)
EXTENDS FrontEnd, FiniteSetTheorems, SequenceTheorems, TLAPS

(***************************************************************************)
(* Fields of a word: what is put into one is what is read from it, and the *)
(* other fields of the word do not matter.                                 *)
(***************************************************************************)

\* The bits of a field, and words that fit into it.
IsField(f) == f[1] \in Nat /\ f[2] \in Nat
Fits(x, f) == x \subseteq 0 .. f[2] - f[1]

\* Fields that share no bit.
Apart(f, g) == Mask(f) \cap Mask(g) = {}

\* A word that fits is read back.
LEMMA FieldReadsBack ==
  ASSUME NEW f, IsField(f), NEW x, Fits(x, f)
  PROVE  Get(Put(x, f), f) = x
<1>1. f[1] \in Nat /\ f[2] \in Nat /\ x \subseteq Int /\ \A i \in x : i >= 0 /\ i <= f[2] - f[1]
  BY DEF IsField, Fits
<1>2. Put(x, f) = {i + f[1] : i \in x}
  BY <1>1 DEF Put, Mask
<1>3. Get(Put(x, f), f) \subseteq x
  BY <1>1, <1>2 DEF Get, Mask
<1>4. x \subseteq Get(Put(x, f), f)
  <2>. SUFFICES ASSUME NEW i \in x PROVE i \in Get(Put(x, f), f)
    OBVIOUS
  <2>1. i + f[1] \in Put(x, f) \cap Mask(f)
    BY <1>1, <1>2 DEF Mask
  <2>2. i = (i + f[1]) - f[1]
    BY <1>1
  <2>. QED BY <2>1, <2>2 DEF Get
<1>. QED BY <1>3, <1>4

\* What is outside a field does not matter to it.
LEMMA OthersDontMatter ==
  ASSUME NEW f, NEW u, NEW w, w \cap Mask(f) = {}
  PROVE  Get(u \cup w, f) = Get(u, f)
<1>1. (u \cup w) \cap Mask(f) = u \cap Mask(f)
  OBVIOUS
<1>. QED BY <1>1 DEF Get

\* A put changes bits of its field only.
LEMMA PutInMask == \A x, f : Put(x, f) \subseteq Mask(f)
BY DEF Put

\* Fields or-ed together are read back one by one (etna_set_state with the fields
\* of a register, viv2d.c:410-712), when they are apart and each value fits.
THEOREM PackReadsBack ==
  ASSUME NEW fields, NEW v, NEW n \in DOMAIN v,
         IsField(fields[n]), Fits(v[n], fields[n]),
         \A m \in DOMAIN v \ {n} : Apart(fields[m], fields[n])
  PROVE  Get(Pack(fields, v), fields[n]) = v[n]
<1>. DEFINE P(m) == Put(v[m], fields[m])
            rest == UNION {P(m) : m \in DOMAIN v \ {n}}
<1>1. Pack(fields, v) = P(n) \cup rest
  BY DEF Pack
<1>2. rest \cap Mask(fields[n]) = {}
  <2>1. \A m \in DOMAIN v \ {n} : P(m) \cap Mask(fields[n]) = {}
    BY PutInMask DEF Apart
  <2>. QED BY <2>1
<1>3. Get(P(n) \cup rest, fields[n]) = Get(P(n), fields[n])
  BY <1>2, OthersDontMatter
<1>4. Get(P(n), fields[n]) = v[n]
  BY FieldReadsBack
<1>. QED BY <1>1, <1>3, <1>4

-------------------------------------------------------------------------------
\* What holds of 0, and of n + 1 when it holds of n, holds of every number.
LEMMA Induct ==
  ASSUME NEW S, 0 \in S, \A n \in Nat : n \in S => n + 1 \in S
  PROVE  Nat \subseteq S
<1>. DEFINE T == Nat \ S
            less == OpToRel(<, Nat)
<1>. SUFFICES ASSUME T # {} PROVE FALSE
  OBVIOUS
<1>1. IsWellFoundedOn(less, Nat) /\ T \subseteq Nat
  BY NatLessThanWellFounded
<1>2. \A x, y \in Nat : <<y, x>> \notin less => ~(y < x)
  BY DEF OpToRel
<1>. HIDE DEF less
<1>3. PICK m \in T : \A y \in T : <<y, m>> \notin less
  <2>. HIDE DEF T
  <2>. QED BY <1>1, WFMin
<1>4. m # 0 /\ m \in Nat
  OBVIOUS
<1>5. m - 1 \in Nat /\ m - 1 < m
  BY <1>4
<1>6. m - 1 \notin T
  BY <1>2, <1>3, <1>4, <1>5
<1>7. m - 1 \in S /\ (m - 1) + 1 = m
  BY <1>4, <1>5, <1>6
<1>8. m \in S
  BY <1>5, <1>7
<1>. QED BY <1>3, <1>8

\* The powers of two of a word.
LEMMA PowerStep ==
  ASSUME NEW i \in 0 .. 30
  PROVE  2^i \in Nat \ {0} /\ 2^(i + 1) = 2 * 2^i
<1>. DEFINE P(k) == 2^k \in Nat \ {0} /\ 2^(k + 1) = 2 * 2^k
<1>1. P(0) /\ P(1) /\ P(2) /\ P(3)
  OBVIOUS
<1>2. P(4) /\ P(5) /\ P(6) /\ P(7)
  OBVIOUS
<1>3. P(8) /\ P(9) /\ P(10) /\ P(11)
  OBVIOUS
<1>4. P(12) /\ P(13) /\ P(14) /\ P(15)
  OBVIOUS
<1>5. P(16) /\ P(17) /\ P(18) /\ P(19)
  OBVIOUS
<1>6. P(20) /\ P(21) /\ P(22) /\ P(23)
  OBVIOUS
<1>7. P(24) /\ P(25) /\ P(26) /\ P(27)
  OBVIOUS
<1>8. P(28) /\ P(29) /\ P(30)
  OBVIOUS
<1>. HIDE DEF P
<1>9. \/ i = 0 \/ i = 1 \/ i = 2 \/ i = 3 \/ i = 4 \/ i = 5 \/ i = 6 \/ i = 7
      \/ i = 8 \/ i = 9 \/ i = 10 \/ i = 11 \/ i = 12 \/ i = 13 \/ i = 14 \/ i = 15
      \/ i = 16 \/ i = 17 \/ i = 18 \/ i = 19 \/ i = 20 \/ i = 21 \/ i = 22 \/ i = 23
      \/ i = 24 \/ i = 25 \/ i = 26 \/ i = 27 \/ i = 28 \/ i = 29 \/ i = 30
  OBVIOUS
<1>10. P(i)
  BY <1>1, <1>2, <1>3, <1>4, <1>5, <1>6, <1>7, <1>8, <1>9
<1>. QED BY <1>10 DEF P

\* They grow.
Power(i) == 2^i

LEMMA PowersGrow ==
  ASSUME NEW k \in 0 .. 31, NEW i \in k .. 31
  PROVE  Power(i) \in Nat \ {0} /\ Power(k) \in Nat \ {0} /\ Power(k) <= Power(i)
<1>1. \A j \in 0 .. 31 : Power(j) \in Nat \ {0}
  <2>. SUFFICES ASSUME NEW j \in 0 .. 31 PROVE Power(j) \in Nat \ {0}
    OBVIOUS
  <2>1. CASE j = 31
    BY <2>1 DEF Power
  <2>2. CASE j # 31
    <3>1. j \in 0 .. 30
      BY <2>2
    <3>. QED BY <3>1, PowerStep DEF Power
  <2>. QED BY <2>1, <2>2
<1>2. \A j \in 0 .. 30 : Power(j + 1) = 2 * Power(j)
  BY PowerStep DEF Power
<1>. DEFINE S == {d \in Nat : k + d <= 31 => Power(k) <= Power(k + d)}
<1>3. 0 \in S
  BY <1>1
<1>4. ASSUME NEW d \in Nat, d \in S PROVE d + 1 \in S
  <2>. SUFFICES ASSUME k + (d + 1) <= 31 PROVE Power(k) <= Power(k + (d + 1))
    OBVIOUS
  <2>1. k + d \in 0 .. 30 /\ k + (d + 1) = (k + d) + 1 /\ k + d <= 31
    OBVIOUS
  <2>2. Power(k + (d + 1)) = 2 * Power(k + d) /\ Power(k + d) \in Nat /\ Power(k) \in Nat
    BY <1>1, <1>2, <2>1
  <2>3. Power(k) <= Power(k + d)
    BY <1>4, <2>1
  <2>. QED BY <2>2, <2>3
<1>5. Nat \subseteq S
  <2>. HIDE DEF S
  <2>. QED BY <1>3, <1>4, Induct
<1>6. i - k \in Nat /\ k + (i - k) = i /\ i \in 0 .. 31
  OBVIOUS
<1>7. k + (i - k) <= 31 => Power(k) <= Power(k + (i - k))
  BY <1>5, <1>6
<1>. QED BY <1>1, <1>6, <1>7

\* Bits by the powers.
LEMMA BitsByPower ==
  \A n, i : i \in Bits(n) <=> i \in 0 .. 30 /\ (n \div Power(i)) % 2 = 1
BY Zenon DEF Bits, Power

\* A number below 2^k has its bits below k.
LEMMA BitsBelow ==
  ASSUME NEW k \in 0 .. 31, NEW n \in Nat, n < Power(k)
  PROVE  Bits(n) \subseteq 0 .. k - 1
<1>0. Bits(n) \subseteq 0 .. 30
  BY BitsByPower
<1>. SUFFICES ASSUME NEW i \in Bits(n), i >= k PROVE FALSE
  BY <1>0
<1>1. i \in k .. 31 /\ (n \div Power(i)) % 2 = 1
  BY <1>0, BitsByPower
<1>2. PICK p \in Nat \ {0} : p = Power(i)
  BY <1>1, PowersGrow
<1>3. n < p
  BY <1>1, <1>2, PowersGrow
<1>4. n \div p = 0
  BY <1>3
<1>5. 0 % 2 = 0
  OBVIOUS
<1>. QED BY <1>1, <1>2, <1>4, <1>5

\* A natural number is a multiple of d and a remainder below d.
LEMMA DivMod ==
  ASSUME NEW n \in Nat, NEW d \in Nat \ {0}
  PROVE  /\ n \div d \in Nat
         /\ n % d \in 0 .. d - 1
         /\ n = d * (n \div d) + (n % d)
OBVIOUS

\* A quotient is halved when the divisor is doubled.
LEMMA QuotientHalved ==
  ASSUME NEW n \in Nat, NEW p \in Nat \ {0}
  PROVE  /\ n \div p \in Nat /\ (n \div p) \div 2 \in Nat
         /\ n \div (2 * p) = (n \div p) \div 2
<1>1. PICK q \in Nat, r \in 0 .. p - 1 : q = n \div p /\ n = p * q + r
  <2>1. n \div p \in Nat /\ n % p \in 0 .. p - 1 /\ n = p * (n \div p) + (n % p)
    BY DivMod
  <2>. QED BY <2>1
<1>2. PICK h \in Nat, b \in 0 .. 1 : h = q \div 2 /\ q = 2 * h + b
  OBVIOUS
<1>3. n = (2 * p) * h + (p * b + r)
  <2>1. p * q = p * (2 * h) + p * b /\ p * (2 * h) = (2 * p) * h
    BY <1>2
  <2>2. p * b \in Nat /\ p * (2 * h) \in Nat
    BY <1>2
  <2>. QED BY <1>1, <2>1, <2>2
<1>4. p * b + r \in 0 .. 2 * p - 1
  <2>1. b = 0 \/ b = 1
    BY <1>2
  <2>. QED BY <1>1, <2>1
<1>5. PICK m \in Nat \ {0}, s \in 0 .. 2 * p - 1 : m = 2 * p /\ s = p * b + r
  BY <1>4
<1>6. n = m * h + s
  BY <1>3, <1>5
<1>7. n \div m = h
  BY <1>5, <1>6
<1>. QED BY <1>1, <1>2, <1>5, <1>7

-------------------------------------------------------------------------------
(***************************************************************************)
(* Num reads what Bits has written.  Num adds the powers in an order that  *)
(* CHOOSE gives; the order does not matter.                                *)
(***************************************************************************)
Some(s) == CHOOSE x \in s : TRUE

\* f is the sum of the powers in the subsets of w.
Sums(f, w) ==
  \A s \in SUBSET w : f[s] = IF s = {} THEN 0 ELSE Power(Some(s)) + f[s \ {Some(s)}]

LEMMA SomeIn == \A s : s # {} => Some(s) \in s
BY DEF Some

\* The sizes of subsets.
LEMMA SubsetCard ==
  ASSUME NEW w, IsFiniteSet(w), NEW s \in SUBSET w
  PROVE  /\ Cardinality(s) \in Nat /\ Cardinality(s) <= Cardinality(w)
         /\ (Cardinality(s) = 0 => s = {}) /\ (s = {} => Cardinality(s) = 0)
         /\ s # {} => /\ s \ {Some(s)} \in SUBSET w
                      /\ Cardinality(s \ {Some(s)}) = Cardinality(s) - 1
<1>1. IsFiniteSet(s) /\ Cardinality(s) <= Cardinality(w)
  BY FS_Subset
<1>2. Cardinality(s) \in Nat /\ (Cardinality(s) = 0 <=> s = {})
  BY <1>1, FS_CardinalityType, FS_EmptySet
<1>3. s # {} => Cardinality(s \ {Some(s)}) = Cardinality(s) - 1
  BY <1>1, SomeIn, FS_RemoveElement
<1>. QED BY <1>1, <1>2, <1>3

\* There is such a sum.
LEMMA SumExists ==
  ASSUME NEW w, IsFiniteSet(w)
  PROVE  \E f : Sums(f, w) /\ f = [s \in SUBSET w |-> f[s]]
<1>. DEFINE Upto(f, n) ==
              \A s \in SUBSET w : Cardinality(s) <= n =>
                f[s] = IF s = {} THEN 0 ELSE Power(Some(s)) + f[s \ {Some(s)}]
            S == {n \in Nat : \E f : Upto(f, n)}
<1>1. \A s \in SUBSET w :
        /\ Cardinality(s) \in Nat /\ Cardinality(s) <= Cardinality(w)
        /\ (Cardinality(s) = 0 => s = {})
        /\ s # {} => /\ s \ {Some(s)} \in SUBSET w
                     /\ Cardinality(s \ {Some(s)}) = Cardinality(s) - 1
  BY SubsetCard
<1>2. 0 \in S
  <2>. DEFINE f == [s \in SUBSET w |-> 0]
  <2>1. ASSUME NEW s \in SUBSET w, Cardinality(s) <= 0 PROVE s = {}
    <3>1. Cardinality(s) \in Nat /\ (Cardinality(s) = 0 => s = {})
      BY <1>1
    <3>. QED BY <2>1, <3>1
  <2>2. Upto(f, 0)
    BY <2>1
  <2>. QED BY <2>2
<1>3. ASSUME NEW n \in Nat, n \in S PROVE n + 1 \in S
  <2>1. PICK f : Upto(f, n)
    BY <1>3
  <2>. DEFINE g == [s \in SUBSET w |->
                      IF Cardinality(s) <= n THEN f[s]
                      ELSE IF s = {} THEN 0 ELSE Power(Some(s)) + f[s \ {Some(s)}]]
  <2>2. ASSUME NEW s \in SUBSET w, Cardinality(s) <= n + 1
        PROVE  g[s] = IF s = {} THEN 0 ELSE Power(Some(s)) + g[s \ {Some(s)}]
    <3>1. s # {} => g[s \ {Some(s)}] = f[s \ {Some(s)}]
      BY <1>1, <2>2
    <3>. QED BY <1>1, <2>1, <2>2, <3>1
  <2>3. Upto(g, n + 1)
    BY <2>2
  <2>. HIDE DEF g, Upto
  <2>. QED BY <2>3
<1>4. Nat \subseteq S
  <2>. HIDE DEF S
  <2>. QED BY <1>2, <1>3, Induct
<1>5. Cardinality(w) \in Nat
  BY <1>1
<1>6. PICK f : Upto(f, Cardinality(w))
  BY <1>4, <1>5
<1>. DEFINE g == [s \in SUBSET w |-> f[s]]
<1>7. Sums(g, w)
  BY <1>1, <1>6 DEF Sums
<1>8. g = [s \in SUBSET w |-> g[s]]
  OBVIOUS
<1>. QED BY <1>7, <1>8

\* And only one.
LEMMA SumUnique ==
  ASSUME NEW w, IsFiniteSet(w), NEW f, NEW g, Sums(f, w), Sums(g, w)
  PROVE  f[w] = g[w]
<1>. DEFINE S == {n \in Nat : \A s \in SUBSET w : Cardinality(s) = n => f[s] = g[s]}
<1>1. \A s \in SUBSET w :
        /\ Cardinality(s) \in Nat
        /\ (Cardinality(s) = 0 => s = {})
        /\ s # {} => /\ s \ {Some(s)} \in SUBSET w
                     /\ Cardinality(s \ {Some(s)}) = Cardinality(s) - 1
  BY SubsetCard
<1>2. 0 \in S
  <2>. SUFFICES ASSUME NEW s \in SUBSET w, Cardinality(s) = 0 PROVE f[s] = g[s]
    OBVIOUS
  <2>1. s = {}
    BY <1>1
  <2>. QED BY <2>1 DEF Sums
<1>3. ASSUME NEW n \in Nat, n \in S PROVE n + 1 \in S
  <2>. SUFFICES ASSUME NEW s \in SUBSET w, Cardinality(s) = n + 1 PROVE f[s] = g[s]
    OBVIOUS
  <2>1. s # {}
    BY FS_EmptySet
  <2>2. s \ {Some(s)} \in SUBSET w /\ Cardinality(s \ {Some(s)}) = n
    BY <1>1, <2>1
  <2>3. f[s \ {Some(s)}] = g[s \ {Some(s)}]
    BY <1>3, <2>2
  <2>4. /\ f[s] = Power(Some(s)) + f[s \ {Some(s)}]
        /\ g[s] = Power(Some(s)) + g[s \ {Some(s)}]
    BY <2>1 DEF Sums
  <2>. QED BY <2>3, <2>4
<1>4. Nat \subseteq S
  <2>. HIDE DEF S
  <2>. QED BY <1>2, <1>3, Induct
<1>. QED BY <1>1, <1>4

\* Num is the sum.
LEMMA NumIsSum ==
  ASSUME NEW w, IsFiniteSet(w), NEW f, Sums(f, w)
  PROVE  Num(w) = f[w]
<1>. DEFINE Is(g) == g = [s \in SUBSET w |-> IF s = {} THEN 0
                                              ELSE 2^Some(s) + g[s \ {Some(s)}]]
            c == CHOOSE g : Is(g)
<1>1. PICK g : Sums(g, w) /\ g = [s \in SUBSET w |-> g[s]]
  BY SumExists
<1>2. Is(g)
  BY <1>1, Zenon DEF Sums, Power
<1>3. Is(c)
  BY <1>2, Zenon
<1>4. Num(w) = c[w]
  BY Zenon DEF Num, MapThenSumSet, MapThenFoldSet, Some
<1>5. Sums(c, w)
  BY <1>3, Zenon DEF Sums, Power
<1>. QED BY <1>4, <1>5, SumUnique

\* A power more.
LEMMA NumWithout ==
  ASSUME NEW w, w \subseteq 0 .. 30
  PROVE  /\ Num({}) = 0 /\ Num(w) \in Nat
         /\ \A x \in w : Num(w) = Power(x) + Num(w \ {x})
<1>. DEFINE W == 0 .. 30
<1>0. IsFiniteSet(W) /\ \A s \in SUBSET W : IsFiniteSet(s)
  <2>1. IsFiniteSet(W)
    <3>1. 0 \in Int /\ 30 \in Int
      OBVIOUS
    <3>. QED BY <3>1, FS_Interval, Zenon
  <2>. HIDE DEF W
  <2>. QED BY <2>1, FS_Subset
<1>1. PICK f : Sums(f, W)
  BY <1>0, SumExists
<1>2. \A s \in SUBSET W : Num(s) = f[s]
  <2>. SUFFICES ASSUME NEW s \in SUBSET W PROVE Num(s) = f[s]
    OBVIOUS
  <2>1. Sums(f, s)
    BY <1>1 DEF Sums
  <2>. QED BY <1>0, <2>1, NumIsSum
<1>3. \A x \in W : Power(x) \in Nat
  BY PowersGrow
<1>a. f[{}] = 0
  BY <1>1 DEF Sums
<1>. DEFINE S == {n \in Nat : \A s \in SUBSET W : Cardinality(s) <= n =>
                    f[s] \in Nat /\ \A x \in s : f[s] = Power(x) + f[s \ {x}]}
<1>4. 0 \in S
  <2>. SUFFICES ASSUME NEW s \in SUBSET W, Cardinality(s) <= 0
                PROVE  f[s] \in Nat /\ \A x \in s : f[s] = Power(x) + f[s \ {x}]
    OBVIOUS
  <2>1. Cardinality(s) \in Nat /\ (Cardinality(s) = 0 => s = {})
    BY <1>0, SubsetCard
  <2>2. s = {}
    BY <2>1
  <2>. QED BY <1>a, <2>2
<1>5. ASSUME NEW n \in Nat, n \in S PROVE n + 1 \in S
  <2>. SUFFICES ASSUME NEW s \in SUBSET W, Cardinality(s) = n + 1
                PROVE  f[s] \in Nat /\ \A x \in s : f[s] = Power(x) + f[s \ {x}]
    <3>1. \A s \in SUBSET W : Cardinality(s) \in Nat
      BY <1>0, SubsetCard
    <3>. QED BY <1>5, <3>1
  <2>1. s # {}
    BY FS_EmptySet
  <2>2. PICK c \in s : f[s] = Power(c) + f[s \ {c}]
    BY <1>1, <2>1, SomeIn DEF Sums
  <2>3. \A x \in s : s \ {x} \in SUBSET W /\ Cardinality(s \ {x}) = n
    <3>. SUFFICES ASSUME NEW x \in s PROVE s \ {x} \in SUBSET W /\ Cardinality(s \ {x}) = n
      OBVIOUS
    <3>1. Cardinality(s \ {x}) = Cardinality(s) - 1
      BY <1>0, FS_RemoveElement
    <3>. QED BY <3>1
  <2>4. f[s \ {c}] \in Nat
    BY <1>5, <2>3
  <2>5. f[s] \in Nat
    BY <1>3, <2>2, <2>4
  <2>6. ASSUME NEW x \in s, x # c PROVE f[s] = Power(x) + f[s \ {x}]
    <3>1. x \in s \ {c} /\ c \in s \ {x} /\ (s \ {c}) \ {x} = (s \ {x}) \ {c}
      BY <2>6
    <3>2. f[s \ {c}] = Power(x) + f[(s \ {c}) \ {x}]
      <4>1. s \ {c} \in SUBSET W /\ Cardinality(s \ {c}) <= n
        BY <2>3
      <4>. QED BY <1>5, <3>1, <4>1
    <3>3. f[s \ {x}] = Power(c) + f[(s \ {x}) \ {c}] /\ f[s \ {x}] \in Nat
      <4>1. s \ {x} \in SUBSET W /\ Cardinality(s \ {x}) <= n
        BY <2>3
      <4>. QED BY <1>5, <3>1, <4>1
    <3>4. Power(x) \in Nat /\ Power(c) \in Nat
      BY <1>3
    <3>5. PICK r : r = f[(s \ {x}) \ {c}]
      OBVIOUS
    <3>6. r \in Nat
      <4>1. IsFiniteSet(s \ {x}) /\ Cardinality(s \ {x}) = n
        BY <1>0, <2>3
      <4>2. Cardinality((s \ {x}) \ {c}) = n - 1
        BY <3>1, <4>1, FS_RemoveElement
      <4>3. (s \ {x}) \ {c} \in SUBSET W /\ n - 1 <= n
        OBVIOUS
      <4>. QED BY <1>5, <3>5, <4>2, <4>3
    <3>. QED BY <2>2, <3>1, <3>2, <3>3, <3>4, <3>5, <3>6
  <2>. QED BY <2>2, <2>5, <2>6
<1>6. Nat \subseteq S
  <2>. HIDE DEF S
  <2>. QED BY <1>4, <1>5, Induct
<1>7. Cardinality(w) \in Nat
  BY <1>0, FS_CardinalityType
<1>8. f[w] \in Nat /\ \A x \in w : f[w] = Power(x) + f[w \ {x}]
  BY <1>6, <1>7
<1>9. w \in SUBSET W /\ {} \in SUBSET W /\ \A x \in w : w \ {x} \in SUBSET W
  OBVIOUS
<1>. HIDE DEF W
<1>. QED BY <1>2, <1>a, <1>8, <1>9

\* What Bits has written Num reads: counts and addresses that are shifted into a header
\* come out of it again (cmdstream.xml.h, viv2d.c:120-130, 679-683).
THEOREM NumOfBits ==
  ASSUME NEW n \in Nat, n < Power(31)
  PROVE  Num(Bits(n)) = n
<1>. DEFINE T(k) == {i \in Bits(n) : i >= k}
            S == {d \in Nat : d <= 31 => Num(T(31 - d)) = Power(31 - d) * (n \div Power(31 - d))}
<1>1. Bits(n) \subseteq 0 .. 30 /\ \A i : i \in Bits(n) <=> i \in 0 .. 30 /\ (n \div Power(i)) % 2 = 1
  BY BitsByPower
<1>2. 0 \in S
  <2>1. T(31) = {}
    BY <1>1
  <2>2. PICK p \in Nat \ {0} : p = Power(31)
    BY PowersGrow
  <2>3. Num({}) = 0
    BY NumWithout
  <2>4. n \div p = 0 /\ p * 0 = 0
    BY <2>2
  <2>5. Num(T(31)) = 0 /\ Power(31) * (n \div Power(31)) = 0
    <3>. HIDE DEF T
    <3>. QED BY <2>1, <2>2, <2>3, <2>4
  <2>6. 31 - 0 = 31
    OBVIOUS
  <2>. HIDE DEF T
  <2>. QED BY <2>5, <2>6
<1>3. ASSUME NEW d \in Nat, d \in S PROVE d + 1 \in S
  <2>. SUFFICES ASSUME d + 1 <= 31
                PROVE  Num(T(31 - (d + 1))) = Power(31 - (d + 1)) * (n \div Power(31 - (d + 1)))
    OBVIOUS
  <2>1. PICK k \in 0 .. 30 : k = 31 - (d + 1) /\ k + 1 = 31 - d
    OBVIOUS
  <2>2. PICK p \in Nat \ {0} : p = Power(k) /\ Power(k + 1) = 2 * p
    BY <2>1, PowerStep DEF Power
  <2>3. Num(T(k + 1)) = (2 * p) * (n \div (2 * p))
    BY <1>3, <2>1, <2>2
  <2>4. /\ n \div p \in Nat /\ (n \div p) \div 2 \in Nat
        /\ n \div (2 * p) = (n \div p) \div 2
    BY <2>2, QuotientHalved
  <2>5. PICK q \in Nat : q = n \div p
    BY <2>4
  <2>6. PICK r \in Nat : r = q \div 2
    BY <2>4, <2>5
  <2>7. (2 * p) * r = p * (2 * r) /\ p * (2 * r) \in Nat /\ p * (2 * r + 1) = p * (2 * r) + p
    BY <2>2, <2>6
  <2>8. CASE q % 2 = 1
    <3>1. k \in T(k) /\ T(k) \ {k} = T(k + 1) /\ T(k) \subseteq 0 .. 30
      BY <1>1, <2>2, <2>5, <2>8
    <3>2. Num(T(k)) = p + Num(T(k + 1))
      <4>. HIDE DEF T
      <4>. QED BY <2>2, <3>1, NumWithout
    <3>3. q = 2 * r + 1
      BY <2>6, <2>8
    <3>. QED BY <2>1, <2>2, <2>3, <2>4, <2>5, <2>6, <2>7, <3>2, <3>3
  <2>9. CASE q % 2 # 1
    <3>1. T(k) = T(k + 1)
      BY <1>1, <2>2, <2>5, <2>9
    <3>2. q = 2 * r
      BY <2>6, <2>9
    <3>. QED BY <2>1, <2>2, <2>3, <2>4, <2>5, <2>6, <2>7, <3>1, <3>2
  <2>. QED BY <2>8, <2>9
<1>4. Nat \subseteq S
  <2>. HIDE DEF S
  <2>. QED BY <1>2, <1>3, Induct
<1>5. Num(T(0)) = Power(0) * (n \div Power(0))
  <2>1. 31 \in S /\ 31 - 31 = 0
    BY <1>4
  <2>. HIDE DEF T
  <2>. QED BY <2>1
<1>6. T(0) = Bits(n)
  BY <1>1
<1>7. Power(0) = 1
  BY DEF Power
<1>8. n \div 1 = n /\ 1 * n = n
  OBVIOUS
<1>. HIDE DEF T
<1>. QED BY <1>5, <1>6, <1>7, <1>8

-------------------------------------------------------------------------------
(***************************************************************************)
(* Surfaces and their dumps.                                               *)
(***************************************************************************)

\* A row holds its pixels.
LEMMA RowHoldsPixels ==
  ASSUME NEW w \in Nat
  PROVE  Pitch(w, 32) \in Nat /\ 4 * w <= Pitch(w, 32)
<1>1. Pitch(w, 32) = ((w * 4 + 31) \div 32) * 32
  BY DEF Pitch, ALIGN
<1>2. w * 4 + 31 \in Nat
  OBVIOUS
<1>. QED BY <1>1, <1>2

\* Rows that hold their pixels hold the picture.
LEMMA RowsHoldPicture ==
  ASSUME NEW a \in Nat, NEW b \in Nat, NEW h \in Nat, a <= b
  PROVE  a * h <= b * h
<1>1. PICK d \in Nat : b = a + d
  <2>1. b - a \in Nat /\ b = a + (b - a)
    OBVIOUS
  <2>. QED BY <2>1
<1>2. b * h = a * h + d * h
  BY <1>1
<1>3. d * h \in Nat /\ a * h \in Nat
  BY <1>1
<1>. QED BY <1>2, <1>3

\* A surface is as viv2d_surface_new made it.
IsSurface(x) ==
  /\ x.width \in Nat /\ x.height \in Nat
  /\ x.size = Pitch(x.width, viv2d_color_formats[x.format].bpp) * x.height

SurfInv ==
  /\ DOMAIN surf = SurfaceIds
  /\ \A s \in SurfaceIds : surf[s] # NoSurface => IsSurface(surf[s])
  /\ DumpStaysInside

\* The constants describe surfaces.
LEMMA KindIsSurface ==
  ASSUME NEW s \in SurfaceIds, NEW k \in Kinds[s]
  PROVE  IsSurface(SurfaceAlloc(k))
BY SurfacesAssumption DEF IsSurface, SurfaceAlloc

\* A dump of a surface stays inside of it.
LEMMA DumpFits ==
  ASSUME NEW s \in SurfaceIds, IsSurface(surf[s]), FormatOf(s).bpp = 32, NEW mapped \in BOOLEAN
  PROVE  BmpDump(s, mapped).written <= surf[s].size
<1>. DEFINE w == surf[s].width
            h == surf[s].height
            p == Pitch(w, 32)
<1>1. w \in Nat /\ h \in Nat /\ surf[s].size = p * h
  BY DEF IsSurface, FormatOf
<1>2. BmpDump(s, mapped).written = IF mapped THEN w * h * 4 ELSE 0
  BY DEF BmpDump
<1>. HIDE DEF w, h
<1>3. p \in Nat /\ 4 * w <= p
  BY <1>1, RowHoldsPixels
<1>. HIDE DEF p
<1>4. 4 * w \in Nat
  BY <1>1
<1>5. (4 * w) * h <= p * h
  BY <1>1, <1>3, <1>4, RowsHoldPicture
<1>6. (4 * w) * h = w * h * 4
  BY <1>1
<1>7. p * h \in Nat
  BY <1>1, <1>3
<1>. QED BY <1>1, <1>2, <1>5, <1>6, <1>7

\* What surfaces do keeps them surfaces, and their dumps inside.
LEMMA SurfaceNext == SurfInv /\ Surface => SurfInv'
<1>. SUFFICES ASSUME SurfInv, Surface PROVE SurfInv'
  OBVIOUS
<1>1. ASSUME NEW s \in SurfaceIds, NEW k \in Kinds[s], SurfaceNew(s, k) PROVE SurfInv'
  <2>1. IsSurface(SurfaceAlloc(k))
    BY KindIsSurface
  <2>. QED BY <1>1, <2>1 DEF SurfaceNew, SurfInv, DumpStaysInside
<1>2. ASSUME NEW s \in SurfaceIds, SurfaceDel(s) PROVE SurfInv'
  BY <1>2 DEF SurfaceDel, SurfInv, DumpStaysInside
<1>3. ASSUME NEW s \in SurfaceIds, SurfaceToBmp(s) PROVE SurfInv'
  <2>1. /\ IsSurface(surf[s])
        /\ FormatOf(s).bpp = 32
        /\ UNCHANGED surf
    BY <1>3 DEF SurfaceToBmp, SurfInv
  <2>2. CASE UNCHANGED file
    BY <2>1, <2>2 DEF SurfInv, DumpStaysInside
  <2>3. ASSUME NEW mapped \in BOOLEAN, file' = [of |-> surf[s], dump |-> BmpDump(s, mapped)]
        PROVE  SurfInv'
    <3>1. file'.dump.written <= file'.of.size
      BY <2>1, <2>3, DumpFits
    <3>. QED BY <2>1, <3>1 DEF SurfInv, DumpStaysInside
  <2>. QED BY <1>3, <2>2, <2>3 DEF SurfaceToBmp
<1>. QED BY <1>1, <1>2, <1>3 DEF Surface

\* No dump reads behind the buffer object of its surface (property
\* DumpStaysInside), for surfaces of every size.
THEOREM DumpsStayInside == Spec => []DumpStaysInside
<1>1. Init => SurfInv
  BY DEF Init, SurfacesInit, SurfInv, DumpStaysInside
<1>2. SurfInv /\ [Next]_vars => SurfInv'
  <2>1. SurfInv /\ UNCHANGED surfaces => SurfInv'
    BY DEF SurfInv, DumpStaysInside, surfaces
  <2>2. Describe \/ OpExec \/ Flush \/ UNCHANGED vars => UNCHANGED surfaces
    BY DEF Describe, OpNew, OpAddRect, OpSetClipRect, OpSetColor, OpSetBlend, OpSetData,
           OpSetPatFill, Edit, OpDel, OpExec, Flush, vars
  <2>. QED BY <2>1, <2>2, SurfaceNext DEF Next
<1>3. SurfInv => DumpStaysInside
  BY DEF SurfInv
<1>. QED BY <1>1, <1>2, <1>3, PTL DEF Spec

\* A picture is a surface of 32 bits per pixel and the dump of it.
IsPicture(p) ==
  /\ p.of.width \in Nat \ {0} /\ p.of.height \in Nat \ {0}
  /\ p.of.pitch = Pitch(p.of.width, 32)
  /\ p.dump.header = BmpHeader(p.of.width, p.of.height, FALSE)
  /\ p.dump.written \in {0, p.of.width * p.of.height * 4}

\* A surface has pixels, and rows as long as viv2d_pitch says.
IsDrawable(x) ==
  /\ x.width \in Nat \ {0} /\ x.height \in Nat \ {0}
  /\ x.pitch = Pitch(x.width, viv2d_color_formats[x.format].bpp)

PictInv ==
  /\ DOMAIN surf = SurfaceIds
  /\ \A s \in SurfaceIds : surf[s] # NoSurface => IsDrawable(surf[s])
  /\ file # NoFile => IsPicture(file)

\* When the width is a multiple of eight, rows are not padded.
LEMMA RowsAreTight ==
  ASSUME NEW w \in Nat, w % 8 = 0
  PROVE  Pitch(w, 32) = 4 * w
<1>1. Pitch(w, 32) = ((w * 4 + 31) \div 32) * 32
  BY DEF Pitch, ALIGN
<1>2. PICK k \in Nat : w = 8 * k
  BY w % 8 = 0
<1>3. (w * 4 + 31) \div 32 = k
  BY <1>2
<1>. QED BY <1>1, <1>2, <1>3

\* A picture is shown as DumpShowsPicture says.
LEMMA PictureIsShown ==
  ASSUME NEW p, IsPicture(p)
  PROVE  /\ p.dump.header.start + p.dump.header.data_size = p.dump.header.size
         /\ p.dump.written \in {0, p.dump.header.data_size}
         /\ p.of.width % 8 = 0 =>
              \A x \in 0 .. p.of.width - 1, y \in 0 .. p.of.height - 1 :
                PixelShown(p.dump.header, x, y) = PixelOf(p.of, x, y)
<1>. DEFINE w == p.of.width
            h == p.of.height
            e == p.dump.header
<1>1. w \in Nat \ {0} /\ h \in Nat \ {0}
  BY DEF IsPicture
<1>2. /\ e.start = HeaderBytes + DibBytes
      /\ e.size = w * h * 4 + HeaderBytes + DibBytes
      /\ e.width = w /\ e.height = h /\ e.data_size = 4 * w * h
  BY DEF IsPicture, BmpHeader
<1>3. p.dump.written \in {0, w * h * 4} /\ p.of.pitch = Pitch(w, 32)
  BY DEF IsPicture
<1>. HIDE DEF w, h, e
<1>4. w * h \in Nat /\ w * h * 4 = (w * h) * 4 /\ 4 * w * h = 4 * (w * h)
  BY <1>1
<1>5. e.start + e.data_size = e.size
  BY <1>2, <1>4 DEF HeaderBytes, DibBytes
<1>6. p.dump.written \in {0, e.data_size}
  BY <1>2, <1>3, <1>4
<1>7. ASSUME w % 8 = 0, NEW x \in 0 .. w - 1, NEW y \in 0 .. h - 1
      PROVE  PixelShown(e, x, y) = PixelOf(p.of, x, y)
  <2>1. p.of.pitch = 4 * w
    BY <1>1, <1>3, <1>7, RowsAreTight
  <2>2. PixelShown(e, x, y) = 4 * (y * w + x)
    BY <1>1, <1>2 DEF PixelShown
  <2>3. PixelOf(p.of, x, y) = y * (4 * w) + 4 * x
    BY <2>1 DEF PixelOf
  <2>4. x \in Nat /\ y \in Nat
    BY <1>1
  <2>5. y * w \in Nat /\ y * (4 * w) = 4 * (y * w)
    BY <1>1, <2>4
  <2>. QED BY <2>2, <2>3, <2>4, <2>5
<1>. QED BY <1>5, <1>6, <1>7 DEF w, h, e

\* What surfaces do keeps dumps pictures.
LEMMA PictureNext == PictInv /\ Surface => PictInv'
<1>. SUFFICES ASSUME PictInv, Surface PROVE PictInv'
  OBVIOUS
<1>1. ASSUME NEW s \in SurfaceIds, NEW k \in Kinds[s], SurfaceNew(s, k) PROVE PictInv'
  <2>1. IsDrawable(SurfaceAlloc(k))
    BY SurfacesAssumption DEF IsDrawable, SurfaceAlloc
  <2>. QED BY <1>1, <2>1 DEF SurfaceNew, PictInv
<1>2. ASSUME NEW s \in SurfaceIds, SurfaceDel(s) PROVE PictInv'
  BY <1>2 DEF SurfaceDel, PictInv
<1>3. ASSUME NEW s \in SurfaceIds, SurfaceToBmp(s) PROVE PictInv'
  <2>1. /\ IsDrawable(surf[s])
        /\ FormatOf(s).bpp = 32
        /\ UNCHANGED surf
    BY <1>3 DEF SurfaceToBmp, PictInv
  <2>2. ASSUME NEW mapped \in BOOLEAN, file' = [of |-> surf[s], dump |-> BmpDump(s, mapped)]
        PROVE  IsPicture(file')
    BY <2>1, <2>2 DEF IsPicture, IsDrawable, FormatOf, BmpDump
  <2>. QED BY <1>3, <2>1, <2>2 DEF SurfaceToBmp, PictInv
<1>. QED BY <1>1, <1>2, <1>3 DEF Surface

\* A dump shows the picture, the right way up and pixel for pixel, for surfaces of
\* every size whose rows are not padded, and has all that its header promises
\* (property DumpShowsPicture, write_bmp.c:67-120).
THEOREM DumpsShowPictures == Spec => []DumpShowsPicture
<1>1. Init => PictInv
  BY DEF Init, SurfacesInit, PictInv
<1>2. PictInv /\ [Next]_vars => PictInv'
  <2>1. PictInv /\ UNCHANGED surfaces => PictInv'
    BY DEF PictInv, surfaces
  <2>2. Describe \/ OpExec \/ Flush \/ UNCHANGED vars => UNCHANGED surfaces
    BY DEF Describe, OpNew, OpAddRect, OpSetClipRect, OpSetColor, OpSetBlend, OpSetData,
           OpSetPatFill, Edit, OpDel, OpExec, Flush, vars
  <2>. QED BY <2>1, <2>2, PictureNext DEF Next
<1>3. PictInv => DumpShowsPicture
  BY PictureIsShown DEF PictInv, DumpShowsPicture
<1>. QED BY <1>1, <1>2, <1>3, PTL DEF Spec

\* The remainder of a small number.
LEMMA SmallMod ==
  ASSUME NEW n \in Nat, NEW d \in Nat \ {0}, n < d
  PROVE  n % d = n
OBVIOUS

\* The shift by 16 loses no bit of 16.
LEMMA ShiftOfField ==
  ASSUME NEW n \in Nat, n < 65536
  PROVE  Shift16(n) = n * 65536
<1>1. n % 65536 = n
  BY SmallMod
<1>. QED BY <1>1 DEF Shift16

\* The steps of a stretch end in the last pixel of the source (the arithmetic of
\* property StretchSpansSource), as long as the shift by 16 loses no bit.
LEMMA StretchEndsInSource ==
  ASSUME NEW from \in Nat \ {0}, from <= 65536, NEW to \in Nat, to > 1
  PROVE  LET f == StretchFactor(from, to)
         IN  /\ f \in Nat
             /\ f * (to - 1) <= (from - 1) * 65536
             /\ (from - 1) * 65536 < (f + 1) * (to - 1)
<1>. DEFINE a == (from - 1) * 65536
            b == to - 1
<1>1. a \in Nat /\ b \in Nat /\ b > 0
  OBVIOUS
<1>2. StretchFactor(from, to) = a \div b
  <2>1. from - 1 \in Nat /\ from - 1 < 65536
    OBVIOUS
  <2>2. Shift16(from - 1) = (from - 1) * 65536
    BY <2>1, ShiftOfField
  <2>. QED BY <2>2 DEF StretchFactor
<1>. HIDE DEF a, b
<1>3. /\ a \div b \in Nat
      /\ a = b * (a \div b) + (a % b)
      /\ a % b \in 0 .. b - 1
  BY <1>1, DivMod
<1>. DEFINE q == a \div b
<1>4. q \in Nat /\ q * b <= a /\ a < (q + 1) * b
  <2>. DEFINE r == a % b
  <2>1. q \in Nat /\ a = b * q + r /\ r \in 0 .. b - 1
    BY <1>3 DEF q, r
  <2>. HIDE DEF q, r
  <2>2. q * b = b * q /\ (q + 1) * b = b * q + b /\ b * q \in Nat
    BY <1>1, <2>1
  <2>. QED BY <1>1, <2>1, <2>2
<1>. QED BY <1>2, <1>4 DEF a, b

\* The corners of a rectangle arrive, as far as each fits into 16 bits
\* (viv2d.c:686-690): every part of property EngineSeesOp rests on this argument.
THEOREM RectArrives ==
  ASSUME NEW r, \A n \in {r.x, r.y, r.x + r.width, r.y + r.height} : Bits(n) \subseteq 0 .. 15
  PROVE  /\ Corner(RectWords(r)[1], VIV_FE_DRAW_2D_TOP_LEFT) = Corners(r)[1]
         /\ Corner(RectWords(r)[2], VIV_FE_DRAW_2D_BOTTOM_RIGHT) = Corners(r)[2]
<1>1. ASSUME NEW a, NEW b, Bits(a) \subseteq 0 .. 15, Bits(b) \subseteq 0 .. 15
      PROVE  LET v == [X |-> Bits(a), Y |-> Bits(b)]
             IN  Corner(Pack(XY, v), XY) = <<Bits(a), Bits(b)>>
  <2>. DEFINE v == [X |-> Bits(a), Y |-> Bits(b)]
  <2>1. IsField(XY.X) /\ IsField(XY.Y)
    BY DEF IsField, XY
  <2>2. Apart(XY.X, XY.Y) /\ Apart(XY.Y, XY.X)
    BY DEF Apart, Mask, XY
  <2>3. Fits(v.X, XY.X) /\ Fits(v.Y, XY.Y)
    BY <1>1 DEF Fits, XY
  <2>4. DOMAIN v = {"X", "Y"} /\ v.X = v["X"] /\ v.Y = v["Y"] /\ v.X = Bits(a) /\ v.Y = Bits(b)
    OBVIOUS
  <2>. HIDE DEF v
  <2>5. Get(Pack(XY, v), XY["X"]) = v["X"]
    BY <2>1, <2>2, <2>3, <2>4, PackReadsBack
  <2>6. Get(Pack(XY, v), XY["Y"]) = v["Y"]
    BY <2>1, <2>2, <2>3, <2>4, PackReadsBack
  <2>. QED BY <2>4, <2>5, <2>6 DEF Corner, v
<1>2. VIV_FE_DRAW_2D_TOP_LEFT = XY /\ VIV_FE_DRAW_2D_BOTTOM_RIGHT = XY
  BY DEF VIV_FE_DRAW_2D_TOP_LEFT, VIV_FE_DRAW_2D_BOTTOM_RIGHT, XY
<1>. QED BY <1>1, <1>2 DEF RectWords, Corners

(***************************************************************************)
(* The front end over a stream, by induction over the words, the blocks    *)
(* and the commands of it: Induct, for a set of numbers.                   *)
(***************************************************************************)
\* A run of the front end over words: h[i] is its state after i of them.
IsRun(h, f, words) ==
  h[0] = f /\ \A i \in 1 .. Len(words) : h[i] = FeStep(h[i - 1], words[i])

\* There is one.
LEMMA RunExists ==
  ASSUME NEW W, NEW words \in Seq(W), NEW f
  PROVE  \E h : IsRun(h, f, words)
<1>. DEFINE L == Len(words)
            Upto(h, n) == h[0] = f /\ \A i \in 1 .. L : i <= n => h[i] = FeStep(h[i - 1], words[i])
            S == {n \in Nat : \E h : Upto(h, n)}
<1>0. L \in Nat
  OBVIOUS
<1>1. 0 \in S
  <2>. DEFINE h == [i \in Nat |-> f]
  <2>1. Upto(h, 0)
    BY <1>0
  <2>. HIDE DEF Upto
  <2>. QED BY <2>1
<1>2. ASSUME NEW n \in Nat, n \in S PROVE n + 1 \in S
  <2>1. PICK h : Upto(h, n)
    BY <1>2
  <2>. DEFINE g == [i \in Nat |-> IF i <= n THEN h[i] ELSE FeStep(h[n], words[i])]
  <2>2. g[0] = f
    BY <2>1
  <2>3. ASSUME NEW i \in 1 .. L, i <= n + 1 PROVE g[i] = FeStep(g[i - 1], words[i])
    <3>1. i \in Nat /\ i - 1 \in Nat /\ i - 1 <= n
      BY <1>0, <2>3
    <3>2. g[i - 1] = h[i - 1] /\ g[i] = IF i <= n THEN h[i] ELSE FeStep(h[n], words[i])
      BY <3>1
    <3>. HIDE DEF g
    <3>3. CASE i <= n
      BY <2>1, <3>2, <3>3
    <3>4. CASE ~(i <= n)
      <4>1. i - 1 = n
        BY <2>3, <3>1, <3>4
      <4>. QED BY <3>2, <3>4, <4>1
    <3>. QED BY <3>3, <3>4
  <2>4. Upto(g, n + 1)
    <3>. HIDE DEF g
    <3>. QED BY <2>2, <2>3
  <2>. HIDE DEF Upto, g
  <2>. QED BY <2>4
<1>3. Nat \subseteq S
  <2>. HIDE DEF S
  <2>. QED BY <1>1, <1>2, Induct
<1>4. PICK h : Upto(h, L)
  BY <1>0, <1>3
<1>. QED BY <1>0, <1>4 DEF IsRun

\* The function that Steps defines by recursion.
IsAfter(a, f, words, first, last) ==
  a = [i \in first - 1 .. last |-> IF i < first THEN f ELSE FeStep(a[i - 1], words[i])]

\* Steps goes from one state of a run to a later one.
LEMMA StepsFollowRun ==
  ASSUME NEW h, NEW words, NEW f, IsRun(h, f, words), Len(words) \in Nat,
         NEW first \in Nat \ {0}, NEW last \in Nat, first - 1 <= last, last <= Len(words)
  PROVE  Steps(h[first - 1], words, first, last) = h[last]
<1>. DEFINE g == h[first - 1]
            b == [i \in first - 1 .. last |-> h[i]]
            a == CHOOSE c : IsAfter(c, g, words, first, last)
<1>1. IsAfter(b, g, words, first, last)
  <2>1. ASSUME NEW i \in first - 1 .. last
        PROVE  b[i] = IF i < first THEN g ELSE FeStep(b[i - 1], words[i])
    <3>1. CASE i < first
      <4>1. i = first - 1
        BY <3>1
      <4>. QED BY <3>1, <4>1
    <3>2. CASE ~(i < first)
      <4>1. i - 1 \in first - 1 .. last /\ i \in 1 .. Len(words)
        BY <3>2
      <4>2. h[i] = FeStep(h[i - 1], words[i])
        BY <4>1 DEF IsRun
      <4>. QED BY <3>2, <4>1, <4>2
    <3>. QED BY <3>1, <3>2
  <2>2. b = [i \in first - 1 .. last |-> b[i]]
    OBVIOUS
  <2>. HIDE DEF b, g
  <2>. QED BY <2>1, <2>2 DEF IsAfter
<1>2. IsAfter(a, g, words, first, last)
  <2>. HIDE DEF b, g
  <2>. QED BY <1>1
<1>3. Steps(g, words, first, last) = a[last]
  <2>. HIDE DEF g
  <2>. QED BY DEF Steps, IsAfter
<1>. HIDE DEF a
<1>4. \A i \in first - 1 .. last : a[i] = IF i < first THEN g ELSE FeStep(a[i - 1], words[i])
  <2>. HIDE DEF g
  <2>. QED BY <1>2 DEF IsAfter
<1>. DEFINE S == {d \in Nat : first - 1 + d <= last => a[first - 1 + d] = h[first - 1 + d]}
<1>5. 0 \in S
  BY <1>4
<1>6. ASSUME NEW d \in Nat, d \in S PROVE d + 1 \in S
  <2>. SUFFICES ASSUME first - 1 + (d + 1) <= last
                PROVE  a[first - 1 + (d + 1)] = h[first - 1 + (d + 1)]
    OBVIOUS
  <2>1. PICK i \in Nat : i = first + d
    OBVIOUS
  <2>2. /\ i = first - 1 + (d + 1) /\ i - 1 = first - 1 + d /\ i \in first - 1 .. last
        /\ ~(i < first) /\ i \in 1 .. Len(words) /\ first - 1 + d <= last
    BY <2>1
  <2>3. a[i - 1] = h[i - 1]
    BY <1>6, <2>2
  <2>4. a[i] = FeStep(a[i - 1], words[i])
    BY <1>4, <2>2
  <2>5. h[i] = FeStep(h[i - 1], words[i])
    BY <2>2 DEF IsRun
  <2>. QED BY <2>2, <2>3, <2>4, <2>5
<1>7. Nat \subseteq S
  <2>. HIDE DEF S
  <2>. QED BY <1>5, <1>6, Induct
<1>8. last - (first - 1) \in Nat /\ first - 1 + (last - (first - 1)) = last
  OBVIOUS
<1>9. a[last] = h[last]
  <2>1. PICK d \in Nat : d = last - (first - 1)
    BY <1>8
  <2>2. first - 1 + d = last
    BY <2>1
  <2>3. d \in S
    BY <1>7
  <2>. QED BY <2>2, <2>3
<1>. QED BY <1>3, <1>9

\* The blocks of Fetch end where a run is.
IsBlocks(a, f, words) ==
  a = [n \in 0 .. Len(words) \div BlockWords + 1 |->
         IF n = 0 THEN f
         ELSE CHOOSE g \in {Steps(h, words, BlockWords * (n - 1) + 1,
                                  Min({BlockWords * n, Len(words)})) : h \in {a[n - 1]}} : TRUE]

\* The only element of a set is the one chosen.
LEMMA ChooseOnly == \A x : (CHOOSE g \in {x} : TRUE) = x
OBVIOUS

\* The end of a block, which is a whole block or the last.
LEMMA BlockEnds ==
  ASSUME NEW L \in Nat, NEW n \in 1 .. L \div BlockWords + 1
  PROVE  LET last == Min({BlockWords * n, L})
             first == BlockWords * (n - 1) + 1
         IN  /\ last \in Nat /\ last <= L
             /\ first \in Nat \ {0} /\ first - 1 <= last
             /\ n <= L \div BlockWords => last = BlockWords * n
             /\ n = L \div BlockWords + 1 => last = L
<1>. DEFINE q == L \div 16
<1>0. q \in Nat /\ 16 * q <= L /\ L < 16 * (q + 1) /\ n \in 1 .. q + 1
  BY DEF BlockWords
<1>. HIDE DEF q
<1>1. 16 * (n - 1) <= L /\ n - 1 \in Nat /\ 16 * n \in Nat
  BY <1>0
<1>2. \A m \in Nat : Min({m, L}) = IF m <= L THEN m ELSE L
  <2>. SUFFICES ASSUME NEW m \in Nat PROVE Min({m, L}) = IF m <= L THEN m ELSE L
    OBVIOUS
  <2>1. \A y \in {m, L} : (IF m <= L THEN m ELSE L) <= y
    OBVIOUS
  <2>2. \A x \in {m, L} : (\A y \in {m, L} : x <= y) => x = IF m <= L THEN m ELSE L
    OBVIOUS
  <2>. QED BY <2>1, <2>2 DEF Min
<1>3. Min({16 * n, L}) = IF 16 * n <= L THEN 16 * n ELSE L
  BY <1>1, <1>2
<1>4. n <= q => 16 * n <= L
  BY <1>0
<1>5. n = q + 1 => 16 * n > L
  BY <1>0
<1>. QED BY <1>0, <1>1, <1>3, <1>4, <1>5 DEF BlockWords, q

\* Fetch ends where a run ends.
LEMMA FetchFollowsRun ==
  ASSUME NEW h, NEW words, NEW f, IsRun(h, f, words), Len(words) \in Nat
  PROVE  Fetch(f, words) = h[Len(words)]
<1>. DEFINE L == Len(words)
            N == L \div BlockWords + 1
            EndOf(n) == IF n = 0 THEN 0 ELSE Min({BlockWords * n, L})
            Block(n, g) == CHOOSE k \in {Steps(x, words, BlockWords * (n - 1) + 1,
                                               Min({BlockWords * n, L})) : x \in {g}} : TRUE
            b == [n \in 0 .. N |-> h[EndOf(n)]]
            a == CHOOSE c : IsBlocks(c, f, words)
<1>0. N \in Nat \ {0} /\ h[0] = f
  BY DEF BlockWords, IsRun
<1>1. ASSUME NEW n \in 1 .. N PROVE Block(n, h[EndOf(n - 1)]) = h[EndOf(n)]
  <2>. DEFINE first == BlockWords * (n - 1) + 1
  <2>1. /\ EndOf(n) \in Nat /\ EndOf(n) <= L /\ EndOf(n) = Min({BlockWords * n, L})
        /\ first \in Nat \ {0} /\ first - 1 <= EndOf(n)
    <3>1. n # 0 /\ n \in 1 .. L \div BlockWords + 1
      OBVIOUS
    <3>. QED BY <3>1, BlockEnds
  <2>2. EndOf(n - 1) = first - 1
    <3>1. CASE n = 1
      BY <3>1 DEF BlockWords
    <3>2. CASE n # 1
      <4>1. n - 1 \in 1 .. L \div BlockWords + 1 /\ n - 1 <= L \div BlockWords /\ n - 1 # 0
        BY <1>0, <3>2 DEF BlockWords
      <4>2. Min({BlockWords * (n - 1), L}) = BlockWords * (n - 1)
        BY <4>1, BlockEnds
      <4>3. BlockWords * (n - 1) \in Nat
        BY <4>1 DEF BlockWords
      <4>. QED BY <4>1, <4>2, <4>3
    <3>. QED BY <3>1, <3>2
  <2>3. Steps(h[first - 1], words, first, EndOf(n)) = h[EndOf(n)]
    <3>. HIDE DEF first, EndOf
    <3>. QED BY <2>1, StepsFollowRun
  <2>. DEFINE e == Steps(h[first - 1], words, first, EndOf(n))
  <2>4. Block(n, h[first - 1]) = CHOOSE k \in {e} : TRUE
    <3>1. {Steps(x, words, first, EndOf(n)) : x \in {h[first - 1]}} = {e}
      <4>. HIDE DEF first, EndOf
      <4>. QED OBVIOUS
    <3>. QED BY <2>1, <3>1
  <2>. QED BY <2>2, <2>3, <2>4, ChooseOnly
<1>2. IsBlocks(b, f, words)
  <2>1. ASSUME NEW n \in 0 .. N PROVE b[n] = IF n = 0 THEN f ELSE Block(n, b[n - 1])
    <3>. HIDE DEF N, Block
    <3>1. CASE n = 0
      BY <1>0, <3>1
    <3>2. CASE n # 0
      <4>1. n \in 1 .. N /\ n - 1 \in 0 .. N
        BY <1>0, <3>2
      <4>2. b[n - 1] = h[EndOf(n - 1)] /\ b[n] = h[EndOf(n)]
        <5>. HIDE DEF EndOf
        <5>. QED BY <4>1
      <4>. QED BY <1>1, <3>2, <4>1, <4>2
    <3>. QED BY <3>1, <3>2
  <2>2. b = [n \in 0 .. N |-> b[n]]
    OBVIOUS
  <2>. HIDE DEF b
  <2>3. b = [n \in 0 .. N |-> IF n = 0 THEN f ELSE Block(n, b[n - 1])]
    <3>. HIDE DEF Block, N
    <3>. QED BY <2>1, <2>2
  <2>. QED BY <2>3 DEF IsBlocks
<1>3. IsBlocks(a, f, words)
  <2>. HIDE DEF b
  <2>. QED BY <1>2
<1>4. Fetch(f, words) = a[N]
  BY DEF Fetch, IsBlocks
<1>. HIDE DEF a
<1>5. a[0] = f /\ \A n \in 1 .. N : a[n] = Block(n, a[n - 1])
  <2>1. a = [n \in 0 .. N |-> IF n = 0 THEN f ELSE Block(n, a[n - 1])]
    BY <1>3 DEF IsBlocks
  <2>. HIDE DEF Block, N
  <2>. QED BY <1>0, <2>1
<1>. DEFINE S == {n \in Nat : n <= N => a[n] = h[EndOf(n)]}
<1>6. 0 \in S
  BY <1>0, <1>5
<1>7. ASSUME NEW n \in Nat, n \in S PROVE n + 1 \in S
  <2>. HIDE DEF Block, N, EndOf
  <2>. SUFFICES ASSUME n + 1 <= N PROVE a[n + 1] = h[EndOf(n + 1)]
    OBVIOUS
  <2>1. n + 1 \in 1 .. N /\ (n + 1) - 1 = n /\ n <= N
    BY <1>0
  <2>2. a[n] = h[EndOf(n)]
    BY <1>7, <2>1
  <2>3. a[n + 1] = Block(n + 1, a[n])
    BY <1>5, <2>1
  <2>4. Block(n + 1, h[EndOf(n)]) = h[EndOf(n + 1)]
    BY <1>1, <2>1
  <2>. QED BY <2>2, <2>3, <2>4
<1>8. Nat \subseteq S
  <2>. HIDE DEF S
  <2>. QED BY <1>6, <1>7, Induct
<1>9. a[N] = h[EndOf(N)]
  <2>. HIDE DEF N, EndOf
  <2>. QED BY <1>0, <1>8
<1>10. EndOf(N) = L
  <2>1. N \in 1 .. L \div BlockWords + 1 /\ N # 0
    BY <1>0
  <2>2. Min({BlockWords * N, L}) = L
    BY <2>1, BlockEnds
  <2>. QED BY <2>1, <2>2
<1>. QED BY <1>4, <1>9, <1>10

\* The front end takes words one after the other, wherever they are cut.
LEMMA FetchConcat ==
  ASSUME NEW W, NEW u \in Seq(W), NEW v \in Seq(W), NEW f
  PROVE  Fetch(f, u \o v) = Fetch(Fetch(f, u), v)
<1>. DEFINE w == u \o v
            m == Len(u)
            l == Len(v)
<1>1. /\ w \in Seq(W) /\ m \in Nat /\ l \in Nat /\ Len(w) = m + l
      /\ \A i \in 1 .. m : w[i] = u[i]
      /\ \A i \in 1 .. l : w[m + i] = v[i]
  OBVIOUS
<1>. HIDE DEF w
<1>2. PICK h : IsRun(h, f, w)
  BY <1>1, RunExists
<1>3. Fetch(f, w) = h[m + l]
  BY <1>1, <1>2, FetchFollowsRun
<1>4. Fetch(f, u) = h[m]
  <2>1. IsRun(h, f, u)
    <3>1. \A i \in 1 .. m : i \in 1 .. Len(w) /\ w[i] = u[i]
      BY <1>1
    <3>. QED BY <1>2, <3>1 DEF IsRun
  <2>. QED BY <1>1, <2>1, FetchFollowsRun
<1>5. Fetch(h[m], v) = h[m + l]
  <2>. DEFINE g == [i \in 0 .. l |-> h[m + i]]
  <2>1. g[0] = h[m]
    BY <1>1
  <2>2. ASSUME NEW i \in 1 .. l PROVE g[i] = FeStep(g[i - 1], v[i])
    <3>1. /\ i \in 0 .. l /\ i - 1 \in 0 .. l /\ m + i \in 1 .. Len(w) /\ (m + i) - 1 = m + (i - 1)
      BY <1>1
    <3>2. h[m + i] = FeStep(h[m + (i - 1)], w[m + i])
      BY <1>2, <3>1 DEF IsRun
    <3>. QED BY <1>1, <3>1, <3>2
  <2>3. g[l] = h[m + l]
    BY <1>1
  <2>. HIDE DEF g
  <2>4. IsRun(g, h[m], v)
    BY <2>1, <2>2 DEF IsRun
  <2>. QED BY <1>1, <2>3, <2>4, FetchFollowsRun
<1>. QED BY <1>3, <1>4, <1>5 DEF w

\* A word.
LEMMA FetchWord ==
  ASSUME NEW w, NEW f
  PROVE  Fetch(f, <<w>>) = FeStep(f, w)
<1>. DEFINE h == [i \in 0 .. 1 |-> IF i = 0 THEN f ELSE FeStep(f, w)]
<1>1. h[0] = f /\ h[1] = FeStep(f, w) /\ Len(<<w>>) = 1 /\ <<w>>[1] = w /\ 1 - 1 = 0
  OBVIOUS
<1>. HIDE DEF h
<1>2. \A i \in 1 .. 1 : i = 1
  OBVIOUS
<1>3. IsRun(h, f, <<w>>)
  BY <1>1, <1>2 DEF IsRun
<1>. QED BY <1>1, <1>3, FetchFollowsRun

\* Two words.
LEMMA PairIsConcat ==
  ASSUME NEW W, NEW a \in W, NEW b \in W
  PROVE  <<a>> \o <<b>> = <<a, b>>
<1>. DEFINE s == <<a>> \o <<b>>
            t == <<a, b>>
<1>1. <<a>> \in Seq(W) /\ <<b>> \in Seq(W) /\ t \in Seq(W)
  OBVIOUS
<1>2. s \in Seq(W) /\ Len(s) = 2 /\ s[1] = a /\ s[2] = b
  <2>1. Len(<<a>>) = 1 /\ Len(<<b>>) = 1 /\ <<a>>[1] = a /\ <<b>>[1] = b
    OBVIOUS
  <2>. QED BY <1>1, <2>1, ConcatProperties
<1>3. Len(t) = 2 /\ t[1] = a /\ t[2] = b
  OBVIOUS
<1>. HIDE DEF s, t
<1>4. \A i \in 1 .. 2 : i = 1 \/ i = 2
  OBVIOUS
<1>5. \A i \in 1 .. Len(s) : s[i] = t[i]
  BY <1>2, <1>3, <1>4
<1>6. s = t
  BY <1>1, <1>2, <1>3, <1>5, SeqEqual
<1>. QED BY <1>6 DEF s, t

\* Two words are two steps.
LEMMA FetchTwo ==
  ASSUME NEW a, NEW b, NEW f
  PROVE  Fetch(f, <<a, b>>) = FeStep(FeStep(f, a), b)
<1>. DEFINE W == {a, b}
<1>1. a \in W /\ b \in W
  OBVIOUS
<1>. HIDE DEF W
<1>2. <<a>> \in Seq(W) /\ <<b>> \in Seq(W)
  BY <1>1
<1>3. <<a, b>> = <<a>> \o <<b>>
  BY <1>1, PairIsConcat
<1>4. Fetch(f, <<a>> \o <<b>>) = Fetch(Fetch(f, <<a>>), <<b>>)
  BY <1>2, FetchConcat
<1>. QED BY <1>3, <1>4, FetchWord

\* No word.
LEMMA FetchNothing == \A f : Fetch(f, <<>>) = f
<1>. SUFFICES ASSUME NEW f PROVE Fetch(f, <<>>) = f
  OBVIOUS
<1>. DEFINE h == [i \in 0 .. 0 |-> f]
<1>1. h[0] = f /\ Len(<<>>) = 0
  OBVIOUS
<1>. HIDE DEF h
<1>2. IsRun(h, f, <<>>)
  BY <1>1 DEF IsRun
<1>. QED BY <1>1, <1>2, FetchFollowsRun

-------------------------------------------------------------------------------

\* The beginnings of a flattened sequence of sequences.
LEMMA FlattenSteps ==
  ASSUME NEW S, NEW seqs \in Seq(Seq(S))
  PROVE  \E F : /\ F[0] = <<>> /\ F[Len(seqs)] = FlattenSeq(seqs)
                /\ \A i \in 0 .. Len(seqs) : F[i] \in Seq(S)
                /\ \A i \in 1 .. Len(seqs) : F[i] = F[i - 1] \o seqs[i]
<1>. DEFINE L == Len(seqs)
            Upto(F, n) == /\ F[0] = <<>>
                          /\ \A i \in 0 .. L : i <= n => F[i] \in Seq(S)
                          /\ \A i \in 1 .. L : i <= n => F[i] = F[i - 1] \o seqs[i]
            T == {n \in Nat : \E F : Upto(F, n)}
<1>0. L \in Nat /\ \A i \in 1 .. L : seqs[i] \in Seq(S)
  OBVIOUS
<1>1. 0 \in T
  <2>. DEFINE F == [i \in Nat |-> <<>>]
  <2>1. F[0] = <<>> /\ \A i \in 0 .. L : i <= 0 => F[i] \in Seq(S)
    BY <1>0
  <2>2. \A i \in 1 .. L : ~(i <= 0)
    BY <1>0
  <2>3. Upto(F, 0)
    <3>. HIDE DEF F
    <3>. QED BY <2>1, <2>2
  <2>. HIDE DEF Upto
  <2>. QED BY <2>3
<1>2. ASSUME NEW n \in Nat, n \in T PROVE n + 1 \in T
  <2>1. PICK F : Upto(F, n)
    BY <1>2
  <2>. DEFINE G == [i \in Nat |-> IF i <= n THEN F[i] ELSE F[n] \o seqs[i]]
  <2>2. \A i \in 0 .. L : i <= n => G[i] = F[i]
    BY <1>0
  <2>3. \A i \in 1 .. L : i = n + 1 => G[i] = F[n] \o seqs[i] /\ n \in 0 .. L /\ i - 1 = n
    <3>. SUFFICES ASSUME NEW i \in 1 .. L, i = n + 1
                  PROVE  G[i] = F[n] \o seqs[i] /\ n \in 0 .. L /\ i - 1 = n
      OBVIOUS
    <3>1. n \in 0 .. L /\ i - 1 = n /\ i \in Nat /\ ~(i <= n)
      BY <1>0
    <3>. HIDE DEF L
    <3>2. G[i] = F[n] \o seqs[i]
      BY <3>1
    <3>. QED BY <3>1, <3>2
  <2>4. 0 \in 0 .. L /\ \A i \in 1 .. L : i \in 0 .. L /\ i - 1 \in 0 .. L
    BY <1>0
  <2>5. \A i \in 0 .. L : i <= n + 1 => i <= n \/ (i = n + 1 /\ i \in 1 .. L)
    BY <1>0
  <2>. HIDE DEF G
  <2>6. G[0] = <<>>
    BY <2>1, <2>2, <2>4
  <2>7. \A i \in 1 .. L : i <= n + 1 => G[i] = G[i - 1] \o seqs[i]
    <3>. SUFFICES ASSUME NEW i \in 1 .. L, i <= n + 1 PROVE G[i] = G[i - 1] \o seqs[i]
      OBVIOUS
    <3>1. CASE i <= n
      <4>1. i - 1 <= n /\ i \in 0 .. L /\ i - 1 \in 0 .. L
        BY <1>0, <3>1
      <4>2. G[i] = F[i] /\ G[i - 1] = F[i - 1]
        BY <2>2, <3>1, <4>1
      <4>. QED BY <2>1, <3>1, <4>2
    <3>2. CASE i = n + 1
      <4>1. G[i] = F[n] \o seqs[i] /\ n \in 0 .. L /\ i - 1 = n
        <5>. HIDE DEF L
        <5>. QED BY <2>3, <3>2
      <4>2. G[n] = F[n]
        BY <2>2, <4>1
      <4>. QED BY <4>1, <4>2
    <3>. QED BY <2>4, <2>5, <3>1, <3>2
  <2>8. \A i \in 0 .. L : i <= n + 1 => G[i] \in Seq(S)
    <3>. SUFFICES ASSUME NEW i \in 0 .. L, i <= n + 1 PROVE G[i] \in Seq(S)
      OBVIOUS
    <3>1. CASE i <= n
      BY <2>1, <2>2, <3>1
    <3>2. CASE i = n + 1 /\ i \in 1 .. L
      <4>1. G[i] = F[n] \o seqs[i] /\ n \in 0 .. L
        BY <2>3, <3>2
      <4>2. F[n] \in Seq(S) /\ seqs[i] \in Seq(S)
        BY <1>0, <2>1, <3>2, <4>1
      <4>. QED BY <4>1, <4>2
    <3>. QED BY <2>5, <3>1, <3>2
  <2>9. Upto(G, n + 1)
    BY <2>6, <2>7, <2>8
  <2>. HIDE DEF Upto
  <2>. QED BY <2>9
<1>3. Nat \subseteq T
  <2>. HIDE DEF T
  <2>. QED BY <1>1, <1>2, Induct
<1>4. PICK F : Upto(F, L)
  BY <1>0, <1>3
<1>5. /\ F[0] = <<>>
      /\ \A i \in 0 .. L : F[i] \in Seq(S)
      /\ \A i \in 1 .. L : F[i] = F[i - 1] \o seqs[i]
  <2>1. \A i \in 0 .. L : i <= L
    BY <1>0
  <2>2. \A i \in 1 .. L : i <= L
    BY <1>0
  <2>. HIDE DEF L
  <2>. QED BY <1>4, <2>1, <2>2
<1>6. F[L] = FlattenSeq(seqs)
  <2>1. CASE L = 0
    BY <1>5, <2>1 DEF FlattenSeq
  <2>2. CASE L # 0
    <3>. DEFINE Is(a) == a = [i \in 1 .. L |-> IF i = 1 THEN seqs[i] ELSE a[i - 1] \o seqs[i]]
                b == [i \in 1 .. L |-> F[i]]
                a == CHOOSE c : Is(c)
    <3>1. Is(b)
      <4>1. ASSUME NEW i \in 1 .. L
            PROVE  b[i] = IF i = 1 THEN seqs[i] ELSE b[i - 1] \o seqs[i]
        <5>1. CASE i = 1
          <6>0. 1 \in 1 .. L /\ 1 - 1 = 0
            BY <5>1
          <6>1. F[1] = F[0] \o seqs[1] /\ F[0] = <<>> /\ seqs[1] \in Seq(S)
            <7>. HIDE DEF L
            <7>. QED BY <1>0, <1>5, <6>0
          <6>2. <<>> \o seqs[1] = seqs[1]
            BY <6>1
          <6>. QED BY <5>1, <6>1, <6>2
        <5>2. CASE i # 1
          <6>1. i - 1 \in 1 .. L
            BY <1>0, <5>2
          <6>. QED BY <1>5, <5>2, <6>1
        <5>. QED BY <5>1, <5>2
      <4>2. b = [i \in 1 .. L |-> b[i]]
        OBVIOUS
      <4>. HIDE DEF b
      <4>. QED BY <4>1, <4>2
    <3>2. Is(a)
      <4>. HIDE DEF b, Is
      <4>. QED BY <3>1
    <3>3. FlattenSeq(seqs) = a[L]
      BY <2>2 DEF FlattenSeq
    <3>. HIDE DEF a
    <3>4. \A i \in 1 .. L : a[i] = IF i = 1 THEN seqs[i] ELSE a[i - 1] \o seqs[i]
      BY <3>2
    <3>5. \A i \in 1 .. L : b[i] = IF i = 1 THEN seqs[i] ELSE b[i - 1] \o seqs[i]
      BY <3>1
    <3>. HIDE DEF Is
    <3>. DEFINE U == {d \in Nat : d + 1 <= L => a[d + 1] = b[d + 1]}
    <3>6. 0 \in U
      BY <3>4, <3>5
    <3>7. ASSUME NEW d \in Nat, d \in U PROVE d + 1 \in U
      <4>. HIDE DEF b
      <4>. SUFFICES ASSUME (d + 1) + 1 <= L PROVE a[(d + 1) + 1] = b[(d + 1) + 1]
        OBVIOUS
      <4>1. PICK i \in 1 .. L : i = (d + 1) + 1 /\ i - 1 = d + 1 /\ i # 1 /\ d + 1 <= L
        BY <1>0
      <4>2. a[i - 1] = b[i - 1]
        BY <3>7, <4>1
      <4>. QED BY <3>4, <3>5, <4>1, <4>2
    <3>8. Nat \subseteq U
      <4>. HIDE DEF U
      <4>. QED BY <3>6, <3>7, Induct
    <3>9. L - 1 \in Nat /\ (L - 1) + 1 = L
      BY <1>0, <2>2
    <3>10. a[L] = b[L]
      <4>1. L - 1 \in U
        <5>. HIDE DEF U
        <5>. QED BY <3>8, <3>9
      <4>. HIDE DEF b, L
      <4>. QED BY <1>0, <3>9, <4>1
    <3>11. b[L] = F[L]
      BY <1>0, <2>2
    <3>. QED BY <3>3, <3>10, <3>11
  <2>. QED BY <2>1, <2>2
<1>. QED BY <1>5, <1>6

-------------------------------------------------------------------------------
(***************************************************************************)
(* What the front end makes of a command, and that it is ready for another *)
(* one behind it.                                                          *)
(***************************************************************************)
Offsets == {a \in Nat : a < 65536}

\* The fields of the front end's state.
FeFields == {"mode", "odd", "left", "at", "data_left", "corners", "data", "regs", "draws"}

\* The registers that were written.
IsRegs(regs) ==
  /\ DOMAIN regs \subseteq Offsets
  /\ \A a \in DOMAIN regs : regs[a] \in Words

\* FeState writes a register so.
SetReg(regs, a, w) == [b \in {a} \cup DOMAIN regs |-> IF b = a THEN w ELSE regs[b]]

\* A register written with a word leaves registers that hold words.
LEMMA SetRegKeeps ==
  ASSUME NEW regs, IsRegs(regs), NEW a \in Offsets, NEW w \in Words
  PROVE  IsRegs(SetReg(regs, a, w))
<1>. DEFINE r == SetReg(regs, a, w)
<1>1. DOMAIN r = {a} \cup DOMAIN regs
  BY DEF SetReg
<1>2. \A b \in {a} \cup DOMAIN regs : r[b] = IF b = a THEN w ELSE regs[b]
  BY DEF SetReg
<1>. HIDE DEF r
<1>3. IsRegs(r)
  BY <1>1, <1>2 DEF IsRegs
<1>. QED BY <1>3 DEF r

\* The front end is at the beginning of a command.
Ready(f) ==
  /\ DOMAIN f = FeFields
  /\ f.mode = "command" /\ f.odd = FALSE
  /\ f.corners = <<>> /\ f.data = <<>>
  /\ IsRegs(f.regs)

\* The address of a register.
IsAt(at) == at \in Nat /\ at \div 4 \in Offsets

\* Before a word is looked at.
Counted(f) == [f EXCEPT !.odd = ~@]

\* g is f with its parity turned, and nothing else.
IsCounted(g, f) ==
  /\ DOMAIN g = FeFields
  /\ f.odd = FALSE => g.odd = TRUE
  /\ f.odd = TRUE => g.odd = FALSE
  /\ g.mode = f.mode /\ g.left = f.left /\ g.at = f.at /\ g.data_left = f.data_left
  /\ g.corners = f.corners /\ g.data = f.data /\ g.regs = f.regs /\ g.draws = f.draws

\* Counting a word does only that.
LEMMA CountedIs ==
  ASSUME NEW f, DOMAIN f = FeFields
  PROVE  IsCounted(Counted(f), f)
BY DEF Counted, FeFields, IsCounted

\* A step, by what the front end is in.
LEMMA FeStepIs ==
  ASSUME NEW f, DOMAIN f = FeFields, NEW w
  PROVE  /\ f.mode = "command" => FeStep(f, w) = FeCommand(Counted(f), w)
         /\ f.mode = "state" => FeStep(f, w) = FeState(Counted(f), w)
         /\ f.mode = "corners" => FeStep(f, w) = FeCorners(Counted(f), w)
         /\ f.mode = "data" => FeStep(f, w) = FeData(Counted(f), w)
         /\ f.mode = "pad" => FeStep(f, w) = [Counted(f) EXCEPT !.mode = "command"]
<1>1. Counted(f).mode = f.mode
  BY CountedIs DEF IsCounted
<1>2. FeStep(f, w) = LET g == Counted(f)
                     IN  CASE g.mode = "command" -> FeCommand(g, w)
                           [] g.mode = "state" -> FeState(g, w)
                           [] g.mode = "corners" -> FeCorners(g, w)
                           [] g.mode = "data" -> FeData(g, w)
                           [] g.mode = "pad" -> [g EXCEPT !.mode = "command"]
                           [] OTHER -> g
  BY DEF FeStep, Counted
<1>. QED BY <1>1, <1>2

\* Numbers of a few bits.
LEMMA SmallBits ==
  ASSUME NEW k \in 0 .. 30, NEW n \in Nat, n < Power(k)
  PROVE  Bits(n) \subseteq 0 .. k - 1 /\ Num(Bits(n)) = n
<1>1. Power(k) <= Power(31) /\ Power(k) \in Nat /\ Power(31) \in Nat
  BY PowersGrow
<1>2. n < Power(31)
  BY <1>1
<1>. QED BY <1>2, BitsBelow, NumOfBits

\* The two commands are told apart.
LEMMA CommandsDiffer == OP_LOAD_STATE # OP_DRAW_2D
<1>1. Power(1) = 2 /\ Power(3) = 8
  BY DEF Power
<1>2. 1 < Power(3) /\ 4 < Power(3) /\ 3 \in 0 .. 30 /\ 1 \in Nat /\ 4 \in Nat
  BY <1>1
<1>3. Num(Bits(1)) = 1 /\ Num(Bits(4)) = 4
  BY <1>2, SmallBits
<1>4. 1 # 4
  OBVIOUS
<1>. QED BY <1>3, <1>4 DEF OP_LOAD_STATE, OP_DRAW_2D

\* A LOAD_STATE header as the front end reads it.
LEMMA LoadStateReads ==
  ASSUME NEW at, IsAt(at)
  PROVE  LET w == LoadState(at, 1)
         IN  /\ w \in Words
             /\ Get(w, VIV_FE_LOAD_STATE_HEADER.OP) = OP_LOAD_STATE
             /\ Num(Get(w, VIV_FE_LOAD_STATE_HEADER.OFFSET)) = at \div 4
             /\ Num(Get(w, VIV_FE_LOAD_STATE_HEADER.COUNT)) = 1
<1>. DEFINE F == VIV_FE_LOAD_STATE_HEADER
            v == [OP |-> OP_LOAD_STATE, OFFSET |-> Bits(at \div 4), COUNT |-> Bits(1)]
            w == LoadState(at, 1)
<1>1. w = Pack(F, v)
  BY DEF LoadState
<1>2. /\ F.OP = <<27, 31>> /\ F.OFFSET = <<0, 15>> /\ F.COUNT = <<16, 25>>
      /\ F["OP"] = <<27, 31>> /\ F["OFFSET"] = <<0, 15>> /\ F["COUNT"] = <<16, 25>>
  BY DEF VIV_FE_LOAD_STATE_HEADER
<1>3. Power(1) = 2 /\ Power(16) = 65536 /\ Power(0) = 1
  BY DEF Power
<1>4. Bits(1) \subseteq 0 .. 0 /\ Num(Bits(1)) = 1
  <2>1. 1 < Power(1) /\ 1 \in 0 .. 30 /\ 1 \in Nat /\ 1 - 1 = 0
    BY <1>3
  <2>. QED BY <2>1, SmallBits
<1>5. Bits(at \div 4) \subseteq 0 .. 15 /\ Num(Bits(at \div 4)) = at \div 4
  <2>1. at \div 4 \in Nat /\ at \div 4 < Power(16)
    BY <1>3 DEF IsAt, Offsets
  <2>2. 16 \in 0 .. 30 /\ 16 - 1 = 15
    OBVIOUS
  <2>. QED BY <2>1, <2>2, SmallBits
<1>6. OP_LOAD_STATE = Bits(1)
  BY DEF OP_LOAD_STATE
<1>7. DOMAIN v = {"OP", "OFFSET", "COUNT"} /\ v["OP"] = Bits(1) /\ v["COUNT"] = Bits(1)
      /\ v["OFFSET"] = Bits(at \div 4)
  BY <1>6
<1>. HIDE DEF v, F, w
<1>8. IsField(F["OP"]) /\ IsField(F["OFFSET"]) /\ IsField(F["COUNT"])
  BY <1>2 DEF IsField
<1>9. /\ Mask(F["OP"]) = 27 .. 31 /\ Mask(F["OFFSET"]) = 0 .. 15
      /\ Mask(F["COUNT"]) = 16 .. 25
  BY <1>2 DEF Mask
<1>10. /\ Fits(v["OP"], F["OP"]) /\ Fits(v["OFFSET"], F["OFFSET"])
       /\ Fits(v["COUNT"], F["COUNT"])
  BY <1>2, <1>4, <1>5, <1>7 DEF Fits
<1>11. \A m, n \in DOMAIN v : m # n => Apart(F[m], F[n])
  BY <1>7, <1>9 DEF Apart
<1>12. \A n \in DOMAIN v : Get(w, F[n]) = v[n]
  <2>. SUFFICES ASSUME NEW n \in DOMAIN v PROVE Get(w, F[n]) = v[n]
    OBVIOUS
  <2>1. IsField(F[n]) /\ Fits(v[n], F[n]) /\ \A m \in DOMAIN v \ {n} : Apart(F[m], F[n])
    BY <1>7, <1>8, <1>10, <1>11
  <2>. QED BY <1>1, <2>1, PackReadsBack
<1>13. w \in Words
  <2>1. \A n \in DOMAIN v : Put(v[n], F[n]) \subseteq Mask(F[n]) /\ Mask(F[n]) \subseteq 0 .. 31
    BY <1>7, <1>9, PutInMask
  <2>. QED BY <1>1, <2>1 DEF Pack, WordBits, Words
<1>. QED BY <1>2, <1>4, <1>5, <1>6, <1>7, <1>12, <1>13 DEF F, w

\* A register is written.
LEMMA PairIsTaken ==
  ASSUME NEW f, Ready(f), NEW at, IsAt(at), NEW w \in Words
  PROVE  LET g == Fetch(f, <<LoadState(at, 1), w>>)
         IN  /\ Ready(g) /\ g.draws = f.draws
             /\ g.regs = SetReg(f.regs, at \div 4, w)
<1>. DEFINE H == LoadState(at, 1)
            g1 == FeStep(f, H)
            g2 == FeStep(g1, w)
<1>1. Fetch(f, <<H, w>>) = g2
  BY FetchTwo
<1>2. /\ Get(H, VIV_FE_LOAD_STATE_HEADER.OP) = OP_LOAD_STATE
      /\ Num(Get(H, VIV_FE_LOAD_STATE_HEADER.OFFSET)) = at \div 4
      /\ Num(Get(H, VIV_FE_LOAD_STATE_HEADER.COUNT)) = 1
  BY LoadStateReads
<1>3. DOMAIN f = FeFields /\ f.mode = "command" /\ f.odd = FALSE
  BY DEF Ready
<1>. HIDE DEF H
<1>4. g1 = [Counted(f) EXCEPT !.mode = "state", !.at = at \div 4, !.left = 1]
  <2>1. g1 = FeCommand(Counted(f), H)
    BY <1>3, FeStepIs
  <2>2. PICK c : c = Counted(f)
    OBVIOUS
  <2>3. FeCommand(c, H) = [c EXCEPT !.mode = "state", !.at = at \div 4, !.left = 1]
    <3>1. FeCommand(c, H) =
            [c EXCEPT !.mode = "state", !.at = Num(Get(H, VIV_FE_LOAD_STATE_HEADER.OFFSET)),
                      !.left = Num(Get(H, VIV_FE_LOAD_STATE_HEADER.COUNT))]
      <4>1. VIV_FE_LOAD_STATE_HEADER.OP = VIV_FE_DRAW_2D_HEADER.OP
        BY DEF VIV_FE_LOAD_STATE_HEADER, VIV_FE_DRAW_2D_HEADER
      <4>2. Get(H, VIV_FE_DRAW_2D_HEADER.OP) # OP_DRAW_2D
        BY <1>2, <4>1, CommandsDiffer
      <4>. QED BY <1>2, <4>2 DEF FeCommand
    <3>. QED BY <1>2, <3>1, Zenon
  <2>. QED BY <2>1, <2>2, <2>3
<1>5. /\ DOMAIN g1 = FeFields /\ g1.mode = "state" /\ g1.odd = TRUE /\ g1.at = at \div 4
      /\ g1.left = 1 /\ g1.corners = f.corners /\ g1.data = f.data /\ g1.regs = f.regs
      /\ g1.draws = f.draws
  <2>1. PICK c : c = Counted(f)
    OBVIOUS
  <2>2. IsCounted(c, f)
    BY <1>3, <2>1, CountedIs
  <2>. HIDE DEF g1
  <2>. QED BY <1>3, <1>4, <2>1, <2>2 DEF FeFields, IsCounted
<1>. HIDE DEF g1
<1>. DEFINE c == Counted(g1)
            k == [c EXCEPT !.left = @ - 1, !.at = @ + 1,
                           !.regs = [a \in {c.at} \cup DOMAIN @ |->
                                       IF a = c.at THEN w ELSE c.regs[a]]]
<1>6. /\ DOMAIN c = FeFields /\ c.odd = FALSE /\ c.at = at \div 4 /\ c.left = 1
      /\ c.regs = f.regs /\ c.corners = f.corners /\ c.data = f.data /\ c.draws = f.draws
  <2>1. IsCounted(c, g1)
    BY <1>5, CountedIs
  <2>. HIDE DEF c
  <2>. QED BY <1>5, <2>1 DEF IsCounted
<1>7. g2 = IF k.left = 0 THEN Ended(k) ELSE k
  <2>1. g2 = FeState(c, w)
    BY <1>5, FeStepIs
  <2>. HIDE DEF c
  <2>. QED BY <2>1 DEF FeState
<1>. HIDE DEF c
<1>8. /\ DOMAIN k = FeFields /\ k.odd = FALSE /\ k.left = 0
      /\ k.regs = SetReg(f.regs, at \div 4, w)
      /\ k.corners = f.corners /\ k.data = f.data /\ k.draws = f.draws
  BY <1>6 DEF FeFields, SetReg
<1>. HIDE DEF k, g2
<1>9. g2 = [k EXCEPT !.mode = "command"]
  BY <1>7, <1>8 DEF Ended
<1>10. /\ DOMAIN g2 = FeFields /\ g2.mode = "command" /\ g2.odd = FALSE
       /\ g2.regs = SetReg(f.regs, at \div 4, w)
       /\ g2.corners = f.corners /\ g2.data = f.data /\ g2.draws = f.draws
  BY <1>8, <1>9 DEF FeFields
<1>11. IsRegs(g2.regs)
  <2>1. IsRegs(f.regs) /\ at \div 4 \in Offsets
    BY DEF Ready, IsAt
  <2>. QED BY <1>10, <2>1, SetRegKeeps
<1>. QED BY <1>1, <1>10, <1>11 DEF Ready, H

\* A DRAW_2D header as the front end reads it, for as many rectangles and words of
\* data as it can count.
DrawWord(n, m) ==
  Pack(VIV_FE_DRAW_2D_HEADER,
       [OP |-> OP_DRAW_2D, COUNT |-> Bits(n), DATA_COUNT |-> Bits(m)])

\* It counts what it was packed with.
LEMMA DrawHeaderReads ==
  ASSUME NEW n \in Nat, n <= 255, NEW d \in Nat, d <= 2047
  PROVE  LET w == DrawWord(n, d)
         IN  /\ w \in Words
             /\ Get(w, VIV_FE_DRAW_2D_HEADER.OP) = OP_DRAW_2D
             /\ Num(Get(w, VIV_FE_DRAW_2D_HEADER.COUNT)) = n
             /\ Num(Get(w, VIV_FE_DRAW_2D_HEADER.DATA_COUNT)) = d
<1>. DEFINE F == VIV_FE_DRAW_2D_HEADER
            v == [OP |-> OP_DRAW_2D, COUNT |-> Bits(n), DATA_COUNT |-> Bits(d)]
            w == DrawWord(n, d)
<1>1. w = Pack(F, v)
  BY DEF DrawWord
<1>2. /\ F.OP = <<27, 31>> /\ F.COUNT = <<8, 15>> /\ F.DATA_COUNT = <<16, 26>>
      /\ F["OP"] = <<27, 31>> /\ F["COUNT"] = <<8, 15>> /\ F["DATA_COUNT"] = <<16, 26>>
  BY DEF VIV_FE_DRAW_2D_HEADER
<1>3. Power(3) = 8 /\ Power(8) = 256 /\ Power(11) = 2048
  BY DEF Power
<1>4. Bits(4) \subseteq 0 .. 2
  <2>1. 4 < Power(3) /\ 3 \in 0 .. 30 /\ 4 \in Nat /\ 3 - 1 = 2
    BY <1>3
  <2>. QED BY <2>1, SmallBits
<1>5. Bits(n) \subseteq 0 .. 7 /\ Num(Bits(n)) = n
  <2>1. n < Power(8) /\ 8 \in 0 .. 30 /\ n \in Nat /\ 8 - 1 = 7
    BY <1>3
  <2>. QED BY <2>1, SmallBits
<1>6. Bits(d) \subseteq 0 .. 10 /\ Num(Bits(d)) = d
  <2>1. d < Power(11) /\ 11 \in 0 .. 30 /\ d \in Nat /\ 11 - 1 = 10
    BY <1>3
  <2>. QED BY <2>1, SmallBits
<1>7. OP_DRAW_2D = Bits(4)
  BY DEF OP_DRAW_2D
<1>8. DOMAIN v = {"OP", "COUNT", "DATA_COUNT"} /\ v["OP"] = Bits(4) /\ v["COUNT"] = Bits(n)
      /\ v["DATA_COUNT"] = Bits(d)
  BY <1>7
<1>. HIDE DEF v, F, w
<1>9. IsField(F["OP"]) /\ IsField(F["COUNT"]) /\ IsField(F["DATA_COUNT"])
  BY <1>2 DEF IsField
<1>10. /\ Mask(F["OP"]) = 27 .. 31 /\ Mask(F["COUNT"]) = 8 .. 15
       /\ Mask(F["DATA_COUNT"]) = 16 .. 26
  BY <1>2 DEF Mask
<1>11. /\ Fits(v["OP"], F["OP"]) /\ Fits(v["COUNT"], F["COUNT"])
       /\ Fits(v["DATA_COUNT"], F["DATA_COUNT"])
  BY <1>2, <1>4, <1>5, <1>6, <1>8 DEF Fits
<1>12. \A a, b \in DOMAIN v : a # b => Apart(F[a], F[b])
  BY <1>8, <1>10 DEF Apart
<1>13. \A a \in DOMAIN v : Get(w, F[a]) = v[a]
  <2>. SUFFICES ASSUME NEW a \in DOMAIN v PROVE Get(w, F[a]) = v[a]
    OBVIOUS
  <2>1. IsField(F[a]) /\ Fits(v[a], F[a]) /\ \A b \in DOMAIN v \ {a} : Apart(F[b], F[a])
    BY <1>8, <1>9, <1>11, <1>12
  <2>. QED BY <1>1, <2>1, PackReadsBack
<1>14. w \in Words
  <2>1. \A a \in DOMAIN v : Put(v[a], F[a]) \subseteq Mask(F[a]) /\ Mask(F[a]) \subseteq 0 .. 31
    BY <1>8, <1>10, PutInMask
  <2>. QED BY <1>1, <2>1 DEF Pack, WordBits, Words
<1>. QED BY <1>2, <1>5, <1>6, <1>7, <1>8, <1>13, <1>14 DEF F, w

\* The fields that the words of a draw leave alone.
SameRegs(g, f) == g.regs = f.regs /\ g.draws = f.draws

\* Appending is behind everything.
LEMMA AppendBehind ==
  \A a, b \in Seq(Words) : \A w \in Words : Append(a \o b, w) = a \o Append(b, w)
<1>. SUFFICES ASSUME NEW a \in Seq(Words), NEW b \in Seq(Words), NEW w \in Words
              PROVE  Append(a \o b, w) = a \o Append(b, w)
  OBVIOUS
<1>1. <<w>> \in Seq(Words) /\ a \o b \in Seq(Words)
  OBVIOUS
<1>2. Append(b, w) = b \o <<w>>
  BY AppendIsConcat
<1>3. Append(a \o b, w) = (a \o b) \o <<w>>
  BY <1>1, AppendIsConcat
<1>4. (a \o b) \o <<w>> = a \o (b \o <<w>>)
  BY <1>1, ConcatAssociative
<1>. QED BY <1>2, <1>3, <1>4

\* A prefix and the word behind it.
LEMMA PrefixGrows ==
  ASSUME NEW u \in Seq(Words), NEW n \in Nat, n + 1 <= Len(u)
  PROVE  /\ Append(SubSeq(u, 1, n), u[n + 1]) = SubSeq(u, 1, n + 1)
         /\ SubSeq(u, 1, n) \in Seq(Words) /\ u[n + 1] \in Words
<1>1. \A i \in 1 .. n : u[i] \in Words
  OBVIOUS
<1>2. SubSeq(u, 1, n) \in Seq(Words)
  BY <1>1, SubSeqProperties
<1>. QED BY <1>2

\* All but the last of the corners' words.
LEMMA CornersAreTaken ==
  ASSUME NEW f, DOMAIN f = FeFields, f.mode = "corners", f.odd = FALSE, f.left \in Nat,
         f.data = <<>>, f.corners \in Seq(Words),
         NEW u \in Seq(Words), Len(u) < f.left
  PROVE  LET g == Fetch(f, u)
         IN  /\ DOMAIN g = FeFields /\ g.mode = "corners" /\ g.left = f.left - Len(u)
             /\ Len(u) % 2 = 0 => g.odd = FALSE
             /\ Len(u) % 2 = 1 => g.odd = TRUE
             /\ g.data_left = f.data_left /\ g.data = <<>>
             /\ g.corners = f.corners \o u
             /\ SameRegs(g, f)
<1>. DEFINE L == Len(u)
            Is(g, n) == /\ DOMAIN g = FeFields /\ g.mode = "corners" /\ g.left = f.left - n
                        /\ n % 2 = 0 => g.odd = FALSE
                        /\ n % 2 = 1 => g.odd = TRUE
                        /\ g.data_left = f.data_left /\ g.data = <<>>
                        /\ g.corners = f.corners \o SubSeq(u, 1, n)
                        /\ SameRegs(g, f)
<1>1. PICK h : IsRun(h, f, u)
  BY RunExists
<1>2. L \in Nat /\ Fetch(f, u) = h[L]
  BY <1>1, FetchFollowsRun
<1>. DEFINE S == {n \in Nat : n <= L => Is(h[n], n)}
<1>3. 0 \in S
  <2>1. h[0] = f
    BY <1>1 DEF IsRun
  <2>2. SubSeq(u, 1, 0) = <<>> /\ f.corners \o <<>> = f.corners
    OBVIOUS
  <2>3. Is(f, 0)
    BY <2>2 DEF SameRegs
  <2>. HIDE DEF Is
  <2>. QED BY <2>1, <2>3
<1>4. ASSUME NEW n \in Nat, n \in S PROVE n + 1 \in S
  <2>. SUFFICES ASSUME n + 1 <= L PROVE Is(h[n + 1], n + 1)
    <3>. HIDE DEF Is
    <3>. QED OBVIOUS
  <2>. DEFINE a == h[n]
              w == u[n + 1]
              c == Counted(a)
              k == [c EXCEPT !.left = @ - 1, !.corners = Append(@, w)]
  <2>1. Is(a, n)
    <3>. HIDE DEF Is
    <3>. QED BY <1>2, <1>4
  <2>2. h[n + 1] = FeStep(a, w)
    <3>1. n + 1 \in 1 .. Len(u) /\ (n + 1) - 1 = n
      BY <1>2
    <3>. QED BY <1>1, <3>1 DEF IsRun
  <2>. HIDE DEF a, w
  <2>3. h[n + 1] = FeCorners(c, w)
    BY <2>1, <2>2, FeStepIs
  <2>4. /\ DOMAIN c = FeFields /\ c.mode = "corners" /\ c.left = f.left - n
        /\ n % 2 = 0 => c.odd = TRUE
        /\ n % 2 = 1 => c.odd = FALSE
        /\ c.data_left = f.data_left /\ c.data = <<>>
        /\ c.corners = f.corners \o SubSeq(u, 1, n)
        /\ SameRegs(c, f)
    <3>1. IsCounted(c, a)
      BY <2>1, CountedIs
    <3>. HIDE DEF c
    <3>. QED BY <2>1, <3>1 DEF IsCounted, SameRegs
  <2>. HIDE DEF c
  <2>5. /\ DOMAIN k = FeFields /\ k.mode = "corners" /\ k.left = f.left - n - 1
        /\ n % 2 = 0 => k.odd = TRUE
        /\ n % 2 = 1 => k.odd = FALSE
        /\ k.data_left = f.data_left /\ k.data = <<>>
        /\ k.corners = Append(f.corners \o SubSeq(u, 1, n), w)
        /\ SameRegs(k, f)
    BY <2>4 DEF FeFields, SameRegs
  <2>6. FeCorners(c, w) = k
    <3>1. k.left > 0
      BY <1>2, <2>5
    <3>. QED BY <3>1 DEF FeCorners
  <2>. HIDE DEF k
  <2>7. Append(f.corners \o SubSeq(u, 1, n), w) = f.corners \o SubSeq(u, 1, n + 1)
    <3>1. /\ Append(SubSeq(u, 1, n), w) = SubSeq(u, 1, n + 1)
          /\ SubSeq(u, 1, n) \in Seq(Words) /\ w \in Words
      BY <1>2, PrefixGrows DEF w
    <3>2. f.corners \in Seq(Words)
      OBVIOUS
    <3>3. Append(f.corners \o SubSeq(u, 1, n), w) = f.corners \o Append(SubSeq(u, 1, n), w)
      BY ONLY <3>1, <3>2, AppendBehind, Zenon
    <3>. QED BY <3>1, <3>3
  <2>8. f.left - n - 1 = f.left - (n + 1)
    OBVIOUS
  <2>9. ((n + 1) % 2 = 0 => n % 2 = 1) /\ ((n + 1) % 2 = 1 => n % 2 = 0)
    OBVIOUS
  <2>. QED BY <2>3, <2>5, <2>6, <2>7, <2>8, <2>9
<1>5. Nat \subseteq S
  <2>. HIDE DEF S
  <2>. QED BY <1>3, <1>4, Induct
<1>6. Is(h[L], L)
  <2>. HIDE DEF Is, L
  <2>. QED BY <1>2, <1>5
<1>7. SubSeq(u, 1, L) = u
  OBVIOUS
<1>. QED BY <1>2, <1>6, <1>7

\* All but the last word of the data.
LEMMA DataAreTaken ==
  ASSUME NEW f, DOMAIN f = FeFields, f.mode = "data", f.odd = FALSE, f.left \in Nat,
         f.data = <<>>,
         NEW u \in Seq(Words), Len(u) < f.left
  PROVE  LET g == Fetch(f, u)
         IN  /\ DOMAIN g = FeFields /\ g.mode = "data" /\ g.left = f.left - Len(u)
             /\ Len(u) % 2 = 0 => g.odd = FALSE
             /\ Len(u) % 2 = 1 => g.odd = TRUE
             /\ g.data = u /\ g.corners = f.corners
             /\ SameRegs(g, f)
<1>. DEFINE L == Len(u)
            Is(g, n) == /\ DOMAIN g = FeFields /\ g.mode = "data" /\ g.left = f.left - n
                        /\ n % 2 = 0 => g.odd = FALSE
                        /\ n % 2 = 1 => g.odd = TRUE
                        /\ g.data = SubSeq(u, 1, n) /\ g.corners = f.corners
                        /\ SameRegs(g, f)
<1>1. PICK h : IsRun(h, f, u)
  BY RunExists
<1>2. L \in Nat /\ Fetch(f, u) = h[L]
  BY <1>1, FetchFollowsRun
<1>. DEFINE S == {n \in Nat : n <= L => Is(h[n], n)}
<1>3. 0 \in S
  <2>1. h[0] = f
    BY <1>1 DEF IsRun
  <2>2. SubSeq(u, 1, 0) = <<>>
    OBVIOUS
  <2>3. Is(f, 0)
    BY <2>2 DEF SameRegs
  <2>. HIDE DEF Is
  <2>. QED BY <2>1, <2>3
<1>4. ASSUME NEW n \in Nat, n \in S PROVE n + 1 \in S
  <2>. SUFFICES ASSUME n + 1 <= L PROVE Is(h[n + 1], n + 1)
    <3>. HIDE DEF Is
    <3>. QED OBVIOUS
  <2>. DEFINE a == h[n]
              w == u[n + 1]
              c == Counted(a)
              k == [c EXCEPT !.left = @ - 1, !.data = Append(@, w)]
  <2>1. Is(a, n)
    <3>. HIDE DEF Is
    <3>. QED BY <1>2, <1>4
  <2>2. h[n + 1] = FeStep(a, w)
    <3>1. n + 1 \in 1 .. Len(u) /\ (n + 1) - 1 = n
      BY <1>2
    <3>. QED BY <1>1, <3>1 DEF IsRun
  <2>. HIDE DEF a, w
  <2>3. h[n + 1] = FeData(c, w)
    BY <2>1, <2>2, FeStepIs
  <2>4. /\ DOMAIN c = FeFields /\ c.mode = "data" /\ c.left = f.left - n
        /\ n % 2 = 0 => c.odd = TRUE
        /\ n % 2 = 1 => c.odd = FALSE
        /\ c.data = SubSeq(u, 1, n) /\ c.corners = f.corners
        /\ SameRegs(c, f)
    <3>1. IsCounted(c, a)
      BY <2>1, CountedIs
    <3>. HIDE DEF c
    <3>. QED BY <2>1, <3>1 DEF IsCounted, SameRegs
  <2>. HIDE DEF c
  <2>5. /\ DOMAIN k = FeFields /\ k.mode = "data" /\ k.left = f.left - n - 1
        /\ n % 2 = 0 => k.odd = TRUE
        /\ n % 2 = 1 => k.odd = FALSE
        /\ k.data = Append(SubSeq(u, 1, n), w) /\ k.corners = f.corners
        /\ SameRegs(k, f)
    BY <2>4 DEF FeFields, SameRegs
  <2>6. FeData(c, w) = k
    <3>1. k.left # 0
      BY <1>2, <2>5
    <3>. QED BY <3>1 DEF FeData
  <2>. HIDE DEF k
  <2>7. Append(SubSeq(u, 1, n), w) = SubSeq(u, 1, n + 1)
    BY <1>2 DEF w
  <2>8. f.left - n - 1 = f.left - (n + 1)
    OBVIOUS
  <2>9. ((n + 1) % 2 = 0 => n % 2 = 1) /\ ((n + 1) % 2 = 1 => n % 2 = 0)
    OBVIOUS
  <2>. QED BY <2>3, <2>5, <2>6, <2>7, <2>8, <2>9
<1>5. Nat \subseteq S
  <2>. HIDE DEF S
  <2>. QED BY <1>3, <1>4, Induct
<1>6. Is(h[L], L)
  <2>. HIDE DEF Is, L
  <2>. QED BY <1>2, <1>5
<1>7. SubSeq(u, 1, L) = u
  OBVIOUS
<1>. QED BY <1>2, <1>6, <1>7

\* The engine draws.
LEMMA DrawnIs ==
  ASSUME NEW f, DOMAIN f = FeFields
  PROVE  LET g == Drawn(f)
         IN  /\ DOMAIN g = FeFields /\ g.odd = f.odd
             /\ f.odd = FALSE => g.mode = "command"
             /\ f.odd = TRUE => g.mode = "pad"
             /\ g.corners = <<>> /\ g.data = <<>> /\ g.regs = f.regs
             /\ g.draws = Append(f.draws, Seen(f.regs, f.corners, f.data))
<1>. DEFINE h == [f EXCEPT !.draws = Append(@, Seen(f.regs, f.corners, f.data)),
                           !.corners = <<>>, !.data = <<>>]
<1>1. /\ DOMAIN h = FeFields /\ h.odd = f.odd /\ h.corners = <<>> /\ h.data = <<>>
      /\ h.regs = f.regs /\ h.draws = Append(f.draws, Seen(f.regs, f.corners, f.data))
  BY DEF FeFields
<1>2. Drawn(f) = [h EXCEPT !.mode = IF h.odd THEN "pad" ELSE "command"]
  BY DEF Drawn, Ended
<1>. HIDE DEF h
<1>. QED BY <1>1, <1>2 DEF FeFields

\* A last word.
LEMMA LastWord ==
  ASSUME NEW u \in Seq(Words), u # <<>>
  PROVE  LET n == Len(u) - 1
             v == SubSeq(u, 1, n)
         IN  /\ v \in Seq(Words) /\ u[Len(u)] \in Words
             /\ Len(v) = n /\ Append(v, u[Len(u)]) = u /\ u = v \o <<u[Len(u)]>>
             /\ \A f : Fetch(f, u) = FeStep(Fetch(f, v), u[Len(u)])
<1>. DEFINE n == Len(u) - 1
            v == SubSeq(u, 1, n)
            w == u[Len(u)]
<1>1. n \in Nat /\ n + 1 = Len(u)
  OBVIOUS
<1>2. /\ Append(v, w) = SubSeq(u, 1, Len(u))
      /\ v \in Seq(Words) /\ w \in Words
  <2>. HIDE DEF n
  <2>1. /\ Append(SubSeq(u, 1, n), u[n + 1]) = SubSeq(u, 1, n + 1)
        /\ SubSeq(u, 1, n) \in Seq(Words) /\ u[n + 1] \in Words
    BY <1>1, PrefixGrows
  <2>. QED BY <1>1, <2>1
<1>3. SubSeq(u, 1, Len(u)) = u
  OBVIOUS
<1>4. Len(v) = n
  BY <1>1
<1>. HIDE DEF n, v, w
<1>5. Append(v, w) = v \o <<w>> /\ <<w>> \in Seq(Words)
  BY <1>2, AppendIsConcat
<1>6. ASSUME NEW f PROVE Fetch(f, v \o <<w>>) = FeStep(Fetch(f, v), w)
  <2>1. Fetch(f, v \o <<w>>) = Fetch(Fetch(f, v), <<w>>)
    BY <1>2, <1>5, FetchConcat
  <2>. QED BY <2>1, FetchWord
<1>. QED BY <1>2, <1>3, <1>4, <1>5, <1>6 DEF n, v, w

\* The front end has taken the header of a draw, and the word behind it.
Begun(g, f, l, d) ==
  /\ DOMAIN g = FeFields /\ g.mode = "corners" /\ g.odd = FALSE /\ g.left = l
  /\ g.data_left = d /\ g.corners = <<{}>> /\ g.data = <<>> /\ SameRegs(g, f)

\* The header of a draw and the padding behind it.
LEMMA DrawBegins ==
  ASSUME NEW f, Ready(f), NEW n \in Nat \ {0}, n <= 255, NEW d \in Nat, d <= 2047
  PROVE  Begun(Fetch(f, <<DrawWord(n, d), {}>>), f, 2 * n, d)
<1>. DEFINE H == DrawWord(n, d)
            g1 == FeStep(f, H)
            g2 == FeStep(g1, {})
<1>1. Fetch(f, <<H, {}>>) = g2
  BY FetchTwo
<1>2. /\ Get(H, VIV_FE_DRAW_2D_HEADER.OP) = OP_DRAW_2D
      /\ Num(Get(H, VIV_FE_DRAW_2D_HEADER.COUNT)) = n
      /\ Num(Get(H, VIV_FE_DRAW_2D_HEADER.DATA_COUNT)) = d
  BY DrawHeaderReads
<1>3. DOMAIN f = FeFields /\ f.mode = "command" /\ f.odd = FALSE
  BY DEF Ready
<1>. HIDE DEF H
<1>4. g1 = [Counted(f) EXCEPT !.mode = "corners", !.left = 1 + 2 * n, !.data_left = d]
  <2>1. g1 = FeCommand(Counted(f), H)
    BY <1>3, FeStepIs
  <2>2. PICK c : c = Counted(f)
    OBVIOUS
  <2>3. VIV_FE_LOAD_STATE_HEADER.OP = VIV_FE_DRAW_2D_HEADER.OP
    BY DEF VIV_FE_LOAD_STATE_HEADER, VIV_FE_DRAW_2D_HEADER
  <2>4. Get(H, VIV_FE_LOAD_STATE_HEADER.OP) # OP_LOAD_STATE
    BY <1>2, <2>3, CommandsDiffer
  <2>5. PICK x, y : /\ x = Num(Get(H, VIV_FE_DRAW_2D_HEADER.COUNT))
                    /\ y = Num(Get(H, VIV_FE_DRAW_2D_HEADER.DATA_COUNT))
    OBVIOUS
  <2>6. FeCommand(c, H) = [c EXCEPT !.mode = "corners", !.left = 1 + 2 * x, !.data_left = y]
    BY <1>2, <2>4, <2>5 DEF FeCommand
  <2>7. x = n /\ y = d
    BY <1>2, <2>5
  <2>. QED BY <2>1, <2>2, <2>6, <2>7
<1>. PICK l \in Nat : l = 1 + 2 * n /\ l - 1 = 2 * n /\ l - 1 > 0
  OBVIOUS
<1>5. /\ DOMAIN g1 = FeFields /\ g1.mode = "corners" /\ g1.odd = TRUE /\ g1.left = l
      /\ g1.data_left = d /\ g1.corners = f.corners /\ g1.data = f.data /\ SameRegs(g1, f)
  <2>1. PICK c : c = Counted(f)
    OBVIOUS
  <2>2. IsCounted(c, f)
    BY <1>3, <2>1, CountedIs
  <2>. HIDE DEF g1
  <2>. QED BY <1>3, <1>4, <2>1, <2>2 DEF FeFields, IsCounted, SameRegs
<1>. HIDE DEF g1
<1>. DEFINE c == Counted(g1)
            k == [c EXCEPT !.left = @ - 1, !.corners = Append(@, {})]
<1>6. /\ DOMAIN c = FeFields /\ c.mode = "corners" /\ c.odd = FALSE /\ c.left = l
      /\ c.data_left = d /\ c.corners = f.corners /\ c.data = f.data /\ SameRegs(c, f)
  <2>1. IsCounted(c, g1)
    BY <1>5, CountedIs
  <2>. HIDE DEF c
  <2>. QED BY <1>5, <2>1 DEF IsCounted, SameRegs
<1>7. g2 = FeCorners(c, {})
  BY <1>5, FeStepIs
<1>. HIDE DEF c
<1>8. /\ DOMAIN k = FeFields /\ k.mode = "corners" /\ k.odd = FALSE /\ k.left = l - 1
      /\ k.data_left = d /\ k.corners = Append(f.corners, {}) /\ k.data = f.data
      /\ SameRegs(k, f)
  BY <1>6 DEF FeFields, SameRegs
<1>9. FeCorners(c, {}) = k
  <2>1. k.left > 0
    BY <1>8
  <2>. QED BY <2>1 DEF FeCorners
<1>10. f.corners = <<>> /\ f.data = <<>> /\ Append(<<>>, {}) = <<{}>>
  BY DEF Ready
<1>. HIDE DEF k, g2
<1>11. Fetch(f, <<H, {}>>) = k
  BY <1>1, <1>7, <1>9
<1>12. k.left = 2 * n /\ k.corners = <<{}>> /\ k.data = <<>>
  BY <1>8, <1>10
<1>13. /\ DOMAIN k = FeFields /\ k.mode = "corners" /\ k.odd = FALSE
       /\ k.left = 2 * n /\ k.data_left = d /\ k.corners = <<{}>> /\ k.data = <<>>
       /\ SameRegs(k, f)
  BY <1>8, <1>12
<1>14. Begun(k, f, 2 * n, d)
  BY ONLY <1>13 DEF Begun
<1>. QED BY ONLY <1>11, <1>14, Zenon DEF H

\* The corners, and a draw without data.
LEMMA CornersEnd ==
  ASSUME NEW f, DOMAIN f = FeFields, f.mode = "corners", f.odd = FALSE,
         f.corners = <<{}>>, f.data = <<>>, f.data_left \in Nat,
         NEW u \in Seq(Words), f.left \in Nat \ {0}, Len(u) = f.left, Len(u) % 2 = 0
  PROVE  LET g == Fetch(f, u)
         IN  /\ DOMAIN g = FeFields /\ g.odd = FALSE /\ g.regs = f.regs /\ g.data = <<>>
             /\ f.data_left > 0 => /\ g.mode = "data" /\ g.left = f.data_left /\ g.corners = u
                                   /\ g.draws = f.draws
             /\ f.data_left = 0 => /\ g.mode = "command" /\ g.corners = <<>>
                                   /\ g.draws = Append(f.draws, Seen(f.regs, u, <<>>))
<1>. DEFINE n == Len(u) - 1
            v == SubSeq(u, 1, n)
            w == u[Len(u)]
            a == Fetch(f, v)
            c == Counted(a)
            k == [c EXCEPT !.left = @ - 1, !.corners = Append(@, w)]
            h == [k EXCEPT !.corners = Tail(@), !.left = k.data_left]
<1>1. /\ v \in Seq(Words) /\ w \in Words /\ Len(v) = n /\ Append(v, w) = u
      /\ Fetch(f, u) = FeStep(a, w) /\ n \in Nat /\ n % 2 = 1 /\ n < f.left
  <2>1. u # <<>>
    OBVIOUS
  <2>2. n \in Nat /\ n % 2 = 1 /\ n < f.left
    OBVIOUS
  <2>. QED BY <2>1, <2>2, LastWord
<1>. HIDE DEF v, w
<1>2. /\ DOMAIN a = FeFields /\ a.mode = "corners" /\ a.left = f.left - n /\ a.odd = TRUE
      /\ a.data_left = f.data_left /\ a.data = <<>> /\ a.corners = f.corners \o v
      /\ SameRegs(a, f)
  <2>1. f.corners \in Seq(Words)
    BY DEF Words
  <2>2. f.left \in Nat
    OBVIOUS
  <2>. HIDE DEF n
  <2>. QED BY <1>1, <2>1, <2>2, CornersAreTaken
<1>. HIDE DEF a
<1>3. /\ DOMAIN c = FeFields /\ c.mode = "corners" /\ c.left = f.left - n /\ c.odd = FALSE
      /\ c.data_left = f.data_left /\ c.data = <<>> /\ c.corners = <<{}>> \o v
      /\ SameRegs(c, f)
  <2>1. IsCounted(c, a)
    BY <1>2, CountedIs
  <2>. HIDE DEF c, n
  <2>. QED BY <1>2, <2>1 DEF IsCounted, SameRegs
<1>4. Fetch(f, u) = FeCorners(c, w)
  BY <1>1, <1>2, FeStepIs
<1>. HIDE DEF c
<1>5. Append(<<{}>> \o v, w) = <<{}>> \o u /\ Tail(<<{}>> \o u) = u
  <2>1. <<{}>> \in Seq(Words)
    BY DEF Words
  <2>2. Append(<<{}>> \o v, w) = <<{}>> \o Append(v, w)
    BY ONLY <1>1, <2>1, AppendBehind, Zenon
  <2>3. Tail(<<{}>> \o u) = u
    OBVIOUS
  <2>. QED BY <1>1, <2>2, <2>3
<1>6. /\ DOMAIN k = FeFields /\ k.mode = "corners" /\ k.left = 0 /\ k.odd = FALSE
      /\ k.data_left = f.data_left /\ k.data = <<>> /\ k.corners = <<{}>> \o u
      /\ SameRegs(k, f)
  <2>1. f.left - n - 1 = 0
    OBVIOUS
  <2>. HIDE DEF n
  <2>. QED BY <1>3, <1>5, <2>1 DEF FeFields, SameRegs
<1>7. FeCorners(c, w) = IF h.left > 0 THEN [h EXCEPT !.mode = "data"] ELSE Drawn(h)
  <2>1. ~(k.left > 0)
    BY <1>6
  <2>. QED BY <2>1 DEF FeCorners
<1>. HIDE DEF k
<1>8. /\ DOMAIN h = FeFields /\ h.mode = "corners" /\ h.left = f.data_left /\ h.odd = FALSE
      /\ h.data = <<>> /\ h.corners = u /\ h.regs = f.regs /\ h.draws = f.draws
  BY <1>5, <1>6 DEF FeFields, SameRegs
<1>. HIDE DEF h
<1>9. CASE f.data_left > 0
  <2>1. Fetch(f, u) = [h EXCEPT !.mode = "data"]
    BY <1>4, <1>7, <1>8, <1>9
  <2>. QED BY <1>8, <1>9, <2>1 DEF FeFields
<1>10. CASE f.data_left = 0
  <2>1. Fetch(f, u) = Drawn(h)
    BY <1>4, <1>7, <1>8, <1>10
  <2>2. /\ DOMAIN Drawn(h) = FeFields /\ Drawn(h).odd = FALSE /\ Drawn(h).mode = "command"
        /\ Drawn(h).corners = <<>> /\ Drawn(h).data = <<>> /\ Drawn(h).regs = f.regs
        /\ Drawn(h).draws = Append(f.draws, Seen(f.regs, u, <<>>))
    BY <1>8, DrawnIs
  <2>3. ~(f.data_left > 0)
    BY <1>10
  <2>. QED BY <2>1, <2>2, <2>3
<1>11. f.data_left > 0 \/ f.data_left = 0
  OBVIOUS
<1>. QED BY <1>9, <1>10, <1>11

\* The data, and the draw.
LEMMA DataEnd ==
  ASSUME NEW f, DOMAIN f = FeFields, f.mode = "data", f.odd = FALSE, f.data = <<>>,
         NEW u \in Seq(Words), f.left \in Nat \ {0}, Len(u) = f.left
  PROVE  LET g == Fetch(f, u)
         IN  /\ DOMAIN g = FeFields /\ g.regs = f.regs /\ g.data = <<>> /\ g.corners = <<>>
             /\ Len(u) % 2 = 0 => g.mode = "command" /\ g.odd = FALSE
             /\ Len(u) % 2 = 1 => g.mode = "pad" /\ g.odd = TRUE
             /\ g.draws = Append(f.draws, Seen(f.regs, f.corners, u))
<1>. DEFINE n == Len(u) - 1
            v == SubSeq(u, 1, n)
            w == u[Len(u)]
            a == Fetch(f, v)
            c == Counted(a)
            k == [c EXCEPT !.left = @ - 1, !.data = Append(@, w)]
<1>0. /\ n \in Nat /\ n < f.left /\ f.left - n - 1 = 0
      /\ Len(u) % 2 = 0 => n % 2 = 1
      /\ Len(u) % 2 = 1 => n % 2 = 0
  OBVIOUS
<1>1. /\ v \in Seq(Words) /\ w \in Words /\ Len(v) = n /\ Append(v, w) = u
      /\ Fetch(f, u) = FeStep(a, w)
  <2>1. u # <<>>
    OBVIOUS
  <2>. QED BY <2>1, LastWord
<1>. HIDE DEF v, w
<1>2. /\ DOMAIN a = FeFields /\ a.mode = "data" /\ a.left = f.left - n
      /\ n % 2 = 0 => a.odd = FALSE
      /\ n % 2 = 1 => a.odd = TRUE
      /\ a.data = v /\ a.corners = f.corners /\ SameRegs(a, f)
  <2>1. f.left \in Nat
    OBVIOUS
  <2>. HIDE DEF n
  <2>. QED BY <1>0, <1>1, <2>1, DataAreTaken
<1>. HIDE DEF a, n
<1>3. /\ DOMAIN c = FeFields /\ c.mode = "data" /\ c.left = f.left - n
      /\ n % 2 = 0 => c.odd = TRUE
      /\ n % 2 = 1 => c.odd = FALSE
      /\ c.data = v /\ c.corners = f.corners /\ SameRegs(c, f)
  <2>1. IsCounted(c, a)
    BY <1>2, CountedIs
  <2>. HIDE DEF c
  <2>. QED BY <1>2, <2>1 DEF IsCounted, SameRegs
<1>4. Fetch(f, u) = FeData(c, w)
  BY <1>1, <1>2, FeStepIs
<1>. HIDE DEF c
<1>5. /\ DOMAIN k = FeFields /\ k.left = 0
      /\ n % 2 = 0 => k.odd = TRUE
      /\ n % 2 = 1 => k.odd = FALSE
      /\ k.data = u /\ k.corners = f.corners /\ SameRegs(k, f)
  BY <1>0, <1>1, <1>3 DEF FeFields, SameRegs
<1>6. FeData(c, w) = Drawn(k)
  BY <1>5 DEF FeData
<1>. HIDE DEF k
<1>. DEFINE g == Drawn(k)
<1>7. /\ DOMAIN g = FeFields /\ g.odd = k.odd
      /\ k.odd = FALSE => g.mode = "command"
      /\ k.odd = TRUE => g.mode = "pad"
      /\ g.corners = <<>> /\ g.data = <<>> /\ g.regs = k.regs
      /\ g.draws = Append(k.draws, Seen(k.regs, k.corners, k.data))
  BY <1>5, DrawnIs
<1>. HIDE DEF g
<1>8. /\ DOMAIN g = FeFields /\ g.regs = f.regs /\ g.data = <<>> /\ g.corners = <<>>
      /\ Len(u) % 2 = 0 => g.mode = "command" /\ g.odd = FALSE
      /\ Len(u) % 2 = 1 => g.mode = "pad" /\ g.odd = TRUE
      /\ g.draws = Append(f.draws, Seen(f.regs, f.corners, u))
  BY <1>0, <1>5, <1>7 DEF SameRegs
<1>9. Fetch(f, u) = g
  BY <1>4, <1>6 DEF g
<1>. QED BY ONLY <1>8, <1>9, Zenon

\* The word that is skipped behind a draw.
LEMMA PadIsTaken ==
  ASSUME NEW f, DOMAIN f = FeFields, f.mode = "pad", f.odd = TRUE, NEW w
  PROVE  LET g == Fetch(f, <<w>>)
         IN  /\ DOMAIN g = FeFields /\ g.mode = "command" /\ g.odd = FALSE
             /\ g.corners = f.corners /\ g.data = f.data /\ SameRegs(g, f)
<1>. DEFINE c == Counted(f)
<1>1. IsCounted(c, f)
  BY CountedIs
<1>2. Fetch(f, <<w>>) = [c EXCEPT !.mode = "command"]
  BY FetchWord, FeStepIs
<1>. HIDE DEF c
<1>. DEFINE g == [c EXCEPT !.mode = "command"]
<1>3. /\ DOMAIN g = FeFields /\ g.mode = "command" /\ g.odd = FALSE
      /\ g.corners = f.corners /\ g.data = f.data /\ SameRegs(g, f)
  BY <1>1 DEF IsCounted, SameRegs, FeFields
<1>. HIDE DEF g
<1>4. Fetch(f, <<w>>) = g
  BY <1>2 DEF g
<1>. QED BY ONLY <1>3, <1>4, Zenon

\* n rectangles with the corners c, and the data d, are what a draw can hold; u is
\* what is written for it.
IsDraw(n, c, d, u) ==
  /\ n \in Nat \ {0} /\ n <= 255 /\ c \in Seq(Words) /\ Len(c) = 2 * n
  /\ d \in Seq(Words) /\ Len(d) <= 2047 /\ Stale \in Words
  /\ u = EtnaAlign(EtnaAlign(<<DrawWord(n, Len(d)), {}>> \o c) \o d)

\* A whole draw, for as many rectangles and data as its header can count: the front
\* end draws once, with these corners and data, and is ready behind it.
LEMMA DrawIsTaken ==
  ASSUME NEW f, Ready(f), NEW n, NEW c, NEW d, NEW u, IsDraw(n, c, d, u)
  PROVE  /\ u \in Seq(Words) /\ Len(u) % 2 = 0
         /\ Ready(Fetch(f, u)) /\ Fetch(f, u).regs = f.regs
         /\ Fetch(f, u).draws = Append(f.draws, Seen(f.regs, c, d))
<1>m. PICK m, b : m = Len(d) /\ b = <<DrawWord(n, m), {}>>
  OBVIOUS
<1>u. u = EtnaAlign(EtnaAlign(b \o c) \o d)
  BY <1>m DEF IsDraw
<1>. DEFINE g1 == Fetch(f, b)
            g2 == Fetch(g1, c)
            g3 == Fetch(g2, d)
            v == (b \o c) \o d
            s == Append(f.draws, Seen(f.regs, c, d))
<1>l. PICK l \in Nat \ {0} : l = 2 * n /\ l % 2 = 0 /\ Len(c) = l
  BY DEF IsDraw
<1>0. m \in Nat /\ m <= 2047
  BY <1>m DEF IsDraw
<1>a. c \in Seq(Words) /\ d \in Seq(Words) /\ Stale \in Words
  BY DEF IsDraw
<1>b. n \in Nat \ {0} /\ n <= 255
  BY DEF IsDraw
<1>1. b \in Seq(Words) /\ Len(b) = 2
  <2>1. DrawWord(n, m) \in Words
    BY <1>0, <1>b, DrawHeaderReads
  <2>2. {} \in Words
    BY DEF Words
  <2>. QED BY <1>m, <2>1, <2>2
<1>2. /\ DOMAIN g1 = FeFields /\ g1.mode = "corners" /\ g1.odd = FALSE /\ g1.left = l
      /\ g1.data_left = m /\ g1.corners = <<{}>> /\ g1.data = <<>> /\ SameRegs(g1, f)
  <2>1. Begun(Fetch(f, <<DrawWord(n, m), {}>>), f, 2 * n, m)
    BY <1>0, <1>b, DrawBegins
  <2>2. Begun(g1, f, l, m)
    BY ONLY <1>l, <1>m, <2>1
  <2>. QED BY ONLY <2>2 DEF Begun
<1>. HIDE DEF g1
<1>3. /\ DOMAIN g2 = FeFields /\ g2.odd = FALSE /\ g2.regs = g1.regs /\ g2.data = <<>>
      /\ m > 0 => /\ g2.mode = "data" /\ g2.left = m /\ g2.corners = c
                  /\ g2.draws = g1.draws
      /\ m = 0 => /\ g2.mode = "command" /\ g2.corners = <<>>
                  /\ g2.draws = Append(g1.draws, Seen(g1.regs, c, <<>>))
  <2>1. g1.data_left \in Nat /\ g1.left \in Nat \ {0} /\ Len(c) = g1.left /\ Len(c) % 2 = 0
    BY ONLY <1>0, <1>l, <1>2
  <2>2. LET g == Fetch(g1, c)
        IN  /\ DOMAIN g = FeFields /\ g.odd = FALSE /\ g.regs = g1.regs /\ g.data = <<>>
            /\ g1.data_left > 0 => /\ g.mode = "data" /\ g.left = g1.data_left /\ g.corners = c
                                  /\ g.draws = g1.draws
            /\ g1.data_left = 0 => /\ g.mode = "command" /\ g.corners = <<>>
                                  /\ g.draws = Append(g1.draws, Seen(g1.regs, c, <<>>))
    BY ONLY <1>a, <1>2, <2>1, CornersEnd, Zenon
  <2>3. g1.data_left = m
    BY <1>2
  <2>. HIDE DEF g2
  <2>4. g2 = Fetch(g1, c)
    BY DEF g2
  <2>. QED BY ONLY <2>2, <2>3, <2>4, Zenon
<1>. HIDE DEF g2
<1>4. EtnaAlign(b \o c) = b \o c /\ b \o c \in Seq(Words) /\ Len(b \o c) = 2 + l
  <2>1. b \o c \in Seq(Words) /\ Len(b \o c) = 2 + l
    <3>1. b \o c \in Seq(Words) /\ Len(b \o c) = Len(b) + Len(c)
      BY ONLY <1>1, <1>a, ConcatProperties, Zenon
    <3>. QED BY ONLY <1>1, <1>l, <3>1
  <2>2. (2 + l) % 2 = 0
    BY <1>l
  <2>. QED BY <2>1, <2>2 DEF EtnaAlign
<1>5. Fetch(f, b \o c) = g2
  BY <1>1, <1>a, FetchConcat DEF g1, g2
<1>6. v \in Seq(Words) /\ Len(v) = 2 + l + m
  BY <1>0, <1>4, <1>a, <1>m, ConcatProperties
<1>7. Fetch(f, v) = g3
  BY <1>4, <1>5, <1>a, FetchConcat
<1>8. u = EtnaAlign(v)
  BY <1>4, <1>u
<1>. HIDE DEF v
<1>9. Len(v) % 2 = m % 2
  BY <1>0, <1>6, <1>l
<1>. HIDE DEF s
<1>10. /\ g3.regs = f.regs /\ DOMAIN g3 = FeFields /\ g3.data = <<>> /\ g3.corners = <<>>
       /\ g3.draws = s
       /\ m % 2 = 0 => g3.mode = "command" /\ g3.odd = FALSE
       /\ m % 2 = 1 => g3.mode = "pad" /\ g3.odd = TRUE
  <2>1. CASE m = 0
    <3>1. d = <<>>
      BY <1>m, <2>1, <1>a, EmptySeq
    <3>2. g3 = g2
      BY <3>1, FetchNothing
    <3>. QED BY <1>2, <1>3, <2>1, <3>1, <3>2 DEF SameRegs, s
  <2>2. CASE m > 0
    <3>1. m \in Nat \ {0}
      BY <1>0, <2>2
    <3>2. /\ DOMAIN g3 = FeFields /\ g3.regs = g2.regs /\ g3.data = <<>> /\ g3.corners = <<>>
          /\ m % 2 = 0 => g3.mode = "command" /\ g3.odd = FALSE
          /\ m % 2 = 1 => g3.mode = "pad" /\ g3.odd = TRUE
          /\ g3.draws = Append(g2.draws, Seen(g2.regs, g2.corners, d))
      BY <1>3, <1>a, <1>m, <2>2, <3>1, DataEnd
    <3>. HIDE DEF g3
    <3>. QED BY <1>2, <1>3, <2>2, <3>2 DEF SameRegs, s
  <2>3. m = 0 \/ m > 0
    BY <1>0
  <2>. QED BY ONLY <2>1, <2>2, <2>3, Zenon
<1>. HIDE DEF g3
<1>11. IsRegs(f.regs)
  BY DEF Ready
<1>12. m % 2 = 0 \/ m % 2 = 1
  BY <1>0
<1>13. /\ u \in Seq(Words) /\ Len(u) % 2 = 0
       /\ Ready(Fetch(f, u)) /\ Fetch(f, u).regs = f.regs /\ Fetch(f, u).draws = s
  <2>1. CASE m % 2 = 0
    <3>1. u = v
      BY <1>8, <1>9, <2>1 DEF EtnaAlign
    <3>2. Ready(g3)
      BY ONLY <1>10, <1>11, <2>1 DEF Ready
    <3>. QED BY ONLY <1>6, <1>7, <1>9, <1>10, <2>1, <3>1, <3>2
  <2>2. CASE m % 2 = 1
    <3>. DEFINE g4 == Fetch(g3, <<Stale>>)
    <3>1. u = Append(v, Stale)
      BY <1>8, <1>9, <2>2 DEF EtnaAlign
    <3>2. Append(v, Stale) = v \o <<Stale>> /\ <<Stale>> \in Seq(Words)
      BY <1>6, <1>a, AppendIsConcat
    <3>3. Fetch(f, v \o <<Stale>>) = g4
      BY <1>6, <1>7, <3>2, FetchConcat
    <3>4. /\ DOMAIN g4 = FeFields /\ g4.mode = "command" /\ g4.odd = FALSE
          /\ g4.corners = g3.corners /\ g4.data = g3.data /\ SameRegs(g4, g3)
      BY ONLY <1>10, <2>2, PadIsTaken DEF g4
    <3>. HIDE DEF g4
    <3>5. Ready(g4)
      BY ONLY <1>10, <1>11, <3>4 DEF Ready, SameRegs
    <3>6. Append(v, Stale) \in Seq(Words) /\ Len(Append(v, Stale)) = Len(v) + 1
      BY <1>6, <1>a, AppendProperties
    <3>7. (Len(v) + 1) % 2 = 0
      BY <1>0, <1>6, <1>l, <1>9, <2>2
    <3>. QED BY ONLY <1>10, <3>1, <3>2, <3>3, <3>4, <3>5, <3>6, <3>7 DEF SameRegs
  <2>. QED BY <1>12, <2>1, <2>2
<1>. QED BY <1>13 DEF s

-------------------------------------------------------------------------------
(***************************************************************************)
(* What viv2d_op_exec writes between two reserves.                         *)
(***************************************************************************)
\* Whole commands: the front end takes them and is ready again.
Pieces == {p \in Seq(Words) : Len(p) % 2 = 0 /\ \A f : Ready(f) => Ready(Fetch(f, p))}

\* Pieces behind pieces.
LEMMA PiecesConcat ==
  ASSUME NEW s \in Seq(Pieces), NEW t \in Seq(Pieces)
  PROVE  s \o t \in Seq(Pieces)
BY ConcatProperties

\* Two even sequences of words make one.
LEMMA EvenConcat ==
  ASSUME NEW u \in Seq(Words), NEW v \in Seq(Words), Len(u) % 2 = 0, Len(v) % 2 = 0
  PROVE  u \o v \in Seq(Words) /\ Len(u \o v) % 2 = 0
<1>1. u \o v \in Seq(Words) /\ Len(u \o v) = Len(u) + Len(v)
  BY ONLY ConcatProperties, u \in Seq(Words), v \in Seq(Words), Zenon
<1>2. PICK a \in Nat, b \in Nat : a = Len(u) /\ b = Len(v) /\ a % 2 = 0 /\ b % 2 = 0
  OBVIOUS
<1>3. (a + b) % 2 = 0
  BY <1>2
<1>. QED BY ONLY <1>1, <1>2, <1>3

\* A stream of whole commands, however long, is taken whole.
LEMMA StreamIsTaken ==
  ASSUME NEW s \in Seq(Pieces)
  PROVE  FlattenSeq(s) \in Pieces
<1>. DEFINE L == Len(s)
<1>1. s \in Seq(Seq(Words)) /\ L \in Nat /\ \A i \in 1 .. L : s[i] \in Pieces
  BY DEF Pieces
<1>2. PICK F : /\ F[0] = <<>> /\ F[L] = FlattenSeq(s)
               /\ \A i \in 0 .. L : F[i] \in Seq(Words)
               /\ \A i \in 1 .. L : F[i] = F[i - 1] \o s[i]
  BY <1>1, FlattenSteps
<1>. DEFINE T == {i \in Nat : i <= L => F[i] \in Pieces}
<1>3. 0 \in T
  <2>1. <<>> \in Seq(Words) /\ Len(<<>>) % 2 = 0
    OBVIOUS
  <2>2. \A f : Fetch(f, <<>>) = f
    BY FetchNothing
  <2>3. <<>> \in Pieces
    BY ONLY <2>1, <2>2 DEF Pieces
  <2>. QED BY <1>2, <2>3
<1>4. ASSUME NEW i \in Nat, i \in T PROVE i + 1 \in T
  <2>. SUFFICES ASSUME i + 1 <= L PROVE F[i + 1] \in Pieces
    OBVIOUS
  <2>1. F[i] \in Pieces /\ s[i + 1] \in Pieces /\ i + 1 \in 1 .. L /\ (i + 1) - 1 = i
    BY <1>1, <1>4
  <2>2. F[i + 1] = F[i] \o s[i + 1]
    BY <1>2, <2>1
  <2>. DEFINE u == F[i]
              v == s[i + 1]
  <2>3. u \in Pieces /\ v \in Pieces
    BY <2>1
  <2>. HIDE DEF u, v
  <2>4. u \in Seq(Words) /\ v \in Seq(Words) /\ Len(u) % 2 = 0 /\ Len(v) % 2 = 0
    BY ONLY <2>3 DEF Pieces
  <2>5. u \o v \in Seq(Words) /\ Len(u \o v) % 2 = 0
    BY ONLY <2>4, EvenConcat, Zenon
  <2>6. \A f : Fetch(f, u \o v) = Fetch(Fetch(f, u), v)
    BY ONLY <2>4, FetchConcat, Zenon
  <2>7. \A f : Ready(f) => Ready(Fetch(f, u \o v))
    BY ONLY <2>3, <2>6 DEF Pieces
  <2>8. u \o v \in Pieces
    BY ONLY <2>5, <2>7 DEF Pieces
  <2>. QED BY <2>2, <2>8 DEF u, v
<1>. HIDE DEF T
<1>5. L \in T
  BY <1>1, <1>3, <1>4, Induct
<1>. QED BY <1>1, <1>2, <1>5 DEF T

-------------------------------------------------------------------------------
\* A register: it has an address, and its fields are in a word.
IsReg(reg) ==
  /\ IsAt(reg.at)
  /\ \A n \in DOMAIN reg.fields : Mask(reg.fields[n]) \subseteq WordBits

\* What is packed into fields that are in a word is a word.
LEMMA PackIsWord ==
  ASSUME NEW fields, NEW v, \A n \in DOMAIN v : Mask(fields[n]) \subseteq WordBits
  PROVE  Pack(fields, v) \in Words
<1>1. \A n \in DOMAIN v : Put(v[n], fields[n]) \subseteq WordBits
  BY PutInMask
<1>. QED BY ONLY <1>1, Zenon DEF Pack, Words

\* A LOAD_STATE of one register is a whole command.
LEMMA SetStateIsPiece ==
  ASSUME NEW reg, IsAt(reg.at), NEW w \in Words
  PROVE  SetState(reg, w) \in Seq(Pieces)
<1>. DEFINE h == LoadState(reg.at, 1)
            p == <<h, w>>
<1>1. h \in Words
  BY LoadStateReads
<1>. HIDE DEF h
<1>2. p \in Seq(Words) /\ Len(p) = 2 /\ Len(p) % 2 = 0
  BY ONLY <1>1, w \in Words
<1>3. \A f : Ready(f) => Ready(Fetch(f, p))
  BY PairIsTaken DEF h
<1>. HIDE DEF p
<1>4. p \in Pieces
  BY ONLY <1>2, <1>3 DEF Pieces
<1>5. SetState(reg, w) = <<p>>
  BY DEF SetState, p, h
<1>. QED BY ONLY <1>4, <1>5

\* The same, for a register with fields.
LEMMA SetIsPiece ==
  ASSUME NEW reg, IsReg(reg), NEW v, DOMAIN v \subseteq DOMAIN reg.fields
  PROVE  Set(reg, v) \in Seq(Pieces)
<1>1. Pack(reg.fields, v) \in Words
  BY PackIsWord DEF IsReg
<1>2. IsAt(reg.at)
  BY DEF IsReg
<1>. QED BY ONLY <1>1, <1>2, SetStateIsPiece, Zenon DEF Set

\* The same, for zeros in a few registers.
LEMMA ZeroIsPieces ==
  ASSUME NEW regs, NEW n \in Nat, DOMAIN regs = 1 .. n, Len(regs) = n,
         \A i \in 1 .. n : IsAt(regs[i].at)
  PROVE  Zero(regs) \in Seq(Pieces)
<1>1. {} \in Words
  BY DEF Words
<1>2. \A i \in 1 .. n : SetState(regs[i], {})[1] \in Pieces
  <2>1. \A i \in 1 .. n : SetState(regs[i], {}) \in Seq(Pieces)
    BY <1>1, SetStateIsPiece
  <2>2. \A i \in 1 .. n : Len(SetState(regs[i], {})) = 1
    BY DEF SetState
  <2>3. ASSUME NEW s \in Seq(Pieces), Len(s) = 1 PROVE s[1] \in Pieces
    BY <2>3
  <2>. QED BY ONLY <2>1, <2>2, <2>3, Zenon
<1>. QED BY <1>2 DEF Zero

\* Pieces that are written or not.
LEMMA WhenIsPieces ==
  ASSUME NEW c \in BOOLEAN, NEW s, c => s \in Seq(Pieces)
  PROVE  When(c, s) \in Seq(Pieces)
<1>1. <<>> \in Seq(Pieces)
  OBVIOUS
<1>. QED BY <1>1 DEF When

\* The fields of every register are in a word.
Fit(fields) == \A n \in DOMAIN fields : Mask(fields[n]) \subseteq WordBits

\* A register made by Reg is one.
LEMMA RegIs ==
  ASSUME NEW reg, NEW at \in Nat, NEW fields, reg = Reg(at, fields), at < 262144, Fit(fields)
  PROVE  IsReg(reg) /\ reg.fields = fields
<1>1. reg.at = at /\ reg.fields = fields
  BY DEF Reg
<1>2. at \div 4 \in Nat /\ at \div 4 < 65536
  OBVIOUS
<1>. QED BY ONLY <1>1, <1>2, at \in Nat, Fit(fields) DEF IsReg, IsAt, Fit, Offsets

\* The fields of the encodings are in a word.
LEMMA FieldsFit ==
  /\ Fit(XY) /\ Fit(Stride) /\ Fit(Rotation) /\ Fit([VALUE |-> <<0, 31>>])
  /\ Fit([X |-> <<0, 30>>]) /\ Fit([Y |-> <<0, 30>>])
  /\ Fit([X |-> <<0, 14>>, Y |-> <<16, 30>>]) /\ Fit([HEIGHT |-> <<0, 15>>])
<1>1. Fit(XY)
  BY DEF Fit, XY, Mask, WordBits
<1>2. Fit(Stride) /\ Fit(Rotation)
  BY DEF Fit, Stride, Rotation, Mask, WordBits
<1>3. Fit([VALUE |-> <<0, 31>>]) /\ Fit([X |-> <<0, 30>>]) /\ Fit([Y |-> <<0, 30>>])
  BY DEF Fit, Mask, WordBits
<1>4. Fit([X |-> <<0, 14>>, Y |-> <<16, 30>>]) /\ Fit([HEIGHT |-> <<0, 15>>])
  BY DEF Fit, Mask, WordBits
<1>. QED BY <1>1, <1>2, <1>3, <1>4

\* A register without fields, at an address that fits.
LEMMA PlainIsReg ==
  ASSUME NEW at \in Nat, at < 262144
  PROVE  IsReg(Plain(at)) /\ Plain(at).fields = [VALUE |-> <<0, 31>>]
BY FieldsFit, RegIs DEF Plain

\* The registers that hold one value, or the fields of FieldsFit.
LEMMA ValuesAreRegs ==
  /\ IsReg(VIVS_DE_SRC_ADDRESS) /\ IsReg(VIVS_DE_SRC_COLOR_BG)
  /\ IsReg(VIVS_DE_SRC_COLOR_FG) /\ IsReg(VIVS_DE_DEST_ADDRESS)
  /\ IsReg(VIVS_DE_PATTERN_MASK_LOW) /\ IsReg(VIVS_DE_PATTERN_MASK_HIGH)
  /\ IsReg(VIVS_DE_PATTERN_BG_COLOR) /\ IsReg(VIVS_DE_PATTERN_FG_COLOR)
  /\ IsReg(VIVS_DE_CLEAR_BYTE_MASK) /\ IsReg(VIVS_DE_CLEAR_PIXEL_VALUE_LOW)
  /\ IsReg(VIVS_DE_CLEAR_PIXEL_VALUE_HIGH) /\ IsReg(VIVS_DE_CLEAR_PIXEL_VALUE32)
  /\ IsReg(VIVS_DE_GLOBAL_SRC_COLOR) /\ IsReg(VIVS_DE_GLOBAL_DEST_COLOR)
<1>1. IsReg(VIVS_DE_SRC_ADDRESS) /\ IsReg(VIVS_DE_SRC_COLOR_BG)
  BY PlainIsReg DEF VIVS_DE_SRC_ADDRESS, VIVS_DE_SRC_COLOR_BG
<1>2. IsReg(VIVS_DE_SRC_COLOR_FG) /\ IsReg(VIVS_DE_DEST_ADDRESS)
  BY PlainIsReg DEF VIVS_DE_SRC_COLOR_FG, VIVS_DE_DEST_ADDRESS
<1>3. IsReg(VIVS_DE_PATTERN_MASK_LOW) /\ IsReg(VIVS_DE_PATTERN_MASK_HIGH)
  BY PlainIsReg DEF VIVS_DE_PATTERN_MASK_LOW, VIVS_DE_PATTERN_MASK_HIGH
<1>4. IsReg(VIVS_DE_PATTERN_BG_COLOR) /\ IsReg(VIVS_DE_PATTERN_FG_COLOR)
  BY PlainIsReg DEF VIVS_DE_PATTERN_BG_COLOR, VIVS_DE_PATTERN_FG_COLOR
<1>5. IsReg(VIVS_DE_CLEAR_BYTE_MASK) /\ IsReg(VIVS_DE_CLEAR_PIXEL_VALUE_LOW)
  BY PlainIsReg DEF VIVS_DE_CLEAR_BYTE_MASK, VIVS_DE_CLEAR_PIXEL_VALUE_LOW
<1>6. IsReg(VIVS_DE_CLEAR_PIXEL_VALUE_HIGH) /\ IsReg(VIVS_DE_CLEAR_PIXEL_VALUE32)
  BY PlainIsReg DEF VIVS_DE_CLEAR_PIXEL_VALUE_HIGH, VIVS_DE_CLEAR_PIXEL_VALUE32
<1>7. IsReg(VIVS_DE_GLOBAL_SRC_COLOR) /\ IsReg(VIVS_DE_GLOBAL_DEST_COLOR)
  BY PlainIsReg DEF VIVS_DE_GLOBAL_SRC_COLOR, VIVS_DE_GLOBAL_DEST_COLOR
<1>. QED BY ONLY <1>1, <1>2, <1>3, <1>4, <1>5, <1>6, <1>7, Zenon

\* The registers of sizes and origins.
LEMMA SizesAreRegs ==
  /\ IsReg(VIVS_DE_SRC_ORIGIN) /\ IsReg(VIVS_DE_SRC_SIZE)
  /\ IsReg(VIVS_DE_SRC_STRIDE) /\ IsReg(VIVS_DE_DEST_STRIDE)
  /\ IsReg(VIVS_DE_SRC_ROTATION_CONFIG) /\ IsReg(VIVS_DE_DEST_ROTATION_CONFIG)
  /\ IsReg(VIVS_DE_STRETCH_FACTOR_LOW) /\ IsReg(VIVS_DE_STRETCH_FACTOR_HIGH)
  /\ IsReg(VIVS_DE_CLIP_TOP_LEFT) /\ IsReg(VIVS_DE_CLIP_BOTTOM_RIGHT)
<1>1. IsReg(VIVS_DE_SRC_ORIGIN) /\ IsReg(VIVS_DE_SRC_SIZE)
  BY FieldsFit, RegIs DEF VIVS_DE_SRC_ORIGIN, VIVS_DE_SRC_SIZE
<1>2. IsReg(VIVS_DE_SRC_STRIDE) /\ IsReg(VIVS_DE_DEST_STRIDE)
  BY FieldsFit, RegIs DEF VIVS_DE_SRC_STRIDE, VIVS_DE_DEST_STRIDE
<1>3. IsReg(VIVS_DE_SRC_ROTATION_CONFIG) /\ IsReg(VIVS_DE_DEST_ROTATION_CONFIG)
  BY FieldsFit, RegIs DEF VIVS_DE_SRC_ROTATION_CONFIG, VIVS_DE_DEST_ROTATION_CONFIG
<1>4. IsReg(VIVS_DE_STRETCH_FACTOR_LOW) /\ IsReg(VIVS_DE_STRETCH_FACTOR_HIGH)
  BY FieldsFit, RegIs DEF VIVS_DE_STRETCH_FACTOR_LOW, VIVS_DE_STRETCH_FACTOR_HIGH
<1>5. IsReg(VIVS_DE_CLIP_TOP_LEFT) /\ IsReg(VIVS_DE_CLIP_BOTTOM_RIGHT)
  BY FieldsFit, RegIs DEF VIVS_DE_CLIP_TOP_LEFT, VIVS_DE_CLIP_BOTTOM_RIGHT
<1>. QED BY ONLY <1>1, <1>2, <1>3, <1>4, <1>5, Zenon

\* The registers of configurations, of blending and of the rest.
LEMMA ConfigsFit ==
  /\ Fit(VIVS_DE_SRC_CONFIG.fields) /\ IsReg(VIVS_DE_SRC_CONFIG)
  /\ Fit(VIVS_DE_DEST_CONFIG.fields) /\ IsReg(VIVS_DE_DEST_CONFIG)
  /\ Fit(VIVS_DE_PATTERN_CONFIG.fields) /\ IsReg(VIVS_DE_PATTERN_CONFIG)
  /\ Fit(VIVS_DE_ROP.fields) /\ IsReg(VIVS_DE_ROP)
  /\ Fit(VIVS_DE_ALPHA_CONTROL.fields) /\ IsReg(VIVS_DE_ALPHA_CONTROL)
  /\ Fit(VIVS_DE_ALPHA_MODES.fields) /\ IsReg(VIVS_DE_ALPHA_MODES)
  /\ Fit(VIVS_DE_COLOR_MULTIPLY_MODES.fields) /\ IsReg(VIVS_DE_COLOR_MULTIPLY_MODES)
  /\ Fit(VIVS_DE_DE_MULTI_SOURCE.fields) /\ IsReg(VIVS_DE_DE_MULTI_SOURCE)
  /\ Fit(VIVS_GL_FLUSH_CACHE.fields) /\ IsReg(VIVS_GL_FLUSH_CACHE)
<1>1. Fit(VIVS_DE_SRC_CONFIG.fields) /\ IsReg(VIVS_DE_SRC_CONFIG)
  <2>. DEFINE F == VIVS_DE_SRC_CONFIG.fields
  <2>1. Fit(F)
    BY DEF Fit, VIVS_DE_SRC_CONFIG, Reg, Mask, WordBits
  <2>2. VIVS_DE_SRC_CONFIG = Reg(\h120c, F)
    BY DEF VIVS_DE_SRC_CONFIG, Reg
  <2>. HIDE DEF F
  <2>3. Fit(F) /\ IsReg(VIVS_DE_SRC_CONFIG)
    BY <2>1, <2>2, RegIs
  <2>. QED BY ONLY <2>3 DEF F
<1>2. Fit(VIVS_DE_DEST_CONFIG.fields) /\ IsReg(VIVS_DE_DEST_CONFIG)
  <2>. DEFINE F == VIVS_DE_DEST_CONFIG.fields
  <2>1. Fit(F)
    BY DEF Fit, VIVS_DE_DEST_CONFIG, Reg, Mask, WordBits
  <2>2. VIVS_DE_DEST_CONFIG = Reg(\h1234, F)
    BY DEF VIVS_DE_DEST_CONFIG, Reg
  <2>. HIDE DEF F
  <2>3. Fit(F) /\ IsReg(VIVS_DE_DEST_CONFIG)
    BY <2>1, <2>2, RegIs
  <2>. QED BY ONLY <2>3 DEF F
<1>3. Fit(VIVS_DE_PATTERN_CONFIG.fields) /\ IsReg(VIVS_DE_PATTERN_CONFIG)
  <2>. DEFINE F == VIVS_DE_PATTERN_CONFIG.fields
  <2>1. Fit(F)
    BY DEF Fit, VIVS_DE_PATTERN_CONFIG, Reg, Mask, WordBits
  <2>2. VIVS_DE_PATTERN_CONFIG = Reg(\h123c, F)
    BY DEF VIVS_DE_PATTERN_CONFIG, Reg
  <2>. HIDE DEF F
  <2>3. Fit(F) /\ IsReg(VIVS_DE_PATTERN_CONFIG)
    BY <2>1, <2>2, RegIs
  <2>. QED BY ONLY <2>3 DEF F
<1>4. Fit(VIVS_DE_ROP.fields) /\ IsReg(VIVS_DE_ROP)
  <2>. DEFINE F == VIVS_DE_ROP.fields
  <2>1. Fit(F)
    BY DEF Fit, VIVS_DE_ROP, Reg, Mask, WordBits
  <2>2. VIVS_DE_ROP = Reg(\h125c, F)
    BY DEF VIVS_DE_ROP, Reg
  <2>. HIDE DEF F
  <2>3. Fit(F) /\ IsReg(VIVS_DE_ROP)
    BY <2>1, <2>2, RegIs
  <2>. QED BY ONLY <2>3 DEF F
<1>5. Fit(VIVS_DE_ALPHA_CONTROL.fields) /\ IsReg(VIVS_DE_ALPHA_CONTROL)
  <2>. DEFINE F == VIVS_DE_ALPHA_CONTROL.fields
  <2>1. Fit(F)
    BY DEF Fit, VIVS_DE_ALPHA_CONTROL, Reg, Mask, WordBits
  <2>2. VIVS_DE_ALPHA_CONTROL = Reg(\h127c, F)
    BY DEF VIVS_DE_ALPHA_CONTROL, Reg
  <2>. HIDE DEF F
  <2>3. Fit(F) /\ IsReg(VIVS_DE_ALPHA_CONTROL)
    BY <2>1, <2>2, RegIs
  <2>. QED BY ONLY <2>3 DEF F
<1>6. Fit(VIVS_DE_ALPHA_MODES.fields) /\ IsReg(VIVS_DE_ALPHA_MODES)
  <2>. DEFINE F == VIVS_DE_ALPHA_MODES.fields
  <2>1. Fit(F)
    BY DEF Fit, VIVS_DE_ALPHA_MODES, Reg, Mask, WordBits
  <2>2. VIVS_DE_ALPHA_MODES = Reg(\h1280, F)
    BY DEF VIVS_DE_ALPHA_MODES, Reg
  <2>. HIDE DEF F
  <2>3. Fit(F) /\ IsReg(VIVS_DE_ALPHA_MODES)
    BY <2>1, <2>2, RegIs
  <2>. QED BY ONLY <2>3 DEF F
<1>7. Fit(VIVS_DE_COLOR_MULTIPLY_MODES.fields) /\ IsReg(VIVS_DE_COLOR_MULTIPLY_MODES)
  <2>. DEFINE F == VIVS_DE_COLOR_MULTIPLY_MODES.fields
  <2>1. Fit(F)
    BY DEF Fit, VIVS_DE_COLOR_MULTIPLY_MODES, Reg, Mask, WordBits
  <2>2. VIVS_DE_COLOR_MULTIPLY_MODES = Reg(\h12d0, F)
    BY DEF VIVS_DE_COLOR_MULTIPLY_MODES, Reg
  <2>. HIDE DEF F
  <2>3. Fit(F) /\ IsReg(VIVS_DE_COLOR_MULTIPLY_MODES)
    BY <2>1, <2>2, RegIs
  <2>. QED BY ONLY <2>3 DEF F
<1>8. Fit(VIVS_DE_DE_MULTI_SOURCE.fields) /\ IsReg(VIVS_DE_DE_MULTI_SOURCE)
  <2>. DEFINE F == VIVS_DE_DE_MULTI_SOURCE.fields
  <2>1. Fit(F)
    BY DEF Fit, VIVS_DE_DE_MULTI_SOURCE, Reg, Mask, WordBits
  <2>2. VIVS_DE_DE_MULTI_SOURCE = Reg(\h1308, F)
    BY DEF VIVS_DE_DE_MULTI_SOURCE, Reg
  <2>. HIDE DEF F
  <2>3. Fit(F) /\ IsReg(VIVS_DE_DE_MULTI_SOURCE)
    BY <2>1, <2>2, RegIs
  <2>. QED BY ONLY <2>3 DEF F
<1>9. Fit(VIVS_GL_FLUSH_CACHE.fields) /\ IsReg(VIVS_GL_FLUSH_CACHE)
  <2>. DEFINE F == VIVS_GL_FLUSH_CACHE.fields
  <2>1. Fit(F)
    BY DEF Fit, VIVS_GL_FLUSH_CACHE, Reg, Mask, WordBits
  <2>2. VIVS_GL_FLUSH_CACHE = Reg(\h380c, F)
    BY DEF VIVS_GL_FLUSH_CACHE, Reg
  <2>. HIDE DEF F
  <2>3. Fit(F) /\ IsReg(VIVS_GL_FLUSH_CACHE)
    BY <2>1, <2>2, RegIs
  <2>. QED BY ONLY <2>3 DEF F
<1>. QED BY ONLY <1>1, <1>2, <1>3, <1>4, <1>5, <1>6, <1>7, <1>8, <1>9, Zenon

-------------------------------------------------------------------------------
\* An operation as the client can describe it.
RectSet == [x : Nat, y : Nat, width : Nat, height : Nat]

\* Every operation that has the fields it must have.
Ops ==
  [cmd : Cmds, srcs : Seq(SurfaceIds), dst : SurfaceIds, src_x : Words, src_y : Words,
   rects : Seq(RectSet), clip : RectSet, blend : Blends \cup {NoBlend}, color : Words,
   rop : {ROP_SRC, ROP_BRUSH}, pat_fill : BOOLEAN, data : Seq(Words), data_pitch : Words]

\* A register written is a piece.
LEMMA StatePiece ==
  ASSUME NEW reg, IsReg(reg), NEW w \in Words
  PROVE  SetState(reg, w) \in Seq(Pieces)
BY SetStateIsPiece DEF IsReg

\* Words.
LEMMA SomeWords ==
  /\ \A n : Bits(n) \in Words
  /\ \A s \in SurfaceIds : GpuAddress[s] \in Words
  /\ {} \in Words /\ All1 \in Words /\ MonoBackground \in Words
<1>1. \A n : Bits(n) \in Words
  BY DEF Bits, Words, WordBits
<1>2. \A s \in SurfaceIds : GpuAddress[s] \in Words
  <2>1. GpuAddress \in [SurfaceIds -> Words]
    BY FrontEndAssumption, Zenon DEF Words
  <2>. QED BY ONLY <2>1
<1>3. {} \in Words /\ All1 \in Words /\ MonoBackground \in Words
  BY DEF Words, All1, MonoBackground, WordBits
<1>. QED BY ONLY <1>1, <1>2, <1>3, Zenon

\* The registers of the destination.
LEMMA DestWritesFit ==
  ASSUME NEW o \in Ops
  PROVE  DestWrites(o) \in Seq(Pieces)
<1>1. SetStateFromBo(VIVS_DE_DEST_ADDRESS, o.dst) \in Seq(Pieces)
  <2>1. o.dst \in SurfaceIds
    BY DEF Ops
  <2>. QED BY ONLY <2>1, ValuesAreRegs, SomeWords, StatePiece, Zenon DEF SetStateFromBo
<1>2. SetState(VIVS_DE_DEST_STRIDE, Bits(surf[o.dst].pitch)) \in Seq(Pieces)
  BY ONLY SizesAreRegs, SomeWords, StatePiece, Zenon
<1>3. SetState(VIVS_DE_DEST_ROTATION_CONFIG, {}) \in Seq(Pieces)
  BY ONLY SizesAreRegs, SomeWords, StatePiece, Zenon
<1>4. Set(VIVS_DE_DEST_CONFIG,
          [FORMAT |-> Bits(FormatOf(o.dst).fmt), SWIZZLE |-> Bits(FormatOf(o.dst).swizzle),
           COMMAND |-> Bits(Command(o.cmd)), TILED |-> {}, MINOR_TILED |-> {}]) \in Seq(Pieces)
  BY ONLY ConfigsFit, SetIsPiece DEF VIVS_DE_DEST_CONFIG, Reg
<1>. QED BY ONLY <1>1, <1>2, <1>3, <1>4, PiecesConcat, Zenon DEF DestWrites

\* The clip rectangle.
LEMMA ClipWritesFit ==
  ASSUME NEW o
  PROVE  ClipWrites(o) \in Seq(Pieces)
<1>1. \A x, y : /\ Set(VIVS_DE_CLIP_TOP_LEFT, [X |-> x, Y |-> y]) \in Seq(Pieces)
               /\ Set(VIVS_DE_CLIP_BOTTOM_RIGHT, [X |-> x, Y |-> y]) \in Seq(Pieces)
  BY ONLY SizesAreRegs, SetIsPiece DEF VIVS_DE_CLIP_TOP_LEFT, VIVS_DE_CLIP_BOTTOM_RIGHT, Reg
<1>. QED BY ONLY <1>1, PiecesConcat, Zenon DEF ClipWrites

\* Concatenations of writes are writes.
LEMMA FlattenPieces ==
  ASSUME NEW s \in Seq(Seq(Pieces))
  PROVE  FlattenSeq(s) \in Seq(Pieces)
<1>1. PICK F : F[Len(s)] = FlattenSeq(s) /\ \A i \in 0 .. Len(s) : F[i] \in Seq(Pieces)
  BY FlattenSteps
<1>2. Len(s) \in 0 .. Len(s)
  BY LenProperties
<1>. QED BY <1>1, <1>2

\* The addresses at which the blocks' registers begin.
BlockBases == {a \in Nat : a < 200000}

\* A block's register is one, for each of the eight blocks.
LEMMA BlockIsReg ==
  ASSUME NEW i \in 0 .. 7, NEW fields, Fit(fields)
  PROVE  \A base \in BlockBases : IsReg(Block8(base, i, fields))
<1>. SUFFICES ASSUME NEW base \in BlockBases PROVE IsReg(Block8(base, i, fields))
  OBVIOUS
<1>. DEFINE at == base + 4 * i
<1>1. at \in Nat /\ at \div 4 \in Nat /\ at \div 4 < 65536
  BY SMT DEF BlockBases
<1>2. IsAt(at)
  BY SMT, <1>1 DEF IsAt, Offsets
<1>3. Block8(base, i, fields) = Reg(at, fields)
  BY DEF Block8
<1>. HIDE DEF at
<1>. QED BY ONLY <1>2, <1>3, Fit(fields) DEF IsReg, Fit, Reg

\* The fields of a block's rotation.
LEMMA AngleFits ==
  Fit([SRC |-> <<0, 2>>, DST |-> <<3, 5>>, SRC_MASK |-> <<8, 8>>, DST_MASK |-> <<9, 9>>,
       SRC_MIRROR |-> <<12, 13>>, SRC_MIRROR_MASK |-> <<15, 15>>,
       DST_MIRROR |-> <<16, 17>>, DST_MIRROR_MASK |-> <<19, 19>>])
BY DEF Fit, Mask, WordBits

\* The registers of each of the eight blocks.
LEMMA BlocksAreRegs ==
  ASSUME NEW i \in 0 .. 7
  PROVE  /\ IsReg(VIVS_DE_BLOCK8_SRC_ADDRESS(i)) /\ IsReg(VIVS_DE_BLOCK8_SRC_STRIDE(i))
         /\ IsReg(VIVS_DE_BLOCK8_SRC_ROTATION_CONFIG(i)) /\ IsReg(VIVS_DE_BLOCK8_SRC_CONFIG(i))
         /\ IsReg(VIVS_DE_BLOCK8_SRC_ORIGIN(i)) /\ IsReg(VIVS_DE_BLOCK8_SRC_SIZE(i))
         /\ IsReg(VIVS_DE_BLOCK8_SRC_COLOR_BG(i)) /\ IsReg(VIVS_DE_BLOCK8_ROP(i))
         /\ IsReg(VIVS_DE_BLOCK8_ALPHA_CONTROL(i)) /\ IsReg(VIVS_DE_BLOCK8_ALPHA_MODES(i))
         /\ IsReg(VIVS_DE_BLOCK8_SRC_ROTATION_HEIGHT(i)) /\ IsReg(VIVS_DE_BLOCK8_ROT_ANGLE(i))
         /\ IsReg(VIVS_DE_BLOCK8_GLOBAL_SRC_COLOR(i))
         /\ IsReg(VIVS_DE_BLOCK8_GLOBAL_DEST_COLOR(i))
         /\ IsReg(VIVS_DE_BLOCK8_COLOR_MULTIPLY_MODES(i))
         /\ IsReg(VIVS_DE_BLOCK8_SRC_COLOR_KEY_HIGH(i))
<1>. DEFINE angle == [SRC |-> <<0, 2>>, DST |-> <<3, 5>>, SRC_MASK |-> <<8, 8>>,
                      DST_MASK |-> <<9, 9>>, SRC_MIRROR |-> <<12, 13>>,
                      SRC_MIRROR_MASK |-> <<15, 15>>, DST_MIRROR |-> <<16, 17>>,
                      DST_MIRROR_MASK |-> <<19, 19>>]
<1>. HIDE DEF angle
<1>0. /\ \h12a00 \in BlockBases /\ \h12a20 \in BlockBases /\ \h12a40 \in BlockBases
      /\ \h12a60 \in BlockBases /\ \h12a80 \in BlockBases /\ \h12aa0 \in BlockBases
      /\ \h12ac0 \in BlockBases /\ \h12ae0 \in BlockBases /\ \h12b00 \in BlockBases
      /\ \h12b20 \in BlockBases /\ \h12bc0 \in BlockBases /\ \h12be0 \in BlockBases
      /\ \h12c00 \in BlockBases /\ \h12c20 \in BlockBases /\ \h12c40 \in BlockBases
      /\ \h12ca0 \in BlockBases
  BY SMT DEF BlockBases
<1>1. IsReg(VIVS_DE_BLOCK8_SRC_ADDRESS(i)) /\ IsReg(VIVS_DE_BLOCK8_SRC_COLOR_BG(i))
      /\ IsReg(VIVS_DE_BLOCK8_GLOBAL_SRC_COLOR(i)) /\ IsReg(VIVS_DE_BLOCK8_GLOBAL_DEST_COLOR(i))
      /\ IsReg(VIVS_DE_BLOCK8_SRC_COLOR_KEY_HIGH(i))
  <2>1. Fit(Value)
    BY ONLY FieldsFit, SMT DEF Value
  <2>2. \A base \in BlockBases : IsReg(Block8(base, i, Value))
    BY ONLY i \in 0 .. 7, <2>1, BlockIsReg, Zenon
  <2>. QED BY ONLY <1>0, <2>2, SMT DEF VIVS_DE_BLOCK8_SRC_ADDRESS, VIVS_DE_BLOCK8_SRC_COLOR_BG,
                 VIVS_DE_BLOCK8_GLOBAL_SRC_COLOR, VIVS_DE_BLOCK8_GLOBAL_DEST_COLOR,
                 VIVS_DE_BLOCK8_SRC_COLOR_KEY_HIGH
<1>2. IsReg(VIVS_DE_BLOCK8_SRC_STRIDE(i))
  <2>1. Fit(Stride)
    BY ONLY FieldsFit, SMT
  <2>2. \A base \in BlockBases : IsReg(Block8(base, i, Stride))
    BY ONLY i \in 0 .. 7, <2>1, BlockIsReg, Zenon
  <2>. QED BY ONLY <1>0, <2>2, SMT DEF VIVS_DE_BLOCK8_SRC_STRIDE
<1>3. IsReg(VIVS_DE_BLOCK8_SRC_ROTATION_CONFIG(i))
  <2>1. Fit(Rotation)
    BY ONLY FieldsFit, SMT
  <2>2. \A base \in BlockBases : IsReg(Block8(base, i, Rotation))
    BY ONLY i \in 0 .. 7, <2>1, BlockIsReg, Zenon
  <2>. QED BY ONLY <1>0, <2>2, SMT DEF VIVS_DE_BLOCK8_SRC_ROTATION_CONFIG
<1>4. IsReg(VIVS_DE_BLOCK8_SRC_ORIGIN(i)) /\ IsReg(VIVS_DE_BLOCK8_SRC_SIZE(i))
  <2>1. Fit(XY)
    BY ONLY FieldsFit, SMT
  <2>2. \A base \in BlockBases : IsReg(Block8(base, i, XY))
    BY ONLY i \in 0 .. 7, <2>1, BlockIsReg, Zenon
  <2>. QED BY ONLY <1>0, <2>2, SMT DEF VIVS_DE_BLOCK8_SRC_ORIGIN, VIVS_DE_BLOCK8_SRC_SIZE
<1>5. IsReg(VIVS_DE_BLOCK8_SRC_ROTATION_HEIGHT(i))
  <2>1. Fit([HEIGHT |-> <<0, 15>>])
    BY ONLY FieldsFit, SMT
  <2>2. \A base \in BlockBases : IsReg(Block8(base, i, [HEIGHT |-> <<0, 15>>]))
    BY ONLY i \in 0 .. 7, <2>1, BlockIsReg, Zenon
  <2>. QED BY ONLY <1>0, <2>2, SMT DEF VIVS_DE_BLOCK8_SRC_ROTATION_HEIGHT
<1>6. IsReg(VIVS_DE_BLOCK8_SRC_CONFIG(i))
  <2>1. Fit(VIVS_DE_SRC_CONFIG.fields)
    BY ONLY ConfigsFit, SMT
  <2>2. \A base \in BlockBases : IsReg(Block8(base, i, VIVS_DE_SRC_CONFIG.fields))
    BY ONLY i \in 0 .. 7, <2>1, BlockIsReg, Zenon
  <2>. QED BY ONLY <1>0, <2>2, SMT DEF VIVS_DE_BLOCK8_SRC_CONFIG
<1>7. IsReg(VIVS_DE_BLOCK8_ROP(i))
  <2>1. Fit(VIVS_DE_ROP.fields)
    BY ONLY ConfigsFit, SMT
  <2>2. \A base \in BlockBases : IsReg(Block8(base, i, VIVS_DE_ROP.fields))
    BY ONLY i \in 0 .. 7, <2>1, BlockIsReg, Zenon
  <2>. QED BY ONLY <1>0, <2>2, SMT DEF VIVS_DE_BLOCK8_ROP
<1>8. IsReg(VIVS_DE_BLOCK8_ALPHA_CONTROL(i))
  <2>1. Fit(VIVS_DE_ALPHA_CONTROL.fields)
    BY ONLY ConfigsFit, SMT
  <2>2. \A base \in BlockBases : IsReg(Block8(base, i, VIVS_DE_ALPHA_CONTROL.fields))
    BY ONLY i \in 0 .. 7, <2>1, BlockIsReg, Zenon
  <2>. QED BY ONLY <1>0, <2>2, SMT DEF VIVS_DE_BLOCK8_ALPHA_CONTROL
<1>9. IsReg(VIVS_DE_BLOCK8_ALPHA_MODES(i))
  <2>1. Fit(VIVS_DE_ALPHA_MODES.fields)
    BY ONLY ConfigsFit, SMT
  <2>2. \A base \in BlockBases : IsReg(Block8(base, i, VIVS_DE_ALPHA_MODES.fields))
    BY ONLY i \in 0 .. 7, <2>1, BlockIsReg, Zenon
  <2>. QED BY ONLY <1>0, <2>2, SMT DEF VIVS_DE_BLOCK8_ALPHA_MODES
<1>10. IsReg(VIVS_DE_BLOCK8_COLOR_MULTIPLY_MODES(i))
  <2>1. Fit(VIVS_DE_COLOR_MULTIPLY_MODES.fields)
    BY ONLY ConfigsFit, SMT
  <2>2. \A base \in BlockBases : IsReg(Block8(base, i, VIVS_DE_COLOR_MULTIPLY_MODES.fields))
    BY ONLY i \in 0 .. 7, <2>1, BlockIsReg, Zenon
  <2>. QED BY ONLY <1>0, <2>2, SMT DEF VIVS_DE_BLOCK8_COLOR_MULTIPLY_MODES
<1>11. IsReg(VIVS_DE_BLOCK8_ROT_ANGLE(i))
  <2>1. Fit(angle)
    BY AngleFits DEF angle
  <2>2. \A base \in BlockBases : IsReg(Block8(base, i, angle))
    BY ONLY i \in 0 .. 7, <2>1, BlockIsReg, Zenon
  <2>. QED BY ONLY <1>0, <2>2, SMT DEF VIVS_DE_BLOCK8_ROT_ANGLE, angle
<1>. QED BY ONLY <1>1, <1>2, <1>3, <1>4, <1>5, <1>6, <1>7, <1>8, <1>9, <1>10, <1>11, Zenon

\* A register whose fields fit is a piece.
LEMMA SetIn ==
  ASSUME NEW reg, IsReg(reg), NEW D, D \subseteq DOMAIN reg.fields
  PROVE  \A v : DOMAIN v = D => Set(reg, v) \in Seq(Pieces)
BY SetIsPiece

\* A round of the loop over the sources of a multi-source blit.
LEMMA BlockWritesFit ==
  ASSUME NEW o \in Ops, NEW s \in SurfaceIds, NEW i \in 0 .. 7
  PROVE  BlockWrites(o, s, i) \in Seq(Pieces)
<1>1. SetStateFromBo(VIVS_DE_BLOCK8_SRC_ADDRESS(i), s)
      \o SetState(VIVS_DE_BLOCK8_SRC_STRIDE(i), Bits(surf[s].pitch)) \in Seq(Pieces)
  BY ONLY s \in SurfaceIds, i \in 0 .. 7, BlocksAreRegs, SomeWords, StatePiece, PiecesConcat, Zenon
     DEF SetStateFromBo
<1>2. /\ \A x : Set(VIVS_DE_BLOCK8_SRC_ROTATION_CONFIG(i), [WIDTH |-> x]) \in Seq(Pieces)
      /\ \A x : Set(VIVS_DE_BLOCK8_SRC_ROTATION_HEIGHT(i), [HEIGHT |-> x]) \in Seq(Pieces)
      /\ \A x, y : Set(VIVS_DE_BLOCK8_SRC_ORIGIN(i), [X |-> x, Y |-> y]) \in Seq(Pieces)
      /\ Set(VIVS_DE_BLOCK8_SRC_SIZE(i), SizeOf(s)) \in Seq(Pieces)
      /\ Set(VIVS_DE_BLOCK8_ROT_ANGLE(i), [SRC |-> {}, DST |-> {}]) \in Seq(Pieces)
  <2>1a. {"WIDTH"} \subseteq DOMAIN VIVS_DE_BLOCK8_SRC_ROTATION_CONFIG(i).fields
    BY ONLY TRUE, SMT DEF VIVS_DE_BLOCK8_SRC_ROTATION_CONFIG, Block8, Reg, Rotation
  <2>1. \A v : DOMAIN v = {"WIDTH"} => Set(VIVS_DE_BLOCK8_SRC_ROTATION_CONFIG(i), v) \in Seq(Pieces)
    BY ONLY i \in 0 .. 7, <2>1a, BlocksAreRegs, SetIn, Zenon
  <2>2a. {"HEIGHT"} \subseteq DOMAIN VIVS_DE_BLOCK8_SRC_ROTATION_HEIGHT(i).fields
    BY ONLY TRUE, SMT DEF VIVS_DE_BLOCK8_SRC_ROTATION_HEIGHT, Block8, Reg
  <2>2. \A v : DOMAIN v = {"HEIGHT"} => Set(VIVS_DE_BLOCK8_SRC_ROTATION_HEIGHT(i), v) \in Seq(Pieces)
    BY ONLY i \in 0 .. 7, <2>2a, BlocksAreRegs, SetIn, Zenon
  <2>3a. {"X", "Y"} \subseteq DOMAIN VIVS_DE_BLOCK8_SRC_ORIGIN(i).fields
    BY ONLY TRUE, SMT DEF VIVS_DE_BLOCK8_SRC_ORIGIN, Block8, Reg, XY
  <2>3. \A v : DOMAIN v = {"X", "Y"} => Set(VIVS_DE_BLOCK8_SRC_ORIGIN(i), v) \in Seq(Pieces)
    BY ONLY i \in 0 .. 7, <2>3a, BlocksAreRegs, SetIn, Zenon
  <2>4a. {"X", "Y"} \subseteq DOMAIN VIVS_DE_BLOCK8_SRC_SIZE(i).fields
    BY ONLY TRUE, SMT DEF VIVS_DE_BLOCK8_SRC_SIZE, Block8, Reg, XY
  <2>4. \A v : DOMAIN v = {"X", "Y"} => Set(VIVS_DE_BLOCK8_SRC_SIZE(i), v) \in Seq(Pieces)
    BY ONLY i \in 0 .. 7, <2>4a, BlocksAreRegs, SetIn, Zenon
  <2>5a. {"SRC", "DST"} \subseteq DOMAIN VIVS_DE_BLOCK8_ROT_ANGLE(i).fields
    BY ONLY TRUE, SMT DEF VIVS_DE_BLOCK8_ROT_ANGLE, Block8, Reg
  <2>5. \A v : DOMAIN v = {"SRC", "DST"} => Set(VIVS_DE_BLOCK8_ROT_ANGLE(i), v) \in Seq(Pieces)
    BY ONLY i \in 0 .. 7, <2>5a, BlocksAreRegs, SetIn, Zenon
  <2>. QED BY ONLY <2>1, <2>2, <2>3, <2>4, <2>5, SMT DEF SizeOf
<1>3. /\ Set(VIVS_DE_BLOCK8_SRC_CONFIG(i), SourceConfig(s)) \in Seq(Pieces)
      /\ \A x, y, z : Set(VIVS_DE_BLOCK8_ROP(i),
             [ROP_FG |-> x, ROP_BG |-> y, TYPE |-> z]) \in Seq(Pieces)
  <2>1a. VIVS_DE_BLOCK8_SRC_CONFIG(i).fields = VIVS_DE_SRC_CONFIG.fields
    BY ONLY TRUE, SMT DEF VIVS_DE_BLOCK8_SRC_CONFIG, Block8, Reg
  <2>1b. {"SOURCE_FORMAT", "SWIZZLE", "LOCATION", "PE10_SOURCE_FORMAT"} \subseteq DOMAIN VIVS_DE_SRC_CONFIG.fields
    BY ONLY TRUE, SMT DEF VIVS_DE_SRC_CONFIG, Reg
  <2>1. \A v : DOMAIN v = {"SOURCE_FORMAT", "SWIZZLE", "LOCATION", "PE10_SOURCE_FORMAT"} => Set(VIVS_DE_BLOCK8_SRC_CONFIG(i), v) \in Seq(Pieces)
    BY ONLY i \in 0 .. 7, <2>1a, <2>1b, BlocksAreRegs, SetIn, Zenon
  <2>2a. VIVS_DE_BLOCK8_ROP(i).fields = VIVS_DE_ROP.fields
    BY ONLY TRUE, SMT DEF VIVS_DE_BLOCK8_ROP, Block8, Reg
  <2>2b. {"ROP_FG", "ROP_BG", "TYPE"} \subseteq DOMAIN VIVS_DE_ROP.fields
    BY ONLY TRUE, SMT DEF VIVS_DE_ROP, Reg
  <2>2. \A v : DOMAIN v = {"ROP_FG", "ROP_BG", "TYPE"} => Set(VIVS_DE_BLOCK8_ROP(i), v) \in Seq(Pieces)
    BY ONLY i \in 0 .. 7, <2>2a, <2>2b, BlocksAreRegs, SetIn, Zenon
  <2>. QED BY ONLY <2>1, <2>2, SMT DEF SourceConfig
<1>4. /\ \A x, y, z : Set(VIVS_DE_BLOCK8_ALPHA_CONTROL(i),
             [ENABLE |-> x, PE10_GLOBAL_SRC_ALPHA |-> y, PE10_GLOBAL_DST_ALPHA |-> z]) \in Seq(Pieces)
      /\ \A x, y : Set(VIVS_DE_BLOCK8_ALPHA_MODES(i),
             [SRC_BLENDING_MODE |-> x, DST_BLENDING_MODE |-> y]) \in Seq(Pieces)
  <2>1a. VIVS_DE_BLOCK8_ALPHA_CONTROL(i).fields = VIVS_DE_ALPHA_CONTROL.fields
    BY ONLY TRUE, SMT DEF VIVS_DE_BLOCK8_ALPHA_CONTROL, Block8, Reg
  <2>1b. {"ENABLE", "PE10_GLOBAL_SRC_ALPHA", "PE10_GLOBAL_DST_ALPHA"} \subseteq DOMAIN VIVS_DE_ALPHA_CONTROL.fields
    BY ONLY TRUE, SMT DEF VIVS_DE_ALPHA_CONTROL, Reg
  <2>1. \A v : DOMAIN v = {"ENABLE", "PE10_GLOBAL_SRC_ALPHA", "PE10_GLOBAL_DST_ALPHA"} => Set(VIVS_DE_BLOCK8_ALPHA_CONTROL(i), v) \in Seq(Pieces)
    BY ONLY i \in 0 .. 7, <2>1a, <2>1b, BlocksAreRegs, SetIn, Zenon
  <2>2a. VIVS_DE_BLOCK8_ALPHA_MODES(i).fields = VIVS_DE_ALPHA_MODES.fields
    BY ONLY TRUE, SMT DEF VIVS_DE_BLOCK8_ALPHA_MODES, Block8, Reg
  <2>2b. {"SRC_BLENDING_MODE", "DST_BLENDING_MODE"} \subseteq DOMAIN VIVS_DE_ALPHA_MODES.fields
    BY ONLY TRUE, SMT DEF VIVS_DE_ALPHA_MODES, Reg
  <2>2. \A v : DOMAIN v = {"SRC_BLENDING_MODE", "DST_BLENDING_MODE"} => Set(VIVS_DE_BLOCK8_ALPHA_MODES(i), v) \in Seq(Pieces)
    BY ONLY i \in 0 .. 7, <2>2a, <2>2b, BlocksAreRegs, SetIn, Zenon
  <2>. QED BY ONLY <2>1, <2>2, SMT
<1>5. /\ SetState(VIVS_DE_BLOCK8_SRC_COLOR_BG(i), All1) \in Seq(Pieces)
      /\ SetState(VIVS_DE_BLOCK8_SRC_COLOR_KEY_HIGH(i), All1) \in Seq(Pieces)
  BY ONLY i \in 0 .. 7, BlocksAreRegs, SomeWords, StatePiece, Zenon
<1>6. Zero(<<VIVS_DE_BLOCK8_ALPHA_CONTROL(i), VIVS_DE_BLOCK8_ALPHA_MODES(i)>>) \in Seq(Pieces)
  <2>. DEFINE regs == <<VIVS_DE_BLOCK8_ALPHA_CONTROL(i), VIVS_DE_BLOCK8_ALPHA_MODES(i)>>
  <2>1. DOMAIN regs = 1 .. 2 /\ Len(regs) = 2 /\ \A j \in 1 .. 2 : IsAt(regs[j].at)
    BY BlocksAreRegs DEF IsReg
  <2>. QED BY <2>1, ZeroIsPieces
<1>7. Zero(<<VIVS_DE_BLOCK8_GLOBAL_SRC_COLOR(i), VIVS_DE_BLOCK8_GLOBAL_DEST_COLOR(i),
             VIVS_DE_BLOCK8_COLOR_MULTIPLY_MODES(i)>>) \in Seq(Pieces)
  <2>. DEFINE regs == <<VIVS_DE_BLOCK8_GLOBAL_SRC_COLOR(i), VIVS_DE_BLOCK8_GLOBAL_DEST_COLOR(i),
                        VIVS_DE_BLOCK8_COLOR_MULTIPLY_MODES(i)>>
  <2>1. DOMAIN regs = 1 .. 3 /\ Len(regs) = 3 /\ \A j \in 1 .. 3 : IsAt(regs[j].at)
    BY BlocksAreRegs DEF IsReg
  <2>. QED BY <2>1, ZeroIsPieces
<1>. QED BY ONLY <1>1, <1>2, <1>3, <1>4, <1>5, <1>6, <1>7, PiecesConcat, ZenonT(60) DEF BlockWrites

\* The registers of every block that have fields, and those of the source.
LEMMA SomeSets ==
  /\ \A v : DOMAIN v = {"MAX_SOURCE", "VERTICAL_BLOCK", "HORIZONTAL_BLOCK"} =>
       Set(VIVS_DE_DE_MULTI_SOURCE, v) \in Seq(Pieces)
  /\ \A v : DOMAIN v = {"SOURCE_FORMAT", "SWIZZLE", "LOCATION", "PE10_SOURCE_FORMAT"} =>
       Set(VIVS_DE_SRC_CONFIG, v) \in Seq(Pieces)
  /\ \A v : DOMAIN v = {"UNK16", "SOURCE_FORMAT", "LOCATION", "PACK", "PE10_SOURCE_FORMAT"} =>
       Set(VIVS_DE_SRC_CONFIG, v) \in Seq(Pieces)
  /\ \A v : DOMAIN v = {"X", "Y"} =>
       Set(VIVS_DE_SRC_ORIGIN, v) \in Seq(Pieces) /\ Set(VIVS_DE_SRC_SIZE, v) \in Seq(Pieces)
  /\ \A v : DOMAIN v = {"X"} => Set(VIVS_DE_STRETCH_FACTOR_LOW, v) \in Seq(Pieces)
  /\ \A v : DOMAIN v = {"Y"} => Set(VIVS_DE_STRETCH_FACTOR_HIGH, v) \in Seq(Pieces)
  /\ \A v : DOMAIN v = {"INIT_TRIGGER"} => Set(VIVS_DE_PATTERN_CONFIG, v) \in Seq(Pieces)
  /\ \A v : DOMAIN v = {"ROP_FG", "ROP_BG", "TYPE"} => Set(VIVS_DE_ROP, v) \in Seq(Pieces)
  /\ \A v : DOMAIN v = {"PE2D"} => Set(VIVS_GL_FLUSH_CACHE, v) \in Seq(Pieces)
<1>1. {"MAX_SOURCE", "VERTICAL_BLOCK", "HORIZONTAL_BLOCK"}
        \subseteq DOMAIN VIVS_DE_DE_MULTI_SOURCE.fields
  BY SMT DEF VIVS_DE_DE_MULTI_SOURCE, Reg
<1>2. /\ {"SOURCE_FORMAT", "SWIZZLE", "LOCATION", "PE10_SOURCE_FORMAT"}
           \subseteq DOMAIN VIVS_DE_SRC_CONFIG.fields
      /\ {"UNK16", "SOURCE_FORMAT", "LOCATION", "PACK", "PE10_SOURCE_FORMAT"}
           \subseteq DOMAIN VIVS_DE_SRC_CONFIG.fields
  BY SMT DEF VIVS_DE_SRC_CONFIG, Reg
<1>3. /\ {"X", "Y"} \subseteq DOMAIN VIVS_DE_SRC_ORIGIN.fields
      /\ {"X", "Y"} \subseteq DOMAIN VIVS_DE_SRC_SIZE.fields
      /\ {"X"} \subseteq DOMAIN VIVS_DE_STRETCH_FACTOR_LOW.fields
      /\ {"Y"} \subseteq DOMAIN VIVS_DE_STRETCH_FACTOR_HIGH.fields
  BY SMT DEF VIVS_DE_SRC_ORIGIN, VIVS_DE_SRC_SIZE, VIVS_DE_STRETCH_FACTOR_LOW,
             VIVS_DE_STRETCH_FACTOR_HIGH, XY, Reg
<1>4. {"INIT_TRIGGER"} \subseteq DOMAIN VIVS_DE_PATTERN_CONFIG.fields
  BY SMT DEF VIVS_DE_PATTERN_CONFIG, Reg
<1>5. {"ROP_FG", "ROP_BG", "TYPE"} \subseteq DOMAIN VIVS_DE_ROP.fields
  BY SMT DEF VIVS_DE_ROP, Reg
<1>6. {"PE2D"} \subseteq DOMAIN VIVS_GL_FLUSH_CACHE.fields
  BY SMT DEF VIVS_GL_FLUSH_CACHE, Reg
<1>. QED BY ONLY <1>1, <1>2, <1>3, <1>4, <1>5, <1>6, ConfigsFit, SizesAreRegs, SetIn, Zenon

\* The sources of a multi-source blit, up to eight of them.
LEMMA MultiSourceWritesFit ==
  ASSUME NEW o \in Ops, Len(o.srcs) <= 8
  PROVE  MultiSourceWrites(o) \in Seq(Pieces)
<1>. PICK n \in Nat : n = Len(o.srcs) /\ n <= 8
  BY DEF Ops
<1>1. \A i \in 1 .. n : o.srcs[i] \in SurfaceIds /\ i - 1 \in 0 .. 7
  BY DEF Ops
<1>. DEFINE blocks == [i \in 1 .. n |-> BlockWrites(o, o.srcs[i], i - 1)]
<1>2. \A i \in 1 .. n : BlockWrites(o, o.srcs[i], i - 1) \in Seq(Pieces)
  BY ONLY o \in Ops, <1>1, BlockWritesFit, Zenon
<1>3. blocks \in Seq(Seq(Pieces))
  BY ONLY <1>2, n \in Nat
<1>. HIDE DEF blocks
<1>4. FlattenSeq(blocks) \in Seq(Pieces)
  BY ONLY <1>3, FlattenPieces, Zenon
<1>5. \A x, y, z : Set(VIVS_DE_DE_MULTI_SOURCE,
                       [MAX_SOURCE |-> x, VERTICAL_BLOCK |-> y, HORIZONTAL_BLOCK |-> z])
                     \in Seq(Pieces)
  BY ONLY SomeSets, SMT
<1>. QED BY ONLY <1>4, <1>5, n = Len(o.srcs), PiecesConcat, Zenon DEF MultiSourceWrites, blocks

\* The source of the other blits.
LEMMA SourceWritesFit ==
  ASSUME NEW o \in Ops, o.srcs # <<>>
  PROVE  SourceWrites(o) \in Seq(Pieces)
<1>. PICK s \in SurfaceIds : s = o.srcs[1]
  BY DEF Ops
<1>1. SetStateFromBo(VIVS_DE_SRC_ADDRESS, s) \in Seq(Pieces)
  BY ONLY s \in SurfaceIds, ValuesAreRegs, SomeWords, StatePiece, Zenon DEF SetStateFromBo
<1>2. /\ SetState(VIVS_DE_SRC_STRIDE, Bits(surf[s].pitch)) \in Seq(Pieces)
      /\ SetState(VIVS_DE_SRC_ROTATION_CONFIG, {}) \in Seq(Pieces)
  BY ONLY SizesAreRegs, SomeWords, StatePiece, Zenon
<1>3. Set(VIVS_DE_SRC_CONFIG, SourceConfig(s)) \in Seq(Pieces)
  BY ONLY SomeSets, SMT DEF SourceConfig
<1>4. /\ \A x, y : Set(VIVS_DE_SRC_ORIGIN, [X |-> x, Y |-> y]) \in Seq(Pieces)
      /\ Set(VIVS_DE_SRC_SIZE, SizeOf(s)) \in Seq(Pieces)
  BY ONLY SomeSets, SMT DEF SizeOf
<1>. QED BY ONLY s = o.srcs[1], <1>1, <1>2, <1>3, <1>4, PiecesConcat, Zenon DEF SourceWrites

\* Zeros in two registers.
LEMMA ZeroTwo ==
  ASSUME NEW a, NEW b, IsReg(a), IsReg(b)
  PROVE  Zero(<<a, b>>) \in Seq(Pieces)
<1>. DEFINE regs == <<a, b>>
<1>1. DOMAIN regs = 1 .. 2 /\ Len(regs) = 2 /\ \A i \in 1 .. 2 : IsAt(regs[i].at)
  BY DEF IsReg
<1>. QED BY <1>1, ZeroIsPieces

\* Zeros in five.
LEMMA ZeroFive ==
  ASSUME NEW a, NEW b, NEW c, NEW d, NEW e, IsReg(a), IsReg(b), IsReg(c), IsReg(d), IsReg(e)
  PROVE  Zero(<<a, b, c, d, e>>) \in Seq(Pieces)
<1>. DEFINE regs == <<a, b, c, d, e>>
<1>1. DOMAIN regs = 1 .. 5 /\ Len(regs) = 5 /\ \A i \in 1 .. 5 : IsAt(regs[i].at)
  BY DEF IsReg
<1>. QED BY <1>1, ZeroIsPieces

\* An operation without a source.
LEMMA NoSourceWritesFit ==
  ASSUME NEW o \in Ops
  PROVE  NoSourceWrites(o) \in Seq(Pieces)
<1>. DEFINE mono == o.cmd = "mono_blit"
            config == [UNK16 |-> {0}, SOURCE_FORMAT |-> Bits(DE_FORMAT.MONOCHROME),
                       LOCATION |-> Bits(LOCATION.STREAM), PACK |-> {},
                       PE10_SOURCE_FORMAT |-> Bits(DE_FORMAT.MONOCHROME)]
            colors == SetState(VIVS_DE_SRC_COLOR_BG, MonoBackground)
                      \o SetState(VIVS_DE_SRC_COLOR_FG, All1)
<1>1. SetState(VIVS_DE_SRC_STRIDE, IF mono THEN o.data_pitch ELSE {}) \in Seq(Pieces)
  <2>1. o.data_pitch \in Words
    BY DEF Ops
  <2>2. (IF mono THEN o.data_pitch ELSE {}) \in Words
    BY ONLY <2>1, SomeWords, Zenon
  <2>. QED BY ONLY <2>2, SizesAreRegs, StatePiece, Zenon
<1>2. SetState(VIVS_DE_SRC_ROTATION_CONFIG, {}) \in Seq(Pieces)
  BY ONLY SizesAreRegs, SomeWords, StatePiece, Zenon
<1>3. Set(VIVS_DE_SRC_CONFIG, config) \in Seq(Pieces)
  BY ONLY SomeSets, SMT
<1>4. SetState(VIVS_DE_SRC_CONFIG, {}) \in Seq(Pieces)
  BY ONLY ConfigsFit, SomeWords, StatePiece, Zenon
<1>5. Zero(<<VIVS_DE_SRC_ORIGIN, VIVS_DE_SRC_SIZE>>) \in Seq(Pieces)
  BY ONLY SizesAreRegs, ZeroTwo, Zenon
<1>6. When(mono, colors) \in Seq(Pieces)
  <2>1. colors \in Seq(Pieces)
    BY ONLY ValuesAreRegs, SomeWords, StatePiece, PiecesConcat, Zenon
  <2>. HIDE DEF colors
  <2>2. mono \in BOOLEAN
    OBVIOUS
  <2>. QED BY ONLY <2>1, <2>2, WhenIsPieces, Zenon
<1>. HIDE DEF config, colors
<1>7. (IF mono THEN Set(VIVS_DE_SRC_CONFIG, config) ELSE SetState(VIVS_DE_SRC_CONFIG, {}))
        \in Seq(Pieces)
  BY ONLY <1>3, <1>4, Zenon
<1>. QED BY ONLY <1>1, <1>2, <1>5, <1>6, <1>7, PiecesConcat, Zenon
         DEF NoSourceWrites, config, colors

\* The steps of a stretch.
LEMMA StretchWritesFit ==
  ASSUME NEW o
  PROVE  StretchWrites(o) \in Seq(Pieces)
<1>1. /\ \A x : Set(VIVS_DE_STRETCH_FACTOR_LOW, [X |-> x]) \in Seq(Pieces)
      /\ \A y : Set(VIVS_DE_STRETCH_FACTOR_HIGH, [Y |-> y]) \in Seq(Pieces)
  BY ONLY SomeSets, SMT
<1>. QED BY ONLY <1>1, PiecesConcat, Zenon DEF StretchWrites

\* The pattern.
LEMMA PatternWritesFit ==
  ASSUME NEW o \in Ops
  PROVE  PatternWrites(o) \in Seq(Pieces)
<1>1. o.color \in Words
  BY DEF Ops
<1>2. \A x : Set(VIVS_DE_PATTERN_CONFIG, [INIT_TRIGGER |-> x]) \in Seq(Pieces)
  BY ONLY SomeSets, SMT
<1>. QED BY ONLY <1>1, <1>2, ValuesAreRegs, SomeWords, StatePiece, PiecesConcat, Zenon
         DEF PatternWrites

\* The raster operations.
LEMMA RopWritesFit ==
  ASSUME NEW o
  PROVE  RopWrites(o) \in Seq(Pieces)
<1>1. \A x, y, z : Set(VIVS_DE_ROP, [ROP_FG |-> x, ROP_BG |-> y, TYPE |-> z]) \in Seq(Pieces)
  BY ONLY SomeSets, SMT
<1>. QED BY ONLY <1>1, Zenon DEF RopWrites

\* The color of a clear.
LEMMA ClearWritesFit ==
  ASSUME NEW o \in Ops
  PROVE  ClearWrites(o) \in Seq(Pieces)
<1>1. o.color \in Words
  BY DEF Ops
<1>. QED BY ONLY <1>1, ValuesAreRegs, SomeWords, StatePiece, PiecesConcat, Zenon DEF ClearWrites

\* The alphas of a blend are bytes.
LEMMA AlphasAreBytes == \A b \in Blends : b.src_alpha \in 0 .. 255 /\ b.dst_alpha \in 0 .. 255
BY FrontEndAssumption, Zenon

\* The blending.
LEMMA AlphaWritesFit ==
  ASSUME NEW o \in Ops
  PROVE  AlphaWrites(o) \in Seq(Pieces)
<1>1. \A x, y, z : Set(VIVS_DE_ALPHA_CONTROL,
                       [ENABLE |-> x, PE10_GLOBAL_SRC_ALPHA |-> y, PE10_GLOBAL_DST_ALPHA |-> z])
                     \in Seq(Pieces)
  <2>1. {"ENABLE", "PE10_GLOBAL_SRC_ALPHA", "PE10_GLOBAL_DST_ALPHA"}
          \subseteq DOMAIN VIVS_DE_ALPHA_CONTROL.fields
    BY SMT DEF VIVS_DE_ALPHA_CONTROL, Reg
  <2>2. \A v : DOMAIN v = {"ENABLE", "PE10_GLOBAL_SRC_ALPHA", "PE10_GLOBAL_DST_ALPHA"} =>
          Set(VIVS_DE_ALPHA_CONTROL, v) \in Seq(Pieces)
    BY ONLY <2>1, ConfigsFit, SetIn, Zenon
  <2>. QED BY ONLY <2>2, SMT
<1>2. \A x, y, z, w : Set(VIVS_DE_ALPHA_MODES,
                          [GLOBAL_SRC_ALPHA_MODE |-> x, GLOBAL_DST_ALPHA_MODE |-> y,
                           SRC_BLENDING_MODE |-> z, DST_BLENDING_MODE |-> w]) \in Seq(Pieces)
  <2>. DEFINE D == {"GLOBAL_SRC_ALPHA_MODE", "GLOBAL_DST_ALPHA_MODE", "SRC_BLENDING_MODE",
                    "DST_BLENDING_MODE"}
  <2>1. D \subseteq DOMAIN VIVS_DE_ALPHA_MODES.fields
    BY SMT DEF VIVS_DE_ALPHA_MODES, Reg
  <2>2. \A v : DOMAIN v = D => Set(VIVS_DE_ALPHA_MODES, v) \in Seq(Pieces)
    BY ONLY <2>1, ConfigsFit, SetIn, Zenon
  <2>. QED BY ONLY <2>2, SMT
<1>3. \A x, y, z, w : Set(VIVS_DE_COLOR_MULTIPLY_MODES,
                          [SRC_PREMULTIPLY |-> x, DST_PREMULTIPLY |-> y,
                           SRC_GLOBAL_PREMULTIPLY |-> z, DST_DEMULTIPLY |-> w]) \in Seq(Pieces)
  <2>. DEFINE D == {"SRC_PREMULTIPLY", "DST_PREMULTIPLY", "SRC_GLOBAL_PREMULTIPLY",
                    "DST_DEMULTIPLY"}
  <2>1. D \subseteq DOMAIN VIVS_DE_COLOR_MULTIPLY_MODES.fields
    BY SMT DEF VIVS_DE_COLOR_MULTIPLY_MODES, Reg
  <2>2. \A v : DOMAIN v = D => Set(VIVS_DE_COLOR_MULTIPLY_MODES, v) \in Seq(Pieces)
    BY ONLY <2>1, ConfigsFit, SetIn, Zenon
  <2>. QED BY ONLY <2>2, SMT
<1>4. ASSUME NEW a \in 0 .. 255 PROVE Color24(a) \in Words
  <2>1. Bits(a) \subseteq 0 .. 7
    <3>1. Power(8) = 256
      BY DEF Power
    <3>2. a < Power(8) /\ 8 \in 0 .. 30 /\ a \in Nat /\ 8 - 1 = 7
      BY <3>1
    <3>. QED BY <3>2, SmallBits
  <2>2. \A b \in 0 .. 7 : b + 24 \in 0 .. 31
    OBVIOUS
  <2>. QED BY ONLY <2>1, <2>2 DEF Color24, Words, WordBits
<1>5. ASSUME NEW b \in Blends PROVE BlendWrites(b) \in Seq(Pieces)
  <2>1. b.src_alpha \in 0 .. 255 /\ b.dst_alpha \in 0 .. 255
    BY ONLY b \in Blends, AlphasAreBytes, Zenon
  <2>2. Color24(b.src_alpha) \in Words /\ Color24(b.dst_alpha) \in Words
    BY ONLY <1>4, <2>1, Zenon
  <2>. QED BY ONLY <1>1, <1>2, <1>3, <2>2, ValuesAreRegs, StatePiece, PiecesConcat, Zenon
           DEF BlendWrites
<1>6. Zero(<<VIVS_DE_ALPHA_CONTROL, VIVS_DE_ALPHA_MODES, VIVS_DE_GLOBAL_SRC_COLOR,
             VIVS_DE_GLOBAL_DEST_COLOR, VIVS_DE_COLOR_MULTIPLY_MODES>>) \in Seq(Pieces)
  BY ONLY ValuesAreRegs, ConfigsFit, ZeroFive, Zenon
<1>7. o.blend \in Blends \cup {NoBlend}
  BY DEF Ops
<1>. QED BY ONLY <1>5, <1>6, <1>7, Zenon DEF AlphaWrites

-------------------------------------------------------------------------------
\* The corners of rectangles, one behind the other.
LEMMA PairsFlat ==
  ASSUME NEW s \in Seq(Seq(Words)), \A i \in 1 .. Len(s) : Len(s[i]) = 2
  PROVE  FlattenSeq(s) \in Seq(Words) /\ Len(FlattenSeq(s)) = 2 * Len(s)
<1>. DEFINE L == Len(s)
<1>0. L \in Nat /\ \A i \in 1 .. L : s[i] \in Seq(Words) /\ Len(s[i]) = 2
  OBVIOUS
<1>1. PICK F : /\ F[0] = <<>> /\ F[L] = FlattenSeq(s)
               /\ \A i \in 0 .. L : F[i] \in Seq(Words)
               /\ \A i \in 1 .. L : F[i] = F[i - 1] \o s[i]
  BY FlattenSteps
<1>. HIDE DEF L
<1>. DEFINE T == {i \in Nat : i <= L => Len(F[i]) = 2 * i}
<1>2. 0 \in T
  BY <1>1
<1>3. ASSUME NEW i \in Nat, i \in T PROVE i + 1 \in T
  <2>. SUFFICES ASSUME i + 1 <= L PROVE Len(F[i + 1]) = 2 * (i + 1)
    OBVIOUS
  <2>1. /\ F[i] \in Seq(Words) /\ Len(F[i]) = 2 * i
        /\ s[i + 1] \in Seq(Words) /\ Len(s[i + 1]) = 2 /\ F[i + 1] = F[i] \o s[i + 1]
    <3>1. i + 1 \in 1 .. L /\ i \in 0 .. L /\ (i + 1) - 1 = i /\ i <= L
      BY <1>0
    <3>2. Len(F[i]) = 2 * i
      BY <1>3, <3>1
    <3>3. F[i + 1] = F[(i + 1) - 1] \o s[i + 1]
      BY ONLY <1>1, <3>1, Zenon
    <3>. QED BY ONLY <1>0, <1>1, <3>1, <3>2, <3>3
  <2>2. Len(F[i] \o s[i + 1]) = Len(F[i]) + Len(s[i + 1])
    BY ONLY <2>1, ConcatProperties
  <2>. QED BY ONLY <2>1, <2>2, i \in Nat
<1>. HIDE DEF T
<1>4. L \in T /\ L \in 0 .. L
  BY <1>0, <1>2, <1>3, Induct
<1>5. Len(F[L]) = 2 * L
  BY <1>0, <1>4 DEF T
<1>. QED BY ONLY <1>1, <1>4, <1>5, Zenon DEF L

\* Rectangles and data that a draw can hold.
Draws(o) ==
  Len(o.rects) \in Nat \ {0} /\ Len(o.rects) <= 255 /\ Len(o.data) <= 2047

\* A rectangle is two words.
LEMMA RectWordsFit ==
  ASSUME NEW r
  PROVE  RectWords(r) \in Seq(Words) /\ Len(RectWords(r)) = 2
<1>1. \A v : DOMAIN v = {"X", "Y"} => Pack(XY, v) \in Words
  <2>1. \A v : DOMAIN v = {"X", "Y"} => \A n \in DOMAIN v : Mask(XY[n]) \subseteq WordBits
    BY FieldsFit DEF Fit, XY
  <2>. QED BY ONLY <2>1, PackIsWord, Zenon
<1>2. \A x, y : Pack(XY, [X |-> x, Y |-> y]) \in Words
  BY ONLY <1>1, SMT
<1>3. VIV_FE_DRAW_2D_TOP_LEFT = XY /\ VIV_FE_DRAW_2D_BOTTOM_RIGHT = XY
  BY DEF VIV_FE_DRAW_2D_TOP_LEFT, VIV_FE_DRAW_2D_BOTTOM_RIGHT, XY
<1>. QED BY ONLY <1>2, <1>3 DEF RectWords

\* The draw, its rectangles and its data are whole.
LEMMA DrawWritesFit ==
  ASSUME NEW o \in Ops, Draws(o), Stale \in Words
  PROVE  DrawWrites(o) \in Seq(Pieces)
<1>. DEFINE n == Len(o.rects)
            s == [i \in 1 .. n |-> RectWords(o.rects[i])]
            c == FlattenSeq(s)
            u == EtnaAlign(EtnaAlign(<<DrawWord(n, Len(o.data)), {}>> \o c) \o o.data)
<1>1. n \in Nat \ {0} /\ n <= 255 /\ o.data \in Seq(Words) /\ Len(o.data) <= 2047
  <2>1. o.data \in Seq(Words)
    BY DEF Ops
  <2>2. n \in Nat \ {0} /\ n <= 255 /\ Len(o.data) <= 2047
    BY ONLY Draws(o), SMT DEF Draws
  <2>. QED BY ONLY <2>1, <2>2, SMT
<1>2. s \in Seq(Seq(Words)) /\ Len(s) = n /\ \A i \in 1 .. n : Len(s[i]) = 2
  BY <1>1, RectWordsFit
<1>. HIDE DEF s, n
<1>3. c \in Seq(Words) /\ Len(c) = 2 * n
  BY <1>2, PairsFlat
<1>. HIDE DEF c, u
<1>4. IsDraw(n, c, o.data, u)
  BY <1>1, <1>3 DEF IsDraw, u
<1>5. \A f : Ready(f) => u \in Seq(Words) /\ Len(u) % 2 = 0 /\ Ready(Fetch(f, u))
  BY ONLY <1>4, DrawIsTaken, Zenon
<1>6. Ready(PowerOn)
  BY DEF Ready, PowerOn, FeFields, IsRegs
<1>7. u \in Pieces
  BY ONLY <1>5, <1>6, Zenon DEF Pieces
<1>8. DrawWrites(o) = <<u>>
  BY DEF DrawWrites, DrawHeader, DrawWord, u, c, s, n
<1>. QED BY ONLY <1>7, <1>8

\* All that viv2d_op_exec writes.
LEMMA ProgramFits ==
  ASSUME NEW o \in Ops, Draws(o), Len(o.srcs) <= 8, Stale \in Words
  PROVE  Program(o) \in Seq(Pieces)
<1>. DEFINE multi == o.cmd = "multsrcblt"
<1>1. DestWrites(o) \in Seq(Pieces) /\ ClipWrites(o) \in Seq(Pieces)
  BY DestWritesFit, ClipWritesFit
<1>2. (IF multi THEN MultiSourceWrites(o)
       ELSE IF o.srcs # <<>> THEN SourceWrites(o) ELSE NoSourceWrites(o)) \in Seq(Pieces)
  <2>1. MultiSourceWrites(o) \in Seq(Pieces)
    BY MultiSourceWritesFit
  <2>2. o.srcs # <<>> => SourceWrites(o) \in Seq(Pieces)
    BY SourceWritesFit
  <2>3. NoSourceWrites(o) \in Seq(Pieces)
    BY NoSourceWritesFit
  <2>. QED BY ONLY <2>1, <2>2, <2>3, Zenon
<1>3. When(o.cmd = "stretchblt", StretchWrites(o)) \in Seq(Pieces)
  BY StretchWritesFit, WhenIsPieces
<1>4. When(o.pat_fill, PatternWrites(o)) \in Seq(Pieces)
  <2>1. o.pat_fill \in BOOLEAN
    BY DEF Ops
  <2>. QED BY ONLY o \in Ops, <2>1, PatternWritesFit, WhenIsPieces, Zenon
<1>5. When(~multi, RopWrites(o)) \in Seq(Pieces) /\ When(~multi, AlphaWrites(o)) \in Seq(Pieces)
  BY RopWritesFit, AlphaWritesFit, WhenIsPieces
<1>6. When(o.cmd \in {"clear", "mono_blit"}, ClearWrites(o)) \in Seq(Pieces)
  <2>. DEFINE c == o.cmd \in {"clear", "mono_blit"}
  <2>1. c \in BOOLEAN
    OBVIOUS
  <2>. HIDE DEF c
  <2>2. When(c, ClearWrites(o)) \in Seq(Pieces)
    BY ONLY o \in Ops, <2>1, ClearWritesFit, WhenIsPieces, Zenon
  <2>. QED BY ONLY <2>2 DEF c
<1>7. DrawWrites(o) \in Seq(Pieces)
  BY DrawWritesFit
<1>8. Set(VIVS_GL_FLUSH_CACHE, [PE2D |-> {0}]) \in Seq(Pieces)
  BY ONLY SomeSets, SMT
<1>. QED BY ONLY <1>1, <1>2, <1>3, <1>4, <1>5, <1>6, <1>7, <1>8, PiecesConcat, ZenonT(30)
         DEF Program

-------------------------------------------------------------------------------
\* The operation of the client is one it can describe, on a surface that is there.
OpInv ==
  \/ op = NoOp
  \/ /\ op \in Ops /\ op.dst \in Made
     /\ Len(op.rects) <= 255 /\ Len(op.data) <= 2047 /\ Len(op.srcs) <= 4

\* What the constants give.
LEMMA ConstantsFit ==
  /\ Stale \in Words /\ HeapWords \subseteq Words /\ Rects \subseteq RectSet
  /\ Colors \subseteq Words /\ MaxRects \in Nat /\ MaxRects <= 255
  /\ \A d \in Glyphs : d \in Seq(Words) /\ Len(d) <= 2047
  /\ MaxEdits \in Nat /\ MaxOps \in Nat
<1>1. Stale \in Words /\ HeapWords \subseteq Words /\ Rects \subseteq RectSet
      /\ Colors \subseteq Words
  BY FrontEndAssumption, Zenon DEF Words, RectSet
<1>2. MaxRects \in 0 .. 255 /\ MaxEdits \in Nat /\ MaxOps \in Nat
  BY FrontEndAssumption, Zenon
<1>3. Glyphs \subseteq Seq(Words)
  BY FrontEndAssumption, Zenon DEF Words
<1>3a. \A d \in Glyphs : Len(d) <= 2047
  BY FrontEndAssumption, Zenon
<1>4. ASSUME NEW d \in Glyphs PROVE d \in Seq(Words) /\ Len(d) <= 2047
  <2>1. d \in Seq(Words)
    BY ONLY d \in Glyphs, <1>3, Zenon
  <2>2. Len(d) <= 2047
    BY <1>3a, SMT
  <2>. QED BY ONLY <2>1, <2>2, SMT
<1>5. MaxRects \in Nat /\ MaxRects <= 255
  BY ONLY <1>2
<1>. QED BY ONLY <1>1, <1>2, <1>4, <1>5, Zenon

\* A surface that is there has a width and a height.
LEMMA MadeHasSize ==
  ASSUME PictInv, NEW s \in Made
  PROVE  s \in SurfaceIds /\ surf[s].width \in Nat /\ surf[s].height \in Nat
BY DEF Made, PictInv, IsDrawable

\* viv2d_op_init describes an operation.
LEMMA NewIsOp ==
  ASSUME PictInv, NEW cmd \in Cmds, NEW dst \in Made, NEW heap \in HeapWords,
         NEW srcs \in Sources(cmd, dst), OpNew(cmd, srcs, dst, heap)
  PROVE  OpInv'
<1>1. op' = [cmd |-> cmd, srcs |-> srcs, dst |-> dst, src_x |-> heap, src_y |-> heap,
             rects |-> <<>>,
             clip |-> [x |-> 0, y |-> 0, width |-> surf[dst].width, height |-> surf[dst].height],
             blend |-> NoBlend, color |-> Black, rop |-> ROP_SRC, pat_fill |-> FALSE,
             data |-> <<>>, data_pitch |-> heap]
  BY DEF OpNew
<1>2. Made \subseteq SurfaceIds
  BY DEF Made
<1>3. srcs \in Seq(SurfaceIds) /\ Len(srcs) <= 4
  <2>1. \/ srcs = <<>>
        \/ \E s \in Made : srcs = <<s>>
        \/ \E n \in SourceCounts : srcs \in [1 .. n -> Made]
    <3>1. CASE cmd = "bitblt"
      BY ONLY <3>1, srcs \in Sources(cmd, dst) DEF Sources
    <3>2. CASE cmd = "stretchblt"
      BY ONLY <3>2, srcs \in Sources(cmd, dst) DEF Sources
    <3>3. CASE cmd = "multsrcblt"
      <4>1. srcs \in UNION {[1 .. n -> Made] : n \in SourceCounts}
        BY ONLY <3>3, srcs \in Sources(cmd, dst) DEF Sources
      <4>. QED BY ONLY <4>1, Zenon
    <3>4. CASE cmd \notin {"bitblt", "stretchblt", "multsrcblt"}
      BY ONLY <3>4, srcs \in Sources(cmd, dst) DEF Sources
    <3>. QED BY ONLY <3>1, <3>2, <3>3, <3>4, Zenon
  <2>2. \A s \in Made : <<s>> \in Seq(SurfaceIds) /\ Len(<<s>>) <= 4
    BY ONLY <1>2
  <2>3. <<>> \in Seq(SurfaceIds) /\ Len(<<>>) <= 4
    BY ONLY TRUE
  <2>4. ASSUME NEW n \in SourceCounts, srcs \in [1 .. n -> Made]
        PROVE  srcs \in Seq(SurfaceIds) /\ Len(srcs) <= 4
    <3>1. n \in Nat /\ n <= 4
      BY FrontEndAssumption
    <3>2. srcs \in [1 .. n -> SurfaceIds]
      BY ONLY <1>2, <2>4
    <3>. QED BY ONLY <3>1, <3>2
  <2>. QED BY ONLY <2>1, <2>2, <2>3, <2>4, Zenon
<1>4. heap \in Words /\ Black \in Words /\ dst \in SurfaceIds
  BY ConstantsFit, <1>2 DEF Black, Words, WordBits
<1>5. [x |-> 0, y |-> 0, width |-> surf[dst].width, height |-> surf[dst].height] \in RectSet
  BY MadeHasSize DEF RectSet
<1>6. op' \in Ops
  BY ONLY cmd \in Cmds, <1>1, <1>3, <1>4, <1>5 DEF Ops
<1>7. op'.dst = dst /\ op'.rects = <<>> /\ op'.data = <<>> /\ op'.srcs = srcs
  BY ONLY <1>1
<1>8. Made' = Made
  BY DEF Made, OpNew, surfaces
<1>. QED BY <1>3, <1>6, <1>7, <1>8 DEF OpInv

\* The other calls change one field to another value of it.
LEMMA EditIsOp ==
  ASSUME OpInv, NEW o, Edit(o),
         op \in Ops => /\ o \in Ops /\ o.dst = op.dst /\ o.srcs = op.srcs
                       /\ Len(op.rects) <= 255 => Len(o.rects) <= 255
                       /\ Len(op.data) <= 2047 => Len(o.data) <= 2047
  PROVE  OpInv'
<1>1. op' = o /\ op # NoOp /\ Made' = Made
  BY DEF Edit, Made, surfaces
<1>. QED BY <1>1 DEF OpInv

\* So every call keeps the operation one that can be described.
LEMMA DescribeKeepsOp == PictInv /\ OpInv /\ Describe => OpInv'
<1>. SUFFICES ASSUME PictInv, OpInv, Describe PROVE OpInv'
  OBVIOUS
<1>1. ASSUME NEW r \in Rects, OpAddRect(r) PROVE OpInv'
  <2>. DEFINE o == [op EXCEPT !.rects = Append(@, r)]
  <2>1. Edit(o) /\ Len(op.rects) < MaxRects
    BY <1>1 DEF OpAddRect
  <2>2. ASSUME op \in Ops
        PROVE  /\ o \in Ops /\ o.dst = op.dst /\ o.srcs = op.srcs /\ o.data = op.data
               /\ Len(o.rects) <= 255
    <3>1. r \in RectSet
      BY ConstantsFit
    <3>2. op.rects \in Seq(RectSet)
      BY <2>2 DEF Ops
    <3>3. /\ Append(op.rects, r) \in Seq(RectSet)
          /\ Len(Append(op.rects, r)) = Len(op.rects) + 1 /\ Len(op.rects) \in Nat
      BY ONLY <3>1, <3>2, AppendProperties, LenProperties
    <3>4. Len(op.rects) + 1 <= 255
      BY ONLY <2>1, <3>3, ConstantsFit
    <3>5. o \in Ops /\ o.dst = op.dst /\ o.srcs = op.srcs /\ o.data = op.data
          /\ o.rects = Append(op.rects, r)
      BY ONLY <2>2, <3>3 DEF Ops
    <3>. QED BY ONLY <3>3, <3>4, <3>5
  <2>. HIDE DEF o
  <2>. QED BY ONLY OpInv, <2>1, <2>2, EditIsOp
<1>2. ASSUME NEW r \in Rects, OpSetClipRect(r) PROVE OpInv'
  <2>1. r \in RectSet
    BY ConstantsFit
  <2>. DEFINE o == [op EXCEPT !.clip = r]
  <2>2. Edit(o)
    BY <1>2 DEF OpSetClipRect
  <2>3. op \in Ops => /\ o \in Ops /\ o.dst = op.dst /\ o.srcs = op.srcs
                      /\ o.rects = op.rects /\ o.data = op.data
    BY ONLY <2>1 DEF Ops
  <2>. HIDE DEF o
  <2>. QED BY ONLY OpInv, <2>2, <2>3, EditIsOp
<1>3. ASSUME NEW c \in Colors, OpSetColor(c) PROVE OpInv'
  <2>1. c \in Words
    BY ConstantsFit
  <2>. DEFINE o == [op EXCEPT !.color = c]
  <2>2. Edit(o)
    BY <1>3 DEF OpSetColor
  <2>3. op \in Ops => /\ o \in Ops /\ o.dst = op.dst /\ o.srcs = op.srcs
                      /\ o.rects = op.rects /\ o.data = op.data
    BY ONLY <2>1 DEF Ops
  <2>. HIDE DEF o
  <2>. QED BY ONLY OpInv, <2>2, <2>3, EditIsOp
<1>4. ASSUME NEW b \in Blends, OpSetBlend(b) PROVE OpInv'
  <2>. DEFINE o == [op EXCEPT !.blend = b]
  <2>2. Edit(o)
    BY <1>4 DEF OpSetBlend
  <2>3. op \in Ops => /\ o \in Ops /\ o.dst = op.dst /\ o.srcs = op.srcs
                      /\ o.rects = op.rects /\ o.data = op.data
    BY ONLY b \in Blends DEF Ops
  <2>. HIDE DEF o
  <2>. QED BY ONLY OpInv, <2>2, <2>3, EditIsOp
<1>5. ASSUME NEW d \in Glyphs, OpSetData(d, 4) PROVE OpInv'
  <2>1. d \in Seq(Words) /\ Len(d) <= 2047 /\ Bits(4) \in Words
    BY ONLY d \in Glyphs, ConstantsFit, SomeWords, SMT
  <2>. DEFINE o == [op EXCEPT !.data = d, !.data_pitch = Bits(4)]
  <2>2. Edit(o)
    BY <1>5 DEF OpSetData
  <2>3. op \in Ops => /\ o \in Ops /\ o.dst = op.dst /\ o.srcs = op.srcs
                      /\ o.rects = op.rects /\ o.data = d
    <3>1. d \in Seq(Words) /\ Bits(4) \in Words
      BY ONLY <2>1, SMT
    <3>. QED BY ONLY <3>1 DEF Ops
  <2>. HIDE DEF o
  <2>. QED BY ONLY OpInv, <2>1, <2>2, <2>3, EditIsOp
<1>6. ASSUME OpSetPatFill PROVE OpInv'
  <2>. DEFINE o == [op EXCEPT !.pat_fill = TRUE]
  <2>2. Edit(o)
    BY <1>6 DEF OpSetPatFill
  <2>3. op \in Ops => /\ o \in Ops /\ o.dst = op.dst /\ o.srcs = op.srcs
                      /\ o.rects = op.rects /\ o.data = op.data
    BY DEF Ops
  <2>. HIDE DEF o
  <2>. QED BY ONLY OpInv, <2>2, <2>3, EditIsOp
<1>7. ASSUME OpDel PROVE OpInv'
  BY <1>7 DEF OpDel, OpInv
<1>. QED BY <1>1, <1>2, <1>3, <1>4, <1>5, <1>6, <1>7, NewIsOp DEF Describe

\* What viv2d_op_exec makes of it before it writes: still an operation, with
\* rectangles that a draw can count.
LEMMA PreparedIsOp ==
  ASSUME PictInv, OpInv, op # NoOp
  PROVE  LET o == Prepared(op)
         IN  /\ o \in Ops /\ Draws(o) /\ o.dst = op.dst /\ o.dst \in Made /\ o.srcs = op.srcs
             /\ Len(o.srcs) <= 4 /\ Len(o.data) <= 2047 /\ Len(o.rects) <= 255
<1>. DEFINE o == Prepared(op)
            all == [x |-> 0, y |-> 0, width |-> surf[op.dst].width,
                    height |-> surf[op.dst].height]
<1>1. /\ op \in Ops /\ op.dst \in Made
      /\ Len(op.rects) <= 255 /\ Len(op.data) <= 2047 /\ Len(op.srcs) <= 4
  BY DEF OpInv
<1>2. all \in RectSet
  BY <1>1, MadeHasSize DEF RectSet
<1>. HIDE DEF all
<1>3. o = [op EXCEPT !.rects = IF op.rects = <<>> THEN <<all>> ELSE op.rects,
                     !.rop = IF op.pat_fill THEN ROP_BRUSH ELSE op.rop]
  BY DEF Prepared, all
<1>. HIDE DEF o
<1>. PICK rects : rects = IF op.rects = <<>> THEN <<all>> ELSE op.rects
  OBVIOUS
<1>4. op.rects \in Seq(RectSet)
  BY <1>1 DEF Ops
<1>5. rects \in Seq(RectSet) /\ Len(rects) \in Nat \ {0} /\ Len(rects) <= 255
  <2>1. CASE op.rects = <<>>
    BY ONLY <1>2, <2>1, rects = IF op.rects = <<>> THEN <<all>> ELSE op.rects
  <2>2. CASE op.rects # <<>>
    <3>1. rects = op.rects /\ Len(op.rects) \in Nat \ {0}
      BY ONLY <1>4, <2>2, rects = IF op.rects = <<>> THEN <<all>> ELSE op.rects
    <3>. QED BY ONLY <1>1, <1>4, <3>1
  <2>. QED BY ONLY <2>1, <2>2
<1>6. o \in Ops /\ o.rects = rects /\ o.dst = op.dst /\ o.srcs = op.srcs /\ o.data = op.data
  <2>1. (IF op.pat_fill THEN ROP_BRUSH ELSE op.rop) \in {ROP_SRC, ROP_BRUSH}
    <3>1. op.rop \in {ROP_SRC, ROP_BRUSH}
      BY ONLY <1>1 DEF Ops
    <3>. QED BY ONLY <3>1, Zenon
  <2>. PICK rop \in {ROP_SRC, ROP_BRUSH} : o = [op EXCEPT !.rects = rects, !.rop = rop]
    BY ONLY <1>3, <2>1, rects = IF op.rects = <<>> THEN <<all>> ELSE op.rects
  <2>2. op \in Ops /\ rects \in Seq(RectSet)
    BY ONLY <1>1, <1>5
  <2>. QED BY ONLY <2>2, rop \in {ROP_SRC, ROP_BRUSH},
                   o = [op EXCEPT !.rects = rects, !.rop = rop] DEF Ops
<1>7. Draws(o)
  BY ONLY <1>1, <1>5, <1>6 DEF Draws
<1>8. /\ o \in Ops /\ Draws(o) /\ o.dst = op.dst /\ o.dst \in Made /\ o.srcs = op.srcs
      /\ Len(o.srcs) <= 4 /\ Len(o.data) <= 2047 /\ Len(o.rects) <= 255
  BY ONLY <1>1, <1>5, <1>6, <1>7
<1>. QED BY ONLY <1>8 DEF o

\* The stream is whole commands, and the front end is between two of them.
WholeInv ==
  /\ PictInv
  /\ OpInv
  /\ stream \in Seq(Pieces)
  /\ Ready(fe)

\* At first.
LEMMA WholeInit == Init => WholeInv
<1>. SUFFICES ASSUME Init PROVE WholeInv
  OBVIOUS
<1>1. PictInv
  BY DEF Init, SurfacesInit, PictInv
<1>2. OpInv /\ stream \in Seq(Pieces)
  BY DEF Init, OpInv
<1>3. Ready(fe)
  BY DEF Init, Ready, PowerOn, FeFields, IsRegs
<1>. QED BY <1>1, <1>2, <1>3 DEF WholeInv

\* Every step.
LEMMA WholeNext == WholeInv /\ [Next]_vars => WholeInv'
<1>. SUFFICES ASSUME WholeInv, [Next]_vars PROVE WholeInv'
  OBVIOUS
<1>1. PictInv /\ OpInv /\ stream \in Seq(Pieces) /\ Ready(fe)
  BY DEF WholeInv
<1>2. CASE UNCHANGED vars
  <2>1. PictInv'
    BY <1>1, <1>2 DEF PictInv, vars, surfaces
  <2>2. OpInv'
    BY <1>1, <1>2 DEF OpInv, Made, vars, surfaces, client
  <2>. QED BY <1>1, <1>2, <2>1, <2>2 DEF WholeInv, vars
<1>3. CASE Surface
  <2>1. PictInv'
    BY <1>1, <1>3, PictureNext
  <2>2. op' = op /\ op = NoOp /\ stream' = stream /\ fe' = fe
    BY <1>3 DEF Surface, client
  <2>. QED BY <1>1, <2>1, <2>2 DEF WholeInv, OpInv
<1>4. CASE Describe
  <2>1. UNCHANGED <<surfaces, stream, fe>>
    BY <1>4 DEF Describe, OpNew, OpAddRect, OpSetClipRect, OpSetColor, OpSetBlend, OpSetData,
                OpSetPatFill, Edit, OpDel
  <2>2. PictInv'
    BY <1>1, <2>1 DEF PictInv, surfaces
  <2>3. OpInv'
    BY <1>1, <1>4, DescribeKeepsOp
  <2>. QED BY <1>1, <2>1, <2>2, <2>3 DEF WholeInv
<1>5. CASE OpExec
  <2>1. /\ UNCHANGED <<surfaces, fe>> /\ op # NoOp
        /\ op' = Prepared(op) /\ stream' = stream \o Program(op')
    BY <1>5 DEF OpExec
  <2>2. /\ op' \in Ops /\ Draws(op') /\ op'.dst \in Made
        /\ Len(op'.srcs) <= 4 /\ Len(op'.data) <= 2047 /\ Len(op'.rects) <= 255
    BY ONLY <1>1, <2>1, PreparedIsOp
  <2>3. Made' = Made
    BY <2>1 DEF Made, surfaces
  <2>4. OpInv'
    BY ONLY <2>2, <2>3 DEF OpInv
  <2>5. Len(op'.srcs) <= 8
    <3>1. Len(op'.srcs) \in Nat
      BY ONLY <2>2 DEF Ops
    <3>. QED BY ONLY <2>2, <3>1
  <2>6. Program(op') \in Seq(Pieces)
    <3>1. Stale \in Words
      BY ONLY ConstantsFit, Zenon
    <3>. QED BY ONLY <2>2, <2>5, <3>1, ProgramFits, SMT
  <2>7. stream' \in Seq(Pieces)
    BY ONLY <1>1, <2>1, <2>6, PiecesConcat, Zenon
  <2>8. PictInv'
    BY <1>1, <2>1 DEF PictInv, surfaces
  <2>. QED BY <1>1, <2>1, <2>4, <2>7, <2>8 DEF WholeInv
<1>6. CASE Flush
  <2>. DEFINE f == [fe EXCEPT !.draws = <<>>]
  <2>1. /\ UNCHANGED <<surfaces, client>> /\ stream' = <<>>
        /\ fe' = Fetch(f, FlattenSeq(stream))
    BY <1>6 DEF Flush
  <2>2. Ready(f)
    BY <1>1 DEF Ready, FeFields
  <2>3. FlattenSeq(stream) \in Pieces
    BY <1>1, StreamIsTaken
  <2>4. Ready(fe')
    BY ONLY <2>1, <2>2, <2>3, Zenon DEF Pieces
  <2>5. PictInv' /\ OpInv'
    BY <1>1, <2>1 DEF PictInv, OpInv, Made, surfaces, client
  <2>6. stream' \in Seq(Pieces)
    BY <2>1
  <2>. QED BY ONLY <2>4, <2>5, <2>6 DEF WholeInv
<1>. QED BY <1>2, <1>3, <1>4, <1>5, <1>6 DEF Next

\* What the invariant is for.
LEMMA WholeIsWhole == WholeInv => CommandsAreWhole
<1>. SUFFICES ASSUME WholeInv PROVE CommandsAreWhole
  OBVIOUS
<1>1. stream \in Seq(Pieces) /\ fe.mode = "command"
  BY DEF WholeInv, Ready
<1>2. Ready(PowerOn)
  BY DEF Ready, PowerOn, FeFields, IsRegs
<1>3. ASSUME NEW p \in Pieces PROVE Len(p) % 2 = 0 /\ Fetch(PowerOn, p).mode = "command"
  BY ONLY p \in Pieces, <1>2 DEF Pieces, Ready
<1>4. \A i \in 1 .. Len(stream) : stream[i] \in Pieces
  BY ONLY <1>1
<1>. QED BY ONLY <1>1, <1>3, <1>4, Zenon DEF CommandsAreWhole

\* What is written between two reserves is whole commands, and the front end never
\* takes a value, a rectangle or data for a command (property CommandsAreWhole,
\* viv2d.c:121-151, 678-697), for any number of operations, of surfaces, of
\* rectangles up to the 255 a draw can count, and of data up to 2047 words.
THEOREM CommandsStayWhole == Spec => []CommandsAreWhole
<1>. QED BY WholeInit, WholeNext, WholeIsWhole, PTL DEF Spec

-------------------------------------------------------------------------------
\* Counters, histories, and the sizes of surfaces.
CountInv ==
  /\ edits \in 0 .. MaxEdits
  /\ executed \in 0 .. MaxOps
  /\ \E S : due \in Seq(S) /\ wanted \in Seq(S)
  /\ Len(due) <= executed /\ Len(wanted) <= MaxOps
  /\ \A s \in Made : surf[s].pitch % 32 = 0 /\ surf[s].size = surf[s].pitch * surf[s].height

\* All of TypeOK, in the parts above.
TypeInv == WholeInv /\ CountInv

\* The pitch viv2d_surface_new computes is a multiple of 32 bytes.
LEMMA PitchIsAligned ==
  ASSUME NEW s \in SurfaceIds, NEW k \in Kinds[s]
  PROVE  /\ SurfaceAlloc(k).pitch % 32 = 0
         /\ SurfaceAlloc(k).size = SurfaceAlloc(k).pitch * SurfaceAlloc(k).height
<1>. PICK b \in Nat : b = (viv2d_color_formats[k.format].bpp + 7) \div 8
  <2>1. viv2d_color_formats[k.format].bpp \in Nat
    <3>1. k.format \in DOMAIN viv2d_color_formats
      BY SurfacesAssumption
    <3>. QED BY ONLY <3>1, SMT DEF viv2d_color_formats, ColorFormat
  <2>. QED BY <2>1
<1>1. k.width \in Nat
  BY SurfacesAssumption
<1>. PICK m \in Nat : m = k.width * b
  BY <1>1
<1>2. SurfaceAlloc(k).pitch = ((m + 32 - 1) \div 32) * 32
  BY DEF SurfaceAlloc, Pitch, ALIGN
<1>3. (((m + 32 - 1) \div 32) * 32) % 32 = 0
  OBVIOUS
<1>4. SurfaceAlloc(k).size = SurfaceAlloc(k).pitch * SurfaceAlloc(k).height
  BY DEF SurfaceAlloc
<1>. QED BY <1>2, <1>3, <1>4

\* Every step counts one operation, or none.
LEMMA CountNext == WholeInv /\ CountInv /\ [Next]_vars => CountInv'
<1>. SUFFICES ASSUME WholeInv, CountInv, [Next]_vars PROVE CountInv'
  OBVIOUS
<1>0. MaxEdits \in Nat /\ MaxOps \in Nat
  BY ConstantsFit
<1>1. CASE UNCHANGED vars
  BY <1>1 DEF CountInv, Made, vars, surfaces, client
<1>2. CASE Surface
  <2>1. UNCHANGED <<client, due, wanted>>
    BY <1>2 DEF Surface
  <2>2. \A s \in Made' : surf'[s].pitch % 32 = 0
                         /\ surf'[s].size = surf'[s].pitch * surf'[s].height
    <3>0. DOMAIN surf = SurfaceIds
      BY DEF WholeInv, PictInv
    <3>1. ASSUME NEW s \in SurfaceIds, NEW k \in Kinds[s], SurfaceNew(s, k)
          PROVE  <2>2!:
      BY <3>0, <3>1, PitchIsAligned DEF SurfaceNew, CountInv, Made
    <3>2. ASSUME NEW s \in SurfaceIds, SurfaceDel(s)
          PROVE  <2>2!:
      BY <3>0, <3>2 DEF SurfaceDel, CountInv, Made
    <3>3. ASSUME NEW s \in SurfaceIds, SurfaceToBmp(s)
          PROVE  <2>2!:
      BY <3>3 DEF SurfaceToBmp, CountInv, Made
    <3>. QED BY <1>2, <3>1, <3>2, <3>3 DEF Surface
  <2>. QED BY <2>1, <2>2 DEF CountInv, client
<1>3. CASE Describe
  <2>1. UNCHANGED <<surfaces, executed, due, wanted>>
    BY <1>3 DEF Describe, OpNew, OpAddRect, OpSetClipRect, OpSetColor, OpSetBlend, OpSetData,
                OpSetPatFill, Edit, OpDel
  <2>2. edits' = edits \/ (edits < MaxEdits /\ edits' = edits + 1)
    BY <1>3 DEF Describe, OpNew, OpAddRect, OpSetClipRect, OpSetColor, OpSetBlend, OpSetData,
                OpSetPatFill, Edit, OpDel
  <2>3. edits' \in 0 .. MaxEdits
    BY <1>0, <2>2 DEF CountInv
  <2>. QED BY <2>1, <2>3 DEF CountInv, Made, surfaces
<1>4. CASE OpExec
  <2>1. /\ UNCHANGED <<surfaces, edits, wanted>>
        /\ executed < MaxOps /\ executed' = executed + 1
        /\ due' = Append(due, Asked(op'))
    BY <1>4 DEF OpExec
  <2>2. PICK S : due \in Seq(S) /\ wanted \in Seq(S)
    BY DEF CountInv
  <2>. DEFINE T == S \cup {Asked(op')}
  <2>3. due \in Seq(T) /\ wanted \in Seq(T) /\ Asked(op') \in T
    BY <2>2
  <2>. HIDE DEF T
  <2>4. due' \in Seq(T) /\ Len(due') = Len(due) + 1 /\ Len(due) \in Nat
    BY ONLY <2>1, <2>3, AppendProperties, LenProperties
  <2>5. executed \in 0 .. MaxOps /\ Len(due) <= executed
    BY DEF CountInv
  <2>6. Len(due') <= executed' /\ executed' \in 0 .. MaxOps
    BY ONLY <1>0, <2>1, <2>4, <2>5
  <2>7. Made' = Made /\ surf' = surf
    BY <2>1 DEF Made, surfaces
  <2>. QED BY <2>1, <2>3, <2>4, <2>6, <2>7 DEF CountInv
<1>5. CASE Flush
  <2>1. UNCHANGED <<surfaces, client>> /\ wanted' = due /\ due' = <<>>
    BY <1>5 DEF Flush
  <2>2. PICK S : due \in Seq(S)
    BY DEF CountInv
  <2>3. Len(due) \in Nat /\ Len(due) <= executed /\ executed \in 0 .. MaxOps
    BY <2>2 DEF CountInv
  <2>4. Len(wanted') <= MaxOps
    BY ONLY <1>0, <2>1, <2>3
  <2>5. due' \in Seq(S) /\ wanted' \in Seq(S) /\ Len(due') = 0
    BY <2>1, <2>2
  <2>6. Made' = Made /\ surf' = surf /\ edits' = edits /\ executed' = executed
    BY <2>1 DEF Made, surfaces, client
  <2>. QED BY <2>3, <2>4, <2>5, <2>6 DEF CountInv
<1>. QED BY <1>1, <1>2, <1>3, <1>4, <1>5 DEF Next

\* The parts are TypeOK.
LEMMA TypeInvIsTypeOK == TypeInv => TypeOK
<1>. SUFFICES ASSUME TypeInv PROVE TypeOK
  OBVIOUS
<1>1. stream \in Seq(Pieces) /\ Ready(fe) /\ OpInv
  BY DEF TypeInv, WholeInv
<1>2. op = NoOp \/ (op.cmd \in Cmds /\ op.dst \in Made /\ op.color \subseteq WordBits)
  BY <1>1 DEF OpInv, Ops, Words
<1>3. \A i \in 1 .. Len(stream) : \A j \in 1 .. Len(stream[i]) : stream[i][j] \subseteq WordBits
  <2>1. \A i \in 1 .. Len(stream) : stream[i] \in Pieces
    BY ONLY <1>1
  <2>2. \A p \in Pieces : \A j \in 1 .. Len(p) : p[j] \in Words
    BY ONLY TRUE DEF Pieces
  <2>. QED BY ONLY <2>1, <2>2, Zenon DEF Words
<1>4. fe.mode \in {"command", "state", "corners", "data", "pad", "lost"}
  BY <1>1 DEF Ready
<1>5. \A a \in DOMAIN fe.regs : a \in Nat /\ a < 65536 /\ fe.regs[a] \subseteq WordBits
  <2>1. \A a \in DOMAIN fe.regs : a \in Offsets /\ fe.regs[a] \in Words
    BY ONLY <1>1, Zenon DEF Ready, IsRegs
  <2>. QED BY ONLY <2>1, SMT DEF Offsets, Words
<1>6. Len(due) \in 0 .. MaxOps /\ Len(wanted) \in 0 .. MaxOps
  <2>1. Len(due) \in Nat /\ Len(wanted) \in Nat
    BY DEF TypeInv, CountInv
  <2>. QED BY <2>1, ConstantsFit DEF TypeInv, CountInv
<1>. QED BY <1>2, <1>3, <1>4, <1>5, <1>6 DEF TypeOK, TypeInv, CountInv

\* Every variable keeps its values (property TypeOK): the front end is never lost, no
\* register outside of the address space is written, and a history never holds more
\* than was executed.
THEOREM FrontEndTypes == Spec => []TypeOK
<1>1. Init => TypeInv
  <2>. SUFFICES ASSUME Init PROVE TypeInv
    OBVIOUS
  <2>1. edits = 0 /\ executed = 0 /\ due = <<>> /\ wanted = <<>>
    BY DEF Init
  <2>2. Made = {}
    BY DEF Init, SurfacesInit, Made
  <2>3. due \in Seq({}) /\ wanted \in Seq({}) /\ Len(due) = 0 /\ Len(wanted) = 0
    BY <2>1
  <2>. QED BY <2>1, <2>2, <2>3, WholeInit, ConstantsFit DEF TypeInv, CountInv
<1>2. TypeInv /\ [Next]_vars => TypeInv'
  BY WholeNext, CountNext DEF TypeInv
<1>. QED BY <1>1, <1>2, TypeInvIsTypeOK, PTL DEF Spec
===============================================================================

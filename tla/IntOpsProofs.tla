---------------------------- MODULE IntOpsProofs ----------------------------
(***************************************************************************)
(* Proofs about IntOps, for words of any width above two bits: results     *)
(* keep their tag (TagsCorrect), and the instructions on words implement   *)
(* the arithmetic of the language (ImplementsOCamlInts).  The first parts  *)
(* are about division, powers of two and the bits of a word, then there is *)
(* a lemma for each instruction, and last one for each action.             *)
(***************************************************************************)
EXTENDS IntOps, FiniteSetTheorems, FunctionTheorems, WellFoundedInduction, TLAPS

-----------------------------------------------------------------------------
(* Division, remainders and powers of two *)

LEMMA Division ==
  ASSUME NEW s \in Nat, s > 0, NEW x \in Int
  PROVE  x \div s \in Int /\ x % s \in 0 .. s - 1 /\ x = (x \div s) * s + (x % s)
  BY Z3

LEMMA DivisionUnique ==
  ASSUME NEW s \in Nat, s > 0, NEW q \in Int, NEW r \in 0 .. s - 1
  PROVE  (q * s + r) \div s = q /\ (q * s + r) % s = r
  BY Z3

\* Adding a multiple of s leaves the residue modulo s as it is.
LEMMA Congruent ==
  ASSUME NEW s \in Nat, s > 0, NEW x \in Int, NEW k \in Int
  PROVE  (x + k * s) % s = x % s
  <1> DEFINE q == x \div s
             r == x % s
  <1>1. q \in Int /\ r \in 0 .. s - 1 /\ x = q * s + r
    BY Division
  <1> HIDE DEF q, r
  <1>2. x + k * s = (q + k) * s + r
    BY <1>1
  <1>3. q + k \in Int
    BY <1>1
  <1>4. ((q + k) * s + r) % s = r
    BY ONLY s \in Nat, s > 0, <1>1, <1>3, DivisionUnique
  <1> QED
    BY ONLY <1>2, <1>4 DEF r

LEMMA TwiceDivided ==
  ASSUME NEW s \in Nat, s > 0, NEW t \in Nat, t > 0, NEW x \in Int
  PROVE  s * t \in Nat /\ s * t > 0 /\ (x \div s) \div t = x \div (s * t)
  <1> DEFINE q == x \div s
             r == x % s
             p == q \div t
             u == q % t
  <1>1. q \in Int /\ r \in 0 .. s - 1 /\ x = q * s + r
    BY Division
  <1>2. p \in Int /\ u \in 0 .. t - 1 /\ q = p * t + u
    BY <1>1, Division
  <1> HIDE DEF q, r, p, u
  <1>3. s * t \in Nat /\ s * t > 0
    OBVIOUS
  <1>4. x = p * (s * t) + (u * s + r)
    BY <1>1, <1>2
  <1>5. u * s + r \in 0 .. s * t - 1
    BY <1>1, <1>2
  <1>6. (p * (s * t) + (u * s + r)) \div (s * t) = p
    BY ONLY <1>2, <1>3, <1>5, DivisionUnique
  <1> QED
    BY ONLY <1>3, <1>4, <1>6 DEF p, q
LEMMA PowerZero == 2^0 = 1
  OBVIOUS

\* 2^n is the number of subsets of a set of n elements: all that the proofs
\* know of powers.
LEMMA Subsets ==
  ASSUME NEW n \in Nat
  PROVE  IsFiniteSet(SUBSET (1..n)) /\ Cardinality(SUBSET (1..n)) = 2^n
  <1>1. IsFiniteSet(1..n) /\ Cardinality(1..n) = n
    BY FS_Interval
  <1>2. IsFiniteSet(SUBSET (1..n)) /\ Cardinality(SUBSET (1..n)) = 2^Cardinality(1..n)
    BY ONLY <1>1, FS_SUBSET
  <1> QED
    BY ONLY <1>1, <1>2, Zenon

LEMMA PowerNatural == ASSUME NEW n \in Nat PROVE 2^n \in Nat /\ 2^n > 0
  <1>1. 2^n \in Nat
    BY Subsets, FS_CardinalityType
  <1>2. 2^n # 0
    <2>1. IsFiniteSet(SUBSET (1..n)) /\ Cardinality(SUBSET (1..n)) = 2^n
      BY Subsets
    <2>2. {} \in SUBSET (1..n)
      OBVIOUS
    <2>3. SUBSET (1..n) # {}
      BY ONLY <2>2, Zenon
    <2> QED BY ONLY <2>1, <2>3, FS_EmptySet, Zenon
  <1> QED
    BY <1>1, <1>2

\* Half of the subsets of 1..n+1 have n + 1 in them.
LEMMA PowerNext == ASSUME NEW n \in Nat PROVE 2^(n + 1) = 2 * 2^n
  <1> DEFINE S == SUBSET (1..n)
             T == {X \cup {n + 1} : X \in S}
             f == [X \in S |-> X \cup {n + 1}]
  <1>1. IsFiniteSet(S) /\ Cardinality(S) = 2^n
    BY Subsets
  <1>2. Cardinality(SUBSET (1..n + 1)) = 2^(n + 1)
    <2>1. n + 1 \in Nat
      OBVIOUS
    <2> QED BY ONLY <2>1, Subsets
  <1>3. SUBSET (1..n + 1) = S \cup T
    <2>1. ASSUME NEW Y \in SUBSET (1..n + 1) PROVE Y \in S \cup T
      <3>1. CASE n + 1 \in Y
        <4>1. Y \ {n + 1} \in S
          OBVIOUS
        <4>2. Y = (Y \ {n + 1}) \cup {n + 1}
          BY <3>1
        <4> QED BY <4>1, <4>2
      <3>2. CASE n + 1 \notin Y
        <4>1. Y \in S
          BY <3>2
        <4> QED BY <4>1
      <3> QED BY <3>1, <3>2
    <2>2. ASSUME NEW Y \in S \cup T PROVE Y \in SUBSET (1..n + 1)
      <3>1. CASE Y \in S
        BY <3>1
      <3>2. CASE Y \in T
        <4>1. PICK X \in S : Y = X \cup {n + 1}
          BY <3>2
        <4> QED BY <4>1
      <3> QED BY <3>1, <3>2
    <2> QED BY <2>1, <2>2
  <1>4. S \cap T = {}
    <2>1. ASSUME NEW Y \in S, NEW X \in S, Y = X \cup {n + 1} PROVE FALSE
      <3>1. n + 1 \in Y /\ Y \subseteq 1..n
        BY <2>1
      <3> QED BY <3>1
    <2> QED BY <2>1
  <1>5. IsFiniteSet(T) /\ Cardinality(T) = Cardinality(S)
    <2>1. f \in [S -> T]
      BY Zenon
    <2>2. ASSUME NEW X \in S, NEW Y \in S, f[X] = f[Y] PROVE X = Y
      <3>1. X \cup {n + 1} = Y \cup {n + 1}
        BY <2>2
      <3>2. n + 1 \notin X /\ n + 1 \notin Y
        OBVIOUS
      <3> QED BY <3>1, <3>2
    <2>3. f \in Bijection(S, T)
      <3>1. f \in Injection(S, T)
        BY <2>1, <2>2, Fun_IsInj
      <3>2. f \in Surjection(S, T)
        BY <2>1 DEF Surjection
      <3> QED BY <3>1, <3>2 DEF Bijection
    <2>4. ExistsBijection(S, T)
      BY <2>3, Zenon DEF ExistsBijection
    <2> QED BY <1>1, <2>4, FS_Bijection
  <1>6. Cardinality(S \cup T) = Cardinality(S) + Cardinality(T) - Cardinality(S \cap T)
    BY <1>1, <1>5, FS_Union
  <1>7. Cardinality(S \cap T) = 0
    BY <1>4, FS_EmptySet
  <1> HIDE DEF S, T
  <1>8. Cardinality(SUBSET (1..n + 1)) = 2 * Cardinality(S)
    <2>1. Cardinality(S) \in Nat
      BY <1>1, FS_CardinalityType
    <2>2. Cardinality(S \cup T) = 2 * Cardinality(S)
      BY ONLY <1>5, <1>6, <1>7, <2>1
    <2> QED BY ONLY <1>3, <2>2, Zenon

  <1> QED
    BY ONLY <1>1, <1>2, <1>8, Zenon
-----------------------------------------------------------------------------
(* Words and their bits *)

\* Induction, for sets: the provers have no induction for formulas.
LEMMA SetInduction ==
  ASSUME NEW S \in SUBSET Nat, 0 \in S, \A n \in S : n + 1 \in S
  PROVE  \A n \in Nat : n \in S
  <1> SUFFICES ASSUME NEW m \in Nat, m \notin S PROVE FALSE
    OBVIOUS
  <1> DEFINE T == Nat \ S
  <1>1. PICK R : R = OpToRel(<, Nat)
    OBVIOUS
  <1>2. IsWellFoundedOn(R, Nat)
    BY <1>1, NatLessThanWellFounded
  <1>3. T \subseteq Nat /\ T # {}
    OBVIOUS
  <1>4. PICK x \in T : \A y \in T : <<y, x>> \notin R
    BY <1>2, <1>3, WFMin
  <1>5. x \in Nat /\ x - 1 \in Nat
    OBVIOUS
  <1>6. <<x - 1, x>> \in R
    BY <1>1, <1>5 DEF OpToRel
  <1>7. x - 1 \in S
    BY <1>4, <1>5, <1>6
  <1>8. (x - 1) + 1 = x
    BY <1>5
  <1> QED
    BY <1>4, <1>7, <1>8

LEMMA Halves ==
  ASSUME NEW v \in Int, NEW c \in {0, 1}
  PROVE  (2 * v + c) \div 2 = v /\ (2 * v + c) % 2 = c
  BY Z3

LEMMA BitType == ASSUME NEW w \in Int, NEW k \in Nat PROVE Bit(w, k) \in {0, 1}
  <1>1. 2^k \in Nat /\ 2^k > 0
    BY PowerNatural
  <1>2. w \div 2^k \in Int
    BY <1>1, Division
  <1> QED
    BY <1>2 DEF Bit

LEMMA BitsOfDouble ==
  ASSUME NEW v \in Int, NEW c \in {0, 1}
  PROVE  /\ Bit(2 * v + c, 0) = c
         /\ \A k \in Nat : Bit(2 * v + c, k + 1) = Bit(v, k)
  <1>1. (2 * v + c) \div 2 = v /\ (2 * v + c) % 2 = c
    BY Halves
  <1> DEFINE w == 2 * v + c
  <1>2. w \in Int
    OBVIOUS
  <1> HIDE DEF w
  <1>3. w \div 1 = w
    BY <1>2
  <1>4. Bit(w, 0) = w % 2
    BY ONLY <1>3, PowerZero, Zenon DEF Bit
  <1>5. ASSUME NEW k \in Nat PROVE Bit(w, k + 1) = Bit(v, k)
    <2>1. 2^k \in Nat /\ 2^k > 0
      BY PowerNatural
    <2>2. (w \div 2) \div 2^k = w \div (2 * 2^k)
      BY ONLY <1>2, <2>1, TwiceDivided
    <2>3. 2^(k + 1) = 2 * 2^k
      BY PowerNext
    <2>4. w \div 2 = v
      BY <1>1 DEF w
    <2> QED
      BY ONLY <2>2, <2>3, <2>4, Zenon DEF Bit
  <1> QED
    BY <1>1, <1>4, <1>5 DEF w

\* Words with the same bits are equal.
LEMMA SameBits ==
  ASSUME NEW n \in Nat, NEW u \in 0 .. 2^n - 1, NEW v \in 0 .. 2^n - 1,
         \A k \in 0 .. n - 1 : Bit(u, k) = Bit(v, k)
  PROVE  u = v
  <1> DEFINE P(m) == \A x, y \in 0 .. 2^m - 1 :
                       (\A k \in 0 .. m - 1 : Bit(x, k) = Bit(y, k)) => x = y
             S == {m \in Nat : P(m)}
  <1>1. P(0)
    <2>1. 0 .. 2^0 - 1 = {0}
      BY PowerZero
    <2> QED
      BY ONLY <2>1
  <1>2. ASSUME NEW m \in Nat, P(m) PROVE P(m + 1)
    <2> SUFFICES ASSUME NEW x \in 0 .. 2^(m + 1) - 1, NEW y \in 0 .. 2^(m + 1) - 1,
                        \A k \in 0 .. m : Bit(x, k) = Bit(y, k)
                 PROVE  x = y
      OBVIOUS
    <2>0. 2^(m + 1) = 2 * 2^m /\ 2^m \in Nat
      BY PowerNext, PowerNatural
    <2>1. PICK v1 \in 0 .. 2^m - 1, c1 \in {0, 1} : x = 2 * v1 + c1
      <3>1. x \div 2 \in Int /\ x % 2 \in 0 .. 1 /\ x = (x \div 2) * 2 + (x % 2)
        BY <2>0, Division
      <3> QED
        BY <2>0, <3>1
    <2>2. PICK v2 \in 0 .. 2^m - 1, c2 \in {0, 1} : y = 2 * v2 + c2
      <3>1. y \div 2 \in Int /\ y % 2 \in 0 .. 1 /\ y = (y \div 2) * 2 + (y % 2)
        BY <2>0, Division
      <3> QED
        BY <2>0, <3>1
    <2>3. v1 \in Int /\ v2 \in Int
      BY <2>0
    <2>4. c1 = c2
      <3>1. Bit(x, 0) = Bit(y, 0)
        OBVIOUS
      <3>2. Bit(x, 0) = c1 /\ Bit(y, 0) = c2
        BY ONLY <2>1, <2>2, <2>3, BitsOfDouble
      <3> QED
        BY ONLY <3>1, <3>2
    <2>5. \A k \in 0 .. m - 1 : Bit(v1, k) = Bit(v2, k)
      <3> SUFFICES ASSUME NEW k \in 0 .. m - 1 PROVE Bit(v1, k) = Bit(v2, k)
        OBVIOUS
      <3>1. k + 1 \in 0 .. m /\ k \in Nat
        OBVIOUS
      <3>2. Bit(x, k + 1) = Bit(y, k + 1)
        BY <3>1
      <3> QED
        BY ONLY <2>1, <2>2, <2>3, <3>1, <3>2, BitsOfDouble
    <2>6. v1 = v2
      BY <1>2, <2>5
    <2> QED
      BY ONLY <2>1, <2>2, <2>4, <2>6
  <1>3. 0 \in S /\ \A m \in S : m + 1 \in S
    <2>1. \A m \in S : m \in Nat /\ P(m)
      OBVIOUS
    <2>2. \A m \in Nat : P(m) => m \in S
      OBVIOUS
    <2> HIDE DEF P, S
    <2> QED
      BY <1>1, <1>2, <2>1, <2>2
  <1>4. S \in SUBSET Nat
    OBVIOUS
  <1>5. n \in S
    <2> HIDE DEF S
    <2> QED
      BY ONLY n \in Nat, <1>3, <1>4, SetInduction
  <1> QED
    BY <1>5

\* For any choice of bits there is a word that has them.
LEMMA WordOfBits ==
  ASSUME NEW n \in Nat, NEW f \in [0 .. n - 1 -> {0, 1}]
  PROVE  \E u \in 0 .. 2^n - 1 : \A k \in 0 .. n - 1 : Bit(u, k) = f[k]
  <1> DEFINE P(m) == \A g \in [0 .. m - 1 -> {0, 1}] :
                       \E u \in 0 .. 2^m - 1 : \A k \in 0 .. m - 1 : Bit(u, k) = g[k]
             S == {m \in Nat : P(m)}
  <1>1. P(0)
    <2>1. 0 \in 0 .. 2^0 - 1
      BY PowerZero
    <2>2. \A k \in Int : k \notin 0 .. 0 - 1
      OBVIOUS
    <2> QED
      BY <2>1, <2>2
  <1>2. ASSUME NEW m \in Nat, P(m) PROVE P(m + 1)
    <2> SUFFICES ASSUME NEW g \in [0 .. m -> {0, 1}]
                 PROVE  \E u \in 0 .. 2^(m + 1) - 1 : \A k \in 0 .. m : Bit(u, k) = g[k]
      OBVIOUS
    <2> DEFINE h == [k \in 0 .. m - 1 |-> g[k + 1]]
    <2>1. h \in [0 .. m - 1 -> {0, 1}]
      OBVIOUS
    <2>2. PICK v \in 0 .. 2^m - 1 : \A k \in 0 .. m - 1 : Bit(v, k) = h[k]
      BY <1>2, <2>1
    <2>3. 2^(m + 1) = 2 * 2^m /\ 2^m \in Nat
      BY PowerNext, PowerNatural
    <2>4. v \in Int /\ g[0] \in {0, 1}
      BY <2>3
    <2>5. 2 * v + g[0] \in 0 .. 2^(m + 1) - 1
      BY <2>3, <2>4
    <2>6. ASSUME NEW k \in 0 .. m PROVE Bit(2 * v + g[0], k) = g[k]
      <3>1. CASE k = 0
        BY ONLY <2>4, <3>1, BitsOfDouble
      <3>2. CASE k # 0
        <4>1. k - 1 \in Nat /\ k - 1 \in 0 .. m - 1 /\ (k - 1) + 1 = k
          BY <3>2
        <4>2. Bit(2 * v + g[0], (k - 1) + 1) = Bit(v, k - 1)
          BY ONLY <2>4, <4>1, BitsOfDouble
        <4>3. Bit(v, k - 1) = g[(k - 1) + 1]
          BY <2>2, <4>1
        <4> QED
          BY ONLY <4>1, <4>2, <4>3, Zenon
      <3> QED
        BY <3>1, <3>2
    <2> QED
      BY <2>5, <2>6
  <1>3. 0 \in S /\ \A m \in S : m + 1 \in S
    <2>1. \A m \in S : m \in Nat /\ P(m)
      OBVIOUS
    <2>2. \A m \in Nat : P(m) => m \in S
      OBVIOUS
    <2> HIDE DEF P, S
    <2> QED
      BY <1>1, <1>2, <2>1, <2>2
  <1>4. S \in SUBSET Nat
    OBVIOUS
  <1>5. n \in S
    <2> HIDE DEF S
    <2> QED
      BY ONLY n \in Nat, <1>3, <1>4, SetInduction
  <1> QED
    BY <1>5

-----------------------------------------------------------------------------
(* Tagged words and the integers they stand for *)

Quarter == 2^(W - 2)

\* Words and integers in terms of a quarter of the range of words.
LEMMA Sizes ==
  /\ Quarter \in Nat /\ Quarter > 1
  /\ 2^W = 4 * Quarter
  /\ 2^(W - 1) = 2 * Quarter
  /\ O!Ints = -Quarter .. Quarter - 1
  <1>1. W \in Nat /\ W - 1 \in Nat /\ W - 2 \in Nat /\ W - 3 \in Nat
    BY WordAssumption
  <1>2. (W - 1) + 1 = W /\ (W - 2) + 1 = W - 1 /\ (W - 3) + 1 = W - 2 /\ (W - 1) - 1 = W - 2
    BY <1>1
  <1>3. 2^((W - 3) + 1) = 2 * 2^(W - 3) /\ 2^(W - 3) \in Nat /\ 2^(W - 3) > 0
    BY ONLY <1>1, PowerNext, PowerNatural
  <1>4. 2^((W - 2) + 1) = 2 * 2^(W - 2)
    BY ONLY <1>1, PowerNext
  <1>5. 2^((W - 1) + 1) = 2 * 2^(W - 1)
    BY ONLY <1>1, PowerNext
  <1>6. Quarter = 2 * 2^(W - 3)
    BY ONLY <1>2, <1>3, Zenon DEF Quarter
  <1>7. Quarter \in Nat /\ Quarter > 1
    BY ONLY <1>3, <1>6
  <1>8. 2^(W - 1) = 2 * Quarter
    BY ONLY <1>2, <1>4, Zenon DEF Quarter
  <1>9. 2^W = 2 * (2 * Quarter)
    BY ONLY <1>2, <1>5, <1>8, Zenon
  <1>10. 2 * (2 * Quarter) = 4 * Quarter
    BY <1>7
  <1>11. O!Ints = -Quarter .. Quarter - 1
    BY ONLY <1>2, Zenon DEF O!Ints, Quarter
  <1> QED
    BY ONLY <1>7, <1>8, <1>9, <1>10, <1>11

LEMMA IntsInInt == ASSUME NEW m \in O!Ints PROVE m \in Int /\ -Quarter <= m /\ m < Quarter
  BY Sizes

LEMMA WordSize == 4 * Quarter \in Nat /\ 4 * Quarter > 0 /\ 2 * Quarter \in Nat /\ 2 * Quarter > 0
  BY Sizes

LEMMA WordIs == ASSUME NEW x PROVE Word(x) = x % (4 * Quarter)
  BY Sizes, Zenon DEF Word

LEMMA WordsAre == Words = 0 .. 4 * Quarter - 1
  BY Sizes, Zenon DEF Words

LEMMA WordOff ==
  ASSUME NEW x \in Int
  PROVE  Word(x) \in Words /\ \E k \in Int : Word(x) = x + k * (4 * Quarter)
  <1> DEFINE q == x \div (4 * Quarter)
             r == x % (4 * Quarter)
  <1>1. q \in Int /\ r \in 0 .. 4 * Quarter - 1 /\ x = q * (4 * Quarter) + r
    BY WordSize, Division
  <1>2. Word(x) = r
    BY WordIs
  <1> HIDE DEF q, r
  <1>3. -q \in Int /\ r = x + (-q) * (4 * Quarter)
    BY <1>1, WordSize
  <1> QED
    BY ONLY <1>1, <1>2, <1>3, WordsAre

LEMMA SameWord ==
  ASSUME NEW x \in Int, NEW k \in Int
  PROVE  Word(x + k * (4 * Quarter)) = Word(x)
  <1>1. (x + k * (4 * Quarter)) % (4 * Quarter) = x % (4 * Quarter)
    BY ONLY x \in Int, k \in Int, WordSize, Congruent
  <1> QED
    BY ONLY <1>1, WordIs, Zenon

LEMMA ValLong == ASSUME NEW m PROVE Val_long(m) = Word(2 * m + 1)
  BY DEF Val_long

LEMMA ValLongOff ==
  ASSUME NEW m \in Int
  PROVE  /\ Val_long(m) \in Words
         /\ \E k \in Int : Val_long(m) = 2 * m + 1 + k * (4 * Quarter)
  <1>1. 2 * m + 1 \in Int
    OBVIOUS
  <1> QED
    BY ONLY <1>1, ValLong, WordOff

\* The word of m is twice its residue, with the tag.
LEMMA ValLongIs ==
  ASSUME NEW m \in Int
  PROVE  /\ O!Unsigned(m) = m % (2 * Quarter)
         /\ m % (2 * Quarter) \in 0 .. 2 * Quarter - 1
         /\ m % (2 * Quarter) \in Int
         /\ Val_long(m) = 2 * (m % (2 * Quarter)) + 1
  <1> DEFINE q == m \div (2 * Quarter)
             r == m % (2 * Quarter)
  <1>1. q \in Int /\ r \in 0 .. 2 * Quarter - 1 /\ m = q * (2 * Quarter) + r
    BY WordSize, Division
  <1>2. O!Unsigned(m) = r
    BY Sizes, Zenon DEF O!Unsigned
  <1>3. 2 * m + 1 = q * (4 * Quarter) + (2 * r + 1) /\ 2 * r + 1 \in 0 .. 4 * Quarter - 1
    <2> HIDE DEF q, r
    <2> QED
      BY <1>1, Sizes
  <1>4. (q * (4 * Quarter) + (2 * r + 1)) % (4 * Quarter) = 2 * r + 1
    <2> HIDE DEF q, r
    <2> QED
      BY ONLY <1>1, <1>3, WordSize, DivisionUnique
  <1>5. Val_long(m) = 2 * r + 1
    <2> HIDE DEF q, r
    <2> QED
      BY ONLY <1>3, <1>4, ValLong, WordIs, Zenon
  <1>6. r \in Int
    <2> HIDE DEF q, r
    <2> QED
      BY <1>1, WordSize
  <1> QED
    BY ONLY <1>1, <1>2, <1>5, <1>6

\* Integers that are equal but for multiples of 2^(W - 1) have the same word.
LEMMA SameInt ==
  ASSUME NEW m \in Int, NEW k \in Int
  PROVE  Val_long(m + k * (2 * Quarter)) = Val_long(m)
  <1>1. m + k * (2 * Quarter) \in Int
    BY WordSize
  <1>2. (m + k * (2 * Quarter)) % (2 * Quarter) = m % (2 * Quarter)
    BY ONLY m \in Int, k \in Int, WordSize, Congruent
  <1> QED
    BY ONLY m \in Int, <1>1, <1>2, ValLongIs

LEMMA Residue ==
  ASSUME NEW m \in O!Ints
  PROVE  m % (2 * Quarter) = IF m < 0 THEN m + 2 * Quarter ELSE m
  <1>1. m \in Int /\ -Quarter <= m /\ m < Quarter
    BY IntsInInt
  <1>2. CASE m < 0
    <2>1. m + 2 * Quarter \in 0 .. 2 * Quarter - 1 /\ -1 \in Int
      BY <1>1, <1>2, Sizes
    <2>2. ((-1) * (2 * Quarter) + (m + 2 * Quarter)) % (2 * Quarter) = m + 2 * Quarter
      BY ONLY <2>1, WordSize, DivisionUnique
    <2>3. (-1) * (2 * Quarter) + (m + 2 * Quarter) = m
      BY <1>1, WordSize
    <2> QED
      BY ONLY <1>2, <2>2, <2>3
  <1>3. CASE ~(m < 0)
    <2>1. m \in 0 .. 2 * Quarter - 1 /\ 0 \in Int
      BY <1>1, <1>3, Sizes
    <2>2. (0 * (2 * Quarter) + m) % (2 * Quarter) = m
      BY ONLY <2>1, WordSize, DivisionUnique
    <2>3. 0 * (2 * Quarter) + m = m
      BY <1>1, WordSize
    <2> QED
      BY ONLY <1>3, <2>2, <2>3
  <1> QED
    BY <1>2, <1>3

\* The sign bit of a word is the sign of its integer.
LEMMA Signs ==
  ASSUME NEW m \in O!Ints
  PROVE  /\ Signed(Val_long(m)) = 2 * m + 1
         /\ Long_val(Val_long(m)) = m
  <1>1. m \in Int /\ -Quarter <= m /\ m < Quarter
    BY IntsInInt
  <1>2. Val_long(m) = IF m < 0 THEN 2 * m + 4 * Quarter + 1 ELSE 2 * m + 1
    <2>1. m % (2 * Quarter) = IF m < 0 THEN m + 2 * Quarter ELSE m
      BY Residue
    <2>2. Val_long(m) = 2 * (m % (2 * Quarter)) + 1
      BY <1>1, ValLongIs
    <2>3. Quarter \in Int
      BY Sizes
    <2> QED
      BY ONLY <1>1, <2>1, <2>2, <2>3
  <1>3. Signed(Val_long(m)) = IF Val_long(m) >= 2 * Quarter THEN Val_long(m) - 4 * Quarter ELSE Val_long(m)
    BY Sizes, Zenon DEF Signed
  <1>4. Signed(Val_long(m)) = 2 * m + 1
    BY <1>1, <1>2, <1>3, Sizes
  <1>5. (2 * m + 1) \div 2 = m
    BY <1>1
  <1> QED
    BY ONLY <1>4, <1>5, Zenon DEF Long_val

\* An integer that is too large is represented by the word of what it wraps
\* around to.
LEMMA WrapRight ==
  ASSUME NEW n \in Int
  PROVE  O!Wrap(n) \in O!Ints /\ Val_long(O!Wrap(n)) = Val_long(n)
  <1> DEFINE q == (n + Quarter) \div (2 * Quarter)
             r == (n + Quarter) % (2 * Quarter)
             i == r - Quarter
  <1>1. q \in Int /\ r \in 0 .. 2 * Quarter - 1 /\ n + Quarter = q * (2 * Quarter) + r
    <2>1. n + Quarter \in Int
      BY Sizes
    <2> QED
      BY ONLY <2>1, WordSize, Division
  <1>2. i \in O!Ints /\ i \in Int
    <2> HIDE DEF r
    <2> QED
      BY <1>1, Sizes
  <1>3. i - n = 0 + (-q) * (2 * Quarter) /\ -q \in Int
    <2> HIDE DEF r, q
    <2> QED
      BY <1>1, Sizes
  <1>4. (0 + (-q) * (2 * Quarter)) % (2 * Quarter) = 0 % (2 * Quarter)
    <2> HIDE DEF q
    <2> QED
      BY ONLY <1>3, WordSize, Congruent
  <1>5. 0 % (2 * Quarter) = 0
    <2>1. 0 \in 0 .. 2 * Quarter - 1 /\ 0 \in Int /\ 0 * (2 * Quarter) + 0 = 0
      BY WordSize
    <2>2. (0 * (2 * Quarter) + 0) % (2 * Quarter) = 0
      BY ONLY <2>1, WordSize, DivisionUnique
    <2> QED
      BY ONLY <2>1, <2>2
  <1>6. (i - n) % 2^(W - 1) = 0
    <2> HIDE DEF i, q
    <2> QED
      BY ONLY <1>3, <1>4, <1>5, Sizes, Zenon
  <1> HIDE DEF i, q, r
  <1> DEFINE w == O!Wrap(n)
  <1>7. w \in O!Ints /\ (w - n) % 2^(W - 1) = 0
    BY ONLY <1>2, <1>6, Zenon DEF O!Wrap
  <1>8. (w - n) % (2 * Quarter) = 0
    BY ONLY <1>7, Sizes, Zenon
  <1> HIDE DEF w
  <1>9. w \in Int
    BY <1>7, IntsInInt
  <1>10. \E k \in Int : w = n + k * (2 * Quarter)
    <2> DEFINE k == (w - n) \div (2 * Quarter)
    <2>1. w - n \in Int
      BY <1>9
    <2>2. k \in Int /\ w - n = k * (2 * Quarter) + ((w - n) % (2 * Quarter))
      BY ONLY <2>1, WordSize, Division
    <2> HIDE DEF k
    <2>3. w = n + k * (2 * Quarter)
      BY <1>8, <1>9, <2>2, WordSize
    <2> QED
      BY <2>2, <2>3
  <1>11. Val_long(w) = Val_long(n)
    BY ONLY n \in Int, <1>10, SameInt
  <1> QED
    BY ONLY <1>7, <1>11 DEF w

-----------------------------------------------------------------------------
(* Sums, differences and products *)

\* (2m + 1) + (2n + 1) - 1 = 2(m + n) + 1
LEMMA AddRight ==
  ASSUME NEW m \in Int, NEW n \in Int
  PROVE  addInt(Val_long(m), Val_long(n)) = Val_long(m + n)
  <1>1. PICK j \in Int : Val_long(m) = 2 * m + 1 + j * (4 * Quarter)
    BY ValLongOff
  <1>2. PICK k \in Int : Val_long(n) = 2 * n + 1 + k * (4 * Quarter)
    BY ValLongOff
  <1>3. Val_long(m) + Val_long(n) - 1 = (2 * (m + n) + 1) + (j + k) * (4 * Quarter)
    BY <1>1, <1>2, WordSize
  <1>4. 2 * (m + n) + 1 \in Int /\ j + k \in Int
    OBVIOUS
  <1> QED
    BY ONLY <1>3, <1>4, SameWord, ValLong DEF addInt

LEMMA SubRight ==
  ASSUME NEW m \in Int, NEW n \in Int
  PROVE  subInt(Val_long(m), Val_long(n)) = Val_long(m - n)
  <1>1. PICK j \in Int : Val_long(m) = 2 * m + 1 + j * (4 * Quarter)
    BY ValLongOff
  <1>2. PICK k \in Int : Val_long(n) = 2 * n + 1 + k * (4 * Quarter)
    BY ValLongOff
  <1>3. Val_long(m) - Val_long(n) + 1 = (2 * (m - n) + 1) + (j - k) * (4 * Quarter)
    BY <1>1, <1>2, WordSize
  <1>4. 2 * (m - n) + 1 \in Int /\ j - k \in Int
    OBVIOUS
  <1> QED
    BY ONLY <1>3, <1>4, SameWord, ValLong DEF subInt

LEMMA NegRight ==
  ASSUME NEW m \in Int
  PROVE  negInt(Val_long(m)) = Val_long(-m)
  <1>1. PICK j \in Int : Val_long(m) = 2 * m + 1 + j * (4 * Quarter)
    BY ValLongOff
  <1>2. 2 - Val_long(m) = (2 * (-m) + 1) + (-j) * (4 * Quarter)
    BY <1>1, WordSize
  <1>3. 2 * (-m) + 1 \in Int /\ -j \in Int
    OBVIOUS
  <1> QED
    BY ONLY <1>2, <1>3, SameWord, ValLong DEF negInt

LEMMA OffsetRight ==
  ASSUME NEW m \in Int, NEW n \in Int
  PROVE  offsetInt(Val_long(m), n) = Val_long(m + n)
  <1>1. PICK j \in Int : Val_long(m) = 2 * m + 1 + j * (4 * Quarter)
    BY ValLongOff
  <1>2. Val_long(m) + 2 * n = (2 * (m + n) + 1) + j * (4 * Quarter)
    BY <1>1, WordSize
  <1>3. 2 * (m + n) + 1 \in Int
    OBVIOUS
  <1> QED
    BY ONLY j \in Int, <1>2, <1>3, SameWord, ValLong DEF offsetInt

LEMMA MulRight ==
  ASSUME NEW m \in O!Ints, NEW n \in O!Ints
  PROVE  mulInt(Val_long(m), Val_long(n)) = Val_long(m * n)
  BY Signs DEF mulInt

LEMMA QuotientType ==
  ASSUME NEW a \in Int, NEW b \in Int, b # 0
  PROVE  /\ CDiv(a, b) = O!Quotient(a, b) /\ O!Quotient(a, b) \in Int
         /\ CMod(a, b) = O!Remainder(a, b)
  <1> DEFINE A == IF a < 0 THEN -a ELSE a
             B == IF b < 0 THEN -b ELSE b
             q == A \div B
  <1>1. q \in Int
    <2>1. A \in Int /\ B \in Nat /\ B > 0
      OBVIOUS
    <2> HIDE DEF A, B
    <2> QED
      BY ONLY <2>1, Division
  <1>2. O!Quotient(a, b) = IF (a < 0) = (b < 0) THEN q ELSE -q
    BY DEF O!Quotient, O!Magnitude
  <1>3. CDiv(a, b) = IF (a < 0) = (b < 0) THEN q ELSE -q
    BY DEF CDiv, Abs
  <1> HIDE DEF q
  <1>4. CDiv(a, b) = O!Quotient(a, b) /\ O!Quotient(a, b) \in Int
    BY ONLY <1>1, <1>2, <1>3
  <1> QED
    BY ONLY <1>4, Zenon DEF CMod, O!Remainder

\* The remainder is smaller than the divisor.
LEMMA RemainderSmall ==
  ASSUME NEW a \in O!Ints, NEW b \in O!Ints, b # 0
  PROVE  O!Remainder(a, b) \in O!Ints
  <1> DEFINE A == IF a < 0 THEN -a ELSE a
             B == IF b < 0 THEN -b ELSE b
             q == A \div B
             r == A % B
  <1>1. a \in Int /\ b \in Int /\ -Quarter <= b /\ b < Quarter
    BY IntsInInt
  <1>2. A \in Int /\ B \in Nat /\ B > 0 /\ B <= Quarter
    BY <1>1, Sizes
  <1>3. q \in Int /\ r \in 0 .. B - 1 /\ A = q * B + r
    <2> HIDE DEF A, B
    <2> QED
      BY ONLY <1>2, Division
  <1>4. O!Quotient(a, b) = IF (a < 0) = (b < 0) THEN q ELSE -q
    BY DEF O!Quotient, O!Magnitude
  <1> HIDE DEF q, r
  <1> DEFINE t == O!Quotient(a, b)
  <1>5. b * t = IF a < 0 THEN -(q * B) ELSE q * B
    <2>1. CASE a < 0 /\ b < 0
      BY <1>1, <1>3, <1>4, <2>1
    <2>2. CASE a < 0 /\ ~(b < 0)
      BY <1>1, <1>3, <1>4, <2>2
    <2>3. CASE ~(a < 0) /\ b < 0
      BY <1>1, <1>3, <1>4, <2>3
    <2>4. CASE ~(a < 0) /\ ~(b < 0)
      BY <1>1, <1>3, <1>4, <2>4
    <2> QED
      BY <2>1, <2>2, <2>3, <2>4
  <1>6. O!Remainder(a, b) = a - b * t
    BY DEF O!Remainder
  <1>7. q * B \in Int
    BY <1>2, <1>3
  <1>8. O!Remainder(a, b) = IF a < 0 THEN -r ELSE r
    <2> HIDE DEF t, B
    <2> QED
      BY ONLY <1>1, <1>3, <1>5, <1>6, <1>7 DEF A
  <1>9. -Quarter < -r /\ r < Quarter /\ r \in Nat
    <2> HIDE DEF A, B
    <2> QED
      BY <1>2, <1>3, Sizes
  <1> QED
    BY ONLY <1>8, <1>9, Sizes

-----------------------------------------------------------------------------
(* Operations on bits *)

\* A word that has the bits it should have is what the operator returns.
LEMMA AndIs ==
  ASSUME NEW x, NEW y, NEW w \in Words,
         \A k \in 0 .. W - 1 : Bit(w, k) = BitAnd(Bit(x, k), Bit(y, k))
  PROVE  And(x, y) = w
  <1> DEFINE v == And(x, y)
  <1>1. v \in Words /\ \A k \in 0 .. W - 1 : Bit(v, k) = BitAnd(Bit(x, k), Bit(y, k))
    BY DEF And, BitByBit
  <1> HIDE DEF v
  <1>2. \A k \in 0 .. W - 1 : Bit(v, k) = Bit(w, k)
    BY <1>1
  <1>3. W \in Nat
    BY WordAssumption
  <1>4. v = w
    BY ONLY <1>1, <1>2, <1>3, w \in Words, SameBits DEF Words
  <1> QED
    BY <1>4 DEF v

LEMMA OrIs ==
  ASSUME NEW x, NEW y, NEW w \in Words,
         \A k \in 0 .. W - 1 : Bit(w, k) = BitOr(Bit(x, k), Bit(y, k))
  PROVE  Or(x, y) = w
  <1> DEFINE v == Or(x, y)
  <1>1. v \in Words /\ \A k \in 0 .. W - 1 : Bit(v, k) = BitOr(Bit(x, k), Bit(y, k))
    BY DEF Or, BitByBit
  <1> HIDE DEF v
  <1>2. \A k \in 0 .. W - 1 : Bit(v, k) = Bit(w, k)
    BY <1>1
  <1>3. W \in Nat
    BY WordAssumption
  <1>4. v = w
    BY ONLY <1>1, <1>2, <1>3, w \in Words, SameBits DEF Words
  <1> QED
    BY <1>4 DEF v

LEMMA XorIs ==
  ASSUME NEW x, NEW y, NEW w \in Words,
         \A k \in 0 .. W - 1 : Bit(w, k) = BitXor(Bit(x, k), Bit(y, k))
  PROVE  Xor(x, y) = w
  <1> DEFINE v == Xor(x, y)
  <1>1. v \in Words /\ \A k \in 0 .. W - 1 : Bit(v, k) = BitXor(Bit(x, k), Bit(y, k))
    BY DEF Xor, BitByBit
  <1> HIDE DEF v
  <1>2. \A k \in 0 .. W - 1 : Bit(v, k) = Bit(w, k)
    BY <1>1
  <1>3. W \in Nat
    BY WordAssumption
  <1>4. v = w
    BY ONLY <1>1, <1>2, <1>3, w \in Words, SameBits DEF Words
  <1> QED
    BY <1>4 DEF v

\* The bits of a tagged word are the tag and the bits of the integer.
LEMMA BitsOfInt ==
  ASSUME NEW m \in Int
  PROVE  /\ Bit(Val_long(m), 0) = 1
         /\ \A k \in Nat : Bit(Val_long(m), k + 1) = O!Bit(m, k)
         /\ \A k \in Nat : O!Bit(m, k) \in {0, 1}
  <1> DEFINE r == m % (2 * Quarter)
  <1>1. Val_long(m) = 2 * r + 1 /\ O!Unsigned(m) = r /\ r \in Int
    BY ONLY m \in Int, ValLongIs
  <1> HIDE DEF r
  <1>2. Bit(2 * r + 1, 0) = 1 /\ \A k \in Nat : Bit(2 * r + 1, k + 1) = Bit(r, k)
    <2>1. 1 \in {0, 1}
      OBVIOUS
    <2> QED
      BY ONLY <1>1, <2>1, BitsOfDouble
  <1>3. ASSUME NEW k \in Nat PROVE Bit(r, k) = O!Bit(m, k) /\ O!Bit(m, k) \in {0, 1}
    <2>1. Bit(r, k) = O!Bit(m, k)
      BY ONLY <1>1, Zenon DEF Bit, O!Bit
    <2> QED
      BY ONLY <1>1, <2>1, k \in Nat, BitType
  <1> QED
    BY ONLY <1>1, <1>2, <1>3

\* A word that has the tag, and above it the bits of an integer, is its word.
LEMMA IntOfBits ==
  ASSUME NEW f \in [0 .. W - 2 -> {0, 1}]
  PROVE  \E i \in O!Ints : \A k \in 0 .. W - 2 : O!Bit(i, k) = f[k]
  <1>1. W - 1 \in Nat /\ (W - 1) - 1 = W - 2
    BY WordAssumption
  <1>2. PICK u \in 0 .. 2^(W - 1) - 1 : \A k \in 0 .. W - 2 : Bit(u, k) = f[k]
    <2>1. f \in [0 .. (W - 1) - 1 -> {0, 1}]
      BY <1>1
    <2>2. \E u \in 0 .. 2^(W - 1) - 1 : \A k \in 0 .. (W - 1) - 1 : Bit(u, k) = f[k]
      BY ONLY <1>1, <2>1, WordOfBits
    <2> QED
      BY ONLY <1>1, <2>2
  <1>3. u \in 0 .. 2 * Quarter - 1
    BY Sizes
  <1> DEFINE i == IF u < Quarter THEN u ELSE u - 2 * Quarter
  <1>4. i \in O!Ints /\ i \in Int
    BY <1>3, Sizes
  <1>5. i % (2 * Quarter) = u
    <2>1. i % (2 * Quarter) = IF i < 0 THEN i + 2 * Quarter ELSE i
      <3> HIDE DEF i
      <3> QED
        BY ONLY <1>4, Residue
    <2> QED
      BY ONLY <1>3, <1>4, <2>1, WordSize, Sizes
  <1> HIDE DEF i
  <1>6. O!Unsigned(i) = u
    BY ONLY <1>4, <1>5, ValLongIs
  <1>7. ASSUME NEW k \in 0 .. W - 2 PROVE O!Bit(i, k) = f[k]
    <2>1. O!Bit(i, k) = Bit(u, k)
      BY ONLY <1>6, Zenon DEF Bit, O!Bit
    <2> QED
      BY <1>2, <2>1
  <1> QED
    BY <1>4, <1>7

LEMMA BothRight ==
  ASSUME NEW m \in Int, NEW n \in Int
  PROVE  /\ O!Bitwise(O!Both, m, n) \in O!Ints
         /\ \A k \in 0 .. W - 2 :
              O!Bit(O!Bitwise(O!Both, m, n), k) = O!Both(O!Bit(m, k), O!Bit(n, k))
  <1> DEFINE f == [k \in 0 .. W - 2 |-> O!Both(O!Bit(m, k), O!Bit(n, k))]
             i == O!Bitwise(O!Both, m, n)
  <1>1. ASSUME NEW k \in 0 .. W - 2 PROVE O!Both(O!Bit(m, k), O!Bit(n, k)) \in {0, 1}
    <2>1. k \in Nat
      OBVIOUS
    <2>2. O!Bit(m, k) \in {0, 1} /\ O!Bit(n, k) \in {0, 1}
      BY ONLY m \in Int, n \in Int, <2>1, BitsOfInt
    <2> QED
      BY ONLY <2>2 DEF O!Both
  <1>2. PICK j \in O!Ints : \A k \in 0 .. W - 2 : O!Bit(j, k) = f[k]
    BY <1>1, IntOfBits
  <1>3. \A k \in 0 .. W - 2 : O!Bit(j, k) = O!Both(O!Bit(m, k), O!Bit(n, k))
    BY <1>2
  <1>4. (W - 1) - 1 = W - 2
    BY WordAssumption
  <1>5. \A k \in 0 .. (W - 1) - 1 : O!Bit(j, k) = O!Both(O!Bit(m, k), O!Bit(n, k))
    BY ONLY <1>3, <1>4
  <1>6. i \in O!Ints /\ \A k \in 0 .. (W - 1) - 1 : O!Bit(i, k) = O!Both(O!Bit(m, k), O!Bit(n, k))
    BY ONLY <1>5, j \in O!Ints, Zenon DEF O!Bitwise
  <1> HIDE DEF i
  <1>7. i \in O!Ints /\ \A k \in 0 .. W - 2 : O!Bit(i, k) = O!Both(O!Bit(m, k), O!Bit(n, k))
    BY ONLY <1>4, <1>6
  <1> QED
    BY ONLY <1>7 DEF i

LEMMA EitherRight ==
  ASSUME NEW m \in Int, NEW n \in Int
  PROVE  /\ O!Bitwise(O!Either, m, n) \in O!Ints
         /\ \A k \in 0 .. W - 2 :
              O!Bit(O!Bitwise(O!Either, m, n), k) = O!Either(O!Bit(m, k), O!Bit(n, k))
  <1> DEFINE f == [k \in 0 .. W - 2 |-> O!Either(O!Bit(m, k), O!Bit(n, k))]
             i == O!Bitwise(O!Either, m, n)
  <1>1. ASSUME NEW k \in 0 .. W - 2 PROVE O!Either(O!Bit(m, k), O!Bit(n, k)) \in {0, 1}
    <2>1. k \in Nat
      OBVIOUS
    <2>2. O!Bit(m, k) \in {0, 1} /\ O!Bit(n, k) \in {0, 1}
      BY ONLY m \in Int, n \in Int, <2>1, BitsOfInt
    <2> QED
      BY ONLY <2>2 DEF O!Either
  <1>2. PICK j \in O!Ints : \A k \in 0 .. W - 2 : O!Bit(j, k) = f[k]
    BY <1>1, IntOfBits
  <1>3. \A k \in 0 .. W - 2 : O!Bit(j, k) = O!Either(O!Bit(m, k), O!Bit(n, k))
    BY <1>2
  <1>4. (W - 1) - 1 = W - 2
    BY WordAssumption
  <1>5. \A k \in 0 .. (W - 1) - 1 : O!Bit(j, k) = O!Either(O!Bit(m, k), O!Bit(n, k))
    BY ONLY <1>3, <1>4
  <1>6. i \in O!Ints /\ \A k \in 0 .. (W - 1) - 1 : O!Bit(i, k) = O!Either(O!Bit(m, k), O!Bit(n, k))
    BY ONLY <1>5, j \in O!Ints, Zenon DEF O!Bitwise
  <1> HIDE DEF i
  <1>7. i \in O!Ints /\ \A k \in 0 .. W - 2 : O!Bit(i, k) = O!Either(O!Bit(m, k), O!Bit(n, k))
    BY ONLY <1>4, <1>6
  <1> QED
    BY ONLY <1>7 DEF i

LEMMA OneOfRight ==
  ASSUME NEW m \in Int, NEW n \in Int
  PROVE  /\ O!Bitwise(O!OneOf, m, n) \in O!Ints
         /\ \A k \in 0 .. W - 2 :
              O!Bit(O!Bitwise(O!OneOf, m, n), k) = O!OneOf(O!Bit(m, k), O!Bit(n, k))
  <1> DEFINE f == [k \in 0 .. W - 2 |-> O!OneOf(O!Bit(m, k), O!Bit(n, k))]
             i == O!Bitwise(O!OneOf, m, n)
  <1>1. ASSUME NEW k \in 0 .. W - 2 PROVE O!OneOf(O!Bit(m, k), O!Bit(n, k)) \in {0, 1}
    <2>1. k \in Nat
      OBVIOUS
    <2>2. O!Bit(m, k) \in {0, 1} /\ O!Bit(n, k) \in {0, 1}
      BY ONLY m \in Int, n \in Int, <2>1, BitsOfInt
    <2> QED
      BY ONLY <2>2 DEF O!OneOf
  <1>2. PICK j \in O!Ints : \A k \in 0 .. W - 2 : O!Bit(j, k) = f[k]
    BY <1>1, IntOfBits
  <1>3. \A k \in 0 .. W - 2 : O!Bit(j, k) = O!OneOf(O!Bit(m, k), O!Bit(n, k))
    BY <1>2
  <1>4. (W - 1) - 1 = W - 2
    BY WordAssumption
  <1>5. \A k \in 0 .. (W - 1) - 1 : O!Bit(j, k) = O!OneOf(O!Bit(m, k), O!Bit(n, k))
    BY ONLY <1>3, <1>4
  <1>6. i \in O!Ints /\ \A k \in 0 .. (W - 1) - 1 : O!Bit(i, k) = O!OneOf(O!Bit(m, k), O!Bit(n, k))
    BY ONLY <1>5, j \in O!Ints, Zenon DEF O!Bitwise
  <1> HIDE DEF i
  <1>7. i \in O!Ints /\ \A k \in 0 .. W - 2 : O!Bit(i, k) = O!OneOf(O!Bit(m, k), O!Bit(n, k))
    BY ONLY <1>4, <1>6
  <1> QED
    BY ONLY <1>7 DEF i

\* An operation on tagged words, one bit after the other
LEMMA TaggedBits ==
  ASSUME NEW i \in Int, NEW c \in {0, 1}, NEW f \in [0 .. W - 1 -> {0, 1}],
         f[0] = c, \A k \in 0 .. W - 2 : f[k + 1] = O!Bit(i, k)
  PROVE  /\ 2 * (i % (2 * Quarter)) + c \in Words
         /\ \A k \in 0 .. W - 1 : Bit(2 * (i % (2 * Quarter)) + c, k) = f[k]
  <1> DEFINE r == i % (2 * Quarter)
  <1>1. O!Unsigned(i) = r /\ r \in 0 .. 2 * Quarter - 1 /\ r \in Int
    BY ONLY i \in Int, ValLongIs
  <1> HIDE DEF r
  <1>2. 2 * r + c \in Words
    BY <1>1, WordsAre, Sizes
  <1>3. ASSUME NEW k \in 0 .. W - 1 PROVE Bit(2 * r + c, k) = f[k]
    <2>1. CASE k = 0
      BY ONLY <1>1, <2>1, c \in {0, 1}, f[0] = c, BitsOfDouble
    <2>2. CASE k # 0
      <3>1. k - 1 \in Nat /\ k - 1 \in 0 .. W - 2 /\ (k - 1) + 1 = k
        BY <2>2, WordAssumption
      <3>2. Bit(2 * r + c, (k - 1) + 1) = Bit(r, k - 1)
        BY ONLY <1>1, <3>1, c \in {0, 1}, BitsOfDouble
      <3>3. Bit(r, k - 1) = O!Bit(i, k - 1)
        BY ONLY <1>1, Zenon DEF Bit, O!Bit
      <3>4. f[(k - 1) + 1] = O!Bit(i, k - 1)
        BY <3>1
      <3> QED
        BY ONLY <3>1, <3>2, <3>3, <3>4, Zenon
    <2> QED
      BY <2>1, <2>2
  <1> QED
    BY <1>2, <1>3 DEF r

\* The tags survive an and, the other bits are those of the integers.
LEMMA AndRight ==
  ASSUME NEW m \in O!Ints, NEW n \in O!Ints
  PROVE  /\ O!Bitwise(O!Both, m, n) \in O!Ints
         /\ andInt(Val_long(m), Val_long(n)) = Val_long(O!Bitwise(O!Both, m, n))
  <1> DEFINE i == O!Bitwise(O!Both, m, n)
             a == Val_long(m)
             b == Val_long(n)
             f == [k \in 0 .. W - 1 |-> BitAnd(Bit(a, k), Bit(b, k))]
  <1>1. m \in Int /\ n \in Int
    BY IntsInInt
  <1>2. /\ i \in O!Ints
        /\ \A k \in 0 .. W - 2 : O!Bit(i, k) = O!Both(O!Bit(m, k), O!Bit(n, k))
    BY ONLY <1>1, BothRight
  <1>3. /\ Bit(a, 0) = 1 /\ \A k \in Nat : Bit(a, k + 1) = O!Bit(m, k)
        /\ Bit(b, 0) = 1 /\ \A k \in Nat : Bit(b, k + 1) = O!Bit(n, k)
        /\ \A k \in Nat : O!Bit(m, k) \in {0, 1} /\ O!Bit(n, k) \in {0, 1}
    BY ONLY <1>1, BitsOfInt
  <1> HIDE DEF i, a, b
  <1>4. f \in [0 .. W - 1 -> {0, 1}]
    BY DEF BitAnd
  <1>5. 0 \in 0 .. W - 1 /\ W \in Nat
    BY WordAssumption
  <1>6. f[0] = 1
    BY <1>3, <1>5 DEF BitAnd
  <1>7. ASSUME NEW k \in 0 .. W - 2 PROVE f[k + 1] = O!Bit(i, k)
    <2>1. k \in Nat /\ k + 1 \in 0 .. W - 1
      BY <1>5
    <2>2. f[k + 1] = BitAnd(O!Bit(m, k), O!Bit(n, k))
      BY <1>3, <2>1
    <2>3. BitAnd(O!Bit(m, k), O!Bit(n, k)) = O!Both(O!Bit(m, k), O!Bit(n, k))
      <3>1. O!Bit(m, k) \in {0, 1} /\ O!Bit(n, k) \in {0, 1}
        BY <1>3, <2>1
      <3> QED
        BY ONLY <3>1 DEF BitAnd, O!Both
    <2> QED
      BY ONLY <1>2, <2>2, <2>3, k \in 0 .. W - 2
  <1>8. i \in Int
    BY ONLY <1>2, IntsInInt
  <1> DEFINE w == 2 * (i % (2 * Quarter)) + 1
  <1>9. w \in Words /\ \A k \in 0 .. W - 1 : Bit(w, k) = f[k]
    <2>1. 1 \in {0, 1}
      OBVIOUS
    <2> HIDE DEF f
    <2> QED
      BY ONLY <1>4, <1>6, <1>7, <1>8, <2>1, TaggedBits
  <1> HIDE DEF w
  <1>10. \A k \in 0 .. W - 1 : Bit(w, k) = BitAnd(Bit(a, k), Bit(b, k))
    BY <1>9
  <1>11. And(a, b) = w
    BY ONLY <1>9, <1>10, AndIs
  <1>12. w = Val_long(i)
    BY ONLY <1>8, ValLongIs DEF w
  <1> QED
    BY ONLY <1>2, <1>11, <1>12, Zenon DEF andInt, i, a, b

LEMMA OrRight ==
  ASSUME NEW m \in O!Ints, NEW n \in O!Ints
  PROVE  /\ O!Bitwise(O!Either, m, n) \in O!Ints
         /\ orInt(Val_long(m), Val_long(n)) = Val_long(O!Bitwise(O!Either, m, n))
  <1> DEFINE i == O!Bitwise(O!Either, m, n)
             a == Val_long(m)
             b == Val_long(n)
             f == [k \in 0 .. W - 1 |-> BitOr(Bit(a, k), Bit(b, k))]
  <1>1. m \in Int /\ n \in Int
    BY IntsInInt
  <1>2. /\ i \in O!Ints
        /\ \A k \in 0 .. W - 2 : O!Bit(i, k) = O!Either(O!Bit(m, k), O!Bit(n, k))
    BY ONLY <1>1, EitherRight
  <1>3. /\ Bit(a, 0) = 1 /\ \A k \in Nat : Bit(a, k + 1) = O!Bit(m, k)
        /\ Bit(b, 0) = 1 /\ \A k \in Nat : Bit(b, k + 1) = O!Bit(n, k)
        /\ \A k \in Nat : O!Bit(m, k) \in {0, 1} /\ O!Bit(n, k) \in {0, 1}
    BY ONLY <1>1, BitsOfInt
  <1> HIDE DEF i, a, b
  <1>4. f \in [0 .. W - 1 -> {0, 1}]
    BY DEF BitOr
  <1>5. 0 \in 0 .. W - 1 /\ W \in Nat
    BY WordAssumption
  <1>6. f[0] = 1
    BY <1>3, <1>5 DEF BitOr
  <1>7. ASSUME NEW k \in 0 .. W - 2 PROVE f[k + 1] = O!Bit(i, k)
    <2>1. k \in Nat /\ k + 1 \in 0 .. W - 1
      BY <1>5
    <2>2. f[k + 1] = BitOr(O!Bit(m, k), O!Bit(n, k))
      BY <1>3, <2>1
    <2>3. BitOr(O!Bit(m, k), O!Bit(n, k)) = O!Either(O!Bit(m, k), O!Bit(n, k))
      <3>1. O!Bit(m, k) \in {0, 1} /\ O!Bit(n, k) \in {0, 1}
        BY <1>3, <2>1
      <3> QED
        BY ONLY <3>1 DEF BitOr, O!Either
    <2> QED
      BY ONLY <1>2, <2>2, <2>3, k \in 0 .. W - 2
  <1>8. i \in Int
    BY ONLY <1>2, IntsInInt
  <1> DEFINE w == 2 * (i % (2 * Quarter)) + 1
  <1>9. w \in Words /\ \A k \in 0 .. W - 1 : Bit(w, k) = f[k]
    <2>1. 1 \in {0, 1}
      OBVIOUS
    <2> HIDE DEF f
    <2> QED
      BY ONLY <1>4, <1>6, <1>7, <1>8, <2>1, TaggedBits
  <1> HIDE DEF w
  <1>10. \A k \in 0 .. W - 1 : Bit(w, k) = BitOr(Bit(a, k), Bit(b, k))
    BY <1>9
  <1>11. Or(a, b) = w
    BY ONLY <1>9, <1>10, OrIs
  <1>12. w = Val_long(i)
    BY ONLY <1>8, ValLongIs DEF w
  <1> QED
    BY ONLY <1>2, <1>11, <1>12, Zenon DEF orInt, i, a, b

LEMMA NoBits == ASSUME NEW k \in Nat PROVE Bit(0, k) = 0
  <1>1. 2^k \in Nat /\ 2^k > 0
    BY PowerNatural
  <1>2. 0 \in Int /\ 0 \in 0 .. 2^k - 1 /\ 0 * 2^k + 0 = 0
    BY ONLY <1>1
  <1>3. (0 * 2^k + 0) \div 2^k = 0
    BY ONLY <1>1, <1>2, DivisionUnique
  <1>4. 0 \div 2^k = 0 /\ 0 % 2 = 0
    BY ONLY <1>2, <1>3
  <1> QED
    BY ONLY <1>4, Zenon DEF Bit

\* | 1 puts the tag in.
LEMMA OrOne ==
  ASSUME NEW v \in 0 .. 2 * Quarter - 1, NEW c \in {0, 1}
  PROVE  Or(2 * v + c, 1) = 2 * v + 1
  <1>1. v \in Int /\ 2 * v + 1 \in Words
    BY WordsAre, Sizes
  <1>2. ASSUME NEW k \in 0 .. W - 1
        PROVE  Bit(2 * v + 1, k) = BitOr(Bit(2 * v + c, k), Bit(1, k))
    <2>1. CASE k = 0
      <3>1. Bit(2 * v + 1, 0) = 1 /\ Bit(2 * 0 + 1, 0) = 1
        <4>1. 0 \in Int /\ 1 \in {0, 1}
          OBVIOUS
        <4> QED
          BY ONLY <1>1, <4>1, BitsOfDouble
      <3>2. Bit(1, 0) = 1
        BY ONLY <3>1
      <3> QED
        BY ONLY <2>1, <3>1, <3>2 DEF BitOr
    <2>2. CASE k # 0
      <3>1. k - 1 \in Nat /\ (k - 1) + 1 = k
        BY <2>2, WordAssumption
      <3>2. /\ Bit(2 * v + 1, (k - 1) + 1) = Bit(v, k - 1)
            /\ Bit(2 * v + c, (k - 1) + 1) = Bit(v, k - 1)
            /\ Bit(2 * 0 + 1, (k - 1) + 1) = Bit(0, k - 1)
        <4>1. 0 \in Int /\ 1 \in {0, 1}
          OBVIOUS
        <4> QED
          BY ONLY <1>1, <3>1, <4>1, c \in {0, 1}, BitsOfDouble
      <3>3. 2 * 0 + 1 = 1
        OBVIOUS
      <3>4. Bit(0, k - 1) = 0
        BY ONLY <3>1, NoBits
      <3>5. Bit(v, k - 1) \in {0, 1}
        BY ONLY <1>1, <3>1, BitType
      <3>6. /\ Bit(2 * v + 1, k) = Bit(v, k - 1)
            /\ Bit(2 * v + c, k) = Bit(v, k - 1)
            /\ Bit(1, k) = 0
        BY ONLY <3>1, <3>2, <3>3, <3>4, Zenon
      <3> QED
        BY ONLY <3>5, <3>6 DEF BitOr
    <2> QED
      BY <2>1, <2>2
  <1> QED
    BY ONLY <1>1, <1>2, OrIs

LEMMA XorRight ==
  ASSUME NEW m \in O!Ints, NEW n \in O!Ints
  PROVE  /\ O!Bitwise(O!OneOf, m, n) \in O!Ints
         /\ xorInt(Val_long(m), Val_long(n)) = Val_long(O!Bitwise(O!OneOf, m, n))
  <1> DEFINE i == O!Bitwise(O!OneOf, m, n)
             a == Val_long(m)
             b == Val_long(n)
             f == [k \in 0 .. W - 1 |-> BitXor(Bit(a, k), Bit(b, k))]
  <1>1. m \in Int /\ n \in Int
    BY IntsInInt
  <1>2. /\ i \in O!Ints
        /\ \A k \in 0 .. W - 2 : O!Bit(i, k) = O!OneOf(O!Bit(m, k), O!Bit(n, k))
    BY ONLY <1>1, OneOfRight
  <1>3. /\ Bit(a, 0) = 1 /\ \A k \in Nat : Bit(a, k + 1) = O!Bit(m, k)
        /\ Bit(b, 0) = 1 /\ \A k \in Nat : Bit(b, k + 1) = O!Bit(n, k)
        /\ \A k \in Nat : O!Bit(m, k) \in {0, 1} /\ O!Bit(n, k) \in {0, 1}
    BY ONLY <1>1, BitsOfInt
  <1> HIDE DEF i, a, b
  <1>4. f \in [0 .. W - 1 -> {0, 1}]
    BY DEF BitXor
  <1>5. 0 \in 0 .. W - 1 /\ W \in Nat
    BY WordAssumption
  <1>6. f[0] = 0
    BY <1>3, <1>5 DEF BitXor
  <1>7. ASSUME NEW k \in 0 .. W - 2 PROVE f[k + 1] = O!Bit(i, k)
    <2>1. k \in Nat /\ k + 1 \in 0 .. W - 1
      BY <1>5
    <2>2. f[k + 1] = BitXor(O!Bit(m, k), O!Bit(n, k))
      BY <1>3, <2>1
    <2>3. BitXor(O!Bit(m, k), O!Bit(n, k)) = O!OneOf(O!Bit(m, k), O!Bit(n, k))
      <3>1. O!Bit(m, k) \in {0, 1} /\ O!Bit(n, k) \in {0, 1}
        BY <1>3, <2>1
      <3> QED
        BY ONLY <3>1 DEF BitXor, O!OneOf
    <2> QED
      BY ONLY <1>2, <2>2, <2>3, k \in 0 .. W - 2
  <1>8. i \in Int
    BY ONLY <1>2, IntsInInt
  <1> DEFINE w == 2 * (i % (2 * Quarter)) + 0
  <1>9. w \in Words /\ \A k \in 0 .. W - 1 : Bit(w, k) = f[k]
    <2>1. 0 \in {0, 1}
      OBVIOUS
    <2> HIDE DEF f
    <2> QED
      BY ONLY <1>4, <1>6, <1>7, <1>8, <2>1, TaggedBits
  <1> HIDE DEF w
  <1>10. \A k \in 0 .. W - 1 : Bit(w, k) = BitXor(Bit(a, k), Bit(b, k))
    BY <1>9
  <1>11. Xor(a, b) = w
    BY ONLY <1>9, <1>10, XorIs
  <1>12. i % (2 * Quarter) \in 0 .. 2 * Quarter - 1 /\ Val_long(i) = 2 * (i % (2 * Quarter)) + 1
    BY ONLY <1>8, ValLongIs
  <1>13. Or(w, 1) = Val_long(i)
    <2>1. 0 \in {0, 1}
      OBVIOUS
    <2> QED
      BY ONLY <1>12, <2>1, OrOne DEF w
  <1> QED
    BY ONLY <1>2, <1>11, <1>13, Zenon DEF xorInt, i, a, b

LEMMA IsIntRight == ASSUME NEW m \in Int PROVE isInt(Val_long(m)) = Val_long(1)
  <1> DEFINE a == Val_long(m)
  <1>1. Bit(a, 0) = 1 /\ \A k \in Nat : Bit(a, k + 1) = O!Bit(m, k) /\ O!Bit(m, k) \in {0, 1}
    BY ONLY m \in Int, BitsOfInt
  <1> HIDE DEF a
  <1>2. Bit(1, 0) = 1 /\ \A k \in Nat : Bit(1, k + 1) = 0
    <2>1. 0 \in Int /\ 1 \in {0, 1}
      OBVIOUS
    <2>2. Bit(2 * 0 + 1, 0) = 1 /\ \A k \in Nat : Bit(2 * 0 + 1, k + 1) = Bit(0, k)
      BY ONLY <2>1, BitsOfDouble
    <2>3. 2 * 0 + 1 = 1
      OBVIOUS
    <2>4. ASSUME NEW k \in Nat PROVE Bit(0, k) = 0
      BY NoBits
    <2> QED
      BY ONLY <2>2, <2>3, <2>4
  <1>3. ASSUME NEW k \in 0 .. W - 1 PROVE Bit(1, k) = BitAnd(Bit(a, k), Bit(1, k))
    <2>1. CASE k = 0
      BY ONLY <1>1, <1>2, <2>1 DEF BitAnd
    <2>2. CASE k # 0
      <3>1. k - 1 \in Nat /\ (k - 1) + 1 = k
        BY <2>2, WordAssumption
      <3>2. Bit(1, (k - 1) + 1) = 0
        BY ONLY <1>2, <3>1
      <3>3. Bit(1, k) = 0
        BY ONLY <3>1, <3>2, Zenon
      <3> QED
        BY ONLY <3>3 DEF BitAnd
    <2> QED
      BY <2>1, <2>2
  <1>4. 1 \in Words
    BY WordsAre, Sizes
  <1>5. And(a, 1) = 1
    BY ONLY <1>3, <1>4, AndIs
  <1> QED
    BY ONLY <1>5, Zenon DEF isInt, a

-----------------------------------------------------------------------------
(* Shifts *)

LEMMA ShiftPower ==
  ASSUME NEW n \in O!Ints, n >= 0
  PROVE  n \in Nat /\ 2^n \in Nat /\ 2^n > 0 /\ Long_val(Val_long(n)) = n
  <1>1. n \in Nat
    BY IntsInInt
  <1> QED
    BY ONLY n \in O!Ints, <1>1, PowerNatural, Signs

\* The tag is taken off before the shift and put back after it.
LEMMA LslRight ==
  ASSUME NEW m \in O!Ints, NEW n \in O!Ints, n >= 0
  PROVE  lslInt(Val_long(m), Val_long(n)) = Val_long(m * 2^n) /\ m * 2^n \in Int
  <1> DEFINE s == 2^n
  <1>1. s \in Nat /\ s > 0 /\ m \in Int
    BY ShiftPower, IntsInInt
  <1>2. lslInt(Val_long(m), Val_long(n)) = Word((Val_long(m) - 1) * s + 1)
    BY ShiftPower, Zenon DEF lslInt
  <1> HIDE DEF s
  <1>3. PICK k \in Int : Val_long(m) = 2 * m + 1 + k * (4 * Quarter)
    BY <1>1, ValLongOff
  <1>4. (Val_long(m) - 1) * s + 1 = (2 * (m * s) + 1) + (k * s) * (4 * Quarter)
    <2>1. Val_long(m) - 1 = 2 * m + k * (4 * Quarter)
      BY ONLY <1>1, <1>3, WordSize
    <2>2. (2 * m + k * (4 * Quarter)) * s + 1 = (2 * (m * s) + 1) + (k * s) * (4 * Quarter)
      BY ONLY <1>1, k \in Int, WordSize
    <2> QED
      BY ONLY <2>1, <2>2
  <1>5. 2 * (m * s) + 1 \in Int /\ k * s \in Int /\ m * s \in Int
    BY <1>1
  <1> QED
    BY ONLY <1>2, <1>4, <1>5, SameWord, ValLong DEF s

\* Taking the last bit off commutes with a shift to the right.
LEMMA HalfOfShifted ==
  ASSUME NEW s \in Nat, s > 0, NEW x \in Int
  PROVE  ((2 * x) \div s) \div 2 = x \div s /\ (2 * x) \div s \in Int
  <1>1. 2 * x \in Int /\ 2 \in Nat /\ 2 > 0 /\ s * 2 = 2 * s
    OBVIOUS
  <1>2. ((2 * x) \div s) \div 2 = (2 * x) \div (s * 2)
    BY ONLY <1>1, s \in Nat, s > 0, TwiceDivided
  <1>3. ((2 * x) \div 2) \div s = (2 * x) \div (2 * s)
    BY ONLY <1>1, s \in Nat, s > 0, TwiceDivided
  <1>4. (2 * x) \div 2 = x
    OBVIOUS
  <1>5. (2 * x) \div s \in Int
    BY ONLY <1>1, s \in Nat, s > 0, Division
  <1> QED
    BY ONLY <1>1, <1>2, <1>3, <1>4, <1>5, Zenon

\* What | 1 makes of any word
LEMMA Retagged ==
  ASSUME NEW x \in Words
  PROVE  Or(x, 1) = Val_long(x \div 2) /\ x \div 2 \in Int
  <1> DEFINE v == x \div 2
             c == x % 2
  <1>1. x \in Int /\ v \in Int /\ c \in {0, 1} /\ x = 2 * v + c /\ v \in 0 .. 2 * Quarter - 1
    <2>1. x \in 0 .. 4 * Quarter - 1
      BY WordsAre
    <2> QED
      BY ONLY <2>1, Sizes
  <1> HIDE DEF v, c
  <1>2. Or(x, 1) = 2 * v + 1
    BY ONLY <1>1, OrOne
  <1>3. v % (2 * Quarter) = v
    <2>1. (0 * (2 * Quarter) + v) % (2 * Quarter) = v
      <3>1. 0 \in Int
        OBVIOUS
      <3> QED
        BY ONLY <1>1, <3>1, WordSize, DivisionUnique
    <2>2. 0 * (2 * Quarter) + v = v
      BY <1>1, WordSize
    <2> QED
      BY ONLY <2>1, <2>2
  <1>4. Val_long(v) = 2 * v + 1
    BY ONLY <1>1, <1>3, ValLongIs
  <1> QED
    BY ONLY <1>1, <1>2, <1>4 DEF v

LEMMA Untagged ==
  ASSUME NEW m \in Int
  PROVE  Word(Val_long(m) - 1) = 2 * (m % (2 * Quarter))
  <1> DEFINE r == m % (2 * Quarter)
  <1>1. Val_long(m) = 2 * r + 1 /\ r \in 0 .. 2 * Quarter - 1
    BY ONLY m \in Int, ValLongIs
  <1> HIDE DEF r
  <1>2. Val_long(m) - 1 = 0 * (4 * Quarter) + 2 * r /\ 2 * r \in 0 .. 4 * Quarter - 1 /\ 0 \in Int
    BY ONLY <1>1, Sizes
  <1>3. (0 * (4 * Quarter) + 2 * r) % (4 * Quarter) = 2 * r
    BY ONLY <1>2, WordSize, DivisionUnique
  <1> QED
    BY ONLY <1>2, <1>3, WordIs, Zenon DEF r

LEMMA LsrRight ==
  ASSUME NEW m \in O!Ints, NEW n \in O!Ints, n >= 0
  PROVE  /\ lsrInt(Val_long(m), Val_long(n)) = Val_long(O!Unsigned(m) \div 2^n)
         /\ O!Unsigned(m) \div 2^n \in Int
  <1> DEFINE s == 2^n
             r == m % (2 * Quarter)
             x == (2 * r) \div s
  <1>1. s \in Nat /\ s > 0 /\ m \in Int
    BY ShiftPower, IntsInInt
  <1>2. O!Unsigned(m) = r /\ r \in 0 .. 2 * Quarter - 1 /\ r \in Int
    BY ONLY <1>1, ValLongIs
  <1>3. lsrInt(Val_long(m), Val_long(n)) = Or(x, 1)
    BY ONLY <1>1, n \in O!Ints, n >= 0, ShiftPower, Untagged, Zenon DEF lsrInt
  <1> HIDE DEF s, r
  <1>4. x \div 2 = r \div s /\ x \in Int
    BY ONLY <1>1, <1>2, HalfOfShifted
  <1>5. x \in Words
    <2>1. 2 * r \in Int /\ 0 <= 2 * r /\ 2 * r < 4 * Quarter
      BY ONLY <1>2, Sizes
    <2> DEFINE t == (2 * r) % s
    <2>2. t \in 0 .. s - 1 /\ 2 * r = x * s + t
      BY ONLY <1>1, <2>1, Division
    <2> HIDE DEF x, t
    <2>3. x >= 0
      BY ONLY <1>1, <1>4, <2>1, <2>2
    <2>4. x <= x * s
      BY ONLY <1>1, <1>4, <2>3
    <2>5. x * s \in Int
      BY ONLY <1>1, <1>4
    <2>6. x < 4 * Quarter
      BY ONLY <1>1, <1>4, <2>1, <2>2, <2>4, <2>5, WordSize
    <2> QED
      BY ONLY <1>4, <2>3, <2>6, WordsAre, WordSize
  <1> HIDE DEF x
  <1>6. Or(x, 1) = Val_long(x \div 2) /\ x \div 2 \in Int
    BY ONLY <1>5, Retagged
  <1> QED
    BY ONLY <1>2, <1>3, <1>4, <1>6, Zenon DEF s

LEMMA AsrRight ==
  ASSUME NEW m \in O!Ints, NEW n \in O!Ints, n >= 0
  PROVE  /\ asrInt(Val_long(m), Val_long(n)) = Val_long(m \div 2^n)
         /\ m \div 2^n \in O!Ints
  <1> DEFINE s == 2^n
             r == m % (2 * Quarter)
             x == (2 * m) \div s
  <1>1. s \in Nat /\ s > 0 /\ m \in Int /\ -Quarter <= m /\ m < Quarter
    BY ShiftPower, IntsInInt
  <1>2. Signed(2 * r) = 2 * m
    <2>1. r = IF m < 0 THEN m + 2 * Quarter ELSE m
      BY Residue
    <2>2. Signed(2 * r) = IF 2 * r >= 2 * Quarter THEN 2 * r - 4 * Quarter ELSE 2 * r
      BY Sizes, Zenon DEF Signed
    <2> HIDE DEF r
    <2> QED
      BY ONLY <1>1, <2>1, <2>2, WordSize, Sizes
  <1>3. asrInt(Val_long(m), Val_long(n)) = Or(Word(x), 1)
    BY ONLY <1>1, <1>2, n \in O!Ints, n >= 0, ShiftPower, Untagged, Zenon DEF asrInt
  <1> HIDE DEF s, r
  <1>4. x \div 2 = m \div s /\ x \in Int
    BY ONLY <1>1, HalfOfShifted
  <1> HIDE DEF x
  <1>5. PICK k \in Int : Word(x) = x + k * (4 * Quarter)
    BY ONLY <1>4, WordOff
  <1>6. Word(x) \in Words
    BY ONLY <1>4, WordOff
  <1>7. Word(x) \div 2 = x \div 2 + k * (2 * Quarter) /\ x \div 2 \in Int
    <2>1. k * (4 * Quarter) = 2 * (k * (2 * Quarter)) /\ k * (2 * Quarter) \in Int
      BY WordSize, Sizes
    <2> DEFINE j == k * (2 * Quarter)
    <2>2. j \in Int /\ Word(x) = x + 2 * j
      BY ONLY <1>5, <2>1
    <2> HIDE DEF j
    <2>3. (x + 2 * j) \div 2 = x \div 2 + j /\ x \div 2 \in Int
      BY ONLY <1>4, <2>2
    <2> QED
      BY ONLY <2>2, <2>3 DEF j
  <1>8. Or(Word(x), 1) = Val_long(x \div 2)
    BY ONLY <1>6, <1>7, k \in Int, Retagged, SameInt
  <1>9. m \div s \in O!Ints
    <2> DEFINE q == m \div s
               t == m % s
    <2>1. q \in Int /\ t \in 0 .. s - 1 /\ m = q * s + t
      BY ONLY <1>1, Division
    <2> HIDE DEF q, t
    <2>2. q * s \in Int
      BY ONLY <1>1, <2>1
    <2>3. CASE q >= 0
      <3>1. q <= q * s
        BY ONLY <1>1, <2>1, <2>3
      <3> QED
        BY ONLY <1>1, <2>1, <2>2, <2>3, <3>1, Sizes DEF q
    <2>4. CASE q < 0
      <3>1. (q + 1) * s <= q + 1
        BY ONLY <1>1, <2>1, <2>4
      <3>2. (q + 1) * s = q * s + s
        BY ONLY <1>1, <2>1
      <3>3. m < (q + 1) * s
        BY ONLY <1>1, <2>1, <2>2, <3>2
      <3>4. m <= q
        BY ONLY <1>1, <2>1, <2>2, <3>1, <3>2, <3>3
      <3> QED
        BY ONLY <1>1, <2>1, <2>4, <3>4, Sizes DEF q
    <2> QED
      BY ONLY <2>1, <2>3, <2>4
  <1> QED
    BY ONLY <1>3, <1>4, <1>8, <1>9, Zenon DEF s

-----------------------------------------------------------------------------
(* Comparisons *)

LEMMA TruthRight ==
  ASSUME NEW t
  PROVE  Val_bool(t) = Val_long(O!Truth(t)) /\ O!Truth(t) \in O!Ints
  <1>1. O!Truth(t) = IF t THEN 1 ELSE 0
    BY DEF O!Truth
  <1>2. Val_bool(t) = IF t THEN Val_long(1) ELSE Val_long(0)
    BY DEF Val_bool
  <1>3. 0 \in O!Ints /\ 1 \in O!Ints
    BY Sizes
  <1> QED
    BY ONLY <1>1, <1>2, <1>3

\* Tagged words are ordered as the integers are, signed and unsigned.
LEMMA OrderKept ==
  ASSUME NEW m \in O!Ints, NEW n \in O!Ints
  PROVE  /\ (Signed(Val_long(m)) = Signed(Val_long(n))) <=> m = n
         /\ (Signed(Val_long(m)) < Signed(Val_long(n))) <=> m < n
         /\ (Signed(Val_long(m)) <= Signed(Val_long(n))) <=> m <= n
         /\ (Signed(Val_long(m)) > Signed(Val_long(n))) <=> m > n
         /\ (Signed(Val_long(m)) >= Signed(Val_long(n))) <=> m >= n
         /\ (Val_long(m) = Val_long(n)) <=> m = n
         /\ (Val_long(m) < Val_long(n)) <=> O!Unsigned(m) < O!Unsigned(n)
         /\ (Val_long(m) >= Val_long(n)) <=> O!Unsigned(m) >= O!Unsigned(n)
  <1>1. m \in Int /\ n \in Int
    BY IntsInInt
  <1>2. Signed(Val_long(m)) = 2 * m + 1 /\ Signed(Val_long(n)) = 2 * n + 1
    BY Signs
  <1> DEFINE a == O!Unsigned(m)
             b == O!Unsigned(n)
  <1>3. /\ a \in Int /\ Val_long(m) = 2 * a + 1
        /\ b \in Int /\ Val_long(n) = 2 * b + 1
    BY ONLY <1>1, ValLongIs
  <1> HIDE DEF a, b
  <1>4. /\ (Val_long(m) < Val_long(n)) <=> a < b
        /\ (Val_long(m) >= Val_long(n)) <=> a >= b
    BY ONLY <1>3
  <1>5. (Val_long(m) = Val_long(n)) <=> m = n
    BY ONLY <1>1, <1>2
  <1> QED
    BY ONLY <1>1, <1>2, <1>4, <1>5 DEF a, b

LEMMA ComparesRight ==
  ASSUME NEW op \in O!Jumps, NEW n \in O!Ints, NEW m \in O!Ints
  PROVE  Compares(op, n, Val_long(m)) = O!Taken(op, n, m)
  <1>1. CASE op = "BEQ"
    BY <1>1, OrderKept DEF Compares, O!Taken
  <1>2. CASE op = "BNEQ"
    BY <1>2, OrderKept DEF Compares, O!Taken
  <1>3. CASE op = "BLTINT"
    BY <1>3, OrderKept DEF Compares, O!Taken
  <1>4. CASE op = "BLEINT"
    BY <1>4, OrderKept DEF Compares, O!Taken
  <1>5. CASE op = "BGTINT"
    BY <1>5, OrderKept DEF Compares, O!Taken
  <1>6. CASE op = "BGEINT"
    BY <1>6, OrderKept DEF Compares, O!Taken
  <1>7. CASE op = "BULTINT"
    BY <1>7, OrderKept DEF Compares, O!Taken
  <1>8. CASE op = "BUGEINT"
    BY <1>8, OrderKept DEF Compares, O!Taken
  <1> QED
    BY <1>1, <1>2, <1>3, <1>4, <1>5, <1>6, <1>7, <1>8 DEF O!Jumps

-----------------------------------------------------------------------------
(* Every instruction leaves the word of the integer that the language says. *)

Right(w, i) == i \in O!Ints /\ w = Val_long(i)

LEMMA Wrapped ==
  ASSUME NEW n \in Int, NEW w, w = Val_long(n)
  PROVE  Right(w, O!Wrap(n))
  BY WrapRight DEF Right

\* Every instruction that takes two words leaves the word of what the language
\* computes from their integers.
LEMMA ResultRight ==
  ASSUME NEW m \in O!Ints, NEW n \in O!Ints, NEW op \in O!Binary \cup O!Divisions,
         op \in O!Shifts => n >= 0, op \in O!Divisions => n # 0
  PROVE  Right(Result(op, Val_long(m), Val_long(n)), O!Eval(op, m, n))
  <1> DEFINE a == Val_long(m)
             b == Val_long(n)
  <1>0. m \in Int /\ n \in Int /\ Long_val(a) = m /\ Long_val(b) = n
    BY IntsInInt, Signs
  <1>1. CASE op = "ADDINT"
    <2>1. Result(op, a, b) = addInt(a, b) /\ O!Eval(op, m, n) = O!Wrap(m + n)
      BY ONLY <1>1 DEF Result, O!Eval
    <2>2. m + n \in Int
      BY <1>0
    <2> QED
      BY ONLY <1>0, <2>1, <2>2, AddRight, Wrapped, Zenon
  <1>2. CASE op = "SUBINT"
    <2>1. Result(op, a, b) = subInt(a, b) /\ O!Eval(op, m, n) = O!Wrap(m - n)
      BY ONLY <1>2 DEF Result, O!Eval
    <2>2. m - n \in Int
      BY <1>0
    <2> QED
      BY ONLY <1>0, <2>1, <2>2, SubRight, Wrapped, Zenon
  <1>3. CASE op = "MULINT"
    <2>1. Result(op, a, b) = mulInt(a, b) /\ O!Eval(op, m, n) = O!Wrap(m * n)
      BY ONLY <1>3 DEF Result, O!Eval
    <2>2. m * n \in Int
      BY <1>0
    <2> QED
      BY ONLY m \in O!Ints, n \in O!Ints, <2>1, <2>2, MulRight, Wrapped, Zenon
  <1>4. CASE op = "DIVINT"
    <2>1. Result(op, a, b) = divInt(a, b) /\ O!Eval(op, m, n) = O!Wrap(O!Quotient(m, n))
      BY ONLY <1>4 DEF Result, O!Eval
    <2>2. n # 0
      BY <1>4 DEF O!Divisions
    <2>3. divInt(a, b) = Val_long(O!Quotient(m, n)) /\ O!Quotient(m, n) \in Int
      BY ONLY <1>0, <2>2, QuotientType, Zenon DEF divInt
    <2> QED
      BY ONLY <2>1, <2>3, Wrapped, Zenon
  <1>5. CASE op = "MODINT"
    <2>1. Result(op, a, b) = modInt(a, b) /\ O!Eval(op, m, n) = O!Remainder(m, n)
      BY ONLY <1>5 DEF Result, O!Eval
    <2>2. n # 0
      BY <1>5 DEF O!Divisions
    <2>3. modInt(a, b) = Val_long(O!Remainder(m, n))
      BY ONLY <1>0, <2>2, QuotientType, Zenon DEF modInt
    <2>4. O!Remainder(m, n) \in O!Ints
      BY ONLY m \in O!Ints, n \in O!Ints, <2>2, RemainderSmall
    <2> QED
      BY ONLY <2>1, <2>3, <2>4, Zenon DEF Right
  <1>6. CASE op = "ANDINT"
    <2>1. Result(op, a, b) = andInt(a, b) /\ O!Eval(op, m, n) = O!Bitwise(O!Both, m, n)
      BY ONLY <1>6 DEF Result, O!Eval
    <2> QED
      BY ONLY m \in O!Ints, n \in O!Ints, <2>1, AndRight, Zenon DEF Right
  <1>7. CASE op = "ORINT"
    <2>1. Result(op, a, b) = orInt(a, b) /\ O!Eval(op, m, n) = O!Bitwise(O!Either, m, n)
      BY ONLY <1>7 DEF Result, O!Eval
    <2> QED
      BY ONLY m \in O!Ints, n \in O!Ints, <2>1, OrRight, Zenon DEF Right
  <1>8. CASE op = "XORINT"
    <2>1. Result(op, a, b) = xorInt(a, b) /\ O!Eval(op, m, n) = O!Bitwise(O!OneOf, m, n)
      BY ONLY <1>8 DEF Result, O!Eval
    <2> QED
      BY ONLY m \in O!Ints, n \in O!Ints, <2>1, XorRight, Zenon DEF Right
  <1>9. CASE op = "LSLINT"
    <2>1. Result(op, a, b) = lslInt(a, b) /\ O!Eval(op, m, n) = O!Wrap(m * 2^n)
      BY ONLY <1>9 DEF Result, O!Eval
    <2>2. n >= 0
      BY <1>9 DEF O!Shifts
    <2> QED
      BY ONLY m \in O!Ints, n \in O!Ints, <2>1, <2>2, LslRight, Wrapped, Zenon
  <1>10. CASE op = "LSRINT"
    <2>1. Result(op, a, b) = lsrInt(a, b) /\ O!Eval(op, m, n) = O!Wrap(O!Unsigned(m) \div 2^n)
      BY ONLY <1>10 DEF Result, O!Eval
    <2>2. n >= 0
      BY <1>10 DEF O!Shifts
    <2> QED
      BY ONLY m \in O!Ints, n \in O!Ints, <2>1, <2>2, LsrRight, Wrapped, Zenon
  <1>11. CASE op = "ASRINT"
    <2>1. Result(op, a, b) = asrInt(a, b) /\ O!Eval(op, m, n) = m \div 2^n
      BY ONLY <1>11 DEF Result, O!Eval
    <2>2. n >= 0
      BY <1>11 DEF O!Shifts
    <2> QED
      BY ONLY m \in O!Ints, n \in O!Ints, <2>1, <2>2, AsrRight, Zenon DEF Right
  <1>12. CASE op = "EQ"
    <2>1. Result(op, a, b) = Val_bool(Signed(a) = Signed(b)) /\ O!Eval(op, m, n) = O!Truth(m = n)
      BY ONLY <1>12 DEF Result, O!Eval
    <2>2. (Signed(a) = Signed(b)) <=> (m = n)
      BY ONLY m \in O!Ints, n \in O!Ints, OrderKept
    <2>3. O!Truth(Signed(a) = Signed(b)) = O!Truth(m = n)
      BY ONLY <2>2, Zenon DEF O!Truth
    <2> QED
      BY ONLY <2>1, <2>3, TruthRight, Zenon DEF Right
  <1>13. CASE op = "NEQ"
    <2>1. Result(op, a, b) = Val_bool(Signed(a) # Signed(b)) /\ O!Eval(op, m, n) = O!Truth(m # n)
      BY ONLY <1>13 DEF Result, O!Eval
    <2>2. (Signed(a) # Signed(b)) <=> (m # n)
      BY ONLY m \in O!Ints, n \in O!Ints, OrderKept
    <2>3. O!Truth(Signed(a) # Signed(b)) = O!Truth(m # n)
      BY ONLY <2>2, Zenon DEF O!Truth
    <2> QED
      BY ONLY <2>1, <2>3, TruthRight, Zenon DEF Right
  <1>14. CASE op = "LTINT"
    <2>1. Result(op, a, b) = Val_bool(Signed(a) < Signed(b)) /\ O!Eval(op, m, n) = O!Truth(m < n)
      BY ONLY <1>14 DEF Result, O!Eval
    <2>2. (Signed(a) < Signed(b)) <=> (m < n)
      BY ONLY m \in O!Ints, n \in O!Ints, OrderKept
    <2>3. O!Truth(Signed(a) < Signed(b)) = O!Truth(m < n)
      BY ONLY <2>2, Zenon DEF O!Truth
    <2> QED
      BY ONLY <2>1, <2>3, TruthRight, Zenon DEF Right
  <1>15. CASE op = "LEINT"
    <2>1. Result(op, a, b) = Val_bool(Signed(a) <= Signed(b)) /\ O!Eval(op, m, n) = O!Truth(m <= n)
      BY ONLY <1>15 DEF Result, O!Eval
    <2>2. (Signed(a) <= Signed(b)) <=> (m <= n)
      BY ONLY m \in O!Ints, n \in O!Ints, OrderKept
    <2>3. O!Truth(Signed(a) <= Signed(b)) = O!Truth(m <= n)
      BY ONLY <2>2, Zenon DEF O!Truth
    <2> QED
      BY ONLY <2>1, <2>3, TruthRight, Zenon DEF Right
  <1>16. CASE op = "GTINT"
    <2>1. Result(op, a, b) = Val_bool(Signed(a) > Signed(b)) /\ O!Eval(op, m, n) = O!Truth(m > n)
      BY ONLY <1>16 DEF Result, O!Eval
    <2>2. (Signed(a) > Signed(b)) <=> (m > n)
      BY ONLY m \in O!Ints, n \in O!Ints, OrderKept
    <2>3. O!Truth(Signed(a) > Signed(b)) = O!Truth(m > n)
      BY ONLY <2>2, Zenon DEF O!Truth
    <2> QED
      BY ONLY <2>1, <2>3, TruthRight, Zenon DEF Right
  <1>17. CASE op = "GEINT"
    <2>1. Result(op, a, b) = Val_bool(Signed(a) >= Signed(b)) /\ O!Eval(op, m, n) = O!Truth(m >= n)
      BY ONLY <1>17 DEF Result, O!Eval
    <2>2. (Signed(a) >= Signed(b)) <=> (m >= n)
      BY ONLY m \in O!Ints, n \in O!Ints, OrderKept
    <2>3. O!Truth(Signed(a) >= Signed(b)) = O!Truth(m >= n)
      BY ONLY <2>2, Zenon DEF O!Truth
    <2> QED
      BY ONLY <2>1, <2>3, TruthRight, Zenon DEF Right
  <1>18. CASE op = "ULTINT"
    <2>1. Result(op, a, b) = Val_bool(a < b) /\ O!Eval(op, m, n) = O!Truth(O!Unsigned(m) < O!Unsigned(n))
      BY ONLY <1>18 DEF Result, O!Eval
    <2>2. (a < b) <=> (O!Unsigned(m) < O!Unsigned(n))
      BY ONLY m \in O!Ints, n \in O!Ints, OrderKept
    <2>3. O!Truth(a < b) = O!Truth(O!Unsigned(m) < O!Unsigned(n))
      BY ONLY <2>2, Zenon DEF O!Truth
    <2> QED
      BY ONLY <2>1, <2>3, TruthRight, Zenon DEF Right
  <1>19. CASE op = "UGEINT"
    <2>1. Result(op, a, b) = Val_bool(a >= b) /\ O!Eval(op, m, n) = O!Truth(O!Unsigned(m) >= O!Unsigned(n))
      BY ONLY <1>19 DEF Result, O!Eval
    <2>2. (a >= b) <=> (O!Unsigned(m) >= O!Unsigned(n))
      BY ONLY m \in O!Ints, n \in O!Ints, OrderKept
    <2>3. O!Truth(a >= b) = O!Truth(O!Unsigned(m) >= O!Unsigned(n))
      BY ONLY <2>2, Zenon DEF O!Truth
    <2> QED
      BY ONLY <2>1, <2>3, TruthRight, Zenon DEF Right
  <1> QED
    BY ONLY op \in O!Binary \cup O!Divisions,
            <1>1, <1>2, <1>3, <1>4, <1>5, <1>6, <1>7, <1>8, <1>9, <1>10,
            <1>11, <1>12, <1>13, <1>14, <1>15, <1>16, <1>17, <1>18, <1>19 DEF O!Binary, O!Divisions

-----------------------------------------------------------------------------
(* The steps *)

LEMMA ImmediatesAreInts == ASSUME NEW n \in Immediates PROVE n \in O!Ints
  <1>1. Immediates \subseteq -Quarter .. Quarter - 1
    BY WordAssumption DEF Quarter
  <1> QED
    BY <1>1, Sizes

LEMMA TaggedWord ==
  ASSUME NEW w \in Tagged
  PROVE  Long_val(w) \in O!Ints /\ w = Val_long(Long_val(w))
  <1>1. PICK i \in O!Ints : w = Val_long(i)
    BY DEF Tagged
  <1> QED
    BY ONLY <1>1, Signs

LEMMA RightWord ==
  ASSUME NEW w, NEW i, Right(w, i)
  PROVE  w \in Tagged /\ Long_val(w) = i
  <1>1. i \in O!Ints /\ w = Val_long(i)
    BY DEF Right
  <1> QED
    BY ONLY <1>1, Signs DEF Tagged

\* The instructions of one operand
LEMMA UnaryRight ==
  ASSUME NEW m \in O!Ints
  PROVE  /\ Right(negInt(Val_long(m)), O!Wrap(-m))
         /\ m \in {0, 1} => Right(boolNot(Val_long(m)), 1 - m)
         /\ Right(isInt(Val_long(m)), 1)
         /\ \A n \in Immediates : /\ Right(offsetInt(Val_long(m), n), O!Wrap(m + n))
                                  /\ Right(Val_long(n), n)
  <1>1. m \in Int /\ -m \in Int /\ 0 \in O!Ints /\ 1 \in O!Ints
    BY IntsInInt, Sizes
  <1>2. Right(negInt(Val_long(m)), O!Wrap(-m))
    BY ONLY <1>1, NegRight, Wrapped
  <1>3. ASSUME m \in {0, 1} PROVE Right(boolNot(Val_long(m)), 1 - m)
    <2>1. Val_long(0) \in Int /\ Val_long(1) \in Int
      BY ONLY <1>1, ValLongOff, WordsAre, WordSize
    <2>2. Val_long(0) + Val_long(1) - Val_long(0) = Val_long(1)
      BY ONLY <2>1
    <2>3. Val_long(0) + Val_long(1) - Val_long(1) = Val_long(0)
      BY ONLY <2>1
    <2>4. CASE m = 0
      <3>1. 1 - m = 1 /\ boolNot(Val_long(m)) = Val_long(1)
        BY ONLY <2>2, <2>4 DEF boolNot
      <3> QED
        BY ONLY <1>1, <3>1, Zenon DEF Right
    <2>5. CASE m = 1
      <3>1. 1 - m = 0 /\ boolNot(Val_long(m)) = Val_long(0)
        BY ONLY <2>3, <2>5 DEF boolNot
      <3> QED
        BY ONLY <1>1, <3>1, Zenon DEF Right
    <2> QED
      BY ONLY <1>3, <2>4, <2>5
  <1>4. Right(isInt(Val_long(m)), 1)
    BY ONLY <1>1, IsIntRight, Zenon DEF Right
  <1>5. ASSUME NEW n \in Immediates
        PROVE  Right(offsetInt(Val_long(m), n), O!Wrap(m + n)) /\ Right(Val_long(n), n)
    <2>1. n \in O!Ints
      BY ImmediatesAreInts
    <2>2. n \in Int
      BY <2>1, IntsInInt
    <2>3. m + n \in Int
      BY <1>1, <2>2
    <2>4. Right(offsetInt(Val_long(m), n), O!Wrap(m + n))
      BY ONLY <1>1, <2>2, <2>3, OffsetRight, Wrapped
    <2> QED
      BY ONLY <2>1, <2>4, Zenon DEF Right
  <1> QED
    BY <1>2, <1>3, <1>4, <1>5

\* What a step computes, in terms of the integers before it
LEMMA StepOfBinary ==
  ASSUME StaysTagged, signal = "none", Binary
  PROVE  StaysTagged' /\ O!Binaries
  <1> DEFINE m == Long_val(Accu)
             n == Long_val(Operand)
  <1>1. m \in O!Ints /\ n \in O!Ints /\ Accu = Val_long(m) /\ Operand = Val_long(n)
    BY TaggedWord DEF StaysTagged
  <1>2. PICK op \in O!Binary :
          /\ op \in O!Shifts => n \in 0 .. W - 2
          /\ executed' = <<op>>
          /\ Accu' = Result(op, Accu, Operand)
          /\ Operand' \in Tagged
          /\ UNCHANGED signal
    BY DEF Binary
  <1> HIDE DEF m, n
  <1>3. op \in O!Binary \cup O!Divisions /\ op \notin O!Divisions
    BY DEF O!Binary, O!Divisions
  <1>4. op \in O!Shifts => n >= 0
    BY <1>2
  <1>5. Right(Accu', O!Eval(op, m, n))
    BY ONLY <1>1, <1>2, <1>3, <1>4, ResultRight
  <1>6. Accu' \in Tagged /\ Long_val(Accu') = O!Eval(op, m, n)
    BY ONLY <1>5, RightWord
  <1>7. Long_val(Operand') \in O!Ints
    BY <1>2, TaggedWord
  <1>8. StaysTagged'
    BY ONLY <1>2, <1>6 DEF StaysTagged
  <1>9. op \in O!Shifts => n \in 0 .. (W - 1) - 1
    BY <1>2, WordAssumption
  <1>10. O!Binaries
    BY <1>2, <1>6, <1>7, <1>9 DEF O!Binaries, m, n
  <1> QED
    BY <1>8, <1>10

LEMMA StepOfDivide ==
  ASSUME StaysTagged, signal = "none", Divide
  PROVE  StaysTagged' /\ O!Divide
  <1> DEFINE m == Long_val(Accu)
             n == Long_val(Operand)
  <1>1. m \in O!Ints /\ n \in O!Ints /\ Accu = Val_long(m) /\ Operand = Val_long(n)
    BY TaggedWord DEF StaysTagged
  <1>2. PICK op \in O!Divisions :
          /\ executed' = <<op>>
          /\ IF n = 0
             THEN signal' = "SIGFPE" /\ UNCHANGED <<Accu, Operand>>
             ELSE /\ Accu' = Result(op, Accu, Operand) /\ Operand' \in Tagged
                  /\ UNCHANGED signal
    BY DEF Divide
  <1> HIDE DEF m, n
  <1>3. CASE n = 0
    <2>1. StaysTagged'
      BY <1>2, <1>3 DEF StaysTagged
    <2>2. O!Divide
      BY <1>2, <1>3 DEF O!Divide, n
    <2> QED
      BY <2>1, <2>2
  <1>4. CASE n # 0
    <2>1. op \in O!Binary \cup O!Divisions /\ op \notin O!Shifts
      BY DEF O!Shifts, O!Divisions
    <2>2. Right(Accu', O!Eval(op, m, n))
      BY ONLY <1>1, <1>2, <1>4, <2>1, ResultRight
    <2>3. Accu' \in Tagged /\ Long_val(Accu') = O!Eval(op, m, n)
      BY ONLY <2>2, RightWord
    <2>4. Operand' \in Tagged /\ Long_val(Operand') \in O!Ints
      BY <1>2, <1>4, TaggedWord
    <2>5. StaysTagged'
      BY ONLY <2>3, <2>4 DEF StaysTagged
    <2>6. O!Divide
      BY <1>2, <1>4, <2>3, <2>4 DEF O!Divide, m, n
    <2> QED
      BY <2>5, <2>6
  <1> QED
    BY <1>3, <1>4

LEMMA StepOfUnary ==
  ASSUME StaysTagged, signal = "none", Unary
  PROVE  StaysTagged' /\ O!Unary
  <1> DEFINE m == Long_val(Accu)
  <1>1. m \in O!Ints /\ Accu = Val_long(m)
    BY TaggedWord DEF StaysTagged
  <1>2. Operand' \in Tagged /\ UNCHANGED <<Operand, signal>>
    BY DEF Unary, StaysTagged
  <1> HIDE DEF m
  <1>3. SUFFICES Accu' \in Tagged /\ O!Unary
    BY <1>2 DEF StaysTagged
  <1>4. ASSUME NEW i, Right(Accu', i) PROVE Accu' \in Tagged /\ Long_val(Accu') = i
    BY <1>4, RightWord
  <1>5. CASE executed' = <<"NEGINT">> /\ Accu' = negInt(Accu)
    <2>1. Right(Accu', O!Wrap(-m))
      BY ONLY <1>1, <1>5, UnaryRight
    <2> QED
      BY <1>2, <1>4, <1>5, <2>1 DEF O!Unary, m
  <1>6. CASE /\ executed' = <<"BOOLNOT">> /\ Accu \in {Val_long(0), Val_long(1)}
             /\ Accu' = boolNot(Accu)
    <2>1. m \in {0, 1}
      <3>1. 0 \in O!Ints /\ 1 \in O!Ints
        BY Sizes
      <3>2. Long_val(Val_long(0)) = 0 /\ Long_val(Val_long(1)) = 1
        BY ONLY <3>1, Signs
      <3> QED
        BY <1>6, <3>2 DEF m
    <2>2. Right(Accu', 1 - m)
      BY ONLY <1>1, <1>6, <2>1, UnaryRight
    <2> QED
      BY <1>2, <1>4, <1>6, <2>1, <2>2 DEF O!Unary, m
  <1>7. CASE executed' = <<"ISINT">> /\ Accu' = isInt(Accu)
    <2>1. Right(Accu', 1)
      BY ONLY <1>1, <1>7, UnaryRight
    <2> QED
      BY <1>2, <1>4, <1>7, <2>1 DEF O!Unary
  <1>8. ASSUME NEW n \in Immediates, executed' = <<"OFFSETINT", n>>, Accu' = offsetInt(Accu, n)
        PROVE  Accu' \in Tagged /\ O!Unary
    <2>1. Right(Accu', O!Wrap(m + n))
      BY ONLY <1>1, <1>8, UnaryRight
    <2> QED
      BY <1>2, <1>4, <1>8, <2>1 DEF O!Unary, m
  <1>9. ASSUME NEW n \in Immediates, executed' = <<"CONSTINT", n>>, Accu' = Val_long(n)
        PROVE  Accu' \in Tagged /\ O!Unary
    <2>1. Right(Accu', n)
      BY ONLY <1>1, <1>9, UnaryRight
    <2> QED
      BY <1>2, <1>4, <1>9, <2>1 DEF O!Unary
  <1> QED
    BY <1>5, <1>6, <1>7, <1>8, <1>9 DEF Unary

LEMMA StepOfJump ==
  ASSUME StaysTagged, signal = "none", Jump
  PROVE  StaysTagged' /\ O!Jump
  <1> DEFINE m == Long_val(Accu)
  <1>1. m \in O!Ints /\ Accu = Val_long(m)
    BY TaggedWord DEF StaysTagged
  <1>2. PICK op \in O!Jumps, n \in Immediates : executed' = <<op, n, Compares(op, n, Accu)>>
    BY DEF Jump
  <1>3. UNCHANGED <<Accu, Operand, signal>>
    BY DEF Jump
  <1> HIDE DEF m
  <1>4. n \in O!Ints
    BY ImmediatesAreInts
  <1>5. Compares(op, n, Accu) = O!Taken(op, n, m)
    BY ONLY <1>1, <1>4, op \in O!Jumps, ComparesRight
  <1>6. executed' = <<op, n, O!Taken(op, n, m)>>
    BY ONLY <1>2, <1>5, Zenon
  <1>7. StaysTagged'
    BY <1>3 DEF StaysTagged
  <1>8. O!Jump
    BY <1>3, <1>6 DEF O!Jump, m
  <1> QED
    BY <1>7, <1>8

\* A step keeps the tags and is a step of OCamlInts.
LEMMA StepRight ==
  ASSUME StaysTagged, [Next]_vars
  PROVE  StaysTagged' /\ [O!Next]_(O!vars)
  <1>1. CASE Next
    <2>1. StaysTagged' /\ (O!Binaries \/ O!Divide \/ O!Unary \/ O!Jump)
      BY <1>1, StepOfBinary, StepOfDivide, StepOfUnary, StepOfJump DEF Next
    <2>2. O!Next
      BY <1>1, <2>1 DEF Next, O!Next
    <2> QED
      BY <2>1, <2>2
  <1>2. CASE UNCHANGED vars
    BY <1>2 DEF vars, O!vars, StaysTagged
  <1> QED
    BY <1>1, <1>2

LEMMA StartRight == ASSUME Init PROVE StaysTagged /\ O!Init
  <1>1. StaysTagged /\ signal = "none" /\ executed = << >>
    BY DEF Init, StaysTagged
  <1>2. Long_val(Accu) \in O!Ints /\ Long_val(Operand) \in O!Ints
    BY <1>1, TaggedWord DEF StaysTagged
  <1> QED
    BY <1>1, <1>2 DEF O!Init

-----------------------------------------------------------------------------
(* StaysTagged: for words of any width and any operands of instructions, what
   the operations of CStdLib.c leave in Accu has its tag bit, and so has what
   comes to be on top of the stack. *)
THEOREM TagsCorrect == Spec => []StaysTagged
  <1>1. Init => StaysTagged
    BY StartRight
  <1>2. StaysTagged /\ [Next]_vars => StaysTagged'
    BY StepRight
  <1> QED
    BY <1>1, <1>2, PTL DEF Spec

(* RefinesOCamlInts: for words of any width, the operations on tagged words are
   those the language defines on integers that are one bit shorter. *)
THEOREM ImplementsOCamlInts == Spec => RefinesOCamlInts
  <1>1. Init => O!Init
    BY StartRight
  <1>2. StaysTagged /\ [Next]_vars => [O!Next]_(O!vars)
    BY StepRight
  <1> QED
    BY <1>1, <1>2, TagsCorrect, PTL DEF Spec, RefinesOCamlInts, O!Spec

=============================================================================

-------------------------- MODULE GetDynMetProofs --------------------------
(***************************************************************************)
(* The search for a method is right in every table.  The bounds of the     *)
(* search are words 2a + 1 and 2b + 1, those of labels a and b; the proof  *)
(* speaks of a and b.                                                      *)
(***************************************************************************)
EXTENDS GetDynMet, TLAPS

\* The words of labels
LEMMA OddWords == ASSUME NEW k \in Int
                  PROVE  (2 * k + 1) % 2 = 1 /\ (2 * k + 1) \div 2 = k
  BY SMT

LEMMA EvenWords == ASSUME NEW k \in Int
                   PROVE  (2 * k) % 2 = 0 /\ (2 * k) \div 2 = k
  BY SMT

\* What the table holds at the words the search reads
LEMMA FieldAt ==
  ASSUME NEW t \in Tables, NEW k \in 1..Len(t)
  PROVE  /\ Field(t, 2 * k + 1) = Val_int(t[k])
         /\ Field(t, 2 * k) = Method(t[k])
  <1>1. t \in Seq(Int) /\ k \in Int
    BY TablesAssumption
  <1>2. 2 * k + 1 # 0 /\ 2 * k # 0
    BY <1>1
  <1> QED
    BY <1>1, <1>2, OddWords, EvenWords DEF Field

\* The middle of the words of labels a and b is the word of a label after a.
LEMMA MiddleIsALabel ==
  ASSUME NEW a \in Nat, NEW b \in Nat, a < b
  PROVE  \E c \in a + 1 .. b : Middle(2 * a + 1, 2 * b + 1) = 2 * c + 1
  <1> DEFINE c == (a + b + 1) \div 2
  <1>1. ((2 * a + 1) + (2 * b + 1)) \div 2 = a + b + 1
    BY SMT
  <1>2. c \in a + 1 .. b
    BY SMT
  <1>3. SetLowBit(a + b + 1) = 2 * c + 1
    BY SMT DEF SetLowBit
  <1> QED
    BY <1>1, <1>2, <1>3 DEF Middle

-----------------------------------------------------------------------------
(* What the search keeps true: the table stays on top of the stack, and the
   bounds are the words of labels with the wanted one between them. *)
Searching ==
  \E t \in Tables :
    /\ stack = <<t>> /\ Accu = Val_int(want)
    /\ \E i \in 1..Len(t) :
         /\ want = t[i]
         /\ pc = "search" =>
              \E a, b \in 1..Len(t) : /\ li = 2 * a + 1 /\ hi = 2 * b + 1
                                      /\ a <= i /\ i <= b

IInv ==
  \/ /\ pc = "getPubMet" /\ stack = <<>>
     /\ Accu \in Tables /\ \E i \in 1..Len(Accu) : want = Accu[i]
  \/ pc \in {"getDynMet", "search"} /\ Searching
  \/ pc = "found" /\ Accu = Method(want)

LEMMA InitIInv == Init => IInv
  <1> SUFFICES ASSUME Init PROVE IInv
    OBVIOUS
  <1>1. PICK t \in Tables :
          /\ want \in {t[i] : i \in 1..Len(t)}
          /\ \/ pc = "getPubMet" /\ stack = <<>> /\ Accu = t
             \/ pc = "getDynMet" /\ stack = <<t>> /\ Accu = Val_int(want)
    BY DEF Init
  <1>2. PICK i \in 1..Len(t) : want = t[i]
    BY <1>1
  <1>3. CASE pc = "getPubMet"
    BY <1>1, <1>2, <1>3 DEF IInv
  <1>4. CASE pc = "getDynMet"
    BY <1>1, <1>2, <1>4 DEF IInv, Searching
  <1> QED
    BY <1>1, <1>3, <1>4

LEMMA getPubMetStep == IInv /\ getPubMet => IInv'
  <1> SUFFICES ASSUME IInv, getPubMet PROVE IInv'
    OBVIOUS
  <1>1. /\ stack = <<>> /\ Accu \in Tables
        /\ stack' = <<Accu>> \o stack /\ Accu' = Val_int(want)
        /\ pc' = "getDynMet" /\ want' = want
    BY DEF IInv, getPubMet
  <1>2. PICK i \in 1..Len(Accu) : want = Accu[i]
    BY DEF IInv, getPubMet
  <1>3. stack' = <<Accu>>
    BY <1>1
  <1>4. Searching'
    BY <1>1, <1>2, <1>3 DEF Searching, Val_int
  <1> QED
    BY <1>1, <1>4 DEF IInv

LEMMA getDynMetStep == IInv /\ getDynMet => IInv'
  <1> SUFFICES ASSUME IInv, getDynMet PROVE IInv'
    OBVIOUS
  <1>1. PICK t \in Tables :
          /\ stack = <<t>> /\ Accu = Val_int(want)
          /\ \E i \in 1..Len(t) : want = t[i]
    BY DEF IInv, getDynMet, Searching
  <1>2. PICK i \in 1..Len(t) : want = t[i]
    BY <1>1
  <1>3. t \in Seq(Int) /\ Len(t) \in Nat
    BY TablesAssumption
  <1>4. /\ li' = 3 /\ hi' = 2 * Len(t) + 1
        /\ pc' = "search" /\ want' = want /\ stack' = stack /\ Accu' = Accu
    BY <1>1, <1>3 DEF getDynMet, Field, Val_int
  <1>5. 1 \in 1..Len(t) /\ Len(t) \in 1..Len(t) /\ 1 <= i /\ i <= Len(t) /\ li' = 2 * 1 + 1
    BY <1>2, <1>3, <1>4
  <1>6. \E a, b \in 1..Len(t) : /\ li' = 2 * a + 1 /\ hi' = 2 * b + 1 /\ a <= i /\ i <= b
    BY <1>4, <1>5
  <1>7. Searching'
    BY <1>1, <1>2, <1>4, <1>6 DEF Searching, Val_int
  <1> QED
    BY <1>4, <1>7 DEF IInv

LEMMA SearchStep == IInv /\ Search => IInv'
  <1> SUFFICES ASSUME IInv, Search PROVE IInv'
    OBVIOUS
  <1>0. pc = "search" /\ li < hi /\ pc' = pc /\ want' = want /\ stack' = stack /\ Accu' = Accu
    BY DEF Search
  <1>a. PICK t \in Tables :
          /\ stack = <<t>> /\ Accu = Val_int(want)
          /\ \E i \in 1..Len(t) :
               /\ want = t[i]
               /\ \E a, b \in 1..Len(t) : li = 2 * a + 1 /\ hi = 2 * b + 1 /\ a <= i /\ i <= b
    BY <1>0 DEF IInv, Searching
  <1>1. PICK i \in 1..Len(t) :
          /\ want = t[i]
          /\ \E a, b \in 1..Len(t) : li = 2 * a + 1 /\ hi = 2 * b + 1 /\ a <= i /\ i <= b
    BY <1>a
  <1>2. PICK a \in 1..Len(t), b \in 1..Len(t) :
          li = 2 * a + 1 /\ hi = 2 * b + 1 /\ a <= i /\ i <= b
    BY <1>1
  <1>3. /\ t \in Seq(Int) /\ Len(t) \in Nat
        /\ \A j, k \in 1..Len(t) : j < k => t[j] < t[k]
    BY TablesAssumption
  <1>4. a \in Nat /\ b \in Nat /\ a < b
    BY <1>0, <1>2, <1>3
  <1>5. PICK c \in a + 1 .. b : Middle(li, hi) = 2 * c + 1
    BY <1>2, <1>4, MiddleIsALabel
  <1>6. c \in 1..Len(t) /\ c - 1 \in 1..Len(t) /\ c \in Int
    BY <1>2, <1>3, <1>5
  <1>7. Head(stack) = t
    BY <1>a
  <1>8. Field(Head(stack), Middle(li, hi)) = Val_int(t[c])
    BY <1>5, <1>6, <1>7, FieldAt
  <1>9. t[i] \in Int /\ t[c] \in Int
    BY <1>1, <1>3, <1>6
  <1>10. GoesLeft(Accu, Field(Head(stack), Middle(li, hi))) <=> t[i] < t[c]
    <2>1. Accu = 2 * t[i] + 1
      BY <1>a, <1>1 DEF Val_int
    <2>2. Field(Head(stack), Middle(li, hi)) = 2 * t[c] + 1
      BY <1>8 DEF Val_int
    <2>3. 2 * t[i] + 1 < 2 * t[c] + 1 <=> t[i] < t[c]
      BY <1>9
    <2> QED
      BY <2>1, <2>2, <2>3 DEF GoesLeft
  <1>11. \E l, u \in 1..Len(t) : li' = 2 * l + 1 /\ hi' = 2 * u + 1 /\ l <= i /\ i <= u
    <2>1. CASE GoesLeft(Accu, Field(Head(stack), Middle(li, hi)))
      <3>1. hi' = 2 * (c - 1) + 1 /\ li' = li
        BY <2>1, <1>5, <1>6 DEF Search
      <3>2. t[i] < t[c]
        BY <2>1, <1>10
      <3>3. i <= c - 1
        BY <3>2, <1>3, <1>6, <1>9
      <3> QED
        BY <3>1, <3>3, <1>2, <1>6
    <2>2. CASE ~GoesLeft(Accu, Field(Head(stack), Middle(li, hi)))
      <3>1. li' = 2 * c + 1 /\ hi' = hi
        BY <2>2, <1>5 DEF Search
      <3>2. ~(t[i] < t[c])
        BY <2>2, <1>10
      <3>3. c <= i
        BY <3>2, <1>3, <1>6
      <3> QED
        BY <3>1, <3>3, <1>2, <1>6
    <2> QED
      BY <2>1, <2>2
  <1>12. Searching'
    BY <1>0, <1>a, <1>1, <1>11 DEF Searching, Val_int
  <1> QED
    BY <1>0, <1>12 DEF IInv

LEMMA FoundStep == IInv /\ Found => IInv'
  <1> SUFFICES ASSUME IInv, Found PROVE IInv'
    OBVIOUS
  <1>0. pc = "search" /\ li >= hi /\ pc' = "found" /\ want' = want
        /\ Accu' = Field(Head(stack), li - 1)
    BY DEF Found
  <1>a. PICK t \in Tables :
          /\ stack = <<t>>
          /\ \E i \in 1..Len(t) :
               /\ want = t[i]
               /\ \E a, b \in 1..Len(t) : li = 2 * a + 1 /\ hi = 2 * b + 1 /\ a <= i /\ i <= b
    BY <1>0 DEF IInv, Searching
  <1>1. PICK i \in 1..Len(t), a \in 1..Len(t), b \in 1..Len(t) :
          want = t[i] /\ li = 2 * a + 1 /\ hi = 2 * b + 1 /\ a <= i /\ i <= b
    BY <1>a
  <1>2. a = i /\ li - 1 = 2 * i
    BY <1>0, <1>1
  <1>3. Head(stack) = t
    BY <1>a
  <1>4. Accu' = Method(want)
    BY <1>0, <1>1, <1>2, <1>3, FieldAt
  <1> QED
    BY <1>0, <1>4 DEF IInv, Method

LEMMA StepIInv == IInv /\ [Next]_vars => IInv'
  <1> SUFFICES ASSUME IInv, [Next]_vars PROVE IInv'
    OBVIOUS
  <1>1. CASE getPubMet
    BY <1>1, getPubMetStep
  <1>2. CASE getDynMet
    BY <1>2, getDynMetStep
  <1>3. CASE Search
    BY <1>3, SearchStep
  <1>4. CASE Found
    BY <1>4, FoundStep
  <1>5. CASE UNCHANGED vars
    BY <1>5 DEF vars, IInv, Searching, Val_int, Method
  <1> QED
    BY <1>1, <1>2, <1>3, <1>4, <1>5 DEF Next

LEMMA Invariance == Spec => []IInv
  BY InitIInv, StepIInv, PTL DEF Spec

-----------------------------------------------------------------------------
LEMMA IInvBrackets == IInv => Brackets
  <1> SUFFICES ASSUME IInv, pc = "search"
               PROVE  /\ li % 2 = 1 /\ hi % 2 = 1
                      /\ 3 <= li /\ hi <= Field(Head(stack), 0)
                      /\ \E w \in li..hi : w % 2 = 1 /\ Field(Head(stack), w) = Val_int(want)
    BY DEF Brackets
  <1>a. PICK t \in Tables :
          /\ stack = <<t>>
          /\ \E i \in 1..Len(t) :
               /\ want = t[i]
               /\ \E a, b \in 1..Len(t) : li = 2 * a + 1 /\ hi = 2 * b + 1 /\ a <= i /\ i <= b
    BY DEF IInv, Searching
  <1>1. PICK i \in 1..Len(t), a \in 1..Len(t), b \in 1..Len(t) :
          want = t[i] /\ li = 2 * a + 1 /\ hi = 2 * b + 1 /\ a <= i /\ i <= b
    BY <1>a
  <1>2. t \in Seq(Int) /\ Len(t) \in Nat
    BY TablesAssumption
  <1>3. Head(stack) = t /\ Field(t, 0) = 2 * Len(t) + 1
    BY <1>a, <1>2 DEF Field, Val_int
  <1>4. a \in Int /\ b \in Int
    BY <1>2
  <1>5. li % 2 = 1 /\ hi % 2 = 1
    BY <1>1, <1>4, OddWords
  <1>6. 3 <= li /\ hi <= 2 * Len(t) + 1
    BY <1>1, <1>2
  <1>7. li % 2 = 1 /\ hi % 2 = 1 /\ 3 <= li /\ hi <= Field(Head(stack), 0)
    BY <1>3, <1>5, <1>6
  <1>8. 2 * i + 1 \in li..hi /\ (2 * i + 1) % 2 = 1 /\ Field(t, 2 * i + 1) = Val_int(want)
    BY <1>1, <1>2, OddWords, FieldAt
  <1> QED
    BY <1>3, <1>7, <1>8

LEMMA IInvNarrows == IInv => Narrows
  <1> SUFFICES ASSUME IInv, pc = "search", li < hi
               PROVE  li < Middle(li, hi) /\ Middle(li, hi) <= hi
    BY DEF Narrows
  <1>a. PICK t \in Tables : \E a, b \in 1..Len(t) : li = 2 * a + 1 /\ hi = 2 * b + 1
    BY DEF IInv, Searching
  <1>1. PICK a \in 1..Len(t), b \in 1..Len(t) : li = 2 * a + 1 /\ hi = 2 * b + 1
    BY <1>a
  <1>2. t \in Seq(Int) /\ Len(t) \in Nat
    BY TablesAssumption
  <1>3. a \in Nat /\ b \in Nat /\ a < b
    BY <1>1, <1>2
  <1>4. PICK c \in a + 1 .. b : Middle(li, hi) = 2 * c + 1
    BY <1>1, <1>3, MiddleIsALabel
  <1> QED
    BY <1>1, <1>3, <1>4

\* In a table of any size, the wanted label never leaves the bounds of
\* getDynMet's search, which stay inside the table.
THEOREM NeverLost == Spec => []Brackets
  BY Invariance, IInvBrackets, PTL

\* In a table of any size, getDynMet ends with the method that was asked for.
THEOREM RightMethod == Spec => []FindsMethod
  <1>1. IInv => FindsMethod
    BY DEF IInv, FindsMethod, Searching
  <1> QED
    BY <1>1, Invariance, PTL

\* In a table of any size, every turn of getDynMet's loop brings its bounds nearer.
THEOREM AlwaysNarrows == Spec => []Narrows
  BY Invariance, IInvNarrows, PTL
=============================================================================

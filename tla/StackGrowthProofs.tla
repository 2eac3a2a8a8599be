------------------------- MODULE StackGrowthProofs -------------------------
(***************************************************************************)
(* The invariants of StackGrowth, proved for every size of the stack and   *)
(* whatever its sizes, thresholds and frames are.  That only an unchecked  *)
(* function overruns the stack, and that a raise finds its handler, both   *)
(* rest on where the frames and the handlers are in relation to each       *)
(* other, which growth does not change.                                    *)
(***************************************************************************)
EXTENDS StackGrowth, SequenceTheorems, TLAPS

Act  == [base : Nat, entry : Nat, limit : Nat, checked : BOOLEAN]
Trap == [pos : Nat, act : Nat]

\* A suspended function's frame ends below the return frame of the next one.
Nested(A) ==
  /\ \A k \in 1..Len(A) : A[k].base <= A[k].entry /\ A[k].entry + Frame <= A[k].limit
  /\ \A k \in 1..Len(A) - 1 :
       A[k].base + 3 <= A[k + 1].base /\ A[k + 1].base <= A[k].limit + 3

\* Each handler's frame is in that of the activation that installed it, and
\* they do not overlap.
InFrames(T, A) ==
  /\ \A i \in 1..Len(T) :
       /\ T[i].act \in 1..Len(A)
       /\ A[T[i].act].base + 4 <= T[i].pos /\ T[i].pos <= A[T[i].act].limit
       /\ \A k \in 1..Len(A) : T[i].act < k => T[i].pos + 3 <= A[k].base
  /\ \A i, j \in 1..Len(T) : i < j => T[i].pos + 4 <= T[j].pos /\ T[i].act <= T[j].act

\* A function that found room when it was entered has it still.
Room(A, s) == \A k \in 1..Len(A) : A[k].checked => A[k].limit + Margin <= s

\* The handlers T are linked to one another, from c, in allocation b.
Chain(l, c, b, T) ==
  /\ c = Ptr(b, IF T = <<>> THEN 0 ELSE Last(T).pos)
  /\ DOMAIN l = {T[i].pos : i \in DOMAIN T}
  /\ \A i \in DOMAIN T : l[T[i].pos] = Ptr(b, IF i = 1 THEN 0 ELSE T[i - 1].pos)

\* Depth d is in the running function's frame, above every handler.
Fits(d, A, T) ==
  /\ A[Len(A)].base <= d /\ d <= A[Len(A)].limit
  /\ \A i \in 1..Len(T) : T[i].pos <= d

IInv ==
  /\ TypeOK
  /\ Nested(acts) /\ InFrames(traps, acts) /\ Room(acts, size)
  /\ Running => Fits(sp, acts, traps)
  /\ StackPointer.block = block
  /\ TrapLinks /\ OverrunsUnchecked

-----------------------------------------------------------------------------
(* Sequences. *)

LEMMA AppendFacts ==
  ASSUME NEW S, NEW s \in Seq(S), NEW e \in S
  PROVE  /\ Append(s, e) \in Seq(S) /\ Append(s, e) # <<>>
         /\ Len(Append(s, e)) = Len(s) + 1
         /\ \A i \in 1..Len(s) : Append(s, e)[i] = s[i]
         /\ Append(s, e)[Len(s) + 1] = e
  OBVIOUS

LEMMA PrefixFacts ==
  ASSUME NEW S, NEW s \in Seq(S), NEW n \in 0..Len(s)
  PROVE  /\ SubSeq(s, 1, n) \in Seq(S)
         /\ Len(SubSeq(s, 1, n)) = n
         /\ n # 0 => SubSeq(s, 1, n) # <<>>
         /\ \A i \in 1..n : SubSeq(s, 1, n)[i] = s[i]
  OBVIOUS

LEMMA ReplaceFacts ==
  ASSUME NEW S, NEW s \in Seq(S), NEW e \in S, s # <<>>
  PROVE  LET r == [s EXCEPT ![Len(s)] = e]
         IN /\ r \in Seq(S) /\ r # <<>>
            /\ Len(r) = Len(s)
            /\ \A i \in 1..Len(s) : i # Len(s) => r[i] = s[i]
            /\ r[Len(s)] = e
  BY ExceptSeq, EmptySeq, LenProperties

LEMMA EmptyFacts ==
  ASSUME NEW S, NEW s \in Seq(S)
  PROVE  /\ Len(s) \in Nat /\ DOMAIN s = 1..Len(s)
         /\ s # <<>> <=> Len(s) # 0
         /\ \A i \in 1..Len(s) : s[i] \in S
  BY EmptySeq, LenProperties, ElementOfSeq

LEMMA Numbers ==
  /\ Stack_threshold \in Nat /\ Frame \in Nat /\ Margin \in Nat /\ InitSize \in Nat
  /\ Margin >= 3 /\ Frame + Margin <= Stack_threshold /\ Stack_threshold <= InitSize
  /\ Sizes \subseteq Nat /\ Large \subseteq Nat /\ \A r \in Large : r > Stack_threshold
  BY StackAssumption

LEMMA ActFacts ==
  ASSUME NEW b \in Nat, NEW e \in Nat, NEW c \in BOOLEAN
  PROVE  /\ Activation(b, e, c) \in Act
         /\ Activation(b, e, c).base = b /\ Activation(b, e, c).entry = e
         /\ Activation(b, e, c).limit = e + Frame
         /\ Activation(b, e, c).checked = c
  BY Numbers DEF Activation, Act

\* What the type invariant says of the words the other lemmas speak of.
LEMMA Types ==
  ASSUME TypeOK
  PROVE  /\ block \in Nat /\ size \in Nat /\ sp \in Nat /\ StackPointer.block \in Nat
         /\ caml_trapsp.depth \in Nat
         /\ acts \in Seq(Act) /\ acts # <<>> /\ Len(acts) \in Nat \ {0}
         /\ \A k \in 1..Len(acts) : acts[k] \in Act
         /\ Top \in Act /\ Top = acts[Len(acts)]
         /\ traps \in Seq(Trap) /\ Len(traps) \in Nat /\ DOMAIN traps = 1..Len(traps)
         /\ traps # <<>> <=> Len(traps) # 0
         /\ \A i \in 1..Len(traps) : traps[i] \in Trap
<1>1. /\ block \in Nat /\ size \in Nat /\ sp \in Nat /\ StackPointer.block \in Nat
      /\ caml_trapsp.depth \in Nat
  BY DEF TypeOK, Pointer, sp
<1>2. acts \in Seq(Act) /\ acts # <<>> /\ traps \in Seq(Trap)
  BY DEF TypeOK, Act, Trap
<1>3. /\ Len(acts) \in Nat \ {0}
      /\ \A k \in 1..Len(acts) : acts[k] \in Act
  BY <1>2, EmptyFacts
<1>4. Top \in Act /\ Top = acts[Len(acts)]
  BY <1>3 DEF Top, Last
<1>5. /\ Len(traps) \in Nat /\ DOMAIN traps = 1..Len(traps)
      /\ traps # <<>> <=> Len(traps) # 0
      /\ \A i \in 1..Len(traps) : traps[i] \in Trap
  BY <1>2, EmptyFacts
<1> QED BY <1>1, <1>2, <1>3, <1>4, <1>5

LEMMA Fields ==
  /\ \A a \in Act : a.base \in Nat /\ a.entry \in Nat /\ a.limit \in Nat /\ a.checked \in BOOLEAN
  /\ \A t \in Trap : t.pos \in Nat /\ t.act \in Nat
  BY DEF Act, Trap

LEMMA ActSeq ==
  ASSUME NEW A \in Seq(Act)
  PROVE  /\ Len(A) \in Nat /\ (A # <<>> => Len(A) # 0)
         /\ \A k \in 1..Len(A) :
              A[k].base \in Nat /\ A[k].entry \in Nat /\ A[k].limit \in Nat
  BY EmptyFacts, Fields

LEMMA TrapSeq ==
  ASSUME NEW T \in Seq(Trap)
  PROVE  /\ Len(T) \in Nat /\ DOMAIN T = 1..Len(T) /\ (T # <<>> <=> Len(T) # 0)
         /\ \A i \in 1..Len(T) : T[i].pos \in Nat /\ T[i].act \in Nat
  BY EmptyFacts, Fields

-----------------------------------------------------------------------------
(* What entering, replacing and leaving activations does to the layout. *)

LEMMA Entered ==
  ASSUME NEW A \in Seq(Act), A # <<>>, NEW T \in Seq(Trap), NEW a \in Act, NEW s \in Nat,
         Nested(A), InFrames(T, A), Room(A, s),
         a.base <= a.entry, a.entry + Frame <= a.limit,
         A[Len(A)].base + 3 <= a.base, a.base <= A[Len(A)].limit + 3,
         \A i \in 1..Len(T) : T[i].pos + 3 <= a.base,
         a.checked => a.limit + Margin <= s
  PROVE  /\ Nested(Append(A, a)) /\ InFrames(T, Append(A, a)) /\ Room(Append(A, a), s)
         /\ Append(A, a) \in Seq(Act) /\ Append(A, a) # <<>>
<1> DEFINE B == Append(A, a)
<1>1. /\ Len(A) \in Nat \ {0} /\ Len(T) \in Nat /\ Len(A) \in 1..Len(A)
      /\ \A k \in 1..Len(A) :
           A[k].base \in Nat /\ A[k].entry \in Nat /\ A[k].limit \in Nat
      /\ \A i \in 1..Len(T) : T[i].pos \in Nat /\ T[i].act \in Nat
      /\ a.base \in Nat /\ a.entry \in Nat /\ a.limit \in Nat
  BY ActSeq, TrapSeq, Fields
<1>2. /\ B \in Seq(Act) /\ B # <<>> /\ Len(B) = Len(A) + 1
      /\ \A i \in 1..Len(A) : B[i] = A[i]
      /\ B[Len(A) + 1] = a
  BY AppendFacts
<1> HIDE DEF B
<1>3. Nested(B)
  <2>1. ASSUME NEW k \in 1..Len(B)
        PROVE  B[k].base <= B[k].entry /\ B[k].entry + Frame <= B[k].limit
    <3>1. CASE k = Len(A) + 1
      BY <3>1, <1>2
    <3>2. CASE k \in 1..Len(A)
      BY <3>2, <1>2 DEF Nested
    <3> QED BY <3>1, <3>2, <1>1, <1>2
  <2>2. ASSUME NEW k \in 1..Len(B) - 1
        PROVE  B[k].base + 3 <= B[k + 1].base /\ B[k + 1].base <= B[k].limit + 3
    <3>1. CASE k = Len(A)
      BY <3>1, <1>1, <1>2
    <3>2. CASE k \in 1..Len(A) - 1
      <4>1. k \in 1..Len(A) /\ k + 1 \in 1..Len(A)
        BY <3>2, <1>1
      <4> QED BY <3>2, <4>1, <1>2 DEF Nested
    <3> QED BY <3>1, <3>2, <1>1, <1>2
  <2> QED BY <2>1, <2>2 DEF Nested
<1>4. InFrames(T, B)
  <2>1. ASSUME NEW i \in 1..Len(T)
        PROVE  /\ T[i].act \in 1..Len(B)
               /\ B[T[i].act].base + 4 <= T[i].pos /\ T[i].pos <= B[T[i].act].limit
               /\ \A k \in 1..Len(B) : T[i].act < k => T[i].pos + 3 <= B[k].base
    <3>1. /\ T[i].act \in 1..Len(A)
          /\ A[T[i].act].base + 4 <= T[i].pos /\ T[i].pos <= A[T[i].act].limit
          /\ \A k \in 1..Len(A) : T[i].act < k => T[i].pos + 3 <= A[k].base
      BY DEF InFrames
    <3>2. T[i].act \in 1..Len(B) /\ B[T[i].act] = A[T[i].act]
      BY <3>1, <1>1, <1>2
    <3>3. ASSUME NEW k \in 1..Len(B), T[i].act < k PROVE T[i].pos + 3 <= B[k].base
      <4>1. CASE k = Len(A) + 1
        BY <4>1, <1>2
      <4>2. CASE k \in 1..Len(A)
        BY <4>2, <3>1, <3>3, <1>2
      <4> QED BY <4>1, <4>2, <1>1, <1>2
    <3> QED BY <3>1, <3>2, <3>3
  <2> QED BY <2>1 DEF InFrames
<1>5. Room(B, s)
  <2>1. ASSUME NEW k \in 1..Len(B), B[k].checked PROVE B[k].limit + Margin <= s
    <3>1. CASE k = Len(A) + 1
      BY <3>1, <2>1, <1>2
    <3>2. CASE k \in 1..Len(A)
      BY <3>2, <2>1, <1>2 DEF Room
    <3> QED BY <3>1, <3>2, <1>1, <1>2
  <2> QED BY <2>1 DEF Room
<1> QED BY <1>2, <1>3, <1>4, <1>5 DEF B

LEMMA ReplacedTop ==
  ASSUME NEW A \in Seq(Act), A # <<>>, NEW T \in Seq(Trap), NEW a \in Act, NEW s \in Nat,
         Nested(A), InFrames(T, A), Room(A, s),
         a.base = A[Len(A)].base, a.base <= a.entry, a.entry + Frame <= a.limit,
         \A i \in 1..Len(T) : T[i].act = Len(A) => T[i].pos <= a.limit,
         a.checked => a.limit + Margin <= s
  PROVE  LET B == [A EXCEPT ![Len(A)] = a]
         IN  /\ Nested(B) /\ InFrames(T, B) /\ Room(B, s)
             /\ B \in Seq(Act) /\ B # <<>> /\ Len(B) = Len(A) /\ B[Len(A)] = a
<1> DEFINE B == [A EXCEPT ![Len(A)] = a]
<1>1. /\ Len(A) \in Nat \ {0} /\ Len(T) \in Nat /\ Len(A) \in 1..Len(A)
      /\ \A k \in 1..Len(A) :
           A[k].base \in Nat /\ A[k].entry \in Nat /\ A[k].limit \in Nat
      /\ \A i \in 1..Len(T) : T[i].pos \in Nat /\ T[i].act \in Nat
      /\ a.base \in Nat /\ a.entry \in Nat /\ a.limit \in Nat
  BY ActSeq, TrapSeq, Fields
<1>2. /\ B \in Seq(Act) /\ B # <<>> /\ Len(B) = Len(A)
      /\ \A i \in 1..Len(A) : i # Len(A) => B[i] = A[i]
      /\ B[Len(A)] = a
  BY ReplaceFacts
<1> HIDE DEF B
<1>b. \A k \in 1..Len(A) : B[k].base = A[k].base
  BY <1>2
<1>3. Nested(B)
  <2>1. ASSUME NEW k \in 1..Len(B)
        PROVE  B[k].base <= B[k].entry /\ B[k].entry + Frame <= B[k].limit
    <3>1. CASE k = Len(A)
      BY <3>1, <1>2
    <3>2. CASE k # Len(A)
      BY <3>2, <1>2 DEF Nested
    <3> QED BY <3>1, <3>2
  <2>2. ASSUME NEW k \in 1..Len(B) - 1
        PROVE  B[k].base + 3 <= B[k + 1].base /\ B[k + 1].base <= B[k].limit + 3
    <3>1. k \in 1..Len(A) /\ k + 1 \in 1..Len(A) /\ k # Len(A) /\ k \in 1..Len(A) - 1
      BY <1>1, <1>2
    <3>2. B[k] = A[k] /\ B[k + 1].base = A[k + 1].base
      BY <3>1, <1>2, <1>b
    <3> QED BY <3>1, <3>2 DEF Nested
  <2> QED BY <2>1, <2>2 DEF Nested
<1>4. InFrames(T, B)
  <2>1. ASSUME NEW i \in 1..Len(T)
        PROVE  /\ T[i].act \in 1..Len(B)
               /\ B[T[i].act].base + 4 <= T[i].pos /\ T[i].pos <= B[T[i].act].limit
               /\ \A k \in 1..Len(B) : T[i].act < k => T[i].pos + 3 <= B[k].base
    BY <1>1, <1>2, <1>b, Fields DEF InFrames
  <2> QED BY <2>1 DEF InFrames
<1>5. Room(B, s)
  BY <1>1, <1>2 DEF Room
<1> QED BY <1>2, <1>3, <1>4, <1>5 DEF B

LEMMA LeftActs ==
  ASSUME NEW A \in Seq(Act), NEW n \in 1..Len(A), NEW T \in Seq(Trap), NEW s \in Nat,
         Nested(A), InFrames(T, A), Room(A, s),
         \A i \in 1..Len(T) : T[i].act <= n
  PROVE  LET B == SubSeq(A, 1, n)
         IN  /\ Nested(B) /\ InFrames(T, B) /\ Room(B, s)
             /\ B \in Seq(Act) /\ B # <<>> /\ Len(B) = n /\ B[n] = A[n]
<1> DEFINE B == SubSeq(A, 1, n)
<1>1. /\ Len(A) \in Nat /\ Len(T) \in Nat /\ n \in Nat \ {0} /\ n \in 0..Len(A)
      /\ \A k \in 1..Len(A) :
           A[k].base \in Nat /\ A[k].entry \in Nat /\ A[k].limit \in Nat
      /\ \A i \in 1..Len(T) : T[i].pos \in Nat /\ T[i].act \in Nat
  BY ActSeq, TrapSeq
<1>2. /\ B \in Seq(Act) /\ B # <<>> /\ Len(B) = n
      /\ \A i \in 1..n : B[i] = A[i]
  BY <1>1, PrefixFacts
<1> HIDE DEF B
<1>3. Nested(B)
  <2>1. ASSUME NEW k \in 1..Len(B)
        PROVE  B[k].base <= B[k].entry /\ B[k].entry + Frame <= B[k].limit
    BY <1>1, <1>2 DEF Nested
  <2>2. ASSUME NEW k \in 1..Len(B) - 1
        PROVE  B[k].base + 3 <= B[k + 1].base /\ B[k + 1].base <= B[k].limit + 3
    <3>1. k \in 1..n /\ k + 1 \in 1..n /\ k \in 1..Len(A) - 1
      BY <1>1, <1>2
    <3> QED BY <3>1, <1>2 DEF Nested
  <2> QED BY <2>1, <2>2 DEF Nested
<1>4. InFrames(T, B)
  <2>1. ASSUME NEW i \in 1..Len(T)
        PROVE  /\ T[i].act \in 1..Len(B)
               /\ B[T[i].act].base + 4 <= T[i].pos /\ T[i].pos <= B[T[i].act].limit
               /\ \A k \in 1..Len(B) : T[i].act < k => T[i].pos + 3 <= B[k].base
    <3>1. /\ T[i].act \in 1..n
          /\ A[T[i].act].base + 4 <= T[i].pos /\ T[i].pos <= A[T[i].act].limit
          /\ \A k \in 1..Len(A) : T[i].act < k => T[i].pos + 3 <= A[k].base
      BY <1>1 DEF InFrames
    <3>2. \A k \in 1..Len(B) : k \in 1..Len(A) /\ B[k] = A[k]
      BY <1>1, <1>2
    <3> QED BY <3>1, <3>2, <1>2
  <2> QED BY <2>1 DEF InFrames
<1>5. Room(B, s)
  BY <1>1, <1>2 DEF Room
<1> QED BY <1>1, <1>2, <1>3, <1>4, <1>5 DEF B

LEMMA GrownRoom ==
  ASSUME NEW A \in Seq(Act), NEW s \in Nat, NEW t \in Nat, s <= t, Room(A, s)
  PROVE  Room(A, t)
<1>1. \A k \in 1..Len(A) : A[k].limit \in Nat
  BY EmptyFacts, Fields
<1> QED BY <1>1, Numbers DEF Room

-----------------------------------------------------------------------------
(* What installing and leaving a handler does to the layout, and to the links;
   what growth does to the links. *)

LEMMA HandlerInFrame ==
  ASSUME NEW A \in Seq(Act), A # <<>>, NEW T \in Seq(Trap), NEW p \in Nat,
         Nested(A), InFrames(T, A),
         A[Len(A)].base + 4 <= p, p <= A[Len(A)].limit,
         \A i \in 1..Len(T) : T[i].pos + 4 <= p
  PROVE  LET U == Append(T, [pos |-> p, act |-> Len(A)])
         IN  U \in Seq(Trap) /\ InFrames(U, A)
<1> DEFINE t == [pos |-> p, act |-> Len(A)]
           U == Append(T, t)
<1>1. /\ Len(A) \in Nat \ {0} /\ Len(T) \in Nat /\ Len(A) \in 1..Len(A)
      /\ \A i \in 1..Len(T) : T[i].pos \in Nat /\ T[i].act \in Nat
  BY ActSeq, TrapSeq
<1>2. t \in Trap /\ t.pos = p /\ t.act = Len(A)
  BY <1>1 DEF Trap
<1> HIDE DEF t
<1>3. /\ U \in Seq(Trap) /\ Len(U) = Len(T) + 1
      /\ \A i \in 1..Len(T) : U[i] = T[i]
      /\ U[Len(T) + 1] = t
  BY <1>2, AppendFacts
<1> HIDE DEF U
<1>4. ASSUME NEW i \in 1..Len(U)
      PROVE  /\ U[i].act \in 1..Len(A)
             /\ A[U[i].act].base + 4 <= U[i].pos /\ U[i].pos <= A[U[i].act].limit
             /\ \A k \in 1..Len(A) : U[i].act < k => U[i].pos + 3 <= A[k].base
  <2>1. CASE i = Len(T) + 1
    BY <2>1, <1>1, <1>2, <1>3
  <2>2. CASE i \in 1..Len(T)
    BY <2>2, <1>3 DEF InFrames
  <2> QED BY <2>1, <2>2, <1>1, <1>3
<1>5. ASSUME NEW i \in 1..Len(U), NEW j \in 1..Len(U), i < j
      PROVE  U[i].pos + 4 <= U[j].pos /\ U[i].act <= U[j].act
  <2>1. i \in 1..Len(T) /\ U[i] = T[i] /\ T[i].act <= Len(A)
    <3>1. i \in 1..Len(T)
      BY <1>1, <1>3, <1>5
    <3> QED BY <3>1, <1>1, <1>3 DEF InFrames
  <2>2. CASE j = Len(T) + 1
    BY <2>1, <2>2, <1>2, <1>3
  <2>3. CASE j \in 1..Len(T)
    BY <2>1, <2>3, <1>3, <1>5 DEF InFrames
  <2> QED BY <2>2, <2>3, <1>1, <1>3
<1> QED BY <1>3, <1>4, <1>5 DEF InFrames, U, t

LEMMA HandlerLeft ==
  ASSUME NEW A \in Seq(Act), NEW T \in Seq(Trap), T # <<>>, InFrames(T, A)
  PROVE  /\ Front(T) \in Seq(Trap) /\ Len(Front(T)) = Len(T) - 1
         /\ InFrames(Front(T), A)
         /\ \A i \in 1..Len(Front(T)) :
              /\ Front(T)[i] = T[i] /\ T[i].pos + 4 <= Last(T).pos
              /\ T[i].act <= Last(T).act
<1> DEFINE U == Front(T)
<1>1. Len(A) \in Nat /\ Len(T) \in Nat \ {0} /\ Len(T) - 1 \in 0..Len(T) /\ Len(T) \in 1..Len(T)
  BY ActSeq, TrapSeq
<1>2. /\ U \in Seq(Trap) /\ Len(U) = Len(T) - 1
      /\ \A i \in 1..Len(T) - 1 : U[i] = T[i]
  BY <1>1, PrefixFacts DEF Front
<1> HIDE DEF U
<1>3. \A i \in 1..Len(U) : i \in 1..Len(T) /\ U[i] = T[i] /\ i < Len(T)
  BY <1>1, <1>2
<1>4. InFrames(U, A)
  BY <1>3 DEF InFrames
<1>5. \A i \in 1..Len(U) : T[i].pos + 4 <= Last(T).pos /\ T[i].act <= Last(T).act
  BY <1>1, <1>3 DEF InFrames, Last
<1> QED BY <1>2, <1>3, <1>4, <1>5 DEF U

LEMMA PtrFacts ==
  ASSUME NEW b \in Nat, NEW d \in Nat
  PROVE  Ptr(b, d) \in Pointer /\ Ptr(b, d).block = b /\ Ptr(b, d).depth = d
  BY DEF Ptr, Pointer

LEMMA ChainTyped ==
  ASSUME NEW l, NEW c, NEW b \in Nat, NEW T \in Seq(Trap), Chain(l, c, b, T)
  PROVE  /\ c \in Pointer /\ c.block = b
         /\ DOMAIN l \subseteq Nat
         /\ \A d \in DOMAIN l : l[d] \in Pointer /\ l[d].block = b
<1>1. /\ Len(T) \in Nat /\ DOMAIN T = 1..Len(T) /\ (T # <<>> => Len(T) \in 1..Len(T))
      /\ \A i \in 1..Len(T) : T[i].pos \in Nat
  BY TrapSeq
<1>2. c \in Pointer /\ c.block = b
  <2>1. (IF T = <<>> THEN 0 ELSE Last(T).pos) \in Nat
    BY <1>1 DEF Last
  <2> QED BY <2>1, PtrFacts DEF Chain
<1>3. DOMAIN l \subseteq Nat
  BY <1>1 DEF Chain
<1>4. ASSUME NEW d \in DOMAIN l PROVE l[d] \in Pointer /\ l[d].block = b
  <2>1. PICK i \in 1..Len(T) : d = T[i].pos
    BY <1>1 DEF Chain
  <2>2. (IF i = 1 THEN 0 ELSE T[i - 1].pos) \in Nat
    BY <1>1
  <2>3. i \in DOMAIN T
    BY <1>1
  <2>4. l[d] = Ptr(b, IF i = 1 THEN 0 ELSE T[i - 1].pos)
    BY <2>1, <2>3 DEF Chain
  <2> QED BY <2>2, <2>4, PtrFacts
<1> QED BY <1>2, <1>3, <1>4

LEMMA ChainMoved ==
  ASSUME NEW l, NEW c, NEW b \in Nat, NEW T \in Seq(Trap), Chain(l, c, b, T)
  PROVE  Chain([d \in DOMAIN l |-> Ptr(b + 1, l[d].depth)], Ptr(b + 1, c.depth), b + 1, T)
<1> DEFINE m == [d \in DOMAIN l |-> Ptr(b + 1, l[d].depth)]
<1>1. \A x, y : Ptr(x, y).depth = y
  BY DEF Ptr
<1>2. Ptr(b + 1, c.depth) = Ptr(b + 1, IF T = <<>> THEN 0 ELSE Last(T).pos)
  BY <1>1 DEF Chain
<1>3. DOMAIN m = {T[i].pos : i \in DOMAIN T}
  BY DEF Chain
<1>4. ASSUME NEW i \in DOMAIN T
      PROVE  m[T[i].pos] = Ptr(b + 1, IF i = 1 THEN 0 ELSE T[i - 1].pos)
  <2>1. T[i].pos \in DOMAIN l /\ l[T[i].pos] = Ptr(b, IF i = 1 THEN 0 ELSE T[i - 1].pos)
    BY DEF Chain
  <2> QED BY <2>1, <1>1
<1> HIDE DEF m
<1>5. Chain(m, Ptr(b + 1, c.depth), b + 1, T)
  BY <1>2, <1>3, <1>4 DEF Chain
<1> QED BY <1>5 DEF m

LEMMA ChainPushed ==
  ASSUME NEW l, NEW c, NEW b \in Nat, NEW T \in Seq(Trap), Chain(l, c, b, T),
         NEW p \in Nat, NEW n \in Nat, \A i \in 1..Len(T) : T[i].pos + 4 <= p
  PROVE  Chain([d \in DOMAIN l \cup {p} |-> IF d = p THEN c ELSE l[d]], Ptr(b, p), b,
               Append(T, [pos |-> p, act |-> n]))
<1> DEFINE m == [d \in DOMAIN l \cup {p} |-> IF d = p THEN c ELSE l[d]]
           t == [pos |-> p, act |-> n]
           U == Append(T, t)
<1>1. /\ Len(T) \in Nat /\ DOMAIN T = 1..Len(T) /\ (T # <<>> <=> Len(T) # 0)
      /\ \A i \in 1..Len(T) : T[i].pos \in Nat /\ T[i].pos # p
  BY TrapSeq
<1>2. t \in Trap /\ t.pos = p
  BY DEF Trap
<1> HIDE DEF t
<1>3. /\ U \in Seq(Trap) /\ U # <<>> /\ Len(U) = Len(T) + 1 /\ DOMAIN U = 1..Len(T) + 1
      /\ \A i \in 1..Len(T) : U[i] = T[i]
      /\ U[Len(T) + 1] = t
  BY <1>2, AppendFacts, EmptyFacts
<1> HIDE DEF U
<1>4. Ptr(b, p) = Ptr(b, IF U = <<>> THEN 0 ELSE Last(U).pos)
  BY <1>2, <1>3 DEF Last
<1>5. DOMAIN m = {U[i].pos : i \in DOMAIN U}
  <2>1. DOMAIN m = {T[i].pos : i \in 1..Len(T)} \cup {p}
    BY <1>1 DEF Chain
  <2>2. {U[i].pos : i \in DOMAIN U} = {T[i].pos : i \in 1..Len(T)} \cup {p}
    <3>1. ASSUME NEW i \in 1..Len(T) + 1
          PROVE U[i].pos \in {T[j].pos : j \in 1..Len(T)} \cup {p}
      <4>1. i \in 1..Len(T) \/ i = Len(T) + 1
        BY <1>1
      <4> QED BY <4>1, <1>2, <1>3
    <3>2. ASSUME NEW i \in 1..Len(T) PROVE i \in DOMAIN U /\ U[i].pos = T[i].pos
      BY <1>1, <1>3
    <3>3. Len(T) + 1 \in DOMAIN U /\ U[Len(T) + 1].pos = p
      BY <1>1, <1>2, <1>3
    <3> QED BY <3>1, <3>2, <3>3, <1>3, SMTT(60)
  <2> QED BY <2>1, <2>2
<1>6. ASSUME NEW i \in DOMAIN U
      PROVE  m[U[i].pos] = Ptr(b, IF i = 1 THEN 0 ELSE U[i - 1].pos)
  <2>1. CASE i = Len(T) + 1
    <3>1. m[U[i].pos] = c
      BY <2>1, <1>2, <1>3
    <3>2. CASE T = <<>>
      BY <3>1, <3>2, <2>1, <1>1 DEF Chain
    <3>3. CASE T # <<>>
      <4>1. i # 1 /\ i - 1 = Len(T) /\ U[i - 1] = Last(T)
        BY <3>3, <2>1, <1>1, <1>3 DEF Last
      <4> QED BY <4>1, <3>1, <3>3 DEF Chain
    <3> QED BY <3>2, <3>3
  <2>2. CASE i \in 1..Len(T)
    <3>1. U[i] = T[i] /\ T[i].pos # p /\ T[i].pos \in DOMAIN l /\ m[T[i].pos] = l[T[i].pos]
      BY <2>2, <1>1, <1>3 DEF Chain
    <3>2. i # 1 => U[i - 1] = T[i - 1]
      BY <2>2, <1>1, <1>3
    <3> QED BY <3>1, <3>2, <2>2, <1>1 DEF Chain
  <2> QED BY <2>1, <2>2, <1>1, <1>3
<1> HIDE DEF m
<1>7. Chain(m, Ptr(b, p), b, U)
  BY <1>4, <1>5, <1>6 DEF Chain
<1> QED BY <1>7 DEF m, U, t

LEMMA ChainPopped ==
  ASSUME NEW l, NEW c, NEW b \in Nat, NEW T \in Seq(Trap), T # <<>>, Chain(l, c, b, T),
         NEW A \in Seq(Act), InFrames(T, A)
  PROVE  /\ Chain([d \in DOMAIN l \ {Last(T).pos} |-> l[d]], l[Last(T).pos], b, Front(T))
         /\ c = Ptr(b, Last(T).pos)
<1> DEFINE q == Last(T).pos
           m == [d \in DOMAIN l \ {q} |-> l[d]]
           U == Front(T)
<1>1. /\ Len(T) \in Nat \ {0} /\ Len(T) \in DOMAIN T /\ DOMAIN T = 1..Len(T)
      /\ Last(T) = T[Len(T)]
      /\ \A i \in 1..Len(T) : T[i].pos \in Nat
  BY TrapSeq DEF Last
<1>2. /\ U \in Seq(Trap) /\ Len(U) = Len(T) - 1 /\ DOMAIN U = 1..Len(T) - 1
      /\ U # <<>> <=> Len(T) # 1
      /\ \A i \in 1..Len(T) - 1 : U[i] = T[i] /\ T[i].pos + 4 <= q
  <2>1. /\ U \in Seq(Trap) /\ Len(U) = Len(T) - 1
        /\ \A i \in 1..Len(U) : U[i] = T[i] /\ T[i].pos + 4 <= q
    BY HandlerLeft
  <2> HIDE DEF U
  <2>2. DOMAIN U = 1..Len(U) /\ (U # <<>> <=> Len(U) # 0)
    BY <2>1, TrapSeq
  <2> QED BY <2>1, <2>2, <1>1
<1>3. q \in Nat /\ q = T[Len(T)].pos
  BY <1>1
<1> HIDE DEF U, q
<1>4. \A i \in 1..Len(T) - 1 : i \in DOMAIN T /\ U[i].pos = T[i].pos /\ T[i].pos # q
  BY <1>1, <1>2, <1>3
<1>5. l[q] = Ptr(b, IF U = <<>> THEN 0 ELSE Last(U).pos)
  <2>1. l[q] = Ptr(b, IF Len(T) = 1 THEN 0 ELSE T[Len(T) - 1].pos)
    BY <1>1, <1>3 DEF Chain
  <2>2. Len(T) # 1 => Last(U) = T[Len(T) - 1]
    BY <1>1, <1>2 DEF Last
  <2> QED BY <2>1, <2>2, <1>2
<1>6. DOMAIN m = {U[i].pos : i \in DOMAIN U}
  <2>1. DOMAIN m = {T[i].pos : i \in 1..Len(T)} \ {q}
    BY <1>1 DEF Chain
  <2>2. ASSUME NEW i \in 1..Len(T), T[i].pos # q PROVE i \in 1..Len(T) - 1
    BY <2>2, <1>1, <1>3
  <2>3. {T[i].pos : i \in 1..Len(T)} \ {q} = {U[i].pos : i \in 1..Len(T) - 1}
    BY <2>2, <1>1, <1>4
  <2> QED BY <2>1, <2>3, <1>2
<1>7. ASSUME NEW i \in DOMAIN U
      PROVE  m[U[i].pos] = Ptr(b, IF i = 1 THEN 0 ELSE U[i - 1].pos)
  <2>1. /\ i \in DOMAIN T /\ U[i].pos = T[i].pos /\ T[i].pos # q
        /\ i # 1 => U[i - 1] = T[i - 1]
    BY <1>1, <1>2, <1>4
  <2>2. T[i].pos \in DOMAIN m
    BY <2>1 DEF Chain
  <2> QED BY <2>1, <2>2 DEF Chain
<1>8. c = Ptr(b, q)
  BY DEF Chain, q
<1> HIDE DEF m
<1>9. Chain(m, l[q], b, U)
  BY <1>5, <1>6, <1>7 DEF Chain
<1> QED BY <1>8, <1>9 DEF m, U, q

-----------------------------------------------------------------------------
\* The words above Floor are the running function's own: no handler is there.
LEMMA AboveFloor ==
  ASSUME IInv, NEW x \in Int, x >= Floor
  PROVE  Top.base <= x /\ \A i \in 1..Len(traps) : traps[i].pos <= x
<1>1. TypeOK /\ InFrames(traps, acts)
  BY DEF IInv
<1>2. CASE traps # <<>> /\ Last(traps).act = Len(acts)
  <2> DEFINE n == Len(traps)
  <2>1. n \in Nat \ {0} /\ n \in 1..Len(traps) /\ Last(traps) = traps[n]
    BY <1>1, <1>2, Types DEF Last
  <2>2. x >= traps[n].pos /\ traps[n].pos >= Top.base + 4
    BY <1>1, <1>2, <2>1, Types, Fields DEF Floor, InFrames
  <2>3. \A i \in 1..Len(traps) : traps[i].pos <= traps[n].pos
    <3> SUFFICES ASSUME NEW i \in 1..Len(traps) PROVE traps[i].pos <= traps[n].pos
      OBVIOUS
    <3>1. traps[i].pos \in Nat /\ traps[n].pos \in Nat
      BY <1>1, <2>1, Types, Fields
    <3>2. i # n => traps[i].pos + 4 <= traps[n].pos
      BY <1>1, <2>1 DEF InFrames
    <3> QED BY <3>1, <3>2
  <2> QED BY <1>1, <2>1, <2>2, <2>3, Types, Fields
<1>3. CASE ~(traps # <<>> /\ Last(traps).act = Len(acts))
  <2>1. x >= Top.base
    BY <1>3 DEF Floor
  <2>2. \A i \in 1..Len(traps) : traps[i].act < Len(acts)
    <3> SUFFICES ASSUME NEW i \in 1..Len(traps) PROVE traps[i].act < Len(acts)
      OBVIOUS
    <3>1. Len(traps) \in 1..Len(traps) /\ traps # <<>> /\ Last(traps) = traps[Len(traps)]
      BY <1>1, Types DEF Last
    <3>2. traps[Len(traps)].act < Len(acts) /\ traps[i].act <= traps[Len(traps)].act
      BY <1>1, <1>3, <3>1, Types, Fields DEF InFrames
    <3> QED BY <1>1, <3>1, <3>2, Types, Fields
  <2>3. \A i \in 1..Len(traps) : traps[i].pos + 3 <= Top.base
    BY <1>1, <2>2, Types DEF InFrames
  <2> QED BY <1>1, <2>1, <2>3, Types, Fields
<1> QED BY <1>2, <1>3

\* In tail position the running function has no handler left.
LEMMA TailFacts ==
  ASSUME IInv, InTail
  PROVE  /\ Len(acts) > 1
         /\ \A i \in 1..Len(traps) : traps[i].act < Len(acts) /\ traps[i].pos + 3 <= Top.base
  BY Types DEF IInv, InTail, InFrames

LEMMA Facts ==
  ASSUME IInv
  PROVE  /\ Nested(acts) /\ InFrames(traps, acts) /\ Room(acts, size)
         /\ Chain(links, caml_trapsp, block, traps)
         /\ StackPointer = Ptr(block, sp)
         /\ Top.base \in Nat /\ Top.entry \in Nat /\ Top.limit \in Nat /\ Top.checked \in BOOLEAN
         /\ Top.base <= Top.entry /\ Top.entry + Frame <= Top.limit
         /\ Top.checked => Top.limit + Margin <= size
         /\ \A i \in 1..Len(traps) : traps[i].pos \in Nat /\ traps[i].act \in Nat
<1>1. TypeOK /\ Nested(acts) /\ InFrames(traps, acts) /\ Room(acts, size)
  BY DEF IInv
<1>2. Chain(links, caml_trapsp, block, traps)
  BY DEF IInv, TrapLinks, Chain
<1>3. StackPointer = Ptr(block, sp)
  BY DEF IInv, TypeOK, Pointer, Ptr, sp
<1>4. Top \in Act /\ Top = acts[Len(acts)] /\ Len(acts) \in 1..Len(acts)
  BY <1>1, Types
<1>5. /\ Top.base \in Nat /\ Top.entry \in Nat /\ Top.limit \in Nat /\ Top.checked \in BOOLEAN
      /\ Top.base <= Top.entry /\ Top.entry + Frame <= Top.limit
      /\ Top.checked => Top.limit + Margin <= size
  BY <1>1, <1>4, Fields DEF Nested, Room
<1>6. \A i \in 1..Len(traps) : traps[i].pos \in Nat /\ traps[i].act \in Nat
  BY <1>1, Types, TrapSeq
<1> QED BY <1>1, <1>2, <1>3, <1>5, <1>6

\* How each step below shows that the invariant holds after it.
LEMMA Rebuilt ==
  ASSUME block' \in Nat, size' \in Nat, NEW d \in Nat, StackPointer' = Ptr(block', d),
         acts' \in Seq(Act), acts' # <<>>, traps' \in Seq(Trap),
         status' \in {"running", "overrun", "stopped", "fatal"},
         Nested(acts'), InFrames(traps', acts'), Room(acts', size'),
         status' = "running" => Fits(d, acts', traps'),
         status' = "overrun" => ~acts'[Len(acts')].checked,
         Chain(links', caml_trapsp', block', traps')
  PROVE  IInv'
<1>1. /\ caml_trapsp' \in Pointer /\ DOMAIN links' \subseteq Nat
      /\ \A x \in DOMAIN links' : links'[x] \in Pointer
  BY ChainTyped
<1>2. StackPointer' \in Pointer /\ StackPointer'.block = block' /\ StackPointer'.depth = d
  BY PtrFacts
<1>3. TypeOK'
  BY <1>1, <1>2 DEF TypeOK, Act, Trap
<1>4. TrapLinks'
  BY DEF Chain, TrapLinks
<1>5. OverrunsUnchecked'
  BY DEF OverrunsUnchecked, Top, Last
<1>6. Running' => Fits(sp, acts, traps)'
  BY <1>2 DEF Running, Fits, sp
<1> QED BY <1>2, <1>3, <1>4, <1>5, <1>6 DEF IInv

\* Growth: more room than was asked for, and the links lead where they led.
LEMMA Grown ==
  ASSUME IInv, NEW u \in Nat, NEW r \in Nat, Realloc(u, r)
  PROVE  /\ block' \in Nat /\ size' \in Nat /\ size <= size' /\ u + r <= size'
         /\ Chain(links', caml_trapsp', block', traps)
<1>1. TypeOK
  BY DEF IInv
<1>2. size' \in Nat /\ size <= size' /\ u + r <= size'
  <2>1. size' \in Sizes /\ size' > size /\ size' >= u + r
    BY DEF Realloc, Larger
  <2>2. size' \in Nat /\ size \in Nat
    BY <1>1, <2>1, Types, Numbers
  <2> QED BY <2>1, <2>2
<1>3. block' = block + 1 /\ block' \in Nat
  BY <1>1, Types DEF Realloc
<1>4. /\ caml_trapsp' = Ptr(block + 1, caml_trapsp.depth)
      /\ links' = [d \in DOMAIN links |-> Ptr(block + 1, links[d].depth)]
  BY DEF Realloc, Moved
<1>5. Chain(links', caml_trapsp', block', traps)
  BY <1>1, <1>3, <1>4, Facts, Types, ChainMoved
<1> QED BY <1>2, <1>3, <1>5

LEMMA Stayed ==
  ASSUME IInv, Stay
  PROVE  /\ block' = block /\ size' = size
         /\ block' \in Nat /\ size' \in Nat
         /\ Chain(links', caml_trapsp', block', traps)
<1>1. TypeOK
  BY DEF IInv
<1> QED BY <1>1, Facts, Types DEF Stay

LEMMA Checked ==
  ASSUME IInv, NEW d \in Nat, CHECK_STACKS(d)
  PROVE  /\ block' \in Nat /\ size' \in Nat /\ size <= size' /\ d + Stack_threshold <= size'
         /\ StackPointer' = Ptr(block', d)
         /\ Chain(links', caml_trapsp', block', traps)
<1>1. size \in Nat /\ StackPointer.block = block
  BY Types DEF IInv
<1>2. CASE size - d < Stack_threshold
  BY <1>2, Grown, Numbers DEF CHECK_STACKS
<1>3. CASE ~(size - d < Stack_threshold)
  BY <1>1, <1>3, Stayed, Numbers DEF CHECK_STACKS
<1> QED BY <1>2, <1>3

-----------------------------------------------------------------------------
(* One lemma for each action. *)

LEMMA PushStep ==
  ASSUME IInv, NEW n \in 1..Frame, Push(n)
  PROVE  IInv'
<1>1. TypeOK /\ Stay /\ Fits(sp, acts, traps)
  BY DEF IInv, Push, Stay, Running
<1>2. /\ n \in Nat /\ sp \in Nat /\ sp + n \in Nat /\ sp + n <= Top.limit
      /\ acts' = acts /\ traps' = traps
      /\ StackPointer' = Ptr(block', sp + n)
  BY <1>1, Types, Numbers DEF Push, IInv
<1>3. Fits(sp + n, acts, traps)
  BY <1>1, <1>2, Types, Fields DEF Fits
<1>4. /\ status' \in {"running", "overrun", "stopped", "fatal"}
      /\ status' = "overrun" => ~Top.checked
  BY <1>1, <1>2, Types, Facts, Numbers DEF Push, Running
<1> QED BY <1>1, <1>2, <1>3, <1>4, Rebuilt, Types, Facts, Stayed

LEMMA PopStep ==
  ASSUME IInv, NEW n \in 1..Frame, Pop(n)
  PROVE  IInv'
<1>1. TypeOK /\ Stay /\ Fits(sp, acts, traps)
  BY DEF IInv, Pop, Stay, Running
<1>2. /\ n \in Nat /\ sp \in Nat /\ sp - n \in Int /\ sp - n >= Floor
      /\ acts' = acts /\ traps' = traps /\ status' = "running"
      /\ StackPointer' = Ptr(block', sp - n)
  BY <1>1, Types, Numbers DEF Pop, IInv, Running
<1>3. Fits(sp - n, acts, traps) /\ sp - n \in Nat
  <2>1. Top.base <= sp - n /\ \A i \in 1..Len(traps) : traps[i].pos <= sp - n
    BY <1>2, AboveFloor
  <2>2. Top.base \in Nat /\ Top.limit \in Nat /\ Top = acts[Len(acts)]
    BY <1>1, Facts, Types
  <2> QED BY <1>1, <1>2, <2>1, <2>2 DEF Fits
<1> QED BY <1>1, <1>2, <1>3, Rebuilt, Types, Facts, Stayed

LEMMA UnwindStep ==
  ASSUME IInv, Running, Unwind
  PROVE  IInv'
<1> DEFINE n == Last(traps).act
           q == Last(traps).pos
<1>1. TypeOK /\ traps # <<>> /\ Last(traps) = traps[Len(traps)] /\ Len(traps) \in 1..Len(traps)
  BY Types DEF IInv, Unwind, Last
<1>2. n \in 1..Len(acts) /\ acts[n].base + 4 <= q /\ q <= acts[n].limit /\ q \in Nat
      /\ acts[n].base \in Nat /\ acts[n].limit \in Nat
  BY <1>1, Facts, Types, Fields DEF InFrames
<1>3. /\ Front(traps) \in Seq(Trap) /\ Len(Front(traps)) = Len(traps) - 1
      /\ InFrames(Front(traps), acts)
      /\ \A i \in 1..Len(Front(traps)) :
           /\ Front(traps)[i] = traps[i] /\ traps[i].pos + 4 <= q /\ traps[i].act <= n
  BY <1>1, Facts, Types, HandlerLeft
<1>4. /\ Chain([d \in DOMAIN links \ {q} |-> links[d]], links[q], block, Front(traps))
      /\ caml_trapsp = Ptr(block, q)
  <2>1. /\ links = links /\ block \in Nat /\ traps \in Seq(Trap) /\ acts \in Seq(Act)
        /\ InFrames(traps, acts) /\ Chain(links, caml_trapsp, block, traps)
    BY <1>1, Facts, Types
  <2> QED BY <1>1, <2>1, ChainPopped, ZenonT(60)
<1>5. caml_trapsp.block = block /\ caml_trapsp.depth = q
  BY <1>1, <1>2, <1>4, PtrFacts, Types
<1>6. /\ traps' = Front(traps) /\ acts' = SubSeq(acts, 1, n)
      /\ block' = block /\ size' = size /\ status' = "running"
      /\ StackPointer' = Ptr(block', q - 4)
      /\ Chain(links', caml_trapsp', block', traps')
  BY <1>4, <1>5 DEF Unwind, getExceptionValue, Running
<1>7. /\ Nested(acts') /\ InFrames(traps', acts') /\ Room(acts', size')
      /\ acts' \in Seq(Act) /\ acts' # <<>> /\ Len(acts') = n /\ acts'[n] = acts[n]
  BY <1>1, <1>2, <1>3, <1>6, Facts, Types, LeftActs, ZenonT(60)
<1>8. q - 4 \in Nat /\ Fits(q - 4, acts', traps')
  <2>1. q - 4 \in Nat /\ acts'[Len(acts')].base <= q - 4 /\ q - 4 <= acts'[Len(acts')].limit
    BY <1>2, <1>7, SMTT(60)
  <2>2. ASSUME NEW i \in 1..Len(traps') PROVE traps'[i].pos <= q - 4
    <3>1. traps'[i] = traps[i] /\ traps[i].pos + 4 <= q /\ i \in 1..Len(traps)
      <4>1. i \in 1..Len(Front(traps)) /\ Len(traps) \in Nat
        BY <1>1, <1>6, Types
      <4> QED BY <4>1, <1>3, <1>6
    <3>2. traps[i].pos \in Nat
      BY <3>1, Facts
    <3> QED BY <1>2, <3>1, <3>2
  <2> QED BY <2>1, <2>2 DEF Fits
<1> QED BY <1>1, <1>3, <1>6, <1>7, <1>8, Rebuilt, Types

\* A step that only changes the status, and does not go on running.
LEMMA EndStep ==
  ASSUME IInv, UNCHANGED <<block, size, StackPointer, caml_trapsp, links, acts, traps>>,
         status' \in {"overrun", "stopped", "fatal"},
         status' = "overrun" => ~Top.checked
  PROVE  IInv'
<1>1. TypeOK
  BY DEF IInv
<1> QED BY <1>1, Rebuilt, Types, Facts

LEMMA StackOverflowStep ==
  ASSUME IInv, Running, StackOverflow
  PROVE  IInv'
<1>1. CASE Unwind
  BY <1>1, UnwindStep
<1>2. CASE ~Unwind
  BY <1>2, EndStep DEF StackOverflow
<1> QED BY <1>1, <1>2

LEMMA applyNStep ==
  ASSUME IInv, NEW n \in 1..3, applyN(n)
  PROVE  IInv'
<1> DEFINE d == sp + 3
           a == Activation(d - n, d, TRUE)
<1>1. TypeOK /\ Fits(sp, acts, traps)
  BY DEF IInv, applyN, ApplyGuard, Running
<1>2. /\ n \in Nat /\ n <= 3 /\ sp \in Nat /\ d \in Nat /\ d - n \in Nat /\ d - n <= d
      /\ sp - n \in Int /\ sp - n >= Floor /\ sp <= Top.limit
      /\ acts' = Append(acts, a) /\ traps' = traps /\ status' = "running"
      /\ CHECK_STACKS(d)
  <2>1. n \in Nat /\ n <= 3 /\ sp \in Nat
    BY <1>1, Types
  <2>2. sp <= Top.limit
    BY <1>1, Types DEF Fits
  <2> QED BY <2>1, <2>2 DEF applyN, ApplyGuard, Running
<1>3. /\ block' \in Nat /\ size' \in Nat /\ size <= size' /\ d + Stack_threshold <= size'
      /\ StackPointer' = Ptr(block', d)
      /\ Chain(links', caml_trapsp', block', traps)
  BY <1>2, Checked
<1>4. a \in Act /\ a.base = d - n /\ a.entry = d /\ a.limit = d + Frame /\ a.checked
  BY <1>2, ActFacts
<1> HIDE DEF a
<1>5. /\ Top.base + 3 <= a.base /\ a.base <= Top.limit + 3
      /\ \A i \in 1..Len(traps) : traps[i].pos + 3 <= a.base
  <2>1. Top.base <= sp - n /\ \A i \in 1..Len(traps) : traps[i].pos <= sp - n
    BY <1>2, AboveFloor
  <2>2. Top.base \in Nat /\ Top.limit \in Nat /\ \A i \in 1..Len(traps) : traps[i].pos \in Nat
    BY Facts
  <2> QED BY <1>2, <1>4, <2>1, <2>2
<1>6. /\ Nested(acts') /\ InFrames(traps, acts') /\ Room(acts', size')
      /\ acts' \in Seq(Act) /\ acts' # <<>> /\ acts'[Len(acts')] = a
  <2>1. Room(acts, size')
    BY <1>1, <1>3, Facts, Types, GrownRoom
  <2>2. a.base <= a.entry /\ a.entry + Frame <= a.limit /\ a.limit + Margin <= size'
    BY <1>2, <1>3, <1>4, Numbers
  <2>3. acts'[Len(acts')] = a
    BY <1>1, <1>2, <1>4, Types, AppendFacts
  <2> QED BY <1>1, <1>2, <1>3, <1>4, <1>5, <2>1, <2>2, <2>3, Facts, Types, Entered
<1>7. Fits(d, acts', traps)
  <2>1. a.base <= d /\ d <= a.limit
    BY <1>2, <1>4, Numbers
  <2>2. \A i \in 1..Len(traps) : traps[i].pos <= d
    BY <1>1, <1>2, Facts DEF Fits
  <2> QED BY <1>6, <2>1, <2>2 DEF Fits
<1> QED BY <1>1, <1>2, <1>3, <1>6, <1>7, Rebuilt, Types

LEMMA applyStep ==
  ASSUME IInv, NEW n \in 4..Frame, apply(n)
  PROVE  IInv'
<1> DEFINE a == Activation(sp - n, sp, FALSE)
           x == sp - (n + 3)
<1>1. TypeOK /\ Fits(sp, acts, traps) /\ Stay
  BY DEF IInv, apply, Running, Stay
<1>2. /\ n \in Nat /\ sp \in Nat /\ x \in Int /\ x >= Floor /\ sp <= Top.limit
      /\ acts' = Append(acts, a) /\ traps' = traps /\ status' = "running"
      /\ StackPointer' = Ptr(block', sp)
  BY <1>1, Types, Facts, Numbers DEF apply, Running, Fits
<1>3. Top.base <= x /\ \A i \in 1..Len(traps) : traps[i].pos <= x
  BY <1>2, AboveFloor
<1>4. a \in Act /\ a.base = sp - n /\ a.entry = sp /\ a.limit = sp + Frame /\ ~a.checked
  <2>1. sp - n \in Nat
    BY <1>2, <1>3, Facts
  <2> QED BY <1>2, <2>1, ActFacts
<1> HIDE DEF a
<1>5. /\ Top.base + 3 <= a.base /\ a.base <= Top.limit + 3
      /\ \A i \in 1..Len(traps) : traps[i].pos + 3 <= a.base
  <2>1. Top.base \in Nat /\ Top.limit \in Nat /\ \A i \in 1..Len(traps) : traps[i].pos \in Nat
    BY Facts
  <2> QED BY <1>2, <1>3, <1>4, <2>1, SMTT(60)
<1>6. /\ Nested(acts') /\ InFrames(traps, acts') /\ Room(acts', size)
      /\ acts' \in Seq(Act) /\ acts' # <<>> /\ acts'[Len(acts')] = a
  <2>1. a.base <= a.entry /\ a.entry + Frame <= a.limit
    BY <1>2, <1>4, Numbers
  <2>2. acts'[Len(acts')] = a
    BY <1>1, <1>2, <1>4, Types, AppendFacts
  <2> QED BY <1>1, <1>2, <1>4, <1>5, <2>1, <2>2, Facts, Types, Entered
<1>7. Fits(sp, acts', traps)
  <2>1. a.base <= sp /\ sp <= a.limit
    BY <1>2, <1>4, Numbers
  <2>2. \A i \in 1..Len(traps) : traps[i].pos <= sp
    BY <1>1 DEF Fits
  <2> QED BY <1>6, <2>1, <2>2 DEF Fits
<1> QED BY <1>1, <1>2, <1>6, <1>7, Rebuilt, Types, Stayed

LEMMA TailPositions ==
  ASSUME IInv, InTail, Running, NEW d \in Top.base + 1 .. sp
  PROVE  /\ d \in Nat /\ Top.base <= d /\ d <= sp /\ sp <= Top.limit
         /\ \A i \in 1..Len(traps) : traps[i].act < Len(acts) /\ traps[i].pos <= d
<1>1. TypeOK /\ Fits(sp, acts, traps)
  BY DEF IInv
<1>2. Top.base \in Nat /\ sp \in Nat /\ sp <= Top.limit
  BY <1>1, Facts, Types DEF Fits
<1>3. d \in Nat /\ Top.base <= d /\ d <= sp
  BY <1>2
<1>4. \A i \in 1..Len(traps) : traps[i].pos \in Nat
  BY Facts
<1> QED BY <1>2, <1>3, <1>4, TailFacts

LEMMA apptermStep ==
  ASSUME IInv, NEW d \in 1..sp, appterm(d)
  PROVE  IInv'
<1> DEFINE a == Activation(Top.base, d, TRUE)
<1>1. /\ TypeOK /\ InTail /\ Running /\ d \in Top.base + 1 .. sp
      /\ acts' = [acts EXCEPT ![Len(acts)] = a]
      /\ traps' = traps /\ status' = "running" /\ CHECK_STACKS(d)
  BY DEF IInv, appterm, TailGuard, Replaced, Running
<1>2. /\ d \in Nat /\ Top.base <= d
      /\ \A i \in 1..Len(traps) : traps[i].act < Len(acts) /\ traps[i].pos <= d
  BY <1>1, TailPositions
<1>3. /\ block' \in Nat /\ size' \in Nat /\ size <= size' /\ d + Stack_threshold <= size'
      /\ StackPointer' = Ptr(block', d)
      /\ Chain(links', caml_trapsp', block', traps)
  BY <1>1, <1>2, Checked
<1>4. a \in Act /\ a.base = Top.base /\ a.entry = d /\ a.limit = d + Frame /\ a.checked
  BY <1>2, Facts, ActFacts, ZenonT(60)
<1> HIDE DEF a
<1>5. /\ Nested(acts') /\ InFrames(traps, acts') /\ Room(acts', size')
      /\ acts' \in Seq(Act) /\ acts' # <<>> /\ acts'[Len(acts')] = a
  <2>1. Room(acts, size')
    BY <1>1, <1>3, Facts, Types, GrownRoom
  <2>2. a.base <= a.entry /\ a.entry + Frame <= a.limit /\ a.limit + Margin <= size'
    BY <1>2, <1>3, <1>4, Numbers
  <2>3. \A i \in 1..Len(traps) : traps[i].act = Len(acts) => traps[i].pos <= a.limit
    BY <1>1, <1>2, Facts, Types
  <2>4. /\ acts \in Seq(Act) /\ acts # <<>> /\ traps \in Seq(Trap)
        /\ Nested(acts) /\ InFrames(traps, acts) /\ a.base = acts[Len(acts)].base
    BY <1>1, <1>4, Facts, Types
  <2> QED BY <1>1, <1>3, <1>4, <2>1, <2>2, <2>3, <2>4, ReplacedTop
<1>6. Fits(d, acts', traps)
  BY <1>2, <1>4, <1>5, Numbers DEF Fits
<1> QED BY <1>1, <1>2, <1>3, <1>5, <1>6, Rebuilt, Types

LEMMA ReturnIntoStep ==
  ASSUME IInv, NEW d \in 1..sp, ReturnInto(d)
  PROVE  IInv'
<1> DEFINE a == Activation(Top.base, d, Top.checked)
<1>1. /\ TypeOK /\ InTail /\ Running /\ Stay /\ d \in Top.base + 1 .. sp /\ d < Top.entry
      /\ acts' = [acts EXCEPT ![Len(acts)] = a]
      /\ traps' = traps /\ status' = "running" /\ StackPointer' = Ptr(StackPointer.block, d)
  BY DEF IInv, ReturnInto, Replaced, Running, Stay
<1>2. /\ d \in Nat /\ Top.base <= d
      /\ \A i \in 1..Len(traps) : traps[i].act < Len(acts) /\ traps[i].pos <= d
  BY <1>1, TailPositions
<1>3. StackPointer' = Ptr(block', d)
  BY <1>1, Stayed DEF IInv
<1>4. a \in Act /\ a.base = Top.base /\ a.entry = d /\ a.limit = d + Frame
      /\ a.checked = Top.checked
  BY <1>2, Facts, ActFacts
<1> HIDE DEF a
<1>5. /\ Nested(acts') /\ InFrames(traps, acts') /\ Room(acts', size)
      /\ acts' \in Seq(Act) /\ acts' # <<>> /\ acts'[Len(acts')] = a
  <2>1. a.base <= a.entry /\ a.entry + Frame <= a.limit
    BY <1>2, <1>4, Numbers
  <2>2. a.checked => a.limit + Margin <= size
    <3>1. Top.entry \in Nat /\ Top.limit \in Nat /\ size \in Nat
      BY <1>1, Facts, Types
    <3> QED BY <1>1, <1>2, <1>4, <3>1, Facts, Numbers
  <2>3. \A i \in 1..Len(traps) : traps[i].act = Len(acts) => traps[i].pos <= a.limit
    BY <1>1, <1>2, Facts, Types
  <2>4. /\ acts \in Seq(Act) /\ acts # <<>> /\ traps \in Seq(Trap)
        /\ Nested(acts) /\ InFrames(traps, acts) /\ a.base = acts[Len(acts)].base
    BY <1>1, <1>4, Facts, Types
  <2>5. size \in Nat /\ Room(acts, size)
    BY <1>1, Facts, Types
  <2> QED BY <1>1, <1>4, <2>1, <2>2, <2>3, <2>4, <2>5, ReplacedTop
<1>6. Fits(d, acts', traps)
  BY <1>2, <1>4, <1>5, Numbers DEF Fits
<1> QED BY <1>1, <1>2, <1>3, <1>5, <1>6, Rebuilt, Types, Stayed

LEMMA ReturnStep ==
  ASSUME IInv, Return
  PROVE  IInv'
<1> DEFINE n == Len(acts) - 1
           d == Top.base - 3
<1>1. /\ TypeOK /\ InTail /\ Running /\ Stay
      /\ acts' = SubSeq(acts, 1, n) /\ traps' = traps /\ status' = "running"
      /\ StackPointer' = Ptr(StackPointer.block, d)
  BY DEF IInv, Return, Front, Running, Stay
<1>2. /\ Len(acts) > 1 /\ n \in 1..Len(acts) /\ n \in 1..Len(acts) - 1 /\ n + 1 = Len(acts)
      /\ \A i \in 1..Len(traps) : traps[i].act <= n /\ traps[i].pos <= d
  <2>1. Len(acts) \in Nat /\ Len(acts) > 1 /\ Top.base \in Nat
    BY <1>1, Types, Facts, TailFacts
  <2> QED BY <1>1, <2>1, Facts, TailFacts
<1>3. acts[n].base <= d /\ d <= acts[n].limit /\ d \in Nat
  <2>1. acts[n].base + 3 <= acts[n + 1].base /\ acts[n + 1].base <= acts[n].limit + 3
    BY <1>2, Facts DEF Nested
  <2>2. acts[n] \in Act /\ acts[n + 1] = Top
    BY <1>1, <1>2, Types
  <2> QED BY <2>1, <2>2, Fields, Facts, SMTT(60)
<1>4. StackPointer' = Ptr(block', d)
  BY <1>1, Stayed DEF IInv
<1>5. /\ Nested(acts') /\ InFrames(traps, acts') /\ Room(acts', size)
      /\ acts' \in Seq(Act) /\ acts' # <<>> /\ Len(acts') = n /\ acts'[n] = acts[n]
  BY <1>1, <1>2, Facts, Types, LeftActs
<1>6. Fits(d, acts', traps)
  BY <1>2, <1>3, <1>5 DEF Fits
<1> QED BY <1>1, <1>3, <1>4, <1>5, <1>6, Rebuilt, Types, Stayed

LEMMA EnsureStep ==
  ASSUME IInv, NEW r \in Large, EnsureCapacity(r)
  PROVE  IInv'
<1> DEFINE a == [Top EXCEPT !.limit = Top.entry + r - Margin, !.checked = TRUE]
<1>1. /\ TypeOK /\ Running /\ Fits(sp, acts, traps) /\ sp = Top.entry
      /\ Top.limit = Top.entry + Frame
      /\ acts' = [acts EXCEPT ![Len(acts)] = a]
      /\ traps' = traps /\ status' = "running" /\ StackPointer' = Ptr(block', sp)
      /\ IF size - (sp + 1) < r THEN Realloc(sp + 1, r) ELSE Stay
  BY DEF IInv, EnsureCapacity, caml_ensure_stack_capacity, EnsureGuard, Replaced, Running
<1>2. r \in Nat /\ r > Stack_threshold /\ sp \in Nat /\ sp + 1 \in Nat /\ size \in Nat
  BY <1>1, Numbers, Types, SMTT(60)
<1>3. /\ block' \in Nat /\ size' \in Nat /\ size <= size' /\ sp + 1 + r <= size'
      /\ Chain(links', caml_trapsp', block', traps)
  <2>1. CASE size - (sp + 1) < r
    BY <1>1, <1>2, <2>1, Grown
  <2>2. CASE ~(size - (sp + 1) < r)
    BY <1>1, <1>2, <2>2, Stayed
  <2> QED BY <2>1, <2>2
<1>4. /\ a \in Act /\ a.base = Top.base /\ a.entry = Top.entry /\ a.checked
      /\ a.limit = sp + r - Margin /\ a.limit >= sp + Frame /\ a.limit \in Nat
  <2>1. Top \in [base : Nat, entry : Nat, limit : Nat, checked : BOOLEAN]
    BY <1>1, Types DEF Act
  <2>2. sp + r - Margin \in Nat /\ sp + r - Margin >= sp + Frame
    BY <1>2, Numbers
  <2> QED BY <1>1, <2>1, <2>2 DEF Act
<1> HIDE DEF a
<1>5. /\ Nested(acts') /\ InFrames(traps, acts') /\ Room(acts', size')
      /\ acts' \in Seq(Act) /\ acts' # <<>> /\ acts'[Len(acts')] = a
  <2>1. Room(acts, size')
    BY <1>1, <1>3, Facts, Types, GrownRoom
  <2>2. a.base <= a.entry /\ a.entry + Frame <= a.limit /\ a.limit + Margin <= size'
    BY <1>1, <1>2, <1>3, <1>4, Facts, Numbers, SMTT(60)
  <2>3. \A i \in 1..Len(traps) : traps[i].pos <= a.limit
    <3>1. \A i \in 1..Len(traps) : traps[i].pos <= sp /\ traps[i].pos \in Nat
      BY <1>1, Facts DEF Fits
    <3> QED BY <1>2, <1>4, <3>1, Numbers
  <2>4. /\ acts \in Seq(Act) /\ acts # <<>> /\ traps \in Seq(Trap)
        /\ Nested(acts) /\ InFrames(traps, acts) /\ a.base = acts[Len(acts)].base
    BY <1>1, <1>4, Facts, Types
  <2> QED BY <1>1, <1>3, <1>4, <2>1, <2>2, <2>3, <2>4, ReplacedTop
<1>6. Fits(sp, acts', traps)
  <2>1. a.base <= sp /\ sp <= a.limit
    BY <1>1, <1>2, <1>4, Facts, Numbers
  <2> QED BY <1>1, <1>5, <2>1 DEF Fits
<1> QED BY <1>1, <1>2, <1>3, <1>5, <1>6, Rebuilt, Types

LEMMA pushTrapStep ==
  ASSUME IInv, pushTrap
  PROVE  IInv'
<1> DEFINE p == sp + 4
           t == [pos |-> p, act |-> Len(acts)]
<1>1. /\ TypeOK /\ Running /\ Fits(sp, acts, traps) /\ p <= Top.limit
      /\ StackPointer = Ptr(block, sp) /\ StackPointer.block = block
      /\ StackPointer' = Ptr(block, p) /\ caml_trapsp' = Ptr(block, p)
      /\ links' = [d \in DOMAIN links \cup {p} |-> IF d = p THEN caml_trapsp ELSE links[d]]
      /\ traps' = Append(traps, t)
      /\ status' = IF p > size THEN "overrun" ELSE status
      /\ block' = block /\ size' = size /\ acts' = acts
  BY Facts DEF IInv, pushTrap, Running
<1>2. p \in Nat /\ sp \in Nat /\ \A i \in 1..Len(traps) : traps[i].pos \in Nat
  BY <1>1, Types, Facts
<1>3. \A i \in 1..Len(traps) : traps[i].pos + 4 <= p
  BY <1>1, <1>2 DEF Fits
<1>4. Top.base + 4 <= p
  BY <1>1, <1>2, Types, Facts DEF Fits
<1>5. traps' \in Seq(Trap) /\ InFrames(traps', acts)
  BY <1>1, <1>2, <1>3, <1>4, Facts, Types, HandlerInFrame
<1>6. Chain(links', caml_trapsp', block', traps')
  <2>1. /\ block \in Nat /\ traps \in Seq(Trap) /\ Len(acts) \in Nat
        /\ Chain(links, caml_trapsp, block, traps)
    BY <1>1, Facts, Types
  <2> QED BY <1>1, <1>2, <1>3, <2>1, ChainPushed, ZenonT(60)
<1>7. Fits(p, acts, traps')
  <2>1. t \in Trap /\ t.pos = p
    BY <1>1, <1>2, Types DEF Trap
  <2> HIDE DEF t
  <2>2. /\ Len(traps') = Len(traps) + 1 /\ traps'[Len(traps) + 1] = t
        /\ \A i \in 1..Len(traps) : traps'[i] = traps[i]
    BY <1>1, <2>1, Types, AppendFacts
  <2>3. ASSUME NEW i \in 1..Len(traps') PROVE traps'[i].pos <= p
    <3>1. CASE i = Len(traps) + 1
      BY <3>1, <1>2, <2>1, <2>2
    <3>2. CASE i \in 1..Len(traps)
      BY <3>2, <1>2, <1>3, <2>2
    <3> QED BY <3>1, <3>2, <1>1, <2>2, Types
  <2> QED BY <1>1, <1>2, <1>4, <2>3, Types, Facts, SMTT(60) DEF Fits
<1>8. /\ status' \in {"running", "overrun", "stopped", "fatal"}
      /\ status' = "overrun" => ~Top.checked
  BY <1>1, <1>2, Types, Facts, Numbers DEF Running
<1> QED BY <1>1, <1>2, <1>5, <1>6, <1>7, <1>8, Rebuilt, Types, Facts

LEMMA popTrapStep ==
  ASSUME IInv, popTrap
  PROVE  IInv'
<1> DEFINE q == Last(traps).pos
<1>1. /\ TypeOK /\ Running /\ traps # <<>> /\ q = sp /\ Last(traps).act = Len(acts)
      /\ StackPointer.block = block /\ Fits(sp, acts, traps)
      /\ StackPointer' = Ptr(block, q - 4) /\ caml_trapsp' = links[q]
      /\ links' = [d \in DOMAIN links \ {q} |-> links[d]]
      /\ traps' = Front(traps) /\ status' = "running"
      /\ block' = block /\ size' = size /\ acts' = acts
  BY DEF IInv, popTrap, Running
<1>2. /\ Front(traps) \in Seq(Trap) /\ Len(Front(traps)) = Len(traps) - 1
      /\ InFrames(Front(traps), acts)
      /\ \A i \in 1..Len(Front(traps)) :
           Front(traps)[i] = traps[i] /\ traps[i].pos + 4 <= q
  BY <1>1, Facts, Types, HandlerLeft
<1>3. Chain(links', caml_trapsp', block', traps')
  <2>1. /\ block \in Nat /\ traps \in Seq(Trap) /\ acts \in Seq(Act)
        /\ InFrames(traps, acts) /\ Chain(links, caml_trapsp, block, traps)
    BY <1>1, Facts, Types
  <2> QED BY <1>1, <2>1, ChainPopped
<1>4. Top.base + 4 <= q /\ q <= Top.limit /\ q \in Nat
  <2>1. Last(traps) = traps[Len(traps)] /\ Len(traps) \in 1..Len(traps)
    BY <1>1, Types DEF Last
  <2>2. Last(traps).act = Len(acts) /\ Top = acts[Len(acts)]
    BY <1>1, Types
  <2> QED BY <1>1, <2>1, <2>2, Facts, Types DEF InFrames
<1>5. q - 4 \in Nat /\ Fits(q - 4, acts, traps')
  <2>1. q - 4 \in Nat /\ Top.base <= q - 4 /\ q - 4 <= Top.limit
    BY <1>4, Facts
  <2>2. ASSUME NEW i \in 1..Len(traps') PROVE traps'[i].pos <= q - 4
    <3>1. traps'[i] = traps[i] /\ traps[i].pos + 4 <= q /\ i \in 1..Len(traps)
      BY <1>1, <1>2, Types
    <3>2. traps[i].pos \in Nat
      BY <3>1, Facts
    <3> QED BY <1>4, <3>1, <3>2
  <2> QED BY <1>1, <2>1, <2>2, Types DEF Fits
<1> QED BY <1>1, <1>2, <1>3, <1>5, Rebuilt, Types, Facts

LEMMA InitInv == Init => IInv
<1> SUFFICES ASSUME Init PROVE IInv
  OBVIOUS
<1> DEFINE a == Activation(0, 0, TRUE)
<1>1. /\ block = 1 /\ size = InitSize /\ StackPointer = Ptr(1, 0) /\ caml_trapsp = Ptr(1, 0)
      /\ links = << >> /\ status = "running" /\ acts = <<a>> /\ traps = <<>>
  BY DEF Init
<1>2. a \in Act /\ a.base = 0 /\ a.entry = 0 /\ a.limit = Frame /\ a.checked
  <2>1. 0 \in Nat /\ TRUE \in BOOLEAN /\ 0 + Frame = Frame
    BY Numbers
  <2> QED BY <2>1, ActFacts
<1> HIDE DEF a
<1>3. Len(acts) = 1 /\ acts[1] = a /\ Len(traps) = 0 /\ acts # <<>> /\ acts \in Seq(Act)
      /\ traps \in Seq(Trap) /\ DOMAIN traps = {} /\ DOMAIN links = {}
  BY <1>1, <1>2
<1>4. Ptr(1, 0) \in Pointer /\ Ptr(1, 0).block = 1 /\ Ptr(1, 0).depth = 0
  BY PtrFacts
<1>5. TypeOK
  BY <1>1, <1>3, <1>4, Numbers DEF TypeOK, Act, Trap
<1>6. Nested(acts) /\ InFrames(traps, acts) /\ Room(acts, size) /\ Fits(sp, acts, traps)
  BY <1>1, <1>2, <1>3, <1>4, Numbers DEF Nested, InFrames, Room, Fits, sp
<1>7. TrapLinks /\ OverrunsUnchecked /\ StackPointer.block = block
  BY <1>1, <1>3, <1>4 DEF TrapLinks, OverrunsUnchecked
<1> QED BY <1>5, <1>6, <1>7 DEF IInv

LEMMA NextInv == IInv /\ [Next]_vars => IInv'
<1> SUFFICES ASSUME IInv, [Next]_vars PROVE IInv'
  OBVIOUS
<1>0. sp \in Nat /\ size \in Nat /\ Top.limit \in Nat
      /\ (Running => sp <= Top.limit) /\ (Top.checked => Top.limit + Margin <= size)
  BY Types, Facts DEF IInv, Fits
<1>1. ASSUME NEW n \in 1..Frame, Push(n) \/ Pop(n) PROVE IInv'
  BY <1>1, PushStep, PopStep
<1>2. ASSUME NEW n \in 1..3, applyN(n) PROVE IInv'
  BY <1>2, applyNStep
<1>3. ASSUME NEW n \in 1..3, applyN_overflows(n) PROVE IInv'
  BY <1>3, StackOverflowStep DEF applyN_overflows, ApplyGuard
<1>4. ASSUME NEW n \in 1..3, applyN_overruns(n) PROVE IInv'
  BY <1>0, <1>4, Numbers, EndStep DEF applyN_overruns, ApplyGuard
<1>5. ASSUME NEW n \in 4..Frame, apply(n) PROVE IInv'
  BY <1>5, applyStep
<1>6. ASSUME NEW d \in 1..sp, appterm(d) \/ ReturnInto(d) PROVE IInv'
  BY <1>6, apptermStep, ReturnIntoStep
<1>7. ASSUME NEW d \in 1..sp, appterm_overflows(d) PROVE IInv'
  BY <1>7, StackOverflowStep DEF appterm_overflows, TailGuard
<1>8. CASE Return
  BY <1>8, ReturnStep
<1>9. ASSUME NEW r \in Large, EnsureCapacity(r) PROVE IInv'
  BY <1>9, EnsureStep
<1>10. ASSUME NEW r \in Large, EnsureOverflows(r) PROVE IInv'
  BY <1>10, StackOverflowStep DEF EnsureOverflows, EnsureGuard
<1>11. CASE c_call_overruns
  BY <1>0, <1>11, Numbers, EndStep DEF c_call_overruns
<1>12. CASE pushTrap
  BY <1>12, pushTrapStep
<1>13. CASE popTrap
  BY <1>13, popTrapStep
<1>14. CASE Raise
  BY <1>14, UnwindStep DEF Raise
<1>15. CASE Stop
  BY <1>15, EndStep DEF Stop
<1>16. CASE UNCHANGED vars
  <2>1. TypeOK /\ Stay /\ acts' = acts /\ traps' = traps /\ status' = status
        /\ StackPointer' = StackPointer
    BY <1>16 DEF vars, Stay, IInv
  <2>2. status \in {"running", "overrun", "stopped", "fatal"}
    BY <2>1 DEF TypeOK
  <2>3. StackPointer' = Ptr(block', sp) /\ sp \in Nat
    BY <2>1, Facts, Types DEF Stay
  <2>4. status = "running" => Fits(sp, acts, traps)
    BY DEF IInv, Running
  <2>5. status = "overrun" => ~acts[Len(acts)].checked
    BY <2>1, Types DEF IInv, OverrunsUnchecked
  <2> QED BY <2>1, <2>2, <2>3, <2>4, <2>5, Rebuilt, Types, Facts, Stayed
<1> QED BY <1>1, <1>2, <1>3, <1>4, <1>5, <1>6, <1>7, <1>8, <1>9, <1>10, <1>11, <1>12,
           <1>13, <1>14, <1>15, <1>16 DEF Next

-----------------------------------------------------------------------------
(* The invariant holds in every state of every run, whatever the sizes of the
   stack, of the threshold and of a frame, as long as a frame and what the
   runtime adds to it fit below the threshold. *)
THEOREM Invariance == Spec => []IInv
  BY InitInv, NextInv, PTL DEF Spec

(* The return frames and the arguments of every activation stay at a depth of
   the stack: no RETURN or raise takes StackPointer above its high end. *)
THEOREM TypeCorrect == Spec => []TypeOK
<1>1. IInv => TypeOK
  BY DEF IInv
<1> QED BY <1>1, Invariance, PTL

(* CHECK_STACKS in apply1 to apply3 and in the tail calls is enough: the stack
   is written below its low end only in a function that `apply' entered. *)
THEOREM OverrunsOnlyUnchecked == Spec => []OverrunsUnchecked
<1>1. IInv => OverrunsUnchecked
  BY DEF IInv
<1> QED BY <1>1, Invariance, PTL

(* Reading StackPointer back after caml_realloc_stack leaves nobody with a
   pointer into the stack that was freed. *)
THEOREM PointersCorrect == Spec => []PointersCurrent
<1>1. ASSUME IInv PROVE PointersCurrent
  <2>1. TypeOK /\ StackPointer.block = block
    BY <1>1 DEF IInv
  <2>2. Chain(links, caml_trapsp, block, traps)
    BY <1>1, Facts
  <2> QED BY <2>1, <2>2, Types, ChainTyped, ZenonT(60) DEF PointersCurrent
<1> QED BY <1>1, Invariance, PTL

(* A raise finds its handler, and the one before it, wherever growth has moved
   them. *)
THEOREM TrapLinksCorrect == Spec => []TrapLinks
<1>1. IInv => TrapLinks
  BY DEF IInv
<1> QED BY <1>1, Invariance, PTL
=============================================================================

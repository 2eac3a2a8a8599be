-------------------------- MODULE ZamControlProofs --------------------------
(***************************************************************************)
(* The invariants of ZamControl, proved for every stack size and every     *)
(* number of arguments and handlers.  They are only inductive together:    *)
(* that a frame still holds what was saved in it follows from where the    *)
(* frames are, and where the frames are from what was saved in them.       *)
(* From them, that ZamControl implements Activations.                      *)
(*                                                                         *)
(* The last part is about GcRoots, which adds the collector to ZamControl. *)
(***************************************************************************)
EXTENDS GcRoots, SequenceTheorems, TLAPS

-----------------------------------------------------------------------------
(* What the invariants of ZamControl leave out, and their proof needs. *)

\* Return frames do not overlap.
ReturnFramesOrdered ==
  \A i, j \in 1..Len(calls) : i < j => calls[i] <= calls[j] - 3

\* What a return restores is an environment and a count of arguments.
SavedTyped ==
  \A k \in Depths : EnvOf(k) \in Closures \cup {0} /\ ExtraOf(k) \in Nat

\* A function that starts has no frame yet; RESTART is only at an entry.
FreshEntry ==
  /\ at = "entry" => InTail
  /\ at = "body" => restored = 0

IInv ==
  /\ TypeOK
  /\ ReturnFramesOrdered /\ ActivationsFit
  /\ EntryFits /\ FreshEntry
  /\ TrapsFit /\ PendsFit /\ TrapsPendsApart
  /\ SavedTyped
  /\ TrapChain /\ ContextChain /\ SavedContexts /\ NativeLockstep

-----------------------------------------------------------------------------
(* Sequences and tagged integers. *)

LEMMA AppendFacts ==
  ASSUME NEW S, NEW s \in Seq(S), NEW e \in S
  PROVE  /\ Append(s, e) \in Seq(S)
         /\ Len(Append(s, e)) = Len(s) + 1
         /\ \A i \in 1..Len(s) : Append(s, e)[i] = s[i]
         /\ Append(s, e)[Len(s) + 1] = e
  OBVIOUS

LEMMA PrefixFacts ==
  ASSUME NEW S, NEW s \in Seq(S), NEW n \in 0..Len(s)
  PROVE  /\ SubSeq(s, 1, n) \in Seq(S)
         /\ Len(SubSeq(s, 1, n)) = n
         /\ \A i \in 1..n : SubSeq(s, 1, n)[i] = s[i]
  OBVIOUS

LEMMA EmptyFacts ==
  ASSUME NEW S, NEW s \in Seq(S)
  PROVE  Len(s) \in Nat /\ (s # <<>> <=> Len(s) # 0)
  BY EmptySeq, LenProperties

LEMMA LongRoundTrip == \A n \in Int : ValLong(n) \in Int /\ LongVal(ValLong(n)) = n
  BY DEF ValLong, LongVal

LEMMA LongTyped == \A w \in Int : LongVal(w) \in Int
  BY DEF LongVal

LEMMA LayoutTypes ==
  ASSUME TypeOK
  PROVE  /\ MaxStack \in Nat /\ sp \in Nat /\ extra_args \in Nat
         /\ Len(calls) \in Nat /\ Len(traps) \in Nat
         /\ \A i \in 1..Len(calls) : calls[i] \in 1..MaxStack
         /\ calls # <<>> <=> Len(calls) # 0
         /\ traps # <<>> <=> Len(traps) # 0
         /\ \A i \in 1..Len(traps) : traps[i] \in [pos : 1..MaxStack, calls : Nat]
         /\ \A i \in 1..Len(traps) : traps[i].pos \in Nat /\ traps[i].calls \in Nat
         /\ pends \in SUBSET [pos : 1..MaxStack, calls : Nat]
         /\ \A p \in pends : p.pos \in Nat /\ p.calls \in Nat
<1>1. MaxStack \in Nat /\ sp \in Nat /\ extra_args \in Nat
  BY BoundsAssumption DEF TypeOK
<1>2. /\ Len(calls) \in Nat /\ \A i \in 1..Len(calls) : calls[i] \in 1..MaxStack
      /\ calls # <<>> <=> Len(calls) # 0
  <2>1. calls \in Seq(1..MaxStack)
    BY DEF TypeOK
  <2> QED BY <2>1, EmptyFacts, ElementOfSeq
<1>3. /\ Len(traps) \in Nat
      /\ \A i \in 1..Len(traps) : traps[i] \in [pos : 1..MaxStack, calls : Nat]
      /\ traps # <<>> <=> Len(traps) # 0
  <2>1. traps \in Seq([pos : 1..MaxStack, calls : Nat])
    BY DEF TypeOK
  <2> QED BY <2>1, EmptyFacts, ElementOfSeq
<1>4. \A f \in [pos : 1..MaxStack, calls : Nat] : f.pos \in Nat /\ f.calls \in Nat
  BY <1>1
<1>5. pends \in SUBSET [pos : 1..MaxStack, calls : Nat]
  BY DEF TypeOK
<1> QED BY <1>1, <1>2, <1>3, <1>4, <1>5

-----------------------------------------------------------------------------
(* Every frame lies below the stack pointer, and those of the suspended
   activations below the return frame of the running one. *)
LEMMA FramesBelow ==
  ASSUME IInv
  PROVE  /\ Base \in 0..sp
         /\ \A i \in 1..Len(calls) : calls[i] \in 3..Last(calls)
         /\ calls # <<>> => Last(calls) + extra_args = Base
         /\ \A i \in 1..Len(traps) :
              /\ traps[i].calls \in Depths
              /\ traps[i].pos \in 4..sp
              /\ traps[i].calls < Len(calls) => traps[i].pos <= Last(calls) - 3
              /\ traps[i].calls = Len(calls) => Base + 4 <= traps[i].pos
         /\ \A p \in pends :
              /\ p.calls \in Depths
              /\ p.pos \in 3..sp
              /\ p.calls < Len(calls) => p.pos <= Last(calls) - 3
              /\ p.calls = Len(calls) => Base + 3 <= p.pos
<1>0. TypeOK
  BY DEF IInv
<1> USE <1>0, LayoutTypes
<1>a. \A k \in Depths : ExtraOf(k) \in Nat /\ Floor(k) \in Nat /\ Ceiling(k) \in Int
  BY <1>0, SMTT(60) DEF IInv, SavedTyped, Floor, Ceiling, Depths
<1>b. \A k \in Depths : Floor(k) + ExtraOf(k) <= Ceiling(k)
  BY DEF IInv, ActivationsFit
<1>c. Len(calls) \in Depths /\ \A i \in 1..Len(calls) : i \in Depths /\ i - 1 \in Depths
  BY <1>0 DEF Depths
<1>1. Base \in 0..sp /\ (calls # <<>> => Last(calls) + extra_args = Base)
  <2>1. Base = Floor(Len(calls)) + ExtraOf(Len(calls))
    BY <1>0 DEF Base, Floor, ExtraOf, Last
  <2>2. Ceiling(Len(calls)) = sp
    BY DEF Ceiling
  <2>3. calls # <<>> => Last(calls) + extra_args = Base
    BY DEF Base
  <2> QED BY <1>0, <1>a, <1>b, <1>c, <2>1, <2>2, <2>3
<1>2. \A i \in 1..Len(calls) : calls[i] \in 3..Last(calls)
  <2> SUFFICES ASSUME NEW i \in 1..Len(calls) PROVE calls[i] \in 3..Last(calls)
    OBVIOUS
  <2>1. i - 1 \in Depths /\ Ceiling(i - 1) = calls[i] - 3
    BY <1>0, <1>c DEF Ceiling
  <2>2. 3 <= calls[i]
    BY <1>0, <1>a, <1>b, <2>1
  <2>3. calls[i] <= Last(calls)
    BY <1>0 DEF IInv, ReturnFramesOrdered, Last
  <2> QED BY <1>0, <2>2, <2>3 DEF Last
<1>3. ASSUME NEW f \in [pos : 1..MaxStack, calls : Nat], NEW n \in 3..4, LiesIn(f, n)
      PROVE  /\ f.calls \in Depths
             /\ f.pos \in n..sp
             /\ f.calls < Len(calls) => f.pos <= Last(calls) - 3
             /\ f.calls = Len(calls) => Base + n <= f.pos
  <2>0. f.pos \in Nat /\ f.calls \in Nat
    BY BoundsAssumption
  <2>1. /\ f.calls \in Depths
        /\ Floor(f.calls) + ExtraOf(f.calls) + n <= f.pos
        /\ f.pos <= Ceiling(f.calls)
    BY <1>3 DEF LiesIn
  <2>2. CASE f.calls = Len(calls)
    <3>1. Base = Floor(f.calls) + ExtraOf(f.calls) /\ Ceiling(f.calls) = sp
      BY <1>0, <2>2 DEF Base, Floor, ExtraOf, Last, Ceiling
    <3> QED BY <1>0, <1>a, <1>1, <2>0, <2>1, <2>2, <3>1, SMTT(30)
  <2>3. CASE f.calls < Len(calls)
    <3>1. f.calls + 1 \in 1..Len(calls)
      BY <1>0, <2>0, <2>3
    <3>2. f.pos <= calls[f.calls + 1] - 3
      BY <1>0, <2>0, <2>1, <2>3 DEF Ceiling
    <3>3. calls[f.calls + 1] <= Last(calls)
      BY <1>2, <3>1
    <3>4. Last(calls) \in Nat /\ Last(calls) <= sp
      BY <1>0, <1>1, <3>1 DEF Last
    <3>5. calls[f.calls + 1] \in Nat
      BY <3>1
    <3>6. f.pos <= Last(calls) - 3
      BY <2>0, <3>2, <3>3, <3>4, <3>5
    <3>7. f.pos \in n..sp
      BY <1>a, <2>0, <2>1, <3>4, <3>6, SMTT(60)
    <3> QED BY <2>0, <2>1, <2>3, <3>6, <3>7
  <2> QED BY <1>0, <2>0, <2>1, <2>2, <2>3 DEF Depths
<1>4. /\ \A i \in 1..Len(traps) : LiesIn(traps[i], 4)
      /\ \A p \in pends : LiesIn(p, 3)
  BY DEF IInv, TrapsFit, PendsFit
<1>5. ASSUME NEW i \in 1..Len(traps)
      PROVE  /\ traps[i].calls \in Depths
             /\ traps[i].pos \in 4..sp
             /\ traps[i].calls < Len(calls) => traps[i].pos <= Last(calls) - 3
             /\ traps[i].calls = Len(calls) => Base + 4 <= traps[i].pos
  BY <1>0, <1>3, <1>4
<1>6. ASSUME NEW p \in pends
      PROVE  /\ p.calls \in Depths
             /\ p.pos \in 3..sp
             /\ p.calls < Len(calls) => p.pos <= Last(calls) - 3
             /\ p.calls = Len(calls) => Base + 3 <= p.pos
  BY <1>0, <1>3, <1>4
<1> QED BY <1>1, <1>2, <1>5, <1>6

LEMMA OrderedCalls ==
  ASSUME IInv, NEW i \in 1..Len(calls), NEW j \in 1..Len(calls), i <= j
  PROVE  /\ calls[i] <= calls[j]
         /\ calls[i] \in 3..MaxStack
         /\ calls[i] - 1 \in 1..MaxStack /\ calls[i] - 2 \in 1..MaxStack
<1>1. TypeOK /\ ReturnFramesOrdered
  BY DEF IInv
<1>2. calls[i] \in 1..MaxStack /\ calls[j] \in 1..MaxStack /\ 3 <= calls[i] /\ MaxStack \in Nat
  BY <1>1, LayoutTypes, FramesBelow
<1>3. Len(calls) \in Nat
  BY <1>1, LayoutTypes
<1>4. i < j => calls[i] <= calls[j] - 3
  BY <1>1 DEF ReturnFramesOrdered
<1> QED BY <1>2, <1>3, <1>4

(* An activation that stays suspended keeps its words. *)
LEMMA LowerKept ==
  ASSUME IInv, NEW d \in 0..Len(calls), Len(calls') \in Nat, d <= Len(calls'),
         \A i \in 1..d : calls'[i] = calls[i],
         \A w \in 1..MaxStack : d > 0 /\ w <= calls[d] => stack'[w] = stack[w]
  PROVE  /\ Floor(d)' = Floor(d)
         /\ \A k \in 0..d - 1 :
              /\ Floor(k)' = Floor(k) /\ Ceiling(k)' = Ceiling(k)
              /\ EnvOf(k)' = EnvOf(k) /\ ExtraOf(k)' = ExtraOf(k)
<1>0. TypeOK
  BY DEF IInv
<1> USE <1>0, LayoutTypes
<1>1. \A k \in 0..d : Floor(k)' = Floor(k)
  BY DEF Floor
<1>2. ASSUME NEW k \in 0..d - 1
      PROVE  /\ Ceiling(k)' = Ceiling(k)
             /\ EnvOf(k)' = EnvOf(k) /\ ExtraOf(k)' = ExtraOf(k)
  <2>1. k + 1 \in 1..d /\ k + 1 \in 1..Len(calls) /\ d \in 1..Len(calls)
    OBVIOUS
  <2>2. calls'[k + 1] = calls[k + 1] /\ k # Len(calls) /\ k # Len(calls')
    BY <2>1
  <2>3. /\ calls[k + 1] <= calls[d] /\ calls[k + 1] \in 3..MaxStack
        /\ calls[k + 1] - 1 \in 1..MaxStack /\ calls[k + 1] - 2 \in 1..MaxStack
    BY <2>1, OrderedCalls
  <2>4. calls[d] \in Int /\ d > 0
    BY <2>1
  <2>5. /\ stack'[calls[k + 1] - 1] = stack[calls[k + 1] - 1]
        /\ stack'[calls[k + 1] - 2] = stack[calls[k + 1] - 2]
    <3>1. calls[k + 1] \in Int /\ calls[k + 1] - 1 <= calls[d] /\ calls[k + 1] - 2 <= calls[d]
      BY <2>3, <2>4, SMTT(60)
    <3> QED BY <2>3, <2>4, <3>1
  <2> QED BY <2>2, <2>5 DEF Ceiling, EnvOf, ExtraOf
<1> QED BY <1>1, <1>2

(* A frame below another belongs to the same activation or to an older one. *)
LEMMA LowerFrameOlder ==
  ASSUME IInv, NEW f \in [pos : 1..MaxStack, calls : Nat],
         NEW g \in [pos : 1..MaxStack, calls : Nat],
         LiesIn(f, 3) \/ LiesIn(f, 4), LiesIn(g, 3) \/ LiesIn(g, 4), f.pos <= g.pos
  PROVE  f.calls <= g.calls
<1>0. TypeOK
  BY DEF IInv
<1> USE <1>0, LayoutTypes
<1>1. f.pos \in Nat /\ g.pos \in Nat /\ f.calls \in 0..Len(calls) /\ g.calls \in 0..Len(calls)
  <2>1. \A h \in [pos : 1..MaxStack, calls : Nat] : h.pos \in Nat
    <3>1. MaxStack \in Nat
      OBVIOUS
    <3> QED BY ONLY <3>1
  <2>2. f.calls \in Depths /\ g.calls \in Depths
    BY DEF LiesIn
  <2> QED BY <2>1, <2>2 DEF Depths
<1>2. SUFFICES ASSUME g.calls < f.calls PROVE FALSE
  BY <1>1
<1>3. /\ g.calls + 1 \in 1..Len(calls) /\ f.calls \in 1..Len(calls)
      /\ calls[g.calls + 1] <= calls[f.calls]
  <2>1. g.calls + 1 \in 1..Len(calls) /\ f.calls \in 1..Len(calls) /\ g.calls + 1 <= f.calls
    BY <1>1, <1>2
  <2> QED BY <2>1, OrderedCalls
<1>4. g.pos <= calls[g.calls + 1] - 3
  BY <1>1, <1>3 DEF LiesIn, Ceiling
<1>5. calls[f.calls] + 3 <= f.pos
  <2>1. Floor(f.calls) = calls[f.calls] /\ ExtraOf(f.calls) \in Nat
    BY <1>3 DEF Floor, IInv, SavedTyped, Depths
  <2> QED BY <1>1, <1>3, <2>1, SMTT(60) DEF LiesIn
<1> QED BY <1>1, <1>3, <1>4, <1>5, SMTT(60)

-----------------------------------------------------------------------------
(* A step that keeps the activations below d suspended, the first t trap
   frames and the frames P of PUSH_RETADDR, and the words up to m, above all
   of them: what was saved in those frames is still right. *)
TrapHolds(f) ==
  /\ LiesIn(f, 4)
  /\ stack[f.pos - 2] = EnvOf(f.calls)
  /\ LongVal(stack[f.pos - 3]) = ExtraOf(f.calls)

PendHolds(f) ==
  /\ LiesIn(f, 3)
  /\ stack[f.pos - 1] = EnvOf(f.calls)
  /\ LongVal(stack[f.pos - 2]) = ExtraOf(f.calls)

LEMMA FramesHold ==
  ASSUME IInv
  PROVE  /\ \A i \in 1..Len(traps) : TrapHolds(traps[i])
         /\ \A p \in pends : PendHolds(p)
  BY DEF IInv, TrapsFit, PendsFit, SavedContexts, TrapHolds, PendHolds

LEMMA KeepFrames ==
  ASSUME IInv, NEW d \in 0..Len(calls), NEW m \in 0..MaxStack,
         NEW t \in 0..Len(traps), NEW P \in SUBSET pends,
         Len(calls') \in Nat, d <= Len(calls'), Ceiling(d)' \in Int,
         \A i \in 1..d : calls'[i] = calls[i],
         d > 0 => calls[d] <= m,
         \A w \in 1..m : stack'[w] = stack[w],
         \A i \in 1..t : traps[i].calls <= d /\ traps[i].pos <= m,
         \A p \in P : p.calls <= d /\ p.pos <= m,
         m <= Ceiling(d)',
         \/ EnvOf(d)' = EnvOf(d) /\ ExtraOf(d)' = ExtraOf(d)
         \/ (\A i \in 1..t : traps[i].calls < d) /\ (\A p \in P : p.calls < d)
  PROVE  /\ Floor(d)' = Floor(d)
         /\ \A k \in 0..d - 1 :
              /\ Floor(k)' = Floor(k) /\ Ceiling(k)' = Ceiling(k)
              /\ EnvOf(k)' = EnvOf(k) /\ ExtraOf(k)' = ExtraOf(k)
         /\ \A f \in {traps[i] : i \in 1..t} :
              TrapHolds(f)' /\ stack'[f.pos - 1] = stack[f.pos - 1]
         /\ \A p \in P : PendHolds(p)'
<1>1. TypeOK /\ MaxStack \in Nat /\ sp \in Nat
  BY LayoutTypes DEF IInv
<1>2. \A w \in 1..MaxStack : d > 0 /\ w <= calls[d] => stack'[w] = stack[w]
  <2> SUFFICES ASSUME NEW w \in 1..MaxStack, d > 0, w <= calls[d]
               PROVE  stack'[w] = stack[w]
    OBVIOUS
  <2>1. d \in 1..Len(calls) /\ calls[d] \in 1..MaxStack /\ calls[d] <= m /\ MaxStack \in Nat
    BY <1>1, LayoutTypes
  <2>2. w \in 1..m
    BY <2>1
  <2> QED BY <2>2
<1>3. /\ Floor(d)' = Floor(d)
      /\ \A k \in 0..d - 1 :
           /\ Floor(k)' = Floor(k) /\ Ceiling(k)' = Ceiling(k)
           /\ EnvOf(k)' = EnvOf(k) /\ ExtraOf(k)' = ExtraOf(k)
  BY <1>2, LowerKept
<1>4. ASSUME NEW f \in [pos : 1..MaxStack, calls : Nat], NEW n \in 3..4, LiesIn(f, n),
             f.calls <= d, f.pos <= m,
             \/ EnvOf(d)' = EnvOf(d) /\ ExtraOf(d)' = ExtraOf(d)
             \/ f.calls < d
      PROVE  /\ LiesIn(f, n)'
             /\ EnvOf(f.calls)' = EnvOf(f.calls) /\ ExtraOf(f.calls)' = ExtraOf(f.calls)
  <2>1. f.calls \in Nat /\ f.pos \in Nat /\ f.calls \in Depths'
    <3>1. MaxStack \in Nat
      BY <1>1, LayoutTypes
    <3> QED BY <3>1, <1>4 DEF Depths
  <2>2. /\ Floor(f.calls)' = Floor(f.calls)
        /\ EnvOf(f.calls)' = EnvOf(f.calls) /\ ExtraOf(f.calls)' = ExtraOf(f.calls)
    <3>1. CASE f.calls = d
      BY <3>1, <1>3, <1>4
    <3>2. CASE f.calls \in 0..d - 1
      BY <3>2, <1>3
    <3> QED BY <2>1, <3>1, <3>2, <1>4
  <2>3. f.pos <= Ceiling(f.calls)'
    <3>1. CASE f.calls = d
      BY <3>1, <2>1, <1>4
    <3>2. CASE f.calls \in 0..d - 1
      BY <3>2, <1>3, <1>4 DEF LiesIn
    <3> QED BY <2>1, <3>1, <3>2, <1>4
  <2> QED BY <1>4, <2>1, <2>2, <2>3 DEF LiesIn
<1>5. ASSUME NEW f \in {traps[i] : i \in 1..t}
      PROVE  TrapHolds(f)' /\ stack'[f.pos - 1] = stack[f.pos - 1]
  <2>1. PICK i \in 1..t : f = traps[i]
    OBVIOUS
  <2>2. i \in 1..Len(traps) /\ f \in [pos : 1..MaxStack, calls : Nat]
    BY <1>1, <2>1, LayoutTypes
  <2>3. TrapHolds(f) /\ f.pos \in 4..sp /\ f.calls <= d /\ f.pos <= m
    BY <2>1, <2>2, FramesHold, FramesBelow
  <2>4. f.pos - 1 \in 1..m /\ f.pos - 2 \in 1..m /\ f.pos - 3 \in 1..m
    <3>1. m \in Nat /\ f.pos \in Nat /\ 4 <= f.pos /\ f.pos <= m
      BY <1>1, <2>3
    <3> QED BY ONLY <3>1, SMTT(60)
  <2>5. /\ stack'[f.pos - 1] = stack[f.pos - 1]
        /\ stack'[f.pos - 2] = stack[f.pos - 2]
        /\ stack'[f.pos - 3] = stack[f.pos - 3]
    BY <2>4
  <2>6. /\ LiesIn(f, 4)'
        /\ EnvOf(f.calls)' = EnvOf(f.calls) /\ ExtraOf(f.calls)' = ExtraOf(f.calls)
    <3>1. LiesIn(f, 4)
      BY <2>3 DEF TrapHolds
    <3> QED BY <3>1, <1>4, <2>1, <2>2, <2>3, SMTT(60)
  <2> QED BY <2>3, <2>5, <2>6 DEF TrapHolds
<1>6. ASSUME NEW f \in P
      PROVE  PendHolds(f)'
  <2>2. f \in pends /\ f \in [pos : 1..MaxStack, calls : Nat]
    BY <1>1, LayoutTypes
  <2>3. PendHolds(f) /\ f.pos \in 3..sp /\ f.calls <= d /\ f.pos <= m
    BY <2>2, FramesHold, FramesBelow
  <2>4. f.pos - 1 \in 1..m /\ f.pos - 2 \in 1..m
    BY <1>1, <2>3, SMTT(60)
  <2>5. /\ stack'[f.pos - 1] = stack[f.pos - 1]
        /\ stack'[f.pos - 2] = stack[f.pos - 2]
    BY <2>4
  <2>6. /\ LiesIn(f, 3)'
        /\ EnvOf(f.calls)' = EnvOf(f.calls) /\ ExtraOf(f.calls)' = ExtraOf(f.calls)
    BY <1>4, <2>2, <2>3 DEF PendHolds
  <2> QED BY <2>3, <2>5, <2>6 DEF PendHolds
<1> QED BY <1>3, <1>5, <1>6

(* The invariants of frames, from those of each frame that is left. *)
LEMMA FramesAfter ==
  ASSUME IInv, NEW t \in 0..Len(traps), Len(traps') = t,
         \A i \in 1..t : traps'[i] = traps[i],
         traps' # <<>> <=> t # 0,
         pends' \in SUBSET pends,
         \A f \in {traps[i] : i \in 1..t} :
           TrapHolds(f)' /\ stack'[f.pos - 1] = stack[f.pos - 1],
         \A p \in pends' : PendHolds(p)',
         caml_trapsp' = IF t = 0 THEN 0 ELSE traps[t].pos
  PROVE  TrapsFit' /\ PendsFit' /\ TrapsPendsApart' /\ SavedContexts' /\ TrapChain'
<1>1. \A i \in 1..Len(traps') : traps'[i] = traps[i] /\ i \in 1..Len(traps)
  BY LayoutTypes DEF IInv
<1>a. \A i \in 1..Len(traps') : \A f :
        f = traps'[i] => TrapHolds(f)' /\ stack'[f.pos - 1] = stack[f.pos - 1]
  BY <1>1
<1>2. TrapsFit'
  BY <1>1, <1>a DEF IInv, TrapsFit, TrapHolds
<1>3. PendsFit'
  BY DEF IInv, PendsFit, PendHolds
<1>4. TrapsPendsApart'
  BY <1>1 DEF IInv, TrapsPendsApart
<1>5. SavedContexts'
  BY <1>1, <1>a DEF SavedContexts, TrapHolds, PendHolds
<1>6. TrapChain'
  <2>1. Len(traps') \in Nat /\ Len(traps) \in Nat
    BY LayoutTypes DEF IInv
  <2>2. caml_trapsp' = IF traps' = <<>> THEN 0 ELSE Last(traps').pos
    BY <1>1, <2>1 DEF Last
  <2>3. ASSUME NEW i \in 1..Len(traps')
        PROVE  stack'[traps'[i].pos - 1] = IF i = 1 THEN 0 ELSE traps'[i - 1].pos
    <3>1. stack'[traps'[i].pos - 1] = stack[traps[i].pos - 1]
      BY <1>1, <1>a
    <3>2. stack[traps[i].pos - 1] = IF i = 1 THEN 0 ELSE traps[i - 1].pos
      BY <1>1 DEF IInv, TrapChain
    <3>3. i # 1 => i - 1 \in 1..Len(traps') /\ i - 1 \in 1..Len(traps)
      BY <1>1, <2>1
    <3> QED BY <1>1, <3>1, <3>2, <3>3
  <2> QED BY <2>2, <2>3 DEF TrapChain, Last
<1> QED BY <1>2, <1>3, <1>4, <1>5, <1>6

-----------------------------------------------------------------------------
(* Steps that add and remove no frame: the running activation pushes and pops,
   or, when it owns no frame, another function takes its place. *)
LEMMA SameFrames ==
  ASSUME IInv, TypeOK', EntryFits', FreshEntry', UNCHANGED <<handling, native, layout>>,
         NEW m \in 0..MaxStack, m <= sp',
         calls # <<>> => Last(calls) <= m,
         \A i \in 1..Len(traps) : traps[i].pos <= m,
         \A p \in pends : p.pos <= m,
         \A w \in 1..m : stack'[w] = stack[w],
         UNCHANGED <<Env, extra_args>> \/ InTail,
         Base' <= sp'
  PROVE  IInv'
<1>a. /\ TypeOK /\ Len(calls) \in Nat /\ Len(traps) \in Nat /\ MaxStack \in Nat
      /\ (calls # <<>> <=> Len(calls) # 0) /\ (traps # <<>> <=> Len(traps) # 0)
  BY LayoutTypes DEF IInv
<1>b. sp' \in Nat /\ extra_args' \in Nat
  BY <1>a DEF TypeOK
<1>c. PICK d \in Nat, t \in Nat, P \in {pends} : d = Len(calls) /\ t = Len(traps)
  BY <1>a
<1>1. /\ TypeOK /\ d \in 0..Len(calls) /\ t \in 0..Len(traps) /\ P = pends
      /\ sp' \in Nat /\ extra_args' \in Nat /\ (calls # <<>> <=> d # 0) /\ (traps # <<>> <=> t # 0)
  BY <1>a, <1>b, <1>c
<1>2. calls' = calls /\ traps' = traps /\ pends' = pends
  BY DEF layout
<1>3. Ceiling(d)' = sp' /\ EnvOf(d)' = Env' /\ ExtraOf(d)' = extra_args'
  BY <1>2, <1>c DEF Ceiling, EnvOf, ExtraOf
<1>4. EnvOf(d) = Env /\ ExtraOf(d) = extra_args
  BY <1>c DEF EnvOf, ExtraOf
<1>5. \A i \in 1..t : traps[i].calls <= d /\ traps[i].pos <= m
  BY <1>1, <1>c, LayoutTypes, FramesBelow DEF Depths
<1>6. \A p \in P : p.calls <= d /\ p.pos <= m
  BY <1>1, <1>c, LayoutTypes, FramesBelow DEF Depths
<1>7. \/ EnvOf(d)' = EnvOf(d) /\ ExtraOf(d)' = ExtraOf(d)
      \/ (\A i \in 1..t : traps[i].calls < d) /\ (\A p \in P : p.calls < d)
  BY <1>1, <1>3, <1>4, <1>c DEF InTail
<1>8. d > 0 => calls[d] <= m
  BY <1>1, <1>c DEF Last
<1>9. /\ Floor(d)' = Floor(d)
      /\ \A k \in 0..d - 1 :
           /\ Floor(k)' = Floor(k) /\ Ceiling(k)' = Ceiling(k)
           /\ EnvOf(k)' = EnvOf(k) /\ ExtraOf(k)' = ExtraOf(k)
      /\ \A f \in {traps[i] : i \in 1..t} :
           TrapHolds(f)' /\ stack'[f.pos - 1] = stack[f.pos - 1]
      /\ \A p \in P : PendHolds(p)'
  <2>1. /\ d \in 0..Len(calls) /\ t \in 0..Len(traps) /\ P \in SUBSET pends
        /\ Len(calls') \in Nat /\ d <= Len(calls')
        /\ Ceiling(d)' \in Int /\ m <= Ceiling(d)'
    BY <1>1, <1>2, <1>3, <1>c
  <2>2. \A i \in 1..d : calls'[i] = calls[i]
    BY <1>2
  <2> QED BY <1>5, <1>6, <1>7, <1>8, <2>1, <2>2, KeepFrames
<1>10. TrapsFit' /\ PendsFit' /\ TrapsPendsApart' /\ SavedContexts' /\ TrapChain'
  <2>1. caml_trapsp' = IF t = 0 THEN 0 ELSE traps[t].pos
    BY <1>1, <1>c DEF handling, IInv, TrapChain, Last
  <2> QED BY <1>1, <1>2, <1>9, <1>c, <2>1, FramesAfter
<1>11. ActivationsFit' /\ SavedTyped'
  <2>1. \A k \in 0..d - 1 : /\ Floor(k) + ExtraOf(k) <= Ceiling(k)
                            /\ EnvOf(k) \in Closures \cup {0} /\ ExtraOf(k) \in Nat
    BY <1>1, <1>c DEF IInv, ActivationsFit, SavedTyped, Depths
  <2>2. Floor(d)' + extra_args' = Base'
    BY <1>1, <1>2, <1>c DEF Floor, Base, Last
  <2>3. Env' \in Closures \cup {0}
    BY DEF TypeOK
  <2>4. ASSUME NEW k \in Depths'
        PROVE  /\ Floor(k)' + ExtraOf(k)' <= Ceiling(k)'
               /\ EnvOf(k)' \in Closures \cup {0} /\ ExtraOf(k)' \in Nat
    <3>1. k = d \/ k \in 0..d - 1
      BY <1>1, <1>2, <1>c DEF Depths
    <3>2. CASE k = d
      BY <1>1, <1>3, <2>2, <2>3, <3>2
    <3>3. CASE k \in 0..d - 1
      BY <1>9, <2>1, <3>3
    <3> QED BY <3>1, <3>2, <3>3
  <2> QED BY <2>4 DEF ActivationsFit, SavedTyped
<1>12. ReturnFramesOrdered' /\ ContextChain' /\ NativeLockstep'
  BY <1>2 DEF IInv, ReturnFramesOrdered, ContextChain, NativeLockstep, handling
<1> QED BY <1>10, <1>11, <1>12 DEF IInv

(* A call: a return frame whose code-pointer word is at c, above everything. *)
LEMMA CallStep ==
  ASSUME IInv, TypeOK', at' = "entry", restored' = 0,
         UNCHANGED <<handling, traps>>, native' = native + 1,
         NEW c \in 1..MaxStack, calls' = Append(calls, c), pends' \in SUBSET pends,
         Base <= c - 3,
         \A i \in 1..Len(traps) : traps[i].pos <= c - 3,
         \A p \in pends' : p.pos <= c - 3,
         \A w \in 1..c - 3 : stack'[w] = stack[w],
         stack'[c - 1] = Env, LongVal(stack'[c - 2]) = extra_args,
         sp' = c + extra_args' + 1
  PROVE  IInv'
<1>a. /\ TypeOK /\ Len(calls) \in Nat /\ Len(traps) \in Nat /\ MaxStack \in Nat
      /\ (calls # <<>> <=> Len(calls) # 0) /\ (traps # <<>> <=> Len(traps) # 0)
      /\ Base \in Nat /\ extra_args \in Nat
  BY LayoutTypes, FramesBelow DEF IInv
<1>b. sp' \in Nat /\ extra_args' \in Nat
  <2>1. sp' \in 0..MaxStack /\ extra_args' \in Nat
    BY DEF TypeOK
  <2>2. MaxStack \in Nat
    BY <1>a
  <2> QED BY ONLY <2>1, <2>2
<1>c. PICK d \in Nat, t \in Nat, m \in Nat, P \in {pends'} :
        d = Len(calls) /\ t = Len(traps) /\ m = c - 3
  BY <1>a
<1>1. /\ d \in 0..Len(calls) /\ t \in 0..Len(traps) /\ P = pends' /\ m \in 0..MaxStack
      /\ (calls # <<>> <=> d # 0) /\ (traps # <<>> <=> t # 0)
  BY <1>a, <1>c
<1>2. /\ Len(calls') = d + 1 /\ calls'[d + 1] = c /\ calls' # <<>>
      /\ \A i \in 1..d : calls'[i] = calls[i]
  <2>1. calls \in Seq(1..MaxStack)
    BY <1>a DEF TypeOK
  <2>2. /\ Len(Append(calls, c)) = Len(calls) + 1 /\ Append(calls, c)[Len(calls) + 1] = c
        /\ \A i \in 1..Len(calls) : Append(calls, c)[i] = calls[i]
        /\ Append(calls, c) \in Seq(1..MaxStack)
    BY <2>1, AppendFacts
  <2> QED BY <1>c, <2>2, EmptyFacts
<1>3. Ceiling(d)' = m /\ EnvOf(d)' = Env /\ ExtraOf(d)' = extra_args
  <2>1. calls'[d + 1] = c /\ d # Len(calls')
    BY <1>a, <1>2
  <2>2. Ceiling(d)' = m
    BY <1>c, <2>1 DEF Ceiling
  <2>3. EnvOf(d)' = Env /\ ExtraOf(d)' = extra_args
    BY <2>1 DEF EnvOf, ExtraOf
  <2> QED BY <2>2, <2>3
<1>4. EnvOf(d) = Env /\ ExtraOf(d) = extra_args
  BY <1>c DEF EnvOf, ExtraOf
<1>5. \A i \in 1..t : traps[i].calls <= d /\ traps[i].pos <= m
  BY <1>a, <1>c, LayoutTypes, FramesBelow DEF Depths
<1>6. \A p \in P : p.calls <= d /\ p.pos <= m
  BY <1>a, <1>1, <1>c, LayoutTypes, FramesBelow DEF Depths
<1>8. \A i \in 1..d : calls[i] \in Nat /\ calls[i] <= Base /\ calls[i] <= m
  <2> SUFFICES ASSUME NEW i \in 1..d
               PROVE  calls[i] \in Nat /\ calls[i] <= Base /\ calls[i] <= m
    OBVIOUS
  <2>1. i \in 1..Len(calls) /\ calls # <<>> /\ calls[i] \in 3..Last(calls)
    BY <1>a, <1>1, <1>c, FramesBelow
  <2>2. Last(calls) \in Nat /\ Last(calls) <= Base
    BY <1>a, <2>1, LayoutTypes, FramesBelow, SMTT(60) DEF Last
  <2> QED BY <1>a, <1>c, <2>1, <2>2
<1>9. /\ Floor(d)' = Floor(d)
      /\ \A k \in 0..d - 1 :
           /\ Floor(k)' = Floor(k) /\ Ceiling(k)' = Ceiling(k)
           /\ EnvOf(k)' = EnvOf(k) /\ ExtraOf(k)' = ExtraOf(k)
      /\ \A f \in {traps[i] : i \in 1..t} :
           TrapHolds(f)' /\ stack'[f.pos - 1] = stack[f.pos - 1]
      /\ \A p \in P : PendHolds(p)'
  <2>1. /\ P \in SUBSET pends /\ Len(calls') \in Nat /\ d <= Len(calls')
        /\ Ceiling(d)' \in Int /\ m <= Ceiling(d)'
        /\ EnvOf(d)' = EnvOf(d) /\ ExtraOf(d)' = ExtraOf(d)
        /\ d > 0 => calls[d] <= m
    <3>1. P \in SUBSET pends
      BY <1>1
    <3>2. Len(calls') \in Nat /\ d <= Len(calls')
      BY ONLY <1>2, d \in Nat
    <3>3. Ceiling(d)' \in Int /\ m <= Ceiling(d)'
      BY ONLY <1>3, m \in Nat
    <3>4. EnvOf(d)' = EnvOf(d) /\ ExtraOf(d)' = ExtraOf(d)
      BY ONLY <1>3, <1>4
    <3>5. d > 0 => calls[d] <= m
      <4>1. d > 0 => d \in 1..d
        BY ONLY d \in Nat
      <4> QED BY ONLY <1>8, <4>1
    <3> QED BY ONLY <3>1, <3>2, <3>3, <3>4, <3>5
  <2>2. \A w \in 1..m : stack'[w] = stack[w]
    BY <1>c
  <2> QED BY <1>1, <1>2, <1>5, <1>6, <2>1, <2>2, KeepFrames
<1>10. TrapsFit' /\ PendsFit' /\ TrapsPendsApart' /\ SavedContexts' /\ TrapChain'
  <2>1. caml_trapsp' = IF t = 0 THEN 0 ELSE traps[t].pos
    BY <1>1, <1>c DEF handling, IInv, TrapChain, Last
  <2> QED BY <1>1, <1>2, <1>9, <1>c, <2>1, FramesAfter, SMTT(30)
<1>11. ActivationsFit' /\ SavedTyped'
  <2>1. \A k \in 0..d - 1 : /\ Floor(k) + ExtraOf(k) <= Ceiling(k)
                            /\ EnvOf(k) \in Closures \cup {0} /\ ExtraOf(k) \in Nat
    BY <1>a, <1>c, SMTT(30) DEF IInv, ActivationsFit, SavedTyped, Depths
  <2>2. Floor(d)' + extra_args = Base
    BY <1>9, <1>1, <1>c DEF Floor, Base, Last
  <2>3. Env' \in Closures \cup {0} /\ Env \in Closures \cup {0}
    BY <1>a DEF TypeOK
  <2>4. /\ Floor(d + 1)' = c /\ ExtraOf(d + 1)' = extra_args' /\ EnvOf(d + 1)' = Env'
        /\ Ceiling(d + 1)' = sp'
    BY <1>2 DEF Floor, ExtraOf, EnvOf, Ceiling
  <2>5. ASSUME NEW k \in Depths'
        PROVE  /\ Floor(k)' + ExtraOf(k)' <= Ceiling(k)'
               /\ EnvOf(k)' \in Closures \cup {0} /\ ExtraOf(k)' \in Nat
    <3>1. k = d \/ k = d + 1 \/ k \in 0..d - 1
      BY <1>2 DEF Depths
    <3>2. CASE k = d
      BY <1>a, <1>3, <1>c, <2>2, <2>3, <3>2
    <3>3. CASE k = d + 1
      BY <1>b, <2>4, <2>3, <3>3
    <3>4. CASE k \in 0..d - 1
      BY <1>9, <2>1, <3>4
    <3> QED BY <3>1, <3>2, <3>3, <3>4
  <2> QED BY <2>5 DEF ActivationsFit, SavedTyped
<1>12. ReturnFramesOrdered'
  <2>1. ASSUME NEW i \in 1..Len(calls'), NEW j \in 1..Len(calls'), i < j
        PROVE  calls'[i] <= calls'[j] - 3
    <3>1. i \in 1..d
      BY <1>2, <2>1
    <3>2. CASE j = d + 1
      BY <1>c, <1>2, <1>8, <3>1, <3>2
    <3>3. CASE j \in 1..d
      BY <1>2, <1>c, <2>1, <3>1, <3>3 DEF IInv, ReturnFramesOrdered
    <3> QED BY <1>2, <3>2, <3>3
  <2> QED BY <2>1 DEF ReturnFramesOrdered
<1>13. ContextChain' /\ NativeLockstep'
  BY <1>2, <1>c, SMTT(60) DEF IInv, ContextChain, NativeLockstep, handling
<1>14. EntryFits'
  BY <1>2, <1>b DEF EntryFits, Last
<1>15. FreshEntry'
  <2>1. \A i \in 1..Len(traps') : traps'[i].calls < Len(calls')
    BY <1>a, <1>2, <1>5, <1>c, LayoutTypes
  <2>2. ASSUME NEW p \in pends' PROVE p.calls < Len(calls')
    <3>1. p.calls \in Nat /\ p.calls <= d /\ Len(calls') = d + 1
      BY <1>a, <1>1, <1>2, <1>6, LayoutTypes
    <3> QED BY ONLY <3>1, <1>c
  <2> QED BY <1>2, <2>1, <2>2 DEF FreshEntry, InTail
<1> QED BY <1>10, <1>11, <1>12, <1>13, <1>14, <1>15 DEF IInv

(* A return, or a function that leaves with a partial closure: the caller runs
   again, with what its return frame holds. *)
LEMMA ReturnStep ==
  ASSUME IInv, InTail, UNCHANGED <<stack, handling, traps, pends, status>>,
         native' = native - 1, calls' = Front(calls),
         Env' = stack[Last(calls) - 1], extra_args' = LongVal(stack[Last(calls) - 2]),
         sp' = Last(calls) - 3, at' = "body", restored' = 0
  PROVE  IInv'
<1>a. /\ TypeOK /\ Len(calls) \in Nat /\ Len(traps) \in Nat /\ MaxStack \in Nat
      /\ Len(calls) # 0 /\ (traps # <<>> <=> Len(traps) # 0)
  BY LayoutTypes DEF IInv, InTail
<1>c. PICK d \in Nat, t \in Nat, m \in Nat, P \in {pends} :
        d = Len(calls) - 1 /\ t = Len(traps) /\ m = Last(calls) - 3
  <2>1. Last(calls) \in 3..MaxStack
    BY <1>a, OrderedCalls DEF Last
  <2>2. Last(calls) - 3 \in Nat /\ Len(calls) - 1 \in Nat
    BY <1>a, <2>1
  <2> QED BY <1>a, <2>2
<1>1. /\ d \in 0..Len(calls) /\ t \in 0..Len(traps) /\ P = pends /\ m \in 0..MaxStack
      /\ d + 1 = Len(calls) /\ d + 1 \in 1..Len(calls) /\ (traps # <<>> <=> t # 0)
      /\ m = calls[d + 1] - 3
  <2>1. Last(calls) \in 3..MaxStack
    BY <1>a, OrderedCalls DEF Last
  <2>2. d + 1 = Len(calls)
    BY <1>a, <1>c
  <2> QED BY <1>a, <1>c, <2>1, <2>2 DEF Last
<1>2. /\ calls' \in Seq(1..MaxStack) /\ Len(calls') = d
      /\ \A i \in 1..d : calls'[i] = calls[i]
  <2>1. calls \in Seq(1..MaxStack)
    BY <1>a DEF TypeOK
  <2> QED BY <1>1, <1>c, <2>1, PrefixFacts DEF Front
<1>3. Ceiling(d)' = m /\ EnvOf(d)' = Env' /\ ExtraOf(d)' = extra_args' /\ sp' = m
  BY <1>2, <1>c DEF Ceiling, EnvOf, ExtraOf
<1>4. EnvOf(d) = Env' /\ ExtraOf(d) = extra_args' /\ Ceiling(d) = m
  <2>1. d # Len(calls) /\ Last(calls) = calls[d + 1]
    BY <1>1 DEF Last
  <2> QED BY <1>1, <2>1 DEF EnvOf, ExtraOf, Ceiling
<1>5. \A i \in 1..t : traps[i].calls <= d /\ traps[i].pos <= m
  BY <1>a, <1>1, <1>c, LayoutTypes, FramesBelow, SMTT(60) DEF InTail
<1>6. \A p \in P : p.calls <= d /\ p.pos <= m
  BY <1>a, <1>1, <1>c, LayoutTypes, FramesBelow, SMTT(60) DEF InTail
<1>7. d > 0 => calls[d] <= m
  BY <1>1 DEF IInv, ReturnFramesOrdered
<1>8. /\ Floor(d)' = Floor(d)
      /\ \A k \in 0..d - 1 :
           /\ Floor(k)' = Floor(k) /\ Ceiling(k)' = Ceiling(k)
           /\ EnvOf(k)' = EnvOf(k) /\ ExtraOf(k)' = ExtraOf(k)
      /\ \A f \in {traps[i] : i \in 1..t} :
           TrapHolds(f)' /\ stack'[f.pos - 1] = stack[f.pos - 1]
      /\ \A p \in P : PendHolds(p)'
  <2>1. /\ P \in SUBSET pends /\ Len(calls') \in Nat /\ d <= Len(calls')
        /\ Ceiling(d)' \in Int /\ m <= Ceiling(d)'
        /\ EnvOf(d)' = EnvOf(d) /\ ExtraOf(d)' = ExtraOf(d)
    BY <1>1, <1>2, <1>3, <1>4
  <2>2. \A w \in 1..m : stack'[w] = stack[w]
    OBVIOUS
  <2> QED BY <1>1, <1>2, <1>5, <1>6, <1>7, <2>1, <2>2, KeepFrames, ZenonT(60)
<1>9. TrapsFit' /\ PendsFit' /\ TrapsPendsApart' /\ SavedContexts' /\ TrapChain'
  <2>1. caml_trapsp' = IF t = 0 THEN 0 ELSE traps[t].pos
    BY <1>1, <1>c DEF handling, IInv, TrapChain, Last
  <2> QED BY <1>1, <1>8, <1>c, <2>1, FramesAfter
<1>10. \A k \in 0..d : /\ Floor(k) + ExtraOf(k) <= Ceiling(k)
                       /\ EnvOf(k) \in Closures \cup {0} /\ ExtraOf(k) \in Nat
  BY <1>1 DEF IInv, ActivationsFit, SavedTyped, Depths
<1>11. ActivationsFit' /\ SavedTyped'
  <2>1. ASSUME NEW k \in Depths'
        PROVE  /\ Floor(k)' + ExtraOf(k)' <= Ceiling(k)'
               /\ EnvOf(k)' \in Closures \cup {0} /\ ExtraOf(k)' \in Nat
    <3>1. k \in 0..d /\ (k = d \/ k \in 0..d - 1)
      BY <1>2 DEF Depths
    <3>2. CASE k = d
      BY <1>3, <1>4, <1>8, <1>10, <3>1, <3>2
    <3>3. CASE k \in 0..d - 1
      BY <1>8, <1>10, <3>1, <3>3
    <3> QED BY <3>1, <3>2, <3>3
  <2> QED BY <2>1 DEF ActivationsFit, SavedTyped
<1>12. ReturnFramesOrdered' /\ ContextChain' /\ NativeLockstep'
  <2>1. ReturnFramesOrdered'
    BY <1>1, <1>2 DEF IInv, ReturnFramesOrdered
  <2>2. ContextChain' /\ NativeLockstep'
    BY <1>1, <1>2, SMTT(60) DEF IInv, ContextChain, NativeLockstep, handling
  <2> QED BY <2>1, <2>2
<1>13. EntryFits' /\ FreshEntry'
  BY DEF EntryFits, FreshEntry
<1>14. TypeOK'
  <2>1. /\ Env' \in Closures \cup {0} /\ extra_args' \in Nat
        /\ sp' \in 0..MaxStack /\ native' \in Nat /\ restored' \in 0..MaxArgs
    BY <1>1, <1>3, <1>4, <1>10, <1>a, BoundsAssumption DEF IInv, NativeLockstep
  <2> QED BY <1>a, <1>2, <2>1 DEF TypeOK, handling
<1> QED BY <1>9, <1>11, <1>12, <1>13, <1>14 DEF IInv

-----------------------------------------------------------------------------
(* Steps that put a frame on top of the stack, for the running activation. *)

LEMMA OldFramesHold ==
  ASSUME IInv, TypeOK', UNCHANGED <<Env, extra_args, calls>>, sp <= sp',
         \A w \in 1..sp : stack'[w] = stack[w]
  PROVE  /\ \A k \in Depths : /\ Floor(k)' = Floor(k) /\ ExtraOf(k)' = ExtraOf(k)
                              /\ EnvOf(k)' = EnvOf(k) /\ Ceiling(k) <= Ceiling(k)'
         /\ \A f \in {traps[i] : i \in 1..Len(traps)} :
              TrapHolds(f)' /\ stack'[f.pos - 1] = stack[f.pos - 1]
         /\ \A p \in pends : PendHolds(p)'
         /\ ActivationsFit' /\ SavedTyped' /\ ReturnFramesOrdered'
<1>a. /\ TypeOK /\ Len(calls) \in Nat /\ Len(traps) \in Nat /\ MaxStack \in Nat
      /\ (calls # <<>> <=> Len(calls) # 0) /\ sp \in Nat /\ sp \in 0..MaxStack
  BY LayoutTypes DEF IInv, TypeOK
<1>b. sp' \in Nat
  <2>1. sp' \in 0..MaxStack
    BY DEF TypeOK
  <2>2. MaxStack \in Nat
    BY <1>a
  <2> QED BY ONLY <2>1, <2>2
<1>c. PICK d \in Nat, t \in Nat, m \in Nat, P \in {pends} :
        d = Len(calls) /\ t = Len(traps) /\ m = sp
  BY <1>a
<1>1. /\ d \in 0..Len(calls) /\ t \in 0..Len(traps) /\ m \in 0..MaxStack
      /\ P \in SUBSET pends /\ Len(calls') = d /\ Len(calls') \in Nat /\ d <= Len(calls')
  BY <1>a, <1>c
<1>2. /\ Ceiling(d)' = sp' /\ EnvOf(d)' = EnvOf(d) /\ ExtraOf(d)' = ExtraOf(d)
      /\ Ceiling(d) = sp
  BY <1>c DEF Ceiling, EnvOf, ExtraOf
<1>3. \A i \in 1..t : traps[i].calls <= d /\ traps[i].pos <= m
  BY <1>a, <1>c, LayoutTypes, FramesBelow DEF Depths
<1>4. \A p \in P : p.calls <= d /\ p.pos <= m
  BY <1>a, <1>c, LayoutTypes, FramesBelow DEF Depths
<1>5. d > 0 => calls[d] <= m
  BY <1>a, <1>c, LayoutTypes, FramesBelow DEF Last
<1>6. /\ Floor(d)' = Floor(d)
      /\ \A k \in 0..d - 1 :
           /\ Floor(k)' = Floor(k) /\ Ceiling(k)' = Ceiling(k)
           /\ EnvOf(k)' = EnvOf(k) /\ ExtraOf(k)' = ExtraOf(k)
      /\ \A f \in {traps[i] : i \in 1..t} :
           TrapHolds(f)' /\ stack'[f.pos - 1] = stack[f.pos - 1]
      /\ \A p \in P : PendHolds(p)'
  <2>1. /\ Ceiling(d)' \in Int /\ m <= Ceiling(d)'
        /\ \A i \in 1..d : calls'[i] = calls[i]
        /\ \A w \in 1..m : stack'[w] = stack[w]
    BY <1>b, <1>c, <1>2
  <2> QED BY <1>1, <1>2, <1>3, <1>4, <1>5, <2>1, KeepFrames
<1>7. \A k \in Depths : k = d \/ k \in 0..d - 1
  BY <1>1, <1>c DEF Depths
<1>8. \A k \in Depths : Ceiling(k) \in Int
  <2> SUFFICES ASSUME NEW k \in Depths PROVE Ceiling(k) \in Int
    OBVIOUS
  <2>1. k # Len(calls) => calls[k + 1] \in Int
    BY <1>a, LayoutTypes DEF Depths
  <2> QED BY <1>a, <2>1 DEF Ceiling
<1>9. \A k \in Depths : /\ Floor(k)' = Floor(k) /\ ExtraOf(k)' = ExtraOf(k)
                        /\ EnvOf(k)' = EnvOf(k) /\ Ceiling(k) <= Ceiling(k)'
  <2> SUFFICES ASSUME NEW k \in Depths
               PROVE  /\ Floor(k)' = Floor(k) /\ ExtraOf(k)' = ExtraOf(k)
                      /\ EnvOf(k)' = EnvOf(k) /\ Ceiling(k) <= Ceiling(k)'
    OBVIOUS
  <2>1. CASE k = d
    BY <1>2, <1>6, <2>1
  <2>2. CASE k \in 0..d - 1
    BY <1>6, <1>8, <2>2
  <2> QED BY <1>7, <2>1, <2>2
<1>10. ActivationsFit' /\ SavedTyped' /\ ReturnFramesOrdered'
  <2>1. Depths' = Depths
    BY DEF Depths
  <2>2. ASSUME NEW k \in Depths
        PROVE  Floor(k)' + ExtraOf(k)' <= Ceiling(k)'
    <3>1. Floor(k) + ExtraOf(k) <= Ceiling(k) /\ ExtraOf(k) \in Nat
      BY DEF IInv, ActivationsFit, SavedTyped
    <3>2. Floor(k) \in Int
      BY <1>a, LayoutTypes DEF Floor, Depths
    <3>3. Ceiling(k)' \in Int
      BY <1>b, <1>2, <1>6, <1>7, <1>8
    <3> QED BY <1>8, <1>9, <3>1, <3>2, <3>3
  <2>3. \A k \in Depths : EnvOf(k)' \in Closures \cup {0} /\ ExtraOf(k)' \in Nat
    BY <1>9 DEF IInv, SavedTyped
  <2> QED BY <2>1, <2>2, <2>3 DEF IInv, ActivationsFit, SavedTyped, ReturnFramesOrdered
<1> QED BY <1>6, <1>9, <1>10, <1>c

LEMMA WordsTyped ==
  ASSUME TypeOK
  PROVE  /\ stack \in [1..MaxStack -> Int] /\ Env \in Int
         /\ ValLong(0) \in Int /\ ValLong(extra_args) \in Int
<1>1. stack \in [1..MaxStack -> Int] /\ Env \in Closures \cup {0} /\ extra_args \in Int
  BY DEF TypeOK
<1>2. Env \in Int
  BY <1>1, BoundsAssumption
<1> QED BY <1>1, <1>2, LongRoundTrip

LEMMA pushRetAddrStep ==
  ASSUME IInv, pushRetAddr
  PROVE  IInv'
<1> DEFINE r == [pos |-> sp + 3, calls |-> Len(calls)]
<1>a. /\ TypeOK /\ Len(calls) \in Nat /\ Len(traps) \in Nat /\ MaxStack \in Nat
      /\ sp \in Nat /\ sp + 3 <= MaxStack /\ extra_args \in Nat
      /\ (traps # <<>> <=> Len(traps) # 0)
  BY LayoutTypes DEF IInv, pushRetAddr
<1>1. /\ \A w \in 1..sp : stack'[w] = stack[w]
      /\ stack'[sp + 2] = Env /\ stack'[sp + 1] = ValLong(extra_args)
      /\ stack' \in [1..MaxStack -> Int]
  <2>1. /\ stack \in [1..MaxStack -> Int] /\ Env \in Int
        /\ ValLong(0) \in Int /\ ValLong(extra_args) \in Int
    BY <1>a, WordsTyped
  <2>2. sp + 1 \in 1..MaxStack /\ sp + 2 \in 1..MaxStack /\ sp + 3 \in 1..MaxStack
    BY <1>a
  <2> QED BY <1>a, <2>1, <2>2, SMTT(60) DEF pushRetAddr
<1>2. TypeOK'
  <2>1. sp' \in 0..MaxStack /\ r \in [pos : 1..MaxStack, calls : Nat]
    BY <1>a DEF pushRetAddr
  <2>2. pends' \in SUBSET [pos : 1..MaxStack, calls : Nat]
    BY <1>a, <2>1 DEF pushRetAddr, TypeOK
  <2> QED BY <1>a, <1>1, <2>1, <2>2 DEF pushRetAddr, TypeOK, handling
<1>3. /\ UNCHANGED <<Env, extra_args, calls, traps, handling, native, at, restored>>
      /\ sp' = sp + 3 /\ pends' = pends \cup {r} /\ at = "body" /\ sp <= sp'
  BY <1>a DEF pushRetAddr, Body
<1>4. /\ \A k \in Depths : /\ Floor(k)' = Floor(k) /\ ExtraOf(k)' = ExtraOf(k)
                           /\ EnvOf(k)' = EnvOf(k) /\ Ceiling(k) <= Ceiling(k)'
      /\ \A f \in {traps[i] : i \in 1..Len(traps)} :
           TrapHolds(f)' /\ stack'[f.pos - 1] = stack[f.pos - 1]
      /\ \A p \in pends : PendHolds(p)'
      /\ ActivationsFit' /\ SavedTyped' /\ ReturnFramesOrdered'
  BY <1>1, <1>2, <1>3, OldFramesHold
<1>5. \A f : f = r => PendHolds(f)'
  <2>1. Len(calls) \in Depths /\ Depths' = Depths
    BY <1>a, <1>3 DEF Depths
  <2>2. Floor(Len(calls)) + ExtraOf(Len(calls)) = Base /\ Base \in 0..sp
    BY <1>a, FramesBelow, LayoutTypes DEF Floor, ExtraOf, Base, Last
  <2> SUFFICES ASSUME NEW f, f = r PROVE PendHolds(f)'
    OBVIOUS
  <2>3. f.pos = sp + 3 /\ f.calls = Len(calls) /\ f.calls \in Depths'
    BY <2>1
  <2>4. Floor(f.calls)' + ExtraOf(f.calls)' = Base
    BY <1>4, <2>1, <2>2, <2>3
  <2>5. /\ Ceiling(f.calls)' = sp + 3 /\ EnvOf(f.calls)' = Env
        /\ ExtraOf(f.calls)' = extra_args
    BY <1>3, <2>3 DEF Ceiling, EnvOf, ExtraOf
  <2>6. LiesIn(f, 3)'
    BY <1>a, <2>2, <2>3, <2>4, <2>5 DEF LiesIn
  <2>7. f.pos - 1 = sp + 2 /\ f.pos - 2 = sp + 1
    BY <1>a, <2>3
  <2> QED BY <1>1, <1>a, <2>5, <2>6, <2>7, LongRoundTrip DEF PendHolds
<1>6. \A p \in pends : p.pos \in Nat /\ p.pos <= sp
  BY <1>a, FramesBelow, LayoutTypes
<1>7. \A i \in 1..Len(traps) : traps[i].pos \in Nat /\ traps[i].pos <= sp
  BY <1>a, FramesBelow, LayoutTypes
<1>8. TrapsFit' /\ TrapChain'
  <2>1. \A i \in 1..Len(traps) : \A f :
          f = traps[i] => TrapHolds(f)' /\ stack'[f.pos - 1] = stack[f.pos - 1]
    BY <1>4
  <2>2. TrapsFit'
    BY <1>3, <2>1 DEF IInv, TrapsFit, TrapHolds
  <2>3. TrapChain'
    BY <1>3, <2>1 DEF IInv, TrapChain, handling
  <2> QED BY <2>2, <2>3
<1>9. PendsFit'
  <2>1. \A p \in pends' : LiesIn(p, 3)'
    BY <1>3, <1>4, <1>5 DEF PendHolds
  <2>2. r.pos = sp + 3
    OBVIOUS
  <2>3. \A p, q \in pends' : p = q \/ p.pos <= q.pos - 3 \/ q.pos <= p.pos - 3
    <3>1. \A p \in pends : p.pos <= r.pos - 3
      BY <1>a, <1>6, <2>2
    <3> HIDE DEF r
    <3> QED BY <1>3, <3>1 DEF IInv, PendsFit
  <2> QED BY <2>1, <2>3 DEF PendsFit
<1>10. TrapsPendsApart'
  <2>1. \A i \in 1..Len(traps) : traps[i].pos <= r.pos - 3
    BY <1>a, <1>7
  <2> HIDE DEF r
  <2> QED BY <1>3, <2>1 DEF IInv, TrapsPendsApart
<1>11. SavedContexts'
  <2>1. \A p \in pends' : PendHolds(p)'
    BY <1>3, <1>4, <1>5
  <2>2. \A i \in 1..Len(traps') : \A f : f = traps'[i] => TrapHolds(f)'
    BY <1>3, <1>4
  <2> QED BY <2>1, <2>2 DEF SavedContexts, TrapHolds, PendHolds
<1>12. EntryFits' /\ FreshEntry' /\ ContextChain' /\ NativeLockstep'
  BY <1>3 DEF IInv, EntryFits, FreshEntry, ContextChain, NativeLockstep, handling
<1> QED BY <1>2, <1>4, <1>8, <1>9, <1>10, <1>11, <1>12 DEF IInv

LEMMA PushTrapStep ==
  ASSUME IInv, PushTrap
  PROVE  IInv'
<1> DEFINE r == [pos |-> sp + 4, calls |-> Len(calls)]
           t == Len(traps)
<1>a. /\ TypeOK /\ Len(calls) \in Nat /\ t \in Nat /\ MaxStack \in Nat /\ MaxTraps \in Nat
      /\ sp \in Nat /\ sp + 4 <= MaxStack /\ extra_args \in Nat
      /\ (traps # <<>> <=> t # 0)
      /\ CurrentBufferIndex \in 0..MaxTraps - 1 /\ CurrentBufferIndex = t
  <2>1. TypeOK /\ MaxTraps \in Nat /\ CurrentBufferIndex = t
    BY BoundsAssumption DEF IInv, ContextChain
  <2>2. CurrentBufferIndex \in 0..MaxTraps
    BY <2>1 DEF TypeOK
  <2>3. CurrentBufferIndex < MaxTraps /\ sp + 4 <= MaxStack
    BY DEF PushTrap
  <2>4. CurrentBufferIndex \in 0..MaxTraps - 1
    BY ONLY <2>1, <2>2, <2>3
  <2> QED BY <2>1, <2>3, <2>4, LayoutTypes
<1>1. /\ \A w \in 1..sp : stack'[w] = stack[w]
      /\ stack'[sp + 3] = caml_trapsp /\ stack'[sp + 2] = Env
      /\ stack'[sp + 1] = ValLong(extra_args)
      /\ stack' \in [1..MaxStack -> Int]
  <2>1. /\ stack \in [1..MaxStack -> Int] /\ Env \in Int
        /\ ValLong(extra_args) \in Int
    BY <1>a, WordsTyped
  <2>2. sp + 1 \in 1..MaxStack /\ sp + 2 \in 1..MaxStack /\ sp + 3 \in 1..MaxStack
    BY <1>a
  <2>3. caml_trapsp \in Int
    BY <1>a DEF TypeOK
  <2>4. stack' = [stack EXCEPT ![sp + 3] = caml_trapsp, ![sp + 2] = Env,
                               ![sp + 1] = ValLong(extra_args)]
    BY DEF PushTrap, pushTrap
  <2>5. sp + 1 # sp + 2 /\ sp + 1 # sp + 3 /\ sp + 2 # sp + 3
    BY <1>a
  <2>6. \A w \in 1..sp : w # sp + 1 /\ w # sp + 2 /\ w # sp + 3 /\ w \in 1..MaxStack
    BY <1>a
  <2> QED BY <2>1, <2>2, <2>3, <2>4, <2>5, <2>6
<1>2. /\ traps' \in Seq([pos : 1..MaxStack, calls : Nat]) /\ Len(traps') = t + 1
      /\ traps'[t + 1] = r /\ \A i \in 1..t : traps'[i] = traps[i]
      /\ traps' # <<>>
  <2>1. r \in [pos : 1..MaxStack, calls : Nat]
    BY <1>a
  <2>2. traps' = Append(traps, r) /\ traps \in Seq([pos : 1..MaxStack, calls : Nat])
    BY <1>a DEF PushTrap, TypeOK
  <2> HIDE DEF r
  <2>3. /\ Append(traps, r) \in Seq([pos : 1..MaxStack, calls : Nat])
        /\ Len(Append(traps, r)) = Len(traps) + 1
        /\ \A i \in 1..Len(traps) : Append(traps, r)[i] = traps[i]
        /\ Append(traps, r)[Len(traps) + 1] = r
    BY <2>1, <2>2, AppendFacts
  <2> QED BY <1>a, <2>2, <2>3, EmptyFacts
<1>3. /\ UNCHANGED <<Env, extra_args, calls, pends, native, at, restored, status>>
      /\ sp' = sp + 4 /\ caml_trapsp' = sp + 4 /\ at = "body" /\ sp <= sp'
      /\ CurrentBufferIndex' = t + 1 /\ NextExceptionContext' = t
      /\ caml_external_raise' = t
      /\ Buffers' = [Buffers EXCEPT ![t] = [Next |-> NextExceptionContext, native |-> native]]
  BY <1>a DEF PushTrap, getNewBuffer, pushTrap, Body
<1>4. TypeOK'
  <2>1. /\ sp' \in 0..MaxStack /\ caml_trapsp' \in 0..MaxStack
        /\ CurrentBufferIndex' \in 0..MaxTraps /\ NextExceptionContext' \in -1..MaxTraps - 1
        /\ caml_external_raise' \in -2..MaxTraps - 1
    BY <1>a, <1>3
  <2>2. Buffers' \in [0..MaxTraps - 1 -> [Next : -1..MaxTraps - 1, native : Nat]]
    BY <1>a, <1>3 DEF TypeOK
  <2> QED BY <1>a, <1>1, <1>2, <1>3, <2>1, <2>2 DEF TypeOK
<1>5. /\ \A k \in Depths : /\ Floor(k)' = Floor(k) /\ ExtraOf(k)' = ExtraOf(k)
                           /\ EnvOf(k)' = EnvOf(k) /\ Ceiling(k) <= Ceiling(k)'
      /\ \A f \in {traps[i] : i \in 1..Len(traps)} :
           TrapHolds(f)' /\ stack'[f.pos - 1] = stack[f.pos - 1]
      /\ \A p \in pends : PendHolds(p)'
      /\ ActivationsFit' /\ SavedTyped' /\ ReturnFramesOrdered'
  BY <1>1, <1>3, <1>4, OldFramesHold
<1>6. \A f : f = r => TrapHolds(f)' /\ stack'[f.pos - 1] = caml_trapsp
  <2>1. Len(calls) \in Depths /\ Depths' = Depths
    BY <1>a, <1>3 DEF Depths
  <2>2. Floor(Len(calls)) + ExtraOf(Len(calls)) = Base /\ Base \in 0..sp
    BY <1>a, FramesBelow, LayoutTypes DEF Floor, ExtraOf, Base, Last
  <2> SUFFICES ASSUME NEW f, f = r
               PROVE  TrapHolds(f)' /\ stack'[f.pos - 1] = caml_trapsp
    OBVIOUS
  <2>3. f.pos = sp + 4 /\ f.calls = Len(calls) /\ f.calls \in Depths'
    BY <2>1
  <2>4. Floor(f.calls)' + ExtraOf(f.calls)' = Base
    BY <1>5, <2>1, <2>2, <2>3
  <2>5. /\ Ceiling(f.calls)' = sp + 4 /\ EnvOf(f.calls)' = Env
        /\ ExtraOf(f.calls)' = extra_args
    BY <1>3, <2>3 DEF Ceiling, EnvOf, ExtraOf
  <2>6. LiesIn(f, 4)'
    BY <1>a, <2>2, <2>3, <2>4, <2>5 DEF LiesIn
  <2>7. f.pos - 1 = sp + 3 /\ f.pos - 2 = sp + 2 /\ f.pos - 3 = sp + 1
    BY <1>a, <2>3
  <2> QED BY <1>1, <1>a, <2>5, <2>6, <2>7, LongRoundTrip DEF TrapHolds
<1>7. \A i \in 1..t + 1 : \A f :
        f = traps'[i] => /\ TrapHolds(f)'
                         /\ stack'[f.pos - 1] = IF i = 1 THEN 0 ELSE traps'[i - 1].pos
  <2> SUFFICES ASSUME NEW i \in 1..t + 1, NEW f, f = traps'[i]
               PROVE  /\ TrapHolds(f)'
                      /\ stack'[f.pos - 1] = IF i = 1 THEN 0 ELSE traps'[i - 1].pos
    OBVIOUS
  <2>1. CASE i = t + 1
    <3>1. i # 1 => i - 1 = Len(traps) /\ i - 1 \in 1..t
      BY <1>a, <2>1
    <3>2. f = r
      BY <1>2, <2>1
    <3>3. caml_trapsp = IF i = 1 THEN 0 ELSE traps'[i - 1].pos
      BY <1>a, <1>2, <2>1, <3>1 DEF IInv, TrapChain, Last
    <3> QED BY <1>6, <3>2, <3>3
  <2>2. CASE i \in 1..t
    <3>1. f = traps[i] /\ f \in {traps[j] : j \in 1..Len(traps)}
      BY <1>2, <2>2
    <3>2. TrapHolds(f)' /\ stack'[f.pos - 1] = stack[f.pos - 1]
      BY <1>5, <3>1
    <3>3. i # 1 => i - 1 \in 1..t
      BY <1>a, <2>2
    <3>4. stack[f.pos - 1] = IF i = 1 THEN 0 ELSE traps'[i - 1].pos
      BY <1>2, <2>2, <3>1, <3>3 DEF IInv, TrapChain
    <3> QED BY <3>2, <3>4
  <2> QED BY <1>a, <2>1, <2>2
<1>8. \A i \in 1..t : traps[i].pos \in Nat /\ traps[i].pos <= sp
  BY <1>a, FramesBelow, LayoutTypes
<1>9. \A p \in pends : p.pos \in Nat /\ p.pos <= sp
  BY <1>a, FramesBelow, LayoutTypes
<1>10. TrapsFit'
  <2>1. (\A i \in 1..Len(traps) : LiesIn(traps[i], 4))'
    BY <1>2, <1>7 DEF TrapHolds
  <2>2. ASSUME NEW i \in 1..Len(traps'), NEW j \in 1..Len(traps'), i < j
        PROVE  traps'[i].pos <= traps'[j].pos - 4
    <3>1. i \in 1..t + 1 /\ j \in 1..t + 1
      BY <1>2
    <3>2. i \in 1..t /\ (j \in 1..t \/ j = t + 1)
      BY <1>a, <2>2, <3>1
    <3>3. CASE j = t + 1
      BY <1>a, <1>2, <1>8, <3>2, <3>3, SMTT(60)
    <3>4. CASE j \in 1..t
      BY <1>2, <2>2, <3>2, <3>4 DEF IInv, TrapsFit
    <3> QED BY <3>2, <3>3, <3>4
  <2> QED BY <2>1, <2>2 DEF TrapsFit
<1>11. TrapChain'
  <2>1. traps'[Len(traps')].pos = sp + 4
    BY <1>2
  <2> QED BY <1>2, <1>3, <1>7, <2>1 DEF TrapChain, Last
<1>12. PendsFit'
  BY <1>3, <1>5 DEF IInv, PendsFit, PendHolds
<1>13. TrapsPendsApart'
  <2>1. ASSUME NEW p \in pends, NEW i \in 1..t + 1
        PROVE  p.pos <= traps'[i].pos - 4 \/ traps'[i].pos <= p.pos - 3
    <3>1. CASE i = t + 1
      BY <1>a, <1>2, <1>9, <3>1
    <3>2. CASE i \in 1..t
      BY <1>2, <3>2 DEF IInv, TrapsPendsApart
    <3> QED BY <1>a, <3>1, <3>2
  <2> QED BY <1>2, <1>3, <2>1 DEF TrapsPendsApart
<1>14. SavedContexts'
  BY <1>2, <1>3, <1>5, <1>7 DEF SavedContexts, TrapHolds, PendHolds
<1>15. ContextChain'
  <2>1. ASSUME NEW i \in 1..Len(traps')
        PROVE  Buffers'[i - 1] = [Next |-> i - 2, native |-> 1 + traps'[i].calls]
    <3>1. DOMAIN Buffers = 0..MaxTraps - 1
      BY <1>a DEF TypeOK
    <3>2. CASE i = t + 1
      <4>1. NextExceptionContext = t - 1 /\ native = 1 + Len(calls)
        BY DEF IInv, ContextChain, NativeLockstep
      <4>2. i - 1 = t /\ i - 2 = t - 1
        BY <1>a, <3>2
      <4> QED BY <1>a, <1>2, <1>3, <3>1, <3>2, <4>1, <4>2
    <3>3. CASE i \in 1..t
      <4>1. Buffers[i - 1] = [Next |-> i - 2, native |-> 1 + traps[i].calls]
        BY <3>3 DEF IInv, ContextChain
      <4>2. i - 1 \in 0..MaxTraps - 1 /\ i - 1 # t
        BY <1>a, <3>3
      <4> QED BY <1>2, <1>3, <3>1, <3>3, <4>1, <4>2
    <3> QED BY <1>a, <1>2, <3>2, <3>3
  <2>2. /\ CurrentBufferIndex' = Len(traps') /\ NextExceptionContext' = Len(traps') - 1
        /\ caml_external_raise' = Len(traps') - 1
    BY <1>a, <1>2, <1>3
  <2> QED BY <2>1, <2>2 DEF ContextChain
<1>16. EntryFits' /\ FreshEntry' /\ NativeLockstep'
  BY <1>3 DEF IInv, EntryFits, FreshEntry, NativeLockstep
<1> QED BY <1>4, <1>5, <1>10, <1>11, <1>12, <1>13, <1>14, <1>15, <1>16 DEF IInv

-----------------------------------------------------------------------------
(* The innermost handler goes, and the activation that installed it runs, with
   what its trap frame holds: what POPTRAP and a raise have in common. *)
LEMMA DropStep ==
  ASSUME IInv, traps # <<>>, removeExceptionContext,
         traps' = Front(traps), calls' = SubSeq(calls, 1, Last(traps).calls),
         pends' = {p \in pends : p.pos < Last(traps).pos},
         \A w \in 1..Last(traps).pos : stack'[w] = stack[w],
         stack' \in [1..MaxStack -> Int],
         Env' = stack[Last(traps).pos - 2], extra_args' = LongVal(stack[Last(traps).pos - 3]),
         caml_trapsp' = stack[Last(traps).pos - 1], sp' = Last(traps).pos - 4,
         native' = 1 + Last(traps).calls, at' = "body", restored' = 0, UNCHANGED status
  PROVE  IInv'
<1>a. /\ TypeOK /\ Len(calls) \in Nat /\ Len(traps) \in Nat /\ MaxStack \in Nat
      /\ Len(traps) # 0 /\ sp \in Nat /\ sp \in 0..MaxStack /\ Len(traps) \in 1..Len(traps)
  <2>1. TypeOK /\ sp \in 0..MaxStack
    BY DEF IInv, TypeOK
  <2>2. Len(calls) \in Nat /\ Len(traps) \in Nat /\ MaxStack \in Nat /\ Len(traps) # 0 /\ sp \in Nat
    BY <2>1, LayoutTypes
  <2>3. Len(traps) \in 1..Len(traps)
    BY ONLY <2>2
  <2> QED BY <2>1, <2>2, <2>3
<1>b. /\ Last(traps) = traps[Len(traps)] /\ TrapHolds(Last(traps))
      /\ Last(traps) \in [pos : 1..MaxStack, calls : Nat]
      /\ Last(traps).pos \in Nat /\ Last(traps).calls \in Nat
      /\ Last(traps).calls \in 0..Len(calls) /\ Last(traps).pos \in 4..sp
  BY <1>a, LayoutTypes, FramesHold, FramesBelow DEF Last, Depths
<1>c. PICK d \in Nat, t \in Nat, m \in Nat, P \in {pends'} :
        d = Last(traps).calls /\ t = Len(traps) - 1 /\ m = Last(traps).pos - 4
  <2>1. Last(traps).pos - 4 \in Nat /\ Len(traps) - 1 \in Nat
    <3>1. /\ Last(traps).pos \in Nat /\ Last(traps).pos \in 4..sp /\ sp \in Nat
          /\ Len(traps) \in 1..Len(traps) /\ Len(traps) \in Nat
      BY <1>a, <1>b
    <3> QED BY ONLY <3>1
  <2> QED BY <1>b, <2>1
<1>1. /\ d \in 0..Len(calls) /\ t \in 0..Len(traps) /\ P = pends' /\ P \in SUBSET pends
      /\ m \in 0..MaxStack /\ t + 1 = Len(traps) /\ t + 1 \in 1..Len(traps)
      /\ m + 4 = Last(traps).pos /\ m + 4 \in 4..MaxStack /\ Last(traps) = traps[t + 1]
  <2>1. d \in 0..Len(calls) /\ P = pends'
    BY <1>b, <1>c
  <2>2. t \in 0..Len(traps) /\ t + 1 = Len(traps) /\ t + 1 \in 1..Len(traps)
    BY <1>a, <1>c
  <2>3. P \in SUBSET pends
    BY <1>c
  <2>4. m + 4 = Last(traps).pos /\ m + 4 \in 4..MaxStack /\ m \in 0..MaxStack
    <3>1. Last(traps).pos \in 4..sp /\ sp \in 0..MaxStack /\ MaxStack \in Nat
      BY <1>a, <1>b
    <3>2. m = Last(traps).pos - 4
      BY <1>c
    <3> QED BY ONLY <3>1, <3>2
  <2>5. Last(traps) = traps[t + 1]
    BY <1>b, <2>2
  <2> QED BY <2>1, <2>2, <2>3, <2>4, <2>5
<1>2. /\ calls' \in Seq(1..MaxStack) /\ Len(calls') = d
      /\ \A i \in 1..d : calls'[i] = calls[i]
  <2>1. calls \in Seq(1..MaxStack)
    BY <1>a DEF TypeOK
  <2>2. calls' = SubSeq(calls, 1, d)
    BY <1>c
  <2>3. /\ SubSeq(calls, 1, d) \in Seq(1..MaxStack) /\ Len(SubSeq(calls, 1, d)) = d
        /\ \A i \in 1..d : SubSeq(calls, 1, d)[i] = calls[i]
    <3>1. d \in 0..Len(calls)
      BY <1>1
    <3> QED BY ONLY <2>1, <3>1, PrefixFacts
  <2> QED BY <2>2, <2>3
<1>3. /\ traps' \in Seq([pos : 1..MaxStack, calls : Nat]) /\ Len(traps') = t
      /\ \A i \in 1..t : traps'[i] = traps[i]
      /\ traps' # <<>> <=> t # 0
  <2>1. traps \in Seq([pos : 1..MaxStack, calls : Nat])
    BY <1>a DEF TypeOK
  <2>2. /\ SubSeq(traps, 1, t) \in Seq([pos : 1..MaxStack, calls : Nat])
        /\ Len(SubSeq(traps, 1, t)) = t
        /\ \A i \in 1..t : SubSeq(traps, 1, t)[i] = traps[i]
    <3>1. t \in 0..Len(traps)
      BY <1>1
    <3> QED BY ONLY <2>1, <3>1, PrefixFacts
  <2>3. traps' = SubSeq(traps, 1, t)
    BY <1>c DEF Front
  <2> QED BY <2>2, <2>3, EmptyFacts
<1>4. Ceiling(d)' = m /\ EnvOf(d)' = Env' /\ ExtraOf(d)' = extra_args' /\ sp' = m
  BY <1>2, <1>c DEF Ceiling, EnvOf, ExtraOf
<1>5. /\ EnvOf(d) = Env' /\ ExtraOf(d) = extra_args'
      /\ Floor(d) + ExtraOf(d) + 4 <= m + 4
  BY <1>b, <1>c, <1>1 DEF TrapHolds, LiesIn
<1>6. \A k \in 0..d : /\ Floor(k) + ExtraOf(k) <= Ceiling(k)
                      /\ EnvOf(k) \in Closures \cup {0} /\ ExtraOf(k) \in Nat
                      /\ Floor(k) \in Nat
  <2>1. \A k \in 0..d : k \in Depths
    BY <1>a, <1>1 DEF Depths
  <2>2. \A k \in Depths : Floor(k) \in Nat
    BY <1>a, LayoutTypes DEF Floor, Depths
  <2> QED BY <2>1, <2>2 DEF IInv, ActivationsFit, SavedTyped
<1>7. Floor(d) + ExtraOf(d) <= m /\ Floor(d) <= m
  <2>1. Floor(d) \in Nat /\ ExtraOf(d) \in Nat /\ m \in Nat
    BY <1>6, <1>c, SMTT(60)
  <2> QED BY ONLY <1>5, <2>1
<1>8. \A i \in 1..t : traps[i].calls <= d /\ traps[i].pos <= m
  <2> SUFFICES ASSUME NEW i \in 1..t PROVE traps[i].calls <= d /\ traps[i].pos <= m
    OBVIOUS
  <2>1. i \in 1..Len(traps) /\ i < t + 1
    <3>1. t \in Nat /\ Len(traps) = t + 1 /\ i \in 1..t
      BY <1>1, <1>c
    <3> QED BY ONLY <3>1
  <2>2. /\ traps[i].pos \in Nat /\ traps[i] \in [pos : 1..MaxStack, calls : Nat]
        /\ LiesIn(traps[i], 4) /\ LiesIn(Last(traps), 4)
    BY <1>a, <1>b, <2>1, LayoutTypes, FramesHold DEF TrapHolds
  <2>3. traps[i].pos <= Last(traps).pos - 4
    BY <1>1, <2>1 DEF IInv, TrapsFit
  <2>4. traps[i].pos <= Last(traps).pos
    BY <1>b, <2>2, <2>3, SMTT(60)
  <2> QED BY <1>b, <1>c, <2>2, <2>3, <2>4, LowerFrameOlder
<1>9. \A p \in P : p.calls <= d /\ p.pos <= m
  <2> SUFFICES ASSUME NEW p \in P PROVE p.calls <= d /\ p.pos <= m
    OBVIOUS
  <2>1. p \in pends /\ p.pos < Last(traps).pos
    BY <1>1
  <2>2. /\ p.pos \in Nat /\ p \in [pos : 1..MaxStack, calls : Nat]
        /\ LiesIn(p, 3) /\ LiesIn(Last(traps), 4)
    BY <1>a, <1>b, <2>1, LayoutTypes, FramesHold DEF TrapHolds, PendHolds
  <2>3. p.pos <= Last(traps).pos - 4 \/ Last(traps).pos <= p.pos - 3
    BY <1>1, <2>1 DEF IInv, TrapsPendsApart
  <2>4. p.pos <= Last(traps).pos - 4 /\ p.pos <= Last(traps).pos
    BY <1>b, <2>1, <2>2, <2>3
  <2> QED BY <1>b, <1>c, <2>2, <2>4, LowerFrameOlder
<1>10. /\ Floor(d)' = Floor(d)
       /\ \A k \in 0..d - 1 :
            /\ Floor(k)' = Floor(k) /\ Ceiling(k)' = Ceiling(k)
            /\ EnvOf(k)' = EnvOf(k) /\ ExtraOf(k)' = ExtraOf(k)
       /\ \A f \in {traps[i] : i \in 1..t} :
            TrapHolds(f)' /\ stack'[f.pos - 1] = stack[f.pos - 1]
       /\ \A p \in P : PendHolds(p)'
  <2>1. /\ Len(calls') \in Nat /\ d <= Len(calls')
        /\ Ceiling(d)' \in Int /\ m <= Ceiling(d)'
        /\ EnvOf(d)' = EnvOf(d) /\ ExtraOf(d)' = ExtraOf(d)
    BY <1>2, <1>4, <1>5
  <2>2. \A w \in 1..m : stack'[w] = stack[w]
    <3>1. m \in Nat /\ m + 4 = Last(traps).pos
      BY <1>1, <1>c
    <3>2. \A w \in 1..m : w \in 1..m + 4
      BY ONLY <3>1
    <3> QED BY <3>1, <3>2
  <2>3. d > 0 => calls[d] <= m
    BY <1>7, <1>c DEF Floor
  <2> QED BY <1>1, <1>2, <1>8, <1>9, <2>1, <2>2, <2>3, KeepFrames
<1>11. TrapsFit' /\ PendsFit' /\ TrapsPendsApart' /\ SavedContexts' /\ TrapChain'
  <2>1. \A i \in 1..Len(traps) :
           stack[traps[i].pos - 1] = IF i = 1 THEN 0 ELSE traps[i - 1].pos
    BY DEF IInv, TrapChain
  <2>2. t + 1 - 1 = t /\ (t + 1 = 1 <=> t = 0)
    BY <1>c
  <2>3. caml_trapsp' = IF t = 0 THEN 0 ELSE traps[t].pos
    BY <1>1, <2>1, <2>2
  <2> QED BY <1>1, <1>3, <1>10, <2>3, FramesAfter
<1>12. ActivationsFit' /\ SavedTyped'
  <2>1. ASSUME NEW k \in Depths'
        PROVE  /\ Floor(k)' + ExtraOf(k)' <= Ceiling(k)'
               /\ EnvOf(k)' \in Closures \cup {0} /\ ExtraOf(k)' \in Nat
    <3>1. k \in 0..d /\ (k = d \/ k \in 0..d - 1)
      BY <1>2 DEF Depths
    <3>2. CASE k = d
      BY <1>4, <1>5, <1>6, <1>7, <1>10, <3>1, <3>2
    <3>3. CASE k \in 0..d - 1
      BY <1>6, <1>10, <3>1, <3>3
    <3> QED BY <3>1, <3>2, <3>3
  <2> QED BY <2>1 DEF ActivationsFit, SavedTyped
<1>13. ReturnFramesOrdered' /\ NativeLockstep'
  <2>1. \A i \in 1..d : i \in 1..Len(calls)
    BY <1>a, <1>1
  <2>2. ReturnFramesOrdered'
    BY <1>2, <2>1 DEF IInv, ReturnFramesOrdered
  <2>3. NativeLockstep'
    BY <1>2, <1>c DEF NativeLockstep
  <2> QED BY <2>2, <2>3
<1>14. /\ UNCHANGED Buffers /\ CurrentBufferIndex' = t /\ NextExceptionContext' = t - 1
       /\ caml_external_raise' = IF t - 1 = -1 THEN WILD ELSE t - 1
  <2>1. NextExceptionContext = t /\ CurrentBufferIndex = t + 1
    BY <1>c, <1>a DEF IInv, ContextChain
  <2>2. Buffers[t + 1 - 1] = [Next |-> t + 1 - 2, native |-> 1 + traps[t + 1].calls]
    BY <1>1 DEF IInv, ContextChain
  <2>3. Buffers[t].Next = t - 1
    BY <1>c, <2>2
  <2> QED BY <1>c, <2>1, <2>3 DEF removeExceptionContext, NULL
<1>15. ContextChain'
  <2>1. \A i \in 1..t : Buffers'[i - 1] = [Next |-> i - 2, native |-> 1 + traps'[i].calls]
    <3>1. \A i \in 1..t : i \in 1..Len(traps)
      BY <1>a, <1>1
    <3>2. \A i \in 1..Len(traps) :
             Buffers[i - 1] = [Next |-> i - 2, native |-> 1 + traps[i].calls]
      BY DEF IInv, ContextChain
    <3> QED BY <1>3, <1>14, <3>1, <3>2
  <2>2. \/ caml_external_raise' = t - 1
        \/ traps' = <<>> /\ caml_external_raise' = WILD
    <3>1. t \in Nat
      BY <1>c
    <3>2. t - 1 = -1 => t = 0
      BY ONLY <3>1
    <3> QED BY <1>3, <1>14, <3>2
  <2> QED BY <1>3, <1>14, <2>1, <2>2 DEF ContextChain
<1>16. TypeOK'
  <2>1. /\ Env' \in Closures \cup {0} /\ extra_args' \in Nat
        /\ sp' \in 0..MaxStack /\ native' \in Nat /\ restored' \in 0..MaxArgs
    <3>1. sp' \in 0..MaxStack /\ 0 \in 0..MaxArgs
      BY <1>1, <1>4, BoundsAssumption
    <3>2. EnvOf(d) \in Closures \cup {0} /\ ExtraOf(d) \in Nat
      BY <1>6, <1>c, SMTT(60)
    <3>3. 1 + d \in Nat
      BY <1>c
    <3> QED BY <1>5, <1>c, <3>1, <3>2, <3>3
  <2>2. CurrentBufferIndex = t + 1 /\ CurrentBufferIndex \in 0..MaxTraps /\ MaxTraps \in Nat
    BY <1>c, <1>a, BoundsAssumption DEF IInv, ContextChain, TypeOK
  <2>3. /\ CurrentBufferIndex' \in 0..MaxTraps /\ NextExceptionContext' \in -1..MaxTraps - 1
        /\ caml_external_raise' \in -2..MaxTraps - 1
    BY <1>14, <1>c, <2>2 DEF WILD
  <2>4. caml_trapsp' \in 0..MaxStack
    <3>1. caml_trapsp' = IF t = 0 THEN 0 ELSE traps'[t].pos
      <4>1. caml_trapsp' = IF traps' = <<>> THEN 0 ELSE traps'[Len(traps')].pos
        BY <1>11 DEF TrapChain, Last
      <4> QED BY <1>3, <4>1
    <3>2. t # 0 => traps'[t] \in [pos : 1..MaxStack, calls : Nat]
      <4>1. t # 0 => t \in 1..Len(traps')
        BY <1>3, <1>c
      <4> QED BY <1>3, <4>1, ElementOfSeq
    <3> QED BY <3>1, <3>2, <1>a
  <2>5. pends' \in SUBSET [pos : 1..MaxStack, calls : Nat]
    BY <1>1, <1>a, LayoutTypes
  <2> QED BY <1>a, <1>2, <1>3, <1>14, <2>1, <2>3, <2>4, <2>5 DEF TypeOK
<1>17. EntryFits' /\ FreshEntry'
  BY DEF EntryFits, FreshEntry
<1> QED BY <1>11, <1>12, <1>13, <1>15, <1>16, <1>17 DEF IInv

LEMMA PopTrapStep ==
  ASSUME IInv, PopTrap
  PROVE  IInv'
<1>a. /\ TypeOK /\ Len(calls) \in Nat /\ Len(traps) \in Nat /\ MaxStack \in Nat
      /\ sp \in Nat /\ traps # <<>> /\ Len(traps) \in 1..Len(traps)
      /\ Last(traps) = traps[Len(traps)]
  BY LayoutTypes DEF IInv, PopTrap, Last
<1>1. Last(traps).pos = sp /\ Last(traps).calls = Len(calls)
  BY DEF PopTrap
<1>2. Env = stack[sp - 2] /\ extra_args = LongVal(stack[sp - 3])
  <2>1. TrapHolds(Last(traps))
    BY <1>a, FramesHold
  <2> QED BY <1>1, <2>1 DEF TrapHolds, EnvOf, ExtraOf
<1>3. calls' = SubSeq(calls, 1, Len(calls))
  <2>1. calls \in Seq(1..MaxStack)
    BY <1>a DEF TypeOK
  <2>2. calls = SubSeq(calls, 1, Len(calls))
    BY ONLY <2>1
  <2> QED BY <2>2 DEF PopTrap
<1>4. pends' = {p \in pends : p.pos < sp}
  <2>1. \A p \in pends : p.pos \in Nat /\ p.pos <= sp /\ p.pos \in 3..sp
    BY <1>a, LayoutTypes, FramesBelow
  <2>2. \A p \in pends : p.pos <= sp - 4 \/ sp <= p.pos - 3
    BY <1>a, <1>1 DEF IInv, TrapsPendsApart
  <2>3. \A p \in pends : p.pos < sp
    BY <1>a, <2>1, <2>2
  <2> QED BY <2>3 DEF PopTrap
<1>5. native' = 1 + Len(calls)
  BY DEF IInv, NativeLockstep, PopTrap
<1>6. /\ stack' = stack /\ stack \in [1..MaxStack -> Int]
      /\ at' = "body" /\ restored' = 0 /\ status' = status
      /\ removeExceptionContext /\ traps' = Front(traps)
      /\ Env' = Env /\ extra_args' = extra_args
      /\ caml_trapsp' = stack[sp - 1] /\ sp' = sp - 4
  BY <1>a DEF PopTrap, popTrap, Body, IInv, FreshEntry, TypeOK
<1> QED BY <1>a, <1>1, <1>2, <1>3, <1>4, <1>5, <1>6, DropStep

\* The frames of handlers are in `memory' as they are on the stack.
KeepsTraps(memory) ==
  /\ memory \in [1..MaxStack -> Int]
  /\ \A w \in 1..MaxStack :
       \A i \in 1..Len(traps) : w <= traps[i].pos => memory[w] = stack[w]

(* A raise that finds a handler, whatever it has pushed above the handler's
   trap frame, takes the registers out of that frame. *)
LEMMA UnwindFacts ==
  ASSUME IInv, NEW ctx, NEW memory, Unwind(ctx, memory), KeepsTraps(memory),
         ctx = NextExceptionContext \/ ctx = caml_external_raise, ctx >= 0
  PROVE  /\ traps # <<>>
         /\ Env' = stack[Last(traps).pos - 2]
         /\ extra_args' = LongVal(stack[Last(traps).pos - 3])
         /\ caml_trapsp' = stack[Last(traps).pos - 1] /\ sp' = Last(traps).pos - 4
         /\ calls' = SubSeq(calls, 1, Last(traps).calls) /\ traps' = Front(traps)
         /\ pends' = {p \in pends : p.pos < Last(traps).pos}
         /\ native' = 1 + Last(traps).calls
         /\ removeExceptionContext
         /\ stack' = memory /\ \A w \in 1..Last(traps).pos : memory[w] = stack[w]
         /\ at' = "body" /\ restored' = 0 /\ status' = status
<1>a. /\ TypeOK /\ Len(calls) \in Nat /\ Len(traps) \in Nat /\ MaxStack \in Nat
      /\ sp \in 0..MaxStack
  BY LayoutTypes DEF IInv, TypeOK
<1>1. /\ ctx = Len(traps) - 1 /\ Len(traps) \in 1..Len(traps) /\ traps # <<>>
      /\ Last(traps) = traps[Len(traps)]
  <2>1. ctx = Len(traps) - 1 \/ ctx = WILD
    BY DEF IInv, ContextChain
  <2>2. ctx = Len(traps) - 1 /\ Len(traps) \in 1..Len(traps)
    BY <1>a, <2>1 DEF WILD
  <2> QED BY <1>a, <2>2, LayoutTypes DEF Last
<1>2. /\ Last(traps).pos \in 4..sp /\ Last(traps).pos \in Nat /\ caml_trapsp = Last(traps).pos
  BY <1>1, <1>a, LayoutTypes, FramesBelow DEF IInv, TrapChain
<1>3. \A w \in 1..Last(traps).pos : memory[w] = stack[w]
  <2>1. \A w \in 1..Last(traps).pos : w \in 1..MaxStack /\ w <= Last(traps).pos
    BY <1>a, <1>2
  <2> QED BY <1>1, <2>1 DEF KeepsTraps
<1>4. native' = 1 + Last(traps).calls
  <2>1. Buffers[Len(traps) - 1] = [Next |-> Len(traps) - 2, native |-> 1 + traps[Len(traps)].calls]
    BY <1>1 DEF IInv, ContextChain
  <2> QED BY <1>1, <2>1 DEF Unwind
<1>5. /\ Last(traps).pos - 1 \in 1..Last(traps).pos
      /\ Last(traps).pos - 2 \in 1..Last(traps).pos
      /\ Last(traps).pos - 3 \in 1..Last(traps).pos
  BY <1>2
<1>6. /\ Env' = stack[Last(traps).pos - 2] /\ extra_args' = LongVal(stack[Last(traps).pos - 3])
      /\ caml_trapsp' = stack[Last(traps).pos - 1] /\ sp' = Last(traps).pos - 4
  BY <1>2, <1>3, <1>5 DEF Unwind, getExceptionValue
<1>7. /\ stack' = memory /\ removeExceptionContext /\ at' = "body" /\ restored' = 0
      /\ calls' = SubSeq(calls, 1, Last(traps).calls) /\ traps' = Front(traps)
      /\ pends' = {p \in pends : p.pos < Last(traps).pos} /\ status' = status
  BY DEF Unwind
<1> QED BY <1>1, <1>3, <1>4, <1>6, <1>7

LEMMA UnwindStep ==
  ASSUME IInv, NEW ctx, NEW memory, Unwind(ctx, memory), KeepsTraps(memory),
         ctx = NextExceptionContext \/ ctx = caml_external_raise, ctx >= 0
  PROVE  IInv'
BY UnwindFacts, DropStep DEF KeepsTraps

-----------------------------------------------------------------------------
(* The actions that keep every frame, by SameFrames. *)

\* What the guards of instructions say of the words below those they use.
LEMMA OwnsFacts ==
  ASSUME IInv, NEW n \in Nat, Owns(n)
  PROVE  /\ sp - n \in 0..MaxStack /\ sp - n <= sp /\ Base <= sp - n /\ Base \in Nat
         /\ calls # <<>> => Last(calls) <= sp - n
         /\ \A i \in 1..Len(traps) : traps[i].pos <= sp - n
         /\ \A p \in pends : p.pos <= sp - n
<1>1. TypeOK /\ sp \in 0..MaxStack
  BY DEF IInv, TypeOK
<1>2. MaxStack \in Nat /\ extra_args \in Nat /\ (calls # <<>> => Last(calls) \in Nat)
  BY <1>1, LayoutTypes DEF Last
<1>3. Base \in 0..sp /\ (calls # <<>> => Last(calls) + extra_args = Base) /\ Base <= sp - n
  BY FramesBelow DEF Owns
<1>4. sp - n \in 0..MaxStack /\ sp - n <= sp /\ Base \in Nat
  BY ONLY <1>1, <1>2, <1>3, n \in Nat
<1>5. calls # <<>> => Last(calls) <= sp - n
  BY ONLY <1>1, <1>2, <1>3, n \in Nat
<1> QED BY <1>3, <1>4, <1>5 DEF Owns

LEMMA TopFacts ==
  ASSUME IInv
  PROVE  Owns(0)
<1>1. TypeOK /\ sp \in Nat
  BY LayoutTypes DEF IInv
<1>2. Base \in Nat /\ Base <= sp
  BY <1>1, FramesBelow
<1>3. \A i \in 1..Len(traps) : traps[i].pos <= sp
  BY <1>1, FramesBelow, LayoutTypes
<1>4. \A p \in pends : p.pos <= sp
  BY <1>1, FramesBelow, LayoutTypes
<1> QED BY <1>1, <1>2, <1>3, <1>4 DEF Owns

LEMMA InTailFacts ==
  ASSUME IInv, InTail
  PROVE  /\ Last(calls) \in 0..MaxStack /\ Last(calls) \in Nat
         /\ Base = Last(calls) + extra_args /\ Base \in Nat /\ Base <= sp
         /\ \A i \in 1..Len(traps) : traps[i].pos <= Last(calls)
         /\ \A p \in pends : p.pos <= Last(calls)
<1>1. TypeOK /\ calls # <<>> /\ sp \in Nat /\ MaxStack \in Nat
  BY LayoutTypes DEF IInv, InTail
<1>2. Last(calls) \in 1..MaxStack
  BY <1>1, LayoutTypes DEF Last
<1>3. Base = Last(calls) + extra_args /\ Base \in 0..sp
  BY <1>1, FramesBelow
<1>4. \A i \in 1..Len(traps) : traps[i].pos \in Nat /\ traps[i].pos <= Last(calls) - 3
  BY <1>1, LayoutTypes, FramesBelow DEF InTail
<1>5. \A p \in pends : p.pos \in Nat /\ p.pos <= Last(calls) - 3
  BY <1>1, LayoutTypes, FramesBelow DEF InTail
<1>6. /\ Last(calls) \in 0..MaxStack /\ Last(calls) \in Nat /\ Base \in Nat /\ Base <= sp
      /\ \A x \in Nat : x <= Last(calls) - 3 => x <= Last(calls)
  BY ONLY <1>1, <1>2, <1>3
<1> QED BY <1>3, <1>4, <1>5, <1>6

LEMMA PushStep ==
  ASSUME IInv, Push
  PROVE  IInv'
<1>1. /\ TypeOK /\ sp \in 0..MaxStack /\ MaxStack \in Nat /\ sp < MaxStack
      /\ sp \in Nat /\ Owns(0) /\ sp - 0 = sp
  BY LayoutTypes, TopFacts DEF IInv, TypeOK, Push
<1>2. PICK m \in 0..MaxStack : m = sp
  BY <1>1
<1>3. /\ UNCHANGED <<Env, extra_args, handling, native, at, restored, layout, status>>
      /\ sp' = sp + 1 /\ stack' = [stack EXCEPT ![sp + 1] = ValLong(0)] /\ at = "body"
  BY DEF Push, Body
<1>4. TypeOK' /\ \A w \in 1..sp : stack'[w] = stack[w]
  <2>1. stack \in [1..MaxStack -> Int] /\ ValLong(0) \in Int /\ sp' \in 0..MaxStack
    BY <1>1, <1>3, WordsTyped
  <2>2. stack' \in [1..MaxStack -> Int]
    BY <1>3, <2>1
  <2>3. \A w \in 1..sp : stack'[w] = stack[w]
    BY <1>1, <1>3, <2>1
  <2> QED BY <1>1, <1>3, <2>1, <2>2, <2>3 DEF TypeOK, handling, layout
<1>5. EntryFits' /\ FreshEntry'
  BY <1>3 DEF IInv, EntryFits, FreshEntry
<1>6. Base' <= sp' /\ m <= sp'
  <2>1. Base \in Nat /\ Base <= sp
    BY <1>1, OwnsFacts
  <2>2. Base' = Base
    BY <1>3 DEF Base, layout
  <2> QED BY <1>1, <1>2, <1>3, <2>1, <2>2
<1> QED BY <1>1, <1>2, <1>3, <1>4, <1>5, <1>6, OwnsFacts, SameFrames

LEMMA PopStep ==
  ASSUME IInv, NEW n \in Nat, Pop(n)
  PROVE  IInv'
<1>1. TypeOK /\ Owns(n) /\ MaxStack \in Nat
  BY LayoutTypes DEF IInv, Pop
<1>2. PICK m \in 0..MaxStack : m = sp - n
  BY <1>1, OwnsFacts
<1>3. /\ UNCHANGED <<stack, Env, extra_args, handling, native, at, restored, layout, status>>
      /\ sp' = sp - n /\ at = "body"
  BY DEF Pop, Body
<1>4. TypeOK'
  BY <1>1, <1>2, <1>3 DEF TypeOK, handling, layout
<1>5. EntryFits' /\ FreshEntry'
  BY <1>3 DEF IInv, EntryFits, FreshEntry
<1>6. Base' <= sp' /\ m <= sp'
  BY <1>1, <1>2, <1>3, OwnsFacts DEF Base, layout
<1> QED BY <1>1, <1>2, <1>3, <1>4, <1>5, <1>6, OwnsFacts, SameFrames

LEMMA SavedFacts ==
  ASSUME IInv, sp < MaxStack
  PROVE  Saved \in [1..MaxStack -> Int] /\ \A w \in 1..sp : Saved[w] = stack[w]
<1>1. /\ sp \in Nat /\ MaxStack \in Nat
      /\ stack \in [1..MaxStack -> Int] /\ Env \in Int
  BY LayoutTypes, WordsTyped DEF IInv
<1> QED BY <1>1 DEF Saved

LEMMA CCallStep ==
  ASSUME IInv, NEW n \in Nat \ {0}, CCall(n)
  PROVE  IInv'
<1>1. TypeOK /\ Owns(n - 1) /\ MaxStack \in Nat /\ n - 1 \in Nat /\ sp < MaxStack /\ sp \in Nat
  BY LayoutTypes DEF IInv, CCall
<1>2. PICK m \in 0..MaxStack : m = sp - (n - 1)
  BY <1>1, OwnsFacts
<1>3. /\ UNCHANGED <<Env, extra_args, handling, native, at, restored, layout, status>>
      /\ sp' = sp - (n - 1) /\ at = "body" /\ stack' = Saved
  BY DEF CCall, Body
<1>4. TypeOK' /\ \A w \in 1..sp : stack'[w] = stack[w]
  <2>1. stack' \in [1..MaxStack -> Int] /\ \A w \in 1..sp : stack'[w] = stack[w]
    BY <1>1, <1>3, SavedFacts
  <2> QED BY <1>1, <1>2, <1>3, <2>1 DEF TypeOK, handling, layout
<1>5. EntryFits' /\ FreshEntry'
  BY <1>3 DEF IInv, EntryFits, FreshEntry
<1>6. Base' <= sp' /\ m <= sp' /\ m <= sp
  BY <1>1, <1>2, <1>3, OwnsFacts DEF Base, layout
<1>7. \A w \in 1..m : stack'[w] = stack[w]
  BY <1>1, <1>2, <1>4, <1>6
<1> QED BY <1>1, <1>2, <1>3, <1>4, <1>5, <1>6, <1>7, OwnsFacts, SameFrames

\* At the entry of a function, its words are the arguments and nothing else.
LEMMA EntryFacts ==
  ASSUME IInv, at = "entry"
  PROVE  /\ TypeOK /\ InTail /\ MaxStack \in Nat /\ extra_args \in Nat /\ sp \in 0..MaxStack
         /\ sp \in Nat /\ Last(calls) \in Nat /\ calls # <<>>
         /\ sp = Last(calls) + extra_args + 1 /\ Base = Last(calls) + extra_args
         /\ Owns(0) /\ sp - 0 = sp
<1>1. TypeOK /\ sp \in 0..MaxStack /\ InTail
  BY DEF IInv, TypeOK, FreshEntry
<1>2. MaxStack \in Nat /\ extra_args \in Nat /\ sp \in Nat /\ sp - 0 = sp
  BY <1>1, LayoutTypes
<1>3. sp = Last(calls) + extra_args + 1 /\ calls # <<>>
  BY DEF IInv, EntryFits
<1>4. Last(calls) \in Nat /\ Base = Last(calls) + extra_args /\ Owns(0)
  BY <1>1, InTailFacts, TopFacts
<1> QED BY <1>1, <1>2, <1>3, <1>4

LEMMA EnterUnaryStep ==
  ASSUME IInv, EnterUnary
  PROVE  IInv'
<1>1. /\ UNCHANGED <<stack, sp, Env, extra_args, handling, native, restored, layout, status>>
      /\ at' = "body" /\ at = "entry" /\ restored = 0
  BY DEF EnterUnary, Entry, machine
<1>2. PICK m \in 0..MaxStack : m = sp
  BY <1>1, EntryFacts
<1>3. TypeOK'
  BY <1>1, EntryFacts DEF TypeOK, handling, layout
<1>4. EntryFits' /\ FreshEntry'
  BY <1>1 DEF EntryFits, FreshEntry
<1>5. Base' <= sp' /\ m <= sp'
  BY <1>1, <1>2, EntryFacts DEF Base, layout
<1> QED BY <1>1, <1>2, <1>3, <1>4, <1>5, EntryFacts, OwnsFacts, SameFrames

LEMMA GrabStep ==
  ASSUME IInv, NEW n \in Nat, Grab(n)
  PROVE  IInv'
<1>1. /\ UNCHANGED <<stack, sp, Env, handling, native, layout, status>>
      /\ at' = "body" /\ at = "entry" /\ restored' = 0
      /\ extra_args' = extra_args - n /\ extra_args >= n
  BY DEF Grab, checkGrab, substractExtraArgs, Entry
<1>2. PICK m \in 0..MaxStack : m = sp
  BY <1>1, EntryFacts
<1>3. extra_args' \in Nat /\ extra_args' <= extra_args
  BY <1>1, EntryFacts
<1>4. TypeOK'
  <2>1. 0 \in 0..MaxArgs
    BY BoundsAssumption
  <2> QED BY <1>1, <1>3, <2>1, EntryFacts DEF TypeOK, handling, layout
<1>5. EntryFits' /\ FreshEntry'
  BY <1>1 DEF EntryFits, FreshEntry
<1>6. Base' <= sp' /\ m <= sp'
  <2>1. Base' = Last(calls) + extra_args'
    BY <1>1, EntryFacts DEF Base, layout
  <2> QED BY <1>1, <1>2, <1>3, <2>1, EntryFacts
<1> QED BY <1>1, <1>2, <1>4, <1>5, <1>6, EntryFacts, OwnsFacts, SameFrames

LEMMA RestartStep ==
  ASSUME IInv, NEW n \in 1..MaxArgs, Restart(n)
  PROVE  IInv'
<1>1. /\ UNCHANGED <<handling, native, layout, status, at>>
      /\ at = "entry" /\ restored' = n /\ Env' \in Closures
      /\ extra_args' = extra_args + n /\ sp' = sp + n /\ sp + n <= MaxStack
      /\ stack' = [i \in 1..MaxStack |->
                     IF i \in sp + 1 .. sp + n THEN ValLong(0) ELSE stack[i]]
  BY DEF Restart, restart, TailCallClosure, Entry
<1>2. PICK m \in 0..MaxStack : m = sp
  BY <1>1, EntryFacts
<1>3. n \in Nat /\ n \in 0..MaxArgs
  BY BoundsAssumption
<1>4. extra_args' \in Nat /\ sp' \in 0..MaxStack /\ extra_args' >= n
  BY <1>1, <1>3, EntryFacts
<1>5. stack' \in [1..MaxStack -> Int] /\ \A w \in 1..sp : stack'[w] = stack[w]
  <2>1. stack \in [1..MaxStack -> Int] /\ ValLong(0) \in Int
    BY <1>1, EntryFacts, WordsTyped
  <2>2. \A w \in 1..sp : w \in 1..MaxStack /\ w \notin sp + 1 .. sp + n
    BY <1>1, <1>3, EntryFacts
  <2> QED BY <1>1, <2>1, <2>2
<1>6. TypeOK'
  BY <1>1, <1>3, <1>4, <1>5, EntryFacts DEF TypeOK, handling, layout
<1>7. EntryFits' /\ FreshEntry'
  <2>1. sp' = Last(calls') + extra_args' + 1 /\ calls' # <<>>
    BY <1>1, <1>3, EntryFacts DEF layout
  <2> QED BY <1>1, <1>4, <2>1, EntryFacts DEF EntryFits, FreshEntry, InTail, layout
<1>8. Base' <= sp' /\ m <= sp'
  <2>1. Base' = Last(calls) + extra_args'
    BY <1>1, EntryFacts DEF Base, layout
  <2> QED BY <1>1, <1>2, <1>3, <1>4, <2>1, EntryFacts, SMTT(60)
<1>9. \A w \in 1..m : stack'[w] = stack[w]
  BY <1>2, <1>5
<1> QED BY <1>1, <1>2, <1>6, <1>7, <1>8, <1>9, EntryFacts, OwnsFacts, SameFrames

LEMMA SlidFacts ==
  ASSUME IInv, NEW n \in Nat, Owns(n)
  PROVE  Slid(n) \in [1..MaxStack -> Int] /\ \A w \in 1..Base : Slid(n)[w] = stack[w]
<1>1. /\ stack \in [1..MaxStack -> Int] /\ sp \in 0..MaxStack /\ MaxStack \in Nat
      /\ Base \in Nat /\ Base <= sp - n /\ sp \in Nat
  BY LayoutTypes, WordsTyped, OwnsFacts DEF IInv, TypeOK
<1>2. \A i \in Base + 1 .. Base + n : i + sp - (Base + n) \in 1..MaxStack
  BY <1>1
<1>3. \A w \in 1..Base : w \in 1..MaxStack /\ w \notin Base + 1 .. Base + n
  BY <1>1
<1> QED BY <1>1, <1>2, <1>3 DEF Slid

LEMMA apptermStep ==
  ASSUME IInv, NEW n \in Nat \ {0}, appterm(n)
  PROVE  IInv'
<1>1. /\ UNCHANGED <<handling, native, restored, layout, status>>
      /\ InTail /\ Owns(n) /\ at = "body" /\ at' = "entry" /\ Env' \in Closures
      /\ stack' = Slid(n) /\ sp' = Base + n /\ extra_args' = extra_args + n - 1
      /\ calls # <<>> /\ n \in Nat
  BY DEF appterm, TailCallClosure, AppTermGuard, Body, InTail
<1>2. /\ TypeOK /\ MaxStack \in Nat /\ extra_args \in Nat /\ sp \in 0..MaxStack
      /\ Last(calls) \in Nat /\ Base \in Nat /\ Base = Last(calls) + extra_args
      /\ Base <= sp - n /\ restored = 0
  <2>1. TypeOK /\ sp \in 0..MaxStack /\ restored = 0
    BY <1>1 DEF IInv, TypeOK, FreshEntry
  <2> QED BY <1>1, <2>1, LayoutTypes, InTailFacts, OwnsFacts
<1>3. PICK m \in 0..MaxStack : m = Last(calls)
  BY <1>1, InTailFacts
<1>4. extra_args' \in Nat /\ sp' \in 0..MaxStack /\ extra_args' >= 0
  BY <1>1, <1>2
<1>5. stack' \in [1..MaxStack -> Int] /\ \A w \in 1..m : stack'[w] = stack[w]
  <2>1. \A w \in 1..m : w \in 1..Base
    BY <1>2, <1>3
  <2> QED BY <1>1, <2>1, SlidFacts
<1>6. TypeOK'
  BY <1>1, <1>2, <1>4, <1>5 DEF TypeOK, handling, layout
<1>7. EntryFits' /\ FreshEntry'
  <2>1. sp' = Last(calls') + extra_args' + 1
    BY <1>1, <1>2 DEF layout
  <2> QED BY <1>1, <1>2, <1>4, <2>1 DEF EntryFits, FreshEntry, InTail, layout
<1>8. Base' <= sp' /\ m <= sp'
  <2>1. Base' = Last(calls) + extra_args'
    BY <1>1 DEF Base, layout
  <2> QED BY <1>1, <1>2, <1>3, <1>4, <2>1, SMTT(60)
<1>9. \A p \in pends : p.pos <= m
  BY <1>1, <1>3, InTailFacts
<1>10. (\A i \in 1..Len(traps) : traps[i].pos <= m) /\ Last(calls) <= m
  BY <1>1, <1>2, <1>3, InTailFacts
<1> QED BY <1>1, <1>5, <1>6, <1>7, <1>8, <1>9, <1>10, SameFrames

LEMMA ReturnIntoStep ==
  ASSUME IInv, ReturnInto
  PROVE  IInv'
<1>1. /\ UNCHANGED <<stack, handling, native, restored, layout, status>>
      /\ InTail /\ at = "body" /\ at' = "entry" /\ Env' \in Closures
      /\ sp' = Base /\ extra_args' = extra_args - 1 /\ extra_args > 0 /\ calls # <<>>
  BY DEF ReturnInto, TailCallClosure, Body, InTail
<1>2. /\ TypeOK /\ MaxStack \in Nat /\ extra_args \in Nat /\ sp \in 0..MaxStack
      /\ Last(calls) \in Nat /\ Base \in Nat /\ Base = Last(calls) + extra_args
      /\ Base <= sp /\ restored = 0
  <2>1. TypeOK /\ sp \in 0..MaxStack /\ restored = 0
    BY <1>1 DEF IInv, TypeOK, FreshEntry
  <2> QED BY <1>1, <2>1, LayoutTypes, InTailFacts
<1>3. PICK m \in 0..MaxStack : m = Last(calls)
  BY <1>1, InTailFacts
<1>4. extra_args' \in Nat /\ sp' \in 0..MaxStack /\ extra_args' >= 0
  BY <1>1, <1>2
<1>5. TypeOK'
  BY <1>1, <1>2, <1>4 DEF TypeOK, handling, layout
<1>6. EntryFits' /\ FreshEntry'
  <2>1. sp' = Last(calls') + extra_args' + 1
    BY <1>1, <1>2 DEF layout
  <2> QED BY <1>1, <1>2, <1>4, <2>1 DEF EntryFits, FreshEntry, InTail, layout
<1>7. Base' <= sp' /\ m <= sp'
  <2>1. Base' = Last(calls) + extra_args'
    BY <1>1 DEF Base, layout
  <2> QED BY <1>1, <1>2, <1>3, <1>4, <2>1
<1>8. \A p \in pends : p.pos <= m
  BY <1>1, <1>3, InTailFacts
<1>9. (\A i \in 1..Len(traps) : traps[i].pos <= m) /\ Last(calls) <= m
  BY <1>1, <1>2, <1>3, InTailFacts
<1> QED BY <1>1, <1>5, <1>6, <1>7, <1>8, <1>9, SameFrames

-----------------------------------------------------------------------------
(* Calls and returns. *)

LEMMA FramedFacts ==
  ASSUME IInv, NEW n \in 1..3, Owns(n), sp + 3 <= MaxStack
  PROVE  /\ Framed(n) \in [1..MaxStack -> Int]
         /\ \A w \in 1..sp - n : Framed(n)[w] = stack[w]
         /\ Framed(n)[sp + 2 - n] = Env /\ Framed(n)[sp + 1 - n] = ValLong(extra_args)
         /\ sp + 3 - n \in 1..MaxStack
<1>1. /\ stack \in [1..MaxStack -> Int] /\ Env \in Int /\ ValLong(extra_args) \in Int
      /\ sp - n \in 0..MaxStack /\ MaxStack \in Nat /\ sp \in Nat
  BY LayoutTypes, WordsTyped, OwnsFacts DEF IInv
<1>2. /\ \A i \in sp + 4 - n .. sp + 3 : i - 3 \in 1..MaxStack
      /\ \A w \in 1..sp - n : /\ w \notin sp + 4 - n .. sp + 3
                              /\ w # sp + 2 - n /\ w # sp + 1 - n /\ w \in 1..MaxStack
      /\ sp + 2 - n \in 1..MaxStack /\ sp + 2 - n \notin sp + 4 - n .. sp + 3
      /\ sp + 1 - n \in 1..MaxStack /\ sp + 1 - n \notin sp + 4 - n .. sp + 3
      /\ sp + 1 - n # sp + 2 - n /\ sp + 3 - n \in 1..MaxStack
  BY <1>1
<1>3. Framed(n) \in [1..MaxStack -> Int]
  BY <1>1, <1>2 DEF Framed
<1>4. \A w \in 1..sp - n : Framed(n)[w] = stack[w]
  BY <1>2 DEF Framed
<1>5. Framed(n)[sp + 2 - n] = Env
  BY <1>2 DEF Framed
<1>6. Framed(n)[sp + 1 - n] = ValLong(extra_args)
  BY <1>2 DEF Framed
<1> QED BY <1>2, <1>3, <1>4, <1>5, <1>6

LEMMA applyNStep ==
  ASSUME IInv, NEW n \in Nat \ {0}, applyN(n)
  PROVE  IInv'
<1>1. /\ UNCHANGED <<handling, status, restored, traps, pends>>
      /\ Owns(n) /\ at = "body" /\ sp + 3 <= MaxStack /\ n \in 1..3
      /\ stack' = Framed(n) /\ sp' = sp + 3 /\ Env' \in Closures /\ extra_args' = n - 1
      /\ native' = native + 1 /\ at' = "entry" /\ calls' = Append(calls, sp + 3 - n)
  BY DEF applyN, CallClosure, ApplyGuard, Body
<1>2. /\ TypeOK /\ sp \in Nat /\ MaxStack \in Nat /\ extra_args \in Int
      /\ calls \in Seq(1..MaxStack) /\ native \in Nat /\ restored = 0
  BY <1>1, LayoutTypes, SMTT(60) DEF IInv, TypeOK, FreshEntry
<1>3. PICK c \in 1..MaxStack : c = sp + 3 - n
  BY <1>1, FramedFacts
<1>4. c - 3 = sp - n /\ c - 1 = sp + 2 - n /\ c - 2 = sp + 1 - n
  BY <1>1, <1>2, <1>3
<1>5. /\ stack' \in [1..MaxStack -> Int] /\ \A w \in 1..c - 3 : stack'[w] = stack[w]
      /\ stack'[c - 1] = Env /\ LongVal(stack'[c - 2]) = extra_args
  BY <1>1, <1>2, <1>4, FramedFacts, LongRoundTrip
<1>6. calls' \in Seq(1..MaxStack)
  BY <1>1, <1>2, <1>3, AppendFacts
<1>7. TypeOK'
  <2>1. sp' \in 0..MaxStack /\ extra_args' \in Nat /\ native' \in Nat
    BY <1>1, <1>2
  <2> QED BY <1>1, <1>2, <1>5, <1>6, <2>1 DEF TypeOK, handling
<1>8. /\ Base <= c - 3 /\ sp' = c + extra_args' + 1
      /\ \A i \in 1..Len(traps) : traps[i].pos <= c - 3
      /\ \A p \in pends' : p.pos <= c - 3
  <2>1. sp' = c + extra_args' + 1
    BY <1>1, <1>2, <1>3
  <2>2. /\ Base <= sp - n
        /\ \A i \in 1..Len(traps) : traps[i].pos <= sp - n
        /\ \A p \in pends : p.pos <= sp - n
    BY <1>1, OwnsFacts
  <2> QED BY <1>1, <1>4, <2>1, <2>2
<1>9. calls' = Append(calls, c) /\ pends' \in SUBSET pends /\ restored' = 0
  BY <1>1, <1>2, <1>3
<1> QED BY <1>1, <1>5, <1>7, <1>8, <1>9, CallStep

LEMMA applyStep ==
  ASSUME IInv, NEW n \in Nat \ {0}, apply(n)
  PROVE  IInv'
<1>1. /\ UNCHANGED <<stack, sp, handling, status, restored, traps>>
      /\ Owns(n) /\ at = "body" /\ Env' \in Closures /\ extra_args' = n - 1
      /\ native' = native + 1 /\ at' = "entry"
  BY DEF apply, CallClosure, Body
<1>2. PICK p \in pends : /\ p.pos = sp - n /\ p.calls = Len(calls)
                         /\ pends' = pends \ {p} /\ calls' = Append(calls, p.pos)
  BY DEF apply
<1>3. /\ TypeOK /\ sp \in Nat /\ MaxStack \in Nat /\ extra_args \in Nat
      /\ calls \in Seq(1..MaxStack) /\ native \in Nat /\ restored = 0
  BY <1>1, LayoutTypes DEF IInv, TypeOK, FreshEntry
<1>4. /\ p \in [pos : 1..MaxStack, calls : Nat] /\ p.pos \in 1..MaxStack
      /\ PendHolds(p) /\ Base + 3 <= p.pos /\ Base \in Nat
  BY <1>1, <1>2, <1>3, LayoutTypes, FramesHold, FramesBelow, OwnsFacts
<1>5. PICK c \in 1..MaxStack : c = p.pos
  BY <1>4
<1>6. stack'[c - 1] = Env /\ LongVal(stack'[c - 2]) = extra_args
  BY <1>1, <1>2, <1>4, <1>5 DEF PendHolds, EnvOf, ExtraOf
<1>7. calls' = Append(calls, c) /\ calls' \in Seq(1..MaxStack) /\ pends' \in SUBSET pends
  BY <1>2, <1>3, <1>5, AppendFacts
<1>8. TypeOK'
  <2>1. extra_args' \in Nat /\ native' \in Nat
    BY <1>1, <1>3
  <2> QED BY <1>1, <1>3, <1>7, <2>1 DEF TypeOK, handling
<1>9. Base <= c - 3 /\ sp' = c + extra_args' + 1
  BY <1>1, <1>2, <1>3, <1>4, <1>5
<1>10. \A i \in 1..Len(traps) : traps[i].pos <= c - 3
  <2> SUFFICES ASSUME NEW i \in 1..Len(traps) PROVE traps[i].pos <= c - 3
    OBVIOUS
  <2>1. traps[i].pos \in Nat /\ traps[i].pos <= c
    BY <1>1, <1>2, <1>3, <1>5, LayoutTypes, OwnsFacts
  <2>2. c <= traps[i].pos - 4 \/ traps[i].pos <= c - 3
    BY <1>2, <1>5 DEF IInv, TrapsPendsApart
  <2> QED BY <2>1, <2>2
<1>11. \A q \in pends' : q.pos <= c - 3
  <2> SUFFICES ASSUME NEW q \in pends' PROVE q.pos <= c - 3
    OBVIOUS
  <2>1. q \in pends /\ q # p
    BY <1>2
  <2>2. q.pos \in Nat /\ q.pos <= c
    BY <1>1, <1>2, <1>3, <1>5, <2>1, LayoutTypes, OwnsFacts
  <2>3. q.pos <= c - 3 \/ c <= q.pos - 3
    BY <1>2, <1>5, <2>1 DEF IInv, PendsFit
  <2> QED BY <2>2, <2>3
<1>12. \A w \in 1..c - 3 : stack'[w] = stack[w]
  BY <1>1
<1>13. restored' = 0
  BY <1>1, <1>3
<1> QED BY <1>1, <1>6, <1>7, <1>8, <1>9, <1>10, <1>11, <1>12, <1>13, CallStep

LEMMA GrabPartialStep ==
  ASSUME IInv, NEW n \in Nat, GrabPartial(n)
  PROVE  IInv'
<1>1. at = "entry" /\ PopFrame(sp - (1 + extra_args)) /\ restored' = 0
  BY DEF GrabPartial, createRestartClosure, Entry
<1>2. sp - (1 + extra_args) = Last(calls) /\ InTail
  BY <1>1, EntryFacts
<1>3. /\ UNCHANGED <<stack, handling, traps, pends, status>>
      /\ native' = native - 1 /\ calls' = Front(calls)
      /\ Env' = stack[Last(calls) - 1] /\ extra_args' = LongVal(stack[Last(calls) - 2])
      /\ sp' = Last(calls) - 3 /\ at' = "body"
  BY <1>1, <1>2 DEF PopFrame
<1> QED BY <1>1, <1>2, <1>3, ReturnStep

LEMMA ReturnToCallerStep ==
  ASSUME IInv, ReturnToCaller
  PROVE  IInv'
<1>1. /\ at = "body" /\ InTail /\ PopFrame(Base) /\ restored' = restored
      /\ extra_args <= 0
  BY DEF ReturnToCaller, Body
<1>2. Base = Last(calls) /\ restored = 0
  <2>1. extra_args \in Nat /\ Base = Last(calls) + extra_args /\ Last(calls) \in Nat
    BY <1>1, LayoutTypes, InTailFacts DEF IInv
  <2>2. restored = 0
    BY <1>1 DEF IInv, FreshEntry
  <2> QED BY <1>1, <2>1, <2>2
<1>3. /\ UNCHANGED <<stack, handling, traps, pends, status>>
      /\ native' = native - 1 /\ calls' = Front(calls)
      /\ Env' = stack[Last(calls) - 1] /\ extra_args' = LongVal(stack[Last(calls) - 2])
      /\ sp' = Last(calls) - 3 /\ at' = "body"
  BY <1>1, <1>2 DEF PopFrame
<1> QED BY <1>1, <1>2, <1>3, ReturnStep

-----------------------------------------------------------------------------
(* Raises, and the ends of the program. *)

LEMMA EndStep ==
  ASSUME IInv, UNCHANGED <<machine, handling, native, at, restored, layout>>,
         status' \in {"running", "stopped", "exit0", "fatal", "crash"}
  PROVE  IInv'
<1>1. UNCHANGED <<stack, sp, Env, extra_args, caml_trapsp, Buffers, CurrentBufferIndex,
                  NextExceptionContext, caml_external_raise, native, at, restored,
                  calls, traps, pends>>
  BY DEF machine, handling, layout
<1>2. TypeOK'
  BY <1>1 DEF IInv, TypeOK
<1>3. \A k : /\ Floor(k)' = Floor(k) /\ Ceiling(k)' = Ceiling(k)
             /\ EnvOf(k)' = EnvOf(k) /\ ExtraOf(k)' = ExtraOf(k)
  BY <1>1 DEF Floor, Ceiling, EnvOf, ExtraOf
<1>4. Depths' = Depths
  BY <1>1 DEF Depths
<1>5. ReturnFramesOrdered' /\ ActivationsFit' /\ EntryFits' /\ FreshEntry' /\ SavedTyped'
  BY <1>1, <1>3, <1>4
  DEF IInv, ReturnFramesOrdered, ActivationsFit, EntryFits, FreshEntry, InTail, SavedTyped
<1>6. TrapsFit' /\ PendsFit' /\ TrapsPendsApart'
  BY <1>1, <1>3, <1>4 DEF IInv, TrapsFit, PendsFit, TrapsPendsApart, LiesIn
<1>7. TrapChain' /\ ContextChain' /\ SavedContexts' /\ NativeLockstep'
  BY <1>1, <1>3 DEF IInv, TrapChain, ContextChain, SavedContexts, NativeLockstep
<1> QED BY <1>2, <1>5, <1>6, <1>7 DEF IInv

LEMMA RaiseFromCStep ==
  ASSUME IInv, NEW memory, RaiseFromC(memory), KeepsTraps(memory)
  PROVE  IInv'
<1>1. CASE End("fatal")
  BY <1>1, EndStep DEF End
<1>2. CASE End("crash")
  BY <1>2, EndStep DEF End
<1>3. CASE caml_external_raise >= 0 /\ Unwind(caml_external_raise, memory)
  BY <1>3, UnwindStep
<1> QED BY <1>1, <1>2, <1>3 DEF RaiseFromC

LEMMA ThrowCaughtStep ==
  ASSUME IInv, ThrowCaught
  PROVE  IInv'
<1>1. /\ NextExceptionContext \in -1..MaxTraps - 1 /\ stack \in [1..MaxStack -> Int]
      /\ MaxTraps \in Nat
  BY BoundsAssumption DEF IInv, TypeOK
<1>2. NextExceptionContext # -1 /\ Unwind(NextExceptionContext, stack)
  BY DEF ThrowCaught, NULL
<1>3. NextExceptionContext >= 0
  BY <1>1, <1>2
<1> QED BY <1>1, <1>2, <1>3, UnwindStep DEF KeepsTraps

LEMMA CRaiseMemory ==
  ASSUME IInv, CRaise
  PROVE  RaiseFromC(Saved) /\ KeepsTraps(Saved)
<1>1. /\ RaiseFromC(Saved) /\ Saved \in [1..MaxStack -> Int]
      /\ \A w \in 1..sp : Saved[w] = stack[w]
  BY SavedFacts DEF CRaise
<1>2. \A w \in 1..MaxStack :
        \A i \in 1..Len(traps) : w <= traps[i].pos => Saved[w] = stack[w]
  <2> SUFFICES ASSUME NEW w \in 1..MaxStack, NEW i \in 1..Len(traps), w <= traps[i].pos
               PROVE  Saved[w] = stack[w]
    OBVIOUS
  <2>1. traps[i].pos \in Nat /\ traps[i].pos \in 4..sp /\ sp \in Nat
    BY LayoutTypes, FramesBelow DEF IInv
  <2>2. w \in 1..sp
    BY <2>1
  <2> QED BY <1>1, <2>2
<1> QED BY <1>1, <1>2 DEF KeepsTraps

LEMMA OverflowInApplyMemory ==
  ASSUME IInv, NEW n \in Nat \ {0}, OverflowInApply(n)
  PROVE  RaiseFromC(Framed(n)) /\ KeepsTraps(Framed(n))
<1>1. Owns(n) /\ n \in 1..3 /\ sp + 3 <= MaxStack /\ RaiseFromC(Framed(n))
  BY DEF OverflowInApply, ApplyGuard
<1>2. \A w \in 1..MaxStack :
        \A i \in 1..Len(traps) : w <= traps[i].pos => Framed(n)[w] = stack[w]
  <2> SUFFICES ASSUME NEW w \in 1..MaxStack, NEW i \in 1..Len(traps), w <= traps[i].pos
               PROVE  Framed(n)[w] = stack[w]
    OBVIOUS
  <2>1. traps[i].pos \in Nat /\ traps[i].pos <= sp - n /\ sp - n \in Int
    BY <1>1, LayoutTypes, OwnsFacts DEF IInv
  <2>2. w \in 1..sp - n
    BY <2>1
  <2> QED BY <1>1, <2>2, FramedFacts
<1> QED BY <1>1, <1>2, FramedFacts DEF KeepsTraps

LEMMA OverflowInAppTermMemory ==
  ASSUME IInv, NEW n \in Nat \ {0}, OverflowInAppTerm(n)
  PROVE  RaiseFromC(Slid(n)) /\ KeepsTraps(Slid(n))
<1>1. Owns(n) /\ InTail /\ RaiseFromC(Slid(n)) /\ n \in Nat
  BY DEF OverflowInAppTerm, AppTermGuard
<1>2. \A w \in 1..MaxStack :
        \A i \in 1..Len(traps) : w <= traps[i].pos => Slid(n)[w] = stack[w]
  <2> SUFFICES ASSUME NEW w \in 1..MaxStack, NEW i \in 1..Len(traps), w <= traps[i].pos
               PROVE  Slid(n)[w] = stack[w]
    OBVIOUS
  <2>1. /\ traps[i].pos \in Nat /\ traps[i].pos <= Last(calls)
        /\ Base = Last(calls) + extra_args /\ Last(calls) \in Nat /\ extra_args \in Nat
    BY <1>1, LayoutTypes, InTailFacts DEF IInv
  <2>2. w \in 1..Base
    BY <2>1
  <2> QED BY <1>1, <2>2, SlidFacts
<1> QED BY <1>1, <1>2, SlidFacts DEF KeepsTraps

LEMMA CRaiseStep ==
  ASSUME IInv, CRaise
  PROVE  IInv'
BY CRaiseMemory, RaiseFromCStep

LEMMA OverflowInApplyStep ==
  ASSUME IInv, NEW n \in Nat \ {0}, OverflowInApply(n)
  PROVE  IInv'
BY OverflowInApplyMemory, RaiseFromCStep

LEMMA OverflowInAppTermStep ==
  ASSUME IInv, NEW n \in Nat \ {0}, OverflowInAppTerm(n)
  PROVE  IInv'
BY OverflowInAppTermMemory, RaiseFromCStep

-----------------------------------------------------------------------------
LEMMA InitInv == Init => IInv
<1> SUFFICES ASSUME Init PROVE IInv
  OBVIOUS
<1>1. /\ sp = 0 /\ Env = 0 /\ extra_args = 0 /\ caml_trapsp = 0 /\ native = 1
      /\ CurrentBufferIndex = 0 /\ NextExceptionContext = -1 /\ caml_external_raise = -1
      /\ status = "running" /\ at = "body" /\ restored = 0
      /\ calls = <<>> /\ traps = <<>> /\ pends = {}
      /\ stack = [i \in 1..MaxStack |-> 0]
      /\ Buffers = [i \in 0..MaxTraps - 1 |-> [Next |-> -1, native |-> 0]]
  BY DEF Init, NULL
<1>2. Len(calls) = 0 /\ Len(traps) = 0 /\ Depths = {0}
  BY <1>1 DEF Depths
<1>3. MaxStack \in Nat /\ MaxTraps \in Nat /\ MaxArgs \in Nat
  BY BoundsAssumption
<1>4. TypeOK
  BY <1>1, <1>3 DEF TypeOK
<1>5. Floor(0) = 0 /\ Ceiling(0) = 0 /\ EnvOf(0) = 0 /\ ExtraOf(0) = 0
  BY <1>1, <1>2 DEF Floor, Ceiling, EnvOf, ExtraOf
<1>6. ActivationsFit /\ SavedTyped
  BY <1>2, <1>5 DEF ActivationsFit, SavedTyped
<1>7. ReturnFramesOrdered /\ EntryFits /\ FreshEntry
  BY <1>1, <1>2 DEF ReturnFramesOrdered, EntryFits, FreshEntry
<1>8. TrapsFit /\ PendsFit /\ TrapsPendsApart /\ TrapChain /\ ContextChain /\ SavedContexts
  BY <1>1, <1>2
  DEF TrapsFit, PendsFit, TrapsPendsApart, TrapChain, ContextChain, SavedContexts
<1>9. NativeLockstep
  BY <1>1, <1>2 DEF NativeLockstep
<1> QED BY <1>4, <1>6, <1>7, <1>8, <1>9 DEF IInv

LEMMA NextInv == IInv /\ [Next]_vars => IInv'
<1> SUFFICES ASSUME IInv, [Next]_vars PROVE IInv'
  OBVIOUS
<1>1. CASE Push
  BY <1>1, PushStep
<1>2. CASE pushRetAddr
  BY <1>2, pushRetAddrStep
<1>3. ASSUME NEW n \in 1..MaxArgs,
             \/ Pop(n) \/ applyN(n) \/ apply(n) \/ appterm(n)
             \/ Grab(n) \/ GrabPartial(n) \/ Restart(n)
             \/ CCall(n) \/ OverflowInApply(n) \/ OverflowInAppTerm(n)
      PROVE  IInv'
  <2>1. n \in Nat \ {0} /\ n \in Nat
    BY BoundsAssumption
  <2> QED BY <1>3, <2>1, PopStep, applyNStep, applyStep, apptermStep, GrabStep,
             GrabPartialStep, RestartStep, CCallStep, OverflowInApplyStep,
             OverflowInAppTermStep
<1>4. CASE EnterUnary
  BY <1>4, EnterUnaryStep
<1>5. CASE ReturnInto
  BY <1>5, ReturnIntoStep
<1>6. CASE ReturnToCaller
  BY <1>6, ReturnToCallerStep
<1>7. CASE PushTrap
  BY <1>7, PushTrapStep
<1>8. CASE PopTrap
  BY <1>8, PopTrapStep
<1>9. CASE ThrowCaught
  BY <1>9, ThrowCaughtStep
<1>10. CASE ThrowUncaught
  BY <1>10, EndStep DEF ThrowUncaught, End
<1>11. CASE CRaise
  BY <1>11, CRaiseStep
<1>12. CASE Stop
  BY <1>12, EndStep DEF Stop, End
<1>13. CASE UNCHANGED vars
  <2>1. status' = status /\ status \in {"running", "stopped", "exit0", "fatal", "crash"}
    BY <1>13 DEF vars, IInv, TypeOK
  <2> QED BY <1>13, <2>1, EndStep DEF vars
<1> QED BY <1>1, <1>2, <1>3, <1>4, <1>5, <1>6, <1>7, <1>8, <1>9, <1>10, <1>11, <1>12,
           <1>13 DEF Next

-----------------------------------------------------------------------------
(* What a step may write. *)
Untouched ==
  /\ \A i \in (1..Len(calls)) \cap (1..Len(calls')) :
       \A w \in {calls[i] - 1, calls[i] - 2} : stack'[w] = stack[w]
  /\ \A i \in (1..Len(traps)) \cap (1..Len(traps')) :
       \A w \in traps[i].pos - 3 .. traps[i].pos - 1 : stack'[w] = stack[w]

\* Depth f is above every frame, and the words up to it are as they were.
LEMMA WritesAbove ==
  ASSUME IInv, NEW f \in Int,
         calls # <<>> => Last(calls) <= f,
         \A i \in 1..Len(traps) : traps[i].pos <= f,
         \A w \in 1..MaxStack : w <= f => stack'[w] = stack[w]
  PROVE  Untouched
<1>1. /\ TypeOK /\ MaxStack \in Nat /\ Len(calls) \in Nat
      /\ calls # <<>> <=> Len(calls) # 0
      /\ \A i \in 1..Len(calls) : calls[i] \in 1..MaxStack
      /\ \A i \in 1..Len(traps) : traps[i].pos \in 1..MaxStack
  BY LayoutTypes DEF IInv
<1>2. ASSUME NEW i \in 1..Len(calls), NEW w \in {calls[i] - 1, calls[i] - 2}
      PROVE  stack'[w] = stack[w]
  <2>1. calls[i] \in 3..Last(calls) /\ calls[i] \in 1..MaxStack /\ calls # <<>>
    BY <1>1, FramesBelow
  <2>2. Last(calls) \in Int /\ Last(calls) <= f
    BY <1>1, <2>1 DEF Last
  <2>3. w \in 1..MaxStack /\ w <= f
    BY <1>1, <2>1, <2>2
  <2> QED BY <2>3
<1>3. ASSUME NEW i \in 1..Len(traps), NEW w \in traps[i].pos - 3 .. traps[i].pos - 1
      PROVE  stack'[w] = stack[w]
  <2>1. traps[i].pos \in 4..sp /\ traps[i].pos \in 1..MaxStack /\ traps[i].pos <= f
    BY <1>1, FramesBelow
  <2>2. w \in 1..MaxStack /\ w <= f
    BY <1>1, <2>1
  <2> QED BY <2>2
<1> QED BY <1>2, <1>3 DEF Untouched

\* The memory an instruction leaves, before CHECK_STACKS or a primitive raises.
LEMMA MemoryKept ==
  ASSUME IInv
  PROVE  /\ \A n \in Nat : n <= 3 => \A w \in 1..MaxStack : w <= sp - n => Framed(n)[w] = stack[w]
         /\ InTail => \A n \in Nat, w \in 1..MaxStack : w <= Last(calls) => Slid(n)[w] = stack[w]
         /\ \A w \in 1..MaxStack : w <= sp => Saved[w] = stack[w]
<1>1. TypeOK /\ sp \in Nat /\ MaxStack \in Nat /\ stack \in [1..MaxStack -> Int]
  BY LayoutTypes DEF IInv, TypeOK
<1>2. ASSUME NEW n \in Nat, n <= 3, NEW w \in 1..MaxStack, w <= sp - n
      PROVE  Framed(n)[w] = stack[w]
  <2>1. w \notin sp + 4 - n .. sp + 3 /\ w # sp + 2 - n /\ w # sp + 1 - n
    BY <1>1, <1>2
  <2> QED BY <2>1 DEF Framed
<1>3. ASSUME InTail, NEW n \in Nat, NEW w \in 1..MaxStack, w <= Last(calls)
      PROVE  Slid(n)[w] = stack[w]
  <2>1. Base \in Nat /\ Last(calls) \in Nat /\ Last(calls) <= Base
    BY <1>1, <1>3, InTailFacts, LayoutTypes
  <2>2. w \notin Base + 1 .. Base + n
    BY <1>3, <2>1
  <2> QED BY <2>2 DEF Slid
<1>4. ASSUME NEW w \in 1..MaxStack, w <= sp PROVE Saved[w] = stack[w]
  BY <1>1, <1>4 DEF Saved
<1> QED BY <1>2, <1>3, <1>4

LEMMA SameStack == IInv /\ stack' = stack => Untouched
  BY DEF Untouched

LEMMA RaiseKeeps ==
  ASSUME IInv, NEW memory, RaiseFromC(memory)
  PROVE  stack' = stack \/ stack' = memory
  BY DEF RaiseFromC, End, Unwind, machine

LEMMA NextUntouched == IInv /\ [Next]_vars => Untouched
<1> SUFFICES ASSUME IInv, [Next]_vars PROVE Untouched
  OBVIOUS
<1>0. /\ TypeOK /\ sp \in Nat /\ sp - 0 = sp /\ MaxStack \in Nat
      /\ stack \in [1..MaxStack -> Int] /\ Owns(0)
      /\ calls # <<>> => Last(calls) <= sp
      /\ \A i \in 1..Len(traps) : traps[i].pos <= sp
  <2>1. TypeOK /\ sp \in Nat /\ MaxStack \in Nat /\ stack \in [1..MaxStack -> Int]
    BY LayoutTypes DEF IInv, TypeOK
  <2>2. Owns(0) /\ sp - 0 = sp /\ 0 \in Nat
    BY <2>1, TopFacts
  <2> QED BY <2>1, <2>2, OwnsFacts
<1>1. ASSUME \A w \in 1..MaxStack : w <= sp => stack'[w] = stack[w] PROVE Untouched
  BY <1>0, <1>1, WritesAbove
<1>2. CASE Push
  <2>1. \A w \in 1..MaxStack : w <= sp => stack'[w] = stack[w]
    BY <1>0, <1>2 DEF Push
  <2> QED BY <1>1, <2>1
<1>3. CASE pushRetAddr
  <2>1. ASSUME NEW w \in 1..MaxStack, w <= sp PROVE stack'[w] = stack[w]
    <3>1. stack' = [stack EXCEPT ![sp + 3] = ValLong(0), ![sp + 2] = Env,
                                 ![sp + 1] = ValLong(extra_args)]
      BY <1>3 DEF pushRetAddr
    <3>2. w # sp + 3 /\ w # sp + 2 /\ w # sp + 1 /\ w \in Int
      BY <1>0, <2>1
    <3>3. stack \in [1..MaxStack -> Int]
      BY <1>0
    <3> QED BY ONLY <3>1, <3>2, <3>3, w \in 1..MaxStack
  <2> QED BY <1>1, <2>1
<1>4. ASSUME NEW n \in 1..MaxArgs,
             Pop(n) \/ apply(n) \/ Grab(n) \/ GrabPartial(n)
      PROVE  Untouched
  BY <1>4, SameStack DEF Pop, apply, Grab, GrabPartial, createRestartClosure, PopFrame
<1>5. ASSUME NEW n \in 1..MaxArgs, applyN(n) \/ OverflowInApply(n) PROVE Untouched
  <2>1. n \in Nat /\ n <= 3 /\ Owns(n) /\ (stack' = stack \/ stack' = Framed(n))
    BY <1>5, RaiseKeeps, BoundsAssumption DEF applyN, OverflowInApply, ApplyGuard
  <2>2. \A w \in 1..MaxStack : w <= sp - n => stack'[w] = stack[w]
    BY <2>1, MemoryKept
  <2>3. /\ sp - n \in Int
        /\ calls # <<>> => Last(calls) <= sp - n
        /\ \A i \in 1..Len(traps) : traps[i].pos <= sp - n
    <3>1. sp - n \in Int
      BY <1>0, <2>1
    <3> QED BY <2>1, <3>1, OwnsFacts
  <2> QED BY <2>2, <2>3, WritesAbove
<1>6. ASSUME NEW n \in 1..MaxArgs, appterm(n) \/ OverflowInAppTerm(n) PROVE Untouched
  <2>1. n \in Nat /\ InTail /\ (stack' = stack \/ stack' = Slid(n))
    BY <1>6, RaiseKeeps, BoundsAssumption DEF appterm, OverflowInAppTerm, AppTermGuard
  <2>2. \A w \in 1..MaxStack : w <= Last(calls) => stack'[w] = stack[w]
    BY <2>1, MemoryKept
  <2>3. /\ Last(calls) \in Int
        /\ \A i \in 1..Len(traps) : traps[i].pos <= Last(calls)
    BY <2>1, InTailFacts
  <2> QED BY <2>2, <2>3, WritesAbove
<1>7. ASSUME NEW n \in 1..MaxArgs, Restart(n) PROVE Untouched
  <2>1. \A w \in 1..MaxStack : w <= sp => stack'[w] = stack[w]
    BY <1>0, <1>7 DEF Restart, restart
  <2> QED BY <1>1, <2>1
<1>8. ASSUME NEW n \in 1..MaxArgs, CCall(n) PROVE Untouched
  <2>1. \A w \in 1..MaxStack : w <= sp => stack'[w] = stack[w]
    BY <1>8, MemoryKept DEF CCall
  <2> QED BY <1>1, <2>1
<1>9. CASE PushTrap
  <2>1. \A w \in 1..MaxStack : w <= sp => stack'[w] = stack[w]
    BY <1>0, <1>9 DEF PushTrap, pushTrap
  <2> QED BY <1>1, <2>1
<1>10. CASE CRaise
  <2>1. stack' = stack \/ stack' = Saved
    BY <1>10, RaiseKeeps DEF CRaise
  <2>2. \A w \in 1..MaxStack : w <= sp => stack'[w] = stack[w]
    BY <2>1, MemoryKept
  <2> QED BY <1>1, <2>2
<1>11. CASE \/ EnterUnary \/ ReturnInto \/ ReturnToCaller \/ PopTrap \/ ThrowCaught
            \/ ThrowUncaught \/ Stop \/ UNCHANGED vars
  <2>1. stack' = stack
    BY <1>11 DEF EnterUnary, ReturnInto, ReturnToCaller, PopFrame, PopTrap, ThrowCaught,
                 Unwind, ThrowUncaught, Stop, End, machine, vars
  <2> QED BY <2>1, SameStack
<1> QED BY <1>2, <1>3, <1>4, <1>5, <1>6, <1>7, <1>8, <1>9, <1>10, <1>11 DEF Next

-----------------------------------------------------------------------------
\* What APPLY and the tail calls put in Env, and GRAB keeps there.
EnteredByClosure == at = "entry" => Env \in Closures

LEMMA EnteredNext ==
  ASSUME EnteredByClosure, [Next]_vars
  PROVE  EnteredByClosure'
<1>1. CASE UNCHANGED vars
  BY <1>1 DEF vars, machine, EnteredByClosure
<1>2. ASSUME NEW n \in 1..MaxArgs,
             \/ Pop(n) \/ applyN(n) \/ apply(n) \/ appterm(n)
             \/ Grab(n) \/ GrabPartial(n) \/ Restart(n) \/ CCall(n)
      PROVE  EnteredByClosure'
  BY <1>2 DEF Pop, applyN, apply, appterm, Grab, GrabPartial, createRestartClosure, PopFrame,
              Restart, CCall, CallClosure, TailCallClosure, Body, ApplyGuard, AppTermGuard,
              EnteredByClosure
<1>3. CASE \/ Push \/ pushRetAddr \/ EnterUnary \/ ReturnInto \/ ReturnToCaller
           \/ PushTrap \/ PopTrap
  BY <1>3 DEF Push, pushRetAddr, EnterUnary, ReturnInto, ReturnToCaller, PushTrap, PopTrap,
              PopFrame, TailCallClosure, Body, EnteredByClosure
<1>4. ASSUME NEW memory, RaiseFromC(memory) PROVE EnteredByClosure'
  BY <1>4 DEF RaiseFromC, End, Unwind, machine, EnteredByClosure
<1>5. CASE ThrowCaught \/ ThrowUncaught \/ CRaise \/ Stop
  BY <1>4, <1>5 DEF ThrowCaught, ThrowUncaught, CRaise, Stop, End, Unwind, machine,
                    EnteredByClosure
<1>6. ASSUME NEW n \in 1..MaxArgs, OverflowInApply(n) \/ OverflowInAppTerm(n)
      PROVE  EnteredByClosure'
  BY <1>4, <1>6 DEF OverflowInApply, OverflowInAppTerm
<1> QED BY <1>1, <1>2, <1>3, <1>5, <1>6 DEF Next

-----------------------------------------------------------------------------
(* The invariants hold together in every state of every run of the machine,
   whatever the program, the size of the stack and the number of handlers. *)
THEOREM Invariance == Spec => []IInv
  BY InitInv, NextInv, PTL DEF Spec

(* The registers and the words of the stack keep their types: what a return or
   a raise loads into Env and extra_args (ReturnToCaller, getExceptionValue) is
   an environment and a count. *)
THEOREM TypeCorrect == Spec => []TypeOK
<1>1. IInv => TypeOK
  BY DEF IInv
<1> QED BY <1>1, Invariance, PTL

(* apply, appterm, GRAB, RESTART and handleReturn leave each activation its own
   words of the stack, and its arguments where the next function looks. *)
THEOREM LayoutCorrect == Spec => []StackLayout
<1>1. IInv => StackLayout
  BY DEF IInv, StackLayout
<1> QED BY <1>1, Invariance, PTL

(* pushTrap, popTrap and getExceptionValue keep caml_trapsp and the links of
   the trap frames a list of the installed handlers. *)
THEOREM TrapChainCorrect == Spec => []TrapChain
<1>1. IInv => TrapChain
  BY DEF IInv
<1> QED BY <1>1, Invariance, PTL

(* getNewBuffer and removeExceptionContext keep the jump buffers in step with
   the trap frames, each leading back to the function that installed it. *)
THEOREM ContextChainCorrect == Spec => []ContextChain
<1>1. IInv => ContextChain
  BY DEF IInv
<1> QED BY <1>1, Invariance, PTL

(* Trap frames and pending return frames hold the registers of the activation
   they belong to, whatever runs above them. *)
THEOREM SavedContextsCorrect == Spec => []SavedContexts
<1>1. IInv => SavedContexts
  BY DEF IInv
<1> QED BY <1>1, Invariance, PTL

(* The frames of compiled functions on the C stack are those of the OCaml
   calls: calls and returns of LLVM code and siglongjmp stay in step. *)
THEOREM NativeCorrect == Spec => []NativeLockstep
<1>1. IInv => NativeLockstep
  BY DEF IInv
<1> QED BY <1>1, Invariance, PTL

(* Whatever an instruction writes, it leaves the saved words of the return and
   trap frames below it alone, those an instruction pushes on, slides arguments
   over or raises from included. *)
THEOREM SavedWordsUntouched == Spec => FramesUntouched
<1>1. IInv /\ [Next]_vars => [Untouched]_vars
  BY NextUntouched
<1> QED BY <1>1, Invariance, PTL DEF Spec, FramesUntouched, Untouched

-----------------------------------------------------------------------------
(* ZamControl implements Activations.  The words saved in frames are the records
   of suspended activations and handlers: an instruction that leaves those words
   alone leaves the records alone, and the invariants above say what the words of
   the topmost frame are. *)

\* The sequences that stand for A's calls and handlers
CallAt(c) == [env |-> stack[c - 1], extra |-> LongVal(stack[c - 2])]

HandlerAt(t) ==
  [depth |-> t.calls, env |-> stack[t.pos - 2], extra |-> LongVal(stack[t.pos - 3])]

AbsCalls    == [i \in 1..Len(calls) |-> CallAt(calls[i])]
AbsHandlers == [i \in 1..Len(traps) |-> HandlerAt(traps[i])]
AbsOutcome  == IF status \in {"running", "stopped"} THEN status ELSE "uncaught"

Records  == [env : Int, extra : Int]
Handlers == [depth : Nat, env : Int, extra : Int]

AbsTyping ==
  /\ AbsCalls \in Seq(Records) /\ Len(AbsCalls) = Len(calls)
  /\ AbsHandlers \in Seq(Handlers) /\ Len(AbsHandlers) = Len(traps)

LEMMA AbsTypes ==
  ASSUME IInv
  PROVE  /\ AbsTyping
         /\ Len(calls) \in Nat /\ Len(traps) \in Nat
         /\ AbsCalls # <<>> <=> calls # <<>>
         /\ AbsHandlers # <<>> <=> traps # <<>>
         /\ \A i \in 1..Len(calls) : AbsCalls[i] = CallAt(calls[i])
         /\ \A i \in 1..Len(traps) : AbsHandlers[i] = HandlerAt(traps[i])
<1>1. /\ TypeOK /\ Len(calls) \in Nat /\ Len(traps) \in Nat
      /\ stack \in [1..MaxStack -> Int] /\ MaxStack \in Nat
      /\ (calls # <<>> <=> Len(calls) # 0) /\ (traps # <<>> <=> Len(traps) # 0)
  BY LayoutTypes DEF IInv, TypeOK
<1>2. ASSUME NEW i \in 1..Len(calls) PROVE CallAt(calls[i]) \in Records
  <2>1. calls[i] - 1 \in 1..MaxStack /\ calls[i] - 2 \in 1..MaxStack
    BY OrderedCalls, <1>1
  <2> QED BY <1>1, <2>1, LongTyped DEF CallAt, Records
<1>3. ASSUME NEW i \in 1..Len(traps) PROVE HandlerAt(traps[i]) \in Handlers
  <2>1. /\ traps[i].pos \in 4..sp /\ sp \in 0..MaxStack /\ traps[i].pos \in Nat
        /\ traps[i].calls \in Nat
    BY <1>1, LayoutTypes, FramesBelow DEF TypeOK
  <2>2. traps[i].pos - 2 \in 1..MaxStack /\ traps[i].pos - 3 \in 1..MaxStack
    <3>1. MaxStack \in Nat /\ traps[i].pos \in 4..sp /\ sp \in 0..MaxStack
      BY <1>1, <2>1
    <3> QED BY ONLY <3>1
  <2> QED BY <1>1, <2>1, <2>2, LongTyped DEF HandlerAt, Handlers
<1>4. AbsCalls \in Seq(Records) /\ Len(AbsCalls) = Len(calls)
  BY <1>1, <1>2 DEF AbsCalls
<1>5. AbsHandlers \in Seq(Handlers) /\ Len(AbsHandlers) = Len(traps)
  BY <1>1, <1>3 DEF AbsHandlers
<1>6. /\ \A i \in 1..Len(calls) : AbsCalls[i] = CallAt(calls[i])
      /\ \A i \in 1..Len(traps) : AbsHandlers[i] = HandlerAt(traps[i])
  BY DEF AbsCalls, AbsHandlers
<1>7. (AbsCalls # <<>> <=> calls # <<>>) /\ (AbsHandlers # <<>> <=> traps # <<>>)
  BY <1>1, <1>4, <1>5, EmptyFacts
<1> QED BY <1>1, <1>4, <1>5, <1>6, <1>7 DEF AbsTyping

LEMMA AbsTypesNext == IInv' => AbsTyping'
<1>1. IInv => AbsTyping
  BY AbsTypes
<1> QED BY <1>1, PTL

-----------------------------------------------------------------------------
(* What a step does to the records, from what it does to the frames. *)
LEMMA RecordsKept ==
  ASSUME IInv, Untouched
  PROVE  /\ \A i \in (1..Len(calls)) \cap (1..Len(calls')) :
              calls'[i] = calls[i] => AbsCalls'[i] = AbsCalls[i]
         /\ \A i \in (1..Len(traps)) \cap (1..Len(traps')) :
              traps'[i] = traps[i] => AbsHandlers'[i] = AbsHandlers[i]
<1>1. ASSUME NEW i \in (1..Len(calls)) \cap (1..Len(calls')), calls'[i] = calls[i]
      PROVE  AbsCalls'[i] = AbsCalls[i]
  <2>1. stack'[calls[i] - 1] = stack[calls[i] - 1] /\ stack'[calls[i] - 2] = stack[calls[i] - 2]
    BY DEF Untouched
  <2> QED BY <1>1, <2>1 DEF AbsCalls, CallAt
<1>2. ASSUME NEW i \in (1..Len(traps)) \cap (1..Len(traps')), traps'[i] = traps[i]
      PROVE  AbsHandlers'[i] = AbsHandlers[i]
  <2>1. traps[i].pos \in Nat
    BY LayoutTypes DEF IInv
  <2>2. /\ traps[i].pos - 2 \in traps[i].pos - 3 .. traps[i].pos - 1
        /\ traps[i].pos - 3 \in traps[i].pos - 3 .. traps[i].pos - 1
    BY ONLY <2>1
  <2>3. /\ stack'[traps[i].pos - 2] = stack[traps[i].pos - 2]
        /\ stack'[traps[i].pos - 3] = stack[traps[i].pos - 3]
    BY <2>2 DEF Untouched
  <2> QED BY <1>2, <2>3 DEF AbsHandlers, HandlerAt
<1> QED BY <1>1, <1>2

LEMMA CallsSame ==
  ASSUME IInv, Untouched, calls' = calls
  PROVE  AbsCalls' = AbsCalls
<1>1. \A i \in 1..Len(calls) : CallAt(calls[i])' = CallAt(calls[i])
  BY DEF Untouched, CallAt
<1> QED BY <1>1 DEF AbsCalls

LEMMA HandlersSame ==
  ASSUME IInv, Untouched, traps' = traps
  PROVE  AbsHandlers' = AbsHandlers
<1>1. \A i \in 1..Len(traps) : AbsHandlers'[i] = AbsHandlers[i]
  BY RecordsKept
<1> QED BY <1>1 DEF AbsHandlers

LEMMA CallPushed ==
  ASSUME IInv, IInv', Untouched, NEW c \in 1..MaxStack, calls' = Append(calls, c),
         stack'[c - 1] = Env, LongVal(stack'[c - 2]) = extra_args
  PROVE  AbsCalls' = Append(AbsCalls, [env |-> Env, extra |-> extra_args])
<1> DEFINE e == [env |-> Env, extra |-> extra_args]
<1>1. /\ calls \in Seq(1..MaxStack) /\ TypeOK
      /\ AbsCalls \in Seq(Records) /\ Len(AbsCalls) = Len(calls) /\ Len(calls) \in Nat
      /\ AbsCalls' \in Seq(Records) /\ Len(AbsCalls') = Len(calls')
  <2>1. TypeOK /\ AbsTyping /\ AbsTyping' /\ Len(calls) \in Nat
    BY AbsTypes, AbsTypesNext DEF IInv
  <2> QED BY <2>1 DEF TypeOK, AbsTyping
<1>2. /\ Len(calls') = Len(calls) + 1 /\ calls'[Len(calls) + 1] = c
      /\ \A i \in 1..Len(calls) : calls'[i] = calls[i]
  BY <1>1, AppendFacts
<1>3. e \in Records
  <2>1. Env \in Int /\ extra_args \in Int
    BY <1>1, WordsTyped DEF TypeOK
  <2> QED BY <2>1 DEF Records
<1>4. /\ Append(AbsCalls, e) \in Seq(Records) /\ Len(Append(AbsCalls, e)) = Len(calls) + 1
      /\ \A i \in 1..Len(calls) : Append(AbsCalls, e)[i] = AbsCalls[i]
      /\ Append(AbsCalls, e)[Len(calls) + 1] = e
  BY <1>1, <1>3, AppendFacts
<1>5. ASSUME NEW i \in 1..Len(calls) PROVE AbsCalls'[i] = AbsCalls[i]
  <2>1. i \in 1..Len(calls') /\ calls'[i] = calls[i]
    BY <1>1, <1>2
  <2> QED BY <2>1, RecordsKept
<1>6. AbsCalls'[Len(calls) + 1] = e
  BY <1>1, <1>2 DEF AbsCalls, CallAt
<1>7. ASSUME NEW i \in 1..Len(calls) + 1 PROVE AbsCalls'[i] = Append(AbsCalls, e)[i]
  BY <1>1, <1>4, <1>5, <1>6
<1> HIDE DEF e
<1>8. AbsCalls' = Append(AbsCalls, e)
  BY <1>1, <1>2, <1>4, <1>7, SeqEqual
<1> QED BY <1>8 DEF e

LEMMA HandlerPushed ==
  ASSUME IInv, IInv', Untouched, NEW t \in [pos : 1..MaxStack, calls : Nat],
         traps' = Append(traps, t),
         stack'[t.pos - 2] = Env, LongVal(stack'[t.pos - 3]) = extra_args
  PROVE  AbsHandlers' =
           Append(AbsHandlers, [depth |-> t.calls, env |-> Env, extra |-> extra_args])
<1> DEFINE e == [depth |-> t.calls, env |-> Env, extra |-> extra_args]
<1>1. /\ traps \in Seq([pos : 1..MaxStack, calls : Nat]) /\ TypeOK
      /\ AbsHandlers \in Seq(Handlers) /\ Len(AbsHandlers) = Len(traps) /\ Len(traps) \in Nat
      /\ AbsHandlers' \in Seq(Handlers) /\ Len(AbsHandlers') = Len(traps')
  <2>1. TypeOK /\ AbsTyping /\ AbsTyping' /\ Len(traps) \in Nat
    BY AbsTypes, AbsTypesNext DEF IInv
  <2> QED BY <2>1 DEF TypeOK, AbsTyping
<1>2. /\ Len(traps') = Len(traps) + 1 /\ traps'[Len(traps) + 1] = t
      /\ \A i \in 1..Len(traps) : traps'[i] = traps[i]
  BY <1>1, AppendFacts
<1>3. e \in Handlers
  <2>1. Env \in Int /\ extra_args \in Int
    BY <1>1, WordsTyped, SMTT(30) DEF TypeOK
  <2>2. t.calls \in Nat
    OBVIOUS
  <2> QED BY <2>1, <2>2 DEF Handlers
<1>4. /\ Append(AbsHandlers, e) \in Seq(Handlers)
      /\ Len(Append(AbsHandlers, e)) = Len(traps) + 1
      /\ \A i \in 1..Len(traps) : Append(AbsHandlers, e)[i] = AbsHandlers[i]
      /\ Append(AbsHandlers, e)[Len(traps) + 1] = e
  BY <1>1, <1>3, AppendFacts
<1>5. ASSUME NEW i \in 1..Len(traps) PROVE AbsHandlers'[i] = AbsHandlers[i]
  <2>1. i \in 1..Len(traps') /\ traps'[i] = traps[i]
    BY <1>1, <1>2
  <2> QED BY <2>1, RecordsKept
<1>6. AbsHandlers'[Len(traps) + 1] = e
  BY <1>1, <1>2 DEF AbsHandlers, HandlerAt
<1>7. ASSUME NEW i \in 1..Len(traps) + 1 PROVE AbsHandlers'[i] = Append(AbsHandlers, e)[i]
  BY <1>1, <1>4, <1>5, <1>6
<1> HIDE DEF e
<1>8. AbsHandlers' = Append(AbsHandlers, e)
  BY <1>1, <1>2, <1>4, <1>7, SeqEqual
<1> QED BY <1>8 DEF e

LEMMA CallsCut ==
  ASSUME IInv, IInv', Untouched, NEW d \in 0..Len(calls), calls' = SubSeq(calls, 1, d)
  PROVE  AbsCalls' = SubSeq(AbsCalls, 1, d)
<1>1. /\ calls \in Seq(1..MaxStack)
      /\ AbsCalls \in Seq(Records) /\ Len(AbsCalls) = Len(calls) /\ Len(calls) \in Nat
      /\ AbsCalls' \in Seq(Records) /\ Len(AbsCalls') = Len(calls')
  <2>1. TypeOK /\ AbsTyping /\ AbsTyping' /\ Len(calls) \in Nat
    BY AbsTypes, AbsTypesNext DEF IInv
  <2> QED BY <2>1 DEF TypeOK, AbsTyping
<1>2. Len(calls') = d /\ \A i \in 1..d : calls'[i] = calls[i]
  BY <1>1, PrefixFacts
<1>3. /\ SubSeq(AbsCalls, 1, d) \in Seq(Records) /\ Len(SubSeq(AbsCalls, 1, d)) = d
      /\ \A i \in 1..d : SubSeq(AbsCalls, 1, d)[i] = AbsCalls[i]
  BY <1>1, PrefixFacts
<1>4. ASSUME NEW i \in 1..d PROVE AbsCalls'[i] = AbsCalls[i]
  <2>1. i \in 1..Len(calls) /\ i \in 1..Len(calls') /\ calls'[i] = calls[i]
    BY <1>1, <1>2
  <2> QED BY <2>1, RecordsKept
<1> QED BY <1>1, <1>2, <1>3, <1>4, SeqEqual

LEMMA HandlerDropped ==
  ASSUME IInv, IInv', Untouched, traps # <<>>, traps' = Front(traps)
  PROVE  AbsHandlers' = SubSeq(AbsHandlers, 1, Len(AbsHandlers) - 1)
<1>1. /\ traps \in Seq([pos : 1..MaxStack, calls : Nat])
      /\ AbsHandlers \in Seq(Handlers) /\ Len(AbsHandlers) = Len(traps) /\ Len(traps) \in Nat
      /\ AbsHandlers' \in Seq(Handlers) /\ Len(AbsHandlers') = Len(traps')
      /\ Len(traps) # 0
  <2>1. /\ TypeOK /\ AbsTyping /\ AbsTyping' /\ Len(traps) \in Nat
        /\ (traps # <<>> <=> Len(traps) # 0)
    BY AbsTypes, AbsTypesNext, LayoutTypes DEF IInv
  <2> QED BY <2>1 DEF TypeOK, AbsTyping
<1>2. PICK d \in 0..Len(traps) : d = Len(traps) - 1
  <2>1. Len(traps) - 1 \in 0..Len(traps)
    BY <1>1
  <2> QED BY <2>1
<1>3. Len(traps') = d /\ \A i \in 1..d : traps'[i] = traps[i]
  BY <1>1, <1>2, PrefixFacts DEF Front
<1>4. /\ SubSeq(AbsHandlers, 1, d) \in Seq(Handlers) /\ Len(SubSeq(AbsHandlers, 1, d)) = d
      /\ \A i \in 1..d : SubSeq(AbsHandlers, 1, d)[i] = AbsHandlers[i]
  BY <1>1, PrefixFacts
<1>5. ASSUME NEW i \in 1..d PROVE AbsHandlers'[i] = AbsHandlers[i]
  <2>1. Len(traps) \in Nat
    BY <1>1
  <2>2. i \in 1..Len(traps)
    BY ONLY <1>2, <2>1, i \in 1..d
  <2>3. i \in 1..Len(traps') /\ traps'[i] = traps[i]
    BY <1>3
  <2> QED BY <2>2, <2>3, RecordsKept
<1>6. AbsHandlers' = SubSeq(AbsHandlers, 1, d)
  BY <1>1, <1>3, <1>4, <1>5, SeqEqual
<1> QED BY <1>1, <1>2, <1>6

-----------------------------------------------------------------------------
(* The steps of Activations, in terms of the records. *)
Running == AbsOutcome = "running" /\ AbsOutcome' = "running"

LEMMA IsStutter ==
  ASSUME UNCHANGED <<Env, extra_args, status>>, AbsCalls' = AbsCalls,
         AbsHandlers' = AbsHandlers
  PROVE  UNCHANGED A!vars
BY DEF A!vars, AbsCalls, CallAt, AbsHandlers, HandlerAt

LEMMA IsCall ==
  ASSUME Running, AbsCalls' = Append(AbsCalls, [env |-> Env, extra |-> extra_args]),
         Env' \in Closures, extra_args' \in Nat, AbsHandlers' = AbsHandlers
  PROVE  A!Next
BY DEF Running, AbsOutcome, A!Next, A!Call, AbsCalls, CallAt, AbsHandlers, HandlerAt

\* Nothing the running activation has installed is in the way of a tail call.
NoHandlerHere == \A i \in 1..Len(AbsHandlers) : AbsHandlers[i].depth < Len(AbsCalls)

LEMMA IsContinue ==
  ASSUME Running, AbsCalls # <<>>, NoHandlerHere, AbsCalls' = AbsCalls,
         Env' \in Closures, extra_args' \in Nat, AbsHandlers' = AbsHandlers
  PROVE  A!Next
BY DEF Running, AbsOutcome, A!Next, A!Continue, A!Unprotected, NoHandlerHere,
       AbsCalls, CallAt, AbsHandlers, HandlerAt

LEMMA IsReturn ==
  ASSUME Running, AbsCalls # <<>>, NoHandlerHere,
         AbsCalls' = SubSeq(AbsCalls, 1, Len(AbsCalls) - 1),
         Env' = AbsCalls[Len(AbsCalls)].env, extra_args' = AbsCalls[Len(AbsCalls)].extra,
         AbsHandlers' = AbsHandlers
  PROVE  A!Next
BY DEF Running, AbsOutcome, A!Next, A!Return, A!Unprotected, A!Last, A!Front, NoHandlerHere,
       AbsCalls, CallAt, AbsHandlers, HandlerAt

LEMMA IsTry ==
  ASSUME Running, AbsCalls' = AbsCalls, UNCHANGED <<Env, extra_args>>,
         AbsHandlers' = Append(AbsHandlers, [depth |-> Len(AbsCalls), env |-> Env,
                                             extra |-> extra_args])
  PROVE  A!Next
BY DEF Running, AbsOutcome, A!Next, A!Try, AbsCalls, CallAt, AbsHandlers, HandlerAt

LEMMA IsEndTry ==
  ASSUME Running, AbsCalls' = AbsCalls, UNCHANGED <<Env, extra_args>>, AbsHandlers # <<>>,
         AbsHandlers[Len(AbsHandlers)] = [depth |-> Len(AbsCalls), env |-> Env,
                                          extra |-> extra_args],
         AbsHandlers' = SubSeq(AbsHandlers, 1, Len(AbsHandlers) - 1)
  PROVE  A!Next
BY DEF Running, AbsOutcome, A!Next, A!EndTry, A!Last, A!Front, AbsCalls, CallAt,
       AbsHandlers, HandlerAt

LEMMA IsRaise ==
  ASSUME Running, AbsHandlers # <<>>,
         Env' = AbsHandlers[Len(AbsHandlers)].env,
         extra_args' = AbsHandlers[Len(AbsHandlers)].extra,
         AbsCalls' = SubSeq(AbsCalls, 1, AbsHandlers[Len(AbsHandlers)].depth),
         AbsHandlers' = SubSeq(AbsHandlers, 1, Len(AbsHandlers) - 1)
  PROVE  A!Next
BY DEF Running, AbsOutcome, A!Next, A!Raise, A!Last, A!Front, AbsCalls, CallAt,
       AbsHandlers, HandlerAt

LEMMA IsUncaught ==
  ASSUME AbsOutcome = "running", AbsOutcome' = "uncaught", AbsHandlers = <<>>,
         UNCHANGED <<Env, extra_args>>, AbsCalls' = AbsCalls, AbsHandlers' = AbsHandlers
  PROVE  A!Next
BY DEF AbsOutcome, A!Next, A!Uncaught, AbsCalls, CallAt, AbsHandlers, HandlerAt

LEMMA IsStop ==
  ASSUME AbsOutcome = "running", AbsOutcome' = "stopped", AbsCalls = <<>>, AbsHandlers = <<>>,
         UNCHANGED <<Env, extra_args>>, AbsCalls' = AbsCalls, AbsHandlers' = AbsHandlers
  PROVE  A!Next
BY DEF AbsOutcome, A!Next, A!Stop, AbsCalls, CallAt, AbsHandlers, HandlerAt

-----------------------------------------------------------------------------
(* The steps of ZamControl. *)

\* A step that leaves the frames and the registers alone is not one of A's.
LEMMA StutterStep ==
  ASSUME IInv, Untouched, UNCHANGED <<Env, extra_args, status, calls, traps>>
  PROVE  UNCHANGED A!vars
BY CallsSame, HandlersSame, IsStutter

LEMMA TailFacts ==
  ASSUME IInv, InTail
  PROVE  AbsCalls # <<>> /\ NoHandlerHere
<1>1. calls # <<>> /\ \A i \in 1..Len(traps) : traps[i].calls < Len(calls)
  BY DEF InTail
<1>2. AbsCalls # <<>> /\ Len(AbsHandlers) = Len(traps) /\ Len(AbsCalls) = Len(calls)
  BY <1>1, AbsTypes DEF AbsTyping
<1>3. ASSUME NEW i \in 1..Len(traps) PROVE AbsHandlers[i].depth = traps[i].calls
  <2>1. AbsHandlers[i] = HandlerAt(traps[i])
    BY AbsTypes
  <2> QED BY <2>1 DEF HandlerAt
<1> QED BY <1>1, <1>2, <1>3 DEF NoHandlerHere

LEMMA CallSteps ==
  ASSUME IInv, IInv', Untouched, status = "running", NEW c \in 1..MaxStack,
         calls' = Append(calls, c), UNCHANGED <<status, traps>>, Env' \in Closures,
         stack'[c - 1] = Env, LongVal(stack'[c - 2]) = extra_args
  PROVE  A!Next
<1>1. Running /\ extra_args' \in Nat
  BY DEF Running, AbsOutcome, IInv, TypeOK
<1> QED BY <1>1, CallPushed, HandlersSame, IsCall

\* Tail calls, results applied to what arguments are left, and functions that
\* take theirs.
LEMMA ContinueSteps ==
  ASSUME IInv, IInv', Untouched, status = "running", InTail,
         UNCHANGED <<status, calls, traps>>, Env' \in Closures
  PROVE  A!Next
<1>1. Running /\ extra_args' \in Nat
  BY DEF Running, AbsOutcome, IInv, TypeOK
<1> QED BY <1>1, TailFacts, CallsSame, HandlersSame, IsContinue

LEMMA ReturnSteps ==
  ASSUME IInv, IInv', Untouched, status = "running", InTail, PopFrame(Last(calls))
  PROVE  A!Next
<1>1. Running /\ traps' = traps /\ calls' = SubSeq(calls, 1, Len(calls) - 1)
  BY DEF Running, AbsOutcome, PopFrame, Front
<1>2. /\ Len(calls) \in Nat /\ Len(calls) # 0 /\ Len(AbsCalls) = Len(calls)
      /\ AbsCalls[Len(calls)] = CallAt(Last(calls))
  <2>1. Len(calls) \in Nat /\ Len(calls) # 0
    BY LayoutTypes DEF IInv, InTail
  <2> QED BY <2>1, AbsTypes DEF AbsTyping, Last
<1>3. /\ Env' = AbsCalls[Len(AbsCalls)].env
      /\ extra_args' = AbsCalls[Len(AbsCalls)].extra
  BY <1>2 DEF PopFrame, CallAt
<1>4. AbsCalls' = SubSeq(AbsCalls, 1, Len(AbsCalls) - 1)
  <2>1. Len(calls) - 1 \in 0..Len(calls)
    BY <1>2
  <2> QED BY <1>1, <1>2, <2>1, CallsCut
<1> QED BY <1>1, <1>3, <1>4, TailFacts, HandlersSame, IsReturn

LEMMA PushTrapRefines ==
  ASSUME IInv, IInv', Untouched, PushTrap
  PROVE  A!Next
<1>1. Running
  BY DEF PushTrap, Body, Running, AbsOutcome
<1>2. /\ UNCHANGED <<Env, extra_args, calls>> /\ sp \in Nat /\ sp + 4 <= MaxStack
      /\ MaxStack \in Nat /\ Len(calls) \in Nat
      /\ stack \in [1..MaxStack -> Int] /\ extra_args \in Int
  <2>1. TypeOK
    BY DEF IInv
  <2> QED BY <2>1, LayoutTypes, WordsTyped DEF PushTrap
<1>3. PICK t \in [pos : 1..MaxStack, calls : Nat] :
        t = [pos |-> sp + 4, calls |-> Len(calls)]
  <2>1. [pos |-> sp + 4, calls |-> Len(calls)] \in [pos : 1..MaxStack, calls : Nat]
    BY <1>2
  <2> QED BY <2>1
<1>4. stack'[sp + 2] = Env /\ stack'[sp + 1] = ValLong(extra_args)
  BY <1>2 DEF PushTrap, pushTrap
<1>5. stack'[t.pos - 2] = Env /\ LongVal(stack'[t.pos - 3]) = extra_args
  <2>1. t.pos - 2 = sp + 2 /\ t.pos - 3 = sp + 1
    BY <1>2, <1>3
  <2> QED BY <1>2, <1>4, <2>1, LongRoundTrip
<1>6. traps' = Append(traps, t) /\ t.calls = Len(AbsCalls)
  BY <1>3, AbsTypes DEF PushTrap, AbsTyping
<1> QED BY <1>1, <1>2, <1>5, <1>6, CallsSame, HandlerPushed, IsTry

LEMMA LastHandler ==
  ASSUME IInv, traps # <<>>
  PROVE  /\ AbsHandlers # <<>>
         /\ AbsHandlers[Len(AbsHandlers)] = HandlerAt(Last(traps))
         /\ Last(traps).calls \in 0..Len(calls)
         /\ Last(traps) = traps[Len(traps)] /\ Len(traps) \in 1..Len(traps)
<1>1. Len(traps) \in 1..Len(traps)
  BY LayoutTypes DEF IInv
<1>2. AbsHandlers # <<>> /\ AbsHandlers[Len(AbsHandlers)] = HandlerAt(Last(traps))
  BY <1>1, AbsTypes DEF AbsTyping, Last
<1>3. Last(traps).calls \in 0..Len(calls)
  BY <1>1, FramesBelow DEF Last, Depths
<1> QED BY <1>1, <1>2, <1>3 DEF Last

LEMMA PopTrapRefines ==
  ASSUME IInv, IInv', Untouched, PopTrap
  PROVE  A!Next
<1>1. /\ Running /\ UNCHANGED <<Env, extra_args, calls>>
      /\ traps # <<>> /\ traps' = Front(traps)
      /\ Last(traps) = [pos |-> sp, calls |-> Len(calls)]
  BY DEF PopTrap, Body, Running, AbsOutcome
<1>2. TrapHolds(Last(traps))
  BY <1>1, LastHandler, FramesHold
<1>3. HandlerAt(Last(traps)) = [depth |-> Len(AbsCalls), env |-> Env, extra |-> extra_args]
  <2>1. Len(AbsCalls) = Len(calls)
    BY AbsTypes DEF AbsTyping
  <2> QED BY <1>1, <1>2, <2>1 DEF TrapHolds, EnvOf, ExtraOf, HandlerAt
<1> QED BY <1>1, <1>3, LastHandler, CallsSame, HandlerDropped, IsEndTry

LEMMA UnwindRefines ==
  ASSUME IInv, IInv', Untouched, status = "running", NEW ctx, NEW memory,
         Unwind(ctx, memory), KeepsTraps(memory),
         ctx = NextExceptionContext \/ ctx = caml_external_raise, ctx >= 0
  PROVE  A!Next
<1>1. /\ Running /\ traps # <<>> /\ traps' = Front(traps)
      /\ Env' = HandlerAt(Last(traps)).env /\ extra_args' = HandlerAt(Last(traps)).extra
      /\ calls' = SubSeq(calls, 1, HandlerAt(Last(traps)).depth)
      /\ HandlerAt(Last(traps)).depth = Last(traps).calls
  BY UnwindFacts DEF Running, AbsOutcome, HandlerAt
<1>2. AbsCalls' = SubSeq(AbsCalls, 1, HandlerAt(Last(traps)).depth)
  BY <1>1, LastHandler, CallsCut
<1> QED BY <1>1, <1>2, LastHandler, HandlerDropped, IsRaise

LEMMA UncaughtSteps ==
  ASSUME IInv, Untouched, status = "running", NEW how \in {"exit0", "fatal", "crash"},
         End(how), traps = <<>>
  PROVE  A!Next
<1>1. AbsOutcome = "running" /\ AbsOutcome' = "uncaught" /\ AbsHandlers = <<>>
  BY AbsTypes DEF AbsOutcome, End
<1>2. UNCHANGED <<Env, extra_args, calls, traps>>
  BY DEF End, machine, layout
<1> QED BY <1>1, <1>2, CallsSame, HandlersSame, IsUncaught

\* A raise from C finds no handler only when A has none.
LEMMA RaiseFromCRefines ==
  ASSUME IInv, IInv', Untouched, status = "running", NEW memory,
         RaiseFromC(memory), KeepsTraps(memory)
  PROVE  A!Next
<1>1. /\ Len(traps) \in Nat /\ (traps # <<>> <=> Len(traps) # 0)
      /\ caml_external_raise = Len(traps) - 1 \/ traps = <<>>
  BY LayoutTypes DEF IInv, ContextChain
<1>2. CASE caml_external_raise = NULL /\ End("fatal")
  <2>1. traps = <<>>
    BY <1>1, <1>2 DEF NULL
  <2> QED BY <1>2, <2>1, UncaughtSteps
<1>3. CASE caml_external_raise = WILD /\ End("crash")
  <2>1. traps = <<>>
    BY <1>1, <1>3 DEF WILD
  <2> QED BY <1>3, <2>1, UncaughtSteps
<1>4. CASE caml_external_raise >= 0 /\ Unwind(caml_external_raise, memory)
  BY <1>4, UnwindRefines
<1> QED BY <1>2, <1>3, <1>4 DEF RaiseFromC

LEMMA ThrowCaughtRefines ==
  ASSUME IInv, IInv', Untouched, ThrowCaught
  PROVE  A!Next
<1>1. /\ NextExceptionContext \in -1..MaxTraps - 1 /\ stack \in [1..MaxStack -> Int]
      /\ MaxTraps \in Nat
  BY BoundsAssumption DEF IInv, TypeOK
<1>2. NextExceptionContext # -1 /\ Unwind(NextExceptionContext, stack) /\ status = "running"
  BY DEF ThrowCaught, NULL, Body
<1>3. NextExceptionContext >= 0 /\ KeepsTraps(stack)
  BY <1>1, <1>2 DEF KeepsTraps
<1> QED BY <1>2, <1>3, UnwindRefines

LEMMA ThrowUncaughtRefines ==
  ASSUME IInv, Untouched, ThrowUncaught
  PROVE  A!Next
<1>1. NextExceptionContext = -1 /\ End("exit0") /\ status = "running"
  BY DEF ThrowUncaught, NULL, Body
<1>2. traps = <<>>
  BY <1>1, LayoutTypes DEF IInv, ContextChain
<1> QED BY <1>1, <1>2, UncaughtSteps

LEMMA StopRefines ==
  ASSUME IInv, Untouched, Stop
  PROVE  A!Next
<1>1. /\ calls = <<>> /\ traps = <<>> /\ End("stopped") /\ status = "running"
      /\ UNCHANGED <<Env, extra_args, calls, traps>>
  BY DEF Stop, Body, End, machine, layout
<1>2. AbsOutcome = "running" /\ AbsOutcome' = "stopped" /\ AbsCalls = <<>> /\ AbsHandlers = <<>>
  BY <1>1, AbsTypes DEF AbsOutcome, End
<1> QED BY <1>1, <1>2, CallsSame, HandlersSame, IsStop

LEMMA applyNRefines ==
  ASSUME IInv, IInv', Untouched, NEW n \in Nat \ {0}, applyN(n)
  PROVE  A!Next
<1>1. /\ status = "running" /\ Owns(n) /\ n \in 1..3 /\ sp + 3 <= MaxStack
      /\ stack' = Framed(n) /\ calls' = Append(calls, sp + 3 - n)
      /\ UNCHANGED <<status, traps>> /\ Env' \in Closures
  BY DEF applyN, ApplyGuard, CallClosure, Body
<1>2. /\ Framed(n)[sp + 2 - n] = Env /\ Framed(n)[sp + 1 - n] = ValLong(extra_args)
      /\ sp + 3 - n \in 1..MaxStack
  BY <1>1, FramedFacts
<1>3. sp \in Nat /\ extra_args \in Int
  BY LayoutTypes DEF IInv
<1>4. PICK c \in 1..MaxStack : c = sp + 3 - n
  BY <1>2
<1>5. c - 1 = sp + 2 - n /\ c - 2 = sp + 1 - n
  BY <1>3, <1>4
<1>6. stack'[c - 1] = Env /\ LongVal(stack'[c - 2]) = extra_args
  BY <1>1, <1>2, <1>3, <1>5, LongRoundTrip
<1> QED BY <1>1, <1>4, <1>6, CallSteps

LEMMA applyRefines ==
  ASSUME IInv, IInv', Untouched, NEW n \in Nat \ {0}, apply(n)
  PROVE  A!Next
<1>1. /\ status = "running" /\ stack' = stack
      /\ UNCHANGED <<status, traps>> /\ Env' \in Closures
  BY DEF apply, CallClosure, Body
<1>2. PICK p \in pends : p.calls = Len(calls) /\ calls' = Append(calls, p.pos)
  BY DEF apply
<1>3. p.pos \in 1..MaxStack
  <2>1. p \in [pos : 1..MaxStack, calls : Nat]
    BY LayoutTypes DEF IInv
  <2> QED BY <2>1
<1>4. PendHolds(p)
  BY FramesHold
<1>5. stack'[p.pos - 1] = Env /\ LongVal(stack'[p.pos - 2]) = extra_args
  BY <1>1, <1>2, <1>4 DEF PendHolds, EnvOf, ExtraOf
<1> QED BY <1>1, <1>2, <1>3, <1>5, CallSteps

LEMMA NextRefines ==
  ASSUME IInv, IInv', Untouched, EnteredByClosure, [Next]_vars
  PROVE  [A!Next]_(A!vars)
<1>1. CASE Push \/ pushRetAddr \/ EnterUnary \/ UNCHANGED vars
  BY <1>1, StutterStep DEF Push, pushRetAddr, EnterUnary, machine, layout, vars
<1>2. ASSUME NEW n \in 1..MaxArgs, Pop(n) \/ CCall(n) PROVE UNCHANGED A!vars
  BY <1>2, StutterStep DEF Pop, CCall, layout
<1>3. ASSUME NEW n \in 1..MaxArgs, applyN(n) \/ apply(n) PROVE A!Next
  BY <1>3, applyNRefines, applyRefines, BoundsAssumption
<1>4. ASSUME NEW n \in 1..MaxArgs, appterm(n) PROVE A!Next
  BY <1>4, ContinueSteps DEF appterm, AppTermGuard, TailCallClosure, Body, layout
<1>5. ASSUME NEW n \in 1..MaxArgs, Grab(n) \/ Restart(n) PROVE A!Next
  <2>1. status = "running" /\ at = "entry" /\ UNCHANGED <<status, calls, traps>>
    BY <1>5 DEF Grab, Restart, Entry, layout
  <2>2. InTail /\ Env' \in Closures
    BY <1>5, <2>1, EntryFacts DEF Grab, Restart, TailCallClosure, EnteredByClosure
  <2> QED BY <2>1, <2>2, ContinueSteps
<1>6. ASSUME NEW n \in 1..MaxArgs, GrabPartial(n) PROVE A!Next
  <2>1. /\ status = "running" /\ at = "entry" /\ PopFrame(sp - (1 + extra_args))
    BY <1>6 DEF GrabPartial, createRestartClosure, Entry
  <2>2. sp - (1 + extra_args) = Last(calls) /\ InTail
    BY <2>1, EntryFacts
  <2> QED BY <2>1, <2>2, ReturnSteps
<1>7. CASE ReturnInto
  BY <1>7, ContinueSteps DEF ReturnInto, TailCallClosure, Body, layout
<1>8. CASE ReturnToCaller
  <2>1. status = "running" /\ InTail /\ PopFrame(Base) /\ extra_args <= 0
    BY <1>8 DEF ReturnToCaller, Body
  <2>2. Base = Last(calls)
    <3>1. extra_args \in Nat /\ Base = Last(calls) + extra_args /\ Last(calls) \in Nat
      BY <2>1, LayoutTypes, InTailFacts DEF IInv
    <3> QED BY <2>1, <3>1
  <2> QED BY <2>1, <2>2, ReturnSteps
<1>9. CASE PushTrap \/ PopTrap
  BY <1>9, PushTrapRefines, PopTrapRefines
<1>10. CASE ThrowCaught \/ ThrowUncaught \/ Stop
  BY <1>10, ThrowCaughtRefines, ThrowUncaughtRefines, StopRefines
<1>11. CASE CRaise
  <2>1. status = "running"
    BY <1>11 DEF CRaise, Body
  <2> QED BY <1>11, <2>1, CRaiseMemory, RaiseFromCRefines
<1>12. ASSUME NEW n \in 1..MaxArgs, OverflowInApply(n) \/ OverflowInAppTerm(n) PROVE A!Next
  <2>1. n \in Nat \ {0} /\ status = "running"
    BY <1>12, BoundsAssumption
    DEF OverflowInApply, ApplyGuard, OverflowInAppTerm, AppTermGuard, Body
  <2>2. CASE OverflowInApply(n)
    BY <2>1, <2>2, OverflowInApplyMemory, RaiseFromCRefines
  <2>3. CASE OverflowInAppTerm(n)
    BY <2>1, <2>3, OverflowInAppTermMemory, RaiseFromCRefines
  <2> QED BY <1>12, <2>2, <2>3
<1> QED BY <1>1, <1>2, <1>3, <1>4, <1>5, <1>6, <1>7, <1>8, <1>9, <1>10, <1>11, <1>12 DEF Next

-----------------------------------------------------------------------------
LEMMA InitRefines ==
  ASSUME Init
  PROVE  A!Init /\ EnteredByClosure
<1>1. calls = <<>> /\ traps = <<>> /\ Env = 0 /\ extra_args = 0 /\ status = "running" /\ at = "body"
  BY DEF Init
<1>2. AbsCalls = <<>> /\ AbsHandlers = <<>> /\ AbsOutcome = "running"
  <2>1. IInv
    BY InitInv
  <2> QED BY <1>1, <2>1, AbsTypes DEF AbsOutcome
<1> QED BY <1>1, <1>2 DEF A!Init, AbsCalls, CallAt, AbsHandlers, HandlerAt, AbsOutcome,
                          EnteredByClosure

(* Every run of the runtime's stack machine is a run of Activations: APPLY,
   APPTERM, GRAB, RESTART, RETURN, PUSHTRAP, POPTRAP, RAISE and the exceptions of
   primitives give OCaml code the environments and extra arguments it is
   entitled to. *)
THEOREM ImplementsActivations == Spec => RefinesActivations
<1>1. Init => A!Init /\ EnteredByClosure
  BY InitRefines
<1>2. EnteredByClosure /\ [Next]_vars => EnteredByClosure'
  BY EnteredNext
<1>3. IInv /\ IInv' /\ EnteredByClosure /\ [Next]_vars => [A!Next]_(A!vars)
  BY NextUntouched, NextRefines
<1> QED BY <1>1, <1>2, <1>3, Invariance, PTL DEF Spec, RefinesActivations, A!Spec

-----------------------------------------------------------------------------
(* GcRoots.  A collection leaves the words it scans alone, and every
   allocation and every primitive makes it scan all of the stack; what is left
   is that an instruction only reads words that are not those of code
   pointers, which follows from where the frames are. *)

KindNames == {"imm", "live", "dead"}

KindsTyped ==
  /\ kind \in [1..MaxStack -> KindNames]
  /\ AccuKind \in KindNames /\ EnvKind \in KindNames

\* Where the code pointers of return, trap and pending frames are
Returns  == {calls[i] : i \in 1..Len(calls)}
Handles  == {traps[i].pos : i \in 1..Len(traps)}
Pendings == {p.pos : p \in pends}

\* The saved words below the code pointer of a return frame and of a trap frame
ReturnKinds(c) ==
  /\ kind[c - 1] = "imm" <=> stack[c - 1] = 0
  /\ kind[c - 2] = "imm"

HandleKinds(q) ==
  /\ kind[q - 2] = "imm" <=> stack[q - 2] = 0
  /\ kind[q - 1] = "imm" /\ kind[q - 3] = "imm"

\* PUSH_RETADDR saves the words of a return frame before there is one.
PendKinds == \A c \in Pendings : ReturnKinds(c)

GInv ==
  /\ IInv /\ EnteredByClosure
  /\ KindsTyped
  /\ NothingReadIsDead /\ SavedKinds /\ PendKinds

LEMMA SavedKindsSets ==
  /\ CodeWords = Returns \cup Handles
  /\ SavedKinds <=> /\ EnvKind = "imm" <=> Env = 0
                    /\ \A c \in Returns : ReturnKinds(c)
                    /\ \A q \in Handles : HandleKinds(q)
BY DEF CodeWords, Returns, Handles, SavedKinds, ReturnKinds, HandleKinds

LEMMA SavedKindsSetsNext ==
  /\ CodeWords' = Returns' \cup Handles'
  /\ SavedKinds' <=> /\ EnvKind' = "imm" <=> Env' = 0
                     /\ \A c \in Returns' : ReturnKinds(c)'
                     /\ \A q \in Handles' : HandleKinds(q)'
BY DEF CodeWords, Returns, Handles, SavedKinds, ReturnKinds, HandleKinds

(* Where those words are. *)
LEMMA FramePlaces ==
  ASSUME IInv
  PROVE  /\ sp \in 0..MaxStack /\ MaxStack \in Nat /\ sp \in Nat
         /\ \A c \in Returns \cup Pendings : c \in 3..sp /\ c \in Int
         /\ \A q \in Handles : q \in 4..sp /\ q \in Int
         /\ \A c \in Returns : c <= Last(calls) /\ c <= Base
         /\ CodeWords = Returns \cup Handles
<1>1. /\ TypeOK /\ sp \in 0..MaxStack /\ MaxStack \in Nat /\ sp \in Nat /\ Base \in 0..sp
      /\ extra_args \in Nat /\ (calls # <<>> => Last(calls) + extra_args = Base)
      /\ Len(calls) \in Nat /\ (calls # <<>> <=> Len(calls) # 0)
  BY LayoutTypes, FramesBelow DEF IInv, TypeOK
<1>2. ASSUME NEW c \in Returns
      PROVE  c \in 3..sp /\ c <= Last(calls) /\ c <= Base
  <2>1. PICK i \in 1..Len(calls) : c = calls[i]
    BY DEF Returns
  <2>2. c \in 3..Last(calls) /\ calls # <<>>
    BY <1>1, <2>1, FramesBelow
  <2>3. Last(calls) \in Int
    BY <1>1, <2>2, LayoutTypes DEF Last
  <2> QED BY <1>1, <2>2, <2>3
<1>3. \A q \in Handles : q \in 4..sp
  BY FramesBelow DEF Handles
<1>4. \A c \in Pendings : c \in 3..sp
  BY FramesBelow DEF Pendings
<1> QED BY <1>1, <1>2, <1>3, <1>4, SavedKindsSets

\* The n words an instruction takes off the stack are not code pointers.
LEMMA OwnedWords ==
  ASSUME IInv, NEW n \in Nat, Owns(n)
  PROVE  /\ \A c \in Returns \cup Handles \cup Pendings : c <= sp - n
         /\ \A i \in sp - n + 1 .. sp : i \in 1..sp /\ i \notin CodeWords
         /\ sp - n \in 0..sp
<1>1. /\ sp - n \in 0..sp /\ Base <= sp - n /\ Base \in Nat
      /\ \A c \in Handles \cup Pendings : c <= sp - n
  BY OwnsFacts, FramePlaces DEF Handles, Pendings
<1>2. \A c \in Returns : c <= sp - n
  BY <1>1, FramePlaces
<1>3. ASSUME NEW i \in sp - n + 1 .. sp PROVE i \in 1..sp /\ i \notin CodeWords
  <2>1. i \in 1..sp /\ ~(i <= sp - n)
    BY <1>1, FramePlaces
  <2> QED BY <1>1, <1>2, <2>1, FramePlaces
<1> QED BY <1>1, <1>2, <1>3

LEMMA LocalWords ==
  ASSUME IInv
  PROVE  \A p \in Locals : p \in 1..sp /\ p \notin CodeWords
<1> SUFFICES ASSUME NEW p \in Locals PROVE p \in 1..sp /\ p \notin CodeWords
  OBVIOUS
<1>1. Base \in Nat /\ sp \in Nat /\ \A q \in Handles : q \in Int
  BY FramesBelow, FramePlaces
<1>2. p \in Base + 1 .. sp
  BY DEF Locals
<1>3. p \in 1..sp /\ p \in Int /\ Base < p
  BY <1>1, <1>2
<1>4. p \notin Returns
  BY <1>1, <1>3, FramePlaces
<1>5. p \notin Handles
  <2> SUFFICES ASSUME NEW i \in 1..Len(traps), p = traps[i].pos PROVE FALSE
    BY DEF Handles
  <2>1. p \in traps[i].pos - 3 .. traps[i].pos
    BY <1>3
  <2> QED BY <2>1 DEF Locals
<1> QED BY <1>3, <1>4, <1>5, FramePlaces

\* The fields makeBlock and closure take off the stack
LEMMA FieldWords ==
  ASSUME IInv, NEW n \in Nat \ {0}, sp - n + 2 .. sp \subseteq Locals
  PROVE  Owns(n - 1)
<1>1. CASE n = 1
  BY <1>1, TopFacts
<1>2. CASE n # 1
  <2>1. /\ sp \in Nat /\ Base \in Nat /\ sp - n + 2 \in sp - n + 2 .. sp
    BY <1>2, FramePlaces, FramesBelow
  <2>2. sp - n + 2 \in Base + 1 .. sp
    BY <2>1 DEF Locals
  <2>3. sp - (n - 1) >= Base
    BY <2>1, <2>2
  <2>4. ASSUME NEW i \in 1..Len(traps) PROVE traps[i].pos <= sp - (n - 1)
    <3>1. traps[i].pos \in 4..sp
      BY FramesBelow
    <3>2. traps[i].pos \in traps[i].pos - 3 .. traps[i].pos
      BY <3>1
    <3>3. traps[i].pos \notin sp - n + 2 .. sp
      BY <3>2 DEF Locals
    <3> QED BY <2>1, <3>1, <3>3
  <2>5. ASSUME NEW p \in pends PROVE p.pos <= sp - (n - 1)
    <3>1. p.pos \in 3..sp
      BY FramesBelow
    <3>2. p.pos \in p.pos - 2 .. p.pos
      BY <3>1
    <3>3. p.pos \notin sp - n + 2 .. sp
      BY <3>2 DEF Locals
    <3> QED BY <2>1, <3>1, <3>3
  <2> QED BY <2>3, <2>4, <2>5 DEF Owns
<1> QED BY <1>1, <1>2

-----------------------------------------------------------------------------
(* A collection leaves the words it scans, and so the registers saved among
   them, as they are. *)
Keeps(a, K, accu, env, top) ==
  /\ a.words \in [1..MaxStack -> KindNames]
  /\ \A w \in 1..top : a.words[w] = K[w]
  /\ a.env = env /\ a.accu = accu

LEMMA CollectedKeeps ==
  ASSUME MaxStack \in Nat, NEW K \in [1..MaxStack -> KindNames],
         NEW accu \in KindNames, NEW env \in KindNames,
         NEW top \in Nat, top + 2 <= MaxStack
  PROVE  Keeps(Collected(K, accu, env, top), K, accu, env, top)
<1> DEFINE saved == [K EXCEPT ![top + 1] = env, ![top + 2] = accu]
           after == Scanned(saved, top + 2)
<1>1. /\ saved \in [1..MaxStack -> KindNames]
      /\ saved[top + 1] = env /\ saved[top + 2] = accu
      /\ \A w \in 1..top : saved[w] = K[w] /\ w \in 1..MaxStack
  OBVIOUS
<1> HIDE DEF saved
<1>2. after \in [1..MaxStack -> KindNames]
  BY <1>1 DEF Scanned, Lost, KindNames
<1>3. \A w \in 1..MaxStack : w <= top + 2 => after[w] = saved[w]
  BY DEF Scanned
<1>4. (\A w \in 1..top : after[w] = K[w]) /\ after[top + 1] = env /\ after[top + 2] = accu
  <2>1. top + 1 \in 1..MaxStack /\ top + 2 \in 1..MaxStack
    OBVIOUS
  <2>2. \A w \in 1..top : w \in 1..MaxStack /\ w <= top + 2
    OBVIOUS
  <2> QED BY <1>1, <1>3, <2>1, <2>2
<1> HIDE DEF after
<1>5. Collected(K, accu, env, top) =
        [words |-> after, env |-> after[top + 1], accu |-> after[top + 2],
         heap |-> Damage(saved, top + 2)]
  BY DEF Collected, saved, after
<1> QED BY <1>2, <1>4, <1>5 DEF Keeps

LEMMA AllocKeeps ==
  ASSUME MaxStack \in Nat, NEW K \in [1..MaxStack -> KindNames],
         NEW accu \in KindNames, EnvKind \in KindNames, NEW top \in Nat,
         NEW a \in AllocSmall(K, accu, top)
  PROVE  Keeps(a, K, accu, EnvKind, top)
<1>1. CASE a = [words |-> K, env |-> EnvKind, accu |-> accu, heap |-> heap]
  BY <1>1 DEF Keeps
<1>2. CASE top + 2 <= MaxStack /\ a = Collected(K, accu, EnvKind, top)
  BY <1>2, CollectedKeeps
<1> QED BY <1>1, <1>2 DEF AllocSmall

LEMMA PrimitiveKeeps ==
  ASSUME MaxStack \in Nat, sp \in Nat, sp < MaxStack, KindsTyped, NEW a \in InPrimitive
  PROVE  /\ a.words \in [1..MaxStack -> KindNames]
         /\ \A w \in 1..sp : a.words[w] = kind[w]
         /\ a.env = EnvKind
<1> DEFINE K == [kind EXCEPT ![sp + 1] = EnvKind]
           after == Scanned(K, sp + 1)
<1>1. /\ K \in [1..MaxStack -> KindNames] /\ K[sp + 1] = EnvKind
      /\ \A w \in 1..sp : K[w] = kind[w] /\ w \in 1..MaxStack
  BY DEF KindsTyped
<1> HIDE DEF K
<1>2. after \in [1..MaxStack -> KindNames]
  BY <1>1 DEF Scanned, Lost, KindNames
<1>3. \A w \in 1..MaxStack : w <= sp + 1 => after[w] = K[w]
  BY DEF Scanned
<1>4. (\A w \in 1..sp : after[w] = kind[w]) /\ after[sp + 1] = EnvKind
  <2>1. sp + 1 \in 1..MaxStack /\ \A w \in 1..sp : w \in 1..MaxStack /\ w <= sp + 1
    OBVIOUS
  <2> QED BY <1>1, <1>3, <2>1
<1> HIDE DEF after
<1>5. \/ a = [words |-> K, env |-> EnvKind, heap |-> heap]
      \/ a = [words |-> after, env |-> after[sp + 1], heap |-> Damage(K, sp + 1)]
  BY DEF InPrimitive, K, after
<1> QED BY <1>1, <1>2, <1>4, <1>5

LEMMA BlockKinds ==
  ASSUME NEW S
  PROVE  Block(S) \in {"live", "dead"} /\ ("dead" \notin S => Block(S) = "live")
BY DEF Block

-----------------------------------------------------------------------------
(* A step that leaves the words up to f alone. *)
LEMMA GStep ==
  ASSUME GInv, heap = "sound", IInv', EnteredByClosure', KindsTyped',
         NEW f \in 0..sp,
         \A w \in 1..f : stack'[w] = stack[w] /\ kind'[w] = kind[w],
         \A c \in Returns'  : (c \in Returns /\ c <= f) \/ ReturnKinds(c)',
         \A c \in Pendings' : (c \in Pendings /\ c <= f) \/ ReturnKinds(c)',
         \A q \in Handles'  : (q \in Handles /\ q <= f) \/ HandleKinds(q)',
         \A c \in CodeWords : c <= f /\ c <= sp' => c \in CodeWords',
         EnvKind' = "imm" <=> Env' = 0,
         AccuKind' # "dead", EnvKind' # "dead",
         \A i \in 1..sp' : f < i => kind'[i] # "dead" \/ i \in CodeWords'
  PROVE  GInv'
<1>1. /\ IInv /\ NothingReadIsDead /\ SavedKinds /\ PendKinds
      /\ sp \in Nat /\ f \in Nat /\ f <= sp
  BY FramePlaces DEF GInv
<1>2. ASSUME NEW c \in Returns \cup Pendings, c <= f PROVE ReturnKinds(c)'
  <2>1. ReturnKinds(c)
    BY <1>1, SavedKindsSets DEF PendKinds
  <2>2. c - 1 \in 1..f /\ c - 2 \in 1..f
    BY <1>1, <1>2, FramePlaces
  <2> QED BY <2>1, <2>2 DEF ReturnKinds
<1>3. ASSUME NEW q \in Handles, q <= f PROVE HandleKinds(q)'
  <2>1. HandleKinds(q)
    BY <1>1, SavedKindsSets
  <2>2. q - 1 \in 1..f /\ q - 2 \in 1..f /\ q - 3 \in 1..f
    BY <1>1, <1>3, FramePlaces
  <2> QED BY <2>1, <2>2 DEF HandleKinds
<1>4. SavedKinds'
  <2>1. \A c \in Returns' : ReturnKinds(c)'
    BY <1>2
  <2>2. \A q \in Handles' : HandleKinds(q)'
    BY <1>3
  <2> QED BY <2>1, <2>2, SavedKindsSetsNext
<1>5. PendKinds'
  BY <1>2 DEF PendKinds
<1>6. ASSUME NEW i \in 1..sp', kind'[i] = "dead" PROVE i \in CodeWords'
  <2>1. CASE f < i
    BY <1>6, <2>1
  <2>2. CASE ~(f < i)
    <3>1. sp' \in Nat
      BY LayoutTypes DEF IInv, TypeOK
    <3>2. i \in 1..f /\ i \in 1..sp /\ i <= sp'
      BY <1>1, <2>2, <3>1
    <3>3. kind[i] = "dead"
      BY <1>6, <3>2
    <3>4. i \in CodeWords
      BY <1>1, <3>2, <3>3 DEF NothingReadIsDead
    <3> QED BY <3>2, <3>4
  <2> QED BY <2>1, <2>2
<1>7. NothingReadIsDead'
  BY <1>6 DEF NothingReadIsDead
<1> QED BY <1>4, <1>5, <1>7 DEF GInv

\* The same, when all frames stay.
LEMMA GFlat ==
  ASSUME GInv, heap = "sound", IInv', EnteredByClosure', KindsTyped', UNCHANGED layout,
         NEW f \in 0..sp,
         \A w \in 1..f : stack'[w] = stack[w] /\ kind'[w] = kind[w],
         \A c \in Returns \cup Handles \cup Pendings : c <= f,
         EnvKind' = "imm" <=> Env' = 0,
         AccuKind' # "dead", EnvKind' # "dead",
         \A i \in 1..sp' : f < i => kind'[i] # "dead"
  PROVE  GInv'
<1>1. /\ Returns' = Returns /\ Handles' = Handles /\ Pendings' = Pendings
      /\ CodeWords' = CodeWords
  BY DEF layout, Returns, Handles, Pendings, CodeWords
<1> QED BY <1>1, GStep

\* An instruction of ZamControl
LEMMA ZStep ==
  ASSUME GInv, [Next]_vars
  PROVE  IInv' /\ EnteredByClosure'
BY NextInv, EnteredNext DEF GInv

-----------------------------------------------------------------------------
(* What the invariant says of the registers and of the words that are read. *)
LEMMA GFacts ==
  ASSUME GInv, heap = "sound"
  PROVE  /\ IInv /\ KindsTyped /\ TypeOK
         /\ sp \in 0..MaxStack /\ sp \in Nat /\ MaxStack \in Nat
         /\ stack \in [1..MaxStack -> Int] /\ kind \in [1..MaxStack -> KindNames]
         /\ Env \in Int /\ ValLong(extra_args) \in Int /\ caml_trapsp \in Int
         /\ AccuKind \in KindNames /\ EnvKind \in KindNames
         /\ EnvKind = "imm" <=> Env = 0
         /\ AccuKind # "dead" /\ EnvKind # "dead"
         /\ \A i \in 1..sp : i \notin CodeWords => kind[i] # "dead"
         /\ \A c \in Returns \cup Handles \cup Pendings : c <= sp
<1>1. IInv /\ KindsTyped /\ TypeOK /\ SavedKinds /\ NothingReadIsDead
  BY DEF GInv, IInv
<1>2. Owns(0) /\ sp \in Nat /\ sp - 0 = sp
  BY <1>1, TopFacts, FramePlaces
<1>3. \A c \in Returns \cup Handles \cup Pendings : c <= sp
  BY <1>1, <1>2, OwnedWords
<1>4. /\ stack \in [1..MaxStack -> Int] /\ Env \in Int /\ ValLong(extra_args) \in Int
      /\ caml_trapsp \in Int
  BY <1>1, WordsTyped, BoundsAssumption DEF TypeOK
<1>5. /\ sp \in 0..MaxStack /\ sp \in Nat /\ MaxStack \in Nat
  BY <1>1, FramePlaces
<1> QED BY <1>1, <1>3, <1>4, <1>5 DEF SavedKinds, NothingReadIsDead, KindsTyped

LEMMA LoadStep ==
  ASSUME GInv, heap = "sound", Load
  PROVE  GInv'
<1>1. /\ UNCHANGED <<stack, sp, Env, layout, kind, EnvKind>> /\ UNCHANGED vars
      /\ AccuKind' \in {"imm"} \cup {kind[p] : p \in Locals} \cup Values
  BY DEF Load, vars, machine
<1>2. AccuKind' \in KindNames \ {"dead"}
  <2>1. \A p \in Locals : kind[p] \in KindNames \ {"dead"}
    BY GFacts, LocalWords DEF KindsTyped
  <2> QED BY <1>1, <2>1 DEF KindNames, Values
<1>3. IInv' /\ EnteredByClosure'
  BY <1>1, ZStep
<1>4. KindsTyped'
  BY <1>1, <1>2, GFacts DEF KindsTyped
<1>5. PICK f \in 0..sp : f = sp
  BY GFacts
<1>6. /\ EnvKind' = "imm" <=> Env' = 0
      /\ AccuKind' # "dead" /\ EnvKind' # "dead"
      /\ \A c \in Returns \cup Handles \cup Pendings : c <= f
  BY <1>1, <1>2, <1>5, GFacts
<1>7. \A i \in 1..sp' : ~(f < i)
  BY <1>1, <1>5, GFacts
<1> QED BY <1>1, <1>3, <1>4, <1>5, <1>6, <1>7, GFlat

LEMMA GPushStep ==
  ASSUME GInv, heap = "sound", GPush
  PROVE  GInv'
<1>1. /\ Push /\ sp < MaxStack /\ sp' = sp + 1
      /\ stack' = [stack EXCEPT ![sp + 1] = ValLong(0)]
      /\ kind' = [kind EXCEPT ![sp + 1] = AccuKind]
      /\ UNCHANGED <<Env, layout, AccuKind, EnvKind>>
  BY DEF GPush, Push
<1>2. IInv' /\ EnteredByClosure'
  BY <1>1, ZStep DEF Next
<1>a. /\ sp \in Nat /\ MaxStack \in Nat
      /\ stack \in [1..MaxStack -> Int] /\ kind \in [1..MaxStack -> KindNames]
      /\ AccuKind \in KindNames /\ EnvKind \in KindNames /\ AccuKind # "dead"
  BY GFacts
<1>b. /\ \A w \in 1..sp : w \in 1..MaxStack /\ w # sp + 1
      /\ sp + 1 \in 1..MaxStack /\ \A i \in 1..sp' : sp < i => i = sp + 1
  BY ONLY <1>1, <1>a
<1>3. KindsTyped'
  BY ONLY <1>1, <1>a DEF KindsTyped
<1>4. \A w \in 1..sp : stack'[w] = stack[w] /\ kind'[w] = kind[w]
  BY ONLY <1>1, <1>a, <1>b
<1>5. \A i \in 1..sp' : sp < i => kind'[i] # "dead"
  BY ONLY <1>1, <1>a, <1>b
<1>6. PICK f \in 0..sp : f = sp
  BY GFacts
<1>7. /\ EnvKind' = "imm" <=> Env' = 0
      /\ AccuKind' # "dead" /\ EnvKind' # "dead"
      /\ \A c \in Returns \cup Handles \cup Pendings : c <= f
  BY <1>1, <1>6, GFacts
<1>8. /\ UNCHANGED layout
      /\ \A w \in 1..f : stack'[w] = stack[w] /\ kind'[w] = kind[w]
      /\ \A i \in 1..sp' : f < i => kind'[i] # "dead"
  BY <1>1, <1>4, <1>5, <1>6
<1> QED BY <1>2, <1>3, <1>7, <1>8, GFlat

\* The words above the stack pointer that saved registers go to
LEMMA WordsAbove ==
  ASSUME sp \in Nat, MaxStack \in Nat, sp + 3 <= MaxStack
  PROVE  /\ sp + 1 \in 1..MaxStack /\ sp + 2 \in 1..MaxStack /\ sp + 3 \in 1..MaxStack
         /\ \A w \in 1..sp : w \in 1..MaxStack /\ w # sp + 1 /\ w # sp + 2 /\ w # sp + 3
OBVIOUS

LEMMA GPushRetAddrStep ==
  ASSUME GInv, heap = "sound", GPushRetAddr
  PROVE  GInv'
<1>0. sp + 3 <= MaxStack
  BY DEF GPushRetAddr, pushRetAddr
<1>1. /\ pushRetAddr /\ sp + 3 <= MaxStack /\ sp' = sp + 3
      /\ stack' = [stack EXCEPT ![sp + 3] = ValLong(0), ![sp + 2] = Env,
                                ![sp + 1] = ValLong(extra_args)]
      /\ kind' = [kind EXCEPT ![sp + 3] = "imm", ![sp + 2] = EnvKind, ![sp + 1] = "imm"]
      /\ pends' = pends \cup {[pos |-> sp + 3, calls |-> Len(calls)]}
      /\ UNCHANGED <<Env, calls, traps, AccuKind, EnvKind>>
  BY DEF GPushRetAddr, pushRetAddr
<1>2. IInv' /\ EnteredByClosure'
  BY <1>1, ZStep DEF Next
<1>3. /\ kind' \in [1..MaxStack -> KindNames]
      /\ kind'[sp + 3] = "imm" /\ kind'[sp + 2] = EnvKind /\ kind'[sp + 1] = "imm"
      /\ \A w \in 1..sp : kind'[w] = kind[w]
  <2>1. /\ sp + 1 \in 1..MaxStack /\ sp + 2 \in 1..MaxStack /\ sp + 3 \in 1..MaxStack
        /\ \A w \in 1..sp : w \in 1..MaxStack /\ w # sp + 1 /\ w # sp + 2 /\ w # sp + 3
        /\ sp \in Nat
    BY <1>0, GFacts, WordsAbove
  <2>2. "imm" \in KindNames /\ EnvKind \in KindNames /\ kind \in [1..MaxStack -> KindNames]
    BY GFacts DEF KindNames
  <2> QED BY ONLY <1>1, <2>1, <2>2
<1>4. stack'[sp + 2] = Env /\ \A w \in 1..sp : stack'[w] = stack[w]
  <2>1. /\ sp + 1 \in 1..MaxStack /\ sp + 2 \in 1..MaxStack /\ sp + 3 \in 1..MaxStack
        /\ \A w \in 1..sp : w \in 1..MaxStack /\ w # sp + 1 /\ w # sp + 2 /\ w # sp + 3
        /\ sp \in Nat /\ stack \in [1..MaxStack -> Int]
    BY <1>0, GFacts, WordsAbove
  <2> QED BY ONLY <1>1, <2>1
<1>5. KindsTyped' /\ \A w \in 1..sp : stack'[w] = stack[w] /\ kind'[w] = kind[w]
  BY <1>1, <1>3, <1>4, GFacts DEF KindsTyped
<1>6. \A i \in 1..sp' : sp < i => kind'[i] # "dead"
  <2>1. \A i \in 1..sp' : sp < i => i \in {sp + 1, sp + 2, sp + 3}
    <3>1. sp \in Nat /\ sp' = sp + 3
      BY <1>1, GFacts
    <3> QED BY ONLY <3>1
  <2> QED BY <1>3, <2>1, GFacts
<1>7. Returns' = Returns /\ Handles' = Handles /\ CodeWords' = CodeWords
  BY <1>1 DEF Returns, Handles, CodeWords
<1>8. \A c \in Pendings' : c \in Pendings \/ ReturnKinds(c)'
  <2>1. \A c \in Pendings' : c \in Pendings \/ c = sp + 3
    BY <1>1 DEF Pendings
  <2>2. ASSUME NEW c, c = sp + 3 PROVE ReturnKinds(c)'
    <3>1. c - 1 = sp + 2 /\ c - 2 = sp + 1
      BY <2>2, GFacts
    <3>2. EnvKind = "imm" <=> Env = 0
      BY GFacts
    <3> QED BY ONLY <1>3, <1>4, <3>1, <3>2 DEF ReturnKinds
  <2> QED BY <2>1, <2>2
<1>9. PICK f \in 0..sp : f = sp
  BY GFacts
<1> QED BY <1>1, <1>2, <1>5, <1>6, <1>7, <1>8, <1>9, GFacts, GStep

LEMMA GPushTrapStep ==
  ASSUME GInv, heap = "sound", GPushTrap
  PROVE  GInv'
<1>0. sp + 3 <= MaxStack
  BY GFacts DEF GPushTrap, PushTrap
<1>1. /\ PushTrap /\ sp + 4 <= MaxStack /\ sp' = sp + 4
      /\ stack' = [stack EXCEPT ![sp + 3] = caml_trapsp, ![sp + 2] = Env,
                                ![sp + 1] = ValLong(extra_args)]
      /\ kind' = [kind EXCEPT ![sp + 3] = "imm", ![sp + 2] = EnvKind, ![sp + 1] = "imm"]
      /\ UNCHANGED <<Env, calls, pends, AccuKind, EnvKind>>
  BY DEF GPushTrap, PushTrap, pushTrap
<1>a. traps' = Append(traps, [pos |-> sp + 4, calls |-> Len(calls)])
  BY DEF GPushTrap, PushTrap
<1>2. IInv' /\ EnteredByClosure'
  BY <1>1, ZStep DEF Next
<1>3. /\ kind' \in [1..MaxStack -> KindNames]
      /\ kind'[sp + 3] = "imm" /\ kind'[sp + 2] = EnvKind /\ kind'[sp + 1] = "imm"
      /\ \A w \in 1..sp : kind'[w] = kind[w]
  <2>1. /\ sp + 1 \in 1..MaxStack /\ sp + 2 \in 1..MaxStack /\ sp + 3 \in 1..MaxStack
        /\ \A w \in 1..sp : w \in 1..MaxStack /\ w # sp + 1 /\ w # sp + 2 /\ w # sp + 3
        /\ sp \in Nat
    BY <1>0, GFacts, WordsAbove
  <2>2. "imm" \in KindNames /\ EnvKind \in KindNames /\ kind \in [1..MaxStack -> KindNames]
    BY GFacts DEF KindNames
  <2> QED BY ONLY <1>1, <2>1, <2>2
<1>4. stack'[sp + 2] = Env /\ \A w \in 1..sp : stack'[w] = stack[w]
  <2>1. /\ sp + 1 \in 1..MaxStack /\ sp + 2 \in 1..MaxStack /\ sp + 3 \in 1..MaxStack
        /\ \A w \in 1..sp : w \in 1..MaxStack /\ w # sp + 1 /\ w # sp + 2 /\ w # sp + 3
        /\ sp \in Nat /\ stack \in [1..MaxStack -> Int]
    BY <1>0, GFacts, WordsAbove
  <2> QED BY ONLY <1>1, <2>1
<1>5. KindsTyped' /\ \A w \in 1..sp : stack'[w] = stack[w] /\ kind'[w] = kind[w]
  BY <1>1, <1>3, <1>4, GFacts DEF KindsTyped
<1>6. Returns' = Returns /\ Pendings' = Pendings /\ Handles' = Handles \cup {sp + 4}
  <2>1. /\ Len(traps') = Len(traps) + 1 /\ traps'[Len(traps) + 1].pos = sp + 4
        /\ Len(traps) \in Nat /\ \A i \in 1..Len(traps) : traps'[i] = traps[i]
    <3>1. /\ traps \in Seq([pos : 1..MaxStack, calls : Nat]) /\ Len(calls) \in Nat
      BY GFacts, LayoutTypes DEF TypeOK
    <3>2. [pos |-> sp + 4, calls |-> Len(calls)] \in [pos : 1..MaxStack, calls : Nat]
      BY <1>1, <3>1, GFacts
    <3> QED BY <1>a, <3>1, <3>2, AppendFacts
  <2>2. ASSUME NEW q \in Handles' PROVE q \in Handles \cup {sp + 4}
    <3>1. PICK i \in 1..Len(traps) + 1 : q = traps'[i].pos
      BY <2>1 DEF Handles
    <3>2. i \in 1..Len(traps) \/ i = Len(traps) + 1
      BY <2>1
    <3> QED BY <2>1, <3>1, <3>2 DEF Handles
  <2>3. ASSUME NEW q \in Handles \cup {sp + 4} PROVE q \in Handles'
    <3>1. CASE q = sp + 4
      <4>1. Len(traps) + 1 \in 1..Len(traps')
        BY <2>1
      <4> QED BY <2>1, <3>1, <4>1 DEF Handles
    <3>2. ASSUME NEW i \in 1..Len(traps), q = traps[i].pos PROVE q \in Handles'
      <4>1. i \in 1..Len(traps') /\ traps'[i] = traps[i]
        BY <2>1
      <4> QED BY <3>2, <4>1 DEF Handles
    <3> QED BY <3>1, <3>2 DEF Handles
  <2>4. Handles' = Handles \cup {sp + 4}
    BY <2>2, <2>3
  <2> QED BY <1>1, <2>4 DEF Returns, Pendings
<1>7. CodeWords' = CodeWords \cup {sp + 4}
  BY <1>6, SavedKindsSets, SavedKindsSetsNext
<1>8. \A i \in 1..sp' : sp < i => kind'[i] # "dead" \/ i \in CodeWords'
  <2>1. \A i \in 1..sp' : sp < i => i \in {sp + 1, sp + 2, sp + 3, sp + 4}
    <3>1. sp \in Nat /\ sp' = sp + 4
      BY <1>1, GFacts
    <3> QED BY ONLY <3>1
  <2> QED BY <1>3, <1>7, <2>1, GFacts
<1>9. ASSUME NEW q, q = sp + 4 PROVE HandleKinds(q)'
  <2>1. q - 1 = sp + 3 /\ q - 2 = sp + 2 /\ q - 3 = sp + 1
    BY <1>9, GFacts
  <2>2. EnvKind = "imm" <=> Env = 0
    BY GFacts
  <2> QED BY ONLY <1>3, <1>4, <2>1, <2>2 DEF HandleKinds
<1>10. PICK f \in 0..sp : f = sp
  BY GFacts
<1> QED BY <1>1, <1>2, <1>5, <1>6, <1>7, <1>8, <1>9, <1>10, GFacts, GStep

-----------------------------------------------------------------------------
(* Frames that are given back. *)
LEMMA ReturnsCut ==
  ASSUME IInv, NEW d \in 0..Len(calls), calls' = SubSeq(calls, 1, d),
         NEW top \in Int, d < Len(calls) => top < calls[d + 1]
  PROVE  /\ Returns' \subseteq {calls[i] : i \in 1..d} /\ Returns' \subseteq Returns
         /\ \A c \in Returns : c <= top => c \in Returns'
<1>1. calls \in Seq(1..MaxStack) /\ Len(calls) \in Nat
  BY LayoutTypes DEF IInv, TypeOK
<1>2. Len(calls') = d /\ \A i \in 1..d : calls'[i] = calls[i]
  BY <1>1, PrefixFacts
<1>3. \A i \in 1..d : i \in 1..Len(calls)
  BY <1>1
<1>4. Returns' \subseteq {calls[i] : i \in 1..d} /\ Returns' \subseteq Returns
  BY <1>2, <1>3 DEF Returns
<1>5. ASSUME NEW i \in 1..Len(calls), calls[i] <= top PROVE calls[i] \in Returns'
  <2>1. CASE i <= d
    <3>1. i \in 1..d
      BY <1>1, <2>1
    <3> QED BY <1>2, <3>1 DEF Returns
  <2>2. CASE d < i
    <3>1. d + 1 \in 1..Len(calls) /\ d + 1 <= i /\ d < Len(calls)
      BY <1>1, <2>2
    <3>2. calls[d + 1] <= calls[i] /\ calls[i] \in 3..MaxStack /\ calls[d + 1] \in 3..MaxStack
      BY <3>1, OrderedCalls
    <3>3. MaxStack \in Nat
      BY BoundsAssumption
    <3> QED BY ONLY <1>5, <3>1, <3>2, <3>3, top \in Int, d < Len(calls) => top < calls[d + 1]
  <2> QED BY <1>1, <2>1, <2>2
<1> QED BY <1>4, <1>5 DEF Returns

LEMMA HandlesCut ==
  ASSUME IInv, traps # <<>>, traps' = Front(traps)
  PROVE  /\ Handles' \subseteq Handles
         /\ \A q \in Handles : q < Last(traps).pos => q \in Handles'
         /\ \A q \in Handles : q <= Last(traps).pos - 4 \/ q = Last(traps).pos
         /\ Last(traps).pos \in Handles
<1>1. /\ traps \in Seq([pos : 1..MaxStack, calls : Nat]) /\ Len(traps) \in Nat
      /\ Len(traps) # 0
  BY LayoutTypes DEF IInv, TypeOK
<1>2. PICK d \in 0..Len(traps) : d = Len(traps) - 1
  <2>1. Len(traps) - 1 \in 0..Len(traps)
    BY <1>1
  <2> QED BY <2>1
<1>3. Len(traps') = d /\ \A i \in 1..d : traps'[i] = traps[i]
  BY <1>1, <1>2, PrefixFacts DEF Front
<1>4. \A i \in 1..Len(traps) : i \in 1..d \/ traps[i] = Last(traps)
  BY <1>1, <1>2 DEF Last
<1>5. Last(traps).pos \in Handles /\ \A i \in 1..d : i \in 1..Len(traps) /\ i < Len(traps)
  BY <1>1, <1>2 DEF Last, Handles
<1>6. \A i \in 1..d : traps[i].pos <= Last(traps).pos - 4
  <2> SUFFICES ASSUME NEW i \in 1..d PROVE traps[i].pos <= Last(traps).pos - 4
    OBVIOUS
  <2>1. i \in 1..Len(traps) /\ i < Len(traps) /\ Len(traps) \in 1..Len(traps)
    BY <1>1, <1>5
  <2>2. \A j, k \in 1..Len(traps) : j < k => traps[j].pos <= traps[k].pos - 4
    BY DEF IInv, TrapsFit
  <2>3. traps[i].pos <= traps[Len(traps)].pos - 4
    BY ONLY <2>1, <2>2
  <2> QED BY <2>3 DEF Last
<1>7. Handles' \subseteq Handles
  BY <1>3, <1>5 DEF Handles
<1>8. Last(traps).pos \in Int
  BY <1>5, FramePlaces
<1>9. ASSUME NEW q \in Handles
      PROVE  /\ q < Last(traps).pos => q \in Handles'
             /\ q <= Last(traps).pos - 4 \/ q = Last(traps).pos
  <2>1. PICK i \in 1..Len(traps) : q = traps[i].pos
    BY DEF Handles
  <2>2. CASE i \in 1..d
    BY <1>3, <1>6, <2>1, <2>2 DEF Handles
  <2>3. CASE traps[i] = Last(traps)
    BY <1>8, <2>1, <2>3
  <2> QED BY <1>4, <2>2, <2>3
<1> QED BY <1>5, <1>7, <1>9

\* The environment a return or a raise restores is not in a code pointer's word.
LEMMA ReturnWord ==
  ASSUME IInv, InTail
  PROVE  /\ Last(calls) \in Returns /\ Last(calls) \in 3..sp
         /\ Last(calls) - 1 \in 1..sp /\ Last(calls) - 1 \notin CodeWords
<1>1. /\ Len(calls) \in Nat /\ Len(calls) \in 1..Len(calls) /\ Last(calls) = calls[Len(calls)]
      /\ sp \in Nat
  BY LayoutTypes DEF IInv, InTail, Last
<1>2. Last(calls) \in Returns /\ Last(calls) \in 3..sp /\ Last(calls) \in Int
  <2>1. Last(calls) \in Returns
    BY <1>1 DEF Returns
  <2> QED BY <2>1, FramePlaces
<1>3. ASSUME NEW c \in Returns PROVE c # Last(calls) - 1
  <2>1. PICK i \in 1..Len(calls) : c = calls[i]
    BY DEF Returns
  <2>2. CASE i = Len(calls)
    BY <1>1, <1>2, <2>1, <2>2
  <2>3. CASE i < Len(calls)
    <3>1. c <= Last(calls) - 3 /\ c \in Int
      BY <1>1, <2>1, <2>3, FramePlaces DEF IInv, ReturnFramesOrdered
    <3> QED BY <1>2, <3>1
  <2> QED BY <1>1, <2>2, <2>3
<1>4. ASSUME NEW q \in Handles PROVE q # Last(calls) - 1
  <2>1. q \in Int /\ q <= Last(calls) - 3
    BY FramesBelow, FramePlaces DEF Handles, InTail
  <2> QED BY <1>2, <2>1
<1> QED BY <1>1, <1>2, <1>3, <1>4, FramePlaces

LEMMA HandlerWord ==
  ASSUME IInv, traps # <<>>, traps' = Front(traps),
         calls' = SubSeq(calls, 1, Last(traps).calls)
  PROVE  /\ Last(traps).pos - 2 \in 1..sp /\ Last(traps).pos - 2 \notin CodeWords
         /\ Last(traps).calls \in 0..Len(calls)
         /\ \A c \in Returns' : c \in Returns /\ c <= Last(traps).pos
         /\ \A c \in Returns : c <= Last(traps).pos => c \in Returns'
<1>1. /\ Last(traps).pos \in Handles /\ Last(traps).pos \in 4..sp /\ Last(traps).pos \in Int
      /\ sp \in Nat /\ Len(calls) \in Nat /\ Len(traps) \in 1..Len(traps)
      /\ Last(traps) = traps[Len(traps)]
  BY HandlesCut, FramePlaces, LayoutTypes DEF IInv, Last
<1>2. PICK d \in 0..Len(calls) : d = Last(traps).calls
  BY <1>1, FramesBelow DEF Depths
<1>3. LiesIn(Last(traps), 4)
  BY <1>1 DEF IInv, TrapsFit
<1>4. d < Len(calls) => Last(traps).pos + 3 <= calls[d + 1] /\ d + 1 \in 1..Len(calls)
  <2> SUFFICES ASSUME d < Len(calls)
               PROVE  Last(traps).pos + 3 <= calls[d + 1] /\ d + 1 \in 1..Len(calls)
    OBVIOUS
  <2>1. d + 1 \in 1..Len(calls) /\ d # Len(calls)
    BY <1>1
  <2>2. Last(traps).pos <= calls[d + 1] - 3
    BY <1>2, <1>3, <2>1 DEF LiesIn, Ceiling
  <2>3. calls[d + 1] \in 3..MaxStack /\ MaxStack \in Nat
    BY <2>1, OrderedCalls, FramePlaces
  <2> QED BY ONLY <1>1, <2>1, <2>2, <2>3
<1>5. \A i \in 1..d : calls[i] \in Int /\ calls[i] <= Last(traps).pos - 4
  <2> SUFFICES ASSUME NEW i \in 1..d
               PROVE  calls[i] \in Int /\ calls[i] <= Last(traps).pos - 4
    OBVIOUS
  <2>1. i \in 1..Len(calls) /\ d \in 1..Len(calls) /\ i <= d /\ d # 0
    BY <1>1
  <2>2. calls[i] <= calls[d] /\ calls[i] \in 3..MaxStack /\ calls[d] \in 3..MaxStack
    BY <2>1, OrderedCalls
  <2>3. Floor(d) = calls[d] /\ ExtraOf(d) \in Nat
    BY <2>1 DEF Floor, IInv, SavedTyped, Depths
  <2>4. calls[d] + ExtraOf(d) + 4 <= Last(traps).pos
    BY <1>2, <1>3, <2>3 DEF LiesIn
  <2>5. PICK e \in Nat : calls[d] + e + 4 <= Last(traps).pos
    BY <2>3, <2>4
  <2>6. calls[i] \in Int /\ calls[d] \in Int /\ Last(traps).pos \in Int
    BY <1>1, <2>2
  <2> QED BY ONLY <2>2, <2>5, <2>6
<1>6. /\ Returns' \subseteq {calls[i] : i \in 1..d} /\ Returns' \subseteq Returns
      /\ \A c \in Returns : c <= Last(traps).pos => c \in Returns'
  <2>1. d < Len(calls) => Last(traps).pos < calls[d + 1]
    <3> SUFFICES ASSUME d < Len(calls) PROVE Last(traps).pos < calls[d + 1]
      OBVIOUS
    <3>1. calls[d + 1] \in 3..MaxStack /\ MaxStack \in Nat
      BY <1>4, OrderedCalls, FramePlaces
    <3> QED BY <1>1, <1>4, <3>1
  <2>2. calls' = SubSeq(calls, 1, d)
    BY <1>2
  <2>3. PICK top \in Int : top = Last(traps).pos
    BY <1>1
  <2> QED BY <2>1, <2>2, <2>3, ReturnsCut
<1>7. \A c \in Returns' : c \in Returns /\ c <= Last(traps).pos - 4 /\ c \in Int
  BY <1>5, <1>6
<1>8. ASSUME Last(traps).pos - 2 \in Returns PROVE FALSE
  <2>1. Last(traps).pos - 2 <= Last(traps).pos /\ ~(Last(traps).pos - 2 <= Last(traps).pos - 4)
    BY <1>1
  <2>2. Last(traps).pos - 2 \in Returns'
    BY <1>6, <1>8, <2>1
  <2> QED BY <1>7, <2>1, <2>2
<1>9. Last(traps).pos - 2 \notin Handles
  <2>1. \A q \in Handles : q <= Last(traps).pos - 4 \/ q = Last(traps).pos
    BY HandlesCut
  <2>2. /\ ~(Last(traps).pos - 2 <= Last(traps).pos - 4)
        /\ Last(traps).pos - 2 # Last(traps).pos
    BY <1>1
  <2> QED BY <2>1, <2>2
<1>10. Last(traps).pos - 2 \in 1..sp
  BY ONLY <1>1
<1>11. \A c \in Returns' : c \in Returns /\ c <= Last(traps).pos
  BY <1>1, <1>7
<1> QED BY <1>2, <1>6, <1>8, <1>9, <1>10, <1>11, FramePlaces
-----------------------------------------------------------------------------
(* The instructions, one by one. *)

\* An instruction of ZamControl that writes no word and moves no kind
LEMMA QuietFlat ==
  ASSUME GInv, heap = "sound", IInv', EnteredByClosure',
         UNCHANGED <<stack, Env, layout, kind, AccuKind, EnvKind>>, sp' <= sp
  PROVE  GInv'
<1>1. PICK f \in 0..sp : f = sp
  BY GFacts
<1>2. KindsTyped'
  BY GFacts DEF KindsTyped
<1>3. \A i \in 1..sp' : ~(f < i)
  <2>1. sp \in Nat /\ sp' \in Nat
    BY GFacts, LayoutTypes DEF IInv, TypeOK
  <2> QED BY <1>1, <2>1
<1> QED BY <1>1, <1>2, <1>3, GFacts, GFlat

LEMMA GPopTrapStep ==
  ASSUME GInv, heap = "sound", PopTrap, UNCHANGED kinds
  PROVE  GInv'
<1>1. /\ traps # <<>> /\ traps' = Front(traps) /\ Last(traps).pos = sp /\ sp' = sp - 4
      /\ UNCHANGED <<stack, Env, calls, pends, kind, AccuKind, EnvKind>>
  BY DEF PopTrap, popTrap, kinds
<1>2. IInv' /\ EnteredByClosure'
  BY ZStep DEF Next
<1>3. KindsTyped'
  BY <1>1, GFacts DEF KindsTyped
<1>4. Returns' = Returns /\ Pendings' = Pendings
  BY <1>1 DEF Returns, Pendings
<1>5. /\ Handles' \subseteq Handles
      /\ \A q \in Handles : q < sp => q \in Handles'
  BY <1>1, GFacts, HandlesCut
<1>6. PICK f \in 0..sp : f = sp
  BY GFacts
<1>7. \A c \in CodeWords : c <= sp' => c \in CodeWords'
  <2>1. \A c \in Handles : c <= sp' => c < sp
    BY <1>1, GFacts, FramePlaces
  <2> QED BY <1>4, <1>5, <2>1, SavedKindsSets, SavedKindsSetsNext
<1>8. \A i \in 1..sp' : ~(f < i)
  BY <1>1, <1>6, GFacts
<1> QED BY <1>1, <1>2, <1>3, <1>4, <1>5, <1>6, <1>7, <1>8, GFacts, GStep

LEMMA QuietStep ==
  ASSUME GInv, heap = "sound", Quiet
  PROVE  GInv'
<1>1. UNCHANGED kinds /\ UNCHANGED <<kind, AccuKind, EnvKind>>
  BY DEF Quiet, kinds
<1>2. ASSUME NEW n \in 1..MaxArgs, Pop(n) \/ Grab(n) PROVE GInv'
  <2>1. IInv' /\ EnteredByClosure'
    BY <1>2, ZStep DEF Next
  <2>2. UNCHANGED <<stack, Env, layout>> /\ sp' <= sp
    BY <1>2, GFacts DEF Pop, Grab
  <2> QED BY <1>1, <2>1, <2>2, QuietFlat
<1>3. CASE EnterUnary \/ ThrowUncaught \/ Stop
  <2>1. IInv' /\ EnteredByClosure'
    BY <1>3, ZStep DEF Next
  <2>2. UNCHANGED <<stack, Env, layout>> /\ sp' <= sp
    BY <1>3, GFacts DEF EnterUnary, ThrowUncaught, Stop, End, machine
  <2> QED BY <1>1, <2>1, <2>2, QuietFlat
<1>4. CASE PopTrap
  BY <1>1, <1>4, GPopTrapStep
<1> QED BY <1>2, <1>3, <1>4 DEF Quiet

LEMMA makeBlockStep ==
  ASSUME GInv, heap = "sound", NEW n \in Nat \ {0}, makeBlock(n)
  PROVE  GInv'
<1>1. PICK a \in AllocSmall(kind, AccuKind, sp) :
        /\ kind' = a.words /\ EnvKind' = a.env
        /\ AccuKind' = Block({a.accu} \cup Fields(a, sp - n + 2 .. sp))
  BY DEF makeBlock
<1>2. /\ sp - n + 2 .. sp \subseteq Locals /\ sp' = sp - (n - 1) /\ n - 1 \in Nat
      /\ UNCHANGED <<stack, Env, layout>> /\ at' = "body"
  BY DEF makeBlock, Body
<1>3. Owns(n - 1)
  BY <1>2, GFacts, FieldWords
<1>4. IInv' /\ EnteredByClosure'
  <2>1. Pop(n - 1)
    BY <1>2, <1>3 DEF makeBlock, Pop
  <2> QED BY <1>2, <2>1, GFacts, PopStep DEF EnteredByClosure
<1>5. Keeps(a, kind, AccuKind, EnvKind, sp)
  BY <1>1, GFacts, AllocKeeps
<1>6. AccuKind' = "live"
  <2>1. a.accu # "dead"
    BY <1>5, GFacts DEF Keeps
  <2>2. \A i \in sp - n + 2 .. sp : i \in 1..sp /\ i \notin CodeWords
    BY <1>2, GFacts, LocalWords
  <2>3. \A i \in sp - n + 2 .. sp : a.words[i] # "dead"
    BY <1>5, <2>2, GFacts DEF Keeps
  <2>4. "dead" \notin {a.accu} \cup Fields(a, sp - n + 2 .. sp)
    BY <2>1, <2>3 DEF Fields
  <2> QED BY <1>1, <2>4, BlockKinds
<1>7. KindsTyped' /\ EnvKind' = EnvKind /\ \A w \in 1..sp : kind'[w] = kind[w]
  BY <1>1, <1>5, <1>6, GFacts DEF Keeps, KindsTyped, KindNames
<1>8. PICK f \in 0..sp : f = sp
  BY GFacts
<1>9. \A i \in 1..sp' : ~(f < i)
  <2>1. sp \in Nat /\ sp' = sp - (n - 1) /\ n - 1 \in Nat
    BY <1>2, GFacts
  <2> QED BY ONLY <1>8, <2>1
<1> QED BY <1>2, <1>4, <1>6, <1>7, <1>8, <1>9, GFacts, GFlat

LEMMA MakeClosureStep ==
  ASSUME GInv, heap = "sound", NEW n \in Nat, NEW m \in Nat, MakeClosure(n, m)
  PROVE  GInv'
<1>1. PICK top \in Nat : top = IF n > 0 THEN sp + 1 ELSE sp
  BY GFacts
<1>2. PICK pushed : pushed = IF n > 0 THEN [kind EXCEPT ![sp + 1] = AccuKind] ELSE kind
  OBVIOUS
<1>3. /\ sp - n + 2 .. sp \subseteq Locals /\ sp + m < MaxStack /\ sp' = top - n + m
      /\ UNCHANGED <<Env, extra_args, handling, native, status, at, restored, layout>>
      /\ at = "body"
      /\ stack' = [i \in 1..MaxStack |->
                     IF i \in top - n + 1 .. top - n + m THEN ValLong(0) ELSE stack[i]]
  BY <1>1 DEF MakeClosure, Body
<1>4. PICK a \in AllocSmall(pushed, AccuKind, top) :
        /\ EnvKind' = a.env
        /\ AccuKind' = Block(Fields(a, top - n + 1 .. top))
        /\ kind' = [i \in 1..MaxStack |->
                      IF i \in top - n + 1 .. top - n + m THEN AccuKind' ELSE a.words[i]]
  BY <1>1, <1>2 DEF MakeClosure
<1>5. PICK f \in Int : f = top - n
  OBVIOUS
<1>6. /\ f \in 0..sp /\ Base <= f
      /\ calls # <<>> => Last(calls) <= f
      /\ \A i \in 1..Len(traps) : traps[i].pos <= f
      /\ \A p \in pends : p.pos <= f
      /\ \A c \in Returns \cup Handles \cup Pendings : c <= f
  <2>1. CASE n = 0
    <3>1. f = sp - 0
      BY <1>1, <1>5, <2>1
    <3> QED BY <3>1, GFacts, TopFacts, OwnsFacts, OwnedWords
  <2>2. CASE n # 0
    <3>1. f = sp - (n - 1) /\ n - 1 \in Nat
      BY <1>1, <1>5, <2>2, GFacts
    <3>2. Owns(n - 1)
      BY <1>3, <2>2, GFacts, FieldWords
    <3> QED BY <3>1, <3>2, GFacts, OwnsFacts, OwnedWords
  <2> QED BY <2>1, <2>2
<1>7. /\ sp' = f + m /\ f + m < MaxStack /\ f + m \in 0..MaxStack
      /\ sp \in Nat /\ f \in Nat /\ MaxStack \in Nat
      /\ \A w \in 1..f : w \in 1..MaxStack /\ w \notin f + 1 .. f + m /\ w \in 1..sp /\ w \in 1..top
      /\ \A w \in 1..f + m : f < w => w \in f + 1 .. f + m /\ w \in 1..MaxStack
  <2>1. /\ sp \in Nat /\ MaxStack \in Nat /\ sp \in 0..MaxStack /\ sp + m < MaxStack
        /\ sp' = top - n + m
    BY <1>3, GFacts
  <2> QED BY ONLY <1>1, <1>5, <1>6, <2>1
<1>8. IInv' /\ EnteredByClosure'
  <2>1. /\ stack' \in [1..MaxStack -> Int] /\ \A w \in 1..f : stack'[w] = stack[w]
    <3>1. stack \in [1..MaxStack -> Int] /\ ValLong(0) \in Int
      BY GFacts, LongRoundTrip
    <3>2. stack' = [i \in 1..MaxStack |-> IF i \in f + 1 .. f + m THEN ValLong(0) ELSE stack[i]]
      BY <1>3, <1>5
    <3> QED BY ONLY <1>7, <3>1, <3>2
  <2>2. TypeOK'
    BY <1>3, <1>7, <2>1, GFacts DEF TypeOK, handling, layout
  <2>3. EntryFits' /\ FreshEntry'
    BY <1>3, GFacts DEF IInv, EntryFits, FreshEntry
  <2>4. PICK k \in 0..MaxStack : k = f
    BY <1>6, <1>7
  <2>5. k <= sp' /\ Base' <= sp'
    <3>1. Base' = Base /\ Base \in Nat
      BY <1>3, GFacts, FramesBelow DEF Base, Last, layout
    <3> QED BY <1>6, <1>7, <2>4, <3>1
  <2>6. IInv'
    BY <1>3, <1>6, <2>1, <2>2, <2>3, <2>4, <2>5, GFacts, SameFrames
  <2> QED BY <1>3, <2>6 DEF EnteredByClosure
<1>9. pushed \in [1..MaxStack -> KindNames] /\ \A w \in 1..sp : pushed[w] = kind[w]
  <2>1. sp + 1 \in 1..MaxStack /\ sp \in Nat /\ \A w \in 1..sp : w \in 1..MaxStack /\ w # sp + 1
    BY <1>3, GFacts
  <2>2. kind \in [1..MaxStack -> KindNames] /\ AccuKind \in KindNames
    BY GFacts
  <2> QED BY ONLY <1>2, <2>1, <2>2
<1>10. Keeps(a, pushed, AccuKind, EnvKind, top)
  BY <1>4, <1>9, GFacts, AllocKeeps
<1>11. AccuKind' = "live"
  <2>1. ASSUME NEW i \in top - n + 1 .. top PROVE a.words[i] # "dead"
    <3>1. i \in 1..top /\ a.words[i] = pushed[i]
      <4>1. i \in 1..top
        BY <1>5, <1>7
      <4> QED BY <1>10, <4>1 DEF Keeps
    <3>2. CASE n > 0 /\ i = sp + 1
      <4>1. sp + 1 \in 1..MaxStack /\ kind \in [1..MaxStack -> KindNames] /\ AccuKind # "dead"
        BY <1>3, GFacts
      <4> QED BY ONLY <1>2, <3>1, <3>2, <4>1
    <3>3. CASE n > 0 /\ i # sp + 1
      <4>0. sp \in Nat
        BY GFacts
      <4>1. i \in sp - n + 2 .. sp /\ i \in 1..sp
        BY ONLY <1>1, <3>1, <3>3, <4>0, i \in top - n + 1 .. top, n \in Nat
      <4>2. i \notin CodeWords
        BY <1>3, <4>1, GFacts, LocalWords
      <4> QED BY <1>9, <3>1, <4>1, <4>2, GFacts
    <3>4. n > 0
      OBVIOUS
    <3> QED BY <3>2, <3>3, <3>4
  <2>2. "dead" \notin Fields(a, top - n + 1 .. top)
    BY <2>1 DEF Fields
  <2> QED BY <1>4, <2>2, BlockKinds
<1>12. /\ kind' \in [1..MaxStack -> KindNames]
       /\ \A w \in 1..f : kind'[w] = kind[w]
       /\ \A i \in 1..sp' : f < i => kind'[i] # "dead"
  <2>1. /\ a.words \in [1..MaxStack -> KindNames] /\ \A w \in 1..top : a.words[w] = pushed[w]
        /\ "live" \in KindNames
    BY <1>10 DEF Keeps, KindNames
  <2>2. kind' = [i \in 1..MaxStack |-> IF i \in f + 1 .. f + m THEN AccuKind' ELSE a.words[i]]
    BY <1>4, <1>5
  <2>3. kind' \in [1..MaxStack -> KindNames]
    BY ONLY <1>11, <2>1, <2>2
  <2>4. \A w \in 1..f : kind'[w] = kind[w]
    BY <1>7, <1>9, <2>1, <2>2
  <2>5. \A i \in 1..f + m : f < i => kind'[i] = "live"
    BY ONLY <1>7, <1>11, <2>2
  <2> QED BY <1>7, <2>3, <2>4, <2>5
<1>13. KindsTyped' /\ EnvKind' = EnvKind
  BY <1>4, <1>10, <1>11, <1>12, GFacts DEF Keeps, KindsTyped, KindNames
<1>14. \A w \in 1..f : stack'[w] = stack[w]
  <2>1. stack' = [i \in 1..MaxStack |-> IF i \in f + 1 .. f + m THEN ValLong(0) ELSE stack[i]]
    BY <1>3, <1>5
  <2> QED BY ONLY <1>7, <2>1
<1>15. PICK g \in 0..sp : g = f
  BY <1>6
<1> QED BY <1>3, <1>6, <1>8, <1>11, <1>12, <1>13, <1>14, <1>15, GFacts, GFlat

-----------------------------------------------------------------------------
(* The caller's frame goes, and its registers come back. *)
LEMMA FrameGone ==
  ASSUME IInv, InTail, calls' = Front(calls), sp' = Last(calls) - 3,
         UNCHANGED <<traps, pends>>
  PROVE  /\ Returns' \subseteq Returns /\ Handles' = Handles /\ Pendings' = Pendings
         /\ \A c \in CodeWords : c <= sp' => c \in CodeWords'
<1>1. /\ Last(calls) = calls[Len(calls)] /\ Last(calls) \in 3..sp /\ Last(calls) \in Int
      /\ Len(calls) \in Nat /\ Len(calls) \in 1..Len(calls)
  BY LayoutTypes, ReturnWord, FramePlaces DEF IInv, InTail, Last
<1>2. PICK d \in 0..Len(calls) : d = Len(calls) - 1
  <2>1. Len(calls) - 1 \in 0..Len(calls)
    BY <1>1
  <2> QED BY <2>1
<1>3. calls' = SubSeq(calls, 1, d) /\ d + 1 = Len(calls)
  BY <1>1, <1>2 DEF Front
<1>4. PICK top \in Int : top = sp'
  BY <1>1
<1>5. d < Len(calls) => top < calls[d + 1]
  BY <1>1, <1>3, <1>4
<1>6. Returns' \subseteq Returns /\ \A c \in Returns : c <= top => c \in Returns'
  BY <1>3, <1>5, ReturnsCut
<1>7. Handles' = Handles /\ Pendings' = Pendings
  BY DEF Handles, Pendings
<1> QED BY <1>4, <1>6, <1>7, SavedKindsSets, SavedKindsSetsNext

LEMMA GReturnStep ==
  ASSUME GInv, heap = "sound", GReturn
  PROVE  GInv'
<1>1. /\ ReturnToCaller /\ InTail /\ extra_args <= 0 /\ PopFrame(Base)
      /\ UNCHANGED <<stack, kind, AccuKind, traps, pends>> /\ calls' = Front(calls)
      /\ EnvKind' = kind[Base - 1] /\ Env' = stack[Base - 1] /\ sp' = Base - 3
  BY DEF GReturn, ReturnToCaller, PopFrame
<1>2. Base = Last(calls) /\ sp' = Last(calls) - 3
  BY <1>1, GFacts, InTailFacts, LayoutTypes
<1>3. IInv' /\ EnteredByClosure'
  BY <1>1, ZStep DEF Next
<1>4. /\ Last(calls) \in Returns /\ Last(calls) \in 3..sp
      /\ Last(calls) - 1 \in 1..sp /\ Last(calls) - 1 \notin CodeWords
  BY <1>1, GFacts, ReturnWord
<1>5. ReturnKinds(Last(calls))
  BY <1>4, SavedKindsSets DEF GInv
<1>6. (EnvKind' = "imm" <=> Env' = 0) /\ EnvKind' # "dead" /\ EnvKind' \in KindNames
  <2>1. kind[Last(calls) - 1] # "dead" /\ kind[Last(calls) - 1] \in KindNames
    <3>1. Last(calls) - 1 \in 1..MaxStack
      BY <1>4, GFacts
    <3> QED BY <1>4, <3>1, GFacts
  <2> QED BY <1>1, <1>2, <1>5, <2>1 DEF ReturnKinds
<1>7. KindsTyped'
  BY <1>1, <1>6, GFacts DEF KindsTyped
<1>8. /\ Returns' \subseteq Returns /\ Handles' = Handles /\ Pendings' = Pendings
      /\ \A c \in CodeWords : c <= sp' => c \in CodeWords'
  BY <1>1, <1>2, GFacts, FrameGone
<1>9. PICK f \in 0..sp : f = sp
  BY GFacts
<1>10. \A i \in 1..sp' : ~(f < i)
  BY <1>2, <1>4, <1>9, GFacts
<1> QED BY <1>1, <1>3, <1>6, <1>7, <1>8, <1>9, <1>10, GFacts, GStep

LEMMA GGrabPartialStep ==
  ASSUME GInv, heap = "sound", NEW n \in 1..MaxArgs, GGrabPartial(n)
  PROVE  GInv'
<1>1. PICK a \in AllocSmall(kind, AccuKind, sp) :
        /\ kind' = a.words /\ EnvKind' = a.words[Last(calls) - 1]
        /\ AccuKind' = Block({a.env} \cup Fields(a, sp - extra_args .. sp))
  BY DEF GGrabPartial
<1>2. /\ GrabPartial(n) /\ at = "entry" /\ PopFrame(sp - (1 + extra_args))
      /\ UNCHANGED <<stack, traps, pends>> /\ calls' = Front(calls)
  BY DEF GGrabPartial, GrabPartial, Entry, createRestartClosure, PopFrame
<1>3. /\ InTail /\ sp = Last(calls) + extra_args + 1 /\ Last(calls) \in Nat
      /\ extra_args \in Nat
  BY <1>2, GFacts, EntryFacts
<1>4. Env' = stack[Last(calls) - 1] /\ sp' = Last(calls) - 3
  <2>1. sp - (1 + extra_args) = Last(calls)
    BY ONLY <1>3
  <2> QED BY <1>2, <2>1 DEF PopFrame
<1>5. IInv' /\ EnteredByClosure'
  BY <1>2, ZStep DEF Next
<1>6. /\ Last(calls) \in Returns /\ Last(calls) \in 3..sp
      /\ Last(calls) - 1 \in 1..sp /\ Last(calls) - 1 \notin CodeWords
  BY <1>3, GFacts, ReturnWord
<1>7. ReturnKinds(Last(calls))
  BY <1>6, SavedKindsSets DEF GInv
<1>8. Keeps(a, kind, AccuKind, EnvKind, sp)
  BY <1>1, GFacts, AllocKeeps
<1>9. \A w \in 1..sp : kind'[w] = kind[w]
  BY <1>1, <1>8 DEF Keeps
<1>10. (EnvKind' = "imm" <=> Env' = 0) /\ EnvKind' # "dead" /\ EnvKind' \in KindNames
  <2>1. kind[Last(calls) - 1] # "dead" /\ kind[Last(calls) - 1] \in KindNames
    <3>1. Last(calls) - 1 \in 1..MaxStack
      BY <1>6, GFacts
    <3> QED BY <1>6, <3>1, GFacts
  <2>2. EnvKind' = kind[Last(calls) - 1]
    BY <1>1, <1>6, <1>8 DEF Keeps
  <2> QED BY <1>4, <1>7, <2>1, <2>2 DEF ReturnKinds
<1>11. AccuKind' = "live"
  <2>1. a.env # "dead"
    BY <1>8, GFacts DEF Keeps
  <2>2. \A i \in sp - extra_args .. sp : i \in 1..sp /\ i \notin CodeWords
    <3> SUFFICES ASSUME NEW i \in sp - extra_args .. sp PROVE i \in 1..sp /\ i \notin CodeWords
      OBVIOUS
    <3>1. i \in 1..sp /\ Last(calls) < i /\ i \in Int
      BY ONLY <1>3, i \in sp - extra_args .. sp
    <3>2. \A c \in Returns : c <= Last(calls) /\ c \in Int
      BY GFacts, FramePlaces
    <3>3. \A c \in Handles : c <= Last(calls) /\ c \in Int
      BY <1>3, GFacts, InTailFacts, FramePlaces DEF Handles
    <3>4. i \notin Returns /\ i \notin Handles
      BY ONLY <1>3, <3>1, <3>2, <3>3
    <3> QED BY <3>1, <3>4, SavedKindsSets
  <2>3. \A i \in sp - extra_args .. sp : a.words[i] # "dead"
    BY <1>8, <2>2, GFacts DEF Keeps
  <2>4. "dead" \notin {a.env} \cup Fields(a, sp - extra_args .. sp)
    BY <2>1, <2>3 DEF Fields
  <2> QED BY <1>1, <2>4, BlockKinds
<1>12. KindsTyped'
  BY <1>1, <1>8, <1>10, <1>11 DEF Keeps, KindsTyped, KindNames
<1>13. /\ Returns' \subseteq Returns /\ Handles' = Handles /\ Pendings' = Pendings
       /\ \A c \in CodeWords : c <= sp' => c \in CodeWords'
  BY <1>2, <1>3, <1>4, GFacts, FrameGone
<1>14. PICK f \in 0..sp : f = sp
  BY GFacts
<1>15. \A i \in 1..sp' : ~(f < i)
  BY <1>3, <1>4, <1>14, GFacts
<1> QED BY <1>2, <1>5, <1>9, <1>10, <1>11, <1>12, <1>13, <1>14, <1>15, GFacts, GStep

LEMMA GRestartStep ==
  ASSUME GInv, heap = "sound", NEW n \in 1..MaxArgs, GRestart(n)
  PROVE  GInv'
<1>1. /\ Restart(n) /\ at = "entry" /\ sp + n <= MaxStack /\ sp' = sp + n
      /\ UNCHANGED <<layout, AccuKind, EnvKind>> /\ Env' \in Closures
      /\ stack' = [i \in 1..MaxStack |-> IF i \in sp + 1 .. sp + n THEN ValLong(0) ELSE stack[i]]
  BY DEF GRestart, Restart, Entry, restart, TailCallClosure
<1>2. PICK args \in [sp + 1 .. sp + n -> Values] :
        kind' = [i \in 1..MaxStack |-> IF i \in sp + 1 .. sp + n THEN args[i] ELSE kind[i]]
  BY DEF GRestart
<1>3. IInv' /\ EnteredByClosure'
  BY <1>1, ZStep DEF Next
<1>4. EnvKind' = "imm" <=> Env' = 0
  <2>1. Env \in Closures
    BY <1>1 DEF GInv, EnteredByClosure
  <2>2. Env # 0 /\ Env' # 0
    BY <1>1, <2>1, ClosuresAssumption
  <2> QED BY <1>1, <2>2, GFacts
<1>5. /\ sp \in Nat /\ MaxStack \in Nat /\ n \in Nat /\ kind \in [1..MaxStack -> KindNames]
      /\ \A i \in sp + 1 .. sp + n : args[i] \in Values
  BY GFacts
<1>6. /\ \A w \in 1..sp : w \in 1..MaxStack /\ w \notin sp + 1 .. sp + n
      /\ \A i \in 1..sp' : sp < i => i \in sp + 1 .. sp + n /\ i \in 1..MaxStack
  BY ONLY <1>1, <1>5
<1>7. \A w \in 1..sp : stack'[w] = stack[w] /\ kind'[w] = kind[w]
  BY <1>1, <1>2, <1>6
<1>8. KindsTyped' /\ \A i \in 1..sp' : sp < i => kind'[i] # "dead"
  <2>1. kind' \in [1..MaxStack -> KindNames]
    BY ONLY <1>2, <1>5 DEF Values, KindNames
  <2>2. \A i \in 1..sp' : sp < i => kind'[i] \in Values
    BY ONLY <1>2, <1>5, <1>6
  <2> QED BY <1>1, <2>1, <2>2, GFacts DEF KindsTyped, Values
<1>9. PICK f \in 0..sp : f = sp
  BY GFacts
<1> QED BY <1>1, <1>3, <1>4, <1>7, <1>8, <1>9, GFacts, GFlat

-----------------------------------------------------------------------------
(* Calls make a return frame, or take the words of the running one. *)
LEMMA FrameMade ==
  ASSUME IInv, NEW c \in 1..MaxStack, calls' = Append(calls, c), UNCHANGED traps
  PROVE  /\ Returns' = Returns \cup {c} /\ Handles' = Handles
         /\ CodeWords' = CodeWords \cup {c}
<1>1. /\ Len(calls') = Len(calls) + 1 /\ calls'[Len(calls) + 1] = c /\ Len(calls) \in Nat
      /\ \A i \in 1..Len(calls) : calls'[i] = calls[i]
  <2>1. calls \in Seq(1..MaxStack)
    BY DEF IInv, TypeOK
  <2> QED BY <2>1, AppendFacts, EmptyFacts
<1>2. \A x \in Returns' : x \in Returns \cup {c}
  <2> SUFFICES ASSUME NEW i \in 1..Len(calls) + 1 PROVE calls'[i] \in Returns \cup {c}
    BY <1>1 DEF Returns
  <2>1. i \in 1..Len(calls) \/ i = Len(calls) + 1
    BY <1>1
  <2> QED BY <1>1, <2>1 DEF Returns
<1>3. c \in Returns'
  <2>1. Len(calls) + 1 \in 1..Len(calls')
    BY <1>1
  <2> QED BY <1>1, <2>1 DEF Returns
<1>4. \A x \in Returns : x \in Returns'
  <2> SUFFICES ASSUME NEW i \in 1..Len(calls) PROVE calls[i] \in Returns'
    BY DEF Returns
  <2>1. i \in 1..Len(calls') /\ calls'[i] = calls[i]
    BY <1>1
  <2> QED BY <2>1 DEF Returns
<1>5. Returns' = Returns \cup {c} /\ Handles' = Handles
  <2>1. Returns' = Returns \cup {c}
    BY <1>2, <1>3, <1>4
  <2> QED BY <2>1 DEF Handles
<1> QED BY <1>5, SavedKindsSets, SavedKindsSetsNext

\* applyN moves the kinds of the words as it moves the words.
LEMMA FramedKindsFacts ==
  ASSUME GInv, heap = "sound", NEW n \in 1..3, Owns(n), sp + 3 <= MaxStack
  PROVE  /\ FramedKinds(n) \in [1..MaxStack -> KindNames]
         /\ \A w \in 1..sp - n : FramedKinds(n)[w] = kind[w]
         /\ FramedKinds(n)[sp + 2 - n] = EnvKind /\ FramedKinds(n)[sp + 1 - n] = "imm"
         /\ \A i \in 1..sp + 3 :
              sp - n < i => FramedKinds(n)[i] # "dead" \/ i = sp + 3 - n
<1>1. /\ sp \in Nat /\ MaxStack \in Nat /\ n \in Nat /\ sp - n \in 0..sp
      /\ kind \in [1..MaxStack -> KindNames] /\ EnvKind \in KindNames /\ EnvKind # "dead"
      /\ "imm" \in KindNames
  BY GFacts, OwnedWords DEF KindNames
<1>2. \A i \in sp - n + 1 .. sp : kind[i] # "dead"
  BY GFacts, OwnedWords
<1>3. /\ \A w \in 1..sp - n : /\ w \in 1..MaxStack /\ w \notin sp + 4 - n .. sp + 3
                              /\ w # sp + 2 - n /\ w # sp + 1 - n
      /\ sp + 2 - n \in 1..MaxStack /\ sp + 1 - n \in 1..MaxStack
      /\ sp + 2 - n \notin sp + 4 - n .. sp + 3 /\ sp + 1 - n \notin sp + 4 - n .. sp + 3
      /\ sp + 1 - n # sp + 2 - n
      /\ \A i \in sp + 4 - n .. sp + 3 : i - 3 \in 1..MaxStack /\ i - 3 \in sp - n + 1 .. sp
  BY ONLY <1>1, sp + 3 <= MaxStack, n \in 1..3
<1>4. FramedKinds(n) \in [1..MaxStack -> KindNames]
  BY ONLY <1>1, <1>3 DEF FramedKinds
<1>5. /\ \A w \in 1..sp - n : FramedKinds(n)[w] = kind[w]
      /\ FramedKinds(n)[sp + 2 - n] = EnvKind /\ FramedKinds(n)[sp + 1 - n] = "imm"
  BY ONLY <1>3 DEF FramedKinds
<1>6. \A i \in sp + 4 - n .. sp + 3 : i \in 1..MaxStack => FramedKinds(n)[i] # "dead"
  BY ONLY <1>2, <1>3 DEF FramedKinds
<1>7. ASSUME NEW i \in 1..sp + 3, sp - n < i
      PROVE  FramedKinds(n)[i] # "dead" \/ i = sp + 3 - n
  <2>1. /\ i \in 1..MaxStack
        /\ i = sp + 1 - n \/ i = sp + 2 - n \/ i = sp + 3 - n \/ i \in sp + 4 - n .. sp + 3
    BY ONLY <1>1, <1>7, sp + 3 <= MaxStack, i \in 1..sp + 3
  <2> QED BY <1>1, <1>5, <1>6, <2>1
<1> QED BY <1>4, <1>5, <1>7

LEMMA SlidKindsFacts ==
  ASSUME GInv, heap = "sound", NEW n \in Nat, Owns(n)
  PROVE  /\ SlidKinds(n) \in [1..MaxStack -> KindNames]
         /\ \A w \in 1..Base : SlidKinds(n)[w] = kind[w]
         /\ \A i \in 1..Base + n : Base < i => SlidKinds(n)[i] # "dead"
<1>1. /\ sp \in Nat /\ MaxStack \in Nat /\ sp <= MaxStack /\ Base \in Nat /\ Base <= sp - n
      /\ kind \in [1..MaxStack -> KindNames]
  BY GFacts, OwnsFacts
<1>2. \A i \in sp - n + 1 .. sp : kind[i] # "dead"
  BY GFacts, OwnedWords
<1>3. /\ \A i \in Base + 1 .. Base + n : /\ i + sp - (Base + n) \in 1..MaxStack
                                         /\ i + sp - (Base + n) \in sp - n + 1 .. sp
                                         /\ i \in 1..MaxStack
      /\ \A w \in 1..Base : w \in 1..MaxStack /\ w \notin Base + 1 .. Base + n
      /\ \A i \in 1..Base + n : Base < i => i \in Base + 1 .. Base + n
  BY ONLY <1>1, n \in Nat
<1>4. SlidKinds(n) \in [1..MaxStack -> KindNames]
  BY ONLY <1>1, <1>3 DEF SlidKinds
<1>5. \A w \in 1..Base : SlidKinds(n)[w] = kind[w]
  BY ONLY <1>3 DEF SlidKinds
<1>6. \A i \in 1..Base + n : Base < i => SlidKinds(n)[i] # "dead"
  BY ONLY <1>2, <1>3 DEF SlidKinds
<1> QED BY <1>4, <1>5, <1>6

\* The register for the environment of what is called holds its closure.
LEMMA CalledKinds ==
  ASSUME Env' \in Closures, AccuKind = "live", EnvKind' = AccuKind, UNCHANGED AccuKind,
         kind' \in [1..MaxStack -> KindNames]
  PROVE  /\ EnvKind' = "imm" <=> Env' = 0
         /\ AccuKind' # "dead" /\ EnvKind' # "dead" /\ KindsTyped'
BY ClosuresAssumption DEF KindsTyped, KindNames

LEMMA applyNKinds ==
  ASSUME GInv, heap = "sound", NEW n \in 1..MaxArgs, applyN(n), kind' = FramedKinds(n),
         AccuKind = "live", EnvKind' = AccuKind, UNCHANGED AccuKind
  PROVE  GInv'
<1>1. /\ n \in 1..3 /\ Owns(n) /\ sp + 3 <= MaxStack /\ sp' = sp + 3
      /\ stack' = Framed(n) /\ Env' \in Closures /\ calls' = Append(calls, sp + 3 - n)
      /\ UNCHANGED <<traps, pends>>
  BY DEF applyN, ApplyGuard, CallClosure
<1>2. IInv' /\ EnteredByClosure'
  BY ZStep DEF Next
<1>3. /\ kind' \in [1..MaxStack -> KindNames]
      /\ \A w \in 1..sp - n : kind'[w] = kind[w]
      /\ kind'[sp + 2 - n] = EnvKind /\ kind'[sp + 1 - n] = "imm"
      /\ \A i \in 1..sp + 3 : sp - n < i => kind'[i] # "dead" \/ i = sp + 3 - n
  BY <1>1, FramedKindsFacts
<1>4. /\ \A w \in 1..sp - n : stack'[w] = stack[w]
      /\ stack'[sp + 2 - n] = Env
      /\ sp + 3 - n \in 1..MaxStack
  BY <1>1, GFacts, FramedFacts
<1>5. PICK c \in 1..MaxStack : c = sp + 3 - n
  BY <1>4
<1>6. Returns' = Returns \cup {c} /\ Handles' = Handles /\ CodeWords' = CodeWords \cup {c}
  BY <1>1, <1>5, GFacts, FrameMade
<1>7. ReturnKinds(c)'
  <2>1. c - 1 = sp + 2 - n /\ c - 2 = sp + 1 - n
    BY <1>5, GFacts
  <2> QED BY <1>3, <1>4, <2>1, GFacts DEF ReturnKinds
<1>8. /\ sp - n \in 0..sp
      /\ \A x \in Returns \cup Handles \cup Pendings : x <= sp - n
  BY <1>1, GFacts, OwnedWords
<1>9. PICK f \in 0..sp : f = sp - n
  BY <1>8
<1>10. /\ EnvKind' = "imm" <=> Env' = 0
       /\ AccuKind' # "dead" /\ EnvKind' # "dead" /\ KindsTyped'
  BY <1>1, <1>3, CalledKinds
<1>11. \A i \in 1..sp' : f < i => kind'[i] # "dead" \/ i \in CodeWords'
  BY <1>1, <1>3, <1>5, <1>6, <1>9
<1>12. Pendings' = Pendings
  BY <1>1 DEF Pendings
<1> QED BY <1>2, <1>3, <1>4, <1>6, <1>7, <1>8, <1>9, <1>10, <1>11, <1>12, GStep

LEMMA applyKinds ==
  ASSUME GInv, heap = "sound", NEW n \in 1..MaxArgs, apply(n), UNCHANGED kind,
         AccuKind = "live", EnvKind' = AccuKind, UNCHANGED AccuKind
  PROVE  GInv'
<1>1. PICK p \in pends : pends' = pends \ {p} /\ calls' = Append(calls, p.pos)
  BY DEF apply
<1>2. UNCHANGED <<stack, sp, traps>> /\ Env' \in Closures
  BY DEF apply, CallClosure
<1>3. IInv' /\ EnteredByClosure'
  BY ZStep DEF Next
<1>4. p.pos \in Pendings /\ p.pos \in 1..MaxStack
  <2>1. p.pos \in Pendings
    BY DEF Pendings
  <2>2. p.pos \in 3..sp
    BY <2>1, GFacts, FramePlaces
  <2> QED BY <2>1, <2>2, GFacts
<1>5. PICK c \in 1..MaxStack : c = p.pos
  BY <1>4
<1>6. Returns' = Returns \cup {c} /\ Handles' = Handles /\ CodeWords' = CodeWords \cup {c}
  BY <1>1, <1>2, <1>5, GFacts, FrameMade
<1>7. ReturnKinds(c)'
  <2>1. ReturnKinds(c)
    BY <1>4, <1>5 DEF GInv, PendKinds
  <2> QED BY <1>2, <2>1 DEF ReturnKinds
<1>8. PICK f \in 0..sp : f = sp
  BY GFacts
<1>9. /\ EnvKind' = "imm" <=> Env' = 0
      /\ AccuKind' # "dead" /\ EnvKind' # "dead" /\ KindsTyped'
  <2>1. kind' \in [1..MaxStack -> KindNames]
    BY GFacts
  <2> QED BY <1>2, <2>1, CalledKinds
<1>10. Pendings' \subseteq Pendings
  BY <1>1 DEF Pendings
<1>11. \A i \in 1..sp' : ~(f < i)
  BY <1>2, <1>8, GFacts
<1> QED BY <1>2, <1>3, <1>6, <1>7, <1>8, <1>9, <1>10, <1>11, GFacts, GStep

LEMMA apptermKinds ==
  ASSUME GInv, heap = "sound", NEW n \in 1..MaxArgs, appterm(n), kind' = SlidKinds(n),
         AccuKind = "live", EnvKind' = AccuKind, UNCHANGED AccuKind
  PROVE  GInv'
<1>1. /\ InTail /\ Owns(n) /\ n \in Nat /\ sp' = Base + n /\ stack' = Slid(n)
      /\ Env' \in Closures /\ UNCHANGED layout
  BY DEF appterm, AppTermGuard, TailCallClosure
<1>2. IInv' /\ EnteredByClosure'
  BY ZStep DEF Next
<1>3. /\ kind' \in [1..MaxStack -> KindNames]
      /\ \A w \in 1..Base : kind'[w] = kind[w] /\ stack'[w] = stack[w]
      /\ \A i \in 1..sp' : Base < i => kind'[i] # "dead"
  BY <1>1, GFacts, SlidKindsFacts, SlidFacts
<1>4. PICK f \in 0..sp : f = Base
  BY GFacts, FramesBelow
<1>5. \A c \in Returns \cup Handles \cup Pendings : c <= f
  <2>1. /\ Last(calls) \in Nat /\ Base \in Nat /\ extra_args \in Nat
        /\ Base = Last(calls) + extra_args
    BY <1>1, GFacts, InTailFacts, LayoutTypes
  <2>2. \A c \in Handles \cup Pendings : c <= Last(calls) /\ c \in Int
    BY <1>1, GFacts, InTailFacts, FramePlaces DEF Handles, Pendings
  <2>3. \A c \in Returns : c <= Base
    BY GFacts, FramePlaces
  <2>4. \A c \in Handles \cup Pendings : c <= Base
    BY ONLY <2>1, <2>2
  <2> QED BY <1>4, <2>3, <2>4
<1>6. /\ EnvKind' = "imm" <=> Env' = 0
      /\ AccuKind' # "dead" /\ EnvKind' # "dead" /\ KindsTyped'
  BY <1>1, <1>3, CalledKinds
<1> QED BY <1>1, <1>2, <1>3, <1>4, <1>5, <1>6, GFlat

LEMMA ReturnIntoKinds ==
  ASSUME GInv, heap = "sound", ReturnInto, UNCHANGED kind,
         AccuKind = "live", EnvKind' = AccuKind, UNCHANGED AccuKind
  PROVE  GInv'
<1>1. InTail /\ sp' = Base /\ Env' \in Closures /\ UNCHANGED <<stack, layout>>
  BY DEF ReturnInto, TailCallClosure
<1>2. IInv' /\ EnteredByClosure'
  BY ZStep DEF Next
<1>3. /\ EnvKind' = "imm" <=> Env' = 0
      /\ AccuKind' # "dead" /\ EnvKind' # "dead" /\ KindsTyped'
  <2>1. kind' \in [1..MaxStack -> KindNames]
    BY GFacts
  <2> QED BY <1>1, <2>1, CalledKinds
<1>4. PICK f \in 0..sp : f = sp
  BY GFacts
<1>5. \A i \in 1..sp' : ~(f < i)
  <2>1. sp \in Nat /\ Base \in 0..sp
    BY GFacts, FramesBelow
  <2> QED BY <1>1, <1>4, <2>1
<1> QED BY <1>1, <1>2, <1>3, <1>4, <1>5, GFacts, GFlat

LEMMA GCallStep ==
  ASSUME GInv, heap = "sound", GCall
  PROVE  GInv'
<1>1. AccuKind = "live" /\ EnvKind' = AccuKind /\ UNCHANGED AccuKind
  BY DEF GCall
<1>2. \/ \E n \in 1..MaxArgs : \/ applyN(n) /\ kind' = FramedKinds(n)
                               \/ apply(n) /\ UNCHANGED kind
                               \/ appterm(n) /\ kind' = SlidKinds(n)
      \/ ReturnInto /\ UNCHANGED kind
  BY DEF GCall
<1> QED BY <1>1, <1>2, applyNKinds, applyKinds, apptermKinds, ReturnIntoKinds

-----------------------------------------------------------------------------
(* A raise takes the environment out of the trap frame of the handler, which
   what it has pushed in between leaves alone. *)
LEMMA GUnwindStep ==
  ASSUME GInv, heap = "sound", IInv', EnteredByClosure',
         NEW ctx, NEW memory, Unwind(ctx, memory), KeepsTraps(memory),
         ctx = NextExceptionContext \/ ctx = caml_external_raise, ctx >= 0,
         NEW K \in [1..MaxStack -> KindNames], Handled(K),
         \A w \in 1..sp : \A q \in Handles : w <= q => K[w] = kind[w]
  PROVE  GInv'
<1>1. /\ traps # <<>> /\ traps' = Front(traps) /\ calls' = SubSeq(calls, 1, Last(traps).calls)
      /\ Env' = stack[Last(traps).pos - 2] /\ sp' = Last(traps).pos - 4
      /\ pends' = {p \in pends : p.pos < Last(traps).pos}
      /\ \A w \in 1..Last(traps).pos : stack'[w] = stack[w]
  BY GFacts, UnwindFacts
<1>2. /\ Handles' \subseteq Handles /\ Last(traps).pos \in Handles
      /\ \A q \in Handles : q < Last(traps).pos => q \in Handles'
      /\ \A q \in Handles : q <= Last(traps).pos - 4 \/ q = Last(traps).pos
  BY <1>1, GFacts, HandlesCut
<1>3. /\ Last(traps).pos - 2 \in 1..sp /\ Last(traps).pos - 2 \notin CodeWords
      /\ \A c \in Returns' : c \in Returns /\ c <= Last(traps).pos
      /\ \A c \in Returns : c <= Last(traps).pos => c \in Returns'
  BY <1>1, GFacts, HandlerWord
<1>4. /\ Last(traps).pos \in 4..sp /\ sp \in Nat /\ \A q \in Handles : q \in Int
      /\ \A c \in Returns \cup Pendings : c \in Int
  BY <1>2, GFacts, FramePlaces
<1>5. PICK f \in 0..sp : f = Last(traps).pos
  BY <1>4
<1>6. /\ kind' = K /\ AccuKind' = "live" /\ EnvKind' = K[Last(traps).pos - 2]
      /\ \A w \in 1..f : kind'[w] = kind[w]
  <2>1. caml_trapsp = Last(traps).pos
    BY <1>1, GFacts DEF IInv, TrapChain
  <2>2. \A w \in 1..f : w \in 1..sp /\ w <= f
    BY ONLY <1>4, <1>5
  <2> QED BY <1>2, <1>5, <2>1, <2>2 DEF Handled
<1>7. EnvKind' = kind[Last(traps).pos - 2] /\ EnvKind' \in KindNames
  <2>1. Last(traps).pos - 2 \in 1..f /\ Last(traps).pos - 2 \in 1..MaxStack
    <3>1. sp \in 0..MaxStack /\ MaxStack \in Nat
      BY GFacts
    <3> QED BY ONLY <1>3, <1>4, <1>5, <3>1
  <2> QED BY <1>6, <2>1
<1>8. EnvKind' # "dead" /\ (EnvKind' = "imm" <=> Env' = 0)
  <2>1. HandleKinds(Last(traps).pos)
    BY <1>2, SavedKindsSets DEF GInv
  <2> QED BY <1>1, <1>3, <1>7, <2>1, GFacts DEF HandleKinds
<1>9. KindsTyped'
  BY <1>6, <1>7 DEF KindsTyped, KindNames
<1>10. \A c \in Pendings' : c \in Pendings /\ c <= f
  <2>1. \A p \in pends : p.pos < Last(traps).pos => p.pos <= Last(traps).pos
    BY <1>4, FramePlaces DEF Pendings
  <2> QED BY <1>1, <1>5, <2>1 DEF Pendings
<1>11. \A q \in Handles' : q \in Handles /\ q <= f
  <2>1. \A q \in Handles : q <= f
    BY ONLY <1>2, <1>4, <1>5
  <2> QED BY <1>2, <2>1
<1>12. \A c \in CodeWords : c <= f /\ c <= sp' => c \in CodeWords'
  <2>1. \A c \in Handles : c <= sp' => c < Last(traps).pos
    BY ONLY <1>1, <1>4
  <2>2. \A c \in Handles : c <= sp' => c \in Handles'
    BY <1>2, <2>1
  <2>3. \A c \in Returns : c <= f => c \in Returns'
    BY <1>3, <1>5
  <2> QED BY <2>2, <2>3, SavedKindsSets, SavedKindsSetsNext
<1>13. \A i \in 1..sp' : ~(f < i)
  BY ONLY <1>1, <1>4, <1>5
<1> QED BY <1>1, <1>3, <1>5, <1>6, <1>8, <1>9, <1>10, <1>11, <1>12, <1>13, GStep

LEMMA GThrowStep ==
  ASSUME GInv, heap = "sound", GThrow
  PROVE  GInv'
<1>1. ThrowCaught /\ Handled(kind) /\ Unwind(NextExceptionContext, stack)
      /\ NextExceptionContext # NULL
  BY DEF GThrow, ThrowCaught
<1>2. NextExceptionContext >= 0
  <2>1. NextExceptionContext \in -1..MaxTraps - 1 /\ MaxTraps \in Nat
    BY GFacts, BoundsAssumption DEF TypeOK
  <2> QED BY <1>1, <2>1 DEF NULL
<1>3. KeepsTraps(stack)
  BY GFacts DEF KeepsTraps
<1>4. IInv' /\ EnteredByClosure'
  BY <1>1, ZStep DEF Next
<1> QED BY <1>1, <1>2, <1>3, <1>4, GFacts, GUnwindStep

\* A raise from C code with a handler to go to
LEMMA RaiseCaught ==
  ASSUME NEW memory, RaiseFromC(memory), status' = "running"
  PROVE  Unwind(caml_external_raise, memory) /\ caml_external_raise >= 0
BY DEF RaiseFromC, End

LEMMA GCRaiseStep ==
  ASSUME GInv, heap = "sound", GCRaise
  PROVE  GInv'
<1>1. PICK a \in InPrimitive : Handled(a.words)
  BY DEF GCRaise
<1>2. CRaise /\ status' = "running" /\ sp < MaxStack
  BY DEF GCRaise, CRaise
<1>3. RaiseFromC(Saved) /\ KeepsTraps(Saved)
  BY <1>2, GFacts, CRaiseMemory
<1>4. PICK memory : memory = Saved
  OBVIOUS
<1>5. Unwind(caml_external_raise, memory) /\ caml_external_raise >= 0
  BY <1>2, <1>3, <1>4, RaiseCaught
<1>6. IInv' /\ EnteredByClosure'
  BY <1>2, ZStep DEF Next
<1>7. PICK K \in [1..MaxStack -> KindNames] : K = a.words /\ \A w \in 1..sp : K[w] = kind[w]
  BY <1>2, GFacts, PrimitiveKeeps
<1>8. Handled(K)
  BY <1>1, <1>7
<1> QED BY <1>3, <1>4, <1>5, <1>6, <1>7, <1>8, GUnwindStep

LEMMA GOverflowStep ==
  ASSUME GInv, heap = "sound", GOverflow
  PROVE  GInv'
<1>1. ASSUME NEW n \in 1..MaxArgs, OverflowInApply(n), status' = "running",
             Handled(FramedKinds(n))
      PROVE  GInv'
  <2>1. n \in Nat \ {0} /\ n \in 1..3 /\ Owns(n) /\ sp + 3 <= MaxStack
    BY <1>1 DEF OverflowInApply, ApplyGuard
  <2>2. RaiseFromC(Framed(n)) /\ KeepsTraps(Framed(n))
    BY <1>1, <2>1, GFacts, OverflowInApplyMemory
  <2>3. PICK memory : memory = Framed(n)
    OBVIOUS
  <2>4. Unwind(caml_external_raise, memory) /\ caml_external_raise >= 0
    BY <1>1, <2>2, <2>3, RaiseCaught
  <2>5. IInv' /\ EnteredByClosure'
    BY <1>1, ZStep DEF Next
  <2>6. PICK K \in [1..MaxStack -> KindNames] :
           K = FramedKinds(n) /\ \A w \in 1..sp - n : K[w] = kind[w]
    BY <2>1, FramedKindsFacts
  <2>7. ASSUME NEW w \in 1..sp, NEW q \in Handles, w <= q PROVE K[w] = kind[w]
    <3>1. q <= sp - n /\ q \in Int /\ sp \in Nat
      BY <2>1, GFacts, OwnedWords, FramePlaces
    <3>2. w \in 1..sp - n
      BY ONLY <2>1, <2>7, <3>1, w \in 1..sp
    <3> QED BY <2>6, <3>2
  <2>8. Handled(K)
    BY <1>1, <2>6
  <2> QED BY <2>2, <2>3, <2>4, <2>5, <2>7, <2>8, GUnwindStep
<1>2. ASSUME NEW n \in 1..MaxArgs, OverflowInAppTerm(n), status' = "running",
             Handled(SlidKinds(n))
      PROVE  GInv'
  <2>1. n \in Nat \ {0} /\ n \in Nat /\ Owns(n) /\ InTail
    BY <1>2 DEF OverflowInAppTerm, AppTermGuard
  <2>2. RaiseFromC(Slid(n)) /\ KeepsTraps(Slid(n))
    BY <1>2, <2>1, GFacts, OverflowInAppTermMemory
  <2>3. PICK memory : memory = Slid(n)
    OBVIOUS
  <2>4. Unwind(caml_external_raise, memory) /\ caml_external_raise >= 0
    BY <1>2, <2>2, <2>3, RaiseCaught
  <2>5. IInv' /\ EnteredByClosure'
    BY <1>2, ZStep DEF Next
  <2>6. PICK K \in [1..MaxStack -> KindNames] :
           K = SlidKinds(n) /\ \A w \in 1..Base : K[w] = kind[w]
    BY <2>1, SlidKindsFacts
  <2>7. ASSUME NEW w \in 1..sp, NEW q \in Handles, w <= q PROVE K[w] = kind[w]
    <3>1. /\ q <= Last(calls) /\ q \in Int /\ Last(calls) \in Nat /\ extra_args \in Nat
          /\ Base = Last(calls) + extra_args
      BY <2>1, GFacts, InTailFacts, LayoutTypes, FramePlaces DEF Handles
    <3>2. w \in 1..Base
      BY ONLY <2>7, <3>1, w \in 1..sp
    <3> QED BY <2>6, <3>2
  <2>8. Handled(K)
    BY <1>2, <2>6
  <2> QED BY <2>2, <2>3, <2>4, <2>5, <2>7, <2>8, GUnwindStep
<1> QED BY <1>1, <1>2 DEF GOverflow

LEMMA GCCallStep ==
  ASSUME GInv, heap = "sound", NEW n \in 1..MaxArgs, GCCall(n)
  PROVE  GInv'
<1>1. PICK a \in InPrimitive : kind' = a.words /\ EnvKind' = a.env
  BY DEF GCCall
<1>2. /\ CCall(n) /\ sp < MaxStack /\ stack' = Saved /\ sp' = sp - (n - 1)
      /\ UNCHANGED <<Env, layout>> /\ AccuKind' \in Values
  BY DEF GCCall, CCall
<1>3. IInv' /\ EnteredByClosure'
  BY <1>2, ZStep DEF Next
<1>4. /\ a.words \in [1..MaxStack -> KindNames] /\ a.env = EnvKind
      /\ \A w \in 1..sp : a.words[w] = kind[w]
  BY <1>2, GFacts, PrimitiveKeeps
<1>5. \A w \in 1..sp : stack'[w] = stack[w]
  BY <1>2, GFacts, SavedFacts
<1>6. KindsTyped' /\ AccuKind' # "dead"
  BY <1>1, <1>2, <1>4, GFacts DEF KindsTyped, KindNames, Values
<1>7. PICK f \in 0..sp : f = sp
  BY GFacts
<1>8. \A i \in 1..sp' : ~(f < i)
  BY <1>2, <1>7, GFacts
<1> QED BY <1>1, <1>2, <1>3, <1>4, <1>5, <1>6, <1>7, <1>8, GFacts, GFlat

-----------------------------------------------------------------------------
LEMMA GInitInv == GInit => GInv
<1> SUFFICES ASSUME GInit PROVE GInv
  OBVIOUS
<1>1. IInv
  BY InitInv DEF GInit
<1>2. /\ calls = <<>> /\ traps = <<>> /\ pends = {} /\ Env = 0 /\ at = "body" /\ sp = 0
      /\ kind = [i \in 1..MaxStack |-> "imm"] /\ AccuKind = "imm" /\ EnvKind = "imm"
  BY DEF GInit, Init
<1>3. KindsTyped /\ EnteredByClosure
  BY <1>2 DEF KindsTyped, KindNames, EnteredByClosure
<1>4. Returns = {} /\ Handles = {} /\ Pendings = {}
  BY <1>2 DEF Returns, Handles, Pendings
<1>5. SavedKinds /\ PendKinds
  BY <1>2, <1>4, SavedKindsSets DEF PendKinds
<1>6. NothingReadIsDead
  BY <1>2 DEF NothingReadIsDead
<1> QED BY <1>1, <1>3, <1>5, <1>6 DEF GInv

LEMMA GNextInv == GInv /\ [GNext]_allvars => GInv'
<1> SUFFICES ASSUME GInv, [GNext]_allvars PROVE GInv'
  OBVIOUS
<1>1. CASE UNCHANGED allvars
  <2>1. /\ UNCHANGED <<vars, kind, AccuKind, EnvKind, heap, stack, Env, sp, at>>
        /\ UNCHANGED <<calls, traps, pends>>
    BY <1>1 DEF allvars, kinds, vars, machine, layout
  <2>2. IInv' /\ EnteredByClosure'
    BY <2>1, ZStep
  <2>3. KindsTyped' /\ NothingReadIsDead' /\ SavedKinds' /\ PendKinds'
    BY <2>1 DEF GInv, KindsTyped, NothingReadIsDead, CodeWords, SavedKinds, PendKinds,
                Pendings, ReturnKinds
  <2> QED BY <2>2, <2>3 DEF GInv
<1>2. CASE GNext
  <2>1. heap = "sound"
    BY <1>2 DEF GNext
  <2>2. ASSUME NEW n \in 1..MaxArgs,
               makeBlock(n) \/ GGrabPartial(n) \/ GRestart(n) \/ GCCall(n)
        PROVE  GInv'
    <3>1. n \in Nat \ {0}
      OBVIOUS
    <3> QED BY <2>1, <2>2, <3>1, makeBlockStep, GGrabPartialStep, GRestartStep, GCCallStep
  <2>3. ASSUME NEW n \in 0..MaxArgs, closure(n) \/ \E m \in 1..2 : closureRec(n, m)
        PROVE  GInv'
    <3>1. PICK m \in Nat : MakeClosure(n, m)
      BY <2>3 DEF closure, closureRec
    <3> QED BY <2>1, <3>1, MakeClosureStep
  <2>4. CASE Load \/ GPush \/ Quiet
    BY <2>1, <2>4, LoadStep, GPushStep, QuietStep
  <2>5. CASE GPushRetAddr \/ GCall \/ GReturn
    BY <2>1, <2>5, GPushRetAddrStep, GCallStep, GReturnStep
  <2>6. CASE GPushTrap \/ GThrow \/ GCRaise \/ GOverflow
    BY <2>1, <2>6, GPushTrapStep, GThrowStep, GCRaiseStep, GOverflowStep
  <2> QED BY <1>2, <2>2, <2>3, <2>4, <2>5, <2>6 DEF GNext
<1> QED BY <1>1, <1>2

(* The kinds and the layout of the stack hold together in every state GcRoots
   reaches, whatever allocates, calls or raises: makeBlock, closure, apply,
   restart, handleReturn and getExceptionValue included. *)
THEOREM RootsInvariance == GSpec => []GInv
BY GInitInv, GNextInv, PTL DEF GSpec

(* While the heap is sound, no register and no word that will be read is a
   pointer a collection missed: Setup_for_gc and Setup_for_c_call put the
   registers where the collector looks, and the instructions of CStdLib.c never
   read the words of code pointers that apply and pushTrap skip. *)
THEOREM NothingDead == GSpec => []NothingReadIsDead
<1>1. GInv => NothingReadIsDead
  BY DEF GInv
<1> QED BY <1>1, RootsInvariance, PTL

(* Wherever an environment is saved, the word is a pointer; a count of
   arguments or the link of a trap frame never is. *)
THEOREM SavedKindsCorrect == GSpec => []SavedKinds
<1>1. GInv => SavedKinds
  BY DEF GInv
<1> QED BY <1>1, RootsInvariance, PTL

=============================================================================

--------------------------- MODULE CodeGenProofs ---------------------------
(***************************************************************************)
(* Proofs about CodeGen, for every set of programs that are laid out the   *)
(* way ocamlc does it (ProgramsAssumption, JumpsAssumption).               *)
(***************************************************************************)
EXTENDS CodeGen, GenModuleCreatorProofs, WellFoundedInduction

(* The calls of CodeGen: which functions are generated and how far.  What is
   said of one is said of the program p, its functions F and the set M of those
   that have been asked for. *)

Frame == [fn : Nat, block : Nat, k : Nat, j : Nat]

InstsOf(F, r) == F[r.fn][r.block].Instructions

\* The k-th instruction of s is a closure.
AtClosure(p, s, k) == k \in 1..Len(s) /\ p[s[k] + 1].op = "CLOSURE"

AllClosed(p, s, M) == \A i \in Range(s) : Closed(p, i) \subseteq M

FrameOK(p, F, M, r) ==
  /\ r.fn \in M /\ r.block \in DOMAIN F[r.fn] /\ r.k <= Len(InstsOf(F, r)) + 1
  /\ \A b \in DOMAIN F[r.fn] : b < r.block => AllClosed(p, F[r.fn][b].Instructions, M)
  /\ \A m \in 1 .. r.k - 1 : Closed(p, InstsOf(F, r)[m]) \subseteq M
  /\ IF AtClosure(p, InstsOf(F, r), r.k)
     THEN LET d == p[InstsOf(F, r)[r.k] + 1].dests
          IN r.j < Len(d) /\ \A m \in 1..r.j : d[m] \in M
     ELSE r.j = 0

Frames ==
  /\ phase \in {"create", "emit", "compiled"}
  /\ phase = "create" => made = {} /\ active = <<>>
  /\ phase # "create" => pc = "done"
  /\ phase = "emit" <=> active # <<>>
  /\ made \subseteq DOMAIN Functions
  /\ active \in Seq(Frame)
  /\ \A m \in 1..Len(active) : FrameOK(code, Functions, made, active[m])
  /\ \A m \in 1 .. Len(active) - 1 : AtClosure(code, InstsOf(Functions, active[m]), active[m].k)
  /\ \A m, l \in 1..Len(active) : active[m].fn = active[l].fn => m = l
  /\ \A f \in made : \/ \E m \in 1..Len(active) : active[m].fn = f
                     \/ \A b \in DOMAIN Functions[f] :
                          AllClosed(code, Functions[f][b].Instructions, made)

-----------------------------------------------------------------------------
(* The passes before *)

LEMMA PassesNext ==
  ASSUME [CNext]_allvars
  PROVE  [Next]_vars
  BY DEF CNext, allvars, Create, Compile, BeginBlock, EmitPlain, EmitGrab, EmitPushTrap,
         EmitReturn, EmitEnd, EmitJump, GenerateFunction, EmitClosure, EndBlock, vars

\* No block has the first instruction of another.
Apart(G) == \A b \in DOMAIN G : \A i \in Range(G[b].Instructions) : i \in DOMAIN G => i = b

Separate ==
  /\ pc = "done" => MAIN \in DOMAIN Functions
  /\ pc \in {"generateFunction", "removeUnusedBlocks"} => Apart(Blocks)
  /\ \A f \in DOMAIN Functions : Apart(Functions[f])

LEMMA ApartFilled ==
  ASSUME GInv, Apart(Blocks), Fill
  PROVE  Apart(Blocks')
<1>1. Types /\ Filling /\ pc = "generateFunction" /\ FuncInsts # <<>> /\ FuncInsts \in Seq(Indices)
  BY DEF GInv, Types, Fill
<1>2. PICK i \in Indices : i = Head(FuncInsts) /\ i = FuncInsts[1]
  BY <1>1, Entering
<1>3. PICK b \in DOMAIN Blocks : b = Enters(i)
  BY <1>1, <1>2, Entering
<1>4. /\ DOMAIN Blocks' = DOMAIN Blocks
      /\ \A x \in DOMAIN Blocks : Blocks'[x].Instructions =
           IF x = b THEN Append(Blocks[x].Instructions, i) ELSE Blocks[x].Instructions
  <2>1. CBlock # NoBlock => CBlock \in DOMAIN Blocks
    BY <1>1, Entering
  <2> QED
    BY <2>1, <1>1, <1>2, <1>3, FillParts
<1>5. i \in DOMAIN Blocks => i = b
  <2>1. 1 \in 1..Len(FuncInsts)
    BY <1>1
  <2>2. Annotation[i] = "BLOCK_START" <=> i \in DOMAIN Blocks
    BY <2>1, <1>1, <1>2 DEF Filling
  <2> QED
    BY <2>2, <1>3 DEF Enters
<1>6. ASSUME NEW x \in DOMAIN Blocks, NEW j \in Range(Blocks'[x].Instructions), j \in DOMAIN Blocks
      PROVE  j = x
  <2>1. Blocks[x].Instructions \in Seq(Indices)
    BY <1>1, BlockTypes DEF Types
  <2>2. Range(Append(Blocks[x].Instructions, i)) = Range(Blocks[x].Instructions) \cup {i}
    BY <2>1, AppendParts
  <2>3. CASE j \in Range(Blocks[x].Instructions)
    BY <2>3, <1>6 DEF Apart
  <2>4. CASE x = b /\ j = i
    BY <2>4, <1>5, <1>6
  <2>5. j \in Range(Blocks[x].Instructions) \/ (x = b /\ j = i)
    <3>1. CASE x = b
      BY <3>1, <2>2, <1>4, <1>6
    <3>2. CASE x # b
      BY <3>2, <1>4, <1>6
    <3> QED
      BY <3>1, <3>2
  <2> QED
    BY <2>3, <2>4, <2>5
<1> QED
  BY <1>4, <1>6 DEF Apart

LEMMA ApartPruned ==
  ASSUME NEW G, IsGraph(G), NEW f, Linkage(G, f), Apart(G)
  PROVE  Apart(Without(G, Unused(G)))
<1>1. PICK H : H = Without(G, Unused(G))
  OBVIOUS
<1>2. /\ DOMAIN H = DOMAIN G \ Unused(G)
      /\ \A b \in DOMAIN H : b \in DOMAIN G /\ H[b].Instructions = G[b].Instructions
  BY <1>1, WithoutParts
<1>3. Apart(H)
  BY <1>2 DEF Apart
<1> QED
  BY <1>1, <1>3

LEMMA SeparateNext ==
  ASSUME GInv, Separate, [Next]_vars
  PROVE  Separate'
<1>1. CASE Fill
  <2>1. pc = "generateFunction" /\ pc' = pc /\ Functions' = Functions
    BY <1>1 DEF Fill
  <2>2. Apart(Blocks')
    BY <1>1, <2>1, ApartFilled DEF Separate
  <2> QED
    BY <2>1, <2>2 DEF Separate, Apart
<1>2. CASE Prune
  <2>1. /\ pc = "removeUnusedBlocks" /\ Blocks' = Without(Blocks, Unused(Blocks))
        /\ \/ pc' = pc /\ Functions' = Functions
           \/ /\ Functions' = [f \in DOMAIN Functions \cup {Fn} |-> IF f = Fn THEN Blocks' ELSE Functions[f]]
              /\ pc' = IF Fn = MAIN THEN "done" ELSE "generate"
    BY <1>2 DEF Prune
  <2>2. IsGraph(Blocks) /\ Linkage(Blocks, Fn)
    BY <2>1 DEF GInv, Types, Pruning, Finished
  <2>3. Apart(Blocks')
    BY <2>1, <2>2, ApartPruned DEF Separate
  <2>4. \A f \in DOMAIN Functions' : Apart(Functions'[f])
    BY <2>1, <2>3 DEF Separate
  <2>5. pc' = "done" => MAIN \in DOMAIN Functions'
    BY <2>1 DEF Separate
  <2> QED
    BY <2>3, <2>4, <2>5 DEF Separate, Apart
<1>3. CASE MakeBlocks
  <2>1. /\ pc' = "generateFunction" /\ Functions' = Functions
        /\ \A b \in DOMAIN Blocks' : Blocks'[b] = Empty
    BY <1>3 DEF MakeBlocks
  <2>2. Range(Empty.Instructions) = {}
    BY EmptySequence DEF Empty
  <2>3. Apart(Blocks')
    BY <2>1, <2>2 DEF Apart
  <2> QED
    BY <2>1, <2>3 DEF Separate, Apart
<1>4. CASE Filled
  <2>1. pc = "generateFunction" /\ pc' = "removeUnusedBlocks" /\ Functions' = Functions /\ Blocks' = Blocks
    BY <1>4 DEF Filled, graph
  <2> QED
    BY <2>1 DEF Separate, Apart
<1>5. CASE UNCHANGED vars
  BY <1>5 DEF vars, graph, Separate, Apart
<1>6. CASE pc' \notin {"done", "generateFunction", "removeUnusedBlocks"} /\ Functions' = Functions
  BY <1>6 DEF Separate, Apart
<1>7. \/ Fill \/ Prune \/ MakeBlocks \/ Filled \/ UNCHANGED vars
      \/ pc' \notin {"done", "generateFunction", "removeUnusedBlocks"} /\ Functions' = Functions
  BY DEF Next, Annotate, StartFunction, LeaveToMain, StartMain, TakeInst, Sift, Sifted, NullBlock
<1> QED
  BY <1>1, <1>2, <1>3, <1>4, <1>5, <1>6, <1>7

LEMMA SeparateAlways == CSpec => [](GInv /\ Separate)
<1>1. CInit => GInv /\ Separate
  <2>1. Init => Separate
    BY DEF Init, Separate
  <2> QED
    BY <2>1, GInvInit DEF CInit
<1>2. GInv /\ Separate /\ [CNext]_allvars => GInv' /\ Separate'
  BY PassesNext, GInvNext, SeparateNext
<1> QED
  BY <1>1, <1>2, PTL DEF CSpec

LEMMA SmallestIndex ==
  ASSUME NEW S \in SUBSET Nat, S # {}
  PROVE  \E x \in S : \A y \in S : x <= y
<1>1. PICK R : R = OpToRel(<, Nat)
  OBVIOUS
<1>2. IsWellFoundedOn(R, Nat)
  BY <1>1, NatLessThanWellFounded
<1>3. PICK x \in S : \A y \in S : <<y, x>> \notin R
  BY <1>2, WFMin
<1>4. \A y \in Nat : y < x => <<y, x>> \in R
  BY <1>1 DEF OpToRel
<1>5. ASSUME NEW y \in S PROVE x <= y
  <2>1. x \in Nat /\ y \in Nat
    OBVIOUS
  <2>2. ~(y < x)
    BY <1>3, <1>4, <2>1
  <2> QED
    BY ONLY <2>1, <2>2
<1> QED
  BY <1>5

LEMMA LowestIs ==
  ASSUME GInv, NEW f \in DOMAIN Functions
  PROVE  Lowest(f) = f /\ f \in DOMAIN Functions[f]
<1>1. /\ f \in DOMAIN Functions[f] /\ \A b \in DOMAIN Functions[f] : f <= b
      /\ DOMAIN Functions[f] \subseteq Nat
  BY DEF GInv, Made, Finished, Linkage, Types, IsGraph, Indices
<1>2. \E b \in DOMAIN Functions[f] : \A a \in DOMAIN Functions[f] : b <= a
  BY <1>1
<1>3. Lowest(f) \in DOMAIN Functions[f] /\ \A a \in DOMAIN Functions[f] : Lowest(f) <= a
  BY <1>2 DEF Lowest
<1>4. Lowest(f) \in Nat /\ f \in Nat /\ Lowest(f) <= f /\ f <= Lowest(f)
  BY <1>1, <1>3
<1> QED
  BY <1>1, <1>4

LEMMA NextBlockIs ==
  ASSUME GInv, NEW f \in DOMAIN Functions, NEW b \in Nat, Above(f, b) # {}
  PROVE  /\ NextBlock(f, b) \in DOMAIN Functions[f] /\ b < NextBlock(f, b)
         /\ \A a \in DOMAIN Functions[f] : b < a => NextBlock(f, b) <= a
<1>1. DOMAIN Functions[f] \subseteq Nat
  BY DEF GInv, Types, IsGraph, Indices
<1>2. Above(f, b) \in SUBSET Nat /\ \A a : a \in Above(f, b) <=> a \in DOMAIN Functions[f] /\ a > b
  BY <1>1 DEF Above
<1>3. \E a \in Above(f, b) : \A c \in Above(f, b) : a <= c
  BY <1>2, SmallestIndex
<1>4. NextBlock(f, b) \in Above(f, b) /\ \A c \in Above(f, b) : NextBlock(f, b) <= c
  BY <1>3 DEF NextBlock
<1>5. \A c \in DOMAIN Functions[f] : b < c => c > b
  BY <1>1
<1>6. NextBlock(f, b) \in Nat /\ NextBlock(f, b) > b
  BY <1>1, <1>2, <1>4
<1> QED
  BY <1>2, <1>4, <1>5, <1>6

-----------------------------------------------------------------------------
(* Stacks *)

LEMMA ReplaceLast ==
  ASSUME NEW S, NEW s \in Seq(S), s # <<>>, NEW x \in S, NEW t, t = [s EXCEPT ![Len(s)] = x]
  PROVE  /\ t \in Seq(S) /\ Len(t) = Len(s) /\ t # <<>> /\ Len(s) \in Nat /\ Len(s) > 0
         /\ t[Len(s)] = x /\ \A m \in 1 .. Len(s) - 1 : t[m] = s[m]
  OBVIOUS

LEMMA RemoveLast ==
  ASSUME NEW S, NEW s \in Seq(S), s # <<>>, NEW t, t = SubSeq(s, 1, Len(s) - 1)
  PROVE  /\ t \in Seq(S) /\ Len(t) = Len(s) - 1 /\ Len(s) \in Nat /\ Len(s) > 0
         /\ \A m \in 1 .. Len(s) - 1 : t[m] = s[m]
<1>1. Len(s) \in Nat /\ Len(s) > 0
  OBVIOUS
<1>2. PICK d \in 0..Len(s) : d = Len(s) - 1
  BY <1>1
<1>3. /\ SubSeq(s, 1, d) \in Seq(S) /\ Len(SubSeq(s, 1, d)) = d
      /\ \A m \in 1..d : SubSeq(s, 1, d)[m] = s[m]
  OBVIOUS
<1> QED
  BY <1>1, <1>2, <1>3

\* The call r, with other k and j
Moved(r, k, j) == [fn |-> r.fn, block |-> r.block, k |-> k, j |-> j]

LEMMA FrameFields ==
  ASSUME NEW r \in Frame
  PROVE  /\ r.fn \in Nat /\ r.block \in Nat /\ r.k \in Nat /\ r.j \in Nat
         /\ [r EXCEPT !.k = 1] = Moved(r, 1, r.j)
         /\ [r EXCEPT !.k = @ + 1, !.j = 0] = Moved(r, r.k + 1, 0)
         /\ [r EXCEPT !.j = @ + 1] = Moved(r, r.k, r.j + 1)
<1>1. r.fn \in Nat /\ r.block \in Nat /\ r.k \in Nat /\ r.j \in Nat
  BY DEF Frame
<1>2. [r EXCEPT !.k = 1] = Moved(r, 1, r.j)
  BY DEF Frame, Moved
<1>3. [r EXCEPT !.j = @ + 1] = Moved(r, r.k, r.j + 1)
  BY DEF Frame, Moved
<1>4. [r EXCEPT !.k = @ + 1, !.j = 0] = Moved(r, r.k + 1, 0)
  <2>1. PICK q : q = [r EXCEPT !.k = @ + 1]
    OBVIOUS
  <2>2. q = Moved(r, r.k + 1, r.j) /\ q \in Frame
    BY <2>1 DEF Frame, Moved
  <2>3. [q EXCEPT !.j = 0] = Moved(q, q.k, 0)
    BY <2>2 DEF Frame, Moved
  <2>4. Moved(q, q.k, 0) = Moved(r, r.k + 1, 0)
    BY <2>2 DEF Moved
  <2> QED
    BY <2>1, <2>3, <2>4
<1> QED
  BY <1>1, <1>2, <1>3, <1>4

LEMMA MovedFields ==
  ASSUME NEW r \in Frame, NEW k \in Nat, NEW j \in Nat
  PROVE  /\ Moved(r, k, j) \in Frame /\ Moved(r, k, j).fn = r.fn /\ Moved(r, k, j).block = r.block
         /\ Moved(r, k, j).k = k /\ Moved(r, k, j).j = j
  BY DEF Frame, Moved

LEMMA NewFrame ==
  ASSUME NEW f \in Nat, NEW b \in Nat, NEW q, q = [fn |-> f, block |-> b, k |-> 0, j |-> 0]
  PROVE  q \in Frame /\ q.fn = f /\ q.block = b /\ q.k = 0 /\ q.j = 0
  BY DEF Frame

-----------------------------------------------------------------------------
(* A step of the generator *)

LEMMA FrameTop ==
  ASSUME GInv, Frames, phase = "emit"
  PROVE  /\ active \in Seq(Frame) /\ active # <<>> /\ Len(active) \in Nat /\ Len(active) > 0
         /\ Top = active[Len(active)] /\ Top \in Frame /\ FrameOK(code, Functions, made, Top)
         /\ f_ \in made /\ f_ \in DOMAIN Functions /\ b_ \in DOMAIN Functions[f_]
         /\ f_ = Top.fn /\ b_ = Top.block /\ f_ \in Nat /\ b_ \in Nat
         /\ Insts = InstsOf(Functions, Top) /\ Insts \in Seq(Indices) /\ Insts # <<>>
         /\ Len(Insts) \in Nat /\ Len(Insts) > 0
         /\ Top.k \in Nat /\ Top.j \in Nat /\ Top.k <= Len(Insts) + 1
<1>1. active \in Seq(Frame) /\ active # <<>>
  BY DEF Frames
<1>2. Len(active) \in Nat /\ Len(active) > 0 /\ Len(active) \in 1..Len(active)
  BY <1>1
<1>3. Top = active[Len(active)] /\ f_ = Top.fn /\ b_ = Top.block
  BY DEF Top, Last, f_, b_
<1>4. Top \in Frame
  BY <1>1, <1>2, <1>3
<1>5. FrameOK(code, Functions, made, Top)
  BY <1>2, <1>3 DEF Frames
<1>6. Insts = InstsOf(Functions, Top)
  BY DEF Insts, InstsOf, f_, b_
<1>7. f_ \in made /\ b_ \in DOMAIN Functions[f_] /\ Top.k <= Len(Insts) + 1
  BY <1>3, <1>5, <1>6 DEF FrameOK
<1>8. f_ \in DOMAIN Functions
  BY <1>7 DEF Frames
<1>9. Insts \in Seq(Indices) /\ Insts # <<>> /\ Len(Insts) \in Nat /\ Len(Insts) \in 1..Len(Insts)
  BY <1>7, <1>8, MadeParts DEF Insts
<1>10. Top.fn \in Nat /\ Top.block \in Nat /\ Top.k \in Nat /\ Top.j \in Nat
  BY <1>4, FrameFields
<1> QED
  BY <1>1, <1>2, <1>3, <1>4, <1>5, <1>6, <1>7, <1>8, <1>9, <1>10

LEMMA MoreMade ==
  ASSUME NEW p, NEW F, NEW M, NEW N, M \subseteq N
  PROVE  /\ \A s : AllClosed(p, s, M) => AllClosed(p, s, N)
         /\ \A r : FrameOK(p, F, M, r) => FrameOK(p, F, N, r)
<1>1. \A s : AllClosed(p, s, M) => AllClosed(p, s, N)
  BY DEF AllClosed
<1>2. ASSUME NEW r, FrameOK(p, F, M, r) PROVE FrameOK(p, F, N, r)
  BY <1>1, <1>2 DEF FrameOK
<1> QED
  BY <1>1, <1>2

\* The innermost call goes on, in the same function.
LEMMA ReplaceTop ==
  ASSUME GInv, Frames, phase = "emit", UNCHANGED <<phase, pc, code, Functions, made>>,
         NEW r \in Frame, r.fn = f_, FrameOK(code, Functions, made, r), active' = WithTop(r)
  PROVE  Frames'
<1>1. PICK n : n = Len(active)
  OBVIOUS
<1>2. /\ active \in Seq(Frame) /\ active # <<>> /\ n \in Nat /\ n > 0 /\ Top = active[n]
      /\ f_ = active[n].fn
  BY <1>1, FrameTop
<1>3. /\ active' \in Seq(Frame) /\ Len(active') = n /\ active' # <<>>
      /\ active'[n] = r /\ \A m \in 1 .. n - 1 : active'[m] = active[m]
  BY <1>1, <1>2, ReplaceLast DEF WithTop
<1>4. ASSUME NEW m \in 1..n PROVE m \in 1 .. n - 1 \/ m = n
  BY <1>2
<1>5. \A m \in 1..n : active'[m].fn = active[m].fn
  BY <1>2, <1>3, <1>4
<1>6. \A m \in 1..n : FrameOK(code, Functions, made, active'[m])
  BY <1>1, <1>3, <1>4 DEF Frames
<1>7. \A m \in 1 .. n - 1 : AtClosure(code, InstsOf(Functions, active'[m]), active'[m].k)
  BY <1>1, <1>3 DEF Frames
<1>8. \A m, l \in 1..n : active'[m].fn = active'[l].fn => m = l
  BY <1>1, <1>5 DEF Frames
<1>9. \A f \in made : \/ \E m \in 1..n : active'[m].fn = f
                      \/ \A b \in DOMAIN Functions[f] :
                           AllClosed(code, Functions[f][b].Instructions, made)
  BY <1>1, <1>5 DEF Frames
<1> QED
  BY <1>1, <1>3, <1>6, <1>7, <1>8, <1>9 DEF Frames

\* It is done with one instruction.
LEMMA AdvanceStep ==
  ASSUME GInv, Frames, phase = "emit", UNCHANGED <<phase, pc, code, Functions, made>>,
         Top.k \in 1..Len(Insts), Closed(code, Current) \subseteq made, active' = Advanced
  PROVE  Frames'
<1> DEFINE r == [Top EXCEPT !.k = @ + 1, !.j = 0]
<1>1. /\ Top \in Frame /\ Top.k \in Nat /\ FrameOK(code, Functions, made, Top)
      /\ Insts = InstsOf(Functions, Top) /\ f_ = Top.fn /\ Len(Insts) \in Nat
  BY FrameTop
<1>2. r = Moved(Top, Top.k + 1, 0)
  BY <1>1, FrameFields
<1> HIDE DEF r
<1>3. r \in Frame /\ r.fn = Top.fn /\ r.block = Top.block /\ r.k = Top.k + 1 /\ r.j = 0
  <2>1. Top.fn \in Nat /\ Top.block \in Nat
    BY FrameTop
  <2>2. Top.k + 1 \in Nat
    BY ONLY <1>1
  <2> QED
    BY ONLY <2>1, <2>2, <1>2 DEF Moved, Frame
<1>4. InstsOf(Functions, r) = Insts
  BY <1>1, <1>3 DEF InstsOf
<1>5. \A m \in 1 .. r.k - 1 : Closed(code, Insts[m]) \subseteq made
  <2>1. \A m \in 1 .. Top.k - 1 : Closed(code, Insts[m]) \subseteq made
    BY <1>1 DEF FrameOK
  <2>2. \A m \in 1 .. r.k - 1 : m \in 1 .. Top.k - 1 \/ m = Top.k
    BY <1>1, <1>3
  <2> QED
    BY <2>1, <2>2 DEF Current
<1>6. ASSUME AtClosure(code, Insts, r.k)
      PROVE  r.j < Len(code[Insts[r.k] + 1].dests)
  <2>1. r.k \in 1..Len(Insts) /\ code[Insts[r.k] + 1].op = "CLOSURE"
    BY <1>6 DEF AtClosure
  <2>2. Insts[r.k] \in Indices
    BY <2>1, FrameTop
  <2>3. /\ Op(Insts[r.k]) = "CLOSURE" /\ Dests(Insts[r.k]) = code[Insts[r.k] + 1].dests
    BY <2>1 DEF Op, Dests
  <2>4. code \in Programs
    BY DEF GInv, Types
  <2>5. Dests(Insts[r.k]) # <<>> /\ Dests(Insts[r.k]) \in Seq(Nat)
    BY <2>2, <2>3, <2>4, CodeTypes, TargetTypes
  <2>6. Len(Dests(Insts[r.k])) > 0
    BY ONLY <2>5
  <2> QED
    BY <2>3, <2>6, <1>3
<1>7. \A m \in 1..r.j : code[Insts[r.k] + 1].dests[m] \in made
  BY <1>3
<1>8. FrameOK(code, Functions, made, r)
  <2>1. r.fn \in made /\ r.block \in DOMAIN Functions[r.fn]
    BY <1>1, <1>3 DEF FrameOK
  <2>2. \A b \in DOMAIN Functions[r.fn] : b < r.block => AllClosed(code, Functions[r.fn][b].Instructions, made)
    BY <1>1, <1>3 DEF FrameOK
  <2>3. r.k <= Len(Insts) + 1
    BY <1>1, <1>3
  <2> QED
    BY <2>1, <2>2, <2>3, <1>3, <1>4, <1>5, <1>6, <1>7 DEF FrameOK
<1>9. active' = WithTop(r)
  BY DEF Advanced, r
<1> QED
  BY <1>1, <1>3, <1>8, <1>9, ReplaceTop

\* getPtrToFunc calls CodeGen.
LEMMA PushStep ==
  ASSUME GInv, Frames, GenerateFunction
  PROVE  Frames'
<1>1. PICK n : n = Len(active)
  OBVIOUS
<1>2. PICK g : g = Wanted
  OBVIOUS
<1>3. PICK r : r = Starting(g)
  OBVIOUS
<1>4. /\ phase = "emit" /\ Top.k \in 1..Len(Insts) /\ Op(Current) = "CLOSURE"
      /\ g \notin made /\ g \in DOMAIN Functions
      /\ made' = made \cup {g} /\ active' = Append(active, r)
      /\ UNCHANGED <<phase, pc, code, Functions>>
  BY <1>2, <1>3 DEF GenerateFunction, At, vars
<1>5. /\ active \in Seq(Frame) /\ n \in Nat /\ n > 0 /\ Top = active[n] /\ Insts = InstsOf(Functions, Top)
  BY <1>1, <1>4, FrameTop
<1>6. Lowest(g) = g /\ g \in DOMAIN Functions[g] /\ g \in Nat /\ \A b \in DOMAIN Functions[g] : g <= b
  <2>1. g \in Nat
    BY <1>4 DEF GInv, Types, Indices
  <2>2. \A b \in DOMAIN Functions[g] : g <= b
    BY <1>4 DEF GInv, Made, Finished, Linkage
  <2> QED
    BY <2>1, <2>2, <1>4, LowestIs
<1>7. r \in Frame /\ r.fn = g /\ r.block = g /\ r.k = 0 /\ r.j = 0
  <2>1. r = [fn |-> g, block |-> g, k |-> 0, j |-> 0]
    BY <1>3, <1>6 DEF Starting
  <2> QED
    BY <2>1, <1>6, NewFrame
<1>8. /\ active' \in Seq(Frame) /\ Len(active') = n + 1 /\ active' # <<>> /\ active'[n + 1] = r
      /\ \A m \in 1..n : active'[m] = active[m]
  BY <1>1, <1>4, <1>5, <1>7, AppendParts
<1>9. FrameOK(code, Functions, made', r)
  <2>1. ~AtClosure(code, InstsOf(Functions, r), r.k)
    BY <1>7 DEF AtClosure
  <2>2. r.fn \in made' /\ r.block \in DOMAIN Functions[r.fn]
    BY <1>4, <1>6, <1>7
  <2>3. r.k <= Len(InstsOf(Functions, r)) + 1
    <3>1. Len(Functions[g][g].Instructions) \in Nat
      BY <1>4, <1>6, MadeParts
    <3> QED
      BY <3>1, <1>7 DEF InstsOf
  <2>4. \A b \in DOMAIN Functions[r.fn] : ~(b < r.block)
    <3>1. DOMAIN Functions[g] \subseteq Nat
      BY <1>4 DEF GInv, Types, IsGraph, Indices
    <3> QED
      BY <3>1, <1>6, <1>7
  <2>5. \A m \in 1 .. r.k - 1 : FALSE
    BY <1>7
  <2> QED
    BY <2>1, <2>2, <2>3, <2>4, <2>5, <1>7 DEF FrameOK
<1>10. ASSUME NEW m \in 1 .. n + 1 PROVE m \in 1..n \/ m = n + 1
  BY <1>5
<1>11. \A m \in 1..n : active[m].fn # g
  BY <1>1, <1>4 DEF Frames, FrameOK
<1>12. \A m \in 1 .. n + 1 : FrameOK(code, Functions, made', active'[m])
  <2>1. \A m \in 1..n : FrameOK(code, Functions, made', active[m])
    <3>1. \A m \in 1..n : FrameOK(code, Functions, made, active[m])
      BY <1>1 DEF Frames
    <3>2. made \subseteq made'
      BY <1>4
    <3> QED
      BY <3>1, <3>2, MoreMade
  <2> QED
    BY <2>1, <1>8, <1>9, <1>10
<1>13. \A m \in 1..n : AtClosure(code, InstsOf(Functions, active'[m]), active'[m].k)
  <2>1. AtClosure(code, InstsOf(Functions, active[n]), active[n].k)
    BY <1>4, <1>5 DEF AtClosure, Op, Current
  <2>2. \A m \in 1 .. n - 1 : AtClosure(code, InstsOf(Functions, active[m]), active[m].k)
    BY <1>1 DEF Frames
  <2>3. \A m \in 1..n : m \in 1 .. n - 1 \/ m = n
    BY <1>5
  <2> QED
    BY <2>1, <2>2, <2>3, <1>8
<1>14. \A m, l \in 1 .. n + 1 : active'[m].fn = active'[l].fn => m = l
  <2>1. \A m, l \in 1..n : active[m].fn = active[l].fn => m = l
    BY <1>1 DEF Frames
  <2> QED
    BY <2>1, <1>7, <1>8, <1>10, <1>11
<1>15. \A f \in made' : \/ \E m \in 1 .. n + 1 : active'[m].fn = f
                        \/ \A b \in DOMAIN Functions[f] :
                             AllClosed(code, Functions[f][b].Instructions, made')
  <2> SUFFICES ASSUME NEW f \in made'
               PROVE  \/ \E m \in 1 .. n + 1 : active'[m].fn = f
                      \/ \A b \in DOMAIN Functions[f] :
                           AllClosed(code, Functions[f][b].Instructions, made')
    OBVIOUS
  <2>1. CASE f = g
    <3>1. n + 1 \in 1 .. n + 1
      BY <1>5
    <3> QED
      BY <3>1, <2>1, <1>7, <1>8
  <2>2. CASE f \in made
    <3>1. CASE \E m \in 1..n : active[m].fn = f
      <4>1. PICK m \in 1..n : active[m].fn = f
        BY <3>1
      <4>2. m \in 1 .. n + 1
        BY <1>5
      <4> QED
        BY <4>1, <4>2, <1>8
    <3>2. CASE \A b \in DOMAIN Functions[f] : AllClosed(code, Functions[f][b].Instructions, made)
      <4>1. made \subseteq made'
        BY <1>4
      <4> QED
        BY <3>2, <4>1, MoreMade
    <3> QED
      BY <2>2, <3>1, <3>2, <1>1 DEF Frames
  <2> QED
    BY <2>1, <2>2, <1>4
<1> QED
  <2>1. made' \subseteq DOMAIN Functions
    BY <1>4 DEF Frames
  <2>2. (n + 1) - 1 = n
    BY <1>5
  <2>3. phase' = "emit" /\ pc' = "done"
    BY <1>4 DEF Frames
  <2> QED
    BY <2>1, <2>2, <2>3, <1>4, <1>8, <1>12, <1>13, <1>14, <1>15 DEF Frames

\* The next function of a closure is there, or the last.
LEMMA ClosureStep ==
  ASSUME GInv, Frames, EmitClosure
  PROVE  Frames'
<1>1. /\ phase = "emit" /\ Top.k \in 1..Len(Insts) /\ Op(Current) = "CLOSURE"
      /\ Wanted \in made /\ UNCHANGED <<phase, pc, code, Functions, made>>
  BY DEF EmitClosure, At, vars
<1>2. PICK d : d = Dests(Current)
  OBVIOUS
<1>3. PICK n : n = Len(d)
  OBVIOUS
<1>4. /\ Top \in Frame /\ Top.k \in Nat /\ Top.j \in Nat /\ FrameOK(code, Functions, made, Top)
      /\ Insts = InstsOf(Functions, Top) /\ f_ = Top.fn
  BY <1>1, FrameTop
<1>5. d \in Seq(Nat) /\ n \in Nat /\ d = code[Insts[Top.k] + 1].dests
  <2>1. Current \in Indices /\ code \in Programs
    BY <1>1, FrameTop DEF Current, GInv, Types
  <2> QED
    BY <2>1, <1>2, <1>3, CodeTypes DEF Dests, Current
<1>6. AtClosure(code, InstsOf(Functions, Top), Top.k)
  BY <1>1, <1>4 DEF AtClosure, Op, Current
<1>7. Top.j < n /\ \A m \in 1..Top.j : d[m] \in made
  BY <1>3, <1>4, <1>5, <1>6 DEF FrameOK
<1>8. \A m \in 1 .. Top.j + 1 : d[m] \in made
  <2>1. \A m \in 1 .. Top.j + 1 : m \in 1..Top.j \/ m = Top.j + 1
    BY <1>4
  <2>2. d[Top.j + 1] \in made
    BY <1>1, <1>2 DEF Wanted
  <2> QED
    BY <2>1, <2>2, <1>7
<1>9. CASE Top.j + 1 = n
  <2>1. active' = Advanced
    BY <1>2, <1>3, <1>9 DEF EmitClosure
  <2>2. Closed(code, Current) = Range(d)
    BY <1>1, <1>2 DEF Closed, Op, Dests
  <2>3. Range(d) \subseteq made
    BY <1>3, <1>8, <1>9 DEF Range
  <2> QED
    BY <2>1, <2>2, <2>3, <1>1, AdvanceStep
<1>10. CASE Top.j + 1 # n
  <2>1. active' = WithTop([Top EXCEPT !.j = @ + 1])
    BY <1>2, <1>3, <1>10 DEF EmitClosure
  <2>2. PICK r : r = [Top EXCEPT !.j = @ + 1]
    OBVIOUS
  <2>3. Top.j + 1 \in Nat /\ Top.j + 1 < n
    BY <1>4, <1>5, <1>7, <1>10
  <2>4. r = Moved(Top, Top.k, Top.j + 1)
    BY <2>2, <1>4, FrameFields
  <2>5. r \in Frame /\ r.fn = Top.fn /\ r.block = Top.block /\ r.k = Top.k /\ r.j = Top.j + 1
    <3>1. Top.fn \in Nat /\ Top.block \in Nat
      BY <1>1, FrameTop
    <3> QED
      BY ONLY <3>1, <1>4, <2>3, <2>4 DEF Moved, Frame
  <2>6. InstsOf(Functions, r) = Insts
    BY <1>4, <2>5 DEF InstsOf
  <2>7. FrameOK(code, Functions, made, r)
    <3>1. r.fn \in made /\ r.block \in DOMAIN Functions[r.fn] /\ r.k <= Len(Insts) + 1
      BY <1>4, <2>5 DEF FrameOK
    <3>2. \A b \in DOMAIN Functions[r.fn] : b < r.block => AllClosed(code, Functions[r.fn][b].Instructions, made)
      BY <1>4, <2>5 DEF FrameOK
    <3>3. \A m \in 1 .. r.k - 1 : Closed(code, Insts[m]) \subseteq made
      BY <1>4, <2>5 DEF FrameOK
    <3>4. AtClosure(code, Insts, r.k)
      BY <1>4, <1>6, <2>5
    <3>5. r.j < Len(code[Insts[r.k] + 1].dests)
      BY <1>3, <1>5, <2>3, <2>5
    <3>6. \A m \in 1..r.j : code[Insts[r.k] + 1].dests[m] \in made
      BY <1>5, <1>8, <2>5
    <3> QED
      BY <3>1, <3>2, <3>3, <3>4, <3>5, <3>6, <2>6 DEF FrameOK
  <2> QED
    BY <2>1, <2>2, <2>5, <2>7, <1>1, <1>4, ReplaceTop
<1> QED
  BY <1>9, <1>10

LEMMA BeginStep ==
  ASSUME GInv, Frames, BeginBlock
  PROVE  Frames'
<1>1. phase = "emit" /\ Top.k = 0 /\ UNCHANGED <<phase, pc, code, Functions, made>>
  BY DEF BeginBlock, vars
<1>2. PICK r : r = [Top EXCEPT !.k = 1]
  OBVIOUS
<1>3. /\ Top \in Frame /\ FrameOK(code, Functions, made, Top) /\ Insts = InstsOf(Functions, Top)
      /\ f_ = Top.fn /\ Len(Insts) \in Nat /\ Len(Insts) > 0
      /\ Top.fn \in Nat /\ Top.block \in Nat /\ Top.j \in Nat
  BY <1>1, FrameTop, FrameFields
<1>4. Top.j = 0
  BY <1>1, <1>3 DEF FrameOK, AtClosure
<1>5. r = Moved(Top, 1, Top.j)
  BY <1>2, <1>3, FrameFields
<1>6. r \in Frame /\ r.fn = Top.fn /\ r.block = Top.block /\ r.k = 1 /\ r.j = 0
  BY ONLY <1>3, <1>4, <1>5 DEF Moved, Frame
<1>7. InstsOf(Functions, r) = Insts
  BY <1>3, <1>6 DEF InstsOf
<1>8. AtClosure(code, Insts, r.k) => r.j < Len(code[Insts[r.k] + 1].dests)
  <2>1. Insts[1] \in Indices /\ code \in Programs
    BY <1>1, FrameTop DEF GInv, Types
  <2>2. Op(Insts[1]) = "CLOSURE" => Dests(Insts[1]) # <<>> /\ Dests(Insts[1]) \in Seq(Nat)
    BY <2>1, CodeTypes, TargetTypes
  <2>3. Dests(Insts[1]) # <<>> /\ Dests(Insts[1]) \in Seq(Nat) => Len(Dests(Insts[1])) > 0
    OBVIOUS
  <2> QED
    BY <2>2, <2>3, <1>6 DEF AtClosure, Op, Dests
<1>9. FrameOK(code, Functions, made, r)
  <2>1. r.fn \in made /\ r.block \in DOMAIN Functions[r.fn] /\ r.k <= Len(Insts) + 1
    BY <1>3, <1>6 DEF FrameOK
  <2>2. \A b \in DOMAIN Functions[r.fn] : b < r.block => AllClosed(code, Functions[r.fn][b].Instructions, made)
    BY <1>3, <1>6 DEF FrameOK
  <2>3. /\ \A m \in 1 .. r.k - 1 : FALSE
        /\ \A m \in 1 .. r.j : FALSE
    BY <1>6
  <2> QED
    BY <2>1, <2>2, <2>3, <1>6, <1>7, <1>8 DEF FrameOK
<1>10. active' = WithTop(r)
  BY <1>2 DEF BeginBlock
<1> QED
  BY <1>1, <1>3, <1>6, <1>9, <1>10, ReplaceTop

\* All closures of a block are done when its end is.
LEMMA BlockDone ==
  ASSUME GInv, Frames, phase = "emit", Top.k > Len(Insts)
  PROVE  \A b \in DOMAIN Functions[f_] :
           b <= b_ => AllClosed(code, Functions[f_][b].Instructions, made)
<1>1. /\ FrameOK(code, Functions, made, Top) /\ Insts = InstsOf(Functions, Top) /\ f_ = Top.fn /\ b_ = Top.block
      /\ Len(Insts) \in Nat /\ Top.k \in Nat /\ b_ \in Nat
  BY FrameTop
<1>2. \A m \in 1..Len(Insts) : m \in 1 .. Top.k - 1
  BY <1>1
<1>3. \A m \in 1..Len(Insts) : Closed(code, Insts[m]) \subseteq made
  BY <1>1, <1>2 DEF FrameOK
<1>4. AllClosed(code, Insts, made)
  BY <1>3 DEF AllClosed, Range
<1>5. \A b \in DOMAIN Functions[f_] : b < b_ => AllClosed(code, Functions[f_][b].Instructions, made)
  BY <1>1 DEF FrameOK
<1>6. ASSUME NEW b \in DOMAIN Functions[f_], b <= b_ PROVE b < b_ \/ b = b_
  <2>1. b \in Nat
    BY FrameTop DEF GInv, Types, IsGraph, Indices
  <2> QED
    BY ONLY <2>1, <1>1, <1>6
<1> QED
  BY <1>4, <1>5, <1>6 DEF Insts

LEMMA EndStep ==
  ASSUME GInv, Frames, EndBlock
  PROVE  Frames'
<1>1. phase = "emit" /\ Top.k > Len(Insts) /\ UNCHANGED <<pc, code, Functions, made>>
  BY DEF EndBlock, vars
<1>2. PICK n : n = Len(active)
  OBVIOUS
<1>3. /\ active \in Seq(Frame) /\ active # <<>> /\ n \in Nat /\ n > 0 /\ Top = active[n]
      /\ f_ \in DOMAIN Functions /\ f_ \in made /\ f_ \in Nat /\ b_ \in Nat /\ f_ = Top.fn
  BY <1>1, <1>2, FrameTop
<1>4. \A b \in DOMAIN Functions[f_] : b <= b_ => AllClosed(code, Functions[f_][b].Instructions, made)
  BY <1>1, BlockDone
<1>5. DOMAIN Functions[f_] \subseteq Nat
  BY <1>3 DEF GInv, Types, IsGraph, Indices
<1>6. CASE Above(f_, b_) # {}
  <2>1. PICK g : g = NextBlock(f_, b_)
    OBVIOUS
  <2>2. PICK r : r = [fn |-> f_, block |-> g, k |-> 0, j |-> 0]
    OBVIOUS
  <2>3. phase' = phase /\ active' = WithTop(r)
    BY <1>6, <2>1, <2>2 DEF EndBlock
  <2>4. /\ g \in DOMAIN Functions[f_] /\ b_ < g
        /\ \A a \in DOMAIN Functions[f_] : b_ < a => g <= a
    BY <1>3, <1>6, <2>1, NextBlockIs
  <2>5. r \in Frame /\ r.fn = f_ /\ r.block = g /\ r.k = 0 /\ r.j = 0
    <3>1. g \in Nat
      BY <1>5, <2>4
    <3> QED
      BY <3>1, <1>3, <2>2, NewFrame
  <2>6. FrameOK(code, Functions, made, r)
    <3>1. ~AtClosure(code, InstsOf(Functions, r), r.k)
      BY <2>5 DEF AtClosure
    <3>2. r.k <= Len(InstsOf(Functions, r)) + 1
      <4>1. Len(Functions[f_][g].Instructions) \in Nat
        BY <1>3, <2>4, MadeParts
      <4> QED
        BY <4>1, <2>5 DEF InstsOf
    <3>3. ASSUME NEW b \in DOMAIN Functions[f_], b < g
          PROVE  AllClosed(code, Functions[f_][b].Instructions, made)
      <4>1. b \in Nat /\ g \in Nat
        BY <1>5, <2>4
      <4>2. ~(b_ < b)
        BY <4>1, <2>4, <3>3
      <4>3. b <= b_
        BY ONLY <4>1, <4>2, <1>3
      <4> QED
        BY <4>3, <1>4
    <3>4. \A m \in 1 .. r.k - 1 : FALSE
      BY <2>5
    <3> QED
      BY <3>1, <3>2, <3>3, <3>4, <2>4, <2>5, <1>3 DEF FrameOK
  <2> QED
    BY <1>1, <2>3, <2>5, <2>6, ReplaceTop
<1>7. CASE Above(f_, b_) = {}
  <2>1. /\ active' = SubSeq(active, 1, n - 1)
        /\ phase' = IF active' = <<>> THEN "compiled" ELSE phase
    BY <1>2, <1>7 DEF EndBlock
  <2>2. /\ active' \in Seq(Frame) /\ Len(active') = n - 1
        /\ \A m \in 1 .. n - 1 : active'[m] = active[m]
    BY <1>2, <1>3, <2>1, RemoveLast
  <2>3. \A m \in 1 .. n - 1 : m \in 1..n
    BY <1>3
  <2>4. \A m \in 1 .. n - 1 : FrameOK(code, Functions, made, active'[m])
    BY <1>2, <2>2, <2>3 DEF Frames
  <2>5. \A m \in 1 .. (n - 1) - 1 : AtClosure(code, InstsOf(Functions, active'[m]), active'[m].k)
    <3>1. \A m \in 1 .. (n - 1) - 1 : m \in 1 .. n - 1
      BY <1>3
    <3>2. \A m \in 1 .. n - 1 : AtClosure(code, InstsOf(Functions, active[m]), active[m].k)
      BY <1>2 DEF Frames
    <3> QED
      BY <3>1, <3>2, <2>2
  <2>6. \A m, l \in 1 .. n - 1 : active'[m].fn = active'[l].fn => m = l
    <3>1. \A m, l \in 1..n : active[m].fn = active[l].fn => m = l
      BY <1>2 DEF Frames
    <3> QED
      BY <3>1, <2>2, <2>3
  <2>7. ASSUME NEW f \in made
        PROVE  \/ \E m \in 1 .. n - 1 : active'[m].fn = f
               \/ \A b \in DOMAIN Functions[f] : AllClosed(code, Functions[f][b].Instructions, made)
    <3>1. CASE f = f_
      <4>1. ASSUME NEW b \in DOMAIN Functions[f_] PROVE b <= b_
        <5>1. b \in Nat /\ ~(b > b_)
          BY <1>5, <1>7 DEF Above
        <5> QED
          BY ONLY <5>1, <1>3
      <4> QED
        BY <3>1, <4>1, <1>4
    <3>2. CASE f # f_ /\ \E m \in 1..n : active[m].fn = f
      <4>1. PICK m \in 1..n : active[m].fn = f
        BY <3>2
      <4>2. m # n
        BY <4>1, <3>2, <1>3
      <4>3. m \in 1 .. n - 1
        BY <4>2, <1>3
      <4> QED
        BY <4>1, <4>3, <2>2
    <3> QED
      BY <3>1, <3>2, <1>2 DEF Frames
  <2>8. /\ phase' \in {"create", "emit", "compiled"} /\ phase' # "create" /\ pc' = "done"
        /\ phase' = "emit" <=> active' # <<>>
    BY <1>1, <2>1 DEF Frames
  <2> QED
    BY <1>1, <2>2, <2>4, <2>5, <2>6, <2>7, <2>8 DEF Frames
<1> QED
  BY <1>6, <1>7

LEMMA CompileStep ==
  ASSUME GInv, Separate, Frames, Compile
  PROVE  Frames'
<1>1. PICK r : r = Starting(MAIN)
  OBVIOUS
<1>2. /\ phase = "create" /\ pc = "done" /\ phase' = "emit" /\ made' = {MAIN} /\ active' = <<r>>
      /\ UNCHANGED <<pc, code, Functions>>
  BY <1>1 DEF Compile, vars
<1>3. MAIN \in DOMAIN Functions
  BY <1>2 DEF Separate
<1>4. Lowest(MAIN) = MAIN /\ MAIN \in DOMAIN Functions[MAIN] /\ MAIN \in Nat
  BY <1>3, LowestIs DEF MAIN
<1>5. r \in Frame /\ r.fn = MAIN /\ r.block = MAIN /\ r.k = 0 /\ r.j = 0
  <2>1. r = [fn |-> MAIN, block |-> MAIN, k |-> 0, j |-> 0]
    BY <1>1, <1>4 DEF Starting
  <2> QED
    BY <2>1, <1>4, NewFrame
<1>6. /\ active' \in Seq(Frame) /\ Len(active') = 1 /\ active'[1] = r /\ active' # <<>>
  BY <1>2, <1>5
<1>7. FrameOK(code, Functions, made', r)
  <2>1. ~AtClosure(code, InstsOf(Functions, r), r.k)
    BY <1>5 DEF AtClosure
  <2>2. r.k <= Len(InstsOf(Functions, r)) + 1
    <3>1. Len(Functions[MAIN][MAIN].Instructions) \in Nat
      BY <1>3, <1>4, MadeParts
    <3> QED
      BY <3>1, <1>5 DEF InstsOf
  <2>3. \A b \in DOMAIN Functions[MAIN] : ~(b < MAIN)
    <3>1. DOMAIN Functions[MAIN] \subseteq Nat
      BY <1>3 DEF GInv, Types, IsGraph, Indices
    <3> QED
      BY <3>1 DEF MAIN
  <2>4. \A m \in 1 .. r.k - 1 : FALSE
    BY <1>5
  <2> QED
    BY <2>1, <2>2, <2>3, <2>4, <1>2, <1>4, <1>5 DEF FrameOK
<1>8. \A m \in 1..1 : m = 1 /\ 1 \in 1..1
  OBVIOUS
<1>9. \A m \in 1..Len(active') : FrameOK(code, Functions, made', active'[m])
  BY <1>6, <1>7, <1>8
<1>10. \A m \in 1 .. Len(active') - 1 : FALSE
  BY <1>6
<1>11. \A m, l \in 1..Len(active') : m = l
  BY <1>6, <1>8
<1>12. \A f \in made' : \E m \in 1..Len(active') : active'[m].fn = f
  BY <1>2, <1>5, <1>6, <1>8
<1> QED
  BY <1>2, <1>3, <1>6, <1>9, <1>10, <1>11, <1>12 DEF Frames

LEMMA FramesNext ==
  ASSUME GInv, Separate, Frames, [CNext]_allvars
  PROVE  Frames'
<1>1. CASE Create
  <2>1. UNCHANGED <<phase, made, active>> /\ phase = "create"
    BY <1>1 DEF Create, emission
  <2>2. made = {} /\ active = <<>>
    BY <2>1 DEF Frames
  <2>3. Len(active) = 0
    BY <2>2
  <2>4. \A m \in 1..Len(active) : FALSE
    BY <2>3
  <2>5. \A m \in 1 .. Len(active) - 1 : FALSE
    BY <2>3
  <2> QED
    BY <2>1, <2>2, <2>4, <2>5 DEF Frames
<1>2. CASE Compile
  BY <1>2, CompileStep
<1>3. CASE BeginBlock
  BY <1>3, BeginStep
<1>4. CASE EmitPlain \/ EmitGrab \/ EmitPushTrap \/ EmitReturn \/ EmitEnd \/ EmitJump
  <2>1. /\ phase = "emit" /\ UNCHANGED <<phase, pc, code, Functions, made>>
        /\ Top.k \in 1..Len(Insts) /\ Op(Current) # "CLOSURE" /\ active' = Advanced
    BY <1>4 DEF EmitPlain, EmitGrab, EmitPushTrap, EmitReturn, EmitEnd, EmitJump, At, vars, Jumps, Ends
  <2>2. Closed(code, Current) = {}
    BY <2>1 DEF Closed, Op
  <2> QED
    BY <2>1, <2>2, AdvanceStep
<1>5. CASE GenerateFunction
  BY <1>5, PushStep
<1>6. CASE EmitClosure
  BY <1>6, ClosureStep
<1>7. CASE EndBlock
  BY <1>7, EndStep
<1>8. CASE UNCHANGED allvars
  BY <1>8 DEF allvars, vars, emission, Frames
<1> QED
  BY <1>1, <1>2, <1>3, <1>4, <1>5, <1>6, <1>7, <1>8 DEF CNext

(* The calls of CodeGen that are open and those that are done account for every
   function asked for: the inductive invariant of the generator's own stack. *)
THEOREM FramesInvariant == CSpec => [](GInv /\ Separate /\ Frames)
<1>1. CInit => GInv /\ Separate /\ Frames
  <2>1. Init => Separate
    BY DEF Init, Separate
  <2>2. CInit => Frames
    <3>1. ASSUME CInit PROVE Frames
      <4>1. phase = "create" /\ made = {} /\ active = <<>> /\ Len(active) = 0
        BY <3>1 DEF CInit
      <4>2. active \in Seq(Frame)
        BY <4>1
      <4>3. \A m \in 1..Len(active) : FALSE
        BY <4>1
      <4>4. \A m \in 1 .. Len(active) - 1 : FALSE
        BY <4>1
      <4> QED
        BY <4>1, <4>2, <4>3, <4>4 DEF Frames
    <3> QED
      BY <3>1
  <2> QED
    BY <2>1, <2>2, GInvInit DEF CInit
<1>2. GInv /\ Separate /\ Frames /\ [CNext]_allvars => GInv' /\ Separate' /\ Frames'
  BY PassesNext, GInvNext, SeparateNext, FramesNext
<1> QED
  BY <1>1, <1>2, PTL DEF CSpec

(* No function is generated while it is being generated, and when the generator
   is done, every function the code makes a closure of has been generated. *)
THEOREM EachGeneratedOnce == CSpec => []GeneratedOnce
<1>1. GInv /\ Frames => GeneratedOnce
  <2> SUFFICES ASSUME GInv, Frames PROVE GeneratedOnce
    OBVIOUS
  <2>1. \A k, l \in 1..Len(active) : active[k].fn = active[l].fn => k = l
    BY DEF Frames
  <2>2. ASSUME phase = "compiled", NEW f \in made, NEW i \in Body(f), Op(i) = "CLOSURE"
        PROVE  Range(Dests(i)) \subseteq made
    <3>1. active = <<>> /\ Len(active) = 0
      BY <2>2 DEF Frames
    <3>2. \A m \in 1..Len(active) : FALSE
      BY <3>1
    <3>3. PICK b \in DOMAIN Functions[f] : i \in Range(Functions[f][b].Instructions)
      BY <2>2 DEF Body
    <3>4. Closed(code, i) \subseteq made
      BY <3>2, <3>3, <2>2 DEF Frames, AllClosed
    <3> QED
      BY <3>4, <2>2 DEF Closed, Op, Dests
  <2> QED
    BY <2>1, <2>2 DEF GeneratedOnce
<1> QED
  BY <1>1, FramesInvariant, PTL

-----------------------------------------------------------------------------
(* LLVM code, by itself.  t is the sequence of LLVM blocks of a bytecode block
   b of function f, s the instructions of b, D the blocks of f. *)

Items == [code : Int, ends : BOOLEAN, targets : SUBSET (Nat \X Nat \X Nat)]

Closes(s)  == s # <<>> /\ \A m \in 1..Len(s) : s[m].ends <=> m = Len(s)
Unended(s) == \A m \in 1..Len(s) : ~s[m].ends

\* The last LLVM block of t may be open, if o; the others have their terminator.
Shaped(t, o) ==
  /\ t \in Seq(Seq(Items)) /\ t # <<>>
  /\ \A n \in 1 .. Len(t) - 1 : Closes(t[n])
  /\ IF o THEN Unended(t[Len(t)]) ELSE Closes(t[Len(t)])

\* A branch to q from the n-th of l LLVM blocks
AimedAt(D, f, b, n, l, q) ==
  /\ q[1] = f /\ q[2] \in D
  /\ q[3] = 1 \/ (q[2] = b /\ q[3] \in 1..l /\ n < q[3])
Aimed(D, f, b, t) ==
  \A n \in 1..Len(t) : \A m \in 1..Len(t[n]) : \A q \in t[n][m].targets :
    AimedAt(D, f, b, n, Len(t), q)

\* The code of the instructions of s before c, in order; perhaps of c as well
InOrder(r) ==
  \A m, l \in 1..Len(r) : m < l /\ r[m].code >= 0 /\ r[l].code >= 0 => r[m].code <= r[l].code
Emits(t, i) == \E n \in 1..Len(t) : \E m \in 1..Len(t[n]) : t[n][m].code = i
Coded(s, t, c) ==
  /\ \A n \in 1..Len(t) : \A m \in 1..Len(t[n]) :
       /\ t[n][m].code >= -3
       /\ t[n][m].code >= 0 => t[n][m].code \in Range(s) /\ t[n][m].code <= c
  /\ \A i \in Range(s) : i < c => Emits(t, i)
  /\ \A n \in 1..Len(t) : InOrder(t[n])

\* It begins with the entry of a handler if h, and has no other.
StartsWithEntry(t) == t[1] # <<>> /\ t[1][1] = HandlerEntry
Entered(t, h) ==
  /\ \A n \in 1..Len(t) : \A m \in 1..Len(t[n]) : t[n][m] = HandlerEntry => n = 1 /\ m = 1
  /\ h <=> StartsWithEntry(t)

\* Items are put behind the last LLVM block, and new LLVM blocks behind it.
Extended(t, items, new) == [t EXCEPT ![Len(t)] = @ \o items] \o new

\* They are code of instruction i, of none if it is -1; the last LLVM block is
\* open then, if o.
Addition(D, f, b, l, items, new, i, o) ==
  /\ items \in Seq(Items) /\ new \in Seq(Seq(Items))
  /\ new = <<>> => IF o THEN Unended(items) ELSE Closes(items)
  /\ new # <<>> => /\ Closes(items) /\ \A n \in 1 .. Len(new) - 1 : Closes(new[n])
                   /\ IF o THEN Unended(new[Len(new)]) ELSE Closes(new[Len(new)])
  /\ \A m \in 1..Len(items) : /\ items[m].code \in {i, -1, -3}
                              /\ \A q \in items[m].targets : AimedAt(D, f, b, l, l + Len(new), q)
  /\ \A n \in 1..Len(new) : \A m \in 1..Len(new[n]) :
       new[n][m].code \in {i, -1} /\ new[n][m].targets = {}

Holds(items, new, i) ==
  \/ \E m \in 1..Len(items) : items[m].code = i
  \/ \E n \in 1..Len(new) : \E m \in 1..Len(new[n]) : new[n][m].code = i

LEMMA ItemTypes ==
  /\ \A i \in Int : /\ Code(i) \in Items /\ Code(i).code = i /\ ~Code(i).ends /\ Code(i).targets = {}
  /\ \A Q \in SUBSET (Nat \X Nat \X Nat) :
       /\ Branch(Q) \in Items /\ Branch(Q).code = -1 /\ Branch(Q).ends /\ Branch(Q).targets = Q
  /\ Ret \in Items /\ Ret.code = -1 /\ Ret.ends /\ Ret.targets = {}
  /\ HandlerEntry \in Items /\ HandlerEntry.code = -2
  /\ ~HandlerEntry.ends /\ HandlerEntry.targets = {}
  /\ InitCall \in Items /\ InitCall.code = -3 /\ ~InitCall.ends /\ InitCall.targets = {}
<1>1. ASSUME NEW i \in Int
      PROVE  Code(i) \in Items /\ Code(i).code = i /\ ~Code(i).ends /\ Code(i).targets = {}
  BY DEF Code, Items
<1>2. ASSUME NEW Q \in SUBSET (Nat \X Nat \X Nat)
      PROVE  /\ Branch(Q) \in Items /\ Branch(Q).code = -1 /\ Branch(Q).ends /\ Branch(Q).targets = Q
  BY DEF Branch, Items
<1>3. -2 \in Int /\ -3 \in Int
  OBVIOUS
<1>4. {} \in SUBSET (Nat \X Nat \X Nat)
  OBVIOUS
<1>5. HandlerEntry = Code(-2) /\ InitCall = Code(-3) /\ Ret = Branch({})
  BY DEF HandlerEntry, InitCall, Ret
<1>6. /\ HandlerEntry \in Items /\ HandlerEntry.code = -2
      /\ ~HandlerEntry.ends /\ HandlerEntry.targets = {}
  BY <1>1, <1>3, <1>5
<1>7. InitCall \in Items /\ InitCall.code = -3 /\ ~InitCall.ends /\ InitCall.targets = {}
  BY <1>1, <1>3, <1>5
<1>8. Ret \in Items /\ Ret.code = -1 /\ Ret.ends /\ Ret.targets = {}
  BY <1>2, <1>4, <1>5
<1> QED
  BY ONLY <1>1, <1>2, <1>6, <1>7, <1>8

LEMMA ConcatParts ==
  ASSUME NEW S, NEW s \in Seq(S), NEW r \in Seq(S)
  PROVE  /\ s \o r \in Seq(S) /\ Len(s \o r) = Len(s) + Len(r) /\ Len(s) \in Nat /\ Len(r) \in Nat
         /\ \A k \in 1..Len(s) : (s \o r)[k] = s[k]
         /\ \A k \in 1..Len(r) : (s \o r)[Len(s) + k] = r[k]
  OBVIOUS

\* What a concatenation is made of
MadeOf(w, s, r) ==
  /\ Len(w) = Len(s) + Len(r) /\ Len(s) \in Nat /\ Len(r) \in Nat
  /\ \A k \in 1..Len(w) : \/ k \in 1..Len(s) /\ w[k] = s[k]
                          \/ \E m \in 1..Len(r) : k = Len(s) + m /\ w[k] = r[m]
  /\ \A k \in 1..Len(s) : k \in 1..Len(w) /\ w[k] = s[k]
  /\ \A m \in 1..Len(r) : Len(s) + m \in 1..Len(w) /\ w[Len(s) + m] = r[m]

LEMMA ConcatElements ==
  ASSUME NEW S, NEW s \in Seq(S), NEW r \in Seq(S), NEW w, w = s \o r
  PROVE  w \in Seq(S) /\ MadeOf(w, s, r)
<1>1. /\ w \in Seq(S) /\ Len(w) = Len(s) + Len(r) /\ Len(s) \in Nat /\ Len(r) \in Nat
      /\ \A k \in 1..Len(s) : w[k] = s[k]
      /\ \A k \in 1..Len(r) : w[Len(s) + k] = r[k]
  BY ConcatParts
<1>2. ASSUME NEW k \in 1..Len(w)
      PROVE  \/ k \in 1..Len(s) /\ w[k] = s[k]
             \/ \E m \in 1..Len(r) : k = Len(s) + m /\ w[k] = r[m]
  <2>1. CASE k <= Len(s)
    BY <2>1, <1>1
  <2>2. CASE ~(k <= Len(s))
    <3>1. k - Len(s) \in 1..Len(r) /\ k = Len(s) + (k - Len(s))
      BY <2>2, <1>1
    <3>2. w[k] = r[k - Len(s)]
      BY <3>1, <1>1
    <3> QED
      BY <3>1, <3>2
  <2> QED
    BY <2>1, <2>2
<1>3. \A k \in 1..Len(s) : k \in 1..Len(w)
  BY <1>1
<1>4. \A m \in 1..Len(r) : Len(s) + m \in 1..Len(w)
  BY <1>1
<1> QED
  BY <1>1, <1>2, <1>3, <1>4 DEF MadeOf

LEMMA AppendsEnd ==
  ASSUME NEW s \in Seq(Items), NEW r \in Seq(Items), Unended(s)
  PROVE  /\ Unended(r) => Unended(s \o r)
         /\ Closes(r) => Closes(s \o r)
<1>1. PICK w : w = s \o r
  OBVIOUS
<1>2. /\ w \in Seq(Items) /\ Len(w) = Len(s) + Len(r) /\ Len(s) \in Nat /\ Len(r) \in Nat
      /\ \A k \in 1..Len(w) : \/ k \in 1..Len(s) /\ w[k] = s[k]
                              \/ \E m \in 1..Len(r) : k = Len(s) + m /\ w[k] = r[m]
  BY <1>1, ConcatElements DEF MadeOf
<1>3. Unended(r) => Unended(w)
  BY <1>2 DEF Unended
<1>4. ASSUME Closes(r) PROVE Closes(w)
  <2>1. Len(r) > 0
    BY <1>2, <1>4 DEF Closes
  <2>2. ASSUME NEW k \in 1..Len(w) PROVE w[k].ends <=> k = Len(w)
    <3>1. CASE k \in 1..Len(s) /\ w[k] = s[k]
      <4>1. ~s[k].ends /\ k # Len(w)
        BY <3>1, <2>1, <1>2 DEF Unended
      <4> QED
        BY <4>1, <3>1
    <3>2. CASE \E m \in 1..Len(r) : k = Len(s) + m /\ w[k] = r[m]
      <4>1. PICK m \in 1..Len(r) : k = Len(s) + m /\ w[k] = r[m]
        BY <3>2
      <4>2. r[m].ends <=> m = Len(r)
        BY <1>4 DEF Closes
      <4>3. k = Len(w) <=> m = Len(r)
        BY <4>1, <1>2
      <4> QED
        BY <4>1, <4>2, <4>3
    <3> QED
      BY <1>2, <3>1, <3>2
  <2>3. w # <<>>
    <3>1. w \in Seq(Items) /\ Len(w) > 0
      BY <1>2, <2>1
    <3> QED
      BY <3>1
  <2> QED
    BY <2>2, <2>3 DEF Closes
<1> QED
  BY <1>1, <1>3, <1>4

ExtendsBy(t, items, new, u) ==
  /\ u \in Seq(Seq(Items)) /\ Len(u) = Len(t) + Len(new) /\ u # <<>>
  /\ Len(t) \in Nat /\ Len(t) > 0 /\ Len(new) \in Nat /\ t[Len(t)] \in Seq(Items)
  /\ \A n \in 1 .. Len(t) - 1 : u[n] = t[n]
  /\ u[Len(t)] = t[Len(t)] \o items
  /\ \A n \in 1..Len(new) : u[Len(t) + n] = new[n]
  /\ \A n \in 1..Len(u) : \/ n \in 1 .. Len(t) - 1 \/ n = Len(t)
                          \/ \E m \in 1..Len(new) : n = Len(t) + m

LEMMA ExtendParts ==
  ASSUME NEW t \in Seq(Seq(Items)), t # <<>>, NEW items \in Seq(Items),
         NEW new \in Seq(Seq(Items)), NEW u, u = Extended(t, items, new)
  PROVE  ExtendsBy(t, items, new, u)
<1>1. Len(t) \in Nat /\ Len(t) > 0 /\ t[Len(t)] \in Seq(Items) /\ Len(t) \in 1..Len(t)
  OBVIOUS
<1>2. PICK v : v = [t EXCEPT ![Len(t)] = @ \o items]
  OBVIOUS
<1>3. t[Len(t)] \o items \in Seq(Items)
  BY <1>1, ConcatParts
<1>4. v \in Seq(Seq(Items)) /\ Len(v) = Len(t)
  BY <1>1, <1>2, <1>3
<1>5. v[Len(t)] = t[Len(t)] \o items /\ \A n \in 1 .. Len(t) - 1 : v[n] = t[n]
  BY <1>1, <1>2
<1>6. u = v \o new
  BY <1>2 DEF Extended
<1>7. /\ u \in Seq(Seq(Items)) /\ Len(u) = Len(v) + Len(new) /\ Len(new) \in Nat
      /\ \A k \in 1..Len(v) : u[k] = v[k]
      /\ \A k \in 1..Len(new) : u[Len(v) + k] = new[k]
  <2>1. PICK S : S = Seq(Items)
    OBVIOUS
  <2>2. v \in Seq(S) /\ new \in Seq(S)
    BY <2>1, <1>4
  <2>3. /\ v \o new \in Seq(S) /\ Len(v \o new) = Len(v) + Len(new) /\ Len(new) \in Nat
        /\ \A k \in 1..Len(v) : (v \o new)[k] = v[k]
        /\ \A k \in 1..Len(new) : (v \o new)[Len(v) + k] = new[k]
    BY ONLY <2>2, ConcatParts
  <2> QED
    BY ONLY <2>1, <2>3, <1>6
<1>8. Len(u) > 0
  BY <1>1, <1>4, <1>7
<1>9. u # <<>>
  BY <1>7, <1>8
<1>10. \A n \in 1 .. Len(t) - 1 : n \in 1..Len(t)
  BY <1>1
<1>11. u[Len(t)] = t[Len(t)] \o items /\ \A n \in 1 .. Len(t) - 1 : u[n] = t[n]
  BY ONLY <1>1, <1>4, <1>5, <1>7, <1>10
<1>12. ASSUME NEW n \in 1..Len(u)
       PROVE  \/ n \in 1 .. Len(t) - 1 \/ n = Len(t)
              \/ \E m \in 1..Len(new) : n = Len(t) + m
  <2>1. CASE n > Len(t)
    <3>1. n - Len(t) \in 1..Len(new) /\ n = Len(t) + (n - Len(t))
      BY <2>1, <1>1, <1>4, <1>7, SMTT(30)
    <3> QED
      BY <3>1
  <2>2. CASE ~(n > Len(t))
    BY <2>2, <1>1
  <2> QED
    BY <2>1, <2>2
<1> QED
  BY <1>1, <1>4, <1>7, <1>9, <1>11, <1>12 DEF ExtendsBy

\* Nothing that is there is changed, and what is added is the piece.
Adds(t, items, new, u) ==
  /\ \A n \in 1..Len(t) : /\ n \in 1..Len(u)
                          /\ \A m \in 1..Len(t[n]) : m \in 1..Len(u[n]) /\ u[n][m] = t[n][m]
  /\ \A n \in 1..Len(u) : \A m \in 1..Len(u[n]) :
       \/ n \in 1..Len(t) /\ m \in 1..Len(t[n]) /\ u[n][m] = t[n][m]
       \/ /\ n = Len(t) /\ m > Len(t[n])
          /\ \E k \in 1..Len(items) : u[n][m] = items[k] /\ m = Len(t[n]) + k
       \/ /\ n > Len(t)
          /\ \E a \in 1..Len(new) : n = Len(t) + a /\ m \in 1..Len(new[a]) /\ u[n][m] = new[a][m]
  /\ \A k \in 1..Len(items) : \E m \in 1..Len(u[Len(t)]) : u[Len(t)][m] = items[k]

LEMMA ExtendItems ==
  ASSUME NEW t \in Seq(Seq(Items)), t # <<>>, NEW items \in Seq(Items),
         NEW new \in Seq(Seq(Items)), NEW u, u = Extended(t, items, new)
  PROVE  Adds(t, items, new, u)
<1>1. /\ Len(u) = Len(t) + Len(new)
      /\ Len(t) \in Nat /\ Len(t) > 0 /\ Len(new) \in Nat /\ t[Len(t)] \in Seq(Items)
      /\ \A n \in 1 .. Len(t) - 1 : u[n] = t[n]
      /\ u[Len(t)] = t[Len(t)] \o items
      /\ \A n \in 1..Len(new) : u[Len(t) + n] = new[n]
      /\ \A n \in 1..Len(u) : \/ n \in 1 .. Len(t) - 1 \/ n = Len(t)
                              \/ \E m \in 1..Len(new) : n = Len(t) + m
  <2>1. ExtendsBy(t, items, new, u)
    BY ExtendParts
  <2> QED
    BY ONLY <2>1 DEF ExtendsBy
<1>2. PICK l : l = Len(t)
  OBVIOUS
<1>3. PICK w : w = u[l]
  OBVIOUS
<1>4. /\ Len(t[l]) \in Nat
      /\ \A k \in 1..Len(w) : \/ k \in 1..Len(t[l]) /\ w[k] = t[l][k]
                              \/ \E m \in 1..Len(items) : k = Len(t[l]) + m /\ w[k] = items[m]
      /\ \A k \in 1..Len(t[l]) : k \in 1..Len(w) /\ w[k] = t[l][k]
      /\ \A m \in 1..Len(items) : Len(t[l]) + m \in 1..Len(w) /\ w[Len(t[l]) + m] = items[m]
  <2>1. MadeOf(w, t[l], items)
    BY <1>1, <1>2, <1>3, ConcatElements
  <2> QED
    BY ONLY <2>1 DEF MadeOf
<1>5. ASSUME NEW n \in 1..Len(t)
      PROVE  /\ n \in 1..Len(u)
             /\ \A m \in 1..Len(t[n]) : m \in 1..Len(u[n]) /\ u[n][m] = t[n][m]
  <2>1. n \in 1..Len(u) /\ t[n] \in Seq(Items) /\ (n \in 1 .. Len(t) - 1 \/ n = l)
    BY <1>1, <1>2
  <2>2. CASE n = l
    BY <2>1, <2>2, <1>3, <1>4
  <2>3. CASE n \in 1 .. Len(t) - 1
    BY <2>1, <2>3, <1>1
  <2> QED
    BY <2>1, <2>2, <2>3
<1>6. ASSUME NEW n \in 1..Len(u), NEW m \in 1..Len(u[n])
      PROVE  \/ n \in 1..Len(t) /\ m \in 1..Len(t[n]) /\ u[n][m] = t[n][m]
             \/ /\ n = Len(t) /\ m > Len(t[n])
                /\ \E k \in 1..Len(items) : u[n][m] = items[k] /\ m = Len(t[n]) + k
             \/ /\ n > Len(t)
                /\ \E a \in 1..Len(new) : n = Len(t) + a /\ m \in 1..Len(new[a]) /\ u[n][m] = new[a][m]
  <2>1. CASE n \in 1 .. Len(t) - 1
    <3>1. u[n] = t[n] /\ n \in 1..Len(t)
      BY <2>1, <1>1
    <3> QED
      BY <3>1
  <2>2. CASE n = Len(t)
    <3>1. CASE m \in 1..Len(t[l]) /\ w[m] = t[l][m]
      <4>1. n \in 1..Len(t)
        BY <2>2, <1>1
      <4> QED
        BY <3>1, <4>1, <2>2, <1>2, <1>3
    <3>2. CASE \E k \in 1..Len(items) : m = Len(t[l]) + k /\ w[m] = items[k]
      <4>1. PICK k \in 1..Len(items) : m = Len(t[l]) + k /\ w[m] = items[k]
        BY <3>2
      <4>2. m > Len(t[l])
        BY <4>1, <1>4
      <4> QED
        BY <4>1, <4>2, <2>2, <1>2, <1>3
    <3> QED
      BY <3>1, <3>2, <2>2, <1>2, <1>3, <1>4
  <2>3. CASE \E a \in 1..Len(new) : n = Len(t) + a
    <3>1. PICK a \in 1..Len(new) : n = Len(t) + a
      BY <2>3
    <3>2. u[n] = new[a] /\ n > Len(t)
      BY <3>1, <1>1
    <3> QED
      BY <3>1, <3>2
  <2> QED
    BY <2>1, <2>2, <2>3, <1>1
<1>7. ASSUME NEW k \in 1..Len(items)
      PROVE  \E m \in 1..Len(u[Len(t)]) : u[Len(t)][m] = items[k]
  BY <1>2, <1>3, <1>4
<1> QED
  BY <1>5, <1>6, <1>7 DEF Adds

LEMMA ExtendShaped ==
  ASSUME NEW t, Shaped(t, TRUE), NEW D, NEW f, NEW b, NEW items, NEW new, NEW i, NEW o,
         Addition(D, f, b, Len(t), items, new, i, o), NEW u, u = Extended(t, items, new)
  PROVE  Shaped(u, o)
<1>1. /\ t \in Seq(Seq(Items)) /\ t # <<>> /\ items \in Seq(Items) /\ new \in Seq(Seq(Items))
      /\ Unended(t[Len(t)]) /\ \A n \in 1 .. Len(t) - 1 : Closes(t[n])
      /\ new = <<>> => IF o THEN Unended(items) ELSE Closes(items)
      /\ new # <<>> => /\ Closes(items) /\ \A n \in 1 .. Len(new) - 1 : Closes(new[n])
                       /\ IF o THEN Unended(new[Len(new)]) ELSE Closes(new[Len(new)])
  BY DEF Shaped, Addition
<1>2. /\ u \in Seq(Seq(Items)) /\ Len(u) = Len(t) + Len(new) /\ u # <<>>
      /\ Len(t) \in Nat /\ Len(t) > 0 /\ Len(new) \in Nat /\ t[Len(t)] \in Seq(Items)
      /\ \A n \in 1 .. Len(t) - 1 : u[n] = t[n]
      /\ u[Len(t)] = t[Len(t)] \o items
      /\ \A n \in 1..Len(new) : u[Len(t) + n] = new[n]
      /\ \A n \in 1..Len(u) : \/ n \in 1 .. Len(t) - 1 \/ n = Len(t)
                              \/ \E m \in 1..Len(new) : n = Len(t) + m
  <2>1. ExtendsBy(t, items, new, u)
    BY <1>1, ExtendParts
  <2> QED
    BY ONLY <2>1 DEF ExtendsBy
<1>3. /\ Unended(items) => Unended(u[Len(t)])
      /\ Closes(items) => Closes(u[Len(t)])
  BY <1>1, <1>2, AppendsEnd
<1>4. CASE new = <<>>
  <2>1. Len(u) = Len(t)
    BY <1>2, <1>4
  <2>2. \A n \in 1 .. Len(u) - 1 : Closes(u[n])
    BY <2>1, <1>1, <1>2
  <2>3. IF o THEN Unended(u[Len(u)]) ELSE Closes(u[Len(u)])
    BY <2>1, <1>1, <1>3, <1>4
  <2> QED
    BY <2>2, <2>3, <1>2 DEF Shaped
<1>5. CASE new # <<>>
  <2>1. Len(new) > 0 /\ Len(u) = Len(t) + Len(new) /\ Len(new) \in 1..Len(new)
    BY <1>1, <1>2, <1>5
  <2>2. ASSUME NEW n \in 1 .. Len(u) - 1 PROVE Closes(u[n])
    <3>1. n \in 1..Len(u)
      BY <1>2
    <3>2. CASE n \in 1 .. Len(t) - 1
      BY <3>2, <1>1, <1>2
    <3>3. CASE n = Len(t)
      BY <3>3, <1>1, <1>3, <1>5
    <3>4. CASE \E m \in 1..Len(new) : n = Len(t) + m
      <4>1. PICK m \in 1..Len(new) : n = Len(t) + m
        BY <3>4
      <4>2. m \in 1 .. Len(new) - 1 /\ u[n] = new[m]
        BY <4>1, <2>1, <1>2
      <4> QED
        BY <4>2, <1>1, <1>5
    <3> QED
      BY <3>1, <3>2, <3>3, <3>4, <1>2
  <2>3. u[Len(u)] = new[Len(new)]
    BY <2>1, <1>2
  <2> QED
    BY <2>2, <2>3, <1>1, <1>2, <1>5 DEF Shaped
<1> QED
  BY <1>4, <1>5

LEMMA ExtendAimed ==
  ASSUME NEW t, Shaped(t, TRUE), NEW D, NEW f, NEW b, NEW items, NEW new, NEW i, NEW o,
         Addition(D, f, b, Len(t), items, new, i, o), NEW u, u = Extended(t, items, new),
         Aimed(D, f, b, t)
  PROVE  Aimed(D, f, b, u)
<1>1. /\ t \in Seq(Seq(Items)) /\ t # <<>> /\ items \in Seq(Items) /\ new \in Seq(Seq(Items))
      /\ \A m \in 1..Len(items) : \A q \in items[m].targets :
           AimedAt(D, f, b, Len(t), Len(t) + Len(new), q)
      /\ \A n \in 1..Len(new) : \A m \in 1..Len(new[n]) : new[n][m].targets = {}
  BY DEF Shaped, Addition
<1>2. Len(u) = Len(t) + Len(new) /\ Len(t) \in Nat /\ Len(new) \in Nat
  BY <1>1, ExtendParts DEF ExtendsBy
<1>3. Adds(t, items, new, u)
  BY <1>1, ExtendItems
<1>4. ASSUME NEW n \in 1..Len(u), NEW m \in 1..Len(u[n]), NEW q \in u[n][m].targets
      PROVE  AimedAt(D, f, b, n, Len(u), q)
  <2>1. CASE n \in 1..Len(t) /\ m \in 1..Len(t[n]) /\ u[n][m] = t[n][m]
    <3>1. AimedAt(D, f, b, n, Len(t), q)
      BY <2>1, <1>4 DEF Aimed
    <3>2. \A x \in 1..Len(t) : x \in 1..Len(u)
      BY <1>2
    <3> QED
      BY <3>1, <3>2 DEF AimedAt
  <2>2. CASE n = Len(t) /\ \E k \in 1..Len(items) : u[n][m] = items[k]
    BY <2>2, <1>1, <1>2, <1>4
  <2>3. CASE \E a \in 1..Len(new) : n = Len(t) + a /\ m \in 1..Len(new[a]) /\ u[n][m] = new[a][m]
    <3>1. u[n][m].targets = {}
      BY <2>3, <1>1
    <3> QED
      BY <3>1, <1>4
  <2>4. \/ n \in 1..Len(t) /\ m \in 1..Len(t[n]) /\ u[n][m] = t[n][m]
        \/ n = Len(t) /\ \E k \in 1..Len(items) : u[n][m] = items[k] /\ m = Len(t[n]) + k
        \/ \E a \in 1..Len(new) : n = Len(t) + a /\ m \in 1..Len(new[a]) /\ u[n][m] = new[a][m]
    BY ONLY <1>3, <1>4 DEF Adds
  <2> QED
    BY ONLY <2>1, <2>2, <2>3, <2>4
<1> QED
  BY <1>4 DEF Aimed

LEMMA ExtendEntered ==
  ASSUME NEW t, Shaped(t, TRUE), NEW D, NEW f, NEW b, NEW items, NEW new, NEW i, i # -2, NEW o,
         Addition(D, f, b, Len(t), items, new, i, o), NEW u, u = Extended(t, items, new),
         NEW h, Entered(t, h)
  PROVE  Entered(u, h)
<1>1. /\ t \in Seq(Seq(Items)) /\ t # <<>> /\ items \in Seq(Items) /\ new \in Seq(Seq(Items))
      /\ \A m \in 1..Len(items) : items[m].code \in {i, -1, -3}
      /\ \A n \in 1..Len(new) : \A m \in 1..Len(new[n]) : new[n][m].code \in {i, -1}
  BY DEF Shaped, Addition
<1>2. /\ Len(u) = Len(t) + Len(new) /\ Len(t) \in Nat /\ Len(t) > 0 /\ Len(new) \in Nat
      /\ u \in Seq(Seq(Items))
  BY <1>1, ExtendParts DEF ExtendsBy
<1>3. HandlerEntry.code \notin {i, -1, -3}
  <2>1. HandlerEntry.code = -2
    BY ItemTypes
  <2>2. -2 # -1 /\ -2 # -3
    OBVIOUS
  <2> QED
    BY <2>1, <2>2
<1>4. Adds(t, items, new, u)
  BY <1>1, ExtendItems
<1>5. ASSUME NEW n \in 1..Len(u), NEW m \in 1..Len(u[n]), u[n][m] = HandlerEntry
      PROVE  n \in 1..Len(t) /\ m \in 1..Len(t[n]) /\ t[n][m] = HandlerEntry
  <2>1. CASE n \in 1..Len(t) /\ m \in 1..Len(t[n]) /\ u[n][m] = t[n][m]
    BY <2>1, <1>5
  <2>2. CASE \E k \in 1..Len(items) : u[n][m] = items[k]
    BY <2>2, <1>1, <1>3, <1>5
  <2>3. CASE \E a \in 1..Len(new) : n = Len(t) + a /\ m \in 1..Len(new[a]) /\ u[n][m] = new[a][m]
    BY <2>3, <1>1, <1>3, <1>5
  <2> QED
    BY <2>1, <2>2, <2>3, <1>4 DEF Adds
<1>6. 1 \in 1..Len(u) /\ 1 \in 1..Len(t) /\ u[1] \in Seq(Items) /\ t[1] \in Seq(Items)
  BY <1>1, <1>2
<1>7. StartsWithEntry(u) <=> StartsWithEntry(t)
  <2>1. ASSUME StartsWithEntry(u) PROVE StartsWithEntry(t)
    <3>1. u[1] # <<>> /\ u[1][1] = HandlerEntry
      BY <2>1 DEF StartsWithEntry
    <3>2. 1 \in 1..Len(u[1])
      BY <3>1, <1>6
    <3>3. 1 \in 1..Len(t[1]) /\ t[1][1] = HandlerEntry
      BY <3>1, <3>2, <1>5, <1>6
    <3>4. t[1] # <<>>
      BY <3>3
    <3> QED
      BY <3>3, <3>4 DEF StartsWithEntry
  <2>2. ASSUME StartsWithEntry(t) PROVE StartsWithEntry(u)
    <3>1. t[1] # <<>> /\ t[1][1] = HandlerEntry
      BY <2>2 DEF StartsWithEntry
    <3>2. 1 \in 1..Len(t[1])
      BY <3>1, <1>6
    <3>3. 1 \in 1..Len(u[1]) /\ u[1][1] = t[1][1]
      BY <3>2, <1>6, <1>4 DEF Adds
    <3>4. u[1] # <<>>
      BY <3>3
    <3> QED
      BY <3>1, <3>3, <3>4 DEF StartsWithEntry
  <2> QED
    BY <2>1, <2>2
<1> QED
  BY <1>5, <1>7 DEF Entered

LEMMA ExtendCoded ==
  ASSUME NEW t, Shaped(t, TRUE), NEW D, NEW f, NEW b, NEW items, NEW new, NEW i \in Int, NEW o,
         Addition(D, f, b, Len(t), items, new, i, o), NEW u, u = Extended(t, items, new),
         NEW s \in Seq(Nat), NEW c \in Int, Coded(s, t, c), i = -1 \/ (i = c /\ i \in Range(s))
  PROVE  /\ Coded(s, u, c)
         /\ Holds(items, new, i) => Emits(u, i)
<1>1. /\ t \in Seq(Seq(Items)) /\ t # <<>> /\ items \in Seq(Items) /\ new \in Seq(Seq(Items))
      /\ \A m \in 1..Len(items) : items[m].code \in {i, -1, -3}
      /\ \A n \in 1..Len(new) : \A m \in 1..Len(new[n]) : new[n][m].code \in {i, -1}
  BY DEF Shaped, Addition
<1>2. /\ Len(u) = Len(t) + Len(new) /\ Len(t) \in Nat /\ Len(t) > 0 /\ Len(new) \in Nat
  BY <1>1, ExtendParts DEF ExtendsBy
<1>3. Adds(t, items, new, u)
  BY <1>1, ExtendItems
<1>4. ASSUME NEW n \in 1..Len(u), NEW m \in 1..Len(u[n])
      PROVE  \/ n \in 1..Len(t) /\ m \in 1..Len(t[n]) /\ u[n][m] = t[n][m]
             \/ u[n][m].code \in {i, -1, -3}
  <2>1. \/ n \in 1..Len(t) /\ m \in 1..Len(t[n]) /\ u[n][m] = t[n][m]
        \/ \E k \in 1..Len(items) : u[n][m] = items[k]
        \/ \E a \in 1..Len(new) : m \in 1..Len(new[a]) /\ u[n][m] = new[a][m]
    BY ONLY <1>3, <1>4 DEF Adds
  <2>2. CASE \E k \in 1..Len(items) : u[n][m] = items[k]
    BY <2>2, <1>1
  <2>3. CASE \E a \in 1..Len(new) : m \in 1..Len(new[a]) /\ u[n][m] = new[a][m]
    BY <2>3, <1>1
  <2> QED
    BY ONLY <2>1, <2>2, <2>3
<1>5. /\ \A n \in 1..Len(t) : \A m \in 1..Len(t[n]) :
           /\ t[n][m].code >= -3
           /\ t[n][m].code >= 0 => t[n][m].code \in Range(s) /\ t[n][m].code <= c
      /\ \A j \in Range(s) : j < c => Emits(t, j)
      /\ \A n \in 1..Len(t) : InOrder(t[n])
  BY DEF Coded
<1>6. ASSUME NEW n \in 1..Len(u), NEW m \in 1..Len(u[n])
      PROVE  /\ u[n][m].code >= -3
             /\ u[n][m].code >= 0 => u[n][m].code \in Range(s) /\ u[n][m].code <= c
  <2>1. CASE n \in 1..Len(t) /\ m \in 1..Len(t[n]) /\ u[n][m] = t[n][m]
    BY <2>1, <1>5
  <2>2. CASE u[n][m].code \in {-1, -3}
    BY ONLY <2>2
  <2>3. CASE u[n][m].code = c /\ c \in Range(s)
    <3>1. c \in Nat
      BY <2>3 DEF Range
    <3> QED
      BY ONLY <2>3, <3>1
  <2> QED
    BY <1>4, <2>1, <2>2, <2>3
<1>7. ASSUME NEW n \in 1..Len(u) PROVE InOrder(u[n])
  <2> SUFFICES ASSUME NEW m \in 1..Len(u[n]), NEW l \in 1..Len(u[n]), m < l,
                      u[n][m].code >= 0, u[n][l].code >= 0
               PROVE  u[n][m].code <= u[n][l].code
    BY DEF InOrder
  <2>1. CASE n \in 1..Len(t) /\ l \in 1..Len(t[n]) /\ u[n][l] = t[n][l]
    <3>1. t[n] \in Seq(Items)
      BY <2>1, <1>1
    <3>2. m \in 1..Len(t[n])
      BY <2>1, <3>1
    <3>3. u[n][m] = t[n][m]
      BY <2>1, <3>2, <1>3 DEF Adds
    <3> QED
      BY <2>1, <3>2, <3>3, <1>5 DEF InOrder
  <2>2. CASE u[n][l].code \in {i, -1, -3}
    <3>1. u[n][l].code = c
      BY <2>2
    <3> QED
      BY <3>1, <1>6
  <2> QED
    BY <2>1, <2>2, <1>4
<1>8. ASSUME NEW j, Emits(t, j) PROVE Emits(u, j)
  <2>1. PICK n \in 1..Len(t) : \E m \in 1..Len(t[n]) : t[n][m].code = j
    BY <1>8 DEF Emits
  <2>2. PICK m \in 1..Len(t[n]) : t[n][m].code = j
    BY <2>1
  <2>3. n \in 1..Len(u) /\ m \in 1..Len(u[n]) /\ u[n][m] = t[n][m]
    BY <1>3, <2>2 DEF Adds
  <2> QED
    BY <2>2, <2>3 DEF Emits
<1>9. Coded(s, u, c)
  BY <1>5, <1>6, <1>7, <1>8 DEF Coded
<1>10. ASSUME NEW k \in 1..Len(items), items[k].code = i
       PROVE  Emits(u, i)
  <2>1. PICK m \in 1..Len(u[Len(t)]) : u[Len(t)][m] = items[k]
    BY <1>3 DEF Adds
  <2>2. Len(t) \in 1..Len(u)
    BY <1>2
  <2> QED
    BY <2>1, <2>2, <1>10 DEF Emits
<1>11. ASSUME NEW n \in 1..Len(new), NEW m \in 1..Len(new[n]), new[n][m].code = i
       PROVE  Emits(u, i)
  <2>1. Len(t) + n \in 1..Len(u)
    BY <1>2
  <2>2. u[Len(t) + n] = new[n]
    <3>1. ExtendsBy(t, items, new, u)
      BY <1>1, ExtendParts
    <3> QED
      BY ONLY <3>1 DEF ExtendsBy
  <2> QED
    BY <2>1, <2>2, <1>11 DEF Emits
<1> QED
  BY <1>9, <1>10, <1>11 DEF Holds

\* All instructions before d are done, and none behind c.
LEMMA CursorMoves ==
  ASSUME NEW t \in Seq(Seq(Items)), NEW s, NEW c \in Int, NEW d \in Int, c <= d, Coded(s, t, c),
         \A i \in Range(s) : i < d => i < c \/ Emits(t, i)
  PROVE  Coded(s, t, d)
<1>1. ASSUME NEW n \in 1..Len(t), NEW m \in 1..Len(t[n])
      PROVE  /\ t[n][m].code >= -3
             /\ t[n][m].code >= 0 => t[n][m].code \in Range(s) /\ t[n][m].code <= d
  <2>1. /\ t[n][m].code >= -3
        /\ t[n][m].code >= 0 => t[n][m].code \in Range(s) /\ t[n][m].code <= c
    BY DEF Coded
  <2>2. t[n] \in Seq(Items)
    BY Element
  <2>3. t[n][m] \in Items
    BY <2>2, Element
  <2>4. t[n][m].code \in Int
    BY <2>3 DEF Items
  <2> QED
    BY <2>1, <2>4
<1>2. \A i \in Range(s) : i < d => Emits(t, i)
  BY DEF Coded
<1> QED
  BY <1>1, <1>2 DEF Coded

-----------------------------------------------------------------------------
(* What the passes hand over, if no code is dead: the blocks of a function lie
   one behind another, each in one piece, and only tests go back. *)

Ending(p, i) == p[i + 1].op \in Jumps \cup Ends \cup {"SWITCH"}

\* Where the block b goes to, by its last instruction i
GoesOn(p, G, b, i) ==
  /\ p[i + 1].op = "BRANCH" => G[b].BrBlock \in DOMAIN G /\ i < G[b].BrBlock
  /\ p[i + 1].op = "COND" => G[b].BrBlock \in DOMAIN G /\ G[b].NoBrBlock \in DOMAIN G
  /\ p[i + 1].op = "SWITCH" => \A d \in Range(p[i + 1].dests) : d \in DOMAIN G /\ i < d
  /\ ~Ending(p, i) => Head(G[b].NextBlocks) \in DOMAIN G /\ i < Head(G[b].NextBlocks)

NeatBlock(p, G, b) ==
  LET s == G[b].Instructions IN
    /\ s \in Seq(Nat) /\ s # <<>>
    /\ \A k \in 1..Len(s) : s[k] = b + k - 1 /\ s[k] < Len(p)
    /\ \A k \in 1 .. Len(s) - 1 : ~Ending(p, s[k])
    /\ \A c \in DOMAIN G : b < c => b + Len(s) <= c
    /\ \A i \in Range(s) : p[i + 1].op = "PUSHTRAP" =>
         p[i + 1].dests[1] \in DOMAIN G /\ i < p[i + 1].dests[1]
    /\ GoesOn(p, G, b, s[Len(s)])

Neat(p, f, G) ==
  /\ Len(p) \in Nat
  /\ DOMAIN G \subseteq Nat /\ f \in DOMAIN G /\ \A b \in DOMAIN G : f <= b
  /\ \A b \in DOMAIN G : NeatBlock(p, G, b)
  /\ \A i, j \in 0 .. Len(p) - 1 :
       p[i + 1].op = "PUSHTRAP" /\ p[j + 1].op = "PUSHTRAP" /\ p[i + 1].dests[1] = p[j + 1].dests[1]
         => i = j

LEMMA ForwardTargets ==
  ASSUME code \in Programs, NEW i \in Indices
  PROVE  /\ Op(i) \in {"BRANCH", "PUSHTRAP", "SWITCH"} => \A d \in Range(Edges(i)) : i < d
         /\ \A j \in Indices : isPushTrap(i) /\ isPushTrap(j) /\ Dest(i) = Dest(j) => i = j
<1>1. OnlyTestsGoBack(code)
  BY JumpsAssumption
<1>2. Op(i) \in {"BRANCH", "PUSHTRAP", "SWITCH"} => \A d \in Targets(code, i) : i < d
  BY <1>1 DEF OnlyTestsGoBack, Op, Indices
<1>3. Range(Edges(i)) \subseteq Targets(code, i)
  BY EdgeTypes
<1>4. \A j \in Indices : isPushTrap(i) /\ isPushTrap(j) /\ Dest(i) = Dest(j) => i = j
  BY <1>1 DEF OnlyTestsGoBack, Indices, isPushTrap, Dest, Dests, Op
<1> QED
  BY <1>2, <1>3, <1>4

LEMMA NeatBlocks ==
  ASSUME GInv, Separate, NoDeadCode, NEW f \in DOMAIN Functions, NEW G, G = Functions[f],
         NEW b \in DOMAIN G
  PROVE  NeatBlock(code, G, b)
<1>1. PICK s : s = G[b].Instructions
  OBVIOUS
<1>2. PICK i : i = Last(s)
  OBVIOUS
<1>3. PICK n : n = G[b].NextBlocks
  OBVIOUS
<1>4. /\ s \in Seq(Indices) /\ s # <<>> /\ Len(s) \in Nat /\ Len(s) \in 1..Len(s) /\ i = s[Len(s)]
      /\ i \in Indices /\ n \in Seq(Indices) /\ Range(n) \subseteq DOMAIN G
      /\ BlockWhole(G, b, NoBlock) /\ b # NoBlock /\ b \in Indices
      /\ BlockStraight(G, b, NoBlock)
  BY <1>1, <1>2, <1>3, MadeParts
<1>5. code \in Programs /\ Len(code) \in Nat /\ \A x \in Indices : x \in Nat /\ x < Len(code)
  BY CodeTypes DEF GInv, Types, Indices
<1>6. /\ \A k \in 1..Len(s) : Range(Edges(s[k])) \subseteq Range(n)
      /\ RunsOn(i) => i + 1 \in Range(n)
  BY <1>1, <1>2, <1>3, <1>4 DEF BlockWhole
<1>7. /\ \A k \in 1..Len(s) : s[k] = b + k - 1
      /\ \A k \in 1 .. Len(s) - 1 : ~EndsBlock(s[k])
      /\ Op(i) \in Jumps => G[b].BrBlock = Dest(i)
      /\ RunsOn(i) /\ Op(i) = "COND" => G[b].NoBrBlock = i + 1
      /\ ~EndsBlock(i) => n = <<i + 1>>
  <2>1. /\ \A k \in 1..Len(s) : s[k] = b + k - 1
        /\ \A k \in 1 .. Len(s) - 1 : ~EndsBlock(s[k])
        /\ Op(i) \in Jumps => G[b].BrBlock = Dest(i)
        /\ Op(i) = "COND" => G[b].NoBrBlock = i + 1
        /\ ~EndsBlock(i) /\ Handlers(s) = {} => n = <<i + 1>>
        /\ Handlers(s) # {} => EndsBlock(i)
    BY ONLY <1>1, <1>2, <1>3, <1>4 DEF BlockStraight
  <2> QED
    BY <2>1
<1>8. ASSUME NEW j \in Range(s)
      PROVE  j \in Indices /\ Range(Edges(j)) \subseteq DOMAIN G
  <2>1. PICK k \in 1..Len(s) : j = s[k]
    BY <1>4 DEF Range
  <2>2. Range(Edges(s[k])) \subseteq Range(n)
    BY <1>6
  <2> QED
    BY <2>1, <2>2, <1>4
<1>9. s \in Seq(Nat)
  <2>1. \A k \in 1..Len(s) : s[k] \in Nat
    BY <1>4, <1>5
  <2> QED
    BY <2>1, <1>4
<1>10. \A k \in 1..Len(s) : s[k] < Len(code)
  BY <1>4, <1>5
<1>11. \A j \in Indices : Ending(code, j) <=> EndsBlock(j)
  BY DEF Ending, EndsBlock, Op
<1>12. ASSUME NEW j \in Range(s), code[j + 1].op = "PUSHTRAP"
       PROVE  code[j + 1].dests[1] \in DOMAIN G /\ j < code[j + 1].dests[1]
  <2>1. Op(j) = "PUSHTRAP" /\ HasTarget(j) /\ code[j + 1].dests[1] = Dest(j)
    BY <1>12 DEF Op, HasTarget, Dest, Dests
  <2>2. j \in Indices /\ Range(Edges(j)) = {Dest(j)}
    BY <2>1, <1>5, <1>8, EdgeTypes
  <2> QED
    BY <2>1, <2>2, <1>5, <1>8, ForwardTargets
<1>13. GoesOn(code, G, b, i)
  <2>1. i \in Range(s)
    BY <1>4 DEF Range
  <2>2. ASSUME Op(i) \in Jumps
        PROVE  G[b].BrBlock = Dest(i) /\ Dest(i) \in DOMAIN G /\ Range(Edges(i)) = {Dest(i)}
    <3>1. HasTarget(i)
      BY <2>2 DEF HasTarget
    <3>2. Range(Edges(i)) = {Dest(i)}
      BY <3>1, <1>4, <1>5, EdgeTypes
    <3> QED
      BY <3>2, <2>1, <2>2, <1>7, <1>8
  <2>3. Op(i) = "BRANCH" => G[b].BrBlock \in DOMAIN G /\ i < G[b].BrBlock
    BY <2>2, <1>4, <1>5, ForwardTargets DEF Jumps
  <2>4. Op(i) = "COND" => G[b].BrBlock \in DOMAIN G /\ G[b].NoBrBlock \in DOMAIN G
    <3>1. Op(i) = "COND" => RunsOn(i) /\ Op(i) \in Jumps
      BY DEF RunsOn, Leaving, Ends, Jumps
    <3> QED
      BY <3>1, <2>2, <1>4, <1>6, <1>7
  <2>5. Op(i) = "SWITCH" => \A d \in Range(Dests(i)) : d \in DOMAIN G /\ i < d
    <3>1. SUFFICES ASSUME Op(i) = "SWITCH", NEW d \in Range(Dests(i))
                   PROVE  d \in DOMAIN G /\ i < d
      OBVIOUS
    <3>2. Edges(i) = Dests(i)
      BY <3>1, <1>4, <1>5, EdgeTypes DEF isSwitch
    <3> QED
      BY <3>1, <3>2, <2>1, <1>4, <1>5, <1>8, ForwardTargets
  <2>6. ~EndsBlock(i) => Head(n) \in DOMAIN G /\ i < Head(n)
    <3>1. SUFFICES ASSUME ~EndsBlock(i) PROVE Head(n) \in DOMAIN G /\ i < Head(n)
      OBVIOUS
    <3>2. n = <<i + 1>> /\ Head(n) = i + 1
      BY <3>1, <1>7
    <3>3. Range(<<i + 1>>) = {i + 1}
      BY DEF Range
    <3>4. i < i + 1
      BY <1>4, <1>5
    <3> QED
      BY <3>2, <3>3, <3>4, <1>4
  <2>7. code[i + 1].op = Op(i) /\ code[i + 1].dests = Dests(i)
    BY DEF Op, Dests
  <2>8. Ending(code, i) <=> EndsBlock(i)
    BY <1>4, <1>11
  <2> QED
    BY ONLY <2>3, <2>4, <2>5, <2>6, <2>7, <2>8, <1>3 DEF GoesOn
<1>14. ASSUME NEW c \in DOMAIN G, b < c PROVE b + Len(s) <= c
  <2>1. c \in Nat /\ b \in Nat
    BY <1>4, <1>5 DEF GInv, Types, IsGraph
  <2>2. SUFFICES ASSUME ~(b + Len(s) <= c) PROVE FALSE
    OBVIOUS
  <2>3. c - b + 1 \in 1..Len(s) /\ b + (c - b + 1) - 1 = c
    BY <2>1, <2>2, <1>4, <1>14
  <2>4. s[c - b + 1] = c
    BY <2>3, <1>7
  <2>5. c \in Range(s)
    BY <2>3, <2>4 DEF Range
  <2>6. c = b
    BY <2>5, <1>1 DEF Separate, Apart
  <2> QED
    BY <2>1, <2>6, <1>14
<1>15. \A k \in 1 .. Len(s) - 1 : ~Ending(code, s[k])
  <2>1. \A k \in 1 .. Len(s) - 1 : s[k] \in Indices
    BY <1>4
  <2> QED
    BY <2>1, <1>7, <1>11
<1> QED
  BY <1>1, <1>4, <1>7, <1>9, <1>10, <1>12, <1>13, <1>14, <1>15 DEF NeatBlock

LEMMA NeatFunctions ==
  ASSUME GInv, Separate, NoDeadCode, NEW f \in DOMAIN Functions
  PROVE  Neat(code, f, Functions[f])
<1>1. code \in Programs /\ Len(code) \in Nat
  BY CodeTypes DEF GInv, Types
<1>2. /\ f \in DOMAIN Functions[f] /\ \A b \in DOMAIN Functions[f] : f <= b
      /\ DOMAIN Functions[f] \subseteq Nat
  BY DEF GInv, Made, Finished, Linkage, Types, IsGraph, Indices
<1>3. \A b \in DOMAIN Functions[f] : NeatBlock(code, Functions[f], b)
  BY NeatBlocks
<1>4. \A i, j \in 0 .. Len(code) - 1 :
        code[i + 1].op = "PUSHTRAP" /\ code[j + 1].op = "PUSHTRAP"
          /\ code[i + 1].dests[1] = code[j + 1].dests[1] => i = j
  BY <1>1, ForwardTargets DEF Indices, isPushTrap, Dest, Dests, Op
<1> QED
  BY <1>2, <1>3, <1>4 DEF Neat

-----------------------------------------------------------------------------
(* The text of one function, when it is done up to block x, instruction k. *)

\* All instructions before this one are done, none behind it.
Cursor(x, k) == IF k = 0 THEN x ELSE x + k - 1

\* A PUSHTRAP done has b for its handler.
Handled(p, G, c, b) ==
  \E a \in DOMAIN G : \E i \in Range(G[a].Instructions) :
    i < c /\ p[i + 1].op = "PUSHTRAP" /\ p[i + 1].dests[1] = b

\* Block b still wants a terminator.
IsOpen(p, s, b, x, k) == b > x \/ (b = x /\ (k <= Len(s) \/ ~Ending(p, s[Len(s)])))

\* What a block is before its own code is generated
Fresh(h) == IF h THEN << <<HandlerEntry>> >> ELSE << <<>> >>

BlockText(p, f, G, b, t, x, k) ==
  /\ Shaped(t, IsOpen(p, G[b].Instructions, b, x, k))
  /\ Aimed(DOMAIN G, f, b, t)
  /\ Coded(G[b].Instructions, t, Cursor(x, k))
  /\ Entered(t, Handled(p, G, Cursor(x, k), b))
  /\ b > x => t = Fresh(Handled(p, G, Cursor(x, k), b))

FunctionText(p, f, G, T, x, k) ==
  DOMAIN T = DOMAIN G /\ \A b \in DOMAIN G : BlockText(p, f, G, b, T[b], x, k)

LEMMA FreshText ==
  ASSUME NEW h \in BOOLEAN, NEW t, t = Fresh(h), NEW D, NEW f, NEW b,
         NEW s \in Seq(Nat), NEW c, \A i \in Range(s) : ~(i < c)
  PROVE  Shaped(t, TRUE) /\ Aimed(D, f, b, t) /\ Coded(s, t, c) /\ Entered(t, h) /\ Len(t) = 1
<1>1. PICK r : r = IF h THEN <<HandlerEntry>> ELSE <<>>
  OBVIOUS
<1>2. t = <<r>>
  BY <1>1 DEF Fresh
<1>3. HandlerEntry \in Items /\ HandlerEntry.code = -2 /\ ~HandlerEntry.ends /\ HandlerEntry.targets = {}
  BY ItemTypes
<1>4. r \in Seq(Items) /\ Len(r) \in Nat /\ (h => Len(r) = 1) /\ (~h => Len(r) = 0)
  BY <1>1, <1>3
<1>5. \A m \in 1..Len(r) : r[m] = HandlerEntry /\ m = 1 /\ h
  BY <1>1, <1>4
<1>6. t \in Seq(Seq(Items)) /\ t # <<>> /\ Len(t) = 1 /\ t[1] = r
  <2>1. PICK S : S = Seq(Items)
    OBVIOUS
  <2>2. r \in S
    BY <2>1, <1>4
  <2>3. <<r>> \in Seq(S) /\ <<r>> # <<>> /\ Len(<<r>>) = 1 /\ <<r>>[1] = r
    BY ONLY <2>2
  <2> QED
    BY ONLY <2>1, <2>3, <1>2
<1>7. \A n \in 1..Len(t) : n = 1 /\ t[n] = r
  BY <1>6
<1>8. Shaped(t, TRUE)
  <2>1. \A n \in 1 .. Len(t) - 1 : FALSE
    BY <1>6
  <2>2. Unended(t[Len(t)])
    BY <1>3, <1>5, <1>6 DEF Unended
  <2> QED
    BY <2>1, <2>2, <1>6 DEF Shaped
<1>9. Aimed(D, f, b, t)
  <2>1. \A n \in 1..Len(t) : \A m \in 1..Len(t[n]) : t[n][m].targets = {}
    BY <1>3, <1>5, <1>7
  <2> QED
    BY <2>1 DEF Aimed
<1>10. Coded(s, t, c)
  <2>1. \A n \in 1..Len(t) : \A m \in 1..Len(t[n]) : t[n][m].code = -2
    BY <1>3, <1>5, <1>7
  <2>2. -2 >= -3 /\ ~(-2 >= 0)
    OBVIOUS
  <2>3. \A n \in 1..Len(t) : InOrder(t[n])
    BY <2>1, <2>2 DEF InOrder
  <2>4. \A n \in 1..Len(t) : \A m \in 1..Len(t[n]) : t[n][m].code >= -3 /\ ~(t[n][m].code >= 0)
    BY <2>1, <2>2
  <2> QED
    BY <2>3, <2>4 DEF Coded
<1>11. Entered(t, h)
  <2>1. StartsWithEntry(t) => h
    <3>1. ASSUME StartsWithEntry(t) PROVE h
      <4>1. r # <<>>
        BY <3>1, <1>6 DEF StartsWithEntry
      <4> QED
        BY <4>1, <1>1
    <3> QED
      BY <3>1
  <2>2. h => StartsWithEntry(t)
    <3>1. ASSUME h PROVE StartsWithEntry(t)
      <4>1. r = <<HandlerEntry>> /\ r # <<>> /\ r[1] = HandlerEntry
        BY <3>1, <1>1
      <4> QED
        BY <4>1, <1>6 DEF StartsWithEntry
    <3> QED
      BY <3>1
  <2>3. \A n \in 1..Len(t) : \A m \in 1..Len(t[n]) : n = 1 /\ m = 1
    BY <1>5, <1>7
  <2> QED
    BY <2>1, <2>2, <2>3 DEF Entered
<1> QED
  BY <1>6, <1>8, <1>9, <1>10, <1>11

\* Where the instructions of a block are
LEMMA NeatParts ==
  ASSUME NEW p, NEW f, NEW G, Neat(p, f, G), NEW b \in DOMAIN G
  PROVE  /\ b \in Nat /\ f \in Nat /\ f <= b
         /\ G[b].Instructions \in Seq(Nat) /\ G[b].Instructions # <<>>
         /\ Len(G[b].Instructions) \in Nat /\ Len(G[b].Instructions) > 0
         /\ \A k \in 1..Len(G[b].Instructions) :
              G[b].Instructions[k] = b + k - 1 /\ G[b].Instructions[k] \in Range(G[b].Instructions)
         /\ \A i \in Range(G[b].Instructions) :
              i \in Nat /\ b <= i /\ i < b + Len(G[b].Instructions) /\ i < Len(p)
         /\ \A c \in DOMAIN G : c \in Nat /\ (b < c => b + Len(G[b].Instructions) <= c)
<1>0. PICK s : s = G[b].Instructions
  OBVIOUS
<1>1. DOMAIN G \subseteq Nat /\ f \in DOMAIN G /\ f <= b /\ NeatBlock(p, G, b)
  BY DEF Neat
<1>2. /\ s \in Seq(Nat) /\ s # <<>> /\ \A k \in 1..Len(s) : s[k] = b + k - 1 /\ s[k] < Len(p)
      /\ \A c \in DOMAIN G : b < c => b + Len(s) <= c
  BY <1>0, <1>1 DEF NeatBlock
<1>3. Len(s) \in Nat /\ Len(s) > 0 /\ b \in Nat /\ f \in Nat
  BY <1>1, <1>2
<1>4. ASSUME NEW i \in Range(s) PROVE i \in Nat /\ b <= i /\ i < b + Len(s) /\ i < Len(p)
  <2>1. PICK k \in 1..Len(s) : i = s[k]
    BY <1>4 DEF Range
  <2>2. i = b + k - 1 /\ i < Len(p)
    BY <2>1, <1>2
  <2> QED
    BY <2>2, <1>3
<1>5. \A k \in 1..Len(s) : s[k] \in Range(s)
  BY DEF Range
<1> QED
  BY <1>0, <1>1, <1>2, <1>3, <1>4, <1>5

\* A function is begun with all its blocks fresh.
LEMMA StartText ==
  ASSUME NEW p, NEW f, NEW G, Neat(p, f, G), NEW T, DOMAIN T = DOMAIN G,
         \A b \in DOMAIN G : T[b] = << <<>> >>
  PROVE  FunctionText(p, f, G, T, f, 0)
<1>1. ASSUME NEW b \in DOMAIN G PROVE BlockText(p, f, G, b, T[b], f, 0)
  <2>1. Cursor(f, 0) = f
    BY DEF Cursor
  <2>2. ~Handled(p, G, f, b)
    <3>1. ASSUME NEW a \in DOMAIN G, NEW i \in Range(G[a].Instructions) PROVE ~(i < f)
      <4>1. i \in Nat /\ a <= i /\ f <= a /\ f \in Nat /\ a \in Nat
        BY NeatParts
      <4> QED
        BY <4>1
    <3> QED
      BY <3>1 DEF Handled
  <2>3. T[b] = Fresh(FALSE)
    BY DEF Fresh
  <2>4. G[b].Instructions \in Seq(Nat) /\ \A i \in Range(G[b].Instructions) : ~(i < f)
    <3>1. /\ \A i \in Range(G[b].Instructions) : i \in Nat /\ b <= i
          /\ G[b].Instructions \in Seq(Nat) /\ b \in Nat /\ f \in Nat /\ f <= b
      BY NeatParts
    <3> QED
      BY <3>1
  <2>5. /\ Shaped(T[b], TRUE) /\ Aimed(DOMAIN G, f, b, T[b]) /\ Coded(G[b].Instructions, T[b], f)
        /\ Entered(T[b], FALSE)
    BY <2>3, <2>4, FreshText
  <2>6. IsOpen(p, G[b].Instructions, b, f, 0)
    <3>1. b \in Nat /\ f \in Nat /\ f <= b /\ Len(G[b].Instructions) \in Nat
      BY NeatParts
    <3> QED
      BY <3>1 DEF IsOpen
  <2>7. Shaped(T[b], IsOpen(p, G[b].Instructions, b, f, 0))
    BY <2>5, <2>6 DEF Shaped
  <2>8. Entered(T[b], Handled(p, G, f, b))
    BY <2>2, <2>5 DEF Entered
  <2>9. T[b] = Fresh(Handled(p, G, f, b))
    BY <2>2, <2>3 DEF Fresh
  <2> QED
    BY <2>1, <2>5, <2>7, <2>8, <2>9 DEF BlockText
<1> QED
  BY <1>1 DEF FunctionText

\* A block stays as it is while another is worked on.
LEMMA RestText ==
  ASSUME NEW p, NEW f, NEW G, NEW b, NEW t, NEW x, NEW k, NEW y, NEW l,
         BlockText(p, f, G, b, t, x, k),
         Cursor(x, k) \in Int, Cursor(y, l) \in Int, Cursor(x, k) <= Cursor(y, l),
         IsOpen(p, G[b].Instructions, b, y, l) <=> IsOpen(p, G[b].Instructions, b, x, k),
         Handled(p, G, Cursor(y, l), b) <=> Handled(p, G, Cursor(x, k), b),
         b > y => b > x,
         \A i \in Range(G[b].Instructions) :
           i < Cursor(y, l) => i < Cursor(x, k) \/ Emits(t, i)
  PROVE  BlockText(p, f, G, b, t, y, l)
<1>1. /\ Shaped(t, IsOpen(p, G[b].Instructions, b, x, k)) /\ Aimed(DOMAIN G, f, b, t)
      /\ Coded(G[b].Instructions, t, Cursor(x, k))
      /\ Entered(t, Handled(p, G, Cursor(x, k), b))
      /\ b > x => t = Fresh(Handled(p, G, Cursor(x, k), b))
  BY DEF BlockText
<1>2. t \in Seq(Seq(Items))
  BY <1>1 DEF Shaped
<1>3. Coded(G[b].Instructions, t, Cursor(y, l))
  BY <1>1, <1>2, CursorMoves
<1>4. Shaped(t, IsOpen(p, G[b].Instructions, b, y, l))
  BY <1>1 DEF Shaped
<1>5. Entered(t, Handled(p, G, Cursor(y, l), b))
  BY <1>1 DEF Entered
<1>6. b > y => t = Fresh(Handled(p, G, Cursor(y, l), b))
  BY <1>1 DEF Fresh
<1> QED
  BY <1>1, <1>3, <1>4, <1>5, <1>6 DEF BlockText
\* The block x is worked on: its text t is extended, and the work is then at
\* instruction l of block y.
Works(p, f, G, x, t, k, y, l, items, new, i, o) ==
  LET s == G[x].Instructions  c == Cursor(x, k)  d == Cursor(y, l) IN
    /\ s \in Seq(Nat) /\ i \in Int /\ i # -2 /\ c \in Int /\ d \in Int /\ c <= d
    /\ BlockText(p, f, G, x, t, x, k) /\ ~(x > y)
    /\ IsOpen(p, s, x, x, k)
    /\ IsOpen(p, s, x, y, l) <=> o
    /\ Addition(DOMAIN G, f, x, Len(t), items, new, i, o)
    /\ Handled(p, G, d, x) <=> Handled(p, G, c, x)
    /\ i = -1 \/ (i = c /\ i \in Range(s))
    /\ \A j \in Range(s) : j < d => j < c \/ (j = i /\ Holds(items, new, i))

LEMMA WorkText ==
  ASSUME NEW p, NEW f, NEW G, NEW x, NEW t, NEW k, NEW y, NEW l, NEW items, NEW new, NEW i, NEW o,
         Works(p, f, G, x, t, k, y, l, items, new, i, o), NEW u, u = Extended(t, items, new)
  PROVE  BlockText(p, f, G, x, u, y, l)
<1> PICK s : s = G[x].Instructions
  OBVIOUS
<1> PICK c : c = Cursor(x, k)
  OBVIOUS
<1> PICK d : d = Cursor(y, l)
  OBVIOUS
<1>0. /\ s \in Seq(Nat) /\ i \in Int /\ i # -2 /\ c \in Int /\ d \in Int /\ c <= d
      /\ BlockText(p, f, G, x, t, x, k) /\ ~(x > y)
      /\ IsOpen(p, s, x, x, k)
      /\ IsOpen(p, s, x, y, l) <=> o
      /\ Addition(DOMAIN G, f, x, Len(t), items, new, i, o)
      /\ Handled(p, G, d, x) <=> Handled(p, G, c, x)
      /\ i = -1 \/ (i = c /\ i \in Range(s))
      /\ \A j \in Range(s) : j < d => j < c \/ (j = i /\ Holds(items, new, i))
  BY DEF Works
<1>1. /\ Shaped(t, TRUE) /\ Aimed(DOMAIN G, f, x, t) /\ Coded(s, t, c)
      /\ Entered(t, Handled(p, G, c, x))
  <2>1. Shaped(t, IsOpen(p, s, x, x, k)) /\ Aimed(DOMAIN G, f, x, t) /\ Coded(s, t, c)
        /\ Entered(t, Handled(p, G, c, x))
    BY <1>0 DEF BlockText
  <2> QED
    BY <2>1, <1>0 DEF Shaped
<1>2. Shaped(u, o)
  <2>1. u = Extended(t, items, new)
    OBVIOUS
  <2> QED
    BY ONLY <1>0, <1>1, <2>1, ExtendShaped
<1>3. Shaped(u, IsOpen(p, s, x, y, l))
  BY <1>0, <1>2 DEF Shaped
<1>4. Aimed(DOMAIN G, f, x, u)
  BY <1>0, <1>1, ExtendAimed
<1>5. Entered(u, Handled(p, G, c, x))
  BY <1>0, <1>1, ExtendEntered
<1>6. Entered(u, Handled(p, G, d, x))
  BY <1>0, <1>5 DEF Entered
<1>7. Coded(s, u, c) /\ (Holds(items, new, i) => Emits(u, i))
  <2>1. /\ Addition(DOMAIN G, f, x, Len(t), items, new, i, o) /\ u = Extended(t, items, new)
        /\ s \in Seq(Nat) /\ c \in Int /\ i \in Int /\ (i = -1 \/ (i = c /\ i \in Range(s)))
    BY <1>0
  <2> QED
    BY ONLY <1>1, <2>1, ExtendCoded
<1>8. Coded(s, u, d)
  <2>1. u \in Seq(Seq(Items))
    BY <1>2 DEF Shaped
  <2>2. \A j \in Range(s) : j < d => j < c \/ Emits(u, j)
    BY <1>0, <1>7
  <2> QED
    BY <2>1, <2>2, <1>0, <1>7, CursorMoves
<1>9. x > y => u = Fresh(Handled(p, G, d, x))
  BY <1>0
<1> QED
  BY <1>3, <1>4, <1>6, <1>8, <1>9 DEF BlockText

LEMMA BeginText ==
  ASSUME NEW p, NEW f, NEW G, Neat(p, f, G), NEW x \in DOMAIN G,
         NEW T, FunctionText(p, f, G, T, x, 0), NEW U, DOMAIN U = DOMAIN T,
         \A b \in DOMAIN G : b # x => U[b] = T[b],
         U[x] = T[x] \/ U[x] = Extended(T[x], <<InitCall>>, <<>>)
  PROVE  FunctionText(p, f, G, U, x, 1)
<1>1. PICK s : s = G[x].Instructions
  OBVIOUS
<1>2. x \in Nat /\ s \in Seq(Nat) /\ Len(s) \in Nat /\ Len(s) > 0
  BY <1>1, NeatParts
<1>3. Cursor(x, 0) = x /\ Cursor(x, 1) = x
  BY <1>2 DEF Cursor
<1>4. IsOpen(p, s, x, x, 0) /\ IsOpen(p, s, x, x, 1)
  BY <1>2 DEF IsOpen
<1>5. \A b \in DOMAIN G : IsOpen(p, G[b].Instructions, b, x, 1) <=> IsOpen(p, G[b].Instructions, b, x, 0)
  BY <1>1, <1>4 DEF IsOpen
<1>6. \A b \in DOMAIN G : BlockText(p, f, G, b, T[b], x, 0)
  BY DEF FunctionText
<1>7. \A b \in DOMAIN G : BlockText(p, f, G, b, T[b], x, 1)
  BY <1>2, <1>3, <1>5, <1>6, RestText
<1>8. ASSUME U[x] = Extended(T[x], <<InitCall>>, <<>>)
      PROVE  BlockText(p, f, G, x, U[x], x, 1)
  <2>1. Addition(DOMAIN G, f, x, Len(T[x]), <<InitCall>>, <<>>, -1, TRUE)
    <3>1. InitCall \in Items /\ InitCall.code = -3 /\ ~InitCall.ends /\ InitCall.targets = {}
      BY ItemTypes
    <3>2. <<InitCall>> \in Seq(Items) /\ Len(<<InitCall>>) = 1 /\ <<InitCall>>[1] = InitCall
      BY <3>1
    <3>3. \A m \in 1..Len(<<InitCall>>) : <<InitCall>>[m] = InitCall
      BY <3>2
    <3>4. <<>> \in Seq(Seq(Items)) /\ \A n \in 1..Len(<<>>) : FALSE
      OBVIOUS
    <3>5. Unended(<<InitCall>>)
      BY <3>1, <3>3 DEF Unended
    <3> QED
      BY <3>1, <3>2, <3>3, <3>4, <3>5 DEF Addition
  <2>2. ~(x > x) /\ -1 \in Int /\ -1 # -2 /\ x \in Int /\ x <= x
    BY <1>2
  <2>3. Works(p, f, G, x, T[x], 0, x, 1, <<InitCall>>, <<>>, -1, TRUE)
    BY <2>1, <2>2, <1>1, <1>2, <1>3, <1>4, <1>6 DEF Works
  <2> QED
    BY <2>3, <1>8, WorkText
<1> QED
  BY <1>7, <1>8 DEF FunctionText
\* Instruction i is generated: the k-th of s, in block x.
Doing(p, f, G, x, s, k, i) ==
  Neat(p, f, G) /\ x \in DOMAIN G /\ s = G[x].Instructions /\ k \in 1..Len(s) /\ i = s[k]

LEMMA AtInst ==
  ASSUME NEW p, NEW f, NEW G, NEW x, NEW s, NEW k, NEW i, Doing(p, f, G, x, s, k, i)
  PROVE  /\ x \in Nat /\ s \in Seq(Nat) /\ Len(s) \in Nat /\ k \in Nat /\ i \in Nat /\ i \in Range(s)
         /\ i = x + k - 1 /\ x <= i /\ i < x + Len(s) /\ i < Len(p)
         /\ Cursor(x, k) = i /\ Cursor(x, k + 1) = i + 1
         /\ IsOpen(p, s, x, x, k)
         /\ IsOpen(p, s, x, x, k + 1) <=> ~Ending(p, i)
<1>0. Neat(p, f, G) /\ x \in DOMAIN G /\ s = G[x].Instructions /\ k \in 1..Len(s) /\ i = s[k]
  BY DEF Doing
<1>1. /\ x \in Nat /\ s \in Seq(Nat) /\ Len(s) \in Nat /\ Len(s) > 0
      /\ s[k] = x + k - 1 /\ s[k] \in Range(s)
  BY <1>0, NeatParts
<1>2. k \in Nat /\ k > 0 /\ k <= Len(s) /\ i \in Nat /\ x <= i /\ i < x + Len(s)
  BY <1>0, <1>1
<1>3. Cursor(x, k) = i
  BY <1>0, <1>1, <1>2 DEF Cursor
<1>4. Cursor(x, k + 1) = i + 1
  <2>1. k + 1 # 0 /\ x + (k + 1) - 1 = (x + k - 1) + 1
    BY <1>1, <1>2
  <2> QED
    BY <2>1, <1>0, <1>1 DEF Cursor
<1>5. IsOpen(p, s, x, x, k)
  BY <1>2 DEF IsOpen
<1>6. \A m \in 1 .. Len(s) - 1 : ~Ending(p, s[m])
  BY <1>0 DEF Neat, NeatBlock
<1>7. i < Len(p)
  BY <1>0, <1>1, NeatParts
<1>8. IsOpen(p, s, x, x, k + 1) <=> ~Ending(p, i)
  <2>1. CASE k = Len(s)
    <3>1. ~(x > x) /\ ~(k + 1 <= Len(s))
      BY <1>1, <1>2, <2>1
    <3> QED
      BY <3>1, <2>1, <1>0 DEF IsOpen
  <2>2. CASE k # Len(s)
    <3>1. k \in 1 .. Len(s) - 1 /\ k + 1 <= Len(s)
      BY <1>1, <1>2, <2>2
    <3>2. ~Ending(p, i)
      BY <3>1, <1>0, <1>6
    <3>3. IsOpen(p, s, x, x, k + 1)
      BY <3>1 DEF IsOpen
    <3> QED
      BY <3>2, <3>3
  <2> QED
    BY <2>1, <2>2
<1> QED
  BY <1>0, <1>1, <1>2, <1>3, <1>4, <1>5, <1>7, <1>8

\* A PUSHTRAP is the only instruction that gives a handler its entry.
LEMMA HandledGrows ==
  ASSUME NEW p, NEW f, NEW G, NEW x, NEW s, NEW k, NEW i, Doing(p, f, G, x, s, k, i), NEW b
  PROVE  Handled(p, G, i + 1, b) <=>
           \/ Handled(p, G, i, b)
           \/ p[i + 1].op = "PUSHTRAP" /\ p[i + 1].dests[1] = b
<1>1. i \in Nat /\ i \in Range(s) /\ Neat(p, f, G)
  BY AtInst DEF Doing
<1>2. ASSUME NEW a \in DOMAIN G, NEW j \in Range(G[a].Instructions)
      PROVE  (j < i + 1 <=> j < i \/ j = i)
  <2>1. j \in Nat
    BY <1>1, NeatParts
  <2> QED
    BY <2>1, <1>1
<1>3. ASSUME Handled(p, G, i + 1, b)
      PROVE  \/ Handled(p, G, i, b)
             \/ p[i + 1].op = "PUSHTRAP" /\ p[i + 1].dests[1] = b
  <2>1. PICK a \in DOMAIN G : \E j \in Range(G[a].Instructions) :
          j < i + 1 /\ p[j + 1].op = "PUSHTRAP" /\ p[j + 1].dests[1] = b
    BY <1>3 DEF Handled
  <2>2. PICK j \in Range(G[a].Instructions) :
          j < i + 1 /\ p[j + 1].op = "PUSHTRAP" /\ p[j + 1].dests[1] = b
    BY <2>1
  <2>3. j < i \/ j = i
    BY <1>2, <2>2
  <2>4. CASE j < i
    BY <2>2, <2>4 DEF Handled
  <2>5. CASE j = i
    BY <2>2, <2>5
  <2> QED
    BY <2>3, <2>4, <2>5
<1>4. ASSUME Handled(p, G, i, b) PROVE Handled(p, G, i + 1, b)
  BY <1>2, <1>4 DEF Handled
<1>5. ASSUME p[i + 1].op = "PUSHTRAP", p[i + 1].dests[1] = b PROVE Handled(p, G, i + 1, b)
  <2>1. i < i + 1
    BY <1>1
  <2> QED
    BY <1>1, <1>5, <2>1 DEF Handled, Doing
<1> QED
  BY <1>3, <1>4, <1>5

\* Blocks that lie elsewhere have no part in it.
LEMMA Elsewhere ==
  ASSUME NEW p, NEW f, NEW G, NEW x, NEW s, NEW k, NEW i, Doing(p, f, G, x, s, k, i),
         NEW b \in DOMAIN G, b # x
  PROVE  /\ \A j \in Range(G[b].Instructions) : j < i + 1 => j < i
         /\ b > x => \A j \in Range(G[b].Instructions) : ~(j < i + 1)
         /\ \A l : IsOpen(p, G[b].Instructions, b, x, l) <=> b > x
<1>0. Neat(p, f, G) /\ x \in DOMAIN G /\ s = G[x].Instructions /\ k \in 1..Len(s) /\ i = s[k]
  BY DEF Doing
<1>1. x \in Nat /\ i \in Nat /\ i = x + k - 1 /\ Len(s) \in Nat /\ k \in Nat
  BY AtInst
<1>2. b \in Nat /\ Len(G[b].Instructions) \in Nat
  BY <1>0, NeatParts
<1>3. ASSUME NEW j \in Range(G[b].Instructions)
      PROVE  (j < i + 1 => j < i) /\ (b > x => ~(j < i + 1))
  <2>1. j \in Nat /\ b <= j /\ j < b + Len(G[b].Instructions)
    BY <1>0, NeatParts
  <2>2. b < x => b + Len(G[b].Instructions) <= x
    BY <1>0, NeatParts
  <2>3. x < b => x + Len(s) <= b
    BY <1>0, NeatParts
  <2>4. k <= Len(s) /\ k >= 1 /\ (b < x \/ b > x)
    BY <1>0, <1>1, <1>2
  <2> QED
    BY ONLY <2>1, <2>2, <2>3, <2>4, <1>1, <1>2
<1>4. \A l : IsOpen(p, G[b].Instructions, b, x, l) <=> b > x
  BY DEF IsOpen
<1> QED
  BY <1>3, <1>4

\* All blocks but x and the handler, if i is a PUSHTRAP
LEMMA OthersRest ==
  ASSUME NEW p, NEW f, NEW G, NEW x, NEW s, NEW k, NEW i, Doing(p, f, G, x, s, k, i),
         NEW b \in DOMAIN G, b # x, ~(p[i + 1].op = "PUSHTRAP" /\ p[i + 1].dests[1] = b),
         NEW t, BlockText(p, f, G, b, t, x, k)
  PROVE  BlockText(p, f, G, b, t, x, k + 1)
<1>0. Neat(p, f, G) /\ x \in DOMAIN G /\ s = G[x].Instructions /\ k \in 1..Len(s) /\ i = s[k]
  BY DEF Doing
<1>1. i \in Nat /\ Cursor(x, k) = i /\ Cursor(x, k + 1) = i + 1
  BY AtInst
<1>2. i \in Int /\ i + 1 \in Int /\ i <= i + 1
  BY <1>1
<1>3. Handled(p, G, i + 1, b) <=> Handled(p, G, i, b)
  BY HandledGrows
<1>4. \A j \in Range(G[b].Instructions) : j < i + 1 => j < i
  BY Elsewhere
<1>5. IsOpen(p, G[b].Instructions, b, x, k + 1) <=> IsOpen(p, G[b].Instructions, b, x, k)
  BY Elsewhere
<1>6. BlockText(p, f, G, b, t, x, k)
  OBVIOUS
<1> QED
  BY ONLY <1>1, <1>2, <1>3, <1>4, <1>5, <1>6, RestText

\* The block of i itself, which is no handler of i
LEMMA OwnWork ==
  ASSUME NEW p, NEW f, NEW G, NEW x, NEW s, NEW k, NEW i, Doing(p, f, G, x, s, k, i),
         NEW t, BlockText(p, f, G, x, t, x, k), NEW items, NEW new,
         Addition(DOMAIN G, f, x, Len(t), items, new, i, ~Ending(p, i)),
         Holds(items, new, i),
         NEW u, u = Extended(t, items, new)
  PROVE  BlockText(p, f, G, x, u, x, k + 1)
<1>0. Neat(p, f, G) /\ x \in DOMAIN G /\ s = G[x].Instructions /\ k \in 1..Len(s) /\ i = s[k]
  BY DEF Doing
<1>1. /\ x \in Nat /\ s \in Seq(Nat) /\ i \in Nat /\ i \in Range(s)
      /\ Cursor(x, k) = i /\ Cursor(x, k + 1) = i + 1
      /\ IsOpen(p, s, x, x, k)
      /\ IsOpen(p, s, x, x, k + 1) <=> ~Ending(p, i)
  BY AtInst
<1>2. ~(x > x) /\ i \in Int /\ i >= -1 /\ i + 1 \in Int /\ i <= i + 1
  BY <1>1
<1>3. Handled(p, G, i + 1, x) <=> Handled(p, G, i, x)
  <2>1. ~(p[i + 1].op = "PUSHTRAP" /\ p[i + 1].dests[1] = x)
    <3>1. p[i + 1].op = "PUSHTRAP" => i < p[i + 1].dests[1]
      BY <1>0, <1>1 DEF Neat, NeatBlock
    <3>2. x <= i
      BY AtInst
    <3>3. ~(i < x)
      BY <1>1, <3>2
    <3> QED
      BY <3>1, <3>3
  <2> QED
    BY <2>1, HandledGrows
<1>4. \A j \in Range(s) : j < i + 1 => j < i \/ j = i
  <2>1. \A j \in Range(s) : j \in Nat
    BY <1>0, NeatParts
  <2> QED
    BY <2>1, <1>1
<1>5. /\ BlockText(p, f, G, x, t, x, k) /\ s = G[x].Instructions
      /\ Holds(items, new, i)
      /\ u = Extended(t, items, new)
  BY <1>0
<1>6. i = -1 \/ (i = i /\ i \in Range(s))
  BY <1>1
<1>7. \A j \in Range(s) : j < i + 1 => j < i \/ (j = i /\ Holds(items, new, i))
  BY <1>4, <1>5
<1>8. i # -2
  BY <1>1
<1>9. CASE Ending(p, i)
  <2>1. /\ Addition(DOMAIN G, f, x, Len(t), items, new, i, FALSE)
        /\ IsOpen(p, s, x, x, k + 1) <=> FALSE
    BY <1>1, <1>9 DEF Addition
  <2>2. Works(p, f, G, x, t, k, x, k + 1, items, new, i, FALSE)
    BY ONLY <2>1, <1>1, <1>2, <1>3, <1>5, <1>6, <1>7, <1>8 DEF Works
  <2> QED
    BY ONLY <2>2, <1>5, WorkText
<1>10. CASE ~Ending(p, i)
  <2>1. /\ Addition(DOMAIN G, f, x, Len(t), items, new, i, TRUE)
        /\ IsOpen(p, s, x, x, k + 1) <=> TRUE
    BY <1>1, <1>10 DEF Addition
  <2>2. Works(p, f, G, x, t, k, x, k + 1, items, new, i, TRUE)
    BY ONLY <2>1, <1>1, <1>2, <1>3, <1>5, <1>6, <1>7, <1>8 DEF Works
  <2> QED
    BY ONLY <2>2, <1>5, WorkText
<1> QED
  BY <1>9, <1>10

\* An instruction that writes into its own block only
LEMMA InstText ==
  ASSUME NEW p, NEW f, NEW G, NEW x, NEW s, NEW k, NEW i, Doing(p, f, G, x, s, k, i),
         p[i + 1].op # "PUSHTRAP",
         NEW T, FunctionText(p, f, G, T, x, k), NEW items, NEW new,
         Addition(DOMAIN G, f, x, Len(T[x]), items, new, i, ~Ending(p, i)),
         Holds(items, new, i),
         NEW U, DOMAIN U = DOMAIN T, \A b \in DOMAIN G : b # x => U[b] = T[b],
         U[x] = Extended(T[x], items, new)
  PROVE  FunctionText(p, f, G, U, x, k + 1)
<1>0. Neat(p, f, G) /\ x \in DOMAIN G /\ s = G[x].Instructions /\ k \in 1..Len(s) /\ i = s[k]
  BY DEF Doing
<1>1. \A b \in DOMAIN G : BlockText(p, f, G, b, T[b], x, k)
  BY DEF FunctionText
<1>2. ASSUME NEW b \in DOMAIN G, b # x PROVE BlockText(p, f, G, b, U[b], x, k + 1)
  BY <1>1, <1>2, OthersRest
<1>3. BlockText(p, f, G, x, U[x], x, k + 1)
  BY <1>0, <1>1, OwnWork
<1> QED
  BY <1>2, <1>3 DEF FunctionText

\* i is a PUSHTRAP, h its handler.
Traps(p, i, h) == p[i + 1].op = "PUSHTRAP" /\ h = p[i + 1].dests[1]

\* A handler is a later block, and has no code before its PUSHTRAP.
Untouched(G, T, x, i, h) ==
  h \in DOMAIN G /\ i < h /\ h \in Nat /\ h > x /\ h # x /\ T[h] = << <<>> >>

LEMMA HandlerFresh ==
  ASSUME NEW p, NEW f, NEW G, NEW x, NEW s, NEW k, NEW i, Doing(p, f, G, x, s, k, i),
         NEW h, Traps(p, i, h), NEW T, FunctionText(p, f, G, T, x, k)
  PROVE  Untouched(G, T, x, i, h)
<1>0. Neat(p, f, G) /\ x \in DOMAIN G /\ s = G[x].Instructions /\ k \in 1..Len(s) /\ i = s[k]
  BY DEF Doing
<1>1. \A b \in DOMAIN G : BlockText(p, f, G, b, T[b], x, k)
  BY DEF FunctionText
<1>2. /\ i \in Nat /\ i \in Range(s) /\ x \in Nat /\ x <= i /\ i < x + Len(s) /\ Len(s) \in Nat
      /\ Cursor(x, k) = i /\ Cursor(x, k + 1) = i + 1
  BY AtInst
<1>3. h \in DOMAIN G /\ i < h /\ h \in Nat
  BY <1>0, <1>2 DEF Neat, NeatBlock, Traps
<1>4. h > x /\ h # x
  BY <1>2, <1>3
<1>5. ~Handled(p, G, i, h)
  <2>1. ASSUME NEW a \in DOMAIN G, NEW j \in Range(G[a].Instructions), j < i,
               p[j + 1].op = "PUSHTRAP", p[j + 1].dests[1] = h
        PROVE  FALSE
    <3>1. j \in Nat /\ j < Len(p) /\ i < Len(p)
      BY <1>0, AtInst, NeatParts
    <3>2. j \in 0 .. Len(p) - 1 /\ i \in 0 .. Len(p) - 1
      <4>1. Len(p) \in Int
        BY <1>0 DEF Neat
      <4> QED
        BY <3>1, <4>1, <1>2
    <3>3. j = i
      BY <3>2, <2>1, <1>0 DEF Neat, Traps
    <3> QED
      BY <3>1, <3>3, <2>1
  <2> QED
    BY <2>1 DEF Handled
<1>6. T[h] = << <<>> >>
  <2>1. T[h] = Fresh(Handled(p, G, i, h))
    BY <1>1, <1>2, <1>3, <1>4 DEF BlockText
  <2> QED
    BY <2>1, <1>5 DEF Fresh
<1> QED
  BY <1>3, <1>4, <1>6 DEF Untouched

\* PUSHTRAP: its handler gets its entry too.
Trapped(G, T, U, x, h, u) ==
  /\ DOMAIN U = DOMAIN T /\ \A b \in DOMAIN G : b \notin {x, h} => U[b] = T[b]
  /\ U[x] = u /\ U[h] = << <<HandlerEntry>> >>

LEMMA TrapText ==
  ASSUME NEW p, NEW f, NEW G, NEW x, NEW s, NEW k, NEW i, Doing(p, f, G, x, s, k, i),
         NEW h, Traps(p, i, h), NEW T, FunctionText(p, f, G, T, x, k), NEW items, NEW new,
         Addition(DOMAIN G, f, x, Len(T[x]), items, new, i, ~Ending(p, i)),
         Holds(items, new, i),
         NEW U, Trapped(G, T, U, x, h, Extended(T[x], items, new))
  PROVE  FunctionText(p, f, G, U, x, k + 1)
<1>0. Neat(p, f, G) /\ x \in DOMAIN G /\ s = G[x].Instructions /\ k \in 1..Len(s) /\ i = s[k]
  BY DEF Doing
<1>1. \A b \in DOMAIN G : BlockText(p, f, G, b, T[b], x, k)
  BY DEF FunctionText
<1>2. /\ DOMAIN U = DOMAIN T /\ \A b \in DOMAIN G : b \notin {x, h} => U[b] = T[b]
      /\ U[x] = Extended(T[x], items, new) /\ U[h] = << <<HandlerEntry>> >>
  BY DEF Trapped
<1>3. ASSUME NEW b \in DOMAIN G, b # x, b # h PROVE BlockText(p, f, G, b, U[b], x, k + 1)
  BY <1>1, <1>2, <1>3, OthersRest DEF Traps
<1>4. BlockText(p, f, G, x, U[x], x, k + 1)
  BY <1>0, <1>1, <1>2, OwnWork
<1>5. /\ i \in Nat /\ i \in Range(s) /\ x \in Nat /\ x <= i /\ i < x + Len(s) /\ Len(s) \in Nat
      /\ Cursor(x, k) = i /\ Cursor(x, k + 1) = i + 1
  BY AtInst
<1>6. h \in DOMAIN G /\ i < h /\ h \in Nat /\ h > x /\ h # x /\ T[h] = << <<>> >>
  BY ONLY Doing(p, f, G, x, s, k, i), Traps(p, i, h), FunctionText(p, f, G, T, x, k),
          HandlerFresh DEF Untouched
<1>7. Handled(p, G, i + 1, h)
  BY HandledGrows DEF Traps
<1>8. U[h] = Fresh(TRUE)
  BY <1>2 DEF Fresh
<1>9. G[h].Instructions \in Seq(Nat) /\ \A j \in Range(G[h].Instructions) : ~(j < i + 1)
  <2>1. G[h].Instructions \in Seq(Nat)
    BY <1>0, <1>6, NeatParts
  <2>2. \A j \in Range(G[h].Instructions) : ~(j < i + 1)
    BY <1>6, Elsewhere
  <2> QED
    BY <2>1, <2>2
<1>10. /\ Shaped(U[h], TRUE) /\ Aimed(DOMAIN G, f, h, U[h])
       /\ Coded(G[h].Instructions, U[h], i + 1) /\ Entered(U[h], TRUE)
  <2>1. TRUE \in BOOLEAN
    OBVIOUS
  <2> QED
    BY ONLY <2>1, <1>8, <1>9, FreshText
<1>11. IsOpen(p, G[h].Instructions, h, x, k + 1)
  BY <1>6 DEF IsOpen
<1>12. BlockText(p, f, G, h, U[h], x, k + 1)
  <2>1. Shaped(U[h], IsOpen(p, G[h].Instructions, h, x, k + 1))
    BY <1>10, <1>11 DEF Shaped
  <2>2. Entered(U[h], Handled(p, G, i + 1, h))
    BY <1>7, <1>10 DEF Entered
  <2>3. U[h] = Fresh(Handled(p, G, i + 1, h))
    BY <1>7, <1>8 DEF Fresh
  <2> QED
    BY <2>1, <2>2, <2>3, <1>5, <1>10 DEF BlockText
<1> QED
  BY <1>2, <1>3, <1>4, <1>12 DEF FunctionText

\* One function of a closure, not the last
LEMMA ClosureText ==
  ASSUME NEW p, NEW f, NEW G, NEW x, NEW s, NEW k, NEW i, Doing(p, f, G, x, s, k, i),
         NEW T, FunctionText(p, f, G, T, x, k), NEW items, NEW new,
         Addition(DOMAIN G, f, x, Len(T[x]), items, new, i, TRUE),
         NEW U, DOMAIN U = DOMAIN T, \A b \in DOMAIN G : b # x => U[b] = T[b],
         U[x] = Extended(T[x], items, new)
  PROVE  FunctionText(p, f, G, U, x, k)
<1>0. Neat(p, f, G) /\ x \in DOMAIN G /\ s = G[x].Instructions /\ k \in 1..Len(s) /\ i = s[k]
  BY DEF Doing
<1>1. \A b \in DOMAIN G : BlockText(p, f, G, b, T[b], x, k)
  BY DEF FunctionText
<1>2. /\ x \in Nat /\ s \in Seq(Nat) /\ i \in Nat /\ i \in Range(s)
      /\ Cursor(x, k) = i /\ IsOpen(p, s, x, x, k)
  BY AtInst
<1>3. ~(x > x) /\ i \in Int /\ i >= -1 /\ i <= i
  BY <1>2
<1>4. /\ BlockText(p, f, G, x, T[x], x, k) /\ s = G[x].Instructions
      /\ Addition(DOMAIN G, f, x, Len(T[x]), items, new, i, TRUE)
      /\ U[x] = Extended(T[x], items, new)
      /\ IsOpen(p, s, x, x, k) <=> TRUE
  BY <1>0, <1>1, <1>2
<1>5. i = -1 \/ (i = i /\ i \in Range(s))
  BY <1>2
<1>6. BlockText(p, f, G, x, U[x], x, k)
  <2>1. i # -2
    BY <1>2
  <2>2. Works(p, f, G, x, T[x], k, x, k, items, new, i, TRUE)
    BY ONLY <2>1, <1>2, <1>3, <1>4, <1>5 DEF Works
  <2> QED
    BY ONLY <2>2, <1>4, WorkText
<1> QED
  BY <1>0, <1>1, <1>6 DEF FunctionText

\* The text T becomes U at the end of block x: on to y, the next block, or past
\* the last one.  A block that no instruction ends gets a branch to z.
Leaves(p, f, G, x, T, y, z, U) ==
  LET s == G[x].Instructions IN
    /\ Neat(p, f, G) /\ x \in DOMAIN G /\ FunctionText(p, f, G, T, x, Len(s) + 1)
    /\ y \in Nat /\ x + Len(s) <= y /\ \A b \in DOMAIN G : x < b => y <= b
    /\ z \in DOMAIN G /\ f \in Nat /\ DOMAIN U = DOMAIN T
    /\ \A b \in DOMAIN G : b # x => U[b] = T[b]
    /\ IF Ending(p, s[Len(s)]) THEN U[x] = T[x]
       ELSE U[x] = Extended(T[x], <<Branch({<<f, z, 1>>})>>, <<>>)

LEMMA EndText ==
  ASSUME NEW p, NEW f, NEW G, NEW x, NEW T, NEW y, NEW z, NEW U, Leaves(p, f, G, x, T, y, z, U)
  PROVE  FunctionText(p, f, G, U, y, 0)
<1> PICK s : s = G[x].Instructions
  OBVIOUS
<1> SUFFICES ASSUME Neat(p, f, G), x \in DOMAIN G, FunctionText(p, f, G, T, x, Len(s) + 1),
                    y \in Nat, x + Len(s) <= y, \A b \in DOMAIN G : x < b => y <= b,
                    z \in DOMAIN G, f \in Nat, DOMAIN U = DOMAIN T,
                    \A b \in DOMAIN G : b # x => U[b] = T[b],
                    IF Ending(p, s[Len(s)]) THEN U[x] = T[x]
                    ELSE U[x] = Extended(T[x], <<Branch({<<f, z, 1>>})>>, <<>>)
             PROVE  FunctionText(p, f, G, U, y, 0)
  BY DEF Leaves
<1>1. /\ x \in Nat /\ s \in Seq(Nat) /\ Len(s) \in Nat /\ Len(s) > 0
  BY NeatParts
<1>2. PICK k : k = Len(s) + 1
  OBVIOUS
<1>3. k \in Nat /\ Cursor(x, k) = x + Len(s) /\ Cursor(y, 0) = y /\ ~(k <= Len(s)) /\ x < y
  BY <1>1, <1>2 DEF Cursor
<1>4. \A b \in DOMAIN G : BlockText(p, f, G, b, T[b], x, k)
  BY <1>2 DEF FunctionText
<1>5. \A b : Handled(p, G, y, b) <=> Handled(p, G, x + Len(s), b)
  <2>1. ASSUME NEW a \in DOMAIN G, NEW j \in Range(G[a].Instructions)
        PROVE  j < y <=> j < x + Len(s)
    <3>1. j \in Nat /\ a \in Nat /\ a <= j /\ j < a + Len(G[a].Instructions) /\ Len(G[a].Instructions) \in Nat
      BY NeatParts
    <3>2. CASE a < x
      <4>1. a + Len(G[a].Instructions) <= x
        BY <3>2, NeatParts
      <4> QED
        BY <4>1, <3>1, <1>1
    <3>3. CASE a = x
      BY <3>1, <3>3, <1>1
    <3>4. CASE a > x
      <4>1. x < a
        BY <3>1, <3>4, <1>1
      <4>2. y <= a
        BY <4>1
      <4> QED
        BY <4>2, <3>1, <1>1
    <3> QED
      BY <3>1, <3>2, <3>3, <3>4, <1>1
  <2> QED
    BY <2>1 DEF Handled
<1>6. ASSUME NEW b \in DOMAIN G, b # x PROVE BlockText(p, f, G, b, U[b], y, 0)
  <2>1. b \in Nat /\ Len(G[b].Instructions) \in Nat
    BY NeatParts
  <2>2. IsOpen(p, G[b].Instructions, b, y, 0) <=> IsOpen(p, G[b].Instructions, b, x, k)
    <3>1. b > x => b = y \/ b > y
      <4>1. x < b => y <= b
        OBVIOUS
      <4> QED
        BY <4>1, <2>1, <1>1
    <3>2. b < x => ~(b > y) /\ b # y
      BY <2>1, <1>1, <1>3
    <3>3. 0 <= Len(G[b].Instructions)
      BY <2>1
    <3>4. b < x \/ b > x
      BY <2>1, <1>1, <1>6
    <3>5. ~(b < x /\ b > x)
      BY <2>1, <1>1
    <3> QED
      BY <3>1, <3>2, <3>3, <3>4, <3>5, <1>6 DEF IsOpen
  <2>3. \A j \in Range(G[b].Instructions) : j < y => j < x + Len(s)
    <3>1. ASSUME NEW j \in Range(G[b].Instructions), j < y PROVE j < x + Len(s)
      <4>1. j \in Nat /\ b <= j /\ j < b + Len(G[b].Instructions)
        BY NeatParts
      <4>2. ~(x < b)
        <5>1. x < b => y <= b
          OBVIOUS
        <5> QED
          BY <5>1, <4>1, <3>1, <2>1
      <4>3. b < x
        BY <4>2, <2>1, <1>1, <1>6
      <4>4. b + Len(G[b].Instructions) <= x
        BY <4>3, NeatParts
      <4> QED
        BY <4>1, <4>4, <2>1, <1>1
    <3> QED
      BY <3>1
  <2>4. b > y => b > x
    BY <2>1, <1>1, <1>3
  <2>5. x + Len(s) \in Int /\ y \in Int /\ x + Len(s) <= y
    BY <1>1
  <2>6. BlockText(p, f, G, b, U[b], x, k)
    BY <1>4, <1>6
  <2>7. Handled(p, G, y, b) <=> Handled(p, G, x + Len(s), b)
    BY <1>5
  <2> QED
    BY ONLY <2>2, <2>3, <2>4, <2>5, <2>6, <2>7, <1>3, RestText
<1>7. ~IsOpen(p, s, x, y, 0) /\ ~(x > y)
  BY <1>1, <1>3 DEF IsOpen
<1>8. \A j \in Range(s) : j < y => j < x + Len(s)
  BY NeatParts
<1>9. x + Len(s) \in Int /\ y \in Int /\ x + Len(s) <= y
  BY <1>1
<1>10. BlockText(p, f, G, x, T[x], x, k)
  BY <1>4
<1>11. CASE Ending(p, s[Len(s)])
  <2>1. ~IsOpen(p, s, x, x, k)
    BY <1>1, <1>3, <1>11 DEF IsOpen
  <2>2. IsOpen(p, s, x, y, 0) <=> IsOpen(p, s, x, x, k)
    BY <2>1, <1>7
  <2>3. Handled(p, G, y, x) <=> Handled(p, G, x + Len(s), x)
    BY <1>5
  <2>4. x > y => x > x
    BY <1>7
  <2>5. s = G[x].Instructions
    OBVIOUS
  <2>6. BlockText(p, f, G, x, T[x], y, 0)
    BY ONLY <2>2, <2>3, <2>4, <2>5, <1>3, <1>8, <1>9, <1>10, RestText
  <2>7. U[x] = T[x]
    BY <1>11
  <2> QED
    BY <2>6, <2>7, <1>6 DEF FunctionText
<1>12. CASE ~Ending(p, s[Len(s)])
  <2>1. IsOpen(p, s, x, x, k)
    BY <1>12 DEF IsOpen
  <2>2. PICK br : br = Branch({<<f, z, 1>>})
    OBVIOUS
  <2>3. z \in Nat
    BY NeatParts
  <2>4. br \in Items /\ br.code = -1 /\ br.ends /\ br.targets = {<<f, z, 1>>}
    <3>1. <<f, z, 1>> \in Nat \X Nat \X Nat
      BY <2>3
    <3>2. {<<f, z, 1>>} \in SUBSET (Nat \X Nat \X Nat)
      BY <3>1
    <3> QED
      BY <2>2, <3>2, ItemTypes
  <2>5. Addition(DOMAIN G, f, x, Len(T[x]), <<br>>, <<>>, -1, FALSE)
    <3>1. <<br>> \in Seq(Items) /\ Len(<<br>>) = 1 /\ <<br>>[1] = br /\ <<br>> # <<>>
      BY <2>4
    <3>2. \A m \in 1..Len(<<br>>) : <<br>>[m] = br /\ m = 1
      BY <3>1
    <3>3. <<>> \in Seq(Seq(Items)) /\ \A n \in 1..Len(<<>>) : FALSE
      OBVIOUS
    <3>4. Closes(<<br>>)
      BY <2>4, <3>1, <3>2 DEF Closes
    <3>5. AimedAt(DOMAIN G, f, x, Len(T[x]), Len(T[x]) + Len(<<>>), <<f, z, 1>>)
      BY DEF AimedAt
    <3>6. \A m \in 1..Len(<<br>>) : <<br>>[m].code \in {-1, -1, -3}
      BY <2>4, <3>2
    <3>7. \A m \in 1..Len(<<br>>) : \A q \in <<br>>[m].targets :
            AimedAt(DOMAIN G, f, x, Len(T[x]), Len(T[x]) + Len(<<>>), q)
      BY <2>4, <3>2, <3>5
    <3> QED
      BY ONLY <3>1, <3>3, <3>4, <3>6, <3>7 DEF Addition
  <2>6. Works(p, f, G, x, T[x], k, y, 0, <<br>>, <<>>, -1, FALSE)
    <3>1. -1 \in Int /\ -1 # -2 /\ s = G[x].Instructions
      OBVIOUS
    <3> QED
      BY <3>1, <2>1, <2>5, <1>1, <1>3, <1>5, <1>7, <1>8, <1>9, <1>10 DEF Works
  <2>7. U[x] = Extended(T[x], <<br>>, <<>>)
    BY <2>2, <1>12
  <2>8. BlockText(p, f, G, x, U[x], y, 0)
    BY ONLY <2>6, <2>7, WorkText
  <2> QED
    BY <2>8, <1>6 DEF FunctionText
<1> QED
  BY <1>11, <1>12

-----------------------------------------------------------------------------
(* What the actions do to the texts of all functions *)

Changed(T, U, f, b, t) ==
  /\ DOMAIN U = DOMAIN T /\ \A g \in DOMAIN T : g # f => U[g] = T[g]
  /\ DOMAIN U[f] = DOMAIN T[f] /\ \A a \in DOMAIN T[f] : a # b => U[f][a] = T[f][a]
  /\ U[f][b] = t

LEMMA EmittedAt ==
  ASSUME NEW T, NEW f \in DOMAIN T, NEW b \in DOMAIN T[f], NEW n, NEW items
  PROVE  Changed(T, Emitted(T, <<f, b, n>>, items), f, b, [T[f][b] EXCEPT ![n] = @ \o items])
  BY DEF Changed, Emitted

LEMMA AddedAt ==
  ASSUME NEW T, NEW f \in DOMAIN T, NEW b \in DOMAIN T[f], NEW new
  PROVE  Changed(T, addBlock(T, f, b, new), f, b, T[f][b] \o new)
  BY DEF Changed, addBlock

LEMMA ChangedTwice ==
  ASSUME NEW T, NEW U, NEW V, NEW f \in DOMAIN T, NEW b, NEW t, NEW u,
         Changed(T, U, f, b, t), Changed(U, V, f, b, u)
  PROVE  Changed(T, V, f, b, u)
  BY DEF Changed

LEMMA ExtendNone ==
  ASSUME NEW t \in Seq(Seq(Items)), t # <<>>, NEW items \in Seq(Items)
  PROVE  [t EXCEPT ![Len(t)] = @ \o items] = Extended(t, items, <<>>)
<1>1. Len(t) \in 1..Len(t) /\ t[Len(t)] \in Seq(Items)
  OBVIOUS
<1>2. t[Len(t)] \o items \in Seq(Items)
  BY <1>1, ConcatParts
<1>3. PICK v : v = [t EXCEPT ![Len(t)] = @ \o items]
  OBVIOUS
<1>4. v \in Seq(Seq(Items))
  BY <1>1, <1>2, <1>3
<1>5. v \o <<>> = v
  <2>1. PICK S : S = Seq(Items)
    OBVIOUS
  <2>2. v \in Seq(S)
    BY <2>1, <1>4
  <2> QED
    BY ONLY <2>2
<1> QED
  BY <1>3, <1>5 DEF Extended

\* Code is put behind the last LLVM block of block b.
LEMMA EmitParts ==
  ASSUME NEW T, NEW f \in DOMAIN T, NEW b \in DOMAIN T[f], NEW t, t = T[f][b],
         t \in Seq(Seq(Items)), t # <<>>, NEW n, n = Len(t), NEW items \in Seq(Items)
  PROVE  Changed(T, Emitted(T, <<f, b, n>>, items), f, b, Extended(t, items, <<>>))
<1>1. Changed(T, Emitted(T, <<f, b, n>>, items), f, b, [t EXCEPT ![n] = @ \o items])
  BY EmittedAt
<1>2. [t EXCEPT ![n] = @ \o items] = Extended(t, items, <<>>)
  BY ExtendNone
<1> QED
  BY <1>1, <1>2

\* The same, and then new LLVM blocks.
LEMMA EmitAddParts ==
  ASSUME NEW T, NEW f \in DOMAIN T, NEW b \in DOMAIN T[f], NEW t, t = T[f][b],
         t \in Seq(Seq(Items)), t # <<>>, NEW n, n = Len(t), NEW items \in Seq(Items), NEW new
  PROVE  Changed(T, addBlock(Emitted(T, <<f, b, n>>, items), f, b, new), f, b, Extended(t, items, new))
<1>1. PICK U : U = Emitted(T, <<f, b, n>>, items)
  OBVIOUS
<1>2. Changed(T, U, f, b, [t EXCEPT ![Len(t)] = @ \o items])
  BY <1>1, EmittedAt
<1>3. f \in DOMAIN U /\ b \in DOMAIN U[f] /\ U[f][b] = [t EXCEPT ![Len(t)] = @ \o items]
  BY <1>2 DEF Changed
<1>4. Changed(U, addBlock(U, f, b, new), f, b, U[f][b] \o new)
  BY <1>3, AddedAt
<1>5. U[f][b] \o new = Extended(t, items, new)
  BY <1>3 DEF Extended
<1>6. Changed(U, addBlock(U, f, b, new), f, b, Extended(t, items, new))
  BY <1>4, <1>5
<1> QED
  BY <1>1, <1>2, <1>6, ChangedTwice

\* PUSHTRAP: and the entry of handler h in between
TrapChanged(T, V, f, b, h, u) ==
  /\ DOMAIN V = DOMAIN T /\ \A g \in DOMAIN T : g # f => V[g] = T[g]
  /\ DOMAIN V[f] = DOMAIN T[f] /\ \A a \in DOMAIN T[f] : a \notin {b, h} => V[f][a] = T[f][a]
  /\ V[f][b] = u /\ V[f][h] = << <<HandlerEntry>> >>

LEMMA EmitTrapParts ==
  ASSUME NEW T, NEW f \in DOMAIN T, NEW b \in DOMAIN T[f], NEW t, t = T[f][b],
         t \in Seq(Seq(Items)), t # <<>>, NEW n, n = Len(t), NEW items \in Seq(Items), NEW new,
         NEW h \in DOMAIN T[f], h # b, T[f][h] = << <<>> >>,
         NEW V, V = addBlock(Emitted(Emitted(T, <<f, b, n>>, items), <<f, h, 1>>, <<HandlerEntry>>),
                             f, b, new)
  PROVE  TrapChanged(T, V, f, b, h, Extended(t, items, new))
<1>1. PICK U : U = Emitted(T, <<f, b, n>>, items)
  OBVIOUS
<1>2. Changed(T, U, f, b, [t EXCEPT ![Len(t)] = @ \o items])
  BY <1>1, EmittedAt
<1>3. /\ f \in DOMAIN U /\ b \in DOMAIN U[f] /\ h \in DOMAIN U[f]
      /\ U[f][b] = [t EXCEPT ![Len(t)] = @ \o items] /\ U[f][h] = << <<>> >>
  BY <1>2 DEF Changed
<1>4. PICK W : W = Emitted(U, <<f, h, 1>>, <<HandlerEntry>>)
  OBVIOUS
<1>5. Changed(U, W, f, h, [U[f][h] EXCEPT ![1] = @ \o <<HandlerEntry>>])
  BY <1>3, <1>4, EmittedAt
<1>6. [<< <<>> >> EXCEPT ![1] = @ \o <<HandlerEntry>>] = << <<HandlerEntry>> >>
  <2>1. <<>> \o <<HandlerEntry>> = <<HandlerEntry>>
    OBVIOUS
  <2> QED
    BY <2>1
<1>7. f \in DOMAIN W /\ b \in DOMAIN W[f] /\ W[f][b] = U[f][b] /\ W[f][h] = << <<HandlerEntry>> >>
  BY <1>3, <1>5, <1>6 DEF Changed
<1>8. V = addBlock(W, f, b, new)
  BY <1>1, <1>4
<1>9. Changed(W, V, f, b, W[f][b] \o new)
  BY <1>7, <1>8, AddedAt
<1>10. W[f][b] \o new = Extended(t, items, new)
  BY <1>3, <1>7 DEF Extended
<1>11. V[f][b] = Extended(t, items, new) /\ V[f][h] = << <<HandlerEntry>> >>
  BY <1>3, <1>5, <1>7, <1>9, <1>10 DEF Changed
<1>12. /\ DOMAIN V = DOMAIN T /\ \A g \in DOMAIN T : g # f => V[g] = T[g]
       /\ DOMAIN V[f] = DOMAIN T[f]
  <2>1. DOMAIN U = DOMAIN T /\ DOMAIN U[f] = DOMAIN T[f] /\ \A g \in DOMAIN T : g # f => U[g] = T[g]
    BY ONLY <1>2 DEF Changed
  <2>2. DOMAIN W = DOMAIN U /\ DOMAIN W[f] = DOMAIN U[f] /\ \A g \in DOMAIN U : g # f => W[g] = U[g]
    BY ONLY <1>5 DEF Changed
  <2>3. DOMAIN V = DOMAIN W /\ DOMAIN V[f] = DOMAIN W[f] /\ \A g \in DOMAIN W : g # f => V[g] = W[g]
    BY ONLY <1>9 DEF Changed
  <2> QED
    BY ONLY <2>1, <2>2, <2>3
<1>13. ASSUME NEW a \in DOMAIN T[f], a \notin {b, h} PROVE V[f][a] = T[f][a]
  BY <1>2, <1>5, <1>9, <1>13 DEF Changed
<1> QED
  BY <1>11, <1>12, <1>13 DEF TrapChanged

-----------------------------------------------------------------------------
(* What is in text, at any time *)

Texts ==
  /\ phase # "create" => DOMAIN text = DOMAIN Functions
  /\ phase # "create" =>
       \A f \in DOMAIN Functions : f \notin made =>
         DOMAIN text[f] = DOMAIN Functions[f] /\ \A b \in DOMAIN Functions[f] : text[f][b] = << <<>> >>
  /\ \A m \in 1..Len(active) :
       FunctionText(code, active[m].fn, Functions[active[m].fn], text[active[m].fn],
                    active[m].block, active[m].k)
  /\ \A f \in made : \/ \E m \in 1..Len(active) : active[m].fn = f
                     \/ FunctionText(code, f, Functions[f], text[f], Len(code), 0)
  /\ phase = "emit" /\ Top.k \in 1..Len(Insts) /\ Op(Current) # "CLOSURE" =>
       insert = <<f_, b_, Len(text[f_][b_])>>

LEMMA TopText ==
  ASSUME GInv, Frames, Texts, phase = "emit"
  PROVE  FunctionText(code, f_, Functions[f_], text[f_], b_, Top.k)
<1>1. Top = active[Len(active)] /\ Len(active) \in 1..Len(active) /\ f_ = Top.fn /\ b_ = Top.block
  <2>1. Len(active) \in Nat /\ Len(active) > 0
    BY FrameTop
  <2> QED
    BY <2>1, FrameTop
<1> QED
  BY <1>1 DEF Texts

\* The text of a block that is worked on
LEMMA WorkedOn ==
  ASSUME GInv, Frames, Texts, phase = "emit", NEW b \in DOMAIN Functions[f_]
  PROVE  /\ f_ \in DOMAIN text /\ DOMAIN text[f_] = DOMAIN Functions[f_] /\ b \in DOMAIN text[f_]
         /\ text[f_][b] \in Seq(Seq(Items)) /\ text[f_][b] # <<>>
         /\ Len(text[f_][b]) \in Nat /\ Len(text[f_][b]) > 0
         /\ BlockText(code, f_, Functions[f_], b, text[f_][b], b_, Top.k)
<1>1. f_ \in DOMAIN text
  BY FrameTop DEF Texts
<1>2. DOMAIN text[f_] = DOMAIN Functions[f_]
      /\ BlockText(code, f_, Functions[f_], b, text[f_][b], b_, Top.k)
  BY TopText DEF FunctionText
<1>3. text[f_][b] \in Seq(Seq(Items)) /\ text[f_][b] # <<>>
  BY <1>2 DEF BlockText, Shaped
<1>4. Len(text[f_][b]) \in Nat /\ Len(text[f_][b]) > 0
  BY <1>3
<1> QED
  BY <1>1, <1>2, <1>3, <1>4

LEMMA TopAfter ==
  ASSUME GInv, Frames, phase = "emit", UNCHANGED <<code, Functions>>, NEW r \in Frame,
         active' = WithTop(r)
  PROVE  /\ Top' = r /\ f_' = r.fn /\ b_' = r.block /\ Insts' = InstsOf(Functions, r)
         /\ Op(Current)' = code[InstsOf(Functions, r)[r.k] + 1].op
<1>1. active \in Seq(Frame) /\ active # <<>>
  BY FrameTop
<1>2. active' = [active EXCEPT ![Len(active)] = r]
  BY DEF WithTop
<1>3. Len(active') = Len(active) /\ active'[Len(active)] = r
  BY <1>1, <1>2, ReplaceLast
<1>4. Top' = r
  BY <1>3 DEF Top, Last
<1>5. f_' = r.fn /\ b_' = r.block
  BY <1>4 DEF f_, b_
<1>6. Insts' = InstsOf(Functions, r)
  BY <1>5 DEF Insts, InstsOf
<1> QED
  BY <1>4, <1>5, <1>6 DEF Op, Current

\* The innermost call goes on, and only the text of its function changes.
LEMMA TextsTop ==
  ASSUME GInv, Frames, Texts, phase = "emit", UNCHANGED <<phase, code, Functions, made>>,
         NEW r \in Frame, r.fn = f_, active' = WithTop(r),
         DOMAIN text' = DOMAIN text, \A g \in DOMAIN text : g # f_ => text'[g] = text[g],
         FunctionText(code, f_, Functions[f_], text'[f_], r.block, r.k),
         \/ r.k \notin 1..Len(InstsOf(Functions, r)) \/ AtClosure(code, InstsOf(Functions, r), r.k)
         \/ insert' = <<f_, r.block, Len(text'[f_][r.block])>>
  PROVE  Texts'
<1>1. PICK n : n = Len(active)
  OBVIOUS
<1>2. /\ active \in Seq(Frame) /\ active # <<>> /\ n \in Nat /\ n > 0 /\ Top = active[n]
      /\ f_ = active[n].fn /\ f_ \in made /\ made \subseteq DOMAIN Functions
      /\ DOMAIN text = DOMAIN Functions
  BY <1>1, FrameTop DEF Frames, Texts
<1>3. /\ Len(active') = n /\ active'[n] = r /\ \A m \in 1 .. n - 1 : active'[m] = active[m]
  BY <1>1, <1>2, ReplaceLast DEF WithTop
<1>4. ASSUME NEW m \in 1..n PROVE m \in 1 .. n - 1 \/ m = n
  BY <1>2
<1>5. \A f \in DOMAIN Functions : f \notin made =>
        DOMAIN text'[f] = DOMAIN Functions[f] /\ \A b \in DOMAIN Functions[f] : text'[f][b] = << <<>> >>
  BY <1>2 DEF Texts
<1>6. ASSUME NEW m \in 1..n
      PROVE  FunctionText(code, active'[m].fn, Functions[active'[m].fn], text'[active'[m].fn],
                          active'[m].block, active'[m].k)
  <2>1. CASE m = n
    BY <2>1, <1>3
  <2>2. CASE m \in 1 .. n - 1
    <3>1. active'[m] = active[m] /\ m # n /\ n \in 1..n
      BY <2>2, <1>2, <1>3
    <3>2. active[m].fn # f_
      BY <3>1, <1>1, <1>2 DEF Frames
    <3>3. active[m].fn \in DOMAIN text
      BY <1>1, <1>2 DEF Frames, FrameOK
    <3>4. text'[active[m].fn] = text[active[m].fn]
      BY <3>2, <3>3
    <3>5. FunctionText(code, active[m].fn, Functions[active[m].fn], text[active[m].fn],
                       active[m].block, active[m].k)
      BY <1>1 DEF Texts
    <3> QED
      BY <3>1, <3>4, <3>5
  <2> QED
    BY <2>1, <2>2, <1>4
<1>7. ASSUME NEW f \in made
      PROVE  \/ \E m \in 1..n : active'[m].fn = f
             \/ FunctionText(code, f, Functions[f], text'[f], Len(code), 0)
  <2>1. CASE f = f_
    <3>1. n \in 1..n
      BY <1>2
    <3> QED
      BY <3>1, <2>1, <1>3
  <2>2. CASE f # f_ /\ \E m \in 1..n : active[m].fn = f
    <3>1. PICK m \in 1..n : active[m].fn = f
      BY <2>2
    <3>2. m # n
      BY <3>1, <2>2, <1>2
    <3> QED
      BY <3>1, <3>2, <1>3, <1>4
  <2>3. CASE f # f_ /\ FunctionText(code, f, Functions[f], text[f], Len(code), 0)
    <3>1. text'[f] = text[f]
      BY <2>3, <1>2
    <3> QED
      BY <3>1, <2>3
  <2> QED
    BY <2>1, <2>2, <2>3, <1>1 DEF Texts
<1>8. phase' = "emit" /\ Top'.k \in 1..Len(Insts') /\ Op(Current)' # "CLOSURE" =>
        insert' = <<f_', b_', Len(text'[f_'][b_'])>>
  <2>1. /\ Top' = r /\ f_' = r.fn /\ b_' = r.block /\ Insts' = InstsOf(Functions, r)
        /\ Op(Current)' = code[InstsOf(Functions, r)[r.k] + 1].op
    BY TopAfter
  <2> QED
    BY <2>1 DEF AtClosure
<1>9. DOMAIN text' = DOMAIN Functions'
  BY <1>2
<1> QED
  BY <1>3, <1>5, <1>6, <1>7, <1>8, <1>9 DEF Texts

-----------------------------------------------------------------------------
(* What the instructions add *)

LEMMA PlainCode ==
  ASSUME NEW i \in Int, NEW r, r = <<Code(i)>>
  PROVE  /\ r \in Seq(Items) /\ Unended(r) /\ Len(r) = 1 /\ r[1].code = i
         /\ \A m \in 1..Len(r) : r[m].code = i /\ r[m].targets = {}
<1>1. Code(i) \in Items /\ Code(i).code = i /\ ~Code(i).ends /\ Code(i).targets = {}
  BY ItemTypes
<1>2. r \in Seq(Items) /\ Len(r) = 1 /\ r[1] = Code(i)
  BY <1>1
<1>3. \A m \in 1..Len(r) : r[m] = Code(i)
  BY <1>2
<1> QED
  BY <1>1, <1>2, <1>3 DEF Unended

LEMMA OnlyBranch ==
  ASSUME NEW Q \in SUBSET (Nat \X Nat \X Nat), NEW r, r = <<Branch(Q)>>
  PROVE  /\ r \in Seq(Items) /\ Closes(r) /\ Len(r) = 1
         /\ \A m \in 1..Len(r) : r[m].code = -1 /\ r[m].targets = Q
<1>1. Branch(Q) \in Items /\ Branch(Q).code = -1 /\ Branch(Q).ends /\ Branch(Q).targets = Q
  BY ItemTypes
<1>2. r \in Seq(Items) /\ Len(r) = 1 /\ r[1] = Branch(Q) /\ r # <<>>
  BY <1>1
<1>3. \A m \in 1..Len(r) : r[m] = Branch(Q) /\ m = 1
  BY <1>2
<1> QED
  BY <1>1, <1>2, <1>3 DEF Closes

LEMMA EndedCode ==
  ASSUME NEW i \in Int, NEW Q \in SUBSET (Nat \X Nat \X Nat), NEW r, r = <<Code(i), Branch(Q)>>
  PROVE  /\ r \in Seq(Items) /\ Closes(r) /\ Len(r) = 2 /\ r[1].code = i
         /\ \A m \in 1..Len(r) : r[m].code \in {i, -1} /\ r[m].targets \subseteq Q
<1>1. /\ Code(i) \in Items /\ Code(i).code = i /\ ~Code(i).ends /\ Code(i).targets = {}
      /\ Branch(Q) \in Items /\ Branch(Q).code = -1 /\ Branch(Q).ends /\ Branch(Q).targets = Q
  BY ItemTypes
<1>2. r \in Seq(Items) /\ Len(r) = 2 /\ r[1] = Code(i) /\ r[2] = Branch(Q) /\ r # <<>>
  BY <1>1
<1>3. \A m \in 1..Len(r) : (m = 1 /\ r[m] = Code(i)) \/ (m = 2 /\ r[m] = Branch(Q))
  BY <1>2
<1>4. \A m \in 1..Len(r) : r[m].ends <=> m = Len(r)
  BY <1>1, <1>2, <1>3
<1>5. Closes(r)
  BY <1>2, <1>4 DEF Closes
<1>6. \A m \in 1..Len(r) : r[m].code \in {i, -1} /\ r[m].targets \subseteq Q
  BY <1>1, <1>3
<1>7. r[1].code = i
  BY <1>1, <1>2
<1> QED
  BY <1>2, <1>5, <1>6, <1>7

LEMMA AddsPlain ==
  ASSUME NEW i \in Int, NEW D, NEW f, NEW b, NEW l
  PROVE  Addition(D, f, b, l, <<Code(i)>>, <<>>, i, TRUE) /\ Holds(<<Code(i)>>, <<>>, i)
<1>1. PICK r : r = <<Code(i)>>
  OBVIOUS
<1>2. /\ r \in Seq(Items) /\ Unended(r) /\ Len(r) = 1 /\ r[1].code = i
      /\ \A m \in 1..Len(r) : r[m].code = i /\ r[m].targets = {}
  BY <1>1, PlainCode
<1>3. <<>> \in Seq(Seq(Items)) /\ \A n \in 1..Len(<<>>) : FALSE
  OBVIOUS
<1>4. Addition(D, f, b, l, r, <<>>, i, TRUE)
  BY ONLY <1>2, <1>3 DEF Addition
<1>5. 1 \in 1..Len(r)
  BY <1>2
<1>6. Holds(r, <<>>, i)
  BY <1>2, <1>5 DEF Holds
<1> QED
  BY <1>1, <1>4, <1>6

LEMMA AddsEnd ==
  ASSUME NEW i \in Int, NEW D, NEW f, NEW b, NEW l \in Nat, NEW Q \in SUBSET (Nat \X Nat \X Nat),
         \A q \in Q : AimedAt(D, f, b, l, l, q)
  PROVE  /\ Addition(D, f, b, l, <<Code(i), Branch(Q)>>, <<>>, i, FALSE)
         /\ Holds(<<Code(i), Branch(Q)>>, <<>>, i)
<1>1. PICK r : r = <<Code(i), Branch(Q)>>
  OBVIOUS
<1>2. /\ r \in Seq(Items) /\ Closes(r) /\ Len(r) = 2 /\ r[1].code = i
      /\ \A m \in 1..Len(r) : r[m].code \in {i, -1} /\ r[m].targets \subseteq Q
  BY <1>1, EndedCode, SMTT(30)
<1>3. <<>> \in Seq(Seq(Items)) /\ l + Len(<<>>) = l /\ \A n \in 1..Len(<<>>) : FALSE
  OBVIOUS
<1>4. \A m \in 1..Len(r) : \A q \in r[m].targets : AimedAt(D, f, b, l, l + Len(<<>>), q)
  BY <1>2, <1>3
<1>5. Addition(D, f, b, l, r, <<>>, i, FALSE)
  BY ONLY <1>2, <1>3, <1>4 DEF Addition
<1>6. 1 \in 1..Len(r)
  BY <1>2
<1>7. Holds(r, <<>>, i)
  BY <1>2, <1>6 DEF Holds
<1> QED
  BY <1>1, <1>5, <1>7

\* GRAB: the block is split, and goes on in the second half.
LEMMA AddsGrab ==
  ASSUME NEW i \in Int, NEW D, NEW f \in Nat, NEW b \in Nat, b \in D, NEW n \in Nat, n > 0,
         NEW items, items = <<Branch({<<f, b, n + 1>>, <<f, b, n + 2>>})>>,
         NEW new, new = << <<Code(i), Ret>>, <<Code(i)>> >>
  PROVE  /\ Addition(D, f, b, n, items, new, i, TRUE) /\ Holds(items, new, i)
         /\ items \in Seq(Items) /\ Len(new) = 2
<1>1. PICK Q : Q = {<<f, b, n + 1>>, <<f, b, n + 2>>}
  OBVIOUS
<1>2. Q \in SUBSET (Nat \X Nat \X Nat)
  BY <1>1
<1>3. /\ items \in Seq(Items) /\ Closes(items) /\ Len(items) = 1
      /\ \A m \in 1..Len(items) : items[m].code = -1 /\ items[m].targets = Q
  <2>1. items = <<Branch(Q)>>
    BY <1>1
  <2> QED
    BY ONLY <2>1, <1>2, OnlyBranch
<1>4. PICK r : r = <<Code(i), Ret>>
  OBVIOUS
<1>5. PICK s : s = <<Code(i)>>
  OBVIOUS
<1>6. /\ r \in Seq(Items) /\ Closes(r) /\ Len(r) = 2
      /\ \A m \in 1..Len(r) : r[m].code \in {i, -1} /\ r[m].targets = {}
  <2>1. {} \in SUBSET (Nat \X Nat \X Nat)
    OBVIOUS
  <2>2. /\ r \in Seq(Items) /\ Closes(r) /\ Len(r) = 2
        /\ \A m \in 1..Len(r) : r[m].code \in {i, -1} /\ r[m].targets \subseteq {}
    BY <2>1, <1>4, EndedCode DEF Ret
  <2> QED
    BY <2>2
<1>7. /\ s \in Seq(Items) /\ Unended(s) /\ Len(s) = 1 /\ s[1].code = i
      /\ \A m \in 1..Len(s) : s[m].code = i /\ s[m].targets = {}
  BY <1>5, PlainCode
<1>8. /\ new \in Seq(Seq(Items)) /\ Len(new) = 2 /\ new[1] = r /\ new[2] = s /\ new # <<>>
  <2>1. PICK S : S = Seq(Items)
    OBVIOUS
  <2>2. r \in S /\ s \in S
    BY <2>1, <1>6, <1>7
  <2>3. <<r, s>> \in Seq(S) /\ Len(<<r, s>>) = 2 /\ <<r, s>>[1] = r /\ <<r, s>>[2] = s /\ <<r, s>> # <<>>
    BY ONLY <2>2
  <2> QED
    BY ONLY <2>1, <2>3, <1>4, <1>5, new = << <<Code(i), Ret>>, <<Code(i)>> >>
<1>9. \A q \in Q : AimedAt(D, f, b, n, n + Len(new), q)
  <2>1. n + Len(new) = n + 2
    BY <1>8
  <2>2. AimedAt(D, f, b, n, n + 2, <<f, b, n + 1>>) /\ AimedAt(D, f, b, n, n + 2, <<f, b, n + 2>>)
    BY DEF AimedAt
  <2> QED
    BY <2>1, <2>2, <1>1
<1>10. \A m \in 1 .. Len(new) - 1 : Closes(new[m])
  <2>1. \A m \in 1 .. Len(new) - 1 : m = 1
    BY <1>8
  <2> QED
    BY <2>1, <1>6, <1>8
<1>11. \A k \in 1..Len(new) : new[k] = r \/ new[k] = s
  BY <1>8
<1>12. \A k \in 1..Len(new) : \A m \in 1..Len(new[k]) : new[k][m].code \in {i, -1} /\ new[k][m].targets = {}
  <2> TAKE k \in 1..Len(new)
  <2>1. CASE new[k] = r
    BY ONLY <2>1, <1>6
  <2>2. CASE new[k] = s
    BY ONLY <2>2, <1>7
  <2> QED
    BY <2>1, <2>2, <1>11
<1>13. \A m \in 1..Len(items) : /\ items[m].code \in {i, -1, -3}
                                /\ \A q \in items[m].targets : AimedAt(D, f, b, n, n + Len(new), q)
  BY <1>3, <1>9
<1>14. Unended(new[Len(new)])
  BY <1>7, <1>8
<1>15. Addition(D, f, b, n, items, new, i, TRUE)
  BY ONLY <1>3, <1>8, <1>10, <1>12, <1>13, <1>14 DEF Addition
<1>16. Holds(items, new, i)
  <2>1. 2 \in 1..Len(new) /\ 1 \in 1..Len(new[2]) /\ new[2][1].code = i
    BY <1>7, <1>8
  <2> QED
    BY <2>1 DEF Holds
<1> QED
  BY <1>3, <1>8, <1>15, <1>16

\* RETURN: both halves return.
LEMMA AddsReturn ==
  ASSUME NEW i \in Int, NEW D, NEW f \in Nat, NEW b \in Nat, b \in D, NEW n \in Nat, n > 0,
         NEW items, items = <<Code(i), Branch({<<f, b, n + 1>>, <<f, b, n + 2>>})>>,
         NEW new, new = << <<Code(i), Ret>>, <<Ret>> >>
  PROVE  /\ Addition(D, f, b, n, items, new, i, FALSE) /\ Holds(items, new, i)
         /\ items \in Seq(Items) /\ Len(new) = 2
<1>1. PICK Q : Q = {<<f, b, n + 1>>, <<f, b, n + 2>>}
  OBVIOUS
<1>2. Q \in SUBSET (Nat \X Nat \X Nat) /\ {} \in SUBSET (Nat \X Nat \X Nat)
  BY <1>1
<1>3. /\ items \in Seq(Items) /\ Closes(items) /\ Len(items) = 2 /\ items[1].code = i
      /\ \A m \in 1..Len(items) : items[m].code \in {i, -1} /\ items[m].targets \subseteq Q
  <2>1. items = <<Code(i), Branch(Q)>>
    BY <1>1
  <2> QED
    BY ONLY <2>1, <1>2, EndedCode, i \in Int
<1>4. PICK r : r = <<Code(i), Ret>>
  OBVIOUS
<1>5. PICK s : s = <<Ret>>
  OBVIOUS
<1>6. /\ r \in Seq(Items) /\ Closes(r) /\ Len(r) = 2
      /\ \A m \in 1..Len(r) : r[m].code \in {i, -1} /\ r[m].targets = {}
  <2>1. /\ r \in Seq(Items) /\ Closes(r) /\ Len(r) = 2
        /\ \A m \in 1..Len(r) : r[m].code \in {i, -1} /\ r[m].targets \subseteq {}
    BY <1>2, <1>4, EndedCode DEF Ret
  <2> QED
    BY <2>1
<1>7. /\ s \in Seq(Items) /\ Closes(s) /\ Len(s) = 1
      /\ \A m \in 1..Len(s) : s[m].code = -1 /\ s[m].targets = {}
  BY <1>2, <1>5, OnlyBranch DEF Ret
<1>8. /\ new \in Seq(Seq(Items)) /\ Len(new) = 2 /\ new[1] = r /\ new[2] = s /\ new # <<>>
  <2>1. PICK S : S = Seq(Items)
    OBVIOUS
  <2>2. r \in S /\ s \in S
    BY <2>1, <1>6, <1>7
  <2>3. <<r, s>> \in Seq(S) /\ Len(<<r, s>>) = 2 /\ <<r, s>>[1] = r /\ <<r, s>>[2] = s /\ <<r, s>> # <<>>
    BY ONLY <2>2
  <2> QED
    BY ONLY <2>1, <2>3, <1>4, <1>5, new = << <<Code(i), Ret>>, <<Ret>> >>
<1>9. \A q \in Q : AimedAt(D, f, b, n, n + Len(new), q)
  <2>1. n + Len(new) = n + 2
    BY <1>8
  <2>2. AimedAt(D, f, b, n, n + 2, <<f, b, n + 1>>) /\ AimedAt(D, f, b, n, n + 2, <<f, b, n + 2>>)
    BY DEF AimedAt
  <2> QED
    BY <2>1, <2>2, <1>1
<1>10. \A k \in 1..Len(new) : new[k] = r \/ new[k] = s
  BY <1>8
<1>11. \A m \in 1 .. Len(new) - 1 : Closes(new[m])
  <2>1. \A m \in 1 .. Len(new) - 1 : m \in 1..Len(new)
    BY <1>8
  <2> QED
    BY <2>1, <1>6, <1>7, <1>10
<1>12. \A k \in 1..Len(new) : \A m \in 1..Len(new[k]) : new[k][m].code \in {i, -1} /\ new[k][m].targets = {}
  <2> TAKE k \in 1..Len(new)
  <2>1. CASE new[k] = r
    BY ONLY <2>1, <1>6
  <2>2. CASE new[k] = s
    BY ONLY <2>2, <1>7
  <2> QED
    BY <2>1, <2>2, <1>10
<1>13. \A m \in 1..Len(items) : /\ items[m].code \in {i, -1, -3}
                                /\ \A q \in items[m].targets : AimedAt(D, f, b, n, n + Len(new), q)
  BY <1>3, <1>9
<1>14. Closes(new[Len(new)])
  BY <1>7, <1>8
<1>15. Addition(D, f, b, n, items, new, i, FALSE)
  BY ONLY <1>3, <1>8, <1>11, <1>12, <1>13, <1>14 DEF Addition
<1>16. Holds(items, new, i)
  <2>1. 1 \in 1..Len(items)
    BY <1>3
  <2> QED
    BY <2>1, <1>3 DEF Holds
<1> QED
  BY <1>3, <1>8, <1>15, <1>16

\* PUSHTRAP: on to the body, or into the handler.
LEMMA AddsTrap ==
  ASSUME NEW i \in Int, NEW D, NEW f \in Nat, NEW b \in Nat, b \in D, NEW n \in Nat, n > 0,
         NEW h \in D, h \in Nat,
         NEW items, items = <<Code(i), Branch({<<f, h, 1>>, <<f, b, n + 1>>})>>,
         NEW new, new = << <<Code(i)>> >>
  PROVE  /\ Addition(D, f, b, n, items, new, i, TRUE) /\ Holds(items, new, i)
         /\ items \in Seq(Items) /\ Len(new) = 1
<1>1. PICK Q : Q = {<<f, h, 1>>, <<f, b, n + 1>>}
  OBVIOUS
<1>2. Q \in SUBSET (Nat \X Nat \X Nat)
  BY <1>1
<1>3. /\ items \in Seq(Items) /\ Closes(items) /\ Len(items) = 2 /\ items[1].code = i
      /\ \A m \in 1..Len(items) : items[m].code \in {i, -1} /\ items[m].targets \subseteq Q
  <2>1. items = <<Code(i), Branch(Q)>>
    BY <1>1
  <2> QED
    BY ONLY <2>1, <1>2, EndedCode, i \in Int, SMTT(30)
<1>4. PICK s : s = <<Code(i)>>
  OBVIOUS
<1>5. /\ s \in Seq(Items) /\ Unended(s) /\ Len(s) = 1
      /\ \A m \in 1..Len(s) : s[m].code = i /\ s[m].targets = {}
  BY <1>4, PlainCode
<1>6. /\ new \in Seq(Seq(Items)) /\ Len(new) = 1 /\ new[1] = s /\ new # <<>>
  <2>1. PICK S : S = Seq(Items)
    OBVIOUS
  <2>2. s \in S
    BY <2>1, <1>5
  <2>3. <<s>> \in Seq(S) /\ Len(<<s>>) = 1 /\ <<s>>[1] = s /\ <<s>> # <<>>
    BY ONLY <2>2
  <2> QED
    BY ONLY <2>1, <2>3, <1>4, new = << <<Code(i)>> >>
<1>7. \A q \in Q : AimedAt(D, f, b, n, n + Len(new), q)
  <2>1. n + Len(new) = n + 1
    BY <1>6
  <2>2. AimedAt(D, f, b, n, n + 1, <<f, h, 1>>) /\ AimedAt(D, f, b, n, n + 1, <<f, b, n + 1>>)
    BY DEF AimedAt
  <2> QED
    BY <2>1, <2>2, <1>1
<1>8. \A k \in 1..Len(new) : new[k] = s
  BY <1>6
<1>9. \A m \in 1 .. Len(new) - 1 : Closes(new[m])
  BY <1>6
<1>10. \A k \in 1..Len(new) : \A m \in 1..Len(new[k]) : new[k][m].code \in {i, -1} /\ new[k][m].targets = {}
  BY <1>5, <1>8
<1>11. \A m \in 1..Len(items) : /\ items[m].code \in {i, -1, -3}
                                /\ \A q \in items[m].targets : AimedAt(D, f, b, n, n + Len(new), q)
  BY <1>3, <1>7
<1>12. Unended(new[Len(new)])
  BY <1>5, <1>6
<1>13. Addition(D, f, b, n, items, new, i, TRUE)
  BY ONLY <1>3, <1>6, <1>9, <1>10, <1>11, <1>12 DEF Addition
<1>14. Holds(items, new, i)
  <2>1. 1 \in 1..Len(items)
    BY <1>3
  <2> QED
    BY <2>1, <1>3 DEF Holds
<1> QED
  BY <1>3, <1>6, <1>13, <1>14

-----------------------------------------------------------------------------
(* A step of the generator, and the texts *)

\* The emission of the k-th instruction of the block at hand
LEMMA DoingHere ==
  ASSUME GInv, Separate, NoDeadCode, Frames, phase = "emit", Top.k \in 1..Len(Insts)
  PROVE  /\ Doing(code, f_, Functions[f_], b_, Insts, Top.k, Current)
         /\ Neat(code, f_, Functions[f_]) /\ Current \in Indices
<1>1. f_ \in DOMAIN Functions /\ b_ \in DOMAIN Functions[f_] /\ Insts \in Seq(Indices)
  BY FrameTop
<1>2. Neat(code, f_, Functions[f_])
  BY <1>1, NeatFunctions
<1>3. Current \in Indices
  BY <1>1, Element DEF Current
<1> QED
  BY <1>1, <1>2, <1>3 DEF Doing, Insts, Current

LEMMA AdvancedTo ==
  ASSUME GInv, Frames, phase = "emit"
  PROVE  \E r \in Frame : /\ r.fn = f_ /\ r.block = b_ /\ r.k = Top.k + 1 /\ r.j = 0
                          /\ Advanced = WithTop(r)
<1>1. /\ Top \in Frame /\ f_ = Top.fn /\ b_ = Top.block /\ Top.k \in Nat
  BY FrameTop
<1>2. PICK r : r = Moved(Top, Top.k + 1, 0)
  OBVIOUS
<1>3. r \in Frame /\ r.fn = f_ /\ r.block = b_ /\ r.k = Top.k + 1 /\ r.j = 0
  <2>1. Top.k + 1 \in Nat /\ 0 \in Nat
    BY <1>1
  <2>2. /\ r \in Frame /\ r.fn = Top.fn /\ r.block = Top.block /\ r.k = Top.k + 1 /\ r.j = 0
    BY ONLY <2>1, <1>1, <1>2 DEF Moved, Frame
  <2> QED
    BY <2>2, <1>1
<1>4. [Top EXCEPT !.k = @ + 1, !.j = 0] = r
  BY <1>1, <1>2, FrameFields
<1>5. Advanced = WithTop(r)
  BY <1>4 DEF Advanced
<1> QED
  BY <1>3, <1>5

\* The code of the current instruction, behind the block at hand
Generates(items, new) ==
  /\ Addition(DOMAIN Functions[f_], f_, b_, Len(text[f_][b_]), items, new, Current,
              ~Ending(code, Current))
  /\ Holds(items, new, Current)

LEMMA TextsAdvance ==
  ASSUME GInv, Separate, NoDeadCode, Frames, Texts, phase = "emit",
         UNCHANGED <<phase, code, Functions, made>>, Top.k \in 1..Len(Insts),
         Op(Current) # "PUSHTRAP", active' = Advanced,
         NEW items, NEW new, Generates(items, new),
         Changed(text, text', f_, b_, Extended(text[f_][b_], items, new)),
         insert' = <<f_, b_, Len(text[f_][b_]) + Len(new)>>
  PROVE  Texts'
<1>1. PICK r \in Frame : r.fn = f_ /\ r.block = b_ /\ r.k = Top.k + 1 /\ active' = WithTop(r)
  BY AdvancedTo
<1>2. PICK t : t = text[f_][b_]
  OBVIOUS
<1>3. /\ f_ \in DOMAIN text /\ DOMAIN text[f_] = DOMAIN Functions[f_] /\ b_ \in DOMAIN Functions[f_]
      /\ t \in Seq(Seq(Items)) /\ t # <<>>
  BY <1>2, FrameTop, WorkedOn
<1>4. /\ DOMAIN text' = DOMAIN text /\ \A g \in DOMAIN text : g # f_ => text'[g] = text[g]
      /\ DOMAIN text'[f_] = DOMAIN text[f_] /\ \A a \in DOMAIN text[f_] : a # b_ => text'[f_][a] = text[f_][a]
      /\ text'[f_][b_] = Extended(t, items, new)
  BY <1>2 DEF Changed
<1>5. Addition(DOMAIN Functions[f_], f_, b_, Len(t), items, new, Current, ~Ending(code, Current))
      /\ Holds(items, new, Current)
  BY <1>2 DEF Generates
<1>6. Doing(code, f_, Functions[f_], b_, Insts, Top.k, Current) /\ Neat(code, f_, Functions[f_])
  BY DoingHere
<1>7. FunctionText(code, f_, Functions[f_], text[f_], b_, Top.k)
  BY TopText
<1>8. code[Current + 1].op # "PUSHTRAP"
  BY DEF Op
<1>9. \A a \in DOMAIN Functions[f_] : a # b_ => text'[f_][a] = text[f_][a]
  BY <1>3, <1>4
<1>10. FunctionText(code, f_, Functions[f_], text'[f_], b_, Top.k + 1)
  BY ONLY <1>2, <1>4, <1>5, <1>6, <1>7, <1>8, <1>9, InstText
<1>11. Len(text'[f_][b_]) = Len(t) + Len(new)
  <2>1. items \in Seq(Items) /\ new \in Seq(Seq(Items))
    BY ONLY <1>5 DEF Addition
  <2>2. ExtendsBy(t, items, new, text'[f_][b_])
    BY ONLY <2>1, <1>3, <1>4, ExtendParts
  <2> QED
    BY ONLY <2>2 DEF ExtendsBy
<1>12. insert' = <<f_, r.block, Len(text'[f_][r.block])>>
  BY <1>1, <1>2, <1>11
<1> QED
  BY <1>1, <1>4, <1>10, <1>12, TextsTop

\* Where code is put
LEMMA InsertHere ==
  ASSUME GInv, Separate, NoDeadCode, Frames, Texts, phase = "emit", Top.k \in 1..Len(Insts),
         Op(Current) # "CLOSURE"
  PROVE  insert = <<f_, b_, Len(text[f_][b_])>>
  BY DEF Texts

\* NEXT, RESTART
LEMMA EmitPlainText ==
  ASSUME GInv, Separate, NoDeadCode, Frames, Texts, EmitPlain
  PROVE  Texts'
<1>1. /\ phase = "emit" /\ Top.k \in 1..Len(Insts) /\ Op(Current) \in {"NEXT", "RESTART"}
      /\ text' = Emitted(text, insert, <<Code(Current)>>) /\ active' = Advanced
      /\ UNCHANGED <<phase, code, Functions, made, insert>>
  BY DEF EmitPlain, At, vars
<1>2. PICK t : t = text[f_][b_]
  OBVIOUS
<1>3. /\ f_ \in DOMAIN text /\ b_ \in DOMAIN text[f_]
      /\ t \in Seq(Seq(Items)) /\ t # <<>> /\ Len(t) \in Nat
  BY <1>1, <1>2, FrameTop, WorkedOn
<1>4. insert = <<f_, b_, Len(t)>>
  BY <1>1, <1>2, InsertHere
<1>5. Current \in Int
  BY <1>1, DoingHere DEF Indices
<1>6. <<Code(Current)>> \in Seq(Items)
  BY <1>5, PlainCode
<1>7. Changed(text, text', f_, b_, Extended(t, <<Code(Current)>>, <<>>))
  BY <1>1, <1>2, <1>3, <1>4, <1>6, EmitParts
<1>8. ~Ending(code, Current)
  BY <1>1 DEF Ending, Op, Jumps, Ends
<1>9. Generates(<<Code(Current)>>, <<>>)
  <2>1. /\ Addition(DOMAIN Functions[f_], f_, b_, Len(t), <<Code(Current)>>, <<>>, Current, TRUE)
        /\ Holds(<<Code(Current)>>, <<>>, Current)
    BY <1>5, AddsPlain
  <2> QED
    BY <2>1, <1>2, <1>8 DEF Generates, Addition
<1>10. insert' = <<f_, b_, Len(t) + Len(<<>>)>>
  BY <1>1, <1>3, <1>4
<1> QED
  BY <1>1, <1>2, <1>7, <1>9, <1>10, TextsAdvance

\* GRAB splits the block.
LEMMA EmitGrabText ==
  ASSUME GInv, Separate, NoDeadCode, Frames, Texts, EmitGrab
  PROVE  Texts'
<1>1. PICK i : i = Current
  OBVIOUS
<1>2. PICK t : t = text[f_][b_]
  OBVIOUS
<1>3. PICK n : n = Len(t)
  OBVIOUS
<1>4. PICK items : items = <<Branch({<<f_, b_, n + 1>>, <<f_, b_, n + 2>>})>>
  OBVIOUS
<1>5. PICK new : new = << <<Code(i), Ret>>, <<Code(i)>> >>
  OBVIOUS
<1>6. /\ phase = "emit" /\ Top.k \in 1..Len(Insts) /\ Op(Current) = "GRAB"
      /\ text' = addBlock(Emitted(text, insert, items), f_, b_, new) /\ active' = Advanced
      /\ insert' = <<f_, b_, n + 2>> /\ UNCHANGED <<phase, code, Functions, made>>
  BY <1>1, <1>2, <1>3, <1>4, <1>5 DEF EmitGrab, At, vars
<1>7. /\ f_ \in DOMAIN text /\ b_ \in DOMAIN text[f_] /\ b_ \in DOMAIN Functions[f_]
      /\ f_ \in Nat /\ b_ \in Nat /\ t \in Seq(Seq(Items)) /\ t # <<>> /\ n \in Nat /\ n > 0
  BY <1>2, <1>3, <1>6, FrameTop, WorkedOn
<1>8. insert = <<f_, b_, n>>
  BY <1>2, <1>3, <1>6, InsertHere
<1>9. i \in Int
  BY <1>1, <1>6, DoingHere DEF Indices
<1>10. PICK D : D = DOMAIN Functions[f_]
  OBVIOUS
<1>11. /\ Addition(D, f_, b_, n, items, new, i, TRUE) /\ Holds(items, new, i)
       /\ items \in Seq(Items) /\ Len(new) = 2
  <2>1. b_ \in D
    BY <1>7, <1>10
  <2> QED
    BY ONLY <2>1, <1>4, <1>5, <1>7, <1>9, AddsGrab
<1>12. Changed(text, text', f_, b_, Extended(t, items, new))
  BY <1>2, <1>3, <1>6, <1>7, <1>8, <1>11, EmitAddParts
<1>13. ~Ending(code, Current)
  BY <1>6 DEF Ending, Op, Jumps, Ends
<1>14. Generates(items, new)
  BY <1>1, <1>2, <1>3, <1>10, <1>11, <1>13 DEF Generates, Addition
<1>15. insert' = <<f_, b_, Len(t) + Len(new)>>
  BY <1>3, <1>6, <1>11
<1> QED
  BY <1>2, <1>6, <1>12, <1>14, <1>15, TextsAdvance

\* RETURN splits it, too.
LEMMA EmitReturnText ==
  ASSUME GInv, Separate, NoDeadCode, Frames, Texts, EmitReturn
  PROVE  Texts'
<1>1. PICK i : i = Current
  OBVIOUS
<1>2. PICK t : t = text[f_][b_]
  OBVIOUS
<1>3. PICK n : n = Len(t)
  OBVIOUS
<1>4. PICK items : items = <<Code(i), Branch({<<f_, b_, n + 1>>, <<f_, b_, n + 2>>})>>
  OBVIOUS
<1>5. PICK new : new = << <<Code(i), Ret>>, <<Ret>> >>
  OBVIOUS
<1>6. /\ phase = "emit" /\ Top.k \in 1..Len(Insts) /\ Op(Current) = "RETURN"
      /\ text' = addBlock(Emitted(text, insert, items), f_, b_, new) /\ active' = Advanced
      /\ insert' = <<f_, b_, n + 2>> /\ UNCHANGED <<phase, code, Functions, made>>
  BY <1>1, <1>2, <1>3, <1>4, <1>5 DEF EmitReturn, At, vars
<1>7. /\ f_ \in DOMAIN text /\ b_ \in DOMAIN text[f_] /\ b_ \in DOMAIN Functions[f_]
      /\ f_ \in Nat /\ b_ \in Nat /\ t \in Seq(Seq(Items)) /\ t # <<>> /\ n \in Nat /\ n > 0
  BY <1>2, <1>3, <1>6, FrameTop, WorkedOn
<1>8. insert = <<f_, b_, n>>
  BY <1>2, <1>3, <1>6, InsertHere
<1>9. i \in Int
  BY <1>1, <1>6, DoingHere DEF Indices
<1>10. PICK D : D = DOMAIN Functions[f_]
  OBVIOUS
<1>11. /\ Addition(D, f_, b_, n, items, new, i, FALSE) /\ Holds(items, new, i)
       /\ items \in Seq(Items) /\ Len(new) = 2
  <2>1. b_ \in D
    BY <1>7, <1>10
  <2> QED
    BY ONLY <2>1, <1>4, <1>5, <1>7, <1>9, AddsReturn
<1>12. Changed(text, text', f_, b_, Extended(t, items, new))
  BY <1>2, <1>3, <1>6, <1>7, <1>8, <1>11, EmitAddParts
<1>13. Ending(code, Current)
  BY <1>6 DEF Ending, Op, Jumps, Ends
<1>14. Generates(items, new)
  BY <1>1, <1>2, <1>3, <1>10, <1>11, <1>13 DEF Generates, Addition
<1>15. insert' = <<f_, b_, Len(t) + Len(new)>>
  BY <1>3, <1>6, <1>11
<1> QED
  BY <1>2, <1>6, <1>12, <1>14, <1>15, TextsAdvance

\* Where jumps go: later blocks have no code yet.
LEMMA FreshTarget ==
  ASSUME GInv, Frames, Texts, phase = "emit", NEW d \in DOMAIN Functions[f_], b_ < d
  PROVE  LlvmBlock(f_, d) = <<f_, d, 1>>
<1>1. BlockText(code, f_, Functions[f_], d, text[f_][d], b_, Top.k)
  BY WorkedOn
<1>2. f_ \in DOMAIN Functions /\ b_ \in Nat /\ d \in Nat
  BY FrameTop DEF GInv, Types, IsGraph, Indices
<1>3. d > b_
  BY <1>2
<1>4. PICK h : h = Handled(code, Functions[f_], Cursor(b_, Top.k), d)
  OBVIOUS
<1>5. text[f_][d] = Fresh(h)
  BY <1>1, <1>3, <1>4 DEF BlockText
<1>6. Len(Fresh(h)) = 1
  BY DEF Fresh
<1> QED
  BY <1>5, <1>6 DEF LlvmBlock

LEMMA JumpsTo ==
  ASSUME GInv, Separate, NoDeadCode, Frames, Texts, phase = "emit", Top.k \in 1..Len(Insts),
         Op(Current) \in Jumps \cup {"SWITCH"}
  PROVE  \A q \in JumpTargets(Current) : \E d \in DOMAIN Functions[f_] : q = <<f_, d, 1>>
<1>1. PICK G : G = Functions[f_]
  OBVIOUS
<1>2. PICK i : i = Current
  OBVIOUS
<1>3. PICK s : s = Insts
  OBVIOUS
<1>4. Doing(code, f_, G, b_, s, Top.k, i)
  BY <1>1, <1>2, <1>3, DoingHere
<1>5. /\ Neat(code, f_, G) /\ b_ \in DOMAIN G /\ s = G[b_].Instructions /\ Top.k \in 1..Len(s)
      /\ i = s[Top.k]
  BY ONLY <1>4 DEF Doing
<1>6. i \in Nat /\ b_ \in Nat /\ b_ <= i /\ Len(s) \in Nat
  BY ONLY <1>4, AtInst
<1>7. NeatBlock(code, G, b_) /\ DOMAIN G \subseteq Nat
  BY ONLY <1>5 DEF Neat
<1>8. /\ \A k \in 1 .. Len(s) - 1 : ~Ending(code, s[k])
      /\ GoesOn(code, G, b_, s[Len(s)])
  BY ONLY <1>5, <1>7 DEF NeatBlock
<1>9. Ending(code, i)
  BY <1>2 DEF Ending, Op
<1>10. Top.k = Len(s)
  <2>1. Top.k \notin 1 .. Len(s) - 1
    BY <1>5, <1>8, <1>9
  <2> QED
    BY ONLY <2>1, <1>5, <1>6
<1>11. GoesOn(code, G, b_, i)
  BY <1>5, <1>8, <1>10
<1>12. ASSUME NEW d \in DOMAIN G, i < d PROVE LlvmBlock(f_, d) = <<f_, d, 1>>
  <2>1. d \in Nat
    BY <1>7
  <2>2. b_ < d
    BY ONLY <2>1, <1>6, <1>12
  <2> QED
    BY <2>2, <1>1, FreshTarget
<1>13. CASE Op(Current) = "BRANCH"
  <2>1. G[b_].BrBlock \in DOMAIN G /\ i < G[b_].BrBlock
    BY <1>2, <1>11, <1>13 DEF GoesOn, Op
  <2>2. JumpTargets(Current) = {LlvmBlock(f_, G[b_].BrBlock)}
    BY <1>1, <1>13 DEF JumpTargets
  <2>3. LlvmBlock(f_, G[b_].BrBlock) = <<f_, G[b_].BrBlock, 1>>
    BY <2>1, <1>12
  <2> QED
    BY ONLY <2>1, <2>2, <2>3, <1>1
<1>14. CASE Op(Current) = "COND"
  <2>1. G[b_].BrBlock \in DOMAIN G /\ G[b_].NoBrBlock \in DOMAIN G
    BY <1>2, <1>11, <1>14 DEF GoesOn, Op
  <2>2. JumpTargets(Current) = {FrontBlock(f_, G[b_].BrBlock), FrontBlock(f_, G[b_].NoBrBlock)}
    BY <1>1, <1>14 DEF JumpTargets
  <2> QED
    BY ONLY <2>1, <2>2, <1>1 DEF FrontBlock
<1>15. CASE Op(Current) = "SWITCH"
  <2>1. \A d \in Range(Dests(Current)) : d \in DOMAIN G /\ i < d
    BY <1>2, <1>11, <1>15 DEF GoesOn, Op, Dests
  <2>2. JumpTargets(Current) = {LlvmBlock(f_, d) : d \in Range(Dests(Current))}
    BY <1>15 DEF JumpTargets
  <2>3. \A d \in Range(Dests(Current)) : LlvmBlock(f_, d) = <<f_, d, 1>>
    BY <2>1, <1>12
  <2> QED
    BY ONLY <2>1, <2>2, <2>3, <1>1
<1> QED
  BY <1>13, <1>14, <1>15 DEF Jumps

\* The block is closed: by a return, or by jumps to the beginnings of others.
LEMMA CloseText ==
  ASSUME GInv, Separate, NoDeadCode, Frames, Texts, phase = "emit",
         UNCHANGED <<phase, code, Functions, made, insert>>, Top.k \in 1..Len(Insts),
         Ending(code, Current), active' = Advanced,
         NEW Q, \A q \in Q : \E d \in DOMAIN Functions[f_] : q = <<f_, d, 1>>,
         text' = Emitted(text, insert, <<Code(Current), Branch(Q)>>)
  PROVE  Texts'
<1>1. PICK t : t = text[f_][b_]
  OBVIOUS
<1>2. PICK n : n = Len(t)
  OBVIOUS
<1>3. /\ f_ \in DOMAIN text /\ b_ \in DOMAIN text[f_] /\ b_ \in DOMAIN Functions[f_]
      /\ f_ \in Nat /\ f_ \in DOMAIN Functions /\ t \in Seq(Seq(Items)) /\ t # <<>> /\ n \in Nat
  BY <1>1, <1>2, FrameTop, WorkedOn
<1>4. PICK D : D = DOMAIN Functions[f_]
  OBVIOUS
<1>5. D \subseteq Nat
  BY <1>3, <1>4 DEF GInv, Types, IsGraph, Indices
<1>6. Q \in SUBSET (Nat \X Nat \X Nat) /\ \A q \in Q : AimedAt(D, f_, b_, n, n, q)
  <2>1. ASSUME NEW q \in Q PROVE q \in Nat \X Nat \X Nat /\ AimedAt(D, f_, b_, n, n, q)
    <3>1. PICK d \in D : q = <<f_, d, 1>>
      BY <1>4
    <3>2. d \in Nat
      BY <1>5
    <3> QED
      BY ONLY <3>1, <3>2, <1>3 DEF AimedAt
  <2> QED
    BY <2>1
<1>7. Current \in Int /\ Op(Current) # "CLOSURE" /\ Op(Current) # "PUSHTRAP"
  BY DoingHere DEF Indices, Ending, Op, Jumps, Ends
<1>8. PICK i : i = Current
  OBVIOUS
<1>9. PICK items : items = <<Code(i), Branch(Q)>>
  OBVIOUS
<1>10. Addition(D, f_, b_, n, items, <<>>, i, FALSE) /\ Holds(items, <<>>, i)
  BY ONLY <1>3, <1>6, <1>7, <1>8, <1>9, AddsEnd
<1>11. items \in Seq(Items)
  BY ONLY <1>10 DEF Addition
<1>12. insert = <<f_, b_, n>>
  BY <1>1, <1>2, <1>7, InsertHere
<1>13. Changed(text, text', f_, b_, Extended(t, items, <<>>))
  BY <1>1, <1>2, <1>3, <1>8, <1>9, <1>11, <1>12, EmitParts
<1>14. Generates(items, <<>>)
  BY <1>1, <1>2, <1>4, <1>8, <1>10 DEF Generates, Addition
<1>15. insert' = <<f_, b_, Len(t) + Len(<<>>)>>
  BY <1>2, <1>3, <1>12
<1> QED
  BY <1>1, <1>7, <1>13, <1>14, <1>15, TextsAdvance

LEMMA EmitEndText ==
  ASSUME GInv, Separate, NoDeadCode, Frames, Texts, EmitEnd
  PROVE  Texts'
<1>1. /\ phase = "emit" /\ Top.k \in 1..Len(Insts) /\ Op(Current) \in Ends
      /\ text' = Emitted(text, insert, <<Code(Current), Branch({})>>) /\ active' = Advanced
      /\ UNCHANGED <<phase, code, Functions, made, insert>>
  BY DEF EmitEnd, At, vars, Ret
<1>2. Ending(code, Current)
  BY <1>1 DEF Ending, Op
<1> QED
  BY <1>1, <1>2, CloseText

LEMMA EmitJumpText ==
  ASSUME GInv, Separate, NoDeadCode, Frames, Texts, EmitJump
  PROVE  Texts'
<1>1. /\ phase = "emit" /\ Top.k \in 1..Len(Insts) /\ Op(Current) \in Jumps \cup {"SWITCH"}
      /\ text' = Emitted(text, insert, <<Code(Current), Branch(JumpTargets(Current))>>)
      /\ active' = Advanced /\ UNCHANGED <<phase, code, Functions, made, insert>>
  BY DEF EmitJump, At, vars
<1>2. Ending(code, Current)
  BY <1>1 DEF Ending, Op
<1>3. \A q \in JumpTargets(Current) : \E d \in DOMAIN Functions[f_] : q = <<f_, d, 1>>
  BY <1>1, JumpsTo
<1> QED
  BY <1>1, <1>2, <1>3, CloseText

\* PUSHTRAP, which also writes into its handler
LEMMA EmitPushTrapText ==
  ASSUME GInv, Separate, NoDeadCode, Frames, Texts, EmitPushTrap
  PROVE  Texts'
<1>1. PICK i : i = Current
  OBVIOUS
<1>2. PICK t : t = text[f_][b_]
  OBVIOUS
<1>3. PICK n : n = Len(t)
  OBVIOUS
<1>4. PICK h : h = Dest(i)
  OBVIOUS
<1>5. PICK items : items = <<Code(i), Branch({<<f_, h, 1>>, <<f_, b_, n + 1>>})>>
  OBVIOUS
<1>6. PICK new : new = << <<Code(i)>> >>
  OBVIOUS
<1>7. PICK G : G = Functions[f_]
  OBVIOUS
<1>8. PICK s : s = Insts
  OBVIOUS
<1>9. /\ phase = "emit" /\ Top.k \in 1..Len(Insts) /\ Op(Current) = "PUSHTRAP"
      /\ text' = addBlock(Emitted(Emitted(text, insert, items), LlvmBlock(f_, h), <<HandlerEntry>>),
                          f_, b_, new)
      /\ active' = Advanced /\ insert' = <<f_, b_, n + 1>>
      /\ UNCHANGED <<phase, code, Functions, made>>
  BY <1>1, <1>2, <1>3, <1>4, <1>5, <1>6 DEF EmitPushTrap, At, vars, FrontBlock
<1>10. /\ f_ \in DOMAIN text /\ b_ \in DOMAIN text[f_] /\ b_ \in DOMAIN G /\ DOMAIN text[f_] = DOMAIN G
       /\ f_ \in Nat /\ b_ \in Nat /\ t \in Seq(Seq(Items)) /\ t # <<>> /\ n \in Nat /\ n > 0
  BY <1>2, <1>3, <1>7, <1>9, FrameTop, WorkedOn
<1>11. insert = <<f_, b_, n>>
  BY <1>2, <1>3, <1>9, InsertHere
<1>12. i \in Int
  BY <1>1, <1>9, DoingHere DEF Indices
<1>13. Doing(code, f_, G, b_, s, Top.k, i)
  BY <1>1, <1>7, <1>8, <1>9, DoingHere
<1>14. FunctionText(code, f_, G, text[f_], b_, Top.k)
  BY <1>7, <1>9, TopText
<1>15. Traps(code, i, h)
  BY <1>1, <1>4, <1>9 DEF Op, Dest, Dests, Traps
<1>16. h \in DOMAIN G /\ h \in Nat /\ h > b_ /\ h # b_ /\ text[f_][h] = << <<>> >>
  BY ONLY <1>13, <1>14, <1>15, HandlerFresh DEF Untouched
<1>17. LlvmBlock(f_, h) = <<f_, h, 1>>
  <2>1. b_ < h
    BY ONLY <1>10, <1>16
  <2> QED
    BY <2>1, <1>7, <1>9, <1>16, FreshTarget
<1>18. PICK D : D = DOMAIN G
  OBVIOUS
<1>19. /\ Addition(D, f_, b_, n, items, new, i, TRUE) /\ Holds(items, new, i)
       /\ items \in Seq(Items) /\ Len(new) = 1
  <2>1. b_ \in D /\ h \in D /\ h \in Nat
    BY <1>10, <1>16, <1>18
  <2> QED
    BY ONLY <2>1, <1>5, <1>6, <1>10, <1>12, AddsTrap
<1>20. PICK U : U = addBlock(Emitted(Emitted(text, <<f_, b_, n>>, items), <<f_, h, 1>>, <<HandlerEntry>>),
                             f_, b_, new)
  OBVIOUS
<1>21. text' = U
  BY <1>9, <1>11, <1>17, <1>20
<1>22. /\ DOMAIN U = DOMAIN text /\ \A g \in DOMAIN text : g # f_ => U[g] = text[g]
       /\ DOMAIN U[f_] = DOMAIN text[f_]
       /\ \A a \in DOMAIN text[f_] : a \notin {b_, h} => U[f_][a] = text[f_][a]
       /\ U[f_][b_] = Extended(t, items, new) /\ U[f_][h] = << <<HandlerEntry>> >>
  <2>1. h \in DOMAIN text[f_] /\ h # b_
    BY <1>10, <1>16
  <2>2. TrapChanged(text, U, f_, b_, h, Extended(t, items, new))
    BY ONLY <2>1, <1>2, <1>3, <1>10, <1>16, <1>19, <1>20, EmitTrapParts
  <2> QED
    BY ONLY <2>2 DEF TrapChanged
<1>23. ~Ending(code, i)
  BY <1>15 DEF Ending, Jumps, Ends, Traps
<1>24. Addition(DOMAIN G, f_, b_, Len(text[f_][b_]), items, new, i, ~Ending(code, i))
  BY <1>2, <1>3, <1>18, <1>19, <1>23 DEF Addition
<1>25. FunctionText(code, f_, G, text'[f_], b_, Top.k + 1)
  <2>1. \A b \in DOMAIN G : b \notin {b_, h} => U[f_][b] = text[f_][b]
    BY <1>10, <1>22
  <2>2. Trapped(G, text[f_], U[f_], b_, h, Extended(text[f_][b_], items, new))
    BY <2>1, <1>2, <1>22 DEF Trapped
  <2>3. FunctionText(code, f_, G, U[f_], b_, Top.k + 1)
    BY ONLY <2>2, <1>13, <1>14, <1>15, <1>19, <1>24, TrapText
  <2> QED
    BY <2>3, <1>21
<1>26. PICK r \in Frame : r.fn = f_ /\ r.block = b_ /\ r.k = Top.k + 1 /\ Advanced = WithTop(r)
  BY <1>9, AdvancedTo
<1>27. Len(U[f_][b_]) = n + 1
  <2>1. new \in Seq(Seq(Items))
    BY ONLY <1>19 DEF Addition
  <2>2. ExtendsBy(t, items, new, U[f_][b_])
    BY ONLY <2>1, <1>10, <1>19, <1>22, ExtendParts
  <2> QED
    BY ONLY <2>2, <1>3, <1>19 DEF ExtendsBy
<1>28. insert' = <<f_, r.block, Len(text'[f_][r.block])>>
  BY <1>9, <1>21, <1>26, <1>27
<1>29. DOMAIN text' = DOMAIN text /\ \A g \in DOMAIN text : g # f_ => text'[g] = text[g]
  BY <1>21, <1>22
<1> QED
  BY <1>7, <1>9, <1>25, <1>26, <1>28, <1>29, TextsTop

\* CLOSURE, after its function was generated
LEMMA EmitClosureText ==
  ASSUME GInv, Separate, NoDeadCode, Frames, Texts, EmitClosure
  PROVE  Texts'
<1>1. PICK i : i = Current
  OBVIOUS
<1>2. PICK t : t = text[f_][b_]
  OBVIOUS
<1>3. PICK n : n = Len(t)
  OBVIOUS
<1>4. PICK items : items = <<Code(i)>>
  OBVIOUS
<1>5. /\ phase = "emit" /\ Top.k \in 1..Len(Insts) /\ Op(Current) = "CLOSURE"
      /\ text' = Emitted(text, <<f_, b_, n>>, items) /\ insert' = <<f_, b_, n>>
      /\ \/ active' = Advanced
         \/ active' = WithTop([Top EXCEPT !.j = @ + 1])
      /\ UNCHANGED <<phase, code, Functions, made>>
  BY <1>1, <1>2, <1>3, <1>4 DEF EmitClosure, At, vars, Resumed, LlvmBlock
<1>6. /\ f_ \in DOMAIN text /\ b_ \in DOMAIN text[f_] /\ DOMAIN text[f_] = DOMAIN Functions[f_]
      /\ t \in Seq(Seq(Items)) /\ t # <<>> /\ n \in Nat
  BY <1>2, <1>3, <1>5, FrameTop, WorkedOn
<1>7. i \in Int
  BY <1>1, <1>5, DoingHere DEF Indices
<1>8. items \in Seq(Items)
  BY <1>4, <1>7, PlainCode
<1>9. Changed(text, text', f_, b_, Extended(t, items, <<>>))
  BY <1>2, <1>3, <1>5, <1>6, <1>8, EmitParts
<1>10. PICK D : D = DOMAIN Functions[f_]
  OBVIOUS
<1>11. Addition(D, f_, b_, n, items, <<>>, i, TRUE) /\ Holds(items, <<>>, i)
  BY ONLY <1>4, <1>7, AddsPlain
<1>12. insert' = <<f_, b_, Len(t) + Len(<<>>)>>
  BY <1>3, <1>5, <1>6
<1>13. CASE active' = Advanced
  <2>1. ~Ending(code, Current)
    BY <1>5 DEF Ending, Op, Jumps, Ends
  <2>2. Generates(items, <<>>)
    BY <2>1, <1>1, <1>2, <1>3, <1>10, <1>11 DEF Generates, Addition
  <2> QED
    BY <2>2, <1>2, <1>5, <1>9, <1>12, <1>13, TextsAdvance
<1>14. CASE active' = WithTop([Top EXCEPT !.j = @ + 1])
  <2>1. Top \in Frame /\ f_ = Top.fn /\ b_ = Top.block /\ Insts = InstsOf(Functions, Top)
    BY <1>5, FrameTop
  <2>2. PICK r : r = Moved(Top, Top.k, Top.j + 1)
    OBVIOUS
  <2>3. active' = WithTop(r)
    BY <2>1, <2>2, <1>14, FrameFields
  <2>4. r \in Frame /\ r.fn = f_ /\ r.block = b_ /\ r.k = Top.k
    <3>1. /\ Top.fn \in Nat /\ Top.block \in Nat /\ Top.k \in Nat /\ Top.j \in Nat
      BY <2>1, FrameFields
    <3>2. r \in Frame /\ r.fn = Top.fn /\ r.block = Top.block /\ r.k = Top.k
      BY ONLY <3>1, <2>2 DEF Moved, Frame
    <3> QED
      BY <3>2, <2>1
  <2>5. AtClosure(code, InstsOf(Functions, r), r.k)
    BY <2>1, <2>4, <1>5 DEF AtClosure, InstsOf, Op, Current
  <2>6. /\ DOMAIN text' = DOMAIN text /\ \A g \in DOMAIN text : g # f_ => text'[g] = text[g]
        /\ DOMAIN text'[f_] = DOMAIN text[f_]
        /\ \A a \in DOMAIN text[f_] : a # b_ => text'[f_][a] = text[f_][a]
        /\ text'[f_][b_] = Extended(text[f_][b_], items, <<>>)
    BY ONLY <1>2, <1>9 DEF Changed
  <2>7. PICK G : G = Functions[f_]
    OBVIOUS
  <2>8. Doing(code, f_, G, b_, Insts, Top.k, i)
    BY <2>7, <1>1, <1>5, DoingHere
  <2>9. FunctionText(code, f_, G, text[f_], b_, Top.k)
    BY <2>7, <1>5, TopText
  <2>10. FunctionText(code, f_, G, text'[f_], b_, Top.k)
    <3>1. Addition(DOMAIN G, f_, b_, Len(text[f_][b_]), items, <<>>, i, TRUE)
      BY <2>7, <1>2, <1>3, <1>10, <1>11
    <3>2. \A a \in DOMAIN G : a # b_ => text'[f_][a] = text[f_][a]
      BY <2>6, <2>7, <1>6
    <3>3. PICK none : none = <<>>
      OBVIOUS
    <3>4. PICK T : T = text[f_]
      OBVIOUS
    <3>5. PICK U : U = text'[f_]
      OBVIOUS
    <3>6. /\ Addition(DOMAIN G, f_, b_, Len(T[b_]), items, none, i, TRUE)
          /\ DOMAIN U = DOMAIN T /\ \A a \in DOMAIN G : a # b_ => U[a] = T[a]
          /\ U[b_] = Extended(T[b_], items, none)
      BY <3>1, <3>2, <3>3, <3>4, <3>5, <2>6
    <3>7. FunctionText(code, f_, G, T, b_, Top.k)
      BY <3>4, <2>9
    <3>8. FunctionText(code, f_, G, U, b_, Top.k)
      BY ONLY <3>6, <3>7, <2>8, ClosureText
    <3> QED
      BY ONLY <3>5, <3>8
  <2> QED
    BY <2>3, <2>4, <2>5, <2>6, <2>7, <2>10, <1>5, TextsTop
<1> QED
  BY <1>5, <1>13, <1>14

\* The block is begun, in the main code with the call of init.
LEMMA BeginBlockText ==
  ASSUME GInv, Separate, NoDeadCode, Frames, Texts, BeginBlock
  PROVE  Texts'
<1>1. PICK t : t = text[f_][b_]
  OBVIOUS
<1>2. PICK n : n = Len(t)
  OBVIOUS
<1>3. /\ phase = "emit" /\ Top.k = 0 /\ insert' = <<f_, b_, n>>
      /\ text' = text \/ text' = Emitted(text, <<f_, b_, n>>, <<InitCall>>)
      /\ active' = WithTop([Top EXCEPT !.k = 1])
      /\ UNCHANGED <<phase, code, Functions, made>>
  BY <1>1, <1>2 DEF BeginBlock, vars, LlvmBlock
<1>4. /\ f_ \in DOMAIN text /\ b_ \in DOMAIN text[f_] /\ DOMAIN text[f_] = DOMAIN Functions[f_]
      /\ t \in Seq(Seq(Items)) /\ t # <<>> /\ n \in Nat /\ b_ \in DOMAIN Functions[f_]
      /\ f_ \in DOMAIN Functions
  BY <1>1, <1>2, <1>3, FrameTop, WorkedOn
<1>5. <<InitCall>> \in Seq(Items)
  BY ItemTypes
<1>6. /\ DOMAIN text' = DOMAIN text /\ \A g \in DOMAIN text : g # f_ => text'[g] = text[g]
      /\ DOMAIN text'[f_] = DOMAIN text[f_]
      /\ \A a \in DOMAIN text[f_] : a # b_ => text'[f_][a] = text[f_][a]
      /\ text'[f_][b_] = t \/ text'[f_][b_] = Extended(t, <<InitCall>>, <<>>)
  <2>1. CASE text' = text
    BY <2>1, <1>1
  <2>2. CASE text' = Emitted(text, <<f_, b_, n>>, <<InitCall>>)
    <3>1. Changed(text, text', f_, b_, Extended(t, <<InitCall>>, <<>>))
      BY <2>2, <1>1, <1>2, <1>4, <1>5, EmitParts
    <3> QED
      BY <3>1 DEF Changed
  <2> QED
    BY <2>1, <2>2, <1>3
<1>7. Len(text'[f_][b_]) = n
  <2>1. CASE text'[f_][b_] = t
    BY <2>1, <1>2
  <2>2. CASE text'[f_][b_] = Extended(t, <<InitCall>>, <<>>)
    <3>1. <<>> \in Seq(Seq(Items)) /\ Len(<<>>) = 0
      OBVIOUS
    <3>2. ExtendsBy(t, <<InitCall>>, <<>>, text'[f_][b_])
      BY ONLY <3>1, <2>2, <1>4, <1>5, ExtendParts
    <3>3. Len(text'[f_][b_]) = Len(t) + Len(<<>>)
      BY ONLY <3>2 DEF ExtendsBy
    <3> QED
      BY <3>1, <3>3, <1>2, <1>4
  <2> QED
    BY <2>1, <2>2, <1>6
<1>8. PICK G : G = Functions[f_]
  OBVIOUS
<1>9. Neat(code, f_, G)
  BY <1>4, <1>8, NeatFunctions
<1>10. FunctionText(code, f_, G, text[f_], b_, 0)
  <2>1. FunctionText(code, f_, Functions[f_], text[f_], b_, Top.k)
    BY <1>3, TopText
  <2> QED
    BY <2>1, <1>3, <1>8
<1>11. FunctionText(code, f_, G, text'[f_], b_, 1)
  <2>1. /\ b_ \in DOMAIN G /\ \A a \in DOMAIN G : a # b_ => text'[f_][a] = text[f_][a]
        /\ text'[f_][b_] = text[f_][b_] \/ text'[f_][b_] = Extended(text[f_][b_], <<InitCall>>, <<>>)
    BY <1>1, <1>4, <1>6, <1>8
  <2> QED
    BY ONLY <2>1, <1>6, <1>9, <1>10, BeginText
<1>12. Top \in Frame /\ f_ = Top.fn /\ b_ = Top.block
  BY <1>3, FrameTop
<1>13. PICK r : r = Moved(Top, 1, Top.j)
  OBVIOUS
<1>14. active' = WithTop(r)
  BY <1>3, <1>12, <1>13, FrameFields
<1>15. r \in Frame /\ r.fn = f_ /\ r.block = b_ /\ r.k = 1
  <2>1. /\ Top.fn \in Nat /\ Top.block \in Nat /\ Top.j \in Nat
    BY <1>12, FrameFields
  <2>2. r \in Frame /\ r.fn = Top.fn /\ r.block = Top.block /\ r.k = 1
    BY ONLY <2>1, <1>13 DEF Moved, Frame
  <2> QED
    BY <2>2, <1>12
<1>16. insert' = <<f_, r.block, Len(text'[f_][r.block])>>
  BY <1>3, <1>7, <1>15
<1> QED
  BY <1>3, <1>6, <1>8, <1>11, <1>14, <1>15, <1>16, TextsTop

\* The end of a block, and the next one or the end of the function
LEMMA EndBlockParts ==
  ASSUME GInv, Separate, NoDeadCode, Frames, Texts, EndBlock, NEW y \in Nat,
         b_ + Len(Insts) <= y, \A b \in DOMAIN Functions[f_] : b_ < b => y <= b
  PROVE  /\ DOMAIN text' = DOMAIN text /\ \A g \in DOMAIN text : g # f_ => text'[g] = text[g]
         /\ FunctionText(code, f_, Functions[f_], text'[f_], y, 0)
<1>1. PICK t : t = text[f_][b_]
  OBVIOUS
<1>2. PICK n : n = Len(t)
  OBVIOUS
<1>3. PICK G : G = Functions[f_]
  OBVIOUS
<1>4. PICK s : s = Insts
  OBVIOUS
<1>5. PICK i : i = Last(s)
  OBVIOUS
<1>6. PICK w : w = LlvmBlock(f_, Head(G[b_].NextBlocks))
  OBVIOUS
<1>7. /\ phase = "emit" /\ Top.k > Len(s)
      /\ text' = IF NeedsBranch(i) THEN Emitted(text, <<f_, b_, n>>, <<Branch({w})>>) ELSE text
  BY <1>1, <1>2, <1>3, <1>4, <1>5, <1>6 DEF EndBlock, LlvmBlock
<1>8. /\ f_ \in DOMAIN text /\ b_ \in DOMAIN text[f_] /\ DOMAIN text[f_] = DOMAIN G
      /\ t \in Seq(Seq(Items)) /\ t # <<>> /\ n \in Nat /\ b_ \in DOMAIN G /\ f_ \in Nat
      /\ f_ \in DOMAIN Functions /\ Top.k \in Nat /\ Top.k <= Len(s) + 1 /\ Len(s) \in Nat
  BY <1>1, <1>2, <1>3, <1>4, <1>7, FrameTop, WorkedOn
<1>9. Neat(code, f_, G) /\ s = G[b_].Instructions
  BY <1>3, <1>4, <1>8, NeatFunctions DEF Insts
<1>10. Top.k = Len(s) + 1
  BY ONLY <1>7, <1>8
<1>11. FunctionText(code, f_, G, text[f_], b_, Len(s) + 1)
  BY <1>3, <1>7, <1>10, TopText
<1>12. NeedsBranch(i) <=> ~Ending(code, i)
  BY DEF NeedsBranch, Ending, Op
<1>13. i = s[Len(s)]
  BY <1>5 DEF Last
<1>14. PICK z : z = IF Ending(code, i) THEN b_ ELSE Head(G[b_].NextBlocks)
  OBVIOUS
<1>15. z \in DOMAIN G /\ (~Ending(code, i) => w = <<f_, z, 1>>)
  <2>1. CASE Ending(code, i)
    BY <2>1, <1>8, <1>14
  <2>2. CASE ~Ending(code, i)
    <3>1. NeatBlock(code, G, b_)
      BY ONLY <1>8, <1>9 DEF Neat
    <3>2. GoesOn(code, G, b_, i)
      BY ONLY <3>1, <1>9, <1>13 DEF NeatBlock
    <3>3. z \in DOMAIN G /\ i < z
      BY <3>2, <2>2, <1>14 DEF GoesOn
    <3>4. /\ Len(s) > 0 /\ b_ \in Nat /\ z \in Nat
          /\ \A k \in 1..Len(s) : s[k] = b_ + k - 1
      <4>1. /\ Len(G[b_].Instructions) > 0 /\ b_ \in Nat
            /\ \A k \in 1..Len(G[b_].Instructions) : G[b_].Instructions[k] = b_ + k - 1
        <5>1. b_ \in DOMAIN G /\ Neat(code, f_, G)
          BY ONLY <1>8, <1>9
        <5> QED
          BY ONLY <5>1, NeatParts
      <4>2. z \in Nat
        BY ONLY <3>3, <1>9 DEF Neat
      <4> QED
        BY ONLY <4>1, <4>2, <1>9
    <3>5. i = b_ + Len(s) - 1
      <4>1. Len(s) \in 1..Len(s)
        BY ONLY <3>4, <1>8
      <4> QED
        BY <4>1, <3>4, <1>13
    <3>6. b_ < z
      BY ONLY <3>3, <3>4, <3>5, <1>8
    <3>7. LlvmBlock(f_, z) = <<f_, z, 1>>
      BY <3>3, <3>6, <1>3, <1>7, FreshTarget
    <3> QED
      BY <3>3, <3>7, <2>2, <1>6, <1>14
  <2> QED
    BY <2>1, <2>2
<1>16. /\ DOMAIN text' = DOMAIN text /\ \A g \in DOMAIN text : g # f_ => text'[g] = text[g]
       /\ DOMAIN text'[f_] = DOMAIN text[f_]
       /\ \A a \in DOMAIN text[f_] : a # b_ => text'[f_][a] = text[f_][a]
       /\ IF Ending(code, i) THEN text'[f_][b_] = t
          ELSE text'[f_][b_] = Extended(t, <<Branch({<<f_, z, 1>>})>>, <<>>)
  <2>1. CASE Ending(code, i)
    BY <2>1, <1>1, <1>7, <1>12
  <2>2. CASE ~Ending(code, i)
    <3>1. PICK items : items = <<Branch({<<f_, z, 1>>})>>
      OBVIOUS
    <3>2. items \in Seq(Items)
      <4>1. z \in Nat
        BY <1>9, <1>15, NeatParts, <1>8
      <4>2. {<<f_, z, 1>>} \in SUBSET (Nat \X Nat \X Nat)
        BY <4>1, <1>8
      <4> QED
        BY <4>2, <3>1, OnlyBranch
    <3>3. text' = Emitted(text, <<f_, b_, n>>, items)
      BY <3>1, <2>2, <1>7, <1>12, <1>15
    <3>4. Changed(text, text', f_, b_, Extended(t, items, <<>>))
      BY <3>2, <3>3, <1>1, <1>2, <1>8, EmitParts
    <3> QED
      BY <3>1, <3>4, <2>2 DEF Changed
  <2> QED
    BY <2>1, <2>2
<1>17. FunctionText(code, f_, G, text'[f_], y, 0)
  <2>1. PICK T : T = text[f_]
    OBVIOUS
  <2>2. PICK U : U = text'[f_]
    OBVIOUS
  <2>3. \A b \in DOMAIN G : b # b_ => U[b] = T[b]
    BY <2>1, <2>2, <1>8, <1>16
  <2>4. IF Ending(code, s[Len(s)]) THEN U[b_] = T[b_]
        ELSE U[b_] = Extended(T[b_], <<Branch({<<f_, z, 1>>})>>, <<>>)
    BY <2>1, <2>2, <1>1, <1>13, <1>16
  <2>5. b_ + Len(s) <= y /\ \A b \in DOMAIN G : b_ < b => y <= b
    BY <1>3, <1>4
  <2>6. FunctionText(code, f_, G, T, b_, Len(s) + 1) /\ DOMAIN U = DOMAIN T
    BY <2>1, <2>2, <1>11, <1>16
  <2>7. Leaves(code, f_, G, b_, T, y, z, U)
    BY ONLY <2>3, <2>4, <2>5, <2>6, <1>8, <1>9, <1>15, y \in Nat DEF Leaves
  <2> QED
    BY ONLY <2>2, <2>7, EndText
<1> QED
  BY <1>3, <1>16, <1>17

LEMMA EndBlockText ==
  ASSUME GInv, Separate, NoDeadCode, Frames, Texts, EndBlock
  PROVE  Texts'
<1>1. phase = "emit" /\ Top.k > Len(Insts) /\ UNCHANGED <<pc, code, Functions, made>>
  BY DEF EndBlock, vars
<1>2. PICK n : n = Len(active)
  OBVIOUS
<1>3. /\ active \in Seq(Frame) /\ active # <<>> /\ n \in Nat /\ n > 0 /\ Top = active[n]
      /\ f_ \in DOMAIN Functions /\ b_ \in DOMAIN Functions[f_] /\ f_ \in made /\ f_ \in Nat /\ b_ \in Nat
      /\ f_ = Top.fn /\ DOMAIN text = DOMAIN Functions /\ Len(Insts) \in Nat /\ Len(Insts) > 0
  BY <1>1, <1>2, FrameTop DEF Texts
<1>4. PICK G : G = Functions[f_]
  OBVIOUS
<1>5. Neat(code, f_, G) /\ Insts = G[b_].Instructions /\ b_ \in DOMAIN G
  BY <1>3, <1>4, NeatFunctions DEF Insts
<1>6. /\ \A c \in DOMAIN G : c \in Nat /\ (b_ < c => b_ + Len(Insts) <= c)
      /\ \A k \in 1..Len(Insts) : Insts[k] = b_ + k - 1 /\ Insts[k] \in Range(Insts)
      /\ \A i \in Range(Insts) : i < Len(code)
  BY <1>5, NeatParts
<1>7. CASE Above(f_, b_) # {}
  <2>1. PICK g : g = NextBlock(f_, b_)
    OBVIOUS
  <2>2. PICK r : r = [fn |-> f_, block |-> g, k |-> 0, j |-> 0]
    OBVIOUS
  <2>3. phase' = phase /\ active' = WithTop(r)
    BY <1>7, <2>1, <2>2 DEF EndBlock
  <2>4. /\ g \in DOMAIN Functions[f_] /\ b_ < g
        /\ \A a \in DOMAIN Functions[f_] : b_ < a => g <= a
    BY <1>3, <1>7, <2>1, NextBlockIs
  <2>5. g \in Nat /\ b_ + Len(Insts) <= g
    BY <2>4, <1>4, <1>6
  <2>6. r \in Frame /\ r.fn = f_ /\ r.block = g /\ r.k = 0
    BY <2>2, <2>5, <1>3, NewFrame
  <2>7. /\ DOMAIN text' = DOMAIN text /\ \A h \in DOMAIN text : h # f_ => text'[h] = text[h]
        /\ FunctionText(code, f_, Functions[f_], text'[f_], g, 0)
    BY <2>4, <2>5, EndBlockParts
  <2>8. r.k \notin 1..Len(InstsOf(Functions, r))
    BY <2>6
  <2> QED
    BY <2>3, <2>6, <2>7, <2>8, <1>1, TextsTop
<1>8. CASE Above(f_, b_) = {}
  <2>1. /\ active' = SubSeq(active, 1, n - 1)
        /\ phase' = IF active' = <<>> THEN "compiled" ELSE phase
    BY <1>2, <1>8 DEF EndBlock
  <2>2. /\ active' \in Seq(Frame) /\ Len(active') = n - 1
        /\ \A m \in 1 .. n - 1 : active'[m] = active[m]
    BY <1>2, <1>3, <2>1, RemoveLast
  <2>3. \A m \in 1 .. n - 1 : m \in 1..n /\ m # n /\ n \in 1..n
    BY <1>3
  <2>4. Len(code) \in Nat /\ b_ + Len(Insts) <= Len(code)
    <3>1. Len(Insts) \in 1..Len(Insts) /\ Len(code) \in Nat
      BY <1>3, <1>5 DEF Neat
    <3>2. b_ + Len(Insts) - 1 < Len(code)
      BY <3>1, <1>6
    <3> QED
      BY ONLY <3>1, <3>2, <1>3
  <2>5. \A b \in DOMAIN Functions[f_] : ~(b_ < b)
    BY <1>3, <1>4, <1>6, <1>8 DEF Above
  <2>6. /\ DOMAIN text' = DOMAIN text /\ \A h \in DOMAIN text : h # f_ => text'[h] = text[h]
        /\ FunctionText(code, f_, Functions[f_], text'[f_], Len(code), 0)
    BY <2>4, <2>5, EndBlockParts
  <2>7. ASSUME NEW m \in 1 .. n - 1
        PROVE  /\ active[m].fn # f_ /\ active[m].fn \in made /\ active[m].fn \in DOMAIN text
               /\ text'[active[m].fn] = text[active[m].fn]
    <3>1. active[m].fn # f_
      BY <2>3, <1>2, <1>3 DEF Frames
    <3>2. active[m].fn \in made /\ active[m].fn \in DOMAIN Functions
      BY <2>3, <1>2 DEF Frames, FrameOK
    <3> QED
      BY <3>1, <3>2, <2>6, <1>3
  <2>8. \A m \in 1 .. n - 1 :
          FunctionText(code, active'[m].fn, Functions[active'[m].fn], text'[active'[m].fn],
                       active'[m].block, active'[m].k)
    BY <2>2, <2>3, <2>7, <1>2 DEF Texts
  <2>9. ASSUME NEW f \in made
        PROVE  \/ \E m \in 1 .. n - 1 : active'[m].fn = f
               \/ FunctionText(code, f, Functions[f], text'[f], Len(code), 0)
    <3>1. CASE f = f_
      BY <3>1, <2>6
    <3>2. CASE f # f_ /\ \E m \in 1..n : active[m].fn = f
      <4>1. PICK m \in 1..n : active[m].fn = f
        BY <3>2
      <4>2. m # n
        BY <4>1, <3>2, <1>3
      <4>3. m \in 1 .. n - 1
        BY ONLY <4>2, <1>3, m \in 1..n
      <4> QED
        BY <4>1, <4>3, <2>2
    <3>3. CASE f # f_ /\ FunctionText(code, f, Functions[f], text[f], Len(code), 0)
      <4>1. f \in DOMAIN text
        BY <1>3 DEF Frames
      <4> QED
        BY <4>1, <3>3, <2>6
    <3> QED
      BY <3>1, <3>2, <3>3, <1>2 DEF Texts
  <2>10. \A f \in DOMAIN Functions : f \notin made =>
           DOMAIN text'[f] = DOMAIN Functions[f] /\ \A b \in DOMAIN Functions[f] : text'[f][b] = << <<>> >>
    BY <2>6, <1>1, <1>3 DEF Texts
  <2>11. ASSUME phase' = "emit", Top'.k \in 1..Len(Insts'), Op(Current)' # "CLOSURE" PROVE FALSE
    <3>1. active' # <<>>
      BY <2>1, <2>11
    <3>2. n - 1 \in 1 .. n - 1
      <4>1. n - 1 # 0
        BY <3>1, <2>2
      <4> QED
        BY <4>1, <1>3
    <3>3. AtClosure(code, InstsOf(Functions, active[n - 1]), active[n - 1].k)
      BY <3>2, <1>2 DEF Frames
    <3>4. Top' = active[n - 1]
      BY <3>2, <2>2 DEF Top, Last
    <3>5. code[Insts'[Top'.k] + 1].op = "CLOSURE"
      BY <3>3, <3>4, <1>1 DEF AtClosure, InstsOf, Insts, f_, b_
    <3> QED
      BY <3>5, <2>11, <1>1 DEF Op, Current
  <2>12. DOMAIN text' = DOMAIN Functions'
    BY <2>6, <1>1, <1>3
  <2> QED
    BY <2>2, <2>8, <2>9, <2>10, <2>11, <2>12, <1>1 DEF Texts
<1> QED
  BY <1>7, <1>8

\* A function is begun, before any of its code is there.
LEMMA GenerateText ==
  ASSUME GInv, Separate, NoDeadCode, Frames, Texts, GenerateFunction
  PROVE  Texts'
<1>1. PICK n : n = Len(active)
  OBVIOUS
<1>2. PICK g : g = Wanted
  OBVIOUS
<1>3. PICK r : r = Starting(g)
  OBVIOUS
<1>4. /\ phase = "emit" /\ g \notin made /\ g \in DOMAIN Functions
      /\ made' = made \cup {g} /\ active' = Append(active, r)
      /\ UNCHANGED <<phase, code, Functions, text, insert>>
  BY <1>2, <1>3 DEF GenerateFunction, At, vars
<1>5. active \in Seq(Frame) /\ n \in Nat /\ DOMAIN text = DOMAIN Functions
  BY <1>1, <1>4, FrameTop DEF Texts
<1>6. Lowest(g) = g /\ g \in Nat
  BY <1>4, LowestIs DEF GInv, Types, Indices
<1>7. r \in Frame /\ r.fn = g /\ r.block = g /\ r.k = 0
  <2>1. r = [fn |-> g, block |-> g, k |-> 0, j |-> 0]
    BY <1>3, <1>6 DEF Starting
  <2> QED
    BY <2>1, <1>6, NewFrame
<1>8. /\ Len(active') = n + 1 /\ active'[n + 1] = r /\ \A m \in 1..n : active'[m] = active[m]
  BY <1>1, <1>4, <1>5, <1>7, AppendParts
<1>9. ASSUME NEW m \in 1 .. n + 1 PROVE m \in 1..n \/ m = n + 1
  BY <1>5
<1>10. n + 1 \in 1 .. n + 1 /\ \A m \in 1..n : m \in 1 .. n + 1
  BY <1>5
<1>11. FunctionText(code, g, Functions[g], text[g], g, 0)
  <2>1. Neat(code, g, Functions[g])
    BY <1>4, NeatFunctions
  <2>2. DOMAIN text[g] = DOMAIN Functions[g] /\ \A b \in DOMAIN Functions[g] : text[g][b] = << <<>> >>
    BY <1>4 DEF Texts
  <2> QED
    BY ONLY <2>1, <2>2, StartText
<1>12. \A m \in 1 .. n + 1 :
         FunctionText(code, active'[m].fn, Functions[active'[m].fn], text[active'[m].fn],
                      active'[m].block, active'[m].k)
  <2>1. \A m \in 1..n :
          FunctionText(code, active[m].fn, Functions[active[m].fn], text[active[m].fn],
                       active[m].block, active[m].k)
    BY <1>1 DEF Texts
  <2>2. FunctionText(code, r.fn, Functions[r.fn], text[r.fn], r.block, r.k)
    BY <1>7, <1>11
  <2> TAKE m \in 1 .. n + 1
  <2>3. CASE m \in 1..n
    BY <2>1, <2>3, <1>8
  <2>4. CASE m = n + 1
    BY <2>2, <2>4, <1>8
  <2> QED
    BY <2>3, <2>4, <1>9
<1>13. ASSUME NEW f \in made'
       PROVE  \/ \E m \in 1 .. n + 1 : active'[m].fn = f
              \/ FunctionText(code, f, Functions[f], text[f], Len(code), 0)
  <2>1. CASE f = g
    BY <2>1, <1>7, <1>8, <1>10
  <2>2. CASE f \in made
    BY <2>2, <1>1, <1>8, <1>10 DEF Texts
  <2> QED
    BY <2>1, <2>2, <1>4
<1>14. Top'.k \notin 1..Len(Insts')
  <2>1. Top' = r
    BY <1>8 DEF Top, Last
  <2> QED
    BY <2>1, <1>7
<1> QED
  BY <1>4, <1>8, <1>12, <1>13, <1>14 DEF Texts

\* Compiling starts with the main code.
LEMMA CompileText ==
  ASSUME GInv, Separate, NoDeadCode, Frames, Texts, Compile
  PROVE  Texts'
<1>1. PICK r : r = Starting(MAIN)
  OBVIOUS
<1>2. /\ phase = "create" /\ pc = "done" /\ phase' = "emit" /\ made' = {MAIN} /\ active' = <<r>>
      /\ text' = [f \in DOMAIN Functions |-> [b \in DOMAIN Functions[f] |-> << <<>> >>]]
      /\ UNCHANGED <<code, Functions>>
  BY <1>1 DEF Compile, vars
<1>3. MAIN \in DOMAIN Functions
  BY <1>2 DEF Separate
<1>4. Lowest(MAIN) = MAIN /\ MAIN \in Nat
  BY <1>3, LowestIs DEF MAIN
<1>5. r \in Frame /\ r.fn = MAIN /\ r.block = MAIN /\ r.k = 0
  <2>1. r = [fn |-> MAIN, block |-> MAIN, k |-> 0, j |-> 0]
    BY <1>1, <1>4 DEF Starting
  <2> QED
    BY <2>1, <1>4, NewFrame
<1>6. Len(active') = 1 /\ active'[1] = r
  BY <1>2
<1>7. DOMAIN text' = DOMAIN Functions
      /\ \A f \in DOMAIN Functions :
           DOMAIN text'[f] = DOMAIN Functions[f] /\ \A b \in DOMAIN Functions[f] : text'[f][b] = << <<>> >>
  BY <1>2
<1>8. FunctionText(code, MAIN, Functions[MAIN], text'[MAIN], MAIN, 0)
  <2>1. Neat(code, MAIN, Functions[MAIN])
    BY <1>3, NeatFunctions
  <2>2. /\ DOMAIN text'[MAIN] = DOMAIN Functions[MAIN]
        /\ \A b \in DOMAIN Functions[MAIN] : text'[MAIN][b] = << <<>> >>
    BY <1>3, <1>7
  <2> QED
    BY ONLY <2>1, <2>2, StartText
<1>9. \A m \in 1..1 : m = 1
  OBVIOUS
<1>10. \A m \in 1..Len(active') :
         FunctionText(code, active'[m].fn, Functions[active'[m].fn], text'[active'[m].fn],
                      active'[m].block, active'[m].k)
  <2>1. FunctionText(code, r.fn, Functions[r.fn], text'[r.fn], r.block, r.k)
    BY <1>5, <1>8
  <2> QED
    BY <2>1, <1>6, <1>9
<1>11. \A f \in made' : \E m \in 1..Len(active') : active'[m].fn = f
  <2>1. 1 \in 1..Len(active')
    BY <1>6
  <2> QED
    BY <2>1, <1>2, <1>5, <1>6
<1>12. Top'.k \notin 1..Len(Insts')
  <2>1. Top' = r
    BY <1>6 DEF Top, Last
  <2> QED
    BY <2>1, <1>5
<1> QED
  BY <1>2, <1>7, <1>10, <1>11, <1>12 DEF Texts

LEMMA TextsNext ==
  ASSUME GInv, Separate, NoDeadCode, Frames, Texts, [CNext]_allvars
  PROVE  Texts'
<1>1. CASE Create
  <2>1. UNCHANGED <<phase, made, active>> /\ phase = "create"
    BY <1>1 DEF Create, emission
  <2>2. made = {} /\ Len(active) = 0
    BY <2>1 DEF Frames
  <2>3. \A m \in 1..Len(active) : FALSE
    BY <2>2
  <2> QED
    BY <2>1, <2>2, <2>3 DEF Texts
<1>2. CASE UNCHANGED allvars
  <2>1. UNCHANGED <<code, Functions, phase, text, insert, made, active>>
    BY <1>2 DEF allvars, vars, emission
  <2> QED
    BY <2>1 DEF Texts, Top, f_, b_, Insts, Current, Op
<1> QED
  BY <1>1, <1>2, CompileText, BeginBlockText, EmitPlainText, EmitGrabText, EmitPushTrapText,
     EmitReturnText, EmitEndText, EmitJumpText, GenerateText, EmitClosureText, EndBlockText DEF CNext

(* When no code is dead, the texts of all functions are what the generator has
   got to: each block holds the code of its own instructions up to the one at
   hand.  It is inductive together with what holds of the calls and the passes. *)
Generated == GInv /\ Separate /\ Frames /\ (NoDeadCode => Texts)

LEMMA TextsInit == CInit => Texts
<1> SUFFICES ASSUME CInit PROVE Texts
  OBVIOUS
<1>1. phase = "create" /\ made = {} /\ Len(active) = 0
  BY DEF CInit
<1>2. \A m \in 1..Len(active) : FALSE
  BY <1>1
<1> QED
  BY <1>1, <1>2 DEF Texts

(* However far the generator is, the text of every function is that of the blocks
   and instructions done: the inductive invariant of the code generated. *)
THEOREM TextsInvariant == CSpec => []Generated
<1>1. CInit => (NoDeadCode => Texts)
  BY TextsInit
<1>2. ASSUME GInv, Separate, Frames, NoDeadCode => Texts, [CNext]_allvars PROVE (NoDeadCode => Texts)'
  <2>1. code' = code
    BY <1>2, PassesNext, ProgramKept
  <2>2. NoDeadCode' => NoDeadCode
    BY <2>1, StaticKept
  <2> QED
    BY <2>2, <1>2, TextsNext
<1>3. GInv /\ Separate /\ Frames /\ (NoDeadCode => Texts) /\ [CNext]_allvars => (NoDeadCode => Texts)'
  BY <1>2
<1>4. Generated <=> GInv /\ Separate /\ Frames /\ (NoDeadCode => Texts)
  BY DEF Generated
<1> QED
  BY <1>1, <1>3, <1>4, FramesInvariant, PTL DEF CSpec

-----------------------------------------------------------------------------
(* What the text says, then *)

\* The text of a block, however far the generator is
LEMMA BlockSoFar ==
  ASSUME Generated, NoDeadCode, phase # "create", NEW f \in made
  PROVE  /\ f \in DOMAIN Functions /\ f \in DOMAIN text /\ DOMAIN text[f] = DOMAIN Functions[f]
         /\ DOMAIN Functions[f] \subseteq Indices
         /\ \A b \in DOMAIN Functions[f] :
              /\ text[f][b] \in Seq(Seq(Items)) /\ text[f][b] # <<>>
              /\ Aimed(DOMAIN Functions[f], f, b, text[f][b])
              /\ \E c : Coded(Functions[f][b].Instructions, text[f][b], c)
<1>1. GInv /\ Frames /\ Texts
  BY DEF Generated
<1>2. f \in DOMAIN Functions /\ f \in DOMAIN text
  BY <1>1 DEF Frames, Texts
<1>3. DOMAIN Functions[f] \subseteq Indices
  BY <1>1, <1>2 DEF GInv, Types, IsGraph
<1>4. \E x, k : FunctionText(code, f, Functions[f], text[f], x, k)
  BY <1>1 DEF Texts
<1>5. PICK x, k : FunctionText(code, f, Functions[f], text[f], x, k)
  BY <1>4
<1>6. /\ DOMAIN text[f] = DOMAIN Functions[f]
      /\ \A b \in DOMAIN Functions[f] : BlockText(code, f, Functions[f], b, text[f][b], x, k)
  BY ONLY <1>5 DEF FunctionText
<1>7. ASSUME NEW b \in DOMAIN Functions[f]
      PROVE  /\ text[f][b] \in Seq(Seq(Items)) /\ text[f][b] # <<>>
             /\ Aimed(DOMAIN Functions[f], f, b, text[f][b])
             /\ \E c : Coded(Functions[f][b].Instructions, text[f][b], c)
  BY <1>6 DEF BlockText, Shaped
<1> QED
  BY <1>2, <1>3, <1>6, <1>7

\* The text of a block when all are generated
Complete(f, b, t, s) ==
  /\ b \in DOMAIN Functions[f] /\ s = Functions[f][b].Instructions
  /\ t \in Seq(Seq(Items)) /\ t # <<>>
  /\ \A n \in 1..Len(t) : Closes(t[n]) /\ InOrder(t[n])
  /\ \A n \in 1..Len(t) : \A m \in 1..Len(t[n]) : t[n][m].code >= 0 => t[n][m].code \in Range(s)
  /\ \A i \in Range(s) : Emits(t, i)
  /\ Entered(t, Handled(code, Functions[f], Len(code), b))

LEMMA BlockInTheEnd ==
  ASSUME Generated, NoDeadCode, phase = "compiled", NEW f \in made, NEW b \in DOMAIN text[f]
  PROVE  /\ Complete(f, b, text[f][b], Functions[f][b].Instructions)
         /\ Neat(code, f, Functions[f])
<1>1. GInv /\ Separate /\ Frames /\ Texts
  BY DEF Generated
<1>2. Len(active) = 0
  BY <1>1 DEF Frames
<1>3. \A m \in 1..Len(active) : FALSE
  BY <1>2
<1>4. FunctionText(code, f, Functions[f], text[f], Len(code), 0)
  BY <1>1, <1>3 DEF Texts
<1>5. f \in DOMAIN Functions
  BY <1>1 DEF Frames
<1>6. Neat(code, f, Functions[f])
  BY <1>1, <1>5, NeatFunctions
<1>7. PICK t : t = text[f][b]
  OBVIOUS
<1>8. PICK s : s = Functions[f][b].Instructions
  OBVIOUS
<1>9. /\ b \in DOMAIN Functions[f]
      /\ BlockText(code, f, Functions[f], b, t, Len(code), 0)
  BY <1>4, <1>7 DEF FunctionText
<1>10. /\ b \in Nat /\ s \in Seq(Nat) /\ Len(s) > 0 /\ Len(s) \in Nat
       /\ \A k \in 1..Len(s) : s[k] \in Range(s)
       /\ \A i \in Range(s) : i \in Nat /\ b <= i /\ i < Len(code)
  BY <1>6, <1>8, <1>9, NeatParts
<1>11. Len(code) \in Nat
  BY <1>6 DEF Neat
<1>12. b < Len(code)
  <2>1. 1 \in 1..Len(s)
    BY <1>10
  <2>2. s[1] \in Nat /\ b <= s[1] /\ s[1] < Len(code)
    BY <2>1, <1>10
  <2> QED
    BY ONLY <2>2, <1>10, <1>11
<1>13. ~IsOpen(code, s, b, Len(code), 0)
  BY <1>10, <1>11, <1>12 DEF IsOpen
<1>14. Cursor(Len(code), 0) = Len(code)
  BY DEF Cursor
<1>15. /\ Shaped(t, IsOpen(code, s, b, Len(code), 0))
       /\ Coded(s, t, Len(code)) /\ Entered(t, Handled(code, Functions[f], Len(code), b))
  BY <1>8, <1>9, <1>14 DEF BlockText
<1>16. t \in Seq(Seq(Items)) /\ t # <<>> /\ \A n \in 1..Len(t) : Closes(t[n])
  <2>1. /\ t \in Seq(Seq(Items)) /\ t # <<>> /\ Closes(t[Len(t)])
        /\ \A n \in 1 .. Len(t) - 1 : Closes(t[n])
    BY <1>13, <1>15 DEF Shaped
  <2>2. \A n \in 1..Len(t) : n \in 1 .. Len(t) - 1 \/ n = Len(t)
    BY <2>1
  <2> QED
    BY <2>1, <2>2
<1>17. /\ \A n \in 1..Len(t) : \A m \in 1..Len(t[n]) : t[n][m].code >= 0 => t[n][m].code \in Range(s)
       /\ \A i \in Range(s) : i < Len(code) => Emits(t, i)
       /\ \A n \in 1..Len(t) : InOrder(t[n])
  BY <1>15 DEF Coded
<1>18. Complete(f, b, t, s)
  BY <1>8, <1>9, <1>10, <1>15, <1>16, <1>17 DEF Complete
<1> QED
  BY <1>6, <1>7, <1>8, <1>18

LEMMA PointParts ==
  ASSUME NEW p \in Points
  PROVE  \E f \in made : \E b \in DOMAIN text[f] : \E n \in 1..Len(text[f][b]) :
           p = <<f, b, n>> /\ LlvmCode(p) = text[f][b][n] /\ p[1] = f /\ p[2] = b /\ p[3] = n
  BY DEF Points, PointsOf, LlvmCode

(* Every branch the generator makes is to an LLVM block there is, and the calls
   of CodeGen are of functions and blocks there are. *)
THEOREM CodeTypesOK == CSpec => [](NoDeadCode => CTypeOK)
<1>1. Generated => (NoDeadCode => CTypeOK)
  <2> SUFFICES ASSUME Generated, NoDeadCode PROVE CTypeOK
    OBVIOUS
  <2>1. GInv /\ Frames /\ Texts
    BY DEF Generated
  <2>2. /\ phase \in {"create", "emit", "compiled"} /\ made \subseteq DOMAIN Functions
        /\ phase = "emit" => active # <<>>
        /\ phase = "create" => made = {}
    BY <2>1 DEF Frames
  <2>3. ASSUME phase # "create"
        PROVE  /\ DOMAIN text = DOMAIN Functions
               /\ \A f \in DOMAIN text : DOMAIN text[f] = DOMAIN Functions[f]
    <3>1. DOMAIN text = DOMAIN Functions
      BY <2>1, <2>3 DEF Texts
    <3>2. \A f \in DOMAIN Functions : f \notin made => DOMAIN text[f] = DOMAIN Functions[f]
      BY <2>1, <2>3 DEF Texts
    <3>3. \A f \in made : DOMAIN text[f] = DOMAIN Functions[f]
      BY <2>3, BlockSoFar
    <3> QED
      BY <3>1, <3>2, <3>3
  <2>4. ASSUME NEW p \in Points, NEW k \in 1..Len(LlvmCode(p)), NEW c, c = LlvmCode(p)[k]
        PROVE  /\ c.code \in Indices \cup {-1, -2, -3} /\ c.ends \in BOOLEAN
               /\ c.targets \subseteq Points
    <3>f. PICK f \in made : \E b \in DOMAIN text[f] : \E n \in 1..Len(text[f][b]) :
            p = <<f, b, n>> /\ LlvmCode(p) = text[f][b][n]
      BY PointParts
    <3>b. PICK b \in DOMAIN text[f] : \E n \in 1..Len(text[f][b]) :
            p = <<f, b, n>> /\ LlvmCode(p) = text[f][b][n]
      BY <3>f
    <3>1. PICK n \in 1..Len(text[f][b]) : p = <<f, b, n>> /\ LlvmCode(p) = text[f][b][n]
      BY <3>b
    <3>2. phase # "create"
      BY <2>2
    <3>3. PICK t : t = text[f][b]
      OBVIOUS
    <3>4. PICK D : D = DOMAIN Functions[f]
      OBVIOUS
    <3>5. /\ f \in DOMAIN Functions /\ DOMAIN text[f] = D /\ D \subseteq Indices
          /\ \A a \in D : text[f][a] \in Seq(Seq(Items)) /\ text[f][a] # <<>>
          /\ t \in Seq(Seq(Items)) /\ Aimed(D, f, b, t)
          /\ \E d : Coded(Functions[f][b].Instructions, t, d)
      BY <3>2, <3>3, <3>4, BlockSoFar
    <3>6. n \in 1..Len(t) /\ k \in 1..Len(t[n]) /\ c = t[n][k]
      BY <2>4, <3>1, <3>3
    <3>7. c \in Items
      <4>1. t[n] \in Seq(Items)
        BY <3>5, <3>6
      <4> QED
        BY <4>1, <3>6
    <3>8. c.code \in Int /\ c.ends \in BOOLEAN /\ c.targets \in SUBSET (Nat \X Nat \X Nat)
      BY ONLY <3>7 DEF Items
    <3>9. c.code >= -3 /\ (c.code >= 0 => c.code \in Range(Functions[f][b].Instructions))
      BY <3>5, <3>6 DEF Coded
    <3>10. Range(Functions[f][b].Instructions) \subseteq Indices
      <4>1. PICK s : s = Functions[f][b].Instructions
        OBVIOUS
      <4>2. b \in DOMAIN Functions[f] /\ GInv
        BY <2>1, <3>4, <3>5
      <4>3. s \in Seq(Indices)
        BY <4>1, <4>2, <3>5, MadeParts
      <4> QED
        BY <4>1, <4>3 DEF Range
    <3>11. c.code \in Indices \cup {-1, -2, -3}
      <4>1. CASE c.code >= 0
        BY <4>1, <3>9, <3>10
      <4>2. CASE ~(c.code >= 0)
        BY ONLY <4>2, <3>8, <3>9
      <4> QED
        BY <4>1, <4>2
    <3>12. ASSUME NEW q \in c.targets PROVE q \in Points
      <4>1. q \in Nat \X Nat \X Nat
        BY <3>8
      <4>2. q = <<q[1], q[2], q[3]>>
        BY ONLY <4>1
      <4>3. AimedAt(D, f, b, n, Len(t), q)
        BY <3>5, <3>6 DEF Aimed
      <4>4. /\ q[1] = f /\ q[2] \in D
            /\ q[3] = 1 \/ (q[2] = b /\ q[3] \in 1..Len(t))
        BY ONLY <4>3 DEF AimedAt
      <4>5. q[3] \in 1..Len(text[f][q[2]])
        <5>1. CASE q[3] = 1
          <6>1. text[f][q[2]] \in Seq(Seq(Items)) /\ text[f][q[2]] # <<>>
            BY <3>5, <4>4
          <6>2. 1 \in 1..Len(text[f][q[2]])
            BY ONLY <6>1
          <6> QED
            BY <6>2, <5>1
        <5>2. CASE q[2] = b /\ q[3] \in 1..Len(t)
          BY <5>2, <3>3
        <5> QED
          BY <5>1, <5>2, <4>4
      <4>6. q = <<f, q[2], q[3]>> /\ q[2] \in DOMAIN text[f]
        BY <4>2, <4>4, <3>5
      <4>7. q \in PointsOf(f)
        BY ONLY <4>5, <4>6 DEF PointsOf
      <4> QED
        BY <4>7 DEF Points
    <3> QED
      BY <3>8, <3>11, <3>12
  <2>5. \A k \in 1..Len(active) :
          /\ active[k].fn \in DOMAIN Functions
          /\ active[k].block \in DOMAIN Functions[active[k].fn]
    BY <2>1, <2>2 DEF Frames, FrameOK
  <2> QED
    BY <2>2, <2>3, <2>4, <2>5 DEF CTypeOK
<1> QED
  BY <1>1, TextsInvariant, PTL

(* Every LLVM block of the finished code has one terminator, at its end: also
   those an instruction was split into, and the one a handler's entry was put
   into before the handler was generated. *)
THEOREM EachBlockEndsOnce == CSpec => [](NoDeadCode => OneTerminator)
<1>1. Generated => (NoDeadCode => OneTerminator)
  <2> SUFFICES ASSUME Generated, NoDeadCode, phase = "compiled", NEW p \in Points
               PROVE  /\ LlvmCode(p) # <<>>
                      /\ \A k \in 1..Len(LlvmCode(p)) : LlvmCode(p)[k].ends <=> k = Len(LlvmCode(p))
    BY DEF OneTerminator
  <2>f. PICK f \in made : \E b \in DOMAIN text[f] : \E n \in 1..Len(text[f][b]) :
          LlvmCode(p) = text[f][b][n]
    BY PointParts
  <2>b. PICK b \in DOMAIN text[f] : \E n \in 1..Len(text[f][b]) : LlvmCode(p) = text[f][b][n]
    BY <2>f
  <2>1. PICK n \in 1..Len(text[f][b]) : LlvmCode(p) = text[f][b][n]
    BY <2>b
  <2>2. Closes(text[f][b][n])
    BY BlockInTheEnd DEF Complete
  <2> QED
    BY <2>1, <2>2 DEF Closes
<1> QED
  BY <1>1, TextsInvariant, PTL

(* No branch of the finished code passes over code of the block it goes to. *)
THEOREM BranchesEnterAtFront == CSpec => [](NoDeadCode => EntersAtFront)
<1>1. Generated => (NoDeadCode => EntersAtFront)
  <2> SUFFICES ASSUME Generated, NoDeadCode, phase = "compiled", NEW p \in Points,
                      NEW k \in 1..Len(LlvmCode(p)), NEW q \in LlvmCode(p)[k].targets
               PROVE  /\ q[1] = p[1]
                      /\ q[2] # p[2] \/ q[3] <= p[3] => q[3] = 1
    BY DEF EntersAtFront
  <2>f. PICK f \in made : \E b \in DOMAIN text[f] : \E n \in 1..Len(text[f][b]) :
          LlvmCode(p) = text[f][b][n] /\ p[1] = f /\ p[2] = b /\ p[3] = n
    BY PointParts
  <2>b. PICK b \in DOMAIN text[f] : \E n \in 1..Len(text[f][b]) :
          LlvmCode(p) = text[f][b][n] /\ p[1] = f /\ p[2] = b /\ p[3] = n
    BY <2>f
  <2>1. PICK n \in 1..Len(text[f][b]) : LlvmCode(p) = text[f][b][n] /\ p[1] = f /\ p[2] = b /\ p[3] = n
    BY <2>b
  <2>2. Aimed(DOMAIN Functions[f], f, b, text[f][b]) /\ Len(text[f][b]) \in Nat
    BY BlockSoFar
  <2>3. AimedAt(DOMAIN Functions[f], f, b, n, Len(text[f][b]), q)
    BY <2>1, <2>2 DEF Aimed
  <2>4. q[1] = f /\ (q[3] = 1 \/ (q[2] = b /\ q[3] \in 1..Len(text[f][b]) /\ n < q[3]))
    BY ONLY <2>3 DEF AimedAt
  <2>5. q[2] # b \/ q[3] <= n => q[3] = 1
    BY ONLY <2>2, <2>4, n \in 1..Len(text[f][b])
  <2> QED
    BY <2>1, <2>4, <2>5
<1> QED
  BY <1>1, TextsInvariant, PTL

(* The code of every instruction is in the LLVM blocks of its own block, in its
   order, although generating a function moves the insertion point away in the
   middle of another. *)
THEOREM CodeStaysInPlace == CSpec => [](NoDeadCode => InPlace)
<1>1. Generated => (NoDeadCode => InPlace)
  <2> SUFFICES ASSUME Generated, NoDeadCode, phase = "compiled", NEW f \in made,
                      NEW b \in DOMAIN text[f]
               PROVE  BlockInPlace(Functions[f][b].Instructions, text[f][b])
    BY DEF InPlace
  <2>s. PICK s : s = Functions[f][b].Instructions
    OBVIOUS
  <2>1. PICK t : t = text[f][b]
    OBVIOUS
  <2>2. Complete(f, b, t, s) /\ Neat(code, f, Functions[f])
    BY <2>s, <2>1, BlockInTheEnd
  <2>3. /\ b \in DOMAIN Functions[f] /\ t \in Seq(Seq(Items))
        /\ \A n \in 1..Len(t) : InOrder(t[n])
        /\ \A n \in 1..Len(t) : \A m \in 1..Len(t[n]) : t[n][m].code >= 0 => t[n][m].code \in Range(s)
        /\ \A i \in Range(s) : Emits(t, i)
    BY <2>2 DEF Complete
  <2>4. /\ b \in Nat /\ Len(s) \in Nat /\ \A k \in 1..Len(s) : s[k] = b + k - 1
        /\ \A i \in Range(s) : i \in Nat
    BY <2>s, <2>2, <2>3, NeatParts
  <2>5. Range(s) = UNION {CodesOf(t[n]) : n \in 1..Len(t)}
    <3>1. ASSUME NEW i \in Range(s)
          PROVE  \E n \in 1..Len(t) : \E d \in Range(t[n]) : d.code >= 0 /\ i = d.code
      <4>n. PICK n \in 1..Len(t) : \E m \in 1..Len(t[n]) : t[n][m].code = i
        BY <2>3 DEF Emits
      <4>1. PICK m \in 1..Len(t[n]) : t[n][m].code = i
        BY <4>n
      <4>2. t[n][m] \in Range(t[n])
        BY DEF Range
      <4>3. i >= 0
        BY <2>4
      <4> QED
        BY <4>1, <4>2, <4>3
    <3>2. ASSUME NEW n \in 1..Len(t), NEW d \in Range(t[n]), d.code >= 0
          PROVE  d.code \in Range(s)
      <4>1. PICK m \in 1..Len(t[n]) : d = t[n][m]
        BY DEF Range
      <4> QED
        BY <4>1, <3>2, <2>3
    <3> QED
      BY <3>1, <3>2 DEF CodesOf
  <2>6. ASSUME NEW n \in 1..Len(t), NEW k \in 1..Len(t[n]), NEW l \in 1..Len(t[n]), k < l,
               t[n][k].code >= 0, t[n][l].code >= 0
        PROVE  Place(s, t[n][k].code) <= Place(s, t[n][l].code)
    <3>1. t[n][k].code \in Range(s) /\ t[n][l].code \in Range(s) /\ t[n][k].code <= t[n][l].code
      BY <2>3, <2>6 DEF InOrder
    <3>2. ASSUME NEW i \in Range(s), NEW x, x = Place(s, i)
          PROVE  x \in 1..Len(s) /\ i = b + x - 1
      <4>1. \E m \in 1..Len(s) : s[m] = i
        BY DEF Range
      <4>2. x \in 1..Len(s) /\ s[x] = i
        BY <4>1, <3>2 DEF Place
      <4> QED
        BY <4>2, <2>4
    <3>3. PICK x : x = Place(s, t[n][k].code)
      OBVIOUS
    <3>4. PICK y : y = Place(s, t[n][l].code)
      OBVIOUS
    <3>5. /\ x \in 1..Len(s) /\ t[n][k].code = b + x - 1
          /\ y \in 1..Len(s) /\ t[n][l].code = b + y - 1
      BY <3>1, <3>2, <3>3, <3>4
    <3>6. x <= y
      BY ONLY <3>1, <3>5, <2>4
    <3> QED
      BY <3>3, <3>4, <3>6
  <2>7. BlockInPlace(s, t)
    BY ONLY <2>5, <2>6 DEF BlockInPlace
  <2> QED
    BY <2>s, <2>1, <2>7
<1> QED
  BY <1>1, TextsInvariant, PTL

(* The finished code takes an exception at the beginning of the handlers of the
   function's PUSHTRAPs, and nowhere else. *)
THEOREM HandlersTakeTheirException == CSpec => [](NoDeadCode => HandlersEntered)
<1>1. Generated => (NoDeadCode => HandlersEntered)
  <2> SUFFICES ASSUME Generated, NoDeadCode, phase = "compiled", NEW f \in made,
                      NEW b \in DOMAIN text[f], NEW t, t = text[f][b]
               PROVE  /\ (\E i \in Body(f) : isPushTrap(i) /\ Dest(i) = b)
                           <=> (t[1] # <<>> /\ t[1][1] = HandlerEntry)
                      /\ \A n \in 1..Len(t) : \A k \in 1..Len(t[n]) :
                           t[n][k] = HandlerEntry => n = 1 /\ k = 1
    BY DEF HandlersEntered
  <2>1. Complete(f, b, t, Functions[f][b].Instructions) /\ Neat(code, f, Functions[f])
    BY BlockInTheEnd
  <2>2. PICK h : h = Handled(code, Functions[f], Len(code), b)
    OBVIOUS
  <2>3. Entered(t, Handled(code, Functions[f], Len(code), b))
    BY <2>1 DEF Complete
  <2>4. /\ \A n \in 1..Len(t) : \A m \in 1..Len(t[n]) : t[n][m] = HandlerEntry => n = 1 /\ m = 1
        /\ Handled(code, Functions[f], Len(code), b) <=> (t[1] # <<>> /\ t[1][1] = HandlerEntry)
    BY ONLY <2>3 DEF Entered, StartsWithEntry
  <2>5. ASSUME NEW i \in Body(f), isPushTrap(i), Dest(i) = b
        PROVE  Handled(code, Functions[f], Len(code), b)
    <3>1. PICK a \in DOMAIN Functions[f] : i \in Range(Functions[f][a].Instructions)
      BY DEF Body
    <3>2. i < Len(code)
      BY <2>1, <3>1, NeatParts
    <3> QED
      BY <3>1, <3>2, <2>5 DEF Handled, isPushTrap, Dest, Dests, Op
  <2>6. ASSUME Handled(code, Functions[f], Len(code), b)
        PROVE  \E i \in Body(f) : isPushTrap(i) /\ Dest(i) = b
    <3>a. PICK a \in DOMAIN Functions[f] : \E i \in Range(Functions[f][a].Instructions) :
            code[i + 1].op = "PUSHTRAP" /\ code[i + 1].dests[1] = b
      BY <2>6 DEF Handled
    <3>1. PICK i \in Range(Functions[f][a].Instructions) :
            code[i + 1].op = "PUSHTRAP" /\ code[i + 1].dests[1] = b
      BY <3>a
    <3>2. i \in Body(f)
      BY DEF Body
    <3> QED
      BY <3>1, <3>2 DEF isPushTrap, Dest, Dests, Op
  <2> QED
    BY <2>4, <2>5, <2>6
<1> QED
  BY <1>1, TextsInvariant, PTL

Finite == INSTANCE FiniteSetTheorems

-----------------------------------------------------------------------------
(* The compiler ends.  Work says what is left to do, the most important thing
   first; every step takes something off, and nothing can be taken off for ever. *)

Size(S) == Finite!Cardinality(S)

Downward == LexProductOrdering(OpToRel(<, Nat), Nat, 6)

(* The passes: which one, over the whole program or over the main code; how much
   of the program is ahead; and what is left of the function at hand *)
Era   == IF pc = "annotateNodes" THEN 3 ELSE IF FirstPass THEN 2 ELSE 1
Ahead == IF pc = "annotateNodes" THEN Len(code) - at ELSE Len(Queue)
Stage ==
  CASE pc = "removeDeadInstructions" -> 6
    [] pc = "makeBlocks"             -> 5
    [] pc = "generateFunction"       -> 4
    [] pc = "removeUnusedBlocks"     -> 3
    [] pc = "generate"               -> 2
    [] pc = "initFunction"           -> 1
    [] OTHER                         -> 0
Left ==
  IF pc = "generateFunction" THEN Len(FuncInsts)
  ELSE IF pc = "removeUnusedBlocks" THEN Size(DOMAIN Blocks) ELSE 0

(* The generator: the functions without code, the calls of CodeGen, and what is
   left to do in the innermost call r *)
BlocksAhead(r)   == Len(code) - r.block
InstsAhead(r)    == Len(InstsOf(Functions, r)) + 1 - r.k
ClosuresAhead(r) ==
  LET s == InstsOf(Functions, r)
  IN IF AtClosure(code, s, r.k) THEN Len(code[s[r.k] + 1].dests) - r.j ELSE 0

Unmade == Size(DOMAIN Functions \ made)

PassWork == <<Era, Ahead, Stage, Left, 0, 0>>
EmitWork ==
  IF active = <<>> THEN <<0, Unmade, 0, 0, 0, 0>>
  ELSE <<0, Unmade, Len(active), BlocksAhead(Top), InstsAhead(Top), ClosuresAhead(Top)>>

Work   == IF phase = "create" THEN PassWork ELSE EmitWork
Lowers == <<Work', Work>> \in Downward

LEMMA SizeTypes ==
  ASSUME NEW S, S \subseteq Indices, code \in Programs
  PROVE  /\ Size(S) \in Nat
         /\ \A T : T \subseteq S /\ T # S => Size(T) < Size(S)
<1>1. Len(code) \in Nat
  BY CodeTypes
<1>2. Finite!IsFiniteSet(0 .. Len(code) - 1)
  BY <1>1, Finite!FS_Interval
<1>3. Finite!IsFiniteSet(S)
  BY <1>2, Finite!FS_Subset DEF Indices
<1>4. Size(S) \in Nat
  BY <1>3, Finite!FS_CardinalityType DEF Size
<1>5. ASSUME NEW T, T \subseteq S, T # S
      PROVE  Size(T) < Size(S)
  <2>1. Finite!IsFiniteSet(T) /\ Size(T) <= Size(S) /\ Size(S) # Size(T)
    BY <1>3, <1>5, Finite!FS_Subset DEF Size
  <2>2. Size(T) \in Nat
    BY <2>1, Finite!FS_CardinalityType DEF Size
  <2> QED
    BY <1>4, <2>1, <2>2
<1> QED
  BY <1>4, <1>5

LEMMA Downhill ==
  ASSUME NEW a1 \in Nat, NEW a2 \in Nat, NEW a3 \in Nat, NEW a4 \in Nat, NEW a5 \in Nat, NEW a6 \in Nat,
         NEW b1 \in Nat, NEW b2 \in Nat, NEW b3 \in Nat, NEW b4 \in Nat, NEW b5 \in Nat, NEW b6 \in Nat,
         \/ b1 < a1
         \/ b1 = a1 /\ \/ b2 < a2
                       \/ b2 = a2 /\ \/ b3 < a3
                                     \/ b3 = a3 /\ \/ b4 < a4
                                                   \/ b4 = a4 /\ \/ b5 < a5
                                                                 \/ b5 = a5 /\ b6 < a6
  PROVE  << <<b1, b2, b3, b4, b5, b6>>, <<a1, a2, a3, a4, a5, a6>> >> \in Downward
<1>1. PICK a, b : a = <<a1, a2, a3, a4, a5, a6>> /\ b = <<b1, b2, b3, b4, b5, b6>>
  OBVIOUS
<1>2. a \in [1..6 -> Nat] /\ b \in [1..6 -> Nat]
  BY <1>1
<1>3. /\ a[1] = a1 /\ a[2] = a2 /\ a[3] = a3 /\ a[4] = a4 /\ a[5] = a5 /\ a[6] = a6
      /\ b[1] = b1 /\ b[2] = b2 /\ b[3] = b3 /\ b[4] = b4 /\ b[5] = b5 /\ b[6] = b6
  BY <1>1
<1>4. \E j \in 1..6 : /\ \A i \in 1 .. (j - 1) : b[i] = a[i]
                      /\ b[j] < a[j]
  <2>1. CASE b1 < a1
    <3>1. \A i \in 1 .. (1 - 1) : FALSE
      OBVIOUS
    <3> QED
      BY <2>1, <3>1, <1>3
  <2>2. CASE b1 = a1 /\ b2 < a2
    <3>1. \A i \in 1 .. (2 - 1) : i = 1
      OBVIOUS
    <3>2. b[2] < a[2] /\ \A i \in 1 .. (2 - 1) : b[i] = a[i]
      BY <2>2, <3>1, <1>3
    <3> QED
      BY <3>2
  <2>3. CASE b1 = a1 /\ b2 = a2 /\ b3 < a3
    <3>1. \A i \in 1 .. (3 - 1) : i = 1 \/ i = 2
      OBVIOUS
    <3>2. b[3] < a[3] /\ \A i \in 1 .. (3 - 1) : b[i] = a[i]
      BY <2>3, <3>1, <1>3
    <3> QED
      BY <3>2
  <2>4. CASE b1 = a1 /\ b2 = a2 /\ b3 = a3 /\ b4 < a4
    <3>1. \A i \in 1 .. (4 - 1) : i = 1 \/ i = 2 \/ i = 3
      OBVIOUS
    <3>2. b[4] < a[4] /\ \A i \in 1 .. (4 - 1) : b[i] = a[i]
      BY <2>4, <3>1, <1>3
    <3> QED
      BY <3>2
  <2>5. CASE b1 = a1 /\ b2 = a2 /\ b3 = a3 /\ b4 = a4 /\ b5 < a5
    <3>1. \A i \in 1 .. (5 - 1) : i = 1 \/ i = 2 \/ i = 3 \/ i = 4
      OBVIOUS
    <3>2. b[5] < a[5] /\ \A i \in 1 .. (5 - 1) : b[i] = a[i]
      BY <2>5, <3>1, <1>3
    <3> QED
      BY <3>2
  <2>6. CASE b1 = a1 /\ b2 = a2 /\ b3 = a3 /\ b4 = a4 /\ b5 = a5 /\ b6 < a6
    <3>1. \A i \in 1 .. (6 - 1) : i = 1 \/ i = 2 \/ i = 3 \/ i = 4 \/ i = 5
      OBVIOUS
    <3>2. b[6] < a[6] /\ \A i \in 1 .. (6 - 1) : b[i] = a[i]
      BY <2>6, <3>1, <1>3
    <3> QED
      BY <3>2
  <2> QED
    BY <2>1, <2>2, <2>3, <2>4, <2>5, <2>6
<1>5. PICK j \in 1..6 : (\A i \in 1 .. (j - 1) : b[i] = a[i]) /\ b[j] < a[j]
  BY <1>4
<1>6. <<b[j], a[j]>> \in OpToRel(<, Nat)
  BY <1>2, <1>5 DEF OpToRel
<1>7. <<b, a>> \in Downward
  BY <1>2, <1>5, <1>6 DEF Downward, LexProductOrdering
<1> QED
  BY <1>1, <1>7

(* Work cannot get less for ever. *)
LEMMA DownwardEnds == IsWellFoundedOn(Downward, [1..6 -> Nat])
  BY NatLessThanWellFounded, WFLexProductOrdering DEF Downward

LEMMA NotMain ==
  ASSUME code \in Programs
  PROVE  MAIN \notin Starts(code)
<1> SUFFICES ASSUME NEW i \in 0 .. Len(code) - 1, MAIN \in Closed(code, i)
             PROVE  FALSE
  BY DEF Starts
<1>1. WellFormed(code) /\ Len(code) \in Nat
  BY CodeTypes
<1>2. i + 1 \in 1..Len(code)
  BY <1>1
<1>3. PICK j \in 1..Len(code[i + 1].dests) : code[i + 1].dests[j] = 0
  BY DEF Closed, Range, MAIN
<1> QED
  BY <1>1, <1>2, <1>3 DEF WellFormed

LEMMA PassTypes ==
  ASSUME GInv
  PROVE  Era \in Nat /\ Ahead \in Nat /\ Stage \in Nat /\ Left \in Nat
<1>1. Types
  BY DEF GInv
<1>2. Era \in Nat /\ Stage \in Nat
  BY DEF Era, Stage
<1>3. Len(code) \in Nat /\ Len(Queue) \in Nat /\ Len(FuncInsts) \in Nat /\ at \in 0..Len(code)
  BY <1>1, CodeTypes DEF Types
<1>4. Ahead \in Nat
  BY <1>3 DEF Ahead
<1>5. Size(DOMAIN Blocks) \in Nat
  BY <1>1, SizeTypes DEF Types, IsGraph
<1>6. Left \in Nat
  BY <1>3, <1>5 DEF Left
<1> QED
  BY <1>2, <1>4, <1>6

\* The same of the state after a step
PassTypesOK == Era \in Nat /\ Ahead \in Nat /\ Stage \in Nat /\ Left \in Nat

LEMMA PassTypesNow == GInv => PassTypesOK
  BY PassTypes DEF PassTypesOK

LEMMA PassTypesNext == GInv' => PassTypesOK'
  BY PassTypesNow, PTL

\* Every step of the passes
LEMMA PassStep ==
  ASSUME GInv, Next
  PROVE  \/ Era' < Era
         \/ Era' = Era /\ \/ Ahead' < Ahead
                          \/ Ahead' = Ahead /\ \/ Stage' < Stage
                                               \/ Stage' = Stage /\ Left' < Left
<1>1. Types /\ Len(code) \in Nat /\ code' = code
  BY CodeTypes DEF GInv, Types, Next, Annotate, StartFunction, LeaveToMain, StartMain, TakeInst, Sift,
                   Sifted, MakeBlocks, Fill, NullBlock, Filled, Prune
<1>2. ASSUME NEW s \in Seq(Indices), s # <<>>
      PROVE  Len(Tail(s)) < Len(s)
  BY <1>2
<1>3. CASE Annotate
  <2>1. at \in Nat /\ pc = "annotateNodes" /\ at' = at + 1
    BY <1>3, <1>1 DEF Annotate, Types
  <2>2. CASE pc' = "annotateNodes"
    BY <2>1, <2>2, <1>1 DEF Era, Ahead
  <2>3. CASE pc' = "generate"
    BY <2>1, <2>3 DEF Era
  <2> QED
    BY <2>1, <2>2, <2>3, <1>3 DEF Annotate
<1>4. CASE StartFunction
  <2>1. pc = "generate" /\ pc' = "initFunction" /\ Queue' = Queue
    BY <1>4 DEF StartFunction
  <2> QED
    BY <2>1 DEF Era, FirstPass, Ahead, Stage
<1>5. CASE LeaveToMain
  <2>1. pc = "generate" /\ pc' = "generate" /\ Len(Queue') < Len(Queue)
    BY <1>5, <1>1, <1>2 DEF LeaveToMain, Types
  <2> QED
    BY <2>1 DEF Era, FirstPass, Ahead
<1>6. CASE StartMain
  BY <1>6 DEF StartMain, Era, FirstPass
<1>7. CASE TakeInst
  <2>1. /\ pc = "initFunction" /\ pc' \in {"initFunction", "makeBlocks"} /\ Fn' = Fn
        /\ Len(Queue') < Len(Queue)
    BY <1>7, <1>1, <1>2 DEF TakeInst, Types
  <2>2. Fn # MAIN
    BY <2>1, <1>1, NotMain DEF GInv, Phases, Types
  <2> QED
    BY <2>1, <2>2 DEF Era, FirstPass, Ahead
<1>8. CASE Sift
  <2>1. /\ pc = "removeDeadInstructions" /\ pc' = pc /\ Fn' = Fn /\ Len(Queue') < Len(Queue)
    BY <1>8, <1>1, <1>2 DEF Sift, Types
  <2> QED
    BY <2>1 DEF Era, FirstPass, Ahead
<1>9. CASE Sifted
  <2>1. /\ pc = "removeDeadInstructions" /\ pc' = "makeBlocks" /\ Fn' = Fn /\ Queue' = Queue
    BY <1>9 DEF Sifted, scan
  <2> QED
    BY <2>1 DEF Era, FirstPass, Ahead, Stage
<1>10. CASE MakeBlocks
  <2>1. /\ pc = "makeBlocks" /\ pc' = "generateFunction" /\ Fn' = Fn /\ Queue' = Queue
    BY <1>10 DEF MakeBlocks, scan
  <2> QED
    BY <2>1 DEF Era, FirstPass, Ahead, Stage
<1>11. CASE Fill
  <2>1. /\ pc = "generateFunction" /\ pc' = pc /\ Fn' = Fn /\ Queue' = Queue
        /\ Len(FuncInsts') < Len(FuncInsts)
    BY <1>11, <1>1, <1>2 DEF Fill, Types
  <2> QED
    BY <2>1 DEF Era, FirstPass, Ahead, Stage, Left
<1>12. CASE NullBlock
  <2>1. /\ pc = "generateFunction" /\ pc' = "crash" /\ Fn' = Fn /\ Queue' = Queue
    BY <1>12 DEF NullBlock, scan
  <2> QED
    BY <2>1 DEF Era, FirstPass, Ahead, Stage
<1>13. CASE Filled
  <2>1. /\ pc = "generateFunction" /\ pc' = "removeUnusedBlocks" /\ Fn' = Fn /\ Queue' = Queue
    BY <1>13 DEF Filled, scan
  <2> QED
    BY <2>1 DEF Era, FirstPass, Ahead, Stage
<1>14. CASE Prune
  <2>1. /\ pc = "removeUnusedBlocks" /\ Fn' = Fn /\ Queue' = Queue
        /\ Blocks' = Without(Blocks, Unused(Blocks))
    BY <1>14 DEF Prune, scan
  <2>2. CASE Restarts(Blocks, Unused(Blocks))
    <3>1. pc' = pc
      BY <1>14, <2>2 DEF Prune
    <3>2. Unused(Blocks) # {} /\ Unused(Blocks) \subseteq DOMAIN Blocks
      BY <2>2 DEF Restarts, Unused
    <3>3. DOMAIN Blocks' = DOMAIN Blocks \ Unused(Blocks)
      BY <2>1 DEF Without
    <3>4. Size(DOMAIN Blocks') < Size(DOMAIN Blocks)
      BY <3>2, <3>3, <1>1, SizeTypes DEF Types, IsGraph
    <3> QED
      BY <2>1, <3>1, <3>4 DEF Era, FirstPass, Ahead, Stage, Left
  <2>3. CASE ~Restarts(Blocks, Unused(Blocks))
    <3>1. pc' = IF Fn = MAIN THEN "done" ELSE "generate"
      BY <1>14, <2>3 DEF Prune
    <3> QED
      BY <2>1, <3>1 DEF Era, FirstPass, Ahead, Stage
  <2> QED
    BY <2>2, <2>3
<1> QED
  BY <1>3, <1>4, <1>5, <1>6, <1>7, <1>8, <1>9, <1>10, <1>11, <1>12, <1>13, <1>14 DEF Next

-----------------------------------------------------------------------------
(* The generator *)

LEMMA UnmadeTypes ==
  ASSUME GInv
  PROVE  Unmade \in Nat
<1>1. code \in Programs /\ DOMAIN Functions \ made \subseteq Indices
  BY DEF GInv, Types
<1> QED
  BY <1>1, SizeTypes DEF Unmade

\* What is left in a call that is open
LEMMA CallTypes ==
  ASSUME GInv, Frames, phase = "emit"
  PROVE  /\ BlocksAhead(Top) \in Nat /\ InstsAhead(Top) \in Nat /\ ClosuresAhead(Top) \in Nat
         /\ Len(active) \in Nat /\ Len(active) > 0 /\ active # <<>>
         /\ EmitWork = <<0, Unmade, Len(active), BlocksAhead(Top), InstsAhead(Top), ClosuresAhead(Top)>>
<1>1. /\ active # <<>> /\ Len(active) \in Nat /\ Len(active) > 0 /\ FrameOK(code, Functions, made, Top)
      /\ f_ \in DOMAIN Functions /\ b_ \in DOMAIN Functions[f_] /\ b_ = Top.block /\ f_ = Top.fn
      /\ Insts = InstsOf(Functions, Top) /\ Insts \in Seq(Indices) /\ Len(Insts) \in Nat
      /\ Top.k \in Nat /\ Top.j \in Nat /\ Top.k <= Len(Insts) + 1
  BY FrameTop
<1>2. code \in Programs /\ Len(code) \in Nat /\ b_ \in Indices
  BY <1>1, CodeTypes DEF GInv, Types, IsGraph
<1>3. BlocksAhead(Top) \in Nat
  BY <1>1, <1>2 DEF BlocksAhead, Indices
<1>4. InstsAhead(Top) \in Nat
  BY <1>1 DEF InstsAhead
<1>5. ASSUME AtClosure(code, Insts, Top.k)
      PROVE  Len(code[Insts[Top.k] + 1].dests) - Top.j \in Nat
  <2>1. Top.j < Len(code[Insts[Top.k] + 1].dests)
    BY <1>1, <1>5 DEF FrameOK
  <2>2. Insts[Top.k] \in Indices
    BY <1>1, <1>5 DEF AtClosure
  <2>3. Len(code[Insts[Top.k] + 1].dests) \in Nat
    BY <2>2, <1>2, CodeTypes DEF Dests
  <2> QED
    BY ONLY <2>1, <2>3, <1>1
<1>6. ClosuresAhead(Top) \in Nat
  <2>1. ClosuresAhead(Top) = IF AtClosure(code, Insts, Top.k) THEN Len(code[Insts[Top.k] + 1].dests) - Top.j ELSE 0
    BY <1>1 DEF ClosuresAhead
  <2> QED
    BY <2>1, <1>5
<1> QED
  BY <1>1, <1>3, <1>4, <1>6 DEF EmitWork

\* What is left, and in what order it counts
EmitTypes ==
  phase = "emit" =>
    /\ BlocksAhead(Top) \in Nat /\ InstsAhead(Top) \in Nat /\ ClosuresAhead(Top) \in Nat
    /\ Len(active) \in Nat /\ Len(active) > 0 /\ Unmade \in Nat
    /\ Work = <<0, Unmade, Len(active), BlocksAhead(Top), InstsAhead(Top), ClosuresAhead(Top)>>

LEMMA EmitTypesNow == GInv /\ Frames => EmitTypes
  BY CallTypes, UnmadeTypes DEF EmitTypes, Work

LEMMA EmitTypesNext == GInv' /\ Frames' => EmitTypes'
  BY EmitTypesNow, PTL

LEMMA StepDown ==
  ASSUME EmitTypes, EmitTypes', phase = "emit", phase' = "emit",
         \/ Unmade' < Unmade
         \/ Unmade' = Unmade /\
              \/ Len(active') < Len(active)
              \/ Len(active') = Len(active) /\
                   \/ BlocksAhead(Top)' < BlocksAhead(Top)
                   \/ BlocksAhead(Top)' = BlocksAhead(Top) /\
                        \/ InstsAhead(Top)' < InstsAhead(Top)
                        \/ InstsAhead(Top)' = InstsAhead(Top) /\ ClosuresAhead(Top)' < ClosuresAhead(Top)
  PROVE  Lowers
<1>1. PICK a1, a2, a3, a4, a5 : /\ a1 = Unmade /\ a2 = Len(active) /\ a3 = BlocksAhead(Top)
                                /\ a4 = InstsAhead(Top) /\ a5 = ClosuresAhead(Top)
  OBVIOUS
<1>2. PICK b1, b2, b3, b4, b5 : /\ b1 = Unmade' /\ b2 = Len(active') /\ b3 = BlocksAhead(Top)'
                                /\ b4 = InstsAhead(Top)' /\ b5 = ClosuresAhead(Top)'
  OBVIOUS
<1>3. /\ a1 \in Nat /\ a2 \in Nat /\ a3 \in Nat /\ a4 \in Nat /\ a5 \in Nat
      /\ Work = <<0, a1, a2, a3, a4, a5>>
  BY <1>1 DEF EmitTypes
<1>4. /\ b1 \in Nat /\ b2 \in Nat /\ b3 \in Nat /\ b4 \in Nat /\ b5 \in Nat
      /\ Work' = <<0, b1, b2, b3, b4, b5>>
  BY <1>2 DEF EmitTypes
<1>5. \/ b1 < a1
      \/ b1 = a1 /\ \/ b2 < a2
                    \/ b2 = a2 /\ \/ b3 < a3
                                  \/ b3 = a3 /\ \/ b4 < a4
                                                \/ b4 = a4 /\ b5 < a5
  BY <1>1, <1>2
<1>6. << <<0, b1, b2, b3, b4, b5>>, <<0, a1, a2, a3, a4, a5>> >> \in Downward
  <2>1. 0 \in Nat
    OBVIOUS
  <2> QED
    BY ONLY <2>1, <1>3, <1>4, <1>5, Downhill
<1> QED
  BY <1>3, <1>4, <1>6 DEF Lowers

\* The innermost call goes on, in its block or to the next.
LEMMA TopMoves ==
  ASSUME GInv, Frames, EmitTypes, EmitTypes', phase = "emit", phase' = "emit",
         UNCHANGED <<code, Functions, made>>, NEW r \in Frame, active' = WithTop(r), r.fn = f_,
         \/ r.block > Top.block
         \/ r.block = Top.block /\ r.k > Top.k
         \/ r.block = Top.block /\ r.k = Top.k /\ r.j > Top.j /\ AtClosure(code, Insts, Top.k)
  PROVE  Lowers
<1>1. /\ active \in Seq(Frame) /\ active # <<>> /\ Top = active[Len(active)] /\ Top \in Frame
      /\ f_ = Top.fn /\ f_ \in DOMAIN Functions /\ b_ = Top.block /\ b_ \in DOMAIN Functions[f_]
      /\ Insts = InstsOf(Functions, Top) /\ Len(Insts) \in Nat
      /\ Top.block \in Nat /\ Top.k \in Nat /\ Top.j \in Nat
  BY FrameTop
<1>2. Len(active') = Len(active) /\ active'[Len(active)] = r
  BY <1>1, ReplaceLast DEF WithTop
<1>3. Top' = r
  BY <1>2 DEF Top, Last
<1>4. r.block \in Nat /\ r.k \in Nat /\ r.j \in Nat
  BY FrameFields
<1>5. Unmade' = Unmade
  BY DEF Unmade
<1>6. Len(code) \in Nat
  BY CodeTypes DEF GInv, Types
<1>7. BlocksAhead(Top) = Len(code) - Top.block /\ BlocksAhead(Top)' = Len(code) - r.block
  BY <1>3 DEF BlocksAhead
<1>8. CASE r.block > Top.block
  <2>1. BlocksAhead(Top)' < BlocksAhead(Top)
    BY ONLY <1>1, <1>4, <1>6, <1>7, <1>8
  <2> QED
    BY <2>1, <1>2, <1>5, StepDown
<1>9. CASE r.block = Top.block
  <2>1. InstsOf(Functions, r) = Insts
    BY <1>1, <1>9 DEF InstsOf
  <2>2. InstsAhead(Top) = Len(Insts) + 1 - Top.k /\ InstsAhead(Top)' = Len(Insts) + 1 - r.k
    BY <2>1, <1>1, <1>3 DEF InstsAhead
  <2>3. BlocksAhead(Top)' = BlocksAhead(Top)
    BY <1>7, <1>9
  <2>4. CASE r.k > Top.k
    <3>1. InstsAhead(Top)' < InstsAhead(Top)
      BY ONLY <2>2, <2>4, <1>1, <1>4
    <3> QED
      BY <3>1, <2>3, <1>2, <1>5, StepDown
  <2>5. CASE r.k = Top.k /\ r.j > Top.j /\ AtClosure(code, Insts, Top.k)
    <3>1. /\ ClosuresAhead(Top) = Len(code[Insts[Top.k] + 1].dests) - Top.j
          /\ ClosuresAhead(Top)' = Len(code[Insts[Top.k] + 1].dests) - r.j
      BY <2>1, <2>5, <1>1, <1>3 DEF ClosuresAhead
    <3>2. Len(code[Insts[Top.k] + 1].dests) \in Nat
      <4>1. Insts[Top.k] \in Indices
        BY <2>5, FrameTop DEF AtClosure
      <4> QED
        BY <4>1, CodeTypes DEF Dests, GInv, Types
    <3>3. ClosuresAhead(Top)' < ClosuresAhead(Top)
      <4>1. PICK n, old, new : /\ n = Len(code[Insts[Top.k] + 1].dests)
                               /\ old = Top.j /\ new = r.j
        OBVIOUS
      <4>2. n \in Nat /\ old \in Nat /\ new \in Nat /\ new > old
        BY <4>1, <3>2, <2>5, <1>1, <1>4
      <4>3. n - new < n - old
        BY ONLY <4>2
      <4> QED
        BY ONLY <4>1, <4>3, <3>1, Zenon
    <3>4. InstsAhead(Top)' = InstsAhead(Top)
      BY <2>2, <2>5
    <3> QED
      BY <3>3, <3>4, <2>3, <1>2, <1>5, StepDown
  <2> QED
    BY <2>4, <2>5, <1>9, <1>1, <1>4
<1> QED
  BY <1>8, <1>9

\* The three ways it does
LEMMA FramesMoved ==
  ASSUME NEW t \in Frame
  PROVE  /\ t.k \in Nat /\ t.j \in Nat
         /\ \A r : r = [t EXCEPT !.k = 1] =>
              r \in Frame /\ r.fn = t.fn /\ r.block = t.block /\ r.k = 1
         /\ \A r : r = [t EXCEPT !.k = @ + 1, !.j = 0] =>
              r \in Frame /\ r.fn = t.fn /\ r.block = t.block /\ r.k = t.k + 1
         /\ \A r : r = [t EXCEPT !.j = @ + 1] =>
              r \in Frame /\ r.fn = t.fn /\ r.block = t.block /\ r.k = t.k /\ r.j = t.j + 1
<1>1. t.fn \in Nat /\ t.block \in Nat /\ t.k \in Nat /\ t.j \in Nat
  BY FrameFields
<1>2. t.k + 1 \in Nat /\ t.j + 1 \in Nat /\ 1 \in Nat /\ 0 \in Nat
  BY ONLY <1>1
<1>3. ASSUME NEW r, r = [t EXCEPT !.k = 1]
      PROVE  r \in Frame /\ r.fn = t.fn /\ r.block = t.block /\ r.k = 1
  <2>1. r = Moved(t, 1, t.j)
    BY <1>3, FrameFields
  <2> QED
    BY ONLY <2>1, <1>1, <1>2 DEF Moved, Frame
<1>4. ASSUME NEW r, r = [t EXCEPT !.k = @ + 1, !.j = 0]
      PROVE  r \in Frame /\ r.fn = t.fn /\ r.block = t.block /\ r.k = t.k + 1
  <2>1. r = Moved(t, t.k + 1, 0)
    BY <1>4, FrameFields, Zenon
  <2> QED
    BY ONLY <2>1, <1>1, <1>2 DEF Moved, Frame
<1>5. ASSUME NEW r, r = [t EXCEPT !.j = @ + 1]
      PROVE  r \in Frame /\ r.fn = t.fn /\ r.block = t.block /\ r.k = t.k /\ r.j = t.j + 1
  <2>1. r = Moved(t, t.k, t.j + 1)
    BY <1>5, FrameFields, Zenon
  <2> QED
    BY ONLY <2>1, <1>1, <1>2 DEF Moved, Frame
<1> QED
  BY <1>1, <1>3, <1>4, <1>5, Zenon

LEMMA EmitStep ==
  ASSUME GInv, Frames, EmitTypes, EmitTypes', phase = "emit", phase' = "emit",
         BeginBlock \/ EmitPlain \/ EmitGrab \/ EmitPushTrap \/ EmitReturn \/ EmitEnd \/ EmitJump
           \/ GenerateFunction \/ EmitClosure \/ EndBlock
  PROVE  Lowers
<1>1. /\ active \in Seq(Frame) /\ active # <<>> /\ Len(active) \in Nat /\ Len(active) > 0
      /\ Top \in Frame /\ f_ = Top.fn /\ f_ \in DOMAIN Functions /\ b_ = Top.block
      /\ b_ \in Nat /\ f_ \in Nat /\ Insts = InstsOf(Functions, Top)
      /\ Top.k \in Nat /\ Top.j \in Nat
  BY FrameTop
<1>2. UNCHANGED <<code, Functions>>
  BY DEF BeginBlock, EmitPlain, EmitGrab, EmitPushTrap, EmitReturn, EmitEnd, EmitJump,
         GenerateFunction, EmitClosure, EndBlock, vars
<1>3. ASSUME UNCHANGED made, active' = Advanced
      PROVE  Lowers
  <2>1. PICK r : r = [Top EXCEPT !.k = @ + 1, !.j = 0]
    OBVIOUS
  <2>2. PICK t \in Frame : t = Top
    BY <1>1
  <2>3. r \in Frame /\ r.fn = f_ /\ r.block = Top.block /\ r.k = Top.k + 1
    BY ONLY <1>1, <2>1, <2>2, FramesMoved, Zenon
  <2>4. r.k > Top.k
    BY ONLY <1>1, <2>3
  <2> QED
    BY <1>2, <1>3, <2>1, <2>3, <2>4, TopMoves DEF Advanced
<1>4. CASE EmitPlain \/ EmitGrab \/ EmitPushTrap \/ EmitReturn \/ EmitEnd \/ EmitJump
  <2>1. UNCHANGED made /\ active' = Advanced
    BY <1>4 DEF EmitPlain, EmitGrab, EmitPushTrap, EmitReturn, EmitEnd, EmitJump
  <2> QED
    BY <2>1, <1>3
<1>5. CASE BeginBlock
  <2>1. PICK r : r = [Top EXCEPT !.k = 1]
    OBVIOUS
  <2>2. UNCHANGED made /\ active' = WithTop(r) /\ Top.k = 0
    BY <1>5, <2>1 DEF BeginBlock
  <2>3. PICK t \in Frame : t = Top
    BY <1>1
  <2>4. r \in Frame /\ r.fn = f_ /\ r.block = Top.block /\ r.k = 1
    BY ONLY <1>1, <2>1, <2>3, FramesMoved, Zenon
  <2> QED
    BY <1>2, <2>2, <2>4, TopMoves
<1>6. CASE GenerateFunction
  <2>1. made' = made \cup {Wanted} /\ Wanted \notin made /\ Wanted \in DOMAIN Functions
    BY <1>6 DEF GenerateFunction
  <2>2. /\ DOMAIN Functions \ made' \subseteq DOMAIN Functions \ made
        /\ DOMAIN Functions \ made' # DOMAIN Functions \ made
    BY <2>1
  <2>3. DOMAIN Functions \ made \subseteq Indices /\ code \in Programs
    BY DEF GInv, Types
  <2>4. Unmade' < Unmade
    BY <2>2, <2>3, <1>2, SizeTypes DEF Unmade
  <2> QED
    BY <2>4, StepDown
<1>7. CASE EmitClosure
  <2>1. /\ Top.k \in 1..Len(Insts) /\ Op(Current) = "CLOSURE" /\ UNCHANGED made
        /\ active' = Advanced \/ active' = WithTop([Top EXCEPT !.j = @ + 1])
    BY <1>7 DEF EmitClosure, At
  <2>2. AtClosure(code, Insts, Top.k)
    BY <2>1 DEF AtClosure, Op, Current
  <2>3. CASE active' = WithTop([Top EXCEPT !.j = @ + 1])
    <3>1. PICK r : r = [Top EXCEPT !.j = @ + 1]
      OBVIOUS
    <3>2. PICK t \in Frame : t = Top
      BY <1>1
    <3>3. r \in Frame /\ r.fn = f_ /\ r.block = Top.block /\ r.k = Top.k /\ r.j = Top.j + 1
      BY ONLY <1>1, <3>1, <3>2, FramesMoved, Zenon
    <3>4. r.j > Top.j
      BY ONLY <1>1, <3>3
    <3> QED
      BY <1>2, <2>1, <2>2, <2>3, <3>1, <3>3, <3>4, TopMoves
  <2> QED
    BY <2>1, <2>3, <1>3
<1>8. CASE EndBlock
  <2>1. UNCHANGED made
    BY <1>8 DEF EndBlock
  <2>2. CASE Above(f_, b_) # {}
    <3>1. PICK g : g = NextBlock(f_, b_)
      OBVIOUS
    <3>2. PICK r : r = [fn |-> f_, block |-> g, k |-> 0, j |-> 0]
      OBVIOUS
    <3>3. active' = WithTop(r)
      BY <1>8, <2>2, <3>1, <3>2 DEF EndBlock
    <3>4. g \in DOMAIN Functions[f_] /\ b_ < g
      BY <1>1, <2>2, <3>1, NextBlockIs
    <3>5. g \in Nat
      BY <1>1, <3>4 DEF GInv, Types, IsGraph, Indices
    <3>6. r \in Frame /\ r.fn = f_ /\ r.block = g
      BY <1>1, <3>2, <3>5, NewFrame
    <3> QED
      BY <1>1, <1>2, <2>1, <3>3, <3>4, <3>5, <3>6, TopMoves
  <2>3. CASE Above(f_, b_) = {}
    <3>1. active' = SubSeq(active, 1, Len(active) - 1)
      BY <1>8, <2>3 DEF EndBlock
    <3>2. Len(active') = Len(active) - 1
      BY <1>1, <3>1, RemoveLast
    <3>3. Unmade' = Unmade
      BY <1>2, <2>1 DEF Unmade
    <3> QED
      BY <1>1, <3>2, <3>3, StepDown
  <2> QED
    BY <2>2, <2>3
<1> QED
  BY <1>4, <1>5, <1>6, <1>7, <1>8

LEMMA WorkLowers ==
  ASSUME GInv, Separate, Frames, GInv', Frames', CNext
  PROVE  Lowers
<1>1. EmitTypes /\ EmitTypes'
  BY EmitTypesNow, EmitTypesNext
<1>2. Era \in Nat /\ Ahead \in Nat /\ Stage \in Nat /\ Left \in Nat
  BY PassTypes
<1>3. CASE Create
  <2>1. Next /\ phase = "create" /\ phase' = "create"
    BY <1>3 DEF Create, emission
  <2>2. Era' \in Nat /\ Ahead' \in Nat /\ Stage' \in Nat /\ Left' \in Nat
    BY PassTypesNext DEF PassTypesOK
  <2>3. PICK a1, a2, a3, a4 : a1 = Era /\ a2 = Ahead /\ a3 = Stage /\ a4 = Left
    OBVIOUS
  <2>4. PICK b1, b2, b3, b4 : b1 = Era' /\ b2 = Ahead' /\ b3 = Stage' /\ b4 = Left'
    OBVIOUS
  <2>5. /\ a1 \in Nat /\ a2 \in Nat /\ a3 \in Nat /\ a4 \in Nat
        /\ b1 \in Nat /\ b2 \in Nat /\ b3 \in Nat /\ b4 \in Nat /\ 0 \in Nat
    BY <1>2, <2>2, <2>3, <2>4
  <2>6. \/ b1 < a1
        \/ b1 = a1 /\ \/ b2 < a2
                      \/ b2 = a2 /\ \/ b3 < a3
                                    \/ b3 = a3 /\ b4 < a4
    BY <2>1, <2>3, <2>4, PassStep
  <2>7. << <<b1, b2, b3, b4, 0, 0>>, <<a1, a2, a3, a4, 0, 0>> >> \in Downward
    BY ONLY <2>5, <2>6, Downhill
  <2>8. Work = <<a1, a2, a3, a4, 0, 0>>
    BY <2>1, <2>3 DEF Work, PassWork
  <2>9. Work' = <<b1, b2, b3, b4, 0, 0>>
    BY <2>1, <2>4 DEF Work, PassWork
  <2> QED
    BY <2>7, <2>8, <2>9 DEF Lowers
<1>4. CASE Compile
  <2>1. phase = "create" /\ phase' = "emit"
    BY <1>4 DEF Compile
  <2>2. PICK b2, b3, b4, b5, b6 : Work' = <<0, b2, b3, b4, b5, b6>> /\ b2 \in Nat /\ b3 \in Nat
                                  /\ b4 \in Nat /\ b5 \in Nat /\ b6 \in Nat
    BY <1>1, <2>1 DEF EmitTypes
  <2>3. PICK a1, a2, a3, a4 : a1 = Era /\ a2 = Ahead /\ a3 = Stage /\ a4 = Left
    OBVIOUS
  <2>4. Work = <<a1, a2, a3, a4, 0, 0>>
    BY <2>1, <2>3 DEF Work, PassWork
  <2>5. 0 < a1
    BY <2>3 DEF Era
  <2>6. a1 \in Nat /\ a2 \in Nat /\ a3 \in Nat /\ a4 \in Nat /\ 0 \in Nat
    BY <1>2, <2>3
  <2>7. << <<0, b2, b3, b4, b5, b6>>, <<a1, a2, a3, a4, 0, 0>> >> \in Downward
    BY ONLY <2>2, <2>5, <2>6, Downhill
  <2> QED
    BY <2>2, <2>4, <2>7 DEF Lowers
<1>5. CASE BeginBlock \/ EmitPlain \/ EmitGrab \/ EmitPushTrap \/ EmitReturn \/ EmitEnd \/ EmitJump
             \/ GenerateFunction \/ EmitClosure \/ EndBlock
  <2>1. phase = "emit"
    BY <1>5 DEF BeginBlock, EmitPlain, EmitGrab, EmitPushTrap, EmitReturn, EmitEnd, EmitJump,
                GenerateFunction, EmitClosure, EndBlock, At
  <2>2. CASE phase' = "emit"
    BY <1>1, <1>5, <2>1, <2>2, EmitStep
  <2>3. CASE phase' # "emit"
    <3>1. EndBlock /\ phase' = "compiled" /\ active' = <<>>
      <4>1. phase' = phase \/ (EndBlock /\ phase' = IF active' = <<>> THEN "compiled" ELSE phase)
        BY <1>5 DEF BeginBlock, EmitPlain, EmitGrab, EmitPushTrap, EmitReturn, EmitEnd, EmitJump,
                    GenerateFunction, EmitClosure, EndBlock
      <4> QED
        BY <4>1, <2>1, <2>3
    <3>2. UNCHANGED <<Functions, made>>
      BY <3>1 DEF EndBlock, vars
    <3>3. Unmade' = Unmade
      BY <3>2 DEF Unmade
    <3>4. Work' = <<0, Unmade, 0, 0, 0, 0>>
      BY <3>1, <3>3 DEF Work, EmitWork
    <3>5. PICK a2, a3, a4, a5, a6 : /\ Work = <<0, a2, a3, a4, a5, a6>> /\ a2 = Unmade /\ 0 < a3
                                    /\ a2 \in Nat /\ a3 \in Nat /\ a4 \in Nat /\ a5 \in Nat /\ a6 \in Nat
      BY <1>1, <2>1 DEF EmitTypes
    <3>6. << <<0, a2, 0, 0, 0, 0>>, <<0, a2, a3, a4, a5, a6>> >> \in Downward
      <4>1. 0 \in Nat
        OBVIOUS
      <4> QED
        BY ONLY <4>1, <3>5, Downhill
    <3> QED
      BY <3>4, <3>5, <3>6 DEF Lowers
  <2> QED
    BY <2>2, <2>3
<1> QED
  BY <1>3, <1>4, <1>5 DEF CNext

(* Every step of GenModuleCreator's passes and of CodeGen's calls lowers what is
   left to do: no pass is run twice over the same instructions, no function is
   generated a second time, no call of CodeGen goes back in its blocks.  As
   Downward is well-founded (DownwardEnds), the compiler takes finitely many. *)
THEOREM WorkShrinks == CSpec => [][Lowers]_allvars
<1>1. GInv /\ Separate /\ Frames /\ GInv' /\ Frames' /\ [CNext]_allvars => [Lowers]_allvars
  BY WorkLowers
<1> QED
  BY <1>1, FramesInvariant, PTL DEF CSpec
=============================================================================

----------------------- MODULE GenModuleCreatorProofs -----------------------
(***************************************************************************)
(* Proofs about GenModuleCreator, for every set of programs that are laid  *)
(* out the way ocamlc does it (ProgramsAssumption).                        *)
(***************************************************************************)
EXTENDS GenModuleCreator, TLAPS

\* What annotateNodes marks as the start of a block
IsLabel(i) == \E j \in Indices : i \in BlockTargets(j)

RunsOn(i)    == Op(i) \notin Leaving
EndsBlock(i) == Op(i) \in Jumps \cup Ends \cup {"SWITCH"}

\* Every function is closed over somewhere, so what follows an instruction that
\* does not run on is a target, or the start of a function.
NoDeadCode ==
  \A i \in Indices \ {0} : Op(i - 1) \in Ends \cup {"SWITCH", "RESTART"} =>
    \/ IsLabel(i) \/ i \in Starts(code)
    \/ Op(i) = "RESTART" /\ i + 1 \in Starts(code)

(* Sequences of instructions *)
Sorted(s) == \A k, l \in 1..Len(s) : k < l => s[k] < s[l]

\* None of them runs on to one that is not in it, the last perhaps excepted.
Unbroken(s) == \A k \in 1 .. Len(s) - 1 : RunsOn(s[k]) => s[k + 1] = s[k] + 1

\* One that is no target comes right after one that ends no block.
Follows(i, j)   == IsLabel(j) \/ (j = i + 1 /\ ~EndsBlock(i))
StraightSeq(s) == \A k \in 1 .. Len(s) - 1 : Follows(s[k], s[k + 1])

NoStarts(s) == \A k \in 1..Len(s) : s[k] \notin Starts(code)

-----------------------------------------------------------------------------
(* The invariant, pass by pass *)

Types ==
  /\ code \in Programs
  /\ Annotation \in [Indices -> {"NOTHING", "FUNCTION_START", "BLOCK_START"}]
  /\ pc \in {"annotateNodes", "generate", "initFunction", "removeDeadInstructions",
             "makeBlocks", "generateFunction", "removeUnusedBlocks", "done", "crash"}
  /\ at \in 0..Len(code)
  /\ Queue \in Seq(Indices) /\ FuncInsts \in Seq(Indices) /\ MainInsts \in Seq(Indices)
  /\ Fn \in Indices
  /\ MaxInstIdx \in Indices /\ MaxBranch \in Indices /\ SmallestCondBranch \in Indices
  /\ IsGraph(Blocks) /\ CBlock \in Indices \cup {NoBlock}
  /\ DOMAIN Functions \subseteq Indices
  /\ \A f \in DOMAIN Functions : IsGraph(Functions[f])

\* The first instruction still in the queue
Pos == Len(code) - Len(Queue)

\* Until the main code is left over, the queue is the rest of the program.
FirstPass == pc \in {"annotateNodes", "generate", "initFunction"} \/ Fn # MAIN

Phases ==
  /\ pc = "annotateNodes" => at < Len(code) /\ Pos = 0
  /\ pc = "initFunction" => Fn \in Starts(code)
  /\ pc \in {"removeDeadInstructions", "done"} => Fn = MAIN

Annotations ==
  /\ \A i \in Indices : Annotation[i] = "FUNCTION_START" => i \in Starts(code)
  /\ \A i \in Indices : Annotation[i] = "BLOCK_START" => IsLabel(i) \/ i \in Starts(code) \cup {0}
  /\ \A j \in Indices : pc # "annotateNodes" \/ j < at =>
       \A i \in BlockTargets(j) : Annotation[i] # "NOTHING"
  /\ pc = "annotateNodes" =>
       \A c \in Indices : c < at => \A f \in Closed(code, c) :
         (\A i \in c + 1 .. Len(code) - 1 : ~Reaches(code, i, f)) => Annotation[f] = "FUNCTION_START"

\* Every function start is still ahead, being made, or made.
Covered ==
  /\ pc # "annotateNodes" /\ FirstPass =>
       \A f \in Starts(code) : f >= Pos => Annotation[f] = "FUNCTION_START"
  /\ pc # "annotateNodes" => \A f \in Starts(code) :
       \/ FirstPass /\ f >= Pos
       \/ FirstPass /\ pc # "generate" /\ f = Fn
       \/ f \in DOMAIN Functions

Rest ==
  FirstPass => /\ Pos >= 0
               /\ \A k \in 1..Len(Queue) : Queue[k] = Pos + k - 1

LeftToMain ==
  FirstPass =>
    /\ Sorted(MainInsts) /\ NoStarts(MainInsts) /\ Unbroken(MainInsts)
    /\ \A k \in 1..Len(MainInsts) : MainInsts[k] < Pos /\ Op(MainInsts[k]) # "RESTART"
    /\ Pos > 0 => MainInsts # <<>> /\ MainInsts[1] = 0
    /\ MainInsts # <<>> /\ RunsOn(Last(MainInsts)) =>
         pc = "generate" /\ Last(MainInsts) + 1 = Pos
    /\ MaxBranch = 0 /\ SmallestCondBranch = 0
    /\ NoDeadCode =>
         /\ StraightSeq(MainInsts)
         /\ pc = "generate" /\ Pos > 0 =>
              Op(Pos - 1) \in Ends \cup {"RESTART"} \/ Last(MainInsts) = Pos - 1
         /\ pc \in {"makeBlocks", "generateFunction", "removeUnusedBlocks"} =>
              Pos > 0 /\ Op(Pos - 1) \in Ends

Taken ==
  pc = "initFunction" =>
    /\ Fn + Len(FuncInsts) = Pos /\ Pos < Len(code)
    /\ \A k \in 1..Len(FuncInsts) : FuncInsts[k] = Fn + k - 1
    /\ \A e \in Indices : Spans(code, Fn, e) => Pos <= e /\ MaxInstIdx <= e
    /\ LastEntryHighest =>
         \A k \in 1..Len(FuncInsts) : \A d \in Range(Edges(FuncInsts[k])) : d <= MaxInstIdx

Sifting ==
  pc = "removeDeadInstructions" =>
    /\ Sorted(Queue) /\ Sorted(FuncInsts) /\ NoStarts(Queue) /\ NoStarts(FuncInsts)
    /\ \A k \in 1..Len(FuncInsts) : \A l \in 1..Len(Queue) : FuncInsts[k] < Queue[l]
    /\ Unbroken(Queue) /\ Unbroken(FuncInsts)
    /\ Queue # <<>> => ~RunsOn(Last(Queue))
    /\ FuncInsts = <<>> => Queue # <<>> /\ Queue[1] = 0 /\ MaxBranch = 0
    /\ FuncInsts # <<>> =>
         /\ FuncInsts[1] = 0
         /\ RunsOn(Last(FuncInsts)) =>
              Queue # <<>> /\ Queue[1] = Last(FuncInsts) + 1 /\ Kept(Queue[1])
    /\ MaxBranch = 0 \/ IsLabel(MaxBranch)
    /\ SmallestCondBranch = 0 \/ IsLabel(SmallestCondBranch)
    /\ NoDeadCode =>
         /\ StraightSeq(Queue) /\ StraightSeq(FuncInsts)
         /\ Queue # <<>> /\ FuncInsts # <<>> /\ Kept(Queue[1]) =>
              Follows(Last(FuncInsts), Queue[1])

\* The instructions a function is made of
Listed ==
  pc = "makeBlocks" =>
    /\ FuncInsts # <<>> /\ FuncInsts[1] = Fn /\ Sorted(FuncInsts)
    /\ \A k \in 2..Len(FuncInsts) : FuncInsts[k] \notin Starts(code)
    /\ Unbroken(FuncInsts) /\ ~RunsOn(Last(FuncInsts))
    /\ NoDeadCode => StraightSeq(FuncInsts)
    /\ Fn # MAIN => Fn \in Starts(code) /\ Fn < Pos
    /\ Fn # MAIN /\ LastEntryHighest =>
         \A i \in Range(FuncInsts) : Range(Edges(i)) \subseteq Range(FuncInsts)

-----------------------------------------------------------------------------
(* Graphs.  The block o, if any, is still open: what follows its last
   instruction is not known yet. *)

Handlers(s) == {Dest(j) : j \in {h \in Range(s) : isPushTrap(h)}}

BlockWhole(G, b, o) ==
  LET s == G[b].Instructions IN
    /\ s # <<>> /\ s[1] = b /\ Unbroken(s)
    /\ \A k \in 1..Len(s) : Range(Edges(s[k])) \subseteq Range(G[b].NextBlocks)
    /\ b # o /\ RunsOn(Last(s)) => Last(s) + 1 \in Range(G[b].NextBlocks)

BlockStraight(G, b, o) ==
  LET s == G[b].Instructions
      i == Last(s)
  IN /\ \A k \in 1..Len(s) : s[k] = b + k - 1
     /\ \A k \in 1 .. Len(s) - 1 : ~EndsBlock(s[k])
     /\ Range(G[b].NextBlocks) =
          Handlers(s) \cup Range(Edges(i)) \cup (IF b # o /\ RunsOn(i) THEN {i + 1} ELSE {})
     /\ Op(i) \in Jumps => G[b].BrBlock = Dest(i)
     /\ b # o /\ Op(i) = "COND" => G[b].NoBrBlock = i + 1
     /\ ~EndsBlock(i) /\ Handlers(s) = {} => G[b].NextBlocks = IF b = o THEN <<>> ELSE <<i + 1>>
     /\ b # o /\ Handlers(s) # {} => EndsBlock(i)

Linkage(G, f) ==
  /\ f \in DOMAIN G
  /\ \A b \in DOMAIN G :
       /\ f <= b
       /\ G[b].PreviousBlocks = {a \in DOMAIN G : b \in Range(G[a].NextBlocks)}
       /\ 0 \notin Range(G[b].NextBlocks)

Filling ==
  pc = "generateFunction" =>
    /\ Linkage(Blocks, Fn)
    /\ Sorted(FuncInsts)
    /\ \A k \in 1..Len(FuncInsts) :
         /\ Annotation[FuncInsts[k]] = "BLOCK_START" <=> FuncInsts[k] = Fn \/ IsLabel(FuncInsts[k])
         /\ Annotation[FuncInsts[k]] = "BLOCK_START" <=> FuncInsts[k] \in DOMAIN Blocks
    /\ Unbroken(FuncInsts) /\ (FuncInsts # <<>> => ~RunsOn(Last(FuncInsts)))
    /\ NoDeadCode => StraightSeq(FuncInsts)
    /\ CBlock = NoBlock => FuncInsts # <<>> /\ FuncInsts[1] = Fn
    /\ CBlock # NoBlock =>
         /\ CBlock \in DOMAIN Blocks /\ Blocks[CBlock].Instructions # <<>>
         /\ \A k \in 1..Len(FuncInsts) : FuncInsts[k] # Fn
         /\ LET i == Last(Blocks[CBlock].Instructions) IN
              /\ RunsOn(i) => FuncInsts # <<>> /\ FuncInsts[1] = i + 1
              /\ NoDeadCode /\ FuncInsts # <<>> => Follows(i, FuncInsts[1])
    /\ \A b \in DOMAIN Blocks :
         IF Blocks[b].Instructions = <<>>
         THEN Blocks[b].NextBlocks = <<>> /\ b \in Range(FuncInsts)
         ELSE /\ b \notin Range(FuncInsts)
              /\ BlockWhole(Blocks, b, CBlock)
              /\ NoDeadCode => BlockStraight(Blocks, b, CBlock)

Finished(G, f) ==
  /\ Linkage(G, f)
  /\ \A b \in DOMAIN G : /\ BlockWhole(G, b, NoBlock)
                         /\ NoDeadCode => BlockStraight(G, b, NoBlock)

Pruning == pc = "removeUnusedBlocks" => Finished(Blocks, Fn)

Made == \A f \in DOMAIN Functions : Finished(Functions[f], f)

GInv ==
  /\ Types /\ Phases /\ Annotations /\ Covered /\ Rest
  /\ LeftToMain /\ Taken /\ Sifting /\ Listed
  /\ Filling /\ Pruning /\ Made
  /\ InitOnce
-----------------------------------------------------------------------------
(* What is known of every program *)

LEMMA Element ==
  ASSUME NEW S, NEW s \in Seq(S)
  PROVE  DOMAIN s = 1..Len(s) /\ Len(s) \in Nat /\ \A i \in 1..Len(s) : s[i] \in S
  OBVIOUS

LEMMA CodeTypes ==
  ASSUME code \in Programs
  PROVE  /\ WellFormed(code) /\ LaidOut(code)
         /\ Len(code) \in Nat /\ Len(code) > 0
         /\ \A i \in Indices : Op(i) \in Kinds /\ Dests(i) \in Seq(Nat)
<1> DEFINE Inst == [op : Kinds, dests : Seq(Nat)]
<1>1. WellFormed(code) /\ LaidOut(code)
  BY ProgramsAssumption
<1>2. code \in Seq(Inst) /\ code # <<>>
  BY <1>1 DEF WellFormed
<1>3. \A x \in Inst : x.op \in Kinds /\ x.dests \in Seq(Nat)
  OBVIOUS
<1> HIDE DEF Inst
<1>4. Len(code) \in Nat /\ Len(code) > 0
  BY <1>2
<1>5. \A k \in 1..Len(code) : code[k] \in Inst
  BY <1>2, Element
<1>6. ASSUME NEW i \in Indices PROVE Op(i) \in Kinds /\ Dests(i) \in Seq(Nat)
  <2>1. i + 1 \in 1..Len(code)
    BY <1>4 DEF Indices
  <2> QED
    BY <2>1, <1>5, <1>3 DEF Op, Dests
<1> QED
  BY <1>1, <1>4, <1>6

LEMMA TargetTypes ==
  ASSUME code \in Programs
  PROVE  /\ Op(0) # "RESTART" /\ Op(Len(code) - 1) = "STOP"
         /\ \A i \in Indices : \A d \in Range(Dests(i)) : d \in 1 .. Len(code) - 1
         /\ \A i \in Indices : HasTarget(i) \/ isSwitch(i) \/ Op(i) = "CLOSURE" =>
              Dests(i) # <<>> /\ Dest(i) \in Range(Dests(i)) /\ Last(Dests(i)) \in Range(Dests(i))
<1>1. /\ Len(code) \in Nat /\ Len(code) > 0 /\ WellFormed(code)
      /\ \A i \in Indices : Dests(i) \in Seq(Nat)
  BY CodeTypes
<1>2. Op(0) # "RESTART" /\ Op(Len(code) - 1) = "STOP"
  BY <1>1 DEF WellFormed, Op
<1>3. \A i \in Indices : i + 1 \in 1..Len(code)
  BY <1>1 DEF Indices
<1>4. ASSUME NEW i \in Indices
      PROVE  /\ \A d \in Range(Dests(i)) : d \in 1 .. Len(code) - 1
             /\ HasTarget(i) \/ isSwitch(i) \/ Op(i) = "CLOSURE" => Dests(i) # <<>>
  BY <1>1, <1>3 DEF WellFormed, Op, Dests, Range, HasTarget, isSwitch
<1>5. ASSUME NEW i \in Indices, Dests(i) # <<>>
      PROVE  Dest(i) \in Range(Dests(i)) /\ Last(Dests(i)) \in Range(Dests(i))
  BY <1>1, <1>5 DEF Dest, Last, Range
<1> QED
  BY <1>2, <1>4, <1>5

LEMMA EdgeTypes ==
  ASSUME code \in Programs, NEW i \in Indices
  PROVE  /\ Edges(i) \in Seq(Indices) /\ Range(Edges(i)) \subseteq Targets(code, i)
         /\ Targets(code, i) \subseteq 1 .. Len(code) - 1
         /\ Targets(code, i) \subseteq BlockTargets(i)
         /\ BlockTargets(i) = Targets(code, i) \cup (IF Op(i) \in Jumps THEN {i + 1} ELSE {})
         /\ HasTarget(i) => Range(Edges(i)) = {Dest(i)} /\ Edges(i) = <<Dest(i)>>
         /\ isSwitch(i) => Edges(i) = Dests(i) /\ ~HasTarget(i)
         /\ ~HasTarget(i) /\ ~isSwitch(i) => Edges(i) = <<>> /\ Range(Edges(i)) = {}
<1>1. /\ Len(code) \in Nat /\ Dests(i) \in Seq(Nat)
      /\ \A d \in Range(Dests(i)) : d \in 1 .. Len(code) - 1
      /\ HasTarget(i) \/ isSwitch(i) => Dest(i) \in Range(Dests(i))
  BY CodeTypes, TargetTypes
<1>2. Targets(code, i) = IF HasTarget(i) \/ isSwitch(i) THEN Range(Dests(i)) ELSE {}
  BY DEF Targets, HasTarget, isSwitch, Op, Dests
<1>3. BlockTargets(i) = Targets(code, i) \cup (IF Op(i) \in Jumps THEN {i + 1} ELSE {})
  BY <1>2 DEF BlockTargets
<1>4. Targets(code, i) \subseteq 1 .. Len(code) - 1
  BY <1>1, <1>2
<1>5. CASE HasTarget(i)
  <2>1. ~isSwitch(i)
    BY <1>5 DEF HasTarget, isSwitch, Jumps
  <2>2. Edges(i) = <<Dest(i)>>
    BY <1>5 DEF Edges
  <2>3. Range(<<Dest(i)>>) = {Dest(i)}
    BY DEF Range
  <2>4. Dest(i) \in Targets(code, i)
    BY <1>1, <1>2, <1>5
  <2>5. Dest(i) \in Indices
    BY <2>4, <1>4, <1>1 DEF Indices
  <2> QED
    BY <2>1, <2>2, <2>3, <2>4, <2>5, <1>3, <1>4, <1>5
<1>6. CASE isSwitch(i)
  <2>1. ~HasTarget(i)
    BY <1>6 DEF HasTarget, isSwitch, Jumps
  <2>2. Edges(i) = Dests(i)
    BY <2>1, <1>6 DEF Edges
  <2>3. Dests(i) \in Seq(Indices)
    <3>1. \A k \in 1..Len(Dests(i)) : Dests(i)[k] \in Indices
      BY <1>1 DEF Range, Indices
    <3> QED
      BY <3>1, <1>1
  <2> QED
    BY <2>1, <2>2, <2>3, <1>2, <1>3, <1>4, <1>6
<1>7. CASE ~HasTarget(i) /\ ~isSwitch(i)
  <2>1. Edges(i) = <<>>
    BY <1>7 DEF Edges
  <2>2. Range(<<>>) = {}
    BY DEF Range
  <2> QED
    BY <2>1, <2>2, <1>3, <1>4, <1>7
<1> QED
  BY <1>5, <1>6, <1>7

LEMMA LabelTypes ==
  ASSUME code \in Programs
  PROVE  /\ \A i \in Indices : BlockTargets(i) \subseteq 1 .. Len(code) - 1
         /\ \A i \in Indices : FunctionTargets(i) = Closed(code, i)
         /\ \A i : IsLabel(i) => i \in 1 .. Len(code) - 1 /\ i \in Indices
         /\ \A i \in Starts(code) : i \in 1 .. Len(code) - 1 /\ i \in Indices
         /\ \A i \in Indices : \A f \in Closed(code, i) : f \in Starts(code)
         /\ \A i \in Indices : RunsOn(i) => i < Len(code) - 1
<1>1. Len(code) \in Nat /\ Len(code) > 0 /\ Op(Len(code) - 1) = "STOP"
  BY CodeTypes, TargetTypes
<1>2. ASSUME NEW i \in Indices, Op(i) # "STOP"
      PROVE  i < Len(code) - 1 /\ i + 1 \in 1 .. Len(code) - 1
  BY <1>1, <1>2 DEF Indices
<1>3. ASSUME NEW i \in Indices
      PROVE  BlockTargets(i) \subseteq 1 .. Len(code) - 1
  <2>1. Op(i) \in Jumps => i + 1 \in 1 .. Len(code) - 1
    BY <1>2 DEF Jumps
  <2> QED
    BY <2>1, EdgeTypes
<1>4. \A i \in Indices : FunctionTargets(i) = Closed(code, i)
  BY DEF FunctionTargets, Closed, Op, Dests
<1>5. \A i : IsLabel(i) => i \in 1 .. Len(code) - 1 /\ i \in Indices
  BY <1>3, <1>1 DEF IsLabel, Indices
<1>6. ASSUME NEW f \in Starts(code)
      PROVE  f \in 1 .. Len(code) - 1 /\ f \in Indices
  <2>1. PICK i \in Indices : f \in Closed(code, i)
    BY DEF Starts, Indices
  <2>2. f \in Range(Dests(i))
    BY <2>1 DEF Closed, Dests
  <2> QED
    BY <2>2, <1>1, TargetTypes DEF Indices
<1>7. \A i \in Indices : \A f \in Closed(code, i) : f \in Starts(code)
  BY DEF Starts, Indices
<1>8. \A i \in Indices : RunsOn(i) => i < Len(code) - 1
  BY <1>2 DEF RunsOn, Leaving, Ends
<1> QED
  BY <1>3, <1>4, <1>5, <1>6, <1>7, <1>8

\* Nothing runs on into a function or into the RESTART before it.
LEMMA NothingRunsIntoFunctions ==
  ASSUME code \in Programs, NEW i \in Indices, RunsOn(i), Op(i) # "RESTART"
  PROVE  /\ i + 1 \in Indices /\ i + 1 \notin Starts(code) /\ Op(i + 1) # "RESTART"
<1>1. LaidOut(code) /\ Len(code) \in Nat
  BY CodeTypes
<1>2. i + 1 \in (0 .. Len(code) - 1) \ {0}
  BY <1>1, LabelTypes DEF Indices
<1>3. i + 1 \in Starts(code) \/ Op(i + 1) = "RESTART" => Op(i) \in Leaving \cup {"RESTART"}
  BY <1>1, <1>2 DEF LaidOut, Op
<1> QED
  BY <1>2, <1>3 DEF RunsOn, Indices

-----------------------------------------------------------------------------
(* Sequences *)

LEMMA AppendParts ==
  ASSUME NEW S, NEW s \in Seq(S), NEW x \in S
  PROVE  /\ Append(s, x) \in Seq(S) /\ Len(Append(s, x)) = Len(s) + 1 /\ Len(s) \in Nat
         /\ \A k \in 1..Len(s) : Append(s, x)[k] = s[k]
         /\ Append(s, x)[Len(s) + 1] = x /\ Append(s, x) # <<>>
         /\ Last(Append(s, x)) = x /\ Range(Append(s, x)) = Range(s) \cup {x}
<1>1. /\ Append(s, x) \in Seq(S) /\ Len(Append(s, x)) = Len(s) + 1 /\ Len(s) \in Nat
      /\ \A k \in 1..Len(s) : Append(s, x)[k] = s[k]
      /\ Append(s, x)[Len(s) + 1] = x /\ Append(s, x) # <<>>
  OBVIOUS
<1>2. Last(Append(s, x)) = x
  BY <1>1 DEF Last
<1>3. Range(Append(s, x)) \subseteq Range(s) \cup {x}
  <2>1. ASSUME NEW k \in 1 .. Len(s) + 1
        PROVE  Append(s, x)[k] \in Range(s) \cup {x}
    <3>1. k \in 1..Len(s) \/ k = Len(s) + 1
      BY <1>1
    <3> QED
      BY <3>1, <1>1 DEF Range
  <2> QED
    BY <2>1, <1>1 DEF Range
<1>4. Range(s) \cup {x} \subseteq Range(Append(s, x))
  <2>1. \A k \in 1..Len(s) : k \in 1 .. Len(s) + 1 /\ s[k] = Append(s, x)[k]
    BY <1>1
  <2>2. Len(s) + 1 \in 1 .. Len(s) + 1
    BY <1>1
  <2> QED
    BY <2>1, <2>2, <1>1 DEF Range
<1> QED
  BY <1>1, <1>2, <1>3, <1>4

LEMMA AppendType ==
  ASSUME NEW S, NEW s \in Seq(S), NEW x \in S
  PROVE  Append(s, x) \in Seq(S)
  OBVIOUS

LEMMA TailParts ==
  ASSUME NEW S, NEW s \in Seq(S), s # <<>>
  PROVE  /\ Tail(s) \in Seq(S) /\ Len(s) \in Nat /\ Len(s) > 0 /\ Len(Tail(s)) = Len(s) - 1
         /\ \A k \in 1 .. Len(s) - 1 : Tail(s)[k] = s[k + 1] /\ k + 1 \in 1..Len(s)
         /\ Head(s) = s[1] /\ Head(s) \in S /\ Head(s) \in Range(s)
         /\ Tail(s) # <<>> => Last(Tail(s)) = Last(s) /\ Len(s) > 1
         /\ Tail(s) = <<>> => Len(s) = 1 /\ Last(s) = Head(s)
         /\ Range(s) = Range(Tail(s)) \cup {Head(s)}
<1>1. /\ Tail(s) \in Seq(S) /\ Len(s) \in Nat /\ Len(s) > 0 /\ Len(Tail(s)) = Len(s) - 1
      /\ \A k \in 1 .. Len(s) - 1 : Tail(s)[k] = s[k + 1]
      /\ Head(s) = s[1] /\ Head(s) \in S
  OBVIOUS
<1>2. Tail(s) # <<>> => Len(s) > 1
  BY <1>1
<1>3. ASSUME Tail(s) = <<>> PROVE Len(s) = 1
  <2>1. \A t : t = <<>> => Len(t) = 0
    OBVIOUS
  <2>2. Len(Tail(s)) = 0
    BY ONLY <2>1, <1>3
  <2> QED
    BY <2>2, <1>1
<1>4. Tail(s) # <<>> => Last(Tail(s)) = Last(s)
  BY <1>1, <1>2 DEF Last
<1>5. Tail(s) = <<>> => Last(s) = Head(s)
  BY <1>1, <1>3 DEF Last
<1>6. Head(s) \in Range(s)
  BY <1>1 DEF Range
<1>7. \A k \in 1 .. Len(s) - 1 : k + 1 \in 1..Len(s)
  BY <1>1
<1>8. Range(Tail(s)) \subseteq Range(s)
  BY <1>1, <1>7 DEF Range
<1>9. Range(s) \subseteq Range(Tail(s)) \cup {Head(s)}
  <2>1. ASSUME NEW k \in 1..Len(s)
        PROVE  s[k] \in Range(Tail(s)) \cup {Head(s)}
    <3>1. CASE k = 1
      BY <3>1, <1>1
    <3>2. CASE k # 1
      <4>1. k - 1 \in 1 .. Len(s) - 1 /\ (k - 1) + 1 = k
        BY <3>2, <1>1
      <4>2. Tail(s)[k - 1] = s[k] /\ k - 1 \in 1..Len(Tail(s))
        BY <4>1, <1>1
      <4> QED
        BY <4>2 DEF Range
    <3> QED
      BY <3>1, <3>2
  <2> QED
    BY <2>1 DEF Range
<1> QED
  BY <1>1, <1>2, <1>3, <1>4, <1>5, <1>6, <1>7, <1>8, <1>9

LEMMA RangeConcat ==
  ASSUME NEW S, NEW s \in Seq(S), NEW t \in Seq(S)
  PROVE  /\ s \o t \in Seq(S) /\ Len(s \o t) = Len(s) + Len(t)
         /\ Range(s \o t) = Range(s) \cup Range(t)
<1>1. /\ s \o t \in Seq(S) /\ Len(s \o t) = Len(s) + Len(t) /\ Len(s) \in Nat /\ Len(t) \in Nat
      /\ \A k \in 1..Len(s) : (s \o t)[k] = s[k]
      /\ \A k \in 1..Len(t) : (s \o t)[Len(s) + k] = t[k]
  OBVIOUS
<1>2. \A k \in 1 .. Len(s) + Len(t) : k \in 1..Len(s) \/ (k - Len(s) \in 1..Len(t) /\ Len(s) + (k - Len(s)) = k)
  BY <1>1
<1>3. \A k \in 1..Len(t) : Len(s) + k \in 1 .. Len(s) + Len(t)
  BY <1>1
<1>4. \A k \in 1..Len(s) : k \in 1 .. Len(s) + Len(t)
  BY <1>1
<1>5. Range(s \o t) \subseteq Range(s) \cup Range(t)
  BY <1>1, <1>2 DEF Range
<1>6. Range(s) \subseteq Range(s \o t)
  BY <1>1, <1>4 DEF Range
<1>7. Range(t) \subseteq Range(s \o t)
  BY <1>1, <1>3 DEF Range
<1> QED
  BY <1>1, <1>5, <1>6, <1>7

LEMMA EmptySequence == /\ <<>> \in Seq(Indices) /\ Len(<<>>) = 0 /\ Range(<<>>) = {}
                       /\ Sorted(<<>>) /\ Unbroken(<<>>) /\ StraightSeq(<<>>) /\ NoStarts(<<>>)
<1>1. /\ <<>> \in Seq(Indices) /\ Len(<<>>) = 0
  OBVIOUS
<1> QED
  BY <1>1 DEF Range, Sorted, Unbroken, StraightSeq, NoStarts

\* x goes to the end of s.
LEMMA AppendInOrder ==
  ASSUME code \in Programs, NEW s \in Seq(Indices), NEW x \in Indices
  PROVE  /\ Sorted(s) /\ (\A k \in 1..Len(s) : s[k] < x) => Sorted(Append(s, x))
         /\ Unbroken(s) /\ (s # <<>> /\ RunsOn(Last(s)) => x = Last(s) + 1) => Unbroken(Append(s, x))
         /\ StraightSeq(s) /\ (s # <<>> => Follows(Last(s), x)) => StraightSeq(Append(s, x))
         /\ NoStarts(s) /\ x \notin Starts(code) => NoStarts(Append(s, x))
<1> DEFINE t == Append(s, x)
<1>1. /\ t \in Seq(Indices) /\ Len(t) = Len(s) + 1 /\ Len(s) \in Nat
      /\ \A k \in 1..Len(s) : t[k] = s[k]
      /\ t[Len(s) + 1] = x
  BY AppendParts
<1>2. \A k \in 1..Len(t) : k \in 1..Len(s) \/ k = Len(s) + 1
  BY <1>1
<1>3. \A k \in 1 .. Len(t) - 1 : k \in 1..Len(s) /\ (k \in 1 .. Len(s) - 1 \/ (k = Len(s) /\ s # <<>>))
  BY <1>1
<1>4. \A k \in 1 .. Len(s) - 1 : k \in 1..Len(s) /\ k + 1 \in 1..Len(s)
  BY <1>1
<1> HIDE DEF t
<1>5. ASSUME Sorted(s), \A k \in 1..Len(s) : s[k] < x PROVE Sorted(t)
  <2>1. ASSUME NEW k \in 1..Len(t), NEW l \in 1..Len(t), k < l PROVE t[k] < t[l]
    <3>1. CASE l \in 1..Len(s)
      <4>1. k \in 1..Len(s)
        BY <3>1, <2>1, <1>1
      <4> QED
        BY <4>1, <3>1, <2>1, <1>1, <1>5 DEF Sorted
    <3>2. CASE l = Len(s) + 1
      <4>1. k \in 1..Len(s)
        BY <3>2, <2>1, <1>1
      <4> QED
        BY <4>1, <3>2, <1>1, <1>5
    <3> QED
      BY <3>1, <3>2, <1>2
  <2> QED
    BY <2>1 DEF Sorted
<1>6. ASSUME Unbroken(s), s # <<>> /\ RunsOn(Last(s)) => x = Last(s) + 1 PROVE Unbroken(t)
  <2>1. ASSUME NEW k \in 1 .. Len(t) - 1, RunsOn(t[k]) PROVE t[k + 1] = t[k] + 1
    <3>1. CASE k \in 1 .. Len(s) - 1
      <4>1. t[k] = s[k] /\ t[k + 1] = s[k + 1]
        BY <3>1, <1>4, <1>1
      <4> QED
        BY <4>1, <3>1, <2>1, <1>6 DEF Unbroken
    <3>2. CASE k = Len(s) /\ s # <<>>
      <4>1. t[k] = Last(s) /\ t[k + 1] = x
        BY <3>2, <1>3, <1>1 DEF Last
      <4> QED
        BY <4>1, <3>2, <2>1, <1>6
    <3> QED
      BY <3>1, <3>2, <1>3
  <2> QED
    BY <2>1 DEF Unbroken
<1>7. ASSUME StraightSeq(s), s # <<>> => Follows(Last(s), x) PROVE StraightSeq(t)
  <2>1. ASSUME NEW k \in 1 .. Len(t) - 1 PROVE Follows(t[k], t[k + 1])
    <3>1. CASE k \in 1 .. Len(s) - 1
      <4>1. t[k] = s[k] /\ t[k + 1] = s[k + 1]
        BY <3>1, <1>4, <1>1
      <4> QED
        BY <4>1, <3>1, <1>7 DEF StraightSeq
    <3>2. CASE k = Len(s) /\ s # <<>>
      <4>1. t[k] = Last(s) /\ t[k + 1] = x
        BY <3>2, <1>3, <1>1 DEF Last
      <4> QED
        BY <4>1, <3>2, <1>7
    <3> QED
      BY <3>1, <3>2, <1>3
  <2> QED
    BY <2>1 DEF StraightSeq
<1>8. ASSUME NoStarts(s), x \notin Starts(code) PROVE NoStarts(t)
  BY <1>1, <1>2, <1>8 DEF NoStarts
<1> QED
  BY <1>5, <1>6, <1>7, <1>8 DEF t

LEMMA TailInOrder ==
  ASSUME NEW s \in Seq(Indices), s # <<>>
  PROVE  /\ Sorted(s) => Sorted(Tail(s)) /\ \A k \in 1..Len(Tail(s)) : Head(s) < Tail(s)[k]
         /\ Unbroken(s) => Unbroken(Tail(s))
         /\ StraightSeq(s) => StraightSeq(Tail(s))
         /\ NoStarts(s) => NoStarts(Tail(s)) /\ Head(s) \notin Starts(code)
         /\ Tail(s) # <<>> => /\ Unbroken(s) /\ RunsOn(Head(s)) => Tail(s)[1] = Head(s) + 1
                              /\ StraightSeq(s) => Follows(Head(s), Tail(s)[1])
<1> DEFINE t == Tail(s)
<1>1. /\ t \in Seq(Indices) /\ Len(s) \in Nat /\ Len(s) > 0 /\ Len(t) = Len(s) - 1
      /\ \A k \in 1 .. Len(s) - 1 : t[k] = s[k + 1]
      /\ Head(s) = s[1]
      /\ t # <<>> => Len(s) > 1
  BY TailParts
<1>2. \A k \in 1..Len(t) : k + 1 \in 1..Len(s) /\ 1 \in 1..Len(s) /\ 1 < k + 1 /\ t[k] = s[k + 1]
  BY <1>1
<1>3. \A k \in 1 .. Len(t) - 1 : /\ k + 1 \in 1 .. Len(s) - 1
                                 /\ t[k] = s[k + 1] /\ t[k + 1] = s[(k + 1) + 1]
  BY <1>1
<1>4. t # <<>> => 1 \in 1 .. Len(s) - 1 /\ t[1] = s[1 + 1]
  BY <1>1
<1> HIDE DEF t
<1>5. \A k, l \in 1..Len(t) : k < l => k + 1 < l + 1
  BY <1>1
<1>6. Sorted(s) => Sorted(t) /\ \A k \in 1..Len(t) : Head(s) < t[k]
  BY <1>1, <1>2, <1>5 DEF Sorted
<1>7. Unbroken(s) => Unbroken(t)
  BY <1>3 DEF Unbroken
<1>8. StraightSeq(s) => StraightSeq(t)
  BY <1>3 DEF StraightSeq
<1>9. NoStarts(s) => NoStarts(t) /\ Head(s) \notin Starts(code)
  <2>1. 1 \in 1..Len(s)
    BY <1>1
  <2> QED
    BY <1>1, <1>2, <2>1 DEF NoStarts
<1>10. t # <<>> => /\ Unbroken(s) /\ RunsOn(Head(s)) => t[1] = Head(s) + 1
                   /\ StraightSeq(s) => Follows(Head(s), t[1])
  BY <1>1, <1>4 DEF Unbroken, StraightSeq
<1> QED
  BY <1>6, <1>7, <1>8, <1>9, <1>10 DEF t

-----------------------------------------------------------------------------
(* Graphs *)

LEMMA BlockTypes ==
  ASSUME NEW G, IsGraph(G), NEW b \in DOMAIN G
  PROVE  /\ G[b].Instructions \in Seq(Indices) /\ G[b].NextBlocks \in Seq(Indices)
         /\ G[b].PreviousBlocks \subseteq Indices
         /\ G[b].BrBlock \in Indices \cup {NoBlock} /\ G[b].NoBrBlock \in Indices \cup {NoBlock}
         /\ Range(G[b].NextBlocks) \subseteq DOMAIN G /\ b \in Indices
         /\ G[b] \in Graph
  BY DEF IsGraph, Graph

LEMMA MakeGraph ==
  ASSUME NEW D \in SUBSET Indices, NEW G, DOMAIN G = D,
         \A b \in D : G[b] \in Graph /\ Range(G[b].NextBlocks) \subseteq D
  PROVE  IsGraph(G)
  BY DEF IsGraph

LEMMA GraphRecord ==
  ASSUME NEW s \in Seq(Indices), NEW n \in Seq(Indices), NEW P \in SUBSET Indices,
         NEW br \in Indices \cup {NoBlock}, NEW nobr \in Indices \cup {NoBlock}
  PROVE  [Instructions |-> s, NextBlocks |-> n, PreviousBlocks |-> P,
          BrBlock |-> br, NoBrBlock |-> nobr] \in Graph
  BY DEF Graph

\* What setNext changes in the graph G to make H
SetsNext(G, b, targets, br, H) ==
  /\ IsGraph(H) /\ DOMAIN H = DOMAIN G
  /\ \A x \in DOMAIN G :
       /\ H[x].Instructions = G[x].Instructions
       /\ H[x].NextBlocks = IF x = b THEN G[x].NextBlocks \o targets ELSE G[x].NextBlocks
       /\ H[x].PreviousBlocks =
            IF x \in Range(targets) THEN G[x].PreviousBlocks \cup {b} ELSE G[x].PreviousBlocks
       /\ H[x].BrBlock = IF x = b /\ br THEN Last(targets) ELSE G[x].BrBlock
       /\ H[x].NoBrBlock =
            IF x = b /\ ~br /\ targets # <<>> THEN Last(targets) ELSE G[x].NoBrBlock

LEMMA setNextSets ==
  ASSUME NEW G, IsGraph(G), NEW b \in Indices \cup {NoBlock},
         NEW targets \in Seq(Indices), Range(targets) \subseteq DOMAIN G, NEW br \in BOOLEAN,
         b \notin DOMAIN G => targets = <<>>, br => targets # <<>>
  PROVE  SetsNext(G, b, targets, br, setNext(G, b, targets, br))
<1> DEFINE H == setNext(G, b, targets, br)
<1>1. DOMAIN H = DOMAIN G
  BY DEF setNext
<1>2. ASSUME NEW x \in DOMAIN G
      PROVE  /\ H[x].Instructions = G[x].Instructions
             /\ H[x].NextBlocks = (IF x = b THEN G[x].NextBlocks \o targets ELSE G[x].NextBlocks)
             /\ H[x].PreviousBlocks =
                  (IF x \in Range(targets) THEN G[x].PreviousBlocks \cup {b} ELSE G[x].PreviousBlocks)
             /\ H[x].BrBlock = (IF x = b /\ br THEN Last(targets) ELSE G[x].BrBlock)
             /\ H[x].NoBrBlock =
                  (IF x = b /\ ~br /\ targets # <<>> THEN Last(targets) ELSE G[x].NoBrBlock)
             /\ H[x] = [Instructions |-> H[x].Instructions, NextBlocks |-> H[x].NextBlocks,
                        PreviousBlocks |-> H[x].PreviousBlocks,
                        BrBlock |-> H[x].BrBlock, NoBrBlock |-> H[x].NoBrBlock]
  <2>1. G[x] \in Graph
    BY BlockTypes
  <2> QED
    BY <2>1 DEF setNext, Graph
<1> HIDE DEF H
<1>3. targets # <<>> => Last(targets) \in Indices
  BY DEF Last
<1>4. ASSUME NEW x \in DOMAIN G
      PROVE  H[x] \in Graph /\ Range(H[x].NextBlocks) \subseteq DOMAIN G
  <2>1. /\ G[x].Instructions \in Seq(Indices) /\ G[x].NextBlocks \in Seq(Indices)
        /\ G[x].PreviousBlocks \subseteq Indices
        /\ G[x].BrBlock \in Indices \cup {NoBlock} /\ G[x].NoBrBlock \in Indices \cup {NoBlock}
        /\ Range(G[x].NextBlocks) \subseteq DOMAIN G /\ x \in Indices
    BY BlockTypes
  <2>2. G[x].NextBlocks \o targets \in Seq(Indices)
    BY <2>1
  <2>3. Range(G[x].NextBlocks \o targets) \subseteq DOMAIN G
    BY <2>1, RangeConcat
  <2>4. H[x].NextBlocks \in Seq(Indices) /\ Range(H[x].NextBlocks) \subseteq DOMAIN G
    BY <2>1, <2>2, <2>3, <1>2
  <2>5. H[x].PreviousBlocks \subseteq Indices
    <3>1. CASE x \in Range(targets)
      <4>1. targets # <<>>
        BY <3>1, EmptySequence
      <4>2. b \in Indices
        BY <4>1 DEF IsGraph
      <4>3. H[x].PreviousBlocks = G[x].PreviousBlocks \cup {b}
        BY ONLY <3>1, <1>2, <1>4
      <4> QED
        BY ONLY <4>2, <4>3, <2>1
    <3>2. CASE x \notin Range(targets)
      <4>1. H[x].PreviousBlocks = G[x].PreviousBlocks
        BY ONLY <3>2, <1>2, <1>4
      <4> QED
        BY ONLY <4>1, <2>1
    <3> QED
      BY <3>1, <3>2
  <2>6. H[x].BrBlock \in Indices \cup {NoBlock} /\ H[x].NoBrBlock \in Indices \cup {NoBlock}
    BY <2>1, <1>2, <1>3
  <2>7. H[x].Instructions \in Seq(Indices)
    BY <2>1, <1>2
  <2>8. [Instructions |-> H[x].Instructions, NextBlocks |-> H[x].NextBlocks,
         PreviousBlocks |-> H[x].PreviousBlocks,
         BrBlock |-> H[x].BrBlock, NoBrBlock |-> H[x].NoBrBlock] \in Graph
    BY <2>4, <2>5, <2>6, <2>7, GraphRecord
  <2> QED
    BY <1>2, <2>4, <2>8
<1>5. IsGraph(H)
  <2>1. DOMAIN G \in SUBSET Indices
    BY DEF IsGraph
  <2> QED
    BY <2>1, <1>1, <1>4, MakeGraph
<1>6. SetsNext(G, b, targets, br, H)
  BY <1>1, <1>2, <1>5 DEF SetsNext
<1> QED
  BY <1>6 DEF H

\* What runs on to i, if a block starts there
Link(i) == IF Annotation[i] = "BLOCK_START" /\ FallsThrough(CBlock) THEN <<i>> ELSE <<>>

LEMMA LinkTypes ==
  ASSUME NEW i \in Indices
  PROVE  /\ Link(i) \in Seq(Indices)
         /\ Link(i) # <<>> <=> /\ Annotation[i] = "BLOCK_START" /\ CBlock # NoBlock
                               /\ RunsOn(Last(Blocks[CBlock].Instructions))
         /\ Link(i) # <<>> => Link(i) = <<i>> /\ Range(Link(i)) = {i} /\ Last(Link(i)) = i
         /\ Link(i) = <<>> => Range(Link(i)) = {}
         /\ CBlock = NoBlock => Link(i) = <<>>
<1>1. <<i>> \in Seq(Indices) /\ <<i>> # <<>> /\ Range(<<i>>) = {i} /\ Last(<<i>>) = i
  BY DEF Range, Last
<1>2. FallsThrough(CBlock) <=> CBlock # NoBlock /\ RunsOn(Last(Blocks[CBlock].Instructions))
  BY DEF FallsThrough, RunsOn, Leaving, isReturn, isSwitch
<1> QED
  BY <1>1, <1>2, EmptySequence DEF Link

\* Instruction i goes to the end of block b, after the block before may have got
\* an edge to it.
LEMMA FillParts ==
  ASSUME Types, FuncInsts # <<>>, Fill, NEW i \in Indices, i = Head(FuncInsts),
         NEW b \in DOMAIN Blocks, b = Enters(i),
         CBlock # NoBlock => CBlock \in DOMAIN Blocks
  PROVE  /\ IsGraph(Blocks') /\ DOMAIN Blocks' = DOMAIN Blocks
         /\ Range(Edges(i)) \subseteq DOMAIN Blocks
         /\ CBlock' = b /\ FuncInsts' = Tail(FuncInsts)
         /\ \A x \in DOMAIN Blocks :
              /\ Blocks'[x].Instructions =
                   IF x = b THEN Append(Blocks[x].Instructions, i) ELSE Blocks[x].Instructions
              /\ Blocks'[x].NextBlocks =
                   LET n == IF x = CBlock THEN Blocks[x].NextBlocks \o Link(i)
                            ELSE Blocks[x].NextBlocks
                   IN IF x = b THEN n \o Edges(i) ELSE n
              /\ Blocks'[x].PreviousBlocks =
                   Blocks[x].PreviousBlocks \cup {a \in {CBlock} : x \in Range(Link(i))}
                                            \cup {a \in {b} : x \in Range(Edges(i))}
              /\ Blocks'[x].BrBlock =
                   IF x = b /\ HasTarget(i) THEN Dest(i) ELSE Blocks[x].BrBlock
              /\ Blocks'[x].NoBrBlock =
                   IF x = b /\ isSwitch(i) /\ Edges(i) # <<>> THEN Last(Edges(i))
                   ELSE IF x = CBlock /\ Link(i) # <<>> THEN i
                   ELSE Blocks[x].NoBrBlock
<1> DEFINE L == setNext(Blocks, CBlock, Link(i), FALSE)
           G == [L EXCEPT ![b].Instructions = Append(@, i)]
<1>1. /\ Blocks' = setNext(G, b, Edges(i), HasTarget(i)) /\ Range(Edges(i)) \subseteq DOMAIN Blocks
      /\ CBlock' = b /\ FuncInsts' = Tail(FuncInsts)
  BY DEF Fill, Linked, Link
<1>2. IsGraph(Blocks) /\ CBlock \in Indices \cup {NoBlock} /\ code \in Programs
  BY DEF Types
<1>3. Link(i) # <<>> => i \in DOMAIN Blocks
  BY LinkTypes DEF Enters
<1>4. /\ IsGraph(L) /\ DOMAIN L = DOMAIN Blocks
      /\ \A x \in DOMAIN Blocks :
           /\ L[x].Instructions = Blocks[x].Instructions
           /\ L[x].NextBlocks = IF x = CBlock THEN Blocks[x].NextBlocks \o Link(i) ELSE Blocks[x].NextBlocks
           /\ L[x].PreviousBlocks =
                IF x \in Range(Link(i)) THEN Blocks[x].PreviousBlocks \cup {CBlock} ELSE Blocks[x].PreviousBlocks
           /\ L[x].BrBlock = Blocks[x].BrBlock
           /\ L[x].NoBrBlock = IF x = CBlock /\ Link(i) # <<>> THEN Last(Link(i)) ELSE Blocks[x].NoBrBlock
  <2>1. Range(Link(i)) \subseteq DOMAIN Blocks
    BY <1>3, LinkTypes
  <2>2. CBlock \notin DOMAIN Blocks => Link(i) = <<>>
    BY LinkTypes
  <2>3. Link(i) \in Seq(Indices)
    BY LinkTypes
  <2>4. SetsNext(Blocks, CBlock, Link(i), FALSE, L)
    BY <2>1, <2>2, <2>3, <1>2, setNextSets
  <2> HIDE DEF L
  <2> QED
    BY <2>4 DEF SetsNext
<1> HIDE DEF L
<1>5. /\ DOMAIN G = DOMAIN Blocks
      /\ \A x \in DOMAIN Blocks :
           /\ G[x].Instructions = IF x = b THEN Append(L[x].Instructions, i) ELSE L[x].Instructions
           /\ G[x].NextBlocks = L[x].NextBlocks /\ G[x].PreviousBlocks = L[x].PreviousBlocks
           /\ G[x].BrBlock = L[x].BrBlock /\ G[x].NoBrBlock = L[x].NoBrBlock
           /\ G[x] = [Instructions |-> G[x].Instructions, NextBlocks |-> L[x].NextBlocks,
                      PreviousBlocks |-> L[x].PreviousBlocks,
                      BrBlock |-> L[x].BrBlock, NoBrBlock |-> L[x].NoBrBlock]
  <2>1. DOMAIN G = DOMAIN Blocks
    BY <1>4
  <2>2. ASSUME NEW x \in DOMAIN Blocks
        PROVE  /\ G[x].Instructions = (IF x = b THEN Append(L[x].Instructions, i) ELSE L[x].Instructions)
               /\ G[x].NextBlocks = L[x].NextBlocks /\ G[x].PreviousBlocks = L[x].PreviousBlocks
               /\ G[x].BrBlock = L[x].BrBlock /\ G[x].NoBrBlock = L[x].NoBrBlock
               /\ G[x] = [Instructions |-> G[x].Instructions, NextBlocks |-> L[x].NextBlocks,
                          PreviousBlocks |-> L[x].PreviousBlocks,
                          BrBlock |-> L[x].BrBlock, NoBrBlock |-> L[x].NoBrBlock]
    <3>1. L[x] \in Graph
      BY <1>4, BlockTypes
    <3> QED
      BY <3>1, <1>4 DEF Graph
  <2> HIDE DEF G
  <2> QED
    BY <2>1, <2>2
<1> HIDE DEF G
<1>6. IsGraph(G)
  <2>1. ASSUME NEW x \in DOMAIN Blocks PROVE G[x] \in Graph /\ Range(G[x].NextBlocks) \subseteq DOMAIN Blocks
    <3>1. /\ L[x].Instructions \in Seq(Indices) /\ L[x].NextBlocks \in Seq(Indices)
          /\ L[x].PreviousBlocks \in SUBSET Indices
          /\ L[x].BrBlock \in Indices \cup {NoBlock} /\ L[x].NoBrBlock \in Indices \cup {NoBlock}
          /\ Range(L[x].NextBlocks) \subseteq DOMAIN Blocks
      BY <1>4, BlockTypes
    <3>2. G[x].Instructions \in Seq(Indices)
      <4>1. Append(L[x].Instructions, i) \in Seq(Indices)
        BY <3>1
      <4> QED
        BY <4>1, <3>1, <1>5
    <3>3. [Instructions |-> G[x].Instructions, NextBlocks |-> L[x].NextBlocks,
           PreviousBlocks |-> L[x].PreviousBlocks,
           BrBlock |-> L[x].BrBlock, NoBrBlock |-> L[x].NoBrBlock] \in Graph
      BY <3>1, <3>2, GraphRecord
    <3> QED
      BY <3>1, <3>3, <1>5
  <2>2. DOMAIN Blocks \in SUBSET Indices
    BY <1>2 DEF IsGraph
  <2> QED
    BY <2>1, <2>2, <1>5, MakeGraph
<1>7. /\ Edges(i) \in Seq(Indices) /\ HasTarget(i) \in BOOLEAN
      /\ HasTarget(i) => Edges(i) # <<>> /\ Last(Edges(i)) = Dest(i)
      /\ ~HasTarget(i) /\ Edges(i) # <<>> => isSwitch(i)
      /\ isSwitch(i) => ~HasTarget(i)
  <2>1. \A d : <<d>> # <<>> /\ Last(<<d>>) = d
    BY DEF Last
  <2>2. HasTarget(i) \in BOOLEAN
    BY DEF HasTarget
  <2> QED
    BY <2>1, <2>2, <1>2, EdgeTypes
<1>8. /\ IsGraph(Blocks') /\ DOMAIN Blocks' = DOMAIN Blocks
      /\ \A x \in DOMAIN Blocks :
           /\ Blocks'[x].Instructions = G[x].Instructions
           /\ Blocks'[x].NextBlocks = IF x = b THEN G[x].NextBlocks \o Edges(i) ELSE G[x].NextBlocks
           /\ Blocks'[x].PreviousBlocks =
                IF x \in Range(Edges(i)) THEN G[x].PreviousBlocks \cup {b} ELSE G[x].PreviousBlocks
           /\ Blocks'[x].BrBlock = IF x = b /\ HasTarget(i) THEN Last(Edges(i)) ELSE G[x].BrBlock
           /\ Blocks'[x].NoBrBlock =
                IF x = b /\ ~HasTarget(i) /\ Edges(i) # <<>> THEN Last(Edges(i)) ELSE G[x].NoBrBlock
  <2>1. b \in Indices \cup {NoBlock}
    BY <1>2 DEF IsGraph
  <2>2. b \in DOMAIN G /\ Range(Edges(i)) \subseteq DOMAIN G
    BY <1>1, <1>5
  <2> DEFINE H == setNext(G, b, Edges(i), HasTarget(i))
  <2>3. SetsNext(G, b, Edges(i), HasTarget(i), H)
    BY <2>1, <2>2, <1>6, <1>7, setNextSets
  <2>4. Blocks' = H
    BY <1>1
  <2> HIDE DEF H
  <2>5. SetsNext(G, b, Edges(i), HasTarget(i), Blocks')
    BY <2>3, <2>4
  <2> QED
    BY <2>5, <1>5 DEF SetsNext
<1>9. ASSUME NEW x \in DOMAIN Blocks
      PROVE  /\ Blocks'[x].Instructions =
                  (IF x = b THEN Append(Blocks[x].Instructions, i) ELSE Blocks[x].Instructions)
             /\ Blocks'[x].NextBlocks =
                   (LET n == IF x = CBlock THEN Blocks[x].NextBlocks \o Link(i)
                            ELSE Blocks[x].NextBlocks
                   IN IF x = b THEN n \o Edges(i) ELSE n)
             /\ Blocks'[x].PreviousBlocks =
                   Blocks[x].PreviousBlocks \cup {a \in {CBlock} : x \in Range(Link(i))}
                                            \cup {a \in {b} : x \in Range(Edges(i))}
             /\ Blocks'[x].BrBlock =
                   (IF x = b /\ HasTarget(i) THEN Dest(i) ELSE Blocks[x].BrBlock)
             /\ Blocks'[x].NoBrBlock =
                   (IF x = b /\ isSwitch(i) /\ Edges(i) # <<>> THEN Last(Edges(i))
                   ELSE IF x = CBlock /\ Link(i) # <<>> THEN i
                   ELSE Blocks[x].NoBrBlock)
  <2>1. /\ L[x].Instructions = Blocks[x].Instructions
        /\ L[x].NextBlocks = IF x = CBlock THEN Blocks[x].NextBlocks \o Link(i) ELSE Blocks[x].NextBlocks
        /\ L[x].PreviousBlocks =
             IF x \in Range(Link(i)) THEN Blocks[x].PreviousBlocks \cup {CBlock} ELSE Blocks[x].PreviousBlocks
        /\ L[x].BrBlock = Blocks[x].BrBlock
        /\ L[x].NoBrBlock = IF x = CBlock /\ Link(i) # <<>> THEN Last(Link(i)) ELSE Blocks[x].NoBrBlock
    BY ONLY <1>4, <1>9
  <2>2. /\ G[x].Instructions = IF x = b THEN Append(L[x].Instructions, i) ELSE L[x].Instructions
        /\ G[x].NextBlocks = L[x].NextBlocks /\ G[x].PreviousBlocks = L[x].PreviousBlocks
        /\ G[x].BrBlock = L[x].BrBlock /\ G[x].NoBrBlock = L[x].NoBrBlock
    BY ONLY <1>5, <1>9
  <2>3. /\ Blocks'[x].Instructions = G[x].Instructions
        /\ Blocks'[x].NextBlocks = IF x = b THEN G[x].NextBlocks \o Edges(i) ELSE G[x].NextBlocks
        /\ Blocks'[x].PreviousBlocks =
             IF x \in Range(Edges(i)) THEN G[x].PreviousBlocks \cup {b} ELSE G[x].PreviousBlocks
        /\ Blocks'[x].BrBlock = IF x = b /\ HasTarget(i) THEN Last(Edges(i)) ELSE G[x].BrBlock
        /\ Blocks'[x].NoBrBlock =
             IF x = b /\ ~HasTarget(i) /\ Edges(i) # <<>> THEN Last(Edges(i)) ELSE G[x].NoBrBlock
    BY ONLY <1>8, <1>9
  <2>4. Blocks'[x].Instructions =
                  (IF x = b THEN Append(Blocks[x].Instructions, i) ELSE Blocks[x].Instructions)
    BY ONLY <2>1, <2>2, <2>3
  <2>5. Blocks'[x].NextBlocks =
                   (LET n == IF x = CBlock THEN Blocks[x].NextBlocks \o Link(i)
                            ELSE Blocks[x].NextBlocks
                   IN IF x = b THEN n \o Edges(i) ELSE n)
    <3>1. G[x].NextBlocks = IF x = CBlock THEN Blocks[x].NextBlocks \o Link(i) ELSE Blocks[x].NextBlocks
      BY ONLY <2>1, <2>2
    <3>2. Blocks'[x].NextBlocks = IF x = b THEN G[x].NextBlocks \o Edges(i) ELSE G[x].NextBlocks
      BY ONLY <2>3
    <3>3. \A n : n = (IF x = CBlock THEN Blocks[x].NextBlocks \o Link(i) ELSE Blocks[x].NextBlocks) =>
            (IF x = b THEN n \o Edges(i) ELSE n)
             = (LET m == IF x = CBlock THEN Blocks[x].NextBlocks \o Link(i) ELSE Blocks[x].NextBlocks
                IN IF x = b THEN m \o Edges(i) ELSE m)
      OBVIOUS
    <3> QED
      BY ONLY <3>1, <3>2, <3>3
  <2>6. Blocks'[x].PreviousBlocks =
                   Blocks[x].PreviousBlocks \cup {a \in {CBlock} : x \in Range(Link(i))}
                                            \cup {a \in {b} : x \in Range(Edges(i))}
    <3>1. G[x].PreviousBlocks = Blocks[x].PreviousBlocks \cup {a \in {CBlock} : x \in Range(Link(i))}
      BY ONLY <2>1, <2>2
    <3> QED
      BY ONLY <3>1, <2>3
  <2>7. Blocks'[x].BrBlock = (IF x = b /\ HasTarget(i) THEN Dest(i) ELSE Blocks[x].BrBlock)
    BY ONLY <2>1, <2>2, <2>3, <1>7
  <2>8. Blocks'[x].NoBrBlock =
                   (IF x = b /\ isSwitch(i) /\ Edges(i) # <<>> THEN Last(Edges(i))
                   ELSE IF x = CBlock /\ Link(i) # <<>> THEN i
                   ELSE Blocks[x].NoBrBlock)
    <3>1. G[x].NoBrBlock = IF x = CBlock /\ Link(i) # <<>> THEN i ELSE Blocks[x].NoBrBlock
      <4>1. Link(i) # <<>> => Last(Link(i)) = i
        BY LinkTypes
      <4>2. G[x].NoBrBlock = IF x = CBlock /\ Link(i) # <<>> THEN Last(Link(i)) ELSE Blocks[x].NoBrBlock
        BY ONLY <2>1, <2>2
      <4> QED
        BY ONLY <4>1, <4>2
    <3>2. Blocks'[x].NoBrBlock =
            IF x = b /\ ~HasTarget(i) /\ Edges(i) # <<>> THEN Last(Edges(i)) ELSE G[x].NoBrBlock
      BY ONLY <2>3
    <3>3. ~HasTarget(i) /\ Edges(i) # <<>> <=> isSwitch(i) /\ Edges(i) # <<>>
      BY <1>7
    <3> QED
      BY ONLY <3>1, <3>2, <3>3
  <2> QED
    BY <2>4, <2>5, <2>6, <2>7, <2>8
<1> QED
  BY <1>1, <1>8, <1>9

\* The graph makeBlocks starts from
LEMMA EmptyGraph ==
  ASSUME NEW D \in SUBSET Indices
  PROVE  IsGraph([b \in D |-> Empty])
<1>1. Empty \in Graph
  BY GraphRecord, EmptySequence DEF Empty
<1>2. Range(Empty.NextBlocks) = {}
  BY EmptySequence DEF Empty
<1> HIDE DEF Empty
<1> QED
  BY <1>1, <1>2, MakeGraph

\* A block that has an edge from one that stays is not among the unused.
LEMMA WithoutParts ==
  ASSUME NEW G, IsGraph(G), NEW f, Linkage(G, f)
  PROVE  LET U == Unused(G)
             H == Without(G, U)
         IN /\ IsGraph(H) /\ Linkage(H, f) /\ DOMAIN H = DOMAIN G \ U
            /\ \A b \in DOMAIN H :
                 /\ b \in DOMAIN G
                 /\ H[b].Instructions = G[b].Instructions /\ H[b].NextBlocks = G[b].NextBlocks
                 /\ H[b].BrBlock = G[b].BrBlock /\ H[b].NoBrBlock = G[b].NoBrBlock
                 /\ H[b].PreviousBlocks = G[b].PreviousBlocks \ U
<1> DEFINE U == Unused(G)
           H == Without(G, U)
<1>1. DOMAIN H = DOMAIN G \ U
  BY DEF Without
<1>2. ASSUME NEW b \in DOMAIN G \ U
      PROVE  /\ H[b].Instructions = G[b].Instructions /\ H[b].NextBlocks = G[b].NextBlocks
             /\ H[b].BrBlock = G[b].BrBlock /\ H[b].NoBrBlock = G[b].NoBrBlock
             /\ H[b].PreviousBlocks = G[b].PreviousBlocks \ U
             /\ H[b] = [Instructions |-> G[b].Instructions, NextBlocks |-> G[b].NextBlocks,
                        PreviousBlocks |-> G[b].PreviousBlocks \ U,
                        BrBlock |-> G[b].BrBlock, NoBrBlock |-> G[b].NoBrBlock]
  <2>1. G[b] \in Graph
    BY BlockTypes
  <2> HIDE DEF U
  <2> QED
    BY <2>1 DEF Without, Graph
<1> HIDE DEF H
<1>3. /\ f \in DOMAIN G /\ DOMAIN G \in SUBSET Indices
      /\ \A b \in DOMAIN G : /\ f <= b
                             /\ G[b].PreviousBlocks = {a \in DOMAIN G : b \in Range(G[a].NextBlocks)}
                             /\ 0 \notin Range(G[b].NextBlocks)
  BY DEF Linkage, IsGraph
<1>4. f \notin U
  <2>1. ASSUME NEW a \in DOMAIN G PROVE ~(a < f)
    <3>1. a \in Int /\ f \in Int /\ f <= a
      BY <1>3 DEF Indices
    <3> QED
      BY <3>1
  <2> QED
    BY <2>1 DEF Unused
<1>5. ASSUME NEW b \in DOMAIN G \ U, NEW n \in Range(G[b].NextBlocks)
      PROVE  n \in DOMAIN G \ U
  <2>1. n \in DOMAIN G
    BY BlockTypes
  <2>2. b \in G[n].PreviousBlocks
    BY <2>1, <1>3
  <2> QED
    BY <2>1, <2>2 DEF Unused
<1>6. ASSUME NEW b \in DOMAIN G \ U
      PROVE  H[b] \in Graph /\ Range(H[b].NextBlocks) \subseteq DOMAIN G \ U
  <2>1. /\ G[b].Instructions \in Seq(Indices) /\ G[b].NextBlocks \in Seq(Indices)
        /\ G[b].PreviousBlocks \subseteq Indices
        /\ G[b].BrBlock \in Indices \cup {NoBlock} /\ G[b].NoBrBlock \in Indices \cup {NoBlock}
    BY BlockTypes
  <2>2. G[b].PreviousBlocks \ U \in SUBSET Indices
    BY <2>1
  <2> HIDE DEF U
  <2>3. [Instructions |-> G[b].Instructions, NextBlocks |-> G[b].NextBlocks,
         PreviousBlocks |-> G[b].PreviousBlocks \ U,
         BrBlock |-> G[b].BrBlock, NoBrBlock |-> G[b].NoBrBlock] \in Graph
    BY <2>1, <2>2, GraphRecord
  <2>4. H[b] \in Graph
    BY <2>3, <1>2
  <2> QED
    BY <2>4, <1>2, <1>5
<1>7. IsGraph(H)
  BY <1>1, <1>3, <1>6, MakeGraph
<1>8. Linkage(H, f)
  <2>1. f \in DOMAIN H
    BY <1>1, <1>3, <1>4
  <2>2. ASSUME NEW b \in DOMAIN H
        PROVE  /\ f <= b
               /\ H[b].PreviousBlocks = {a \in DOMAIN H : b \in Range(H[a].NextBlocks)}
               /\ 0 \notin Range(H[b].NextBlocks)
    <3>1. b \in DOMAIN G \ U /\ b \in DOMAIN G
      BY <1>1
    <3>2. H[b].PreviousBlocks = G[b].PreviousBlocks \ U /\ H[b].NextBlocks = G[b].NextBlocks
      BY <3>1, <1>2
    <3>3. \A a \in DOMAIN H : H[a].NextBlocks = G[a].NextBlocks
      BY <1>1, <1>2
    <3>4. G[b].PreviousBlocks \ U = {a \in DOMAIN H : b \in Range(H[a].NextBlocks)}
      BY <3>1, <3>3, <1>1, <1>3
    <3> QED
      BY <3>1, <3>2, <3>4, <1>3
  <2> QED
    BY <2>1, <2>2 DEF Linkage
<1>9. \A b \in DOMAIN H :
         /\ b \in DOMAIN G
         /\ H[b].Instructions = G[b].Instructions /\ H[b].NextBlocks = G[b].NextBlocks
         /\ H[b].BrBlock = G[b].BrBlock /\ H[b].NoBrBlock = G[b].NoBrBlock
         /\ H[b].PreviousBlocks = G[b].PreviousBlocks \ U
  BY <1>1, <1>2
<1> QED
  BY <1>1, <1>7, <1>8, <1>9 DEF H

LEMMA Entering ==
  ASSUME Types, Filling, pc = "generateFunction", FuncInsts # <<>>
  PROVE  /\ Head(FuncInsts) \in Indices /\ Head(FuncInsts) = FuncInsts[1]
         /\ Enters(Head(FuncInsts)) \in DOMAIN Blocks
         /\ CBlock # NoBlock => CBlock \in DOMAIN Blocks
         /\ CBlock = NoBlock => Annotation[Head(FuncInsts)] = "BLOCK_START"
<1>1. /\ Head(FuncInsts) \in Indices /\ Head(FuncInsts) = FuncInsts[1] /\ 1 \in 1..Len(FuncInsts)
  BY TailParts DEF Types
<1> QED
  BY <1>1 DEF Filling, Enters

-----------------------------------------------------------------------------
(* Types *)

LEMMA IndicesKept ==
  ASSUME code' = code
  PROVE  Indices' = Indices /\ \A G : IsGraph(G)' <=> IsGraph(G)
  BY DEF Indices, IsGraph, Graph

LEMMA TypesInit ==
  ASSUME Init
  PROVE  Types
<1>1. code \in Programs /\ Len(code) \in Nat /\ Len(code) > 0
  BY CodeTypes DEF Init
<1>2. 0 \in Indices /\ 0 \in 0..Len(code)
  BY <1>1 DEF Indices
<1>3. [k \in 1..Len(code) |-> k - 1] \in Seq(Indices)
  <2>1. \A k \in 1..Len(code) : k - 1 \in Indices
    BY <1>1 DEF Indices
  <2> QED
    BY <2>1, <1>1
<1>4. \A G : G = <<>> => DOMAIN G = {} /\ IsGraph(G)
  <2>1. \A G : G = <<>> => DOMAIN G = {}
    OBVIOUS
  <2> QED
    BY <2>1 DEF IsGraph
<1>5. [i \in Indices |-> "NOTHING"] \in [Indices -> {"NOTHING", "FUNCTION_START", "BLOCK_START"}]
  OBVIOUS
<1>6. <<>> \in Seq(Indices)
  OBVIOUS
<1> QED
  BY <1>1, <1>2, <1>3, <1>4, <1>5, <1>6 DEF Init, Types, MAIN, NoBlock

LEMMA HighestTargetTypes ==
  ASSUME Types, NEW i \in Indices
  PROVE  /\ HighestTarget(i) \in Indices /\ HighestTarget(i) >= MaxInstIdx
         /\ HighestTarget(i) # MaxInstIdx => HighestTarget(i) \in Targets(code, i)
         /\ HasTarget(i) => Dest(i) <= HighestTarget(i)
         /\ isSwitch(i) => Last(Dests(i)) <= HighestTarget(i)
<1>1. /\ MaxInstIdx \in Indices /\ Len(code) \in Nat /\ code \in Programs
      /\ Indices = 0 .. Len(code) - 1
  BY CodeTypes DEF Types, Indices
<1>2. Targets(code, i) \subseteq 1 .. Len(code) - 1
  BY <1>1, EdgeTypes
<1>3. HasTarget(i) \/ isSwitch(i) => Dest(i) \in Targets(code, i) /\ Last(Dests(i)) \in Targets(code, i)
  BY <1>1, TargetTypes DEF Targets, HasTarget, isSwitch, Op, Dests, Dest, Last
<1>4. isSwitch(i) => ~HasTarget(i)
  BY DEF HasTarget, isSwitch, Jumps
<1> QED
  BY <1>1, <1>2, <1>3, <1>4 DEF HighestTarget, Larger

LEMMA PruneTypes ==
  ASSUME Types, Pruning, Prune
  PROVE  IsGraph(Blocks') /\ Linkage(Blocks', Fn) /\ Blocks' = Without(Blocks, Unused(Blocks))
<1>1. IsGraph(Blocks) /\ Linkage(Blocks, Fn) /\ Blocks' = Without(Blocks, Unused(Blocks))
  BY DEF Types, Pruning, Finished, Prune
<1> QED
  BY <1>1, WithoutParts

LEMMA TypesNext ==
  ASSUME Types, Phases, Filling, Pruning, [Next]_vars
  PROVE  Types'
<1>1. code' = code
  BY DEF Next, vars, Annotate, StartFunction, LeaveToMain, StartMain, TakeInst, Sift, Sifted,
         MakeBlocks, Fill, NullBlock, Filled, Prune
<1>2. Indices' = Indices /\ \A G : IsGraph(G)' <=> IsGraph(G)
  BY <1>1, IndicesKept
<1>3. /\ code \in Programs /\ Len(code) \in Nat /\ Len(code) > 0 /\ Indices = 0 .. Len(code) - 1
      /\ Annotation \in [Indices -> {"NOTHING", "FUNCTION_START", "BLOCK_START"}]
      /\ Queue \in Seq(Indices) /\ FuncInsts \in Seq(Indices) /\ MainInsts \in Seq(Indices)
  BY CodeTypes DEF Types, Indices
<1>4. <<>> \in Seq(Indices) /\ 0 \in Indices
  BY <1>3
<1>5. Queue # <<>> => /\ Head(Queue) \in Indices /\ Tail(Queue) \in Seq(Indices)
                      /\ Append(MainInsts, Head(Queue)) \in Seq(Indices)
                      /\ Append(FuncInsts, Head(Queue)) \in Seq(Indices)
  <2>1. Queue # <<>> => Head(Queue) \in Indices /\ Tail(Queue) \in Seq(Indices)
    BY <1>3, TailParts
  <2> QED
    BY ONLY <2>1, <1>3, AppendType
<1>6. FuncInsts # <<>> => Head(FuncInsts) \in Indices /\ Tail(FuncInsts) \in Seq(Indices)
  BY <1>3, TailParts
<1>7. CASE Annotate
  <2>1. Annotation' \in [Indices -> {"NOTHING", "FUNCTION_START", "BLOCK_START"}]
    BY <1>7, <1>3 DEF Annotate
  <2>2. at' \in 0..Len(code)
    BY <1>7, <1>3 DEF Annotate, Phases, Types
  <2>3. pc' \in {"annotateNodes", "generate"}
    BY <1>7 DEF Annotate
  <2> QED
    BY <1>7, <1>1, <1>2, <2>1, <2>2, <2>3 DEF Types, Annotate, scan, graph
<1>8. CASE StartFunction
  BY <1>8, <1>1, <1>2, <1>4, <1>5 DEF Types, StartFunction, graph
<1>9. CASE LeaveToMain
  <2>1. MainInsts' \in Seq(Indices)
    BY <1>9, <1>3, <1>5 DEF LeaveToMain
  <2> QED
    BY <1>9, <1>1, <1>2, <1>5, <2>1 DEF Types, LeaveToMain, graph
<1>10. CASE StartMain
  BY <1>10, <1>1, <1>2, <1>4 DEF Types, StartMain, graph, MAIN
<1>11. CASE TakeInst
  <2>1. MaxInstIdx' \in Indices
    BY <1>11, <1>5, HighestTargetTypes DEF TakeInst
  <2>2. FuncInsts' \in Seq(Indices)
    BY <1>11, <1>5, <1>3 DEF TakeInst
  <2>3. pc' \in {"initFunction", "makeBlocks"}
    BY <1>11 DEF TakeInst
  <2> QED
    BY <1>11, <1>1, <1>2, <1>5, <2>1, <2>2, <2>3 DEF Types, TakeInst, graph
<1>12. CASE Sift
  <2> DEFINE i == Head(Queue)
  <2>1. i \in Indices /\ Queue # <<>>
    BY <1>12, <1>5 DEF Sift
  <2>2. HasTarget(i) => Dest(i) \in Indices
    <3>1. HasTarget(i) => Dest(i) \in 1 .. Len(code) - 1
      BY ONLY <2>1, <1>3, TargetTypes
    <3> QED
      BY <3>1, <1>3
  <2>3. LowersCondBranch(i) \/ Op(i) = "BRANCH" => HasTarget(i)
    BY DEF LowersCondBranch, isPushTrap, HasTarget, Jumps
  <2>4. MaxBranch' \in Indices /\ SmallestCondBranch' \in Indices
    BY <1>12, <2>2, <2>3 DEF Sift, Types
  <2>5. FuncInsts' \in Seq(Indices)
    BY <1>12, <2>1, <1>5, <1>3 DEF Sift
  <2> QED
    BY <1>12, <1>1, <1>2, <1>5, <2>4, <2>5 DEF Types, Sift, graph
<1>13. CASE Sifted
  BY <1>13, <1>1, <1>2 DEF Types, Sifted, scan, graph
<1>14. CASE MakeBlocks
  <2>1. Annotation' \in [Indices -> {"NOTHING", "FUNCTION_START", "BLOCK_START"}]
    BY <1>14, <1>3 DEF MakeBlocks
  <2>2. Range(FuncInsts) \subseteq Indices
    BY <1>3 DEF Range
  <2>3. IsGraph(Blocks')
    BY <1>14, <2>2, EmptyGraph DEF MakeBlocks
  <2> QED
    BY <1>14, <1>1, <1>2, <2>1, <2>3 DEF Types, MakeBlocks, scan
<1>15. CASE Fill
  <2>1. FuncInsts # <<>> /\ pc = "generateFunction"
    BY <1>15 DEF Fill
  <2> DEFINE i == Head(FuncInsts)
             b == Enters(i)
  <2>2. /\ i \in Indices /\ b \in DOMAIN Blocks
        /\ CBlock # NoBlock => CBlock \in DOMAIN Blocks
    BY <2>1, Entering
  <2>3. IsGraph(Blocks') /\ CBlock' = b
    BY <1>15, <2>1, <2>2, FillParts
  <2>4. b \in Indices
    BY <2>2 DEF Types, IsGraph
  <2> HIDE DEF b
  <2> QED
    BY <1>15, <1>1, <1>2, <1>6, <2>1, <2>3, <2>4 DEF Types, Fill
<1>16. CASE NullBlock
  BY <1>16, <1>1, <1>2 DEF Types, NullBlock, scan, graph
<1>17. CASE Filled
  BY <1>17, <1>1, <1>2 DEF Types, Filled, scan, graph
<1>18. CASE Prune
  <2>1. IsGraph(Blocks')
    BY <1>18, PruneTypes
  <2>2. DOMAIN Functions' \subseteq Indices /\ \A f \in DOMAIN Functions' : IsGraph(Functions'[f])
    BY <1>18, <2>1 DEF Prune, Types
  <2>3. pc' \in {"removeUnusedBlocks", "done", "generate"}
    BY <1>18 DEF Prune
  <2> QED
    BY <1>18, <1>1, <1>2, <2>1, <2>2, <2>3 DEF Types, Prune, scan
<1>19. CASE UNCHANGED vars
  BY <1>19, <1>2 DEF Types, vars, scan, graph
<1> QED
  BY <1>7, <1>8, <1>9, <1>10, <1>11, <1>12, <1>13, <1>14, <1>15, <1>16, <1>17, <1>18, <1>19
  DEF Next

-----------------------------------------------------------------------------
(* What depends on the program only stays as it is. *)

LEMMA ProgramKept ==
  ASSUME [Next]_vars
  PROVE  code' = code
  BY DEF Next, vars, Annotate, StartFunction, LeaveToMain, StartMain, TakeInst, Sift, Sifted,
         MakeBlocks, Fill, NullBlock, Filled, Prune

LEMMA StaticKept ==
  ASSUME code' = code
  PROVE  /\ Indices' = Indices
         /\ \A i : /\ Op(i)' = Op(i) /\ Edges(i)' = Edges(i) /\ Dest(i)' = Dest(i)
                   /\ BlockTargets(i)' = BlockTargets(i)
                   /\ IsLabel(i)' <=> IsLabel(i)
                   /\ RunsOn(i)' <=> RunsOn(i)
                   /\ EndsBlock(i)' <=> EndsBlock(i)
         /\ NoDeadCode' <=> NoDeadCode
         /\ LastEntryHighest' <=> LastEntryHighest
         /\ \A i, j : Follows(i, j)' <=> Follows(i, j)
         /\ \A s : /\ Unbroken(s)' <=> Unbroken(s)
                   /\ StraightSeq(s)' <=> StraightSeq(s)
                   /\ NoStarts(s)' <=> NoStarts(s)
<1>1. Indices' = Indices
  BY DEF Indices
<1>2. \A i : /\ Op(i)' = Op(i) /\ Dests(i)' = Dests(i) /\ Dest(i)' = Dest(i)
             /\ RunsOn(i)' <=> RunsOn(i)
             /\ EndsBlock(i)' <=> EndsBlock(i)
             /\ HasTarget(i)' <=> HasTarget(i)
             /\ isSwitch(i)' <=> isSwitch(i)
  BY DEF Op, Dests, Dest, RunsOn, EndsBlock, HasTarget, isSwitch
<1>3. \A i : Edges(i)' = Edges(i) /\ BlockTargets(i)' = BlockTargets(i)
  BY <1>2 DEF Edges, BlockTargets
<1>4. \A i : IsLabel(i)' <=> IsLabel(i)
  BY <1>1, <1>3 DEF IsLabel
<1>5. NoDeadCode' <=> NoDeadCode
  BY <1>1, <1>2, <1>4 DEF NoDeadCode
<1>6. LastEntryHighest' <=> LastEntryHighest
  BY <1>1, <1>2 DEF LastEntryHighest
<1>7. \A i, j : Follows(i, j)' <=> Follows(i, j)
  BY <1>2, <1>4 DEF Follows
<1>8. \A s : Unbroken(s)' <=> Unbroken(s)
  BY <1>2 DEF Unbroken
<1>9. \A s : StraightSeq(s)' <=> StraightSeq(s)
  BY <1>7 DEF StraightSeq
<1>10. \A s : NoStarts(s)' <=> NoStarts(s)
  BY DEF NoStarts
<1> QED
  BY <1>1, <1>2, <1>3, <1>4, <1>5, <1>6, <1>7, <1>8, <1>9, <1>10

LEMMA GraphsKept ==
  ASSUME code' = code
  PROVE  /\ \A s : Handlers(s)' = Handlers(s)
         /\ \A G, b, o : /\ BlockWhole(G, b, o)' <=> BlockWhole(G, b, o)
                         /\ BlockStraight(G, b, o)' <=> BlockStraight(G, b, o)
         /\ \A G, f : Finished(G, f)' <=> Finished(G, f)
<1>1. /\ \A i : /\ Op(i)' = Op(i) /\ Edges(i)' = Edges(i) /\ Dest(i)' = Dest(i)
                /\ RunsOn(i)' <=> RunsOn(i)
                /\ EndsBlock(i)' <=> EndsBlock(i)
      /\ \A s : Unbroken(s)' <=> Unbroken(s)
      /\ NoDeadCode' <=> NoDeadCode
  BY StaticKept
<1>2. \A s : Handlers(s)' = Handlers(s)
  BY <1>1 DEF Handlers, isPushTrap
<1>3. \A G, b, o : BlockWhole(G, b, o)' <=> BlockWhole(G, b, o)
  BY <1>1 DEF BlockWhole
<1>4. \A G, b, o : BlockStraight(G, b, o)' <=> BlockStraight(G, b, o)
  BY <1>1, <1>2 DEF BlockStraight
<1>5. \A G, f : Finished(G, f)' <=> Finished(G, f)
  BY <1>1, <1>3, <1>4 DEF Finished
<1> QED
  BY <1>2, <1>3, <1>4, <1>5

-----------------------------------------------------------------------------
(* The queue and the annotations *)

LEMMA QueueParts ==
  ASSUME Types, Rest, FirstPass
  PROVE  /\ Len(code) \in Nat /\ Len(Queue) \in Nat /\ Pos \in Nat /\ Pos <= Len(code)
         /\ Queue = <<>> => Pos = Len(code)
         /\ Queue # <<>> =>
              /\ Head(Queue) = Pos /\ Pos \in Indices /\ Pos < Len(code)
              /\ Len(code) - Len(Tail(Queue)) = Pos + 1
              /\ \A k \in 1..Len(Tail(Queue)) : Tail(Queue)[k] = (Pos + 1) + k - 1
<1>1. Len(code) \in Nat /\ Queue \in Seq(Indices) /\ Len(Queue) \in Nat
  BY CodeTypes DEF Types
<1>2. Pos \in Nat /\ Pos <= Len(code)
  BY <1>1 DEF Rest, Pos
<1>3. Queue = <<>> => Pos = Len(code)
  <2>1. \A s : s = <<>> => Len(s) = 0
    OBVIOUS
  <2>2. Queue = <<>> => Len(Queue) = 0
    BY ONLY <2>1
  <2> QED
    BY <2>2, <1>1 DEF Pos
<1>4. ASSUME Queue # <<>>
      PROVE  /\ Head(Queue) = Pos /\ Pos \in Indices /\ Pos < Len(code)
             /\ Len(code) - Len(Tail(Queue)) = Pos + 1
             /\ \A k \in 1..Len(Tail(Queue)) : Tail(Queue)[k] = (Pos + 1) + k - 1
  <2>1. /\ Len(Queue) > 0 /\ Len(Tail(Queue)) = Len(Queue) - 1 /\ Head(Queue) = Queue[1]
        /\ \A k \in 1 .. Len(Queue) - 1 : Tail(Queue)[k] = Queue[k + 1] /\ k + 1 \in 1..Len(Queue)
        /\ Head(Queue) \in Indices
    BY <1>1, <1>4, TailParts
  <2>2. \A k \in 1..Len(Queue) : Queue[k] = Pos + k - 1
    BY DEF Rest
  <2>3. Head(Queue) = Pos
    BY <2>1, <2>2, <1>1, <1>2
  <2>4. Len(code) - Len(Tail(Queue)) = Pos + 1 /\ Pos < Len(code)
    <3>1. \A a, b, c \in Int : b > 0 /\ c = b - 1 => a - c = (a - b) + 1 /\ a - b < a
      OBVIOUS
    <3>2. Len(Tail(Queue)) \in Int /\ Len(Queue) \in Int /\ Len(code) \in Int
      BY <2>1, <1>1
    <3>3. PICK a \in Int : a = Len(code)
      BY <3>2
    <3>4. PICK b \in Int : b = Len(Queue)
      BY <3>2
    <3>5. PICK c \in Int : c = Len(Tail(Queue))
      BY <3>2
    <3>6. b > 0 /\ c = b - 1 /\ Pos = a - b
      BY <2>1, <3>3, <3>4, <3>5 DEF Pos
    <3>7. a - c = (a - b) + 1 /\ a - b < a
      BY ONLY <3>1, <3>6
    <3> QED
      BY ONLY <3>3, <3>5, <3>6, <3>7
  <2>5. ASSUME NEW k \in 1..Len(Tail(Queue)) PROVE Tail(Queue)[k] = (Pos + 1) + k - 1
    <3>1. Tail(Queue)[k] = Queue[k + 1] /\ k + 1 \in 1..Len(Queue) /\ k \in Int
      BY <2>1, <1>1
    <3>2. Queue[k + 1] = Pos + (k + 1) - 1
      BY <3>1, <2>2
    <3> QED
      BY <3>1, <3>2, <1>2
  <2> QED
    BY <2>1, <2>3, <2>4, <2>5
<1> QED
  BY <1>1, <1>2, <1>3, <1>4

LEMMA RestNext ==
  ASSUME Types, Phases, Rest, [Next]_vars
  PROVE  Rest'
<1> SUFFICES ASSUME FirstPass' PROVE Pos' >= 0 /\ \A k \in 1..Len(Queue') : Queue'[k] = Pos' + k - 1
  BY DEF Rest
<1>1. code' = code
  BY ProgramKept
<1>2. FirstPass
  BY DEF FirstPass, Phases, Next, vars, Annotate, StartFunction, LeaveToMain, StartMain, TakeInst,
         Sift, Sifted, MakeBlocks, Fill, NullBlock, Filled, Prune, MAIN
<1>3. CASE Queue' = Queue
  <2>1. Pos' = Pos
    BY <1>1, <1>3 DEF Pos
  <2> QED
    BY <1>2, <1>3, <2>1 DEF Rest
<1>4. CASE Queue # <<>> /\ Queue' = Tail(Queue)
  <2>1. Pos' = Pos + 1
    BY <1>1, <1>2, <1>4, QueueParts DEF Pos
  <2> QED
    BY <1>2, <1>4, <2>1, QueueParts
<1>5. CASE StartMain
  <2>1. ~FirstPass'
    BY <1>5 DEF StartMain, FirstPass
  <2> QED
    BY <2>1
<1>6. Queue' = Queue \/ (Queue # <<>> /\ Queue' = Tail(Queue)) \/ StartMain
  BY DEF Next, vars, Annotate, StartFunction, LeaveToMain, TakeInst, scan,
         Sift, Sifted, MakeBlocks, Fill, NullBlock, Filled, Prune
<1> QED
  BY <1>3, <1>4, <1>5, <1>6

LEMMA PhasesNext ==
  ASSUME Types, Phases, Annotations, [Next]_vars
  PROVE  Phases'
<1>1. code' = code /\ Starts(code)' = Starts(code)
  BY ProgramKept
<1>2. CASE Annotate
  <2>1. Len(code) \in Nat /\ at \in 0..Len(code) /\ at < Len(code) /\ Pos = 0
    BY <1>2, CodeTypes DEF Types, Phases, Annotate
  <2>2. Pos' = Pos
    BY <1>2, <1>1 DEF Annotate, scan, Pos
  <2> QED
    BY <1>2, <2>1, <2>2, <1>1 DEF Phases, Annotate
<1>3. CASE StartFunction
  <2>1. Head(Queue) \in Indices
    BY <1>3, TailParts DEF Types, StartFunction
  <2>2. Fn' \in Starts(code)
    BY <1>3, <2>1 DEF Annotations, StartFunction
  <2> QED
    BY <1>3, <1>1, <2>2 DEF Phases, StartFunction
<1>4. CASE LeaveToMain
  BY <1>4, <1>1 DEF Phases, LeaveToMain
<1>5. CASE StartMain
  BY <1>5, <1>1 DEF Phases, StartMain
<1>6. CASE TakeInst
  BY <1>6, <1>1 DEF Phases, TakeInst
<1>7. CASE Sift
  BY <1>7, <1>1 DEF Phases, Sift
<1>8. CASE Sifted \/ MakeBlocks \/ Fill \/ NullBlock \/ Filled
  BY <1>8, <1>1 DEF Phases, Sifted, MakeBlocks, Fill, NullBlock, Filled
<1>9. CASE Prune
  BY <1>9, <1>1 DEF Phases, Prune
<1>10. CASE UNCHANGED vars
  BY <1>10 DEF Phases, vars, scan, Pos
<1> QED
  BY <1>2, <1>3, <1>4, <1>5, <1>6, <1>7, <1>8, <1>9, <1>10 DEF Next

\* The two ways to change annotations
LEMMA AnnotationSteps ==
  ASSUME [Next]_vars
  PROVE  Annotate \/ MakeBlocks \/ (Annotation' = Annotation /\ at' = at
                                    /\ (pc' = "annotateNodes" <=> pc = "annotateNodes"))
  BY DEF Next, vars, StartFunction, LeaveToMain, StartMain, TakeInst, Sift, Sifted,
         Fill, NullBlock, Filled, Prune

\* What one turn of annotateNodes does, the last one included
LEMMA AnnotateStep ==
  ASSUME Types, Phases, Annotations, Annotate
  PROVE  /\ at \in Indices /\ at' = at + 1 /\ pc = "annotateNodes" /\ at \in Int
         /\ \A i \in Indices : Annotation'[i] = "FUNCTION_START" => i \in Starts(code)
         /\ \A i \in Indices : Annotation'[i] = "BLOCK_START" => IsLabel(i) \/ i \in Starts(code) \cup {0}
         /\ \A j \in Indices : j < at + 1 => \A i \in BlockTargets(j) : Annotation'[i] # "NOTHING"
         /\ \A c \in Indices : c < at + 1 => \A f \in Closed(code, c) :
              (\A i \in c + 1 .. Len(code) - 1 : ~Reaches(code, i, f)) => Annotation'[f] = "FUNCTION_START"
<1>0. /\ code \in Programs /\ Len(code) \in Nat /\ Indices = 0 .. Len(code) - 1
      /\ Annotation \in [Indices -> {"NOTHING", "FUNCTION_START", "BLOCK_START"}]
  BY CodeTypes DEF Types, Indices
<1>1. at \in Indices /\ at' = at + 1 /\ pc = "annotateNodes" /\ at \in Int
  BY <1>0 DEF Types, Phases, Annotate
<1>2. \A i \in Indices : Annotation'[i] = IF i \in BlockTargets(at) THEN "BLOCK_START"
                                          ELSE IF i \in Closed(code, at) THEN "FUNCTION_START"
                                          ELSE Annotation[i]
  BY <1>0, <1>1, LabelTypes DEF Annotate
<1>3. /\ \A i \in Indices : i \in BlockTargets(at) => IsLabel(i)
      /\ \A i \in Indices : i \in Closed(code, at) => i \in Starts(code)
      /\ \A j \in Indices : BlockTargets(j) \subseteq Indices
  BY <1>1, <1>0, LabelTypes DEF IsLabel
<1>4. \A i \in Indices : Annotation'[i] = "FUNCTION_START" => i \in Starts(code)
  BY <1>2, <1>3 DEF Annotations
<1>5. \A i \in Indices : Annotation'[i] = "BLOCK_START" => IsLabel(i) \/ i \in Starts(code) \cup {0}
  BY <1>2, <1>3 DEF Annotations
<1>6. ASSUME NEW j \in Indices, j < at + 1, NEW i \in BlockTargets(j)
      PROVE  Annotation'[i] # "NOTHING"
  <2>1. i \in Indices
    BY <1>3
  <2>2. CASE j = at
    BY <2>1, <2>2, <1>2
  <2>3. CASE j # at
    <3>1. j < at
      BY <2>3, <1>6, <1>1, <1>0
    <3>2. Annotation[i] # "NOTHING"
      BY <3>1 DEF Annotations
    <3> QED
      BY <3>2, <2>1, <1>2
  <2> QED
    BY <2>2, <2>3
<1>7. ASSUME NEW c \in Indices, c < at + 1, NEW f \in Closed(code, c),
             \A i \in c + 1 .. Len(code) - 1 : ~Reaches(code, i, f)
      PROVE  Annotation'[f] = "FUNCTION_START"
  <2>1. f \in Indices
    BY <1>0, LabelTypes
  <2>2. CASE c = at
    <3>1. Op(at) = "CLOSURE"
      BY <2>2, <1>7 DEF Closed, Op
    <3>2. BlockTargets(at) = {}
      BY <3>1 DEF BlockTargets, HasTarget, isSwitch, Jumps
    <3> QED
      BY <2>1, <2>2, <1>2, <1>7, <3>2
  <2>3. CASE c # at
    <3>1. c < at /\ at \in c + 1 .. Len(code) - 1
      BY <2>3, <1>7, <1>1, <1>0
    <3>2. Annotation[f] = "FUNCTION_START"
      BY <3>1, <1>7, <1>1 DEF Annotations
    <3>3. ~Reaches(code, at, f)
      BY <3>1, <1>7
    <3>4. f \notin BlockTargets(at)
      <4>1. BlockTargets(at) = Targets(code, at) \cup (IF Op(at) \in Jumps THEN {at + 1} ELSE {})
        BY <1>1, <1>0, EdgeTypes
      <4> QED
        BY <4>1, <3>3 DEF Reaches, Op
    <3> QED
      BY <3>2, <3>4, <2>1, <1>2
  <2> QED
    BY <2>2, <2>3
<1> QED
  BY <1>1, <1>4, <1>5, <1>6, <1>7

LEMMA AnnotationsNext ==
  ASSUME Types, Phases, Listed, Annotations, [Next]_vars
  PROVE  Annotations'
<1>1. code' = code /\ Starts(code)' = Starts(code)
  BY ProgramKept
<1>2. /\ Indices' = Indices
      /\ \A i : BlockTargets(i)' = BlockTargets(i) /\ (IsLabel(i)' <=> IsLabel(i))
  BY <1>1, StaticKept
<1>3. /\ code \in Programs /\ Len(code) \in Nat /\ Indices = 0 .. Len(code) - 1
      /\ Annotation \in [Indices -> {"NOTHING", "FUNCTION_START", "BLOCK_START"}]
  BY CodeTypes DEF Types, Indices
<1>4. CASE Annotate
  <2>1. at \in Indices /\ at' = at + 1 /\ at \in Int
    BY <1>4, AnnotateStep
  <2>8. \A j \in Indices : pc' # "annotateNodes" \/ j < at' =>
          \A i \in BlockTargets(j) : Annotation'[i] # "NOTHING"
    <3>1. pc' # "annotateNodes" => at + 1 = Len(code)
      BY <1>4 DEF Annotate
    <3>2. \A j \in Indices : pc' # "annotateNodes" => j < at + 1
      BY <3>1, <1>3
    <3> QED
      BY <1>4, <3>2, <2>1, AnnotateStep
  <2> QED
    BY <1>1, <1>2, <1>4, <2>1, <2>8, AnnotateStep DEF Annotations
<1>5. CASE MakeBlocks
  <2>1. Fn \in Starts(code) \cup {0} /\ Head(FuncInsts) = Fn /\ at' = at
        /\ pc = "makeBlocks" /\ pc' = "generateFunction"
    <3>1. Head(FuncInsts) = FuncInsts[1]
      BY <1>5, TailParts DEF MakeBlocks, Types
    <3> QED
      BY <3>1, <1>5 DEF Listed, MakeBlocks, MAIN
  <2>2. \A i \in Indices : Annotation'[i] = IF i = Fn THEN "BLOCK_START" ELSE Annotation[i]
    BY <1>5, <1>3, <2>1 DEF MakeBlocks
  <2>3. \A j \in Indices : BlockTargets(j) \subseteq Indices
    BY <1>3, LabelTypes
  <2> QED
    BY <1>1, <1>2, <2>1, <2>2, <2>3 DEF Annotations
<1>6. CASE Annotation' = Annotation /\ at' = at /\ (pc' = "annotateNodes" <=> pc = "annotateNodes")
  BY <1>6, <1>1, <1>2 DEF Annotations
<1> QED
  BY <1>4, <1>5, <1>6, AnnotationSteps

LEMMA FirstPassBefore ==
  ASSUME Phases, [Next]_vars, FirstPass'
  PROVE  FirstPass
  BY DEF FirstPass, Phases, Next, vars, Annotate, StartFunction, LeaveToMain, StartMain, TakeInst,
         Sift, Sifted, MakeBlocks, Fill, NullBlock, Filled, Prune, MAIN

\* The head of the queue, on the first pass
LEMMA TakesOne ==
  ASSUME Types, Rest, FirstPass, Queue # <<>>, code' = code, Queue' = Tail(Queue)
  PROVE  /\ Head(Queue) = Pos /\ Pos \in Indices /\ Pos' = Pos + 1 /\ Pos \in Nat /\ Len(code) \in Nat
         /\ Pos < Len(code) /\ Indices = 0 .. Len(code) - 1
  BY QueueParts DEF Pos, Indices

\* A function lies in one piece, and no other starts in it.
LEMMA Piece ==
  ASSUME Types, NEW f \in Starts(code)
  PROVE  \E e \in Indices : Spans(code, f, e)
  BY CodeTypes DEF Types, LaidOut, Indices

LEMMA CoveredNext ==
  ASSUME Types, Phases, Annotations, Rest, Covered, Taken, Listed, [Next]_vars
  PROVE  Covered'
<1>1. code' = code /\ Starts(code)' = Starts(code)
  BY ProgramKept
<1>2. /\ code \in Programs /\ Len(code) \in Nat /\ Len(code) > 0 /\ Indices = 0 .. Len(code) - 1
      /\ \A f \in Starts(code) : f \in Indices /\ f # 0 /\ f \in Int /\ f < Len(code)
  BY CodeTypes, LabelTypes DEF Types, Indices
<1>3. CASE Annotate
  <2>1. CASE pc' = "annotateNodes"
    BY <2>1 DEF Covered
  <2>2. CASE pc' # "annotateNodes"
    <3>1. at + 1 = Len(code) /\ Pos = 0 /\ pc' = "generate" /\ Queue' = Queue
      BY <1>3, <2>2 DEF Annotate, Phases, scan
    <3>2. Pos' = Pos
      BY <1>1, <3>1 DEF Pos
    <3>3. ASSUME NEW f \in Starts(code) PROVE Annotation'[f] = "FUNCTION_START"
      <4>1. PICK c \in Indices : /\ f \in Closed(code, c)
                                 /\ \A i \in c + 1 .. Len(code) - 1 : ~Reaches(code, i, f)
        BY <1>2, CodeTypes DEF LaidOut
      <4>2. c < at + 1
        BY <3>1, <1>2
      <4> QED
        BY <4>1, <4>2, <1>3, AnnotateStep
    <3>4. FirstPass'
      BY <3>1 DEF FirstPass
    <3>5. \A f \in Starts(code) : f >= Pos'
      BY <3>1, <3>2, <1>2
    <3> QED
      BY <1>1, <3>3, <3>4, <3>5 DEF Covered
  <2> QED
    BY <2>1, <2>2
<1>4. CASE StartFunction
  <2>1. Pos' = Pos /\ pc = "generate" /\ pc' = "initFunction" /\ Annotation' = Annotation
        /\ Functions' = Functions
    BY <1>1, <1>4 DEF StartFunction, Pos
  <2>2. FirstPass /\ FirstPass'
    BY <2>1 DEF FirstPass
  <2> QED
    BY <1>1, <2>1, <2>2 DEF Covered
<1>5. CASE LeaveToMain
  <2>1. pc = "generate" /\ pc' = "generate" /\ Annotation' = Annotation /\ Functions' = Functions
        /\ Queue # <<>> /\ Queue' = Tail(Queue) /\ Annotation[Head(Queue)] # "FUNCTION_START"
    BY <1>5 DEF LeaveToMain
  <2>2. FirstPass /\ FirstPass'
    BY <2>1 DEF FirstPass
  <2>3. Head(Queue) = Pos /\ Pos' = Pos + 1 /\ Pos \in Nat
    BY <1>1, <2>1, <2>2, TakesOne
  <2>4. \A f \in Starts(code) : f >= Pos => f >= Pos + 1
    BY <1>2, <2>1, <2>2, <2>3 DEF Covered
  <2>5. \A f \in Starts(code) : f >= Pos + 1 => f >= Pos
    BY <1>2, <2>3
  <2> QED
    BY <1>1, <2>1, <2>2, <2>3, <2>4, <2>5 DEF Covered
<1>6. CASE StartMain
  <2>1. pc = "generate" /\ Functions' = Functions /\ ~FirstPass' /\ FirstPass /\ Queue = <<>>
    BY <1>6 DEF StartMain, FirstPass
  <2>2. Pos = Len(code)
    BY <2>1, QueueParts
  <2>3. \A f \in Starts(code) : ~(f >= Pos)
    BY <2>2, <1>2
  <2> QED
    BY <1>1, <2>1, <2>3 DEF Covered
<1>7. CASE TakeInst
  <2>1. pc = "initFunction" /\ pc' \in {"initFunction", "makeBlocks"} /\ Annotation' = Annotation
        /\ Functions' = Functions /\ Fn' = Fn /\ Queue # <<>> /\ Queue' = Tail(Queue)
    BY <1>7 DEF TakeInst
  <2>2. FirstPass /\ Fn \in Starts(code)
    BY <2>1 DEF FirstPass, Phases
  <2>3. FirstPass'
    BY <2>1, <2>2, <1>2 DEF FirstPass, MAIN
  <2>4. Head(Queue) = Pos /\ Pos' = Pos + 1 /\ Pos \in Nat
    BY <1>1, <2>1, <2>2, TakesOne
  <2>5. PICK e \in Indices : Spans(code, Fn, e)
    BY <2>2, Piece
  <2>6. Fn + Len(FuncInsts) = Pos /\ Pos <= e /\ Len(FuncInsts) \in Nat
    BY <2>1, <2>5, Element DEF Taken, Types
  <2>7. Fn <= Pos /\ e \in Int
    BY <2>6, <2>2, <1>2
  <2>8. \A f \in Starts(code) : f = Pos => f = Fn
    <3>1. \A f \in Fn + 1 .. e : f \notin Starts(code)
      BY <2>5 DEF Spans
    <3>2. \A f \in Starts(code) : f = Pos /\ f # Fn => f \in Fn + 1 .. e
      BY <2>2, <2>6, <2>7, <1>2
    <3> QED
      BY <3>1, <3>2
  <2>9. \A f \in Starts(code) : /\ f >= Pos => f >= Pos + 1 \/ f = Fn
                                /\ f >= Pos + 1 => f >= Pos
    BY <2>8, <2>4, <1>2
  <2> QED
    BY <1>1, <2>1, <2>2, <2>3, <2>4, <2>9 DEF Covered
<1>8. CASE Sift
  <2>1. ~FirstPass /\ ~FirstPass' /\ pc = "removeDeadInstructions" /\ Functions' = Functions
    BY <1>8 DEF Sift, Phases, FirstPass
  <2> QED
    BY <1>1, <2>1 DEF Covered
<1>9. CASE MakeBlocks
  <2>1. /\ pc = "makeBlocks" /\ pc' = "generateFunction" /\ Functions' = Functions /\ Fn' = Fn
        /\ Queue' = Queue /\ Head(FuncInsts) = FuncInsts[1]
    BY <1>9, TailParts DEF MakeBlocks, scan, Types
  <2>2. FirstPass' <=> Fn # MAIN
    BY <2>1 DEF FirstPass
  <2>3. FirstPass <=> Fn # MAIN
    BY <2>1 DEF FirstPass
  <2>4. Pos' = Pos
    BY <2>1, <1>1 DEF Pos
  <2>5. Fn # MAIN => Fn < Pos
    BY <2>1 DEF Listed
  <2>6. Head(FuncInsts) = Fn
    BY <2>1 DEF Listed
  <2>7. \A i \in Indices : i # Fn => Annotation'[i] = Annotation[i]
    BY <1>9, <2>6 DEF MakeBlocks, Types
  <2>8. Pos \in Int /\ Fn \in Int
    BY <1>2, Element DEF Pos, Types
  <2>9. \A f \in Starts(code) : Fn # MAIN /\ f >= Pos => f # Fn
    BY <2>5, <2>8, <1>2
  <2> QED
    BY <1>1, <1>2, <2>1, <2>2, <2>3, <2>4, <2>7, <2>9 DEF Covered
<1>10. CASE Sifted \/ Fill \/ NullBlock \/ Filled
  <2>1. /\ pc \in {"removeDeadInstructions", "generateFunction"}
        /\ pc' \in {"makeBlocks", "generateFunction", "crash", "removeUnusedBlocks"}
        /\ Functions' = Functions /\ Fn' = Fn /\ Queue' = Queue /\ Annotation' = Annotation
    BY <1>10 DEF Sifted, Fill, NullBlock, Filled, scan
  <2>2. Pos' = Pos
    BY <2>1, <1>1 DEF Pos
  <2>3. FirstPass' <=> FirstPass
    BY <2>1 DEF FirstPass
  <2> QED
    BY <1>1, <2>1, <2>2, <2>3 DEF Covered
<1>11. CASE Prune
  <2>1. /\ pc = "removeUnusedBlocks" /\ Annotation' = Annotation /\ Queue' = Queue /\ Fn' = Fn
    BY <1>11 DEF Prune, scan
  <2>2. Pos' = Pos
    BY <2>1, <1>1 DEF Pos
  <2>3. FirstPass <=> Fn # MAIN
    BY <2>1 DEF FirstPass
  <2>4. CASE pc' = pc /\ Functions' = Functions
    <3>1. FirstPass' <=> FirstPass
      BY <2>1, <2>4 DEF FirstPass
    <3> QED
      BY <1>1, <2>1, <2>2, <2>4, <3>1 DEF Covered
  <2>5. CASE DOMAIN Functions' = DOMAIN Functions \cup {Fn} /\ pc' = IF Fn = MAIN THEN "done" ELSE "generate"
    <3>1. FirstPass' <=> FirstPass
      BY <2>1, <2>5 DEF FirstPass
    <3> QED
      BY <1>1, <2>1, <2>2, <2>5, <3>1 DEF Covered
  <2> QED
    BY <1>11, <2>4, <2>5 DEF Prune
<1>12. CASE UNCHANGED vars
  <2>1. Pos' = Pos /\ (FirstPass' <=> FirstPass)
    BY <1>12 DEF vars, scan, Pos, FirstPass
  <2> QED
    BY <1>12, <2>1 DEF Covered, vars, scan
<1> QED
  BY <1>3, <1>4, <1>5, <1>6, <1>7, <1>8, <1>9, <1>10, <1>11, <1>12 DEF Next

\* What one turn of initFunction does, the last one included
LEMMA TakeStep ==
  ASSUME Types, Phases, Rest, Taken, TakeInst
  PROVE  /\ Head(Queue) = Pos /\ Pos \in Indices /\ Pos' = Pos + 1 /\ Pos \in Nat /\ Pos < Len(code)
         /\ Fn' = Fn /\ Fn \in Starts(code) /\ Fn \in Nat /\ Fn <= Pos
         /\ FuncInsts' \in Seq(Indices) /\ FuncInsts' # <<>> /\ Len(FuncInsts') \in Nat
         /\ Fn + Len(FuncInsts') = Pos + 1
         /\ \A k \in 1..Len(FuncInsts') : FuncInsts'[k] = Fn + k - 1
         /\ Last(FuncInsts') = Pos
         /\ MaxInstIdx' \in Int
         /\ \A e \in Indices : Spans(code, Fn, e) => Pos <= e /\ MaxInstIdx' <= e
         /\ LastEntryHighest =>
              \A k \in 1..Len(FuncInsts') : \A d \in Range(Edges(FuncInsts'[k])) : d <= MaxInstIdx'
<1>1. /\ pc = "initFunction" /\ Queue # <<>> /\ Queue' = Tail(Queue) /\ Fn' = Fn /\ code' = code
      /\ FuncInsts' = Append(FuncInsts, Head(Queue)) /\ MaxInstIdx' = HighestTarget(Head(Queue))
  BY DEF TakeInst
<1>2. FirstPass /\ Fn \in Starts(code) /\ Fn \in Nat
  BY <1>1, CodeTypes, LabelTypes DEF FirstPass, Phases, Types
<1>3. /\ Head(Queue) = Pos /\ Pos' = Pos + 1 /\ Pos \in Nat /\ Pos < Len(code)
      /\ Len(code) \in Nat /\ Indices = 0 .. Len(code) - 1 /\ code \in Programs
      /\ Pos \in Indices
  BY <1>1, <1>2, TakesOne DEF Types
<1>4. FuncInsts \in Seq(Indices) /\ Len(FuncInsts) \in Nat /\ Fn + Len(FuncInsts) = Pos
  BY <1>1 DEF Types, Taken
<1>5. /\ FuncInsts' \in Seq(Indices) /\ FuncInsts' # <<>> /\ Len(FuncInsts') = Len(FuncInsts) + 1
      /\ \A k \in 1..Len(FuncInsts) : FuncInsts'[k] = FuncInsts[k]
      /\ FuncInsts'[Len(FuncInsts) + 1] = Pos /\ Last(FuncInsts') = Pos
  <2>1. FuncInsts' = Append(FuncInsts, Pos)
    BY <1>1, <1>3
  <2> QED
    BY <2>1, <1>3, <1>4, AppendParts
<1>6. \A k \in 1..Len(FuncInsts') : k \in 1..Len(FuncInsts) \/ k = Len(FuncInsts) + 1
  BY <1>4, <1>5
<1>7. \A k \in 1..Len(FuncInsts') : FuncInsts'[k] = Fn + k - 1
  BY <1>1, <1>2, <1>3, <1>4, <1>5, <1>6 DEF Taken
<1>8. /\ MaxInstIdx' \in Indices /\ MaxInstIdx' >= MaxInstIdx /\ MaxInstIdx \in Indices
      /\ MaxInstIdx' # MaxInstIdx => MaxInstIdx' \in Targets(code, Pos)
      /\ HasTarget(Pos) => Dest(Pos) <= MaxInstIdx'
      /\ isSwitch(Pos) => Last(Dests(Pos)) <= MaxInstIdx'
  BY <1>1, <1>3, HighestTargetTypes DEF Types
<1>9. ASSUME NEW e \in Indices, Spans(code, Fn, e)
      PROVE  Pos <= e /\ MaxInstIdx' <= e
  <2>1. Pos <= e /\ MaxInstIdx <= e
    BY <1>1, <1>9 DEF Taken
  <2>2. Pos \in Fn..e
    BY <2>1, <1>2, <1>3, <1>4
  <2>3. Targets(code, Pos) \subseteq Fn..e
    BY <2>2, <1>9 DEF Spans
  <2> QED
    BY <2>1, <2>3, <1>8
<1>10. ASSUME LastEntryHighest, NEW k \in 1..Len(FuncInsts'), NEW d \in Range(Edges(FuncInsts'[k]))
       PROVE  d <= MaxInstIdx'
  <2>1. CASE k \in 1..Len(FuncInsts)
    <3>1. d \in Range(Edges(FuncInsts[k]))
      BY <2>1, <1>5
    <3>2. d <= MaxInstIdx
      BY <2>1, <3>1, <1>1, <1>10 DEF Taken
    <3>3. FuncInsts[k] \in Indices
      BY <2>1, <1>4
    <3>4. d \in Indices
      <4>1. Range(Edges(FuncInsts[k])) \subseteq 1 .. Len(code) - 1
        BY <3>3, <1>3, EdgeTypes
      <4> QED
        BY <3>1, <4>1 DEF Indices
    <3> QED
      BY <3>2, <3>4, <1>3, <1>8
  <2>2. CASE k = Len(FuncInsts) + 1
    <3>1. d \in Range(Edges(Pos))
      BY <2>2, <1>5
    <3>2. CASE HasTarget(Pos)
      BY <3>1, <3>2, <1>3, <1>8, EdgeTypes
    <3>3. CASE isSwitch(Pos)
      <4>1. d \in Range(Dests(Pos)) /\ Edges(Pos) = Dests(Pos)
        BY <3>1, <3>3, <1>3, EdgeTypes
      <4>2. d <= Last(Dests(Pos)) /\ Last(Dests(Pos)) <= MaxInstIdx'
        BY <4>1, <3>3, <1>3, <1>8, <1>10 DEF LastEntryHighest
      <4>3. d \in Int /\ Last(Dests(Pos)) \in Int
        BY <4>1, <3>3, <1>3, TargetTypes
      <4> QED
        BY <4>2, <4>3, <1>3, <1>8
    <3>4. CASE ~HasTarget(Pos) /\ ~isSwitch(Pos)
      BY <3>1, <3>4, <1>3, EdgeTypes
    <3> QED
      BY <3>2, <3>3, <3>4
  <2> QED
    BY <2>1, <2>2, <1>6
<1>11. /\ Fn <= Pos /\ Fn + Len(FuncInsts') = Pos + 1 /\ Len(FuncInsts') \in Nat
       /\ MaxInstIdx' \in Int
  <2>1. Len(FuncInsts') \in Nat /\ Len(FuncInsts') = Len(FuncInsts) + 1
    BY <1>4, <1>5
  <2>2. Fn <= Pos /\ Fn + Len(FuncInsts') = Pos + 1
    BY ONLY <2>1, <1>2, <1>3, <1>4
  <2> QED
    BY <2>1, <2>2, <1>3, <1>8
<1> QED
  BY <1>1, <1>2, <1>3, <1>5, <1>7, <1>9, <1>10, <1>11

LEMMA TakenNext ==
  ASSUME Types, Phases, Rest, Taken, [Next]_vars
  PROVE  Taken'
<1>1. code' = code /\ (LastEntryHighest' <=> LastEntryHighest) /\ Indices' = Indices
  BY ProgramKept, StaticKept
<1>2. \A i : Edges(i)' = Edges(i)
  BY <1>1, StaticKept
<1>3. CASE StartFunction
  <2>1. /\ pc = "generate" /\ Queue # <<>> /\ Queue' = Queue /\ Fn' = Head(Queue)
        /\ FuncInsts' = <<>> /\ MaxInstIdx' = 0
    BY <1>3 DEF StartFunction
  <2>2. FirstPass
    BY <2>1 DEF FirstPass
  <2>3. Fn' = Pos /\ Pos < Len(code) /\ Pos \in Nat /\ Len(code) \in Nat
    BY <2>1, <2>2, QueueParts
  <2>4. Pos' = Pos
    BY <1>1, <2>1 DEF Pos
  <2>5. Len(FuncInsts') = 0 /\ 1 .. Len(FuncInsts') = {}
    BY <2>1, EmptySequence
  <2>6. \A e \in Indices : Spans(code, Fn', e) => Pos <= e /\ 0 <= e
    BY <2>3 DEF Spans, Indices
  <2> QED
    BY <1>1, <2>1, <2>3, <2>4, <2>5, <2>6 DEF Taken
<1>4. CASE TakeInst
  <2> SUFFICES ASSUME pc' = "initFunction" PROVE Taken'
    BY DEF Taken
  <2>1. ~(isReturn(Pos) /\ Pos >= MaxInstIdx')
    BY <1>4, TakeStep DEF TakeInst
  <2>2. ASSUME NEW e \in Indices, Spans(code, Fn, e) PROVE Pos + 1 <= e
    <3>1. Pos <= e /\ MaxInstIdx' <= e /\ MaxInstIdx' \in Int /\ Pos \in Nat
      BY <1>4, <2>2, TakeStep
    <3>2. isReturn(e)
      BY <2>2 DEF Spans, isReturn, Op
    <3>3. Pos # e
      BY <3>1, <3>2, <2>1
    <3>4. e \in Nat
      BY CodeTypes DEF Indices
    <3> QED
      BY ONLY <3>1, <3>3, <3>4
  <2>3. PICK e \in Indices : Spans(code, Fn, e)
    BY <1>4, Piece, TakeStep
  <2>4. Pos + 1 < Len(code)
    <3>1. Pos + 1 <= e
      BY <2>2, <2>3
    <3>2. Pos \in Nat
      BY <1>4, TakeStep
    <3>3. Len(code) \in Nat /\ e \in 0 .. Len(code) - 1
      BY CodeTypes DEF Indices, Types
    <3> QED
      BY ONLY <3>1, <3>2, <3>3
  <2>5. /\ Fn' + Len(FuncInsts') = Pos' /\ Pos' = Pos + 1
        /\ \A k \in 1..Len(FuncInsts') : FuncInsts'[k] = Fn' + k - 1
        /\ \A x \in Indices : Spans(code, Fn', x) => Pos' <= x /\ MaxInstIdx' <= x
    BY <1>4, <2>2, TakeStep
  <2>6. LastEntryHighest =>
          \A k \in 1..Len(FuncInsts') : \A d \in Range(Edges(FuncInsts'[k])) : d <= MaxInstIdx'
    BY <1>4, TakeStep
  <2> QED
    BY <1>1, <1>2, <2>4, <2>5, <2>6 DEF Taken
<1>5. CASE UNCHANGED vars
  <2>1. Pos' = Pos
    BY <1>5 DEF vars, scan, Pos
  <2> QED
    BY <1>1, <1>2, <1>5, <2>1 DEF Taken, vars, scan
<1>6. CASE pc' # "initFunction"
  BY <1>6 DEF Taken
<1>7. StartFunction \/ TakeInst \/ UNCHANGED vars \/ pc' # "initFunction"
  BY DEF Next, Annotate, LeaveToMain, StartMain, Sift, Sifted, MakeBlocks, Fill, NullBlock, Filled,
         Prune
<1> QED
  BY <1>3, <1>4, <1>5, <1>6, <1>7

\* Instruction after instruction of a function, up to its end
LEMMA FunctionTaken ==
  ASSUME code \in Programs, NEW f \in Starts(code), NEW e \in Indices, Spans(code, f, e),
         NEW p \in Indices, f <= p, p <= e, isReturn(p),
         NEW s \in Seq(Indices), f + Len(s) = p + 1, s # <<>>, Last(s) = p,
         \A k \in 1..Len(s) : s[k] = f + k - 1
  PROVE  /\ s[1] = f /\ Sorted(s) /\ Unbroken(s) /\ ~RunsOn(Last(s))
         /\ \A k \in 2..Len(s) : s[k] \notin Starts(code)
         /\ NoDeadCode => StraightSeq(s)
         /\ \A i \in Range(s) : \A d \in Range(Edges(i)) : d <= p => d \in Range(s)
<1>1. /\ Len(code) \in Nat /\ Indices = 0 .. Len(code) - 1 /\ f \in Nat /\ p \in Nat /\ e \in Nat
      /\ f # 0 /\ Len(s) \in Nat
  BY CodeTypes, LabelTypes DEF Indices
<1>2. PICK n \in Nat : n = Len(s)
  BY <1>1
<1>3. f + n = p + 1 /\ 1 \in 1..n /\ \A k \in 1..n : s[k] = f + k - 1
  BY <1>1, <1>2
<1>4. /\ \A i \in f..e : Targets(code, i) \subseteq f..e
      /\ \A i \in f + 1 .. e : i \notin Starts(code)
      /\ Op(e) \in Ends
  BY DEF Spans, Op
<1>5. s[1] = f /\ Sorted(s)
  <2>1. \A k, l \in 1..n : k < l => f + k - 1 < f + l - 1
    BY <1>1
  <2> QED
    BY <1>1, <1>2, <1>3, <2>1 DEF Sorted
<1>6. ASSUME NEW k \in 1 .. n - 1
      PROVE  /\ k \in 1..n /\ k + 1 \in 1..n /\ s[k + 1] = s[k] + 1
             /\ s[k] \in Indices /\ s[k] + 1 \in f + 1 .. p
  <2>1. k \in 1..n /\ k + 1 \in 1..n
    BY <1>2
  <2>2. s[k] = f + k - 1 /\ s[k + 1] = f + (k + 1) - 1
    BY <2>1, <1>3
  <2> QED
    BY <2>1, <2>2, <1>1, <1>2, <1>3
<1>7. Unbroken(s) /\ ~RunsOn(Last(s))
  BY <1>2, <1>6 DEF Unbroken, RunsOn, Leaving, isReturn
<1>8. \A k \in 2..Len(s) : s[k] \notin Starts(code)
  <2>1. \A k \in 2..n : k \in 1..n /\ f + k - 1 \in f + 1 .. e
    BY <1>1, <1>2, <1>3
  <2> QED
    BY <2>1, <1>2, <1>3, <1>4
<1>9. ASSUME NoDeadCode, NEW k \in 1 .. n - 1, EndsBlock(s[k])
      PROVE  IsLabel(s[k + 1])
  <2> DEFINE j == s[k]
             i == s[k] + 1
  <2>1. /\ j \in Indices /\ i \in f + 1 .. p /\ s[k + 1] = i /\ j \in Nat
    BY <1>6, <1>1
  <2>2. i \in f + 1 .. e /\ i \in Indices \ {0} /\ i - 1 = j
    <3>1. PICK x \in Nat : x = s[k]
      BY <2>1
    <3>2. x + 1 \in f + 1 .. p
      BY <2>1, <3>1
    <3>3. x + 1 \in f + 1 .. e /\ x + 1 \in Indices \ {0} /\ (x + 1) - 1 = x
      BY <3>2, <1>1
    <3> QED
      BY <3>1, <3>3
  <2> HIDE DEF i, j
  <2>3. CASE Op(j) \in Jumps
    <3>1. i \in BlockTargets(j)
      BY <2>2, <2>3, <2>1 DEF BlockTargets
    <3> QED
      BY <3>1, <2>1 DEF IsLabel
  <2>4. CASE Op(j) \in Ends \cup {"SWITCH"}
    <3>1. IsLabel(i) \/ i \in Starts(code) \/ (Op(i) = "RESTART" /\ i + 1 \in Starts(code))
      BY <2>2, <2>4, <1>9 DEF NoDeadCode
    <3>2. i \notin Starts(code)
      BY <2>2, <1>4
    <3>3. CASE i = e
      BY <3>1, <3>2, <3>3, <2>1, <1>4 DEF Ends
    <3>4. CASE i # e
      <4>1. i + 1 \in f + 1 .. e
        BY <2>2, <3>4, <1>1
      <4> QED
        BY <4>1, <3>1, <3>2, <2>1, <1>4
    <3> QED
      BY <3>3, <3>4
  <2>5. EndsBlock(j)
    BY <1>9 DEF j
  <2> QED
    BY <2>3, <2>4, <2>5 DEF EndsBlock
<1>10. NoDeadCode => StraightSeq(s)
  BY <1>2, <1>6, <1>9 DEF StraightSeq, Follows
<1>11. ASSUME NEW i \in Range(s), NEW d \in Range(Edges(i)), d <= p
       PROVE  d \in Range(s)
  <2>1. PICK k \in 1..n : i = s[k]
    BY <1>2 DEF Range
  <2>2. i = f + k - 1
    BY <2>1, <1>3
  <2>3. i \in f..e /\ i \in Indices
    BY <2>2, <1>1, <1>3
  <2>4. d \in Targets(code, i)
    BY <2>3, EdgeTypes
  <2>5. d \in f..e
    BY <2>3, <2>4, <1>4
  <2>6. d - f + 1 \in 1..n /\ f + (d - f + 1) - 1 = d
    BY <2>5, <1>11, <1>1, <1>3
  <2>7. s[d - f + 1] = d
    BY <2>6, <1>3
  <2> QED
    BY <2>6, <2>7, <1>2 DEF Range
<1> QED
  BY <1>5, <1>7, <1>8, <1>10, <1>11

LEMMA ListedNext ==
  ASSUME Types, Phases, Rest, Taken, Sifting, Listed, [Next]_vars
  PROVE  Listed'
<1>1. /\ code' = code /\ Starts(code)' = Starts(code) /\ Indices' = Indices
      /\ LastEntryHighest' <=> LastEntryHighest
      /\ NoDeadCode' <=> NoDeadCode
      /\ \A i : Edges(i)' = Edges(i) /\ (RunsOn(i)' <=> RunsOn(i))
      /\ \A s : (Unbroken(s)' <=> Unbroken(s)) /\ (StraightSeq(s)' <=> StraightSeq(s))
  BY ProgramKept, StaticKept
<1>2. CASE TakeInst
  <2> SUFFICES ASSUME pc' = "makeBlocks" PROVE Listed'
    BY DEF Listed
  <2>1. isReturn(Pos) /\ Pos >= MaxInstIdx'
    BY <1>2, TakeStep DEF TakeInst
  <2>2. PICK e \in Indices : Spans(code, Fn, e)
    BY <1>2, Piece, TakeStep
  <2>3. /\ code \in Programs /\ Fn \in Starts(code) /\ Fn' = Fn /\ Pos \in Indices /\ Fn <= Pos /\ Pos <= e
        /\ FuncInsts' \in Seq(Indices) /\ Fn + Len(FuncInsts') = Pos + 1 /\ FuncInsts' # <<>>
        /\ Last(FuncInsts') = Pos /\ \A k \in 1..Len(FuncInsts') : FuncInsts'[k] = Fn + k - 1
        /\ Pos' = Pos + 1 /\ Pos \in Nat /\ Fn \in Nat
    BY <1>2, <2>2, TakeStep DEF Types
  <2>4. /\ FuncInsts'[1] = Fn /\ Sorted(FuncInsts') /\ Unbroken(FuncInsts') /\ ~RunsOn(Last(FuncInsts'))
        /\ \A k \in 2..Len(FuncInsts') : FuncInsts'[k] \notin Starts(code)
        /\ NoDeadCode => StraightSeq(FuncInsts')
        /\ \A i \in Range(FuncInsts') : \A d \in Range(Edges(i)) : d <= Pos => d \in Range(FuncInsts')
    BY <2>1, <2>2, <2>3, FunctionTaken
  <2>5. ASSUME LastEntryHighest, NEW i \in Range(FuncInsts'), NEW d \in Range(Edges(i))
        PROVE  d \in Range(FuncInsts')
    <3>1. PICK k \in 1..Len(FuncInsts') : i = FuncInsts'[k]
      BY DEF Range
    <3>2. d <= MaxInstIdx' /\ MaxInstIdx' \in Int
      BY <1>2, <2>5, <3>1, TakeStep
    <3>3. i \in Indices
      BY <2>3, <3>1
    <3>4. d \in 1 .. Len(code) - 1 /\ Len(code) \in Nat
      BY <3>3, <2>3, EdgeTypes, CodeTypes
    <3>5. d <= Pos
      BY <3>2, <3>4, <2>1, <2>3
    <3> QED
      BY <3>5, <2>4
  <2>6. Fn < Pos + 1
    BY <2>3
  <2> QED
    BY <1>1, <2>3, <2>4, <2>5, <2>6 DEF Listed
<1>3. CASE Sifted
  <2>1. /\ pc = "removeDeadInstructions" /\ Queue = <<>> /\ FuncInsts' = FuncInsts /\ Fn' = Fn
        /\ Fn = MAIN
    BY <1>3 DEF Sifted, scan, Phases
  <2>2. FuncInsts # <<>> /\ FuncInsts[1] = MAIN /\ ~RunsOn(Last(FuncInsts))
    BY <2>1 DEF Sifting, MAIN
  <2>3. \A k \in 2..Len(FuncInsts) : k \in 1..Len(FuncInsts)
    BY Element DEF Types
  <2> QED
    BY <1>1, <2>1, <2>2, <2>3 DEF Listed, Sifting, NoStarts
<1>4. CASE UNCHANGED vars
  <2>1. Pos' = Pos
    BY <1>4 DEF vars, scan, Pos
  <2> QED
    BY <1>1, <1>4, <2>1 DEF Listed, vars, scan
<1>5. CASE pc' # "makeBlocks"
  BY <1>5 DEF Listed
<1>6. TakeInst \/ Sifted \/ UNCHANGED vars \/ pc' # "makeBlocks"
  BY DEF Next, Annotate, StartFunction, LeaveToMain, StartMain, Sift, MakeBlocks, Fill, NullBlock,
         Filled, Prune
<1> QED
  BY <1>2, <1>3, <1>4, <1>5, <1>6

-----------------------------------------------------------------------------
(* The main code *)

LEMMA NextIsLabel ==
  ASSUME code \in Programs, NoDeadCode, NEW j \in Indices, j + 1 \in Indices,
         EndsBlock(j) \/ Op(j) = "RESTART", j + 1 \notin Starts(code), Op(j + 1) # "RESTART"
  PROVE  IsLabel(j + 1)
<1>1. j \in Nat
  BY DEF Indices
<1>2. j + 1 \in Indices \ {0} /\ (j + 1) - 1 = j
  BY <1>1
<1>3. CASE Op(j) \in Jumps
  BY <1>3 DEF IsLabel, BlockTargets
<1>4. CASE Op(j) \in Ends \cup {"SWITCH", "RESTART"}
  BY <1>2, <1>4 DEF NoDeadCode
<1> QED
  BY <1>3, <1>4 DEF EndsBlock

\* What stays while MainInsts does not change
LEMMA MainInstsKept ==
  ASSUME code' = code, MainInsts' = MainInsts
  PROVE  /\ Sorted(MainInsts') <=> Sorted(MainInsts)
         /\ NoStarts(MainInsts)' <=> NoStarts(MainInsts)
         /\ Unbroken(MainInsts)' <=> Unbroken(MainInsts)
         /\ StraightSeq(MainInsts)' <=> StraightSeq(MainInsts)
         /\ \A i : Op(i)' = Op(i) /\ (RunsOn(i)' <=> RunsOn(i))
         /\ NoDeadCode' <=> NoDeadCode
         /\ Starts(code)' = Starts(code)
<1>1. /\ \A s : /\ Unbroken(s)' <=> Unbroken(s)
                /\ StraightSeq(s)' <=> StraightSeq(s)
                /\ NoStarts(s)' <=> NoStarts(s)
      /\ \A i : Op(i)' = Op(i) /\ (RunsOn(i)' <=> RunsOn(i))
      /\ NoDeadCode' <=> NoDeadCode
  BY StaticKept
<1> QED
  BY <1>1

LEMMA MainInstsParts ==
  ASSUME Types, LeftToMain, FirstPass
  PROVE  /\ MainInsts \in Seq(Indices) /\ Len(MainInsts) \in Nat
         /\ MainInsts # <<>> => /\ Last(MainInsts) \in Indices /\ Last(MainInsts) < Pos
                                /\ Op(Last(MainInsts)) # "RESTART"
                                /\ 1 \in 1..Len(MainInsts)
<1>1. MainInsts \in Seq(Indices) /\ Len(MainInsts) \in Nat
  BY DEF Types
<1>2. MainInsts # <<>> => Len(MainInsts) \in 1..Len(MainInsts) /\ 1 \in 1..Len(MainInsts)
  BY <1>1
<1> QED
  BY <1>1, <1>2 DEF Last, LeftToMain

\* Instruction Pos is left to the main code.
LEMMA LeaveStep ==
  ASSUME Types, Rest, Covered, LeftToMain, LeaveToMain
  PROVE  LeftToMain'
<1>1. /\ pc = "generate" /\ pc' = "generate" /\ Queue # <<>> /\ Queue' = Tail(Queue) /\ code' = code
      /\ Annotation[Head(Queue)] # "FUNCTION_START"
      /\ MaxBranch' = MaxBranch /\ SmallestCondBranch' = SmallestCondBranch
  BY DEF LeaveToMain
<1>2. FirstPass /\ code \in Programs
  BY <1>1 DEF FirstPass, Types
<1>3. /\ Head(Queue) = Pos /\ Pos \in Indices /\ Pos' = Pos + 1 /\ Pos \in Nat /\ Pos < Len(code)
      /\ Indices = 0 .. Len(code) - 1 /\ Len(code) \in Nat
  BY <1>1, <1>2, TakesOne
<1>4. Pos \notin Starts(code)
  BY <1>1, <1>2, <1>3 DEF Covered
<1>5. /\ MainInsts \in Seq(Indices) /\ Len(MainInsts) \in Nat
      /\ MainInsts # <<>> => /\ Last(MainInsts) \in Indices /\ Last(MainInsts) < Pos
                             /\ Op(Last(MainInsts)) # "RESTART"
                             /\ 1 \in 1..Len(MainInsts)
  BY <1>2, MainInstsParts
<1>6. /\ Sorted(MainInsts) /\ NoStarts(MainInsts) /\ Unbroken(MainInsts)
      /\ \A k \in 1..Len(MainInsts) : MainInsts[k] < Pos /\ Op(MainInsts[k]) # "RESTART"
      /\ Pos > 0 => MainInsts # <<>> /\ MainInsts[1] = 0
      /\ MainInsts # <<>> /\ RunsOn(Last(MainInsts)) => Last(MainInsts) + 1 = Pos
      /\ MaxBranch = 0 /\ SmallestCondBranch = 0
      /\ NoDeadCode => /\ StraightSeq(MainInsts)
                       /\ Pos > 0 => Op(Pos - 1) \in Ends \cup {"RESTART"} \/ Last(MainInsts) = Pos - 1
  BY <1>1, <1>2 DEF LeftToMain
<1>7. /\ \A i : Op(i)' = Op(i) /\ (RunsOn(i)' <=> RunsOn(i))
      /\ NoDeadCode' <=> NoDeadCode
      /\ \A s : /\ Unbroken(s)' <=> Unbroken(s)
                /\ StraightSeq(s)' <=> StraightSeq(s)
                /\ NoStarts(s)' <=> NoStarts(s)
  BY <1>1, StaticKept
<1>8. CASE Op(Pos) # "RESTART"
  <2>1. MainInsts' = Append(MainInsts, Pos)
    BY <1>3, <1>8 DEF LeaveToMain
  <2>2. /\ MainInsts' \in Seq(Indices) /\ Len(MainInsts') = Len(MainInsts) + 1
        /\ \A k \in 1..Len(MainInsts) : MainInsts'[k] = MainInsts[k]
        /\ MainInsts'[Len(MainInsts) + 1] = Pos /\ MainInsts' # <<>> /\ Last(MainInsts') = Pos
    BY <2>1, <1>3, <1>5, AppendParts
  <2>3. /\ Sorted(MainInsts') /\ Unbroken(MainInsts') /\ NoStarts(MainInsts')
    BY <2>1, <1>2, <1>3, <1>4, <1>5, <1>6, AppendInOrder
  <2>4. NoDeadCode /\ MainInsts # <<>> => Follows(Last(MainInsts), Pos)
    <3> SUFFICES ASSUME NoDeadCode, MainInsts # <<>>, ~IsLabel(Pos)
                 PROVE  Pos = Last(MainInsts) + 1 /\ ~EndsBlock(Last(MainInsts))
      BY DEF Follows
    <3>1. Last(MainInsts) \in Nat /\ Pos > 0
      BY <1>3, <1>5
    <3>2. Pos - 1 \in Indices /\ (Pos - 1) + 1 = Pos
      BY <1>3, <3>1
    <3>3. ~EndsBlock(Pos - 1) /\ Op(Pos - 1) # "RESTART"
      BY <3>2, <1>2, <1>3, <1>4, <1>8, NextIsLabel
    <3>4. Last(MainInsts) = Pos - 1
      BY <3>1, <3>3, <1>6 DEF EndsBlock
    <3> QED
      BY <3>2, <3>3, <3>4
  <2>5. NoDeadCode => StraightSeq(MainInsts')
    BY <2>1, <2>4, <1>2, <1>3, <1>5, <1>6, AppendInOrder
  <2>6. ASSUME NEW k \in 1..Len(MainInsts') PROVE MainInsts'[k] < Pos' /\ Op(MainInsts'[k]) # "RESTART"
    <3>1. k \in 1..Len(MainInsts) \/ k = Len(MainInsts) + 1
      BY <1>5, <2>2
    <3>2. CASE k \in 1..Len(MainInsts)
      <4>1. MainInsts'[k] < Pos /\ MainInsts'[k] \in Indices /\ Op(MainInsts'[k]) # "RESTART"
        BY <3>2, <2>2, <1>5, <1>6
      <4> QED
        BY <4>1, <1>3
    <3>3. CASE k = Len(MainInsts) + 1
      BY <3>3, <2>2, <1>3, <1>8
    <3> QED
      BY <3>1, <3>2, <3>3
  <2>7. MainInsts'[1] = 0
    <3>1. CASE MainInsts = <<>>
      <4>1. Pos = 0
        BY <3>1, <1>3, <1>6
      <4>2. Len(MainInsts) + 1 = 1
        BY <3>1, EmptySequence
      <4> QED
        BY <4>1, <4>2, <2>2
    <3>2. CASE MainInsts # <<>>
      BY <3>2, <1>3, <1>5, <1>6, <2>2
    <3> QED
      BY <3>1, <3>2
  <2>8. Last(MainInsts') = Pos' - 1 /\ Last(MainInsts') + 1 = Pos'
    BY <2>2, <1>3
  <2> QED
    BY <2>2, <2>3, <2>5, <2>6, <2>7, <2>8, <1>1, <1>6, <1>7 DEF LeftToMain
<1>9. CASE Op(Pos) = "RESTART"
  <2>1. MainInsts' = MainInsts
    BY <1>3, <1>9 DEF LeaveToMain
  <2>2. Pos > 0
    <3>1. Pos # 0
      BY <1>9, <1>2, TargetTypes
    <3> QED
      BY <3>1, <1>3
  <2>3. MainInsts # <<>> => ~RunsOn(Last(MainInsts))
    BY <1>2, <1>5, <1>6, <1>9, NothingRunsIntoFunctions
  <2>4. \A k \in 1..Len(MainInsts) : MainInsts[k] < Pos + 1
    <3>1. \A k \in 1..Len(MainInsts) : MainInsts[k] \in Indices /\ MainInsts[k] < Pos
      BY <1>5, <1>6
    <3> QED
      BY <3>1, <1>3
  <2>5. Op(Pos' - 1) = "RESTART"
    <3>1. Pos' - 1 = Pos
      BY <1>3
    <3> QED
      BY <3>1, <1>9
  <2> QED
    BY <2>1, <2>2, <2>3, <2>4, <2>5, <1>1, <1>3, <1>6, <1>7 DEF LeftToMain
<1> QED
  BY <1>8, <1>9

LEMMA LeftToMainNext ==
  ASSUME Types, Phases, Annotations, Rest, Covered, Taken, LeftToMain, [Next]_vars
  PROVE  LeftToMain'
<1> SUFFICES ASSUME FirstPass' PROVE LeftToMain'
  BY DEF LeftToMain
<1>1. code' = code /\ FirstPass /\ code \in Programs
  BY ProgramKept, FirstPassBefore DEF Types
<1>2. CASE LeaveToMain
  BY <1>2, LeaveStep
<1>3. CASE Sift \/ Sifted \/ StartMain
  BY <1>3 DEF Sift, Sifted, StartMain, Phases, FirstPass
<1>4. CASE MainInsts' = MainInsts /\ MaxBranch' = MaxBranch /\ SmallestCondBranch' = SmallestCondBranch
  <2>1. /\ Sorted(MainInsts') <=> Sorted(MainInsts)
        /\ NoStarts(MainInsts)' <=> NoStarts(MainInsts)
        /\ Unbroken(MainInsts)' <=> Unbroken(MainInsts)
        /\ StraightSeq(MainInsts)' <=> StraightSeq(MainInsts)
        /\ \A i : Op(i)' = Op(i) /\ (RunsOn(i)' <=> RunsOn(i))
        /\ NoDeadCode' <=> NoDeadCode
    BY <1>1, <1>4, MainInstsKept
  <2>2. CASE TakeInst
    <3>1. /\ pc = "initFunction" /\ Pos' = Pos + 1 /\ Pos \in Nat /\ Fn \in Starts(code) /\ Fn <= Pos
          /\ pc' = "makeBlocks" => isReturn(Pos)
          /\ pc' # "generate"
      BY <2>2, TakeStep DEF TakeInst
    <3>2. Fn \in Nat /\ Fn > 0 /\ Len(code) \in Nat
      BY <3>1, <1>1, LabelTypes, CodeTypes
    <3>3. Pos > 0 /\ Pos' > 0 /\ Pos' - 1 = Pos
      BY ONLY <3>1, <3>2
    <3>4. \A k \in 1..Len(MainInsts) : MainInsts[k] < Pos'
      <4>1. \A k \in 1..Len(MainInsts) : MainInsts[k] \in Nat
        BY DEF Types, Indices
      <4>2. \A k \in 1..Len(MainInsts) : MainInsts[k] < Pos
        BY <1>1 DEF LeftToMain
      <4>3. \A n \in Nat : n < Pos => n < Pos'
        BY ONLY <3>1
      <4> QED
        BY ONLY <4>1, <4>2, <4>3
    <3>5. pc' = "makeBlocks" => Op(Pos' - 1) \in Ends
      BY <3>1, <3>3 DEF isReturn
    <3>6. pc' \in {"initFunction", "makeBlocks"}
      BY <2>2 DEF TakeInst
    <3> QED
      BY <1>1, <1>4, <2>1, <3>1, <3>3, <3>4, <3>5, <3>6 DEF LeftToMain
  <2>3. CASE StartFunction
    <3>1. /\ pc = "generate" /\ pc' = "initFunction" /\ Queue # <<>> /\ Queue' = Queue
          /\ Annotation[Head(Queue)] = "FUNCTION_START"
      BY <2>3 DEF StartFunction
    <3>2. Pos' = Pos
      BY <1>1, <3>1 DEF Pos
    <3>3. Head(Queue) = Pos /\ Pos \in Indices
      BY <3>1, <1>1, QueueParts
    <3>4. Pos \in Starts(code)
      BY <3>1, <3>3 DEF Annotations
    <3>5. MainInsts # <<>> => ~RunsOn(Last(MainInsts))
      <4> SUFFICES ASSUME MainInsts # <<>>, RunsOn(Last(MainInsts)) PROVE FALSE
        OBVIOUS
      <4>1. Last(MainInsts) \in Indices /\ Op(Last(MainInsts)) # "RESTART"
        BY <1>1, MainInstsParts
      <4>2. Last(MainInsts) + 1 = Pos
        BY <1>1 DEF LeftToMain
      <4> QED
        BY <4>1, <4>2, <3>4, <1>1, NothingRunsIntoFunctions
    <3> QED
      BY <1>1, <1>4, <2>1, <3>1, <3>2, <3>5 DEF LeftToMain
  <2>4. CASE Annotate
    <3>1. Pos' = Pos /\ Pos = 0 /\ pc = "annotateNodes" /\ pc' \in {"annotateNodes", "generate"}
      BY <1>1, <2>4 DEF Annotate, scan, Pos, Phases
    <3> QED
      BY <1>1, <1>4, <2>1, <3>1 DEF LeftToMain
  <2>5. CASE MakeBlocks \/ Fill \/ NullBlock \/ Filled
    <3>1. /\ pc \in {"makeBlocks", "generateFunction"} /\ Queue' = Queue
          /\ pc' \in {"generateFunction", "crash", "removeUnusedBlocks"}
      BY <2>5 DEF MakeBlocks, Fill, NullBlock, Filled, scan
    <3>2. Pos' = Pos
      BY <1>1, <3>1 DEF Pos
    <3> QED
      BY <1>1, <1>4, <2>1, <3>1, <3>2 DEF LeftToMain
  <2>6. CASE Prune
    <3>1. /\ pc = "removeUnusedBlocks" /\ Queue' = Queue
          /\ pc' \in {"removeUnusedBlocks", "done", "generate"}
      BY <2>6 DEF Prune, scan
    <3>2. Pos' = Pos
      BY <1>1, <3>1 DEF Pos
    <3>3. NoDeadCode => Op(Pos - 1) \in Ends
      BY <1>1, <3>1 DEF LeftToMain
    <3> QED
      BY <1>1, <1>4, <2>1, <3>1, <3>2, <3>3 DEF LeftToMain
  <2>7. CASE UNCHANGED vars
    <3>1. Pos' = Pos /\ pc' = pc
      BY <2>7 DEF vars, scan, Pos
    <3> QED
      BY <1>1, <1>4, <2>1, <3>1 DEF LeftToMain
  <2> QED
    BY <1>2, <1>3, <2>2, <2>3, <2>4, <2>5, <2>6, <2>7 DEF Next
<1>5. \/ LeaveToMain \/ Sift \/ Sifted \/ StartMain
      \/ (MainInsts' = MainInsts /\ MaxBranch' = MaxBranch /\ SmallestCondBranch' = SmallestCondBranch)
  BY DEF Next, vars, Annotate, StartFunction, TakeInst, scan, MakeBlocks, Fill, NullBlock, Filled, Prune
<1> QED
  BY <1>2, <1>3, <1>4, <1>5

\* What makes an instruction after i kept
LEMMA KeptStays ==
  ASSUME Types, NEW i \in Indices, Kept(i), RunsOn(i),
         SmallestCondBranch' = IF Kept(i) /\ LowersCondBranch(i) THEN Dest(i) ELSE SmallestCondBranch,
         MaxBranch' = IF Kept(i) /\ Op(i) = "BRANCH" THEN Dest(i) ELSE MaxBranch
  PROVE  i + 1 >= MaxBranch' \/ (i + 1 >= SmallestCondBranch' /\ SmallestCondBranch' > 0)
<1>1. /\ MaxBranch' = MaxBranch /\ MaxBranch \in Nat /\ SmallestCondBranch \in Nat /\ i \in Nat
  BY DEF RunsOn, Leaving, Types, Indices
<1>2. LowersCondBranch(i) => Dest(i) \in Nat /\ Dest(i) > 0
  <2>1. LowersCondBranch(i) => HasTarget(i)
    BY DEF LowersCondBranch, HasTarget, Jumps, isPushTrap
  <2>2. code \in Programs /\ Len(code) \in Nat
    BY CodeTypes DEF Types
  <2>3. HasTarget(i) => Dest(i) \in Range(Dests(i))
    BY <2>2, TargetTypes
  <2>4. \A d \in Range(Dests(i)) : d \in 1 .. Len(code) - 1
    BY <2>2, TargetTypes
  <2> QED
    BY <2>1, <2>2, <2>3, <2>4
<1>3. CASE i >= MaxBranch
  BY <1>1, <1>3
<1>4. CASE i >= SmallestCondBranch /\ SmallestCondBranch > 0
  <2>1. CASE LowersCondBranch(i)
    <3>1. SmallestCondBranch' = Dest(i) /\ SmallestCondBranch > Dest(i)
      BY <2>1, <1>1, <1>4 DEF LowersCondBranch
    <3> QED
      BY <3>1, <2>1, <1>1, <1>2, <1>4
  <2>2. CASE ~LowersCondBranch(i)
    BY <2>2, <1>1, <1>4
  <2> QED
    BY <2>1, <2>2
<1> QED
  BY <1>3, <1>4 DEF Kept

LEMMA SiftStep ==
  ASSUME Types, Sifting, Sift
  PROVE  Sifting'
<1>0. Queue # <<>> /\ Queue \in Seq(Indices) /\ Queue' = Tail(Queue)
  BY DEF Sift, Types
<1>. PICK i \in Indices : i = Head(Queue)
  BY <1>0, TailParts
<1>1. /\ pc = "removeDeadInstructions" /\ Queue # <<>> /\ Queue' = Tail(Queue) /\ code' = code
      /\ FuncInsts' = IF Kept(i) THEN Append(FuncInsts, i) ELSE FuncInsts
      /\ SmallestCondBranch' = IF Kept(i) /\ LowersCondBranch(i) THEN Dest(i) ELSE SmallestCondBranch
      /\ MaxBranch' = IF Kept(i) /\ Op(i) = "BRANCH" THEN Dest(i) ELSE MaxBranch
  BY DEF Sift
<1>2. /\ code \in Programs /\ Queue \in Seq(Indices) /\ FuncInsts \in Seq(Indices)
      /\ Len(FuncInsts) \in Nat /\ Len(Queue) \in Nat
      /\ MaxBranch \in Nat /\ SmallestCondBranch \in Nat
  BY DEF Types, Indices
<1>3. /\ Tail(Queue) \in Seq(Indices) /\ Len(Queue) > 0 /\ Len(Tail(Queue)) = Len(Queue) - 1
      /\ \A k \in 1 .. Len(Queue) - 1 : Tail(Queue)[k] = Queue[k + 1] /\ k + 1 \in 1..Len(Queue)
      /\ i = Queue[1] /\ i \in Indices /\ i \in Nat
      /\ Tail(Queue) # <<>> => Last(Tail(Queue)) = Last(Queue)
      /\ Tail(Queue) = <<>> => Last(Queue) = i
      /\ 1 \in 1..Len(Queue)
  <2>1. i \in Nat
    BY DEF Indices
  <2>2. Len(Queue) > 0
    BY <1>0, TailParts
  <2> QED
    BY <1>0, <1>2, <2>1, <2>2, TailParts
<1>4. /\ Sorted(Queue) /\ Sorted(FuncInsts) /\ NoStarts(Queue) /\ NoStarts(FuncInsts)
      /\ \A k \in 1..Len(FuncInsts) : \A l \in 1..Len(Queue) : FuncInsts[k] < Queue[l]
      /\ Unbroken(Queue) /\ Unbroken(FuncInsts) /\ ~RunsOn(Last(Queue))
      /\ FuncInsts = <<>> => i = 0 /\ MaxBranch = 0
      /\ FuncInsts # <<>> => /\ FuncInsts[1] = 0
                             /\ RunsOn(Last(FuncInsts)) => i = Last(FuncInsts) + 1 /\ Kept(i)
      /\ MaxBranch = 0 \/ IsLabel(MaxBranch)
      /\ SmallestCondBranch = 0 \/ IsLabel(SmallestCondBranch)
      /\ NoDeadCode =>
           /\ StraightSeq(Queue) /\ StraightSeq(FuncInsts)
           /\ FuncInsts # <<>> /\ Kept(i) => Follows(Last(FuncInsts), i)
  BY <1>1, <1>3 DEF Sifting
<1>5. /\ Sorted(Queue') /\ Unbroken(Queue') /\ NoStarts(Queue') /\ i \notin Starts(code)
      /\ \A k \in 1..Len(Queue') : i < Queue'[k]
      /\ NoDeadCode => StraightSeq(Queue')
      /\ Queue' # <<>> => /\ RunsOn(i) => Queue'[1] = i + 1
                          /\ NoDeadCode => Follows(i, Queue'[1])
  BY <1>1, <1>2, <1>4, TailInOrder
<1>6. Queue' # <<>> => ~RunsOn(Last(Queue'))
  BY <1>1, <1>3, <1>4
<1>7. /\ \A s : /\ Unbroken(s)' <=> Unbroken(s)
                /\ StraightSeq(s)' <=> StraightSeq(s)
                /\ NoStarts(s)' <=> NoStarts(s)
      /\ \A j : (RunsOn(j)' <=> RunsOn(j)) /\ (IsLabel(j)' <=> IsLabel(j))
      /\ \A j, k : Follows(j, k)' <=> Follows(j, k)
      /\ NoDeadCode' <=> NoDeadCode
  BY <1>1, StaticKept
<1>8. \A k \in 1..Len(FuncInsts) : \A l \in 1..Len(Queue') : FuncInsts[k] < Queue'[l]
  BY <1>1, <1>3, <1>4
<1>9. \A j : Kept(j)' <=> j >= MaxBranch' \/ (j >= SmallestCondBranch' /\ SmallestCondBranch' > 0)
  BY DEF Kept
<1>10. CASE Kept(i)
  <2>1. FuncInsts' = Append(FuncInsts, i)
    BY <1>1, <1>10
  <2>2. /\ Len(FuncInsts') = Len(FuncInsts) + 1
        /\ \A k \in 1..Len(FuncInsts) : FuncInsts'[k] = FuncInsts[k]
        /\ FuncInsts'[Len(FuncInsts) + 1] = i /\ FuncInsts' # <<>> /\ Last(FuncInsts') = i
    BY <2>1, <1>2, <1>3, AppendParts
  <2>3. \A k \in 1..Len(FuncInsts') : k \in 1..Len(FuncInsts) \/ k = Len(FuncInsts) + 1
    BY <2>2, <1>2
  <2>4. \A k \in 1..Len(FuncInsts) : FuncInsts[k] < i
    BY <1>3, <1>4
  <2>5. Sorted(FuncInsts') /\ Unbroken(FuncInsts') /\ NoStarts(FuncInsts')
    <3>1. Sorted(FuncInsts')
      BY <2>1, <2>4, <1>2, <1>3, <1>4, AppendInOrder
    <3>2. Unbroken(FuncInsts')
      BY <2>1, <1>2, <1>3, <1>4, AppendInOrder
    <3>3. NoStarts(FuncInsts')
      BY <2>1, <1>2, <1>3, <1>4, <1>5, AppendInOrder
    <3> QED
      BY <3>1, <3>2, <3>3
  <2>6. NoDeadCode => StraightSeq(FuncInsts')
    BY <2>1, <1>2, <1>3, <1>4, <1>10, AppendInOrder
  <2>7. \A k \in 1..Len(FuncInsts') : \A l \in 1..Len(Queue') : FuncInsts'[k] < Queue'[l]
    BY <2>2, <2>3, <1>5, <1>8
  <2>8. FuncInsts'[1] = 0
    <3>1. CASE FuncInsts = <<>>
      <4>1. Len(FuncInsts) + 1 = 1
        BY <3>1, EmptySequence
      <4> QED
        BY <4>1, <3>1, <2>2, <1>4
    <3>2. CASE FuncInsts # <<>>
      <4>1. 1 \in 1..Len(FuncInsts)
        BY <3>2, <1>2
      <4> QED
        BY <4>1, <3>2, <2>2, <1>4
    <3> QED
      BY <3>1, <3>2
  <2>9. RunsOn(i) => Queue' # <<>> /\ Queue'[1] = i + 1 /\ Kept(i + 1)'
    <3> SUFFICES ASSUME RunsOn(i) PROVE Queue' # <<>> /\ Queue'[1] = i + 1 /\ Kept(i + 1)'
      OBVIOUS
    <3>1. Queue' # <<>>
      BY <1>1, <1>3, <1>4
    <3>2. Kept(i + 1)'
      BY <1>1, <1>3, <1>9, <1>10, KeptStays
    <3> QED
      BY <3>1, <3>2, <1>5
  <2>10. /\ MaxBranch' = 0 \/ IsLabel(MaxBranch')
         /\ SmallestCondBranch' = 0 \/ IsLabel(SmallestCondBranch')
    <3>1. HasTarget(i) => IsLabel(Dest(i))
      <4>1. HasTarget(i) => Dest(i) \in BlockTargets(i)
        BY <1>2, <1>3, EdgeTypes
      <4> QED
        BY <4>1, <1>3 DEF IsLabel
    <3>2. LowersCondBranch(i) \/ Op(i) = "BRANCH" => HasTarget(i)
      BY DEF LowersCondBranch, isPushTrap, HasTarget, Jumps
    <3> QED
      BY <3>1, <3>2, <1>1, <1>4
  <2>11. /\ IsLabel(MaxBranch)' <=> IsLabel(MaxBranch')
         /\ IsLabel(SmallestCondBranch)' <=> IsLabel(SmallestCondBranch')
         /\ Unbroken(Queue)' <=> Unbroken(Queue')
         /\ Unbroken(FuncInsts)' <=> Unbroken(FuncInsts')
         /\ StraightSeq(Queue)' <=> StraightSeq(Queue')
         /\ StraightSeq(FuncInsts)' <=> StraightSeq(FuncInsts')
         /\ NoStarts(Queue)' <=> NoStarts(Queue')
         /\ NoStarts(FuncInsts)' <=> NoStarts(FuncInsts')
         /\ RunsOn(Last(FuncInsts))' <=> RunsOn(i)
         /\ RunsOn(Last(Queue))' <=> RunsOn(Last(Queue'))
         /\ Follows(Last(FuncInsts), Queue[1])' <=> Follows(i, Queue'[1])
    BY <1>7, <2>2
  <2>12. RunsOn(i) => Kept(Queue[1])'
    BY <2>9
  <2> QED
    BY <2>2, <2>5, <2>6, <2>7, <2>8, <2>9, <2>10, <2>11, <2>12, <1>5, <1>6, <1>7 DEF Sifting
<1>11. CASE ~Kept(i)
  <2>1. FuncInsts' = FuncInsts /\ MaxBranch' = MaxBranch /\ SmallestCondBranch' = SmallestCondBranch
    BY <1>1, <1>11
  <2>2. FuncInsts # <<>>
    BY <1>3, <1>4, <1>11 DEF Kept
  <2>3. ~RunsOn(Last(FuncInsts))
    BY <2>2, <1>4, <1>11
  <2>4. ASSUME NoDeadCode, Queue' # <<>>, Kept(Queue'[1])
        PROVE  Follows(Last(FuncInsts), Queue'[1])
    <3>1. Follows(i, Queue'[1])
      BY <2>4, <1>5
    <3>2. CASE IsLabel(Queue'[1])
      BY <3>2 DEF Follows
    <3>3. CASE Queue'[1] = i + 1
      <4>1. i + 1 = MaxBranch \/ i + 1 = SmallestCondBranch
        BY <3>3, <2>4, <1>2, <1>3, <1>11 DEF Kept
      <4>2. i + 1 # 0
        BY <1>3
      <4>3. IsLabel(i + 1)
        BY <4>1, <4>2, <1>4
      <4> QED
        BY <4>3, <3>3 DEF Follows
    <3> QED
      BY <3>1, <3>2, <3>3 DEF Follows
  <2>5. /\ IsLabel(MaxBranch)' <=> IsLabel(MaxBranch)
        /\ IsLabel(SmallestCondBranch)' <=> IsLabel(SmallestCondBranch)
        /\ Unbroken(Queue)' <=> Unbroken(Queue')
        /\ Unbroken(FuncInsts)' <=> Unbroken(FuncInsts)
        /\ StraightSeq(Queue)' <=> StraightSeq(Queue')
        /\ StraightSeq(FuncInsts)' <=> StraightSeq(FuncInsts)
        /\ NoStarts(Queue)' <=> NoStarts(Queue')
        /\ NoStarts(FuncInsts)' <=> NoStarts(FuncInsts)
        /\ RunsOn(Last(FuncInsts))' <=> RunsOn(Last(FuncInsts))
        /\ RunsOn(Last(Queue))' <=> RunsOn(Last(Queue'))
        /\ Follows(Last(FuncInsts), Queue[1])' <=> Follows(Last(FuncInsts), Queue'[1])
    BY <1>7, <2>1
  <2>6. Kept(Queue[1])' => Kept(Queue'[1])
    BY <2>1 DEF Kept
  <2> QED
    BY <2>1, <2>2, <2>3, <2>4, <2>5, <2>6, <1>4, <1>5, <1>6, <1>7, <1>8 DEF Sifting
<1> QED
  BY <1>10, <1>11

LEMMA SiftingNext ==
  ASSUME Types, Phases, Rest, LeftToMain, Sifting, [Next]_vars
  PROVE  Sifting'
<1>1. code' = code /\ code \in Programs
  BY ProgramKept DEF Types
<1>2. /\ \A s : /\ Unbroken(s)' <=> Unbroken(s)
                /\ StraightSeq(s)' <=> StraightSeq(s)
                /\ NoStarts(s)' <=> NoStarts(s)
      /\ \A j : (RunsOn(j)' <=> RunsOn(j)) /\ (IsLabel(j)' <=> IsLabel(j))
      /\ \A j, k : Follows(j, k)' <=> Follows(j, k)
      /\ NoDeadCode' <=> NoDeadCode
  BY <1>1, StaticKept
<1>3. CASE StartMain
  <2>1. /\ pc = "generate" /\ Queue = <<>> /\ Queue' = MainInsts /\ FuncInsts' = <<>>
        /\ MaxBranch' = MaxBranch /\ SmallestCondBranch' = SmallestCondBranch
    BY <1>3 DEF StartMain
  <2>2. FirstPass
    BY <2>1 DEF FirstPass
  <2>3. Pos = Len(code) /\ Len(code) \in Nat /\ Len(code) > 0
    BY <2>1, <2>2, <1>1, QueueParts, CodeTypes
  <2>4. /\ Sorted(MainInsts) /\ NoStarts(MainInsts) /\ Unbroken(MainInsts)
        /\ MainInsts # <<>> /\ MainInsts[1] = 0
        /\ RunsOn(Last(MainInsts)) => Last(MainInsts) + 1 = Len(code)
        /\ MaxBranch = 0 /\ SmallestCondBranch = 0
        /\ NoDeadCode => StraightSeq(MainInsts)
    BY <2>2, <2>3 DEF LeftToMain
  <2>5. ~RunsOn(Last(MainInsts))
    <3>1. Last(MainInsts) \in Indices /\ Last(MainInsts) \in Nat
      BY <2>2, <2>4, MainInstsParts DEF Indices
    <3>2. RunsOn(Last(MainInsts)) => Last(MainInsts) < Len(code) - 1
      BY <3>1, <1>1, LabelTypes
    <3> QED
      BY <3>1, <3>2, <2>3, <2>4
  <2>6. /\ Sorted(FuncInsts') /\ NoStarts(FuncInsts') /\ Unbroken(FuncInsts') /\ StraightSeq(FuncInsts')
        /\ Len(FuncInsts') = 0 /\ 1 .. Len(FuncInsts') = {}
    BY <2>1, EmptySequence
  <2>7. /\ Unbroken(Queue)' <=> Unbroken(MainInsts)
        /\ Unbroken(FuncInsts)' <=> Unbroken(FuncInsts')
        /\ StraightSeq(Queue)' <=> StraightSeq(MainInsts)
        /\ StraightSeq(FuncInsts)' <=> StraightSeq(FuncInsts')
        /\ NoStarts(Queue)' <=> NoStarts(MainInsts)
        /\ NoStarts(FuncInsts)' <=> NoStarts(FuncInsts')
        /\ RunsOn(Last(Queue))' <=> RunsOn(Last(MainInsts))
    BY <1>2, <2>1
  <2> QED
    BY <2>1, <2>4, <2>5, <2>6, <2>7, <1>2 DEF Sifting
<1>4. CASE Sift
  BY <1>4, SiftStep
<1>5. CASE UNCHANGED vars
  <2>1. /\ Queue' = Queue /\ FuncInsts' = FuncInsts /\ MaxBranch' = MaxBranch
        /\ SmallestCondBranch' = SmallestCondBranch /\ pc' = pc
    BY <1>5 DEF vars, scan
  <2>2. Kept(Queue[1])' <=> Kept(Queue[1])
    BY <2>1 DEF Kept
  <2> QED
    BY <1>2, <2>1, <2>2 DEF Sifting
<1>6. CASE pc' # "removeDeadInstructions"
  BY <1>6 DEF Sifting
<1>7. StartMain \/ Sift \/ UNCHANGED vars \/ pc' # "removeDeadInstructions"
  BY DEF Next, Annotate, StartFunction, LeaveToMain, TakeInst, Sifted, MakeBlocks, Fill, NullBlock,
         Filled, Prune
<1> QED
  BY <1>3, <1>4, <1>5, <1>6, <1>7

-----------------------------------------------------------------------------
(* One block, before and after a step of generateFunction *)

\* What instruction i adds to the handlers of a block
LEMMA HandlersAppend ==
  ASSUME NEW s \in Seq(Indices), NEW i \in Indices
  PROVE  /\ Handlers(Append(s, i)) = Handlers(s) \cup (IF isPushTrap(i) THEN {Dest(i)} ELSE {})
         /\ Handlers(<<i>>) = IF isPushTrap(i) THEN {Dest(i)} ELSE {}
<1>1. Range(Append(s, i)) = Range(s) \cup {i}
  BY AppendParts
<1>2. Range(<<i>>) = {i}
  BY DEF Range
<1> QED
  BY <1>1, <1>2 DEF Handlers

LEMMA EdgesOf ==
  ASSUME code \in Programs, NEW i \in Indices
  PROVE  /\ isPushTrap(i) => Edges(i) = <<Dest(i)>> /\ Range(Edges(i)) = {Dest(i)} /\ ~EndsBlock(i)
         /\ ~EndsBlock(i) /\ ~isPushTrap(i) => Edges(i) = <<>> /\ Range(Edges(i)) = {}
         /\ Op(i) \in Jumps => HasTarget(i) /\ Edges(i) = <<Dest(i)>> /\ Range(Edges(i)) = {Dest(i)}
         /\ ~EndsBlock(i) => RunsOn(i)
         /\ Op(i) = "COND" => RunsOn(i) /\ EndsBlock(i)
         /\ ~RunsOn(i) => EndsBlock(i)
<1>1. /\ isPushTrap(i) => HasTarget(i)
      /\ isPushTrap(i) => ~EndsBlock(i)
      /\ ~EndsBlock(i) /\ ~isPushTrap(i) => ~HasTarget(i) /\ ~isSwitch(i)
      /\ Op(i) \in Jumps => HasTarget(i)
      /\ ~EndsBlock(i) => RunsOn(i)
      /\ Op(i) = "COND" => RunsOn(i) /\ EndsBlock(i)
      /\ ~RunsOn(i) => EndsBlock(i)
  BY DEF isPushTrap, HasTarget, isSwitch, EndsBlock, RunsOn, Leaving, Jumps, Ends
<1> QED
  BY <1>1, EdgeTypes

LEMMA BlockBegun ==
  ASSUME code \in Programs, NEW i \in Indices, NEW G,
         G[i].Instructions = <<i>>, G[i].NextBlocks = Edges(i),
         HasTarget(i) => G[i].BrBlock = Dest(i)
  PROVE  BlockWhole(G, i, i) /\ BlockStraight(G, i, i)
<1> DEFINE s == G[i].Instructions
<1>1. /\ s = <<i>> /\ s # <<>> /\ s[1] = i /\ Len(s) = 1 /\ Last(s) = i
      /\ 1..Len(s) = {1} /\ 1 .. Len(s) - 1 = {}
  BY DEF Last
<1>2. Handlers(s) = IF isPushTrap(i) THEN {Dest(i)} ELSE {}
  <2>1. <<>> \in Seq(Indices)
    OBVIOUS
  <2> QED
    BY <2>1, <1>1, HandlersAppend
<1>3. i \in Nat
  BY DEF Indices
<1>4. s[1] = i + 1 - 1
  BY <1>1, <1>3
<1> HIDE DEF s
<1>5. BlockWhole(G, i, i)
  BY <1>1 DEF s, BlockWhole, Unbroken
<1>6. Range(G[i].NextBlocks) = Handlers(s) \cup Range(Edges(i))
  BY <1>2, EdgesOf
<1>7. ~EndsBlock(i) /\ Handlers(s) = {} => G[i].NextBlocks = <<>>
  BY <1>2, EdgesOf
<1>8. Op(i) \in Jumps => G[i].BrBlock = Dest(i)
  BY EdgesOf
<1>9. BlockStraight(G, i, i)
  BY <1>1, <1>4, <1>6, <1>7, <1>8 DEF s, BlockStraight
<1> QED
  BY <1>5, <1>9

LEMMA BlockExtended ==
  ASSUME code \in Programs, NEW i \in Indices, NEW G, NEW H, NEW b \in Indices,
         NEW s \in Seq(Indices), s = G[b].Instructions, s # <<>>,
         NEW n \in Seq(Indices), n = G[b].NextBlocks,
         H[b].Instructions = Append(s, i), H[b].NextBlocks = n \o Edges(i),
         HasTarget(i) => H[b].BrBlock = Dest(i),
         BlockWhole(G, b, b), RunsOn(Last(s)) => i = Last(s) + 1
  PROVE  /\ BlockWhole(H, b, b)
         /\ BlockStraight(G, b, b) /\ i = Last(s) + 1 /\ ~EndsBlock(Last(s)) => BlockStraight(H, b, b)
<1> DEFINE t == Append(s, i)
           m == n \o Edges(i)
           l == Last(s)
<1>1. /\ t \in Seq(Indices) /\ Len(t) = Len(s) + 1 /\ Len(s) \in Nat /\ Len(s) > 0
      /\ \A k \in 1..Len(s) : t[k] = s[k]
      /\ t[Len(s) + 1] = i /\ t # <<>> /\ Last(t) = i /\ l \in Indices /\ l = s[Len(s)]
      /\ l \in Range(s)
  <2>1. Len(s) \in Nat /\ Len(s) > 0
    OBVIOUS
  <2>2. Len(s) \in 1..Len(s)
    BY <2>1
  <2> QED
    BY <2>1, <2>2, AppendParts DEF Last, Range
<1>2. Range(m) = Range(n) \cup Range(Edges(i))
  BY RangeConcat, EdgeTypes
<1>3. /\ s[1] = b /\ Unbroken(s) /\ \A k \in 1..Len(s) : Range(Edges(s[k])) \subseteq Range(n)
  BY DEF BlockWhole
<1>4. \A k \in 1..Len(t) : k \in 1..Len(s) \/ k = Len(s) + 1
  BY <1>1
<1>5. Unbroken(t)
  BY <1>3, AppendInOrder
<1>6. t[1] = b
  BY <1>1, <1>3
<1>7. \A k \in 1..Len(t) : Range(Edges(t[k])) \subseteq Range(m)
  BY <1>1, <1>2, <1>3, <1>4
<1> HIDE DEF t, m
<1>8. BlockWhole(H, b, b)
  BY <1>1, <1>5, <1>6, <1>7 DEF t, m, BlockWhole
<1>9. ASSUME BlockStraight(G, b, b), i = l + 1, ~EndsBlock(l)
      PROVE  BlockStraight(H, b, b)
  <2>1. /\ \A k \in 1..Len(s) : s[k] = b + k - 1
        /\ \A k \in 1 .. Len(s) - 1 : ~EndsBlock(s[k])
        /\ Range(n) = Handlers(s) \cup Range(Edges(l))
        /\ Handlers(s) = {} => n = <<>>
    BY <1>9 DEF BlockStraight, l
  <2>2. b \in Nat
    BY DEF Indices
  <2>3. i = b + (Len(s) + 1) - 1
    <3>1. l = b + Len(s) - 1
      <4>1. Len(s) \in 1..Len(s)
        BY ONLY <1>1
      <4>2. s[Len(s)] = b + Len(s) - 1
        BY ONLY <4>1, <2>1
      <4> QED
        BY ONLY <4>2, <1>1
    <3> QED
      BY <3>1, <2>2, <1>1, <1>9
  <2>4. \A k \in 1..Len(t) : t[k] = b + k - 1
    BY <2>1, <2>3, <1>1, <1>4
  <2>5. ASSUME NEW k \in 1 .. Len(t) - 1 PROVE ~EndsBlock(t[k])
    <3>1. k \in 1..Len(s) /\ (k \in 1 .. Len(s) - 1 \/ k = Len(s))
      BY <1>1
    <3> QED
      BY <3>1, <2>1, <1>1, <1>9
  <2>6. Handlers(t) = Handlers(s) \cup (IF isPushTrap(i) THEN {Dest(i)} ELSE {})
    BY HandlersAppend DEF t
  <2>7. Range(Edges(l)) \subseteq Handlers(s)
    <3>1. isPushTrap(l) => Dest(l) \in Handlers(s)
      BY <1>1 DEF Handlers
    <3> QED
      BY <3>1, <1>1, <1>9, EdgesOf
  <2>8. Range(m) = Handlers(t) \cup Range(Edges(i))
    <3>1. isPushTrap(i) => Dest(i) \in Range(Edges(i))
      BY EdgesOf
    <3> QED
      BY <3>1, <2>1, <2>6, <2>7, <1>2
  <2>9. ~EndsBlock(i) /\ Handlers(t) = {} => m = <<>>
    <3> SUFFICES ASSUME ~EndsBlock(i), Handlers(t) = {} PROVE m = <<>>
      OBVIOUS
    <3>1. ~isPushTrap(i) /\ Handlers(s) = {}
      BY <2>6
    <3>2. n = <<>> /\ Edges(i) = <<>>
      BY <3>1, <2>1, EdgesOf
    <3>3. <<>> \o <<>> = <<>>
      OBVIOUS
    <3> QED
      BY <3>2, <3>3 DEF m
  <2>10. Op(i) \in Jumps => H[b].BrBlock = Dest(i)
    BY EdgesOf
  <2>11. H[b].Instructions = t /\ H[b].NextBlocks = m /\ Last(t) = i
    BY <1>1 DEF t, m
  <2> QED
    BY <2>4, <2>5, <2>8, <2>9, <2>10, <2>11 DEF BlockStraight
<1> QED
  BY <1>8, <1>9 DEF l

\* A try body does not run on into a label.
LEMMA NoHandlers ==
  ASSUME code \in Programs, NEW b \in Indices, NEW s \in Seq(Indices), s # <<>>,
         \A k \in 1..Len(s) : s[k] = b + k - 1,
         \A k \in 1..Len(s) : ~EndsBlock(s[k]),
         IsLabel(Last(s) + 1)
  PROVE  Handlers(s) = {}
<1>1. PICK n \in Nat : n = Len(s) /\ n > 0
  BY Element
<1>2. /\ LaidOut(code) /\ Len(code) \in Nat /\ Indices = 0 .. Len(code) - 1 /\ b \in Nat
      /\ n \in 1..n /\ Last(s) = b + n - 1
  BY <1>1, CodeTypes DEF Last, Indices
<1>3. SUFFICES ASSUME NEW h \in 1..n, isPushTrap(s[h]) PROVE FALSE
  BY <1>1 DEF Handlers, Range
<1> DEFINE i == b + h - 1
           t == b + n
<1>4. s[h] = i /\ i \in Indices /\ i \in Nat /\ t \in Nat /\ t > i /\ Last(s) + 1 = t
  <2>1. s[h] = b + h - 1 /\ s[h] \in Indices
    BY <1>1
  <2> QED
    BY <2>1, <1>1, <1>2
<1>5. PICK j \in Indices : t \in BlockTargets(j)
  BY <1>4 DEF IsLabel
<1>6. CASE t \in Targets(code, j)
  <2>1. t \in Labels(code)
    BY <1>6 DEF Labels, Indices
  <2>2. PICK q \in i + 1 .. t - 1 : code[q + 1].op \in Jumps \cup Ends \cup {"SWITCH"}
    <3>1. code[i + 1].op = "PUSHTRAP" /\ i \in 0 .. Len(code) - 1
      BY <1>2, <1>3, <1>4 DEF isPushTrap, Op
    <3>2. \A u \in Labels(code) : u > i =>
            \E q \in i + 1 .. u - 1 : code[q + 1].op \in Jumps \cup Ends \cup {"SWITCH"}
      BY <3>1, <1>2 DEF LaidOut
    <3> QED
      BY <3>2, <2>1, <1>4
  <2>3. EndsBlock(q)
    BY <2>2 DEF EndsBlock, Op
  <2>4. q - b + 1 \in 1..n /\ b + (q - b + 1) - 1 = q
    BY <2>2, <1>1, <1>2, <1>4
  <2>5. s[q - b + 1] = q
    BY <2>4, <1>1
  <2> QED
    BY <2>3, <2>4, <2>5, <1>1
<1>7. CASE Op(j) \in Jumps /\ t = j + 1
  <2>1. j = Last(s)
    BY <1>7, <1>2, <1>4
  <2>2. ~EndsBlock(Last(s))
    BY <1>1, <1>2 DEF Last
  <2> QED
    BY <2>1, <2>2, <1>7 DEF EndsBlock
<1> QED
  BY <1>5, <1>6, <1>7, EdgeTypes

\* The block s that was open is closed: it gets an edge to the next one if it
\* runs on.
LEMMA BlockClosed ==
  ASSUME code \in Programs, NEW G, NEW H, NEW b \in Indices, NEW o, o # b,
         NEW s \in Seq(Indices), s = G[b].Instructions, s # <<>>,
         NEW n \in Seq(Indices), n = G[b].NextBlocks, NEW link \in Seq(Indices),
         H[b].Instructions = s, H[b].NextBlocks = n \o link, H[b].BrBlock = G[b].BrBlock,
         RunsOn(Last(s)) => /\ link = <<Last(s) + 1>> /\ IsLabel(Last(s) + 1)
                            /\ Op(Last(s)) = "COND" => H[b].NoBrBlock = Last(s) + 1,
         ~RunsOn(Last(s)) => link = <<>>,
         BlockWhole(G, b, b)
  PROVE  BlockWhole(H, b, o) /\ (BlockStraight(G, b, b) => BlockStraight(H, b, o))
<1> DEFINE l == Last(s)
           m == n \o link
<1>1. /\ Range(m) = Range(n) \cup Range(link)
      /\ RunsOn(l) => Range(link) = {l + 1}
      /\ ~RunsOn(l) => Range(link) = {}
  <2>1. \A x : Range(<<x>>) = {x}
    BY DEF Range
  <2>2. Range(n \o link) = Range(n) \cup Range(link)
    BY RangeConcat
  <2> QED
    BY <2>1, <2>2, EmptySequence
<1>2. /\ l \in Indices /\ Len(s) \in Nat /\ Len(s) \in 1..Len(s) /\ l = s[Len(s)]
  <2>1. Len(s) \in Nat /\ Len(s) \in 1..Len(s)
    OBVIOUS
  <2> QED
    BY <2>1 DEF Last
<1>3. /\ s[1] = b /\ Unbroken(s) /\ \A k \in 1..Len(s) : Range(Edges(s[k])) \subseteq Range(n)
  BY DEF BlockWhole
<1>4. H[b].Instructions = s /\ H[b].NextBlocks = m
  OBVIOUS
<1> HIDE DEF m
<1>5. BlockWhole(H, b, o)
  BY <1>1, <1>3, <1>4 DEF BlockWhole
<1>6. ASSUME BlockStraight(G, b, b) PROVE BlockStraight(H, b, o)
  <2>1. /\ \A k \in 1..Len(s) : s[k] = b + k - 1
        /\ \A k \in 1 .. Len(s) - 1 : ~EndsBlock(s[k])
        /\ Range(n) = Handlers(s) \cup Range(Edges(l))
        /\ Op(l) \in Jumps => G[b].BrBlock = Dest(l)
        /\ ~EndsBlock(l) /\ Handlers(s) = {} => n = <<>>
    BY <1>6 DEF BlockStraight
  <2>2. Range(m) = Handlers(s) \cup Range(Edges(l)) \cup (IF b # o /\ RunsOn(l) THEN {l + 1} ELSE {})
    BY <2>1, <1>1
  <2>3. ~EndsBlock(l) => RunsOn(l)
    BY <1>2, EdgesOf
  <2>4. ~EndsBlock(l) => \A k \in 1..Len(s) : ~EndsBlock(s[k])
    <3>1. \A k \in 1..Len(s) : k \in 1 .. Len(s) - 1 \/ k = Len(s)
      BY <1>2
    <3> QED
      BY <3>1, <2>1, <1>2
  <2>5. ~EndsBlock(l) => Handlers(s) = {}
    BY <2>1, <2>3, <2>4, NoHandlers
  <2>6. ~EndsBlock(l) => m = <<l + 1>>
    <3>1. \A x : <<>> \o <<x>> = <<x>>
      OBVIOUS
    <3> QED
      BY <3>1, <2>1, <2>3, <2>5 DEF m
  <2>7. Op(l) = "COND" => H[b].NoBrBlock = l + 1
    BY <1>2, EdgesOf
  <2> QED
    BY <2>1, <2>2, <2>5, <2>6, <2>7, <1>4 DEF BlockStraight
<1> QED
  BY <1>5, <1>6

\* A closed block stays as it is.
LEMMA BlockSame ==
  ASSUME NEW G, NEW H, NEW b, NEW o, NEW p, b # o, b # p,
         H[b].Instructions = G[b].Instructions, H[b].NextBlocks = G[b].NextBlocks,
         H[b].BrBlock = G[b].BrBlock, H[b].NoBrBlock = G[b].NoBrBlock
  PROVE  /\ BlockWhole(G, b, o) => BlockWhole(H, b, p)
         /\ BlockStraight(G, b, o) => BlockStraight(H, b, p)
<1>1. BlockWhole(G, b, o) => BlockWhole(H, b, p)
  BY DEF BlockWhole
<1>2. BlockStraight(G, b, o) => BlockStraight(H, b, p)
  BY DEF BlockStraight
<1> QED
  BY <1>1, <1>2

-----------------------------------------------------------------------------
(* generateFunction *)

LEMMA FillingInit ==
  ASSUME Types, Annotations, Listed, MakeBlocks
  PROVE  Filling'
<1>1. /\ pc = "makeBlocks" /\ FuncInsts # <<>> /\ code' = code /\ Fn' = Fn /\ FuncInsts' = FuncInsts
      /\ Annotation' = [Annotation EXCEPT ![Head(FuncInsts)] = "BLOCK_START"]
      /\ Blocks' = [b \in {i \in Range(FuncInsts) : Annotation'[i] = "BLOCK_START"} |-> Empty]
      /\ CBlock' = NoBlock
  BY DEF MakeBlocks, scan
<1>2. /\ code \in Programs /\ FuncInsts \in Seq(Indices) /\ Len(FuncInsts) \in Nat
      /\ Annotation \in [Indices -> {"NOTHING", "FUNCTION_START", "BLOCK_START"}]
      /\ Fn \in Indices /\ Fn \in Nat /\ \A i \in Indices : i \in Nat
  BY DEF Types, Indices
<1>3. /\ FuncInsts[1] = Fn /\ Sorted(FuncInsts)
      /\ \A k \in 2..Len(FuncInsts) : FuncInsts[k] \notin Starts(code)
      /\ Unbroken(FuncInsts) /\ ~RunsOn(Last(FuncInsts))
      /\ NoDeadCode => StraightSeq(FuncInsts)
  BY <1>1 DEF Listed
<1>4. /\ Head(FuncInsts) = Fn /\ 1 \in 1..Len(FuncInsts) /\ Fn \in Range(FuncInsts)
      /\ \A k \in 1..Len(FuncInsts) : FuncInsts[k] \in Indices
  <2>1. Head(FuncInsts) = Fn /\ Len(FuncInsts) > 0 /\ Fn \in Range(FuncInsts)
    BY <1>1, <1>2, <1>3, TailParts
  <2> QED
    BY <2>1, <1>2
<1>5. \A k \in 1..Len(FuncInsts) : k = 1 \/ (k \in 2..Len(FuncInsts) /\ Fn < FuncInsts[k])
  <2>1. \A k \in 1..Len(FuncInsts) : k = 1 \/ (k \in 2..Len(FuncInsts) /\ 1 < k)
    BY <1>2
  <2> QED
    BY <2>1, <1>3, <1>4 DEF Sorted
<1>6. \A i \in Indices : Annotation'[i] = IF i = Fn THEN "BLOCK_START" ELSE Annotation[i]
  BY <1>1, <1>2, <1>4
<1>7. ASSUME NEW k \in 1..Len(FuncInsts)
      PROVE  /\ Annotation'[FuncInsts[k]] = "BLOCK_START" <=> FuncInsts[k] = Fn \/ IsLabel(FuncInsts[k])
             /\ Annotation'[FuncInsts[k]] = "BLOCK_START" <=> FuncInsts[k] \in DOMAIN Blocks'
  <2>1. CASE k = 1
    BY <2>1, <1>1, <1>2, <1>3, <1>4, <1>6
  <2>2. CASE k \in 2..Len(FuncInsts) /\ Fn < FuncInsts[k]
    <3>1. PICK i \in Indices : i = FuncInsts[k]
      BY <1>4
    <3>2. i \notin Starts(code) /\ i # 0 /\ i # Fn
      BY <2>2, <3>1, <1>2, <1>3
    <3>3. Annotation[i] = "BLOCK_START" => IsLabel(i)
      BY <3>2 DEF Annotations
    <3>4. IsLabel(i) => Annotation[i] # "NOTHING"
      BY <1>1 DEF Annotations, IsLabel
    <3>5. Annotation[i] # "FUNCTION_START"
      BY <3>2 DEF Annotations
    <3>6. Annotation[i] = "BLOCK_START" <=> IsLabel(i)
      BY <3>3, <3>4, <3>5, <1>2
    <3>7. i \in Range(FuncInsts)
      BY <3>1 DEF Range
    <3> QED
      BY <3>1, <3>2, <3>6, <3>7, <1>1, <1>6
  <2> QED
    BY <2>1, <2>2, <1>5
<1>8. \A b \in DOMAIN Blocks' : /\ b \in Range(FuncInsts) /\ Fn <= b
                                /\ Blocks'[b].Instructions = <<>> /\ Blocks'[b].NextBlocks = <<>>
                                /\ Blocks'[b].PreviousBlocks = {}
  <2>1. \A k \in 1..Len(FuncInsts) : Fn <= FuncInsts[k]
    <3>1. ASSUME NEW k \in 1..Len(FuncInsts) PROVE Fn <= FuncInsts[k]
      <4>1. PICK x \in Nat : x = FuncInsts[k]
        BY <1>2, <1>4
      <4>2. x = Fn \/ Fn < x
        BY <4>1, <1>3, <1>5
      <4> QED
        BY <4>1, <4>2, <1>2
    <3> QED
      BY <3>1
  <2>2. \A b \in Range(FuncInsts) : Fn <= b
    BY <2>1 DEF Range
  <2> QED
    BY <2>2, <1>1 DEF Empty
<1>9. Fn \in DOMAIN Blocks'
  BY <1>1, <1>2, <1>4, <1>6
<1>10. Linkage(Blocks', Fn)
  BY <1>8, <1>9, EmptySequence DEF Linkage
<1>11. /\ Unbroken(FuncInsts)' <=> Unbroken(FuncInsts)
       /\ StraightSeq(FuncInsts)' <=> StraightSeq(FuncInsts)
       /\ \A i : (RunsOn(i)' <=> RunsOn(i)) /\ (IsLabel(i)' <=> IsLabel(i))
       /\ NoDeadCode' <=> NoDeadCode
  <2>1. /\ \A s : (Unbroken(s)' <=> Unbroken(s)) /\ (StraightSeq(s)' <=> StraightSeq(s))
        /\ \A i : (RunsOn(i)' <=> RunsOn(i)) /\ (IsLabel(i)' <=> IsLabel(i))
        /\ NoDeadCode' <=> NoDeadCode
    BY <1>1, StaticKept
  <2> QED
    BY <2>1, <1>1
<1> QED
  BY <1>1, <1>3, <1>7, <1>8, <1>10, <1>11 DEF Filling

\* The edges of a block and the predecessors of its successors go together.
LEMMA FillLinkage ==
  ASSUME Types, Filling, Fill
  PROVE  Linkage(Blocks', Fn)
<1>1. pc = "generateFunction" /\ FuncInsts # <<>> /\ code \in Programs /\ Linkage(Blocks, Fn)
  BY DEF Fill, Types, Filling
<1>2. PICK i \in Indices : i = Head(FuncInsts) /\ i = FuncInsts[1] /\ 1 \in 1..Len(FuncInsts)
  BY <1>1, TailParts DEF Types
<1>3. PICK b \in DOMAIN Blocks : b = Enters(i)
  BY <1>1, <1>2, Entering
<1>4. CBlock # NoBlock => CBlock \in DOMAIN Blocks
  BY <1>1 DEF Filling
<1>5. /\ IsGraph(Blocks) /\ Edges(i) \in Seq(Indices) /\ Link(i) \in Seq(Indices)
  BY <1>1, EdgeTypes, LinkTypes DEF Types
<1>6. /\ IsGraph(Blocks') /\ DOMAIN Blocks' = DOMAIN Blocks
      /\ \A x \in DOMAIN Blocks :
           /\ Blocks'[x].NextBlocks =
                LET n == IF x = CBlock THEN Blocks[x].NextBlocks \o Link(i)
                         ELSE Blocks[x].NextBlocks
                IN IF x = b THEN n \o Edges(i) ELSE n
           /\ Blocks'[x].PreviousBlocks =
                Blocks[x].PreviousBlocks \cup {a \in {CBlock} : x \in Range(Link(i))}
                                         \cup {a \in {b} : x \in Range(Edges(i))}
  BY <1>1, <1>2, <1>3, <1>4, FillParts
<1>7. ASSUME NEW x \in DOMAIN Blocks
      PROVE  Range(Blocks'[x].NextBlocks) =
               Range(Blocks[x].NextBlocks) \cup (IF x = CBlock THEN Range(Link(i)) ELSE {})
                                           \cup (IF x = b THEN Range(Edges(i)) ELSE {})
  <2>1. Blocks[x].NextBlocks \in Seq(Indices)
    BY <1>5, BlockTypes
  <2>2. PICK n : n = IF x = CBlock THEN Blocks[x].NextBlocks \o Link(i) ELSE Blocks[x].NextBlocks
    OBVIOUS
  <2>3. n \in Seq(Indices) /\ Range(n) = Range(Blocks[x].NextBlocks) \cup (IF x = CBlock THEN Range(Link(i)) ELSE {})
    BY <2>1, <2>2, <1>5, RangeConcat
  <2>4. Blocks'[x].NextBlocks = IF x = b THEN n \o Edges(i) ELSE n
    BY <2>2, <1>6
  <2>5. Range(n \o Edges(i)) = Range(n) \cup Range(Edges(i))
    BY <2>3, <1>5, RangeConcat
  <2> QED
    BY <2>3, <2>4, <2>5
<1>8. 0 \notin Range(Edges(i)) /\ 0 \notin Range(Link(i))
  <2>1. 0 \notin Range(Edges(i))
    BY <1>1, EdgeTypes
  <2>2. ASSUME 0 \in Range(Link(i)) PROVE FALSE
    <3>1. i = 0 /\ CBlock # NoBlock /\ Annotation[i] = "BLOCK_START"
      BY <2>2, LinkTypes
    <3>2. i \in DOMAIN Blocks /\ i # Fn
      BY <3>1, <1>1, <1>2 DEF Filling
    <3>3. Fn <= i /\ Fn \in Nat
      BY <3>2, <1>1 DEF Linkage, Types, Indices
    <3> QED
      BY <3>1, <3>2, <3>3
  <2> QED
    BY <2>1, <2>2
<1>9. ASSUME NEW x \in DOMAIN Blocks
      PROVE  Blocks'[x].PreviousBlocks = {a \in DOMAIN Blocks : x \in Range(Blocks'[a].NextBlocks)}
  <2>1. Blocks[x].PreviousBlocks = {a \in DOMAIN Blocks : x \in Range(Blocks[a].NextBlocks)}
    BY <1>1 DEF Linkage
  <2>2. x \in Range(Link(i)) => CBlock \in DOMAIN Blocks
    BY <1>4, LinkTypes
  <2> QED
    BY <2>1, <2>2, <1>6, <1>7
<1> QED
  BY <1>1, <1>6, <1>7, <1>8, <1>9 DEF Linkage

\* The block instruction i goes to
LEMMA FillInto ==
  ASSUME Types, Filling, Fill, NEW i \in Indices, i = Head(FuncInsts),
         NEW b \in DOMAIN Blocks, b = Enters(i)
  PROVE  /\ Blocks'[b].Instructions # <<>> /\ Last(Blocks'[b].Instructions) = i
         /\ b \notin Range(Tail(FuncInsts))
         /\ BlockWhole(Blocks', b, b)
         /\ NoDeadCode => BlockStraight(Blocks', b, b)
<1>1. /\ pc = "generateFunction" /\ FuncInsts # <<>> /\ code \in Programs /\ IsGraph(Blocks)
      /\ FuncInsts \in Seq(Indices)
  BY DEF Fill, Types
<1>2. /\ FuncInsts[1] = i /\ 1 \in 1..Len(FuncInsts) /\ i \in Range(FuncInsts)
      /\ Range(FuncInsts) = Range(Tail(FuncInsts)) \cup {i}
      /\ Tail(FuncInsts) \in Seq(Indices)
  <2>1. Len(FuncInsts) \in Nat /\ Len(FuncInsts) > 0
    BY <1>1, TailParts
  <2> QED
    BY <2>1, <1>1, TailParts
<1>3. \A k \in 1..Len(Tail(FuncInsts)) : i < Tail(FuncInsts)[k]
  BY <1>1, TailInOrder DEF Filling
<1>4. i \notin Range(Tail(FuncInsts))
  <2>1. i \in Nat
    BY DEF Indices
  <2>2. ~(i < i)
    BY <2>1
  <2> QED
    BY <2>2, <1>3 DEF Range
<1>5. /\ Blocks'[b].Instructions = Append(Blocks[b].Instructions, i)
      /\ Blocks'[b].NextBlocks =
           LET n == IF b = CBlock THEN Blocks[b].NextBlocks \o Link(i) ELSE Blocks[b].NextBlocks
           IN n \o Edges(i)
      /\ HasTarget(i) => Blocks'[b].BrBlock = Dest(i)
  <2>1. CBlock # NoBlock => CBlock \in DOMAIN Blocks
    BY <1>1 DEF Filling
  <2>2. \A x \in DOMAIN Blocks :
          /\ Blocks'[x].Instructions =
               IF x = b THEN Append(Blocks[x].Instructions, i) ELSE Blocks[x].Instructions
          /\ Blocks'[x].NextBlocks =
               LET n == IF x = CBlock THEN Blocks[x].NextBlocks \o Link(i) ELSE Blocks[x].NextBlocks
               IN IF x = b THEN n \o Edges(i) ELSE n
          /\ Blocks'[x].BrBlock = IF x = b /\ HasTarget(i) THEN Dest(i) ELSE Blocks[x].BrBlock
    BY <2>1, <1>1, FillParts
  <2> QED
    BY <2>2
<1>6. /\ Blocks[b].Instructions \in Seq(Indices) /\ Blocks[b].NextBlocks \in Seq(Indices) /\ b \in Indices
      /\ Edges(i) \in Seq(Indices) /\ Link(i) \in Seq(Indices)
  BY <1>1, BlockTypes, EdgeTypes, LinkTypes
<1>7. Blocks'[b].Instructions # <<>> /\ Last(Blocks'[b].Instructions) = i
  BY <1>5, <1>6, AppendParts
<1>8. CASE Annotation[i] = "BLOCK_START"
  <2>1. b = i
    BY <1>8 DEF Enters
  <2>2. Blocks[i].Instructions = <<>> /\ Blocks[i].NextBlocks = <<>>
    BY <2>1, <1>1, <1>2 DEF Filling
  <2>3. i # CBlock
    BY <2>2, <1>1, <1>6, <2>1 DEF Filling, NoBlock, Indices
  <2>4. Blocks'[i].NextBlocks = <<>> \o Edges(i)
    BY <2>1, <2>2, <2>3, <1>5
  <2>5. \A s \in Seq(Indices) : <<>> \o s = s
    OBVIOUS
  <2>6. Append(<<>>, i) = <<i>>
    OBVIOUS
  <2>7. Blocks'[i].Instructions = <<i>> /\ Blocks'[i].NextBlocks = Edges(i)
    BY <2>1, <2>2, <2>4, <2>5, <2>6, <1>5, <1>6
  <2>8. BlockWhole(Blocks', i, i) /\ BlockStraight(Blocks', i, i)
    BY <2>1, <2>7, <1>1, <1>5, BlockBegun
  <2> QED
    BY <2>1, <2>8, <1>4, <1>7
<1>9. CASE Annotation[i] # "BLOCK_START"
  <2>1. b = CBlock /\ b # NoBlock /\ ~IsLabel(i)
    BY <1>1, <1>2, <1>6, <1>9 DEF Enters, Filling, NoBlock, Indices
  <2>2. PICK s \in Seq(Indices) : s = Blocks[b].Instructions
    BY <1>6
  <2>3. PICK n \in Seq(Indices) : n = Blocks[b].NextBlocks
    BY <1>6
  <2>4. s # <<>> /\ b \notin Range(FuncInsts) /\ BlockWhole(Blocks, b, b)
        /\ (NoDeadCode => BlockStraight(Blocks, b, b))
    BY <2>1, <2>2, <1>1 DEF Filling
  <2>5. /\ RunsOn(Last(s)) => i = Last(s) + 1
        /\ NoDeadCode => Follows(Last(s), i)
    BY <2>1, <2>2, <1>1, <1>2 DEF Filling
  <2>6. Link(i) = <<>>
    BY <1>9, LinkTypes
  <2>7. n \o <<>> = n
    OBVIOUS
  <2>8. Blocks'[b].NextBlocks = n \o Edges(i) /\ Blocks'[b].Instructions = Append(s, i)
    BY <2>1, <2>2, <2>3, <2>6, <2>7, <1>5
  <2>9. /\ BlockWhole(Blocks', b, b)
        /\ BlockStraight(Blocks, b, b) /\ i = Last(s) + 1 /\ ~EndsBlock(Last(s)) => BlockStraight(Blocks', b, b)
    <3>1. HasTarget(i) => Blocks'[b].BrBlock = Dest(i)
      BY <1>5
    <3>2. b \in Indices /\ code \in Programs
      BY <1>1, <1>6
    <3>3. RunsOn(Last(s)) => i = Last(s) + 1
      BY <2>5
    <3>4. s # <<>> /\ BlockWhole(Blocks, b, b)
      BY <2>4
    <3>5. s = Blocks[b].Instructions /\ n = Blocks[b].NextBlocks
      BY <2>2, <2>3
    <3>6. i \in Indices
      OBVIOUS
    <3> QED
      BY ONLY <2>2, <2>3, <2>8, <3>1, <3>2, <3>3, <3>4, <3>5, <3>6, BlockExtended
  <2>10. NoDeadCode => i = Last(s) + 1 /\ ~EndsBlock(Last(s))
    BY <2>1, <2>5 DEF Follows
  <2>11. b \notin Range(Tail(FuncInsts))
    BY <2>4, <1>2
  <2> QED
    BY <2>4, <2>9, <2>10, <2>11, <1>7
<1> QED
  BY <1>8, <1>9

\* The other blocks, the one before among them
LEMMA FillOthers ==
  ASSUME Types, Filling, Fill, NEW i \in Indices, i = Head(FuncInsts),
         NEW b \in DOMAIN Blocks, b = Enters(i), NEW x \in DOMAIN Blocks, x # b
  PROVE  IF Blocks'[x].Instructions = <<>>
         THEN Blocks'[x].NextBlocks = <<>> /\ x \in Range(Tail(FuncInsts))
         ELSE /\ x \notin Range(Tail(FuncInsts))
              /\ BlockWhole(Blocks', x, b)
              /\ NoDeadCode => BlockStraight(Blocks', x, b)
<1>1. /\ pc = "generateFunction" /\ FuncInsts # <<>> /\ code \in Programs /\ IsGraph(Blocks)
      /\ FuncInsts \in Seq(Indices)
  BY DEF Fill, Types
<1>2. /\ FuncInsts[1] = i /\ 1 \in 1..Len(FuncInsts)
      /\ Range(FuncInsts) = Range(Tail(FuncInsts)) \cup {i}
  <2>1. Len(FuncInsts) \in Nat /\ Len(FuncInsts) > 0
    BY <1>1, TailParts
  <2> QED
    BY <2>1, <1>1, TailParts
<1>3. /\ Blocks'[x].Instructions = Blocks[x].Instructions
      /\ Blocks'[x].NextBlocks =
           IF x = CBlock THEN Blocks[x].NextBlocks \o Link(i) ELSE Blocks[x].NextBlocks
      /\ Blocks'[x].BrBlock = Blocks[x].BrBlock
      /\ Blocks'[x].NoBrBlock = IF x = CBlock /\ Link(i) # <<>> THEN i ELSE Blocks[x].NoBrBlock
  BY <1>1, FillParts DEF Filling
<1>4. /\ Blocks[x].Instructions \in Seq(Indices) /\ Blocks[x].NextBlocks \in Seq(Indices) /\ x \in Indices
      /\ Link(i) \in Seq(Indices)
  BY <1>1, BlockTypes, LinkTypes
<1>5. CASE Blocks[x].Instructions = <<>>
  <2>1. Blocks[x].NextBlocks = <<>> /\ x \in Range(FuncInsts)
    BY <1>1, <1>5 DEF Filling
  <2>2. x # CBlock
    BY <1>1, <1>4, <1>5 DEF Filling, NoBlock, Indices
  <2>3. x # i
    <3>1. i \in DOMAIN Blocks => Annotation[i] = "BLOCK_START"
      BY <1>1, <1>2 DEF Filling
    <3> QED
      BY <3>1 DEF Enters
  <2> QED
    BY <2>1, <2>2, <2>3, <1>2, <1>3, <1>5
<1>6. CASE Blocks[x].Instructions # <<>>
  <2>1. /\ x \notin Range(FuncInsts) /\ BlockWhole(Blocks, x, CBlock)
        /\ NoDeadCode => BlockStraight(Blocks, x, CBlock)
    BY <1>1, <1>6 DEF Filling
  <2>2. CASE x # CBlock
    <3>1. /\ Blocks'[x].NextBlocks = Blocks[x].NextBlocks /\ Blocks'[x].BrBlock = Blocks[x].BrBlock
          /\ Blocks'[x].NoBrBlock = Blocks[x].NoBrBlock
      BY <2>2, <1>3
    <3>2. BlockWhole(Blocks', x, b) /\ (NoDeadCode => BlockStraight(Blocks', x, b))
      BY <2>1, <2>2, <3>1, <1>3, BlockSame
    <3> QED
      BY <3>2, <2>1, <1>2, <1>3, <1>6
  <2>3. CASE x = CBlock
    <3>1. PICK s \in Seq(Indices) : s = Blocks[x].Instructions
      BY <1>4
    <3>2. PICK n \in Seq(Indices) : n = Blocks[x].NextBlocks
      BY <1>4
    <3>3. Annotation[i] = "BLOCK_START" /\ CBlock # NoBlock
      BY <2>3, <1>4 DEF Enters, NoBlock, Indices
    <3>4. /\ RunsOn(Last(s)) => i = Last(s) + 1
          /\ i # Fn /\ IsLabel(i)
      BY <2>3, <3>1, <3>3, <1>1, <1>2 DEF Filling
    <3>5. /\ RunsOn(Last(s)) <=> Link(i) # <<>>
          /\ Link(i) # <<>> => Link(i) = <<i>>
      BY <2>3, <3>1, <3>3, LinkTypes
    <3>6. /\ RunsOn(Last(s)) => /\ Link(i) = <<Last(s) + 1>> /\ IsLabel(Last(s) + 1)
                                /\ Op(Last(s)) = "COND" => Blocks'[x].NoBrBlock = Last(s) + 1
          /\ ~RunsOn(Last(s)) => Link(i) = <<>>
      BY <2>3, <3>4, <3>5, <1>3
    <3>7. Blocks'[x].Instructions = s /\ Blocks'[x].NextBlocks = n \o Link(i) /\ s # <<>>
      BY <2>3, <3>1, <3>2, <1>3, <1>6
    <3>8. BlockWhole(Blocks, x, x) /\ (NoDeadCode => BlockStraight(Blocks, x, x))
      BY <2>1, <2>3
    <3>9. BlockWhole(Blocks', x, b) /\ (BlockStraight(Blocks, x, x) => BlockStraight(Blocks', x, b))
      <4>1. b # x /\ x \in Indices /\ Link(i) \in Seq(Indices) /\ code \in Programs
        BY <1>1, <1>4
      <4>2. Blocks'[x].BrBlock = Blocks[x].BrBlock
        BY <1>3
      <4>3. BlockWhole(Blocks, x, x)
        BY <3>8
      <4> QED
        BY ONLY <3>1, <3>2, <3>6, <3>7, <4>1, <4>2, <4>3, BlockClosed
    <3> QED
      BY <3>7, <3>8, <3>9, <2>1, <1>2
  <2> QED
    BY <2>2, <2>3
<1> QED
  BY <1>5, <1>6

LEMMA FillStep ==
  ASSUME Types, Filling, Fill
  PROVE  Filling'
<1>1. /\ pc = "generateFunction" /\ FuncInsts # <<>> /\ code \in Programs /\ IsGraph(Blocks)
      /\ FuncInsts \in Seq(Indices) /\ code' = code /\ Fn' = Fn /\ Annotation' = Annotation
      /\ FuncInsts' = Tail(FuncInsts)
  BY DEF Fill, Types
<1>2. PICK i \in Indices : i = Head(FuncInsts) /\ i = FuncInsts[1]
  BY <1>1, TailParts
<1>3. PICK b \in DOMAIN Blocks : b = Enters(i)
  BY <1>1, <1>2, Entering
<1>4. CBlock' = b /\ DOMAIN Blocks' = DOMAIN Blocks
  BY <1>1, <1>2, <1>3, FillParts DEF Filling
<1>5. /\ FuncInsts' \in Seq(Indices) /\ Len(FuncInsts) \in Nat /\ Len(FuncInsts) > 0
      /\ Len(FuncInsts') = Len(FuncInsts) - 1
      /\ \A k \in 1 .. Len(FuncInsts) - 1 : FuncInsts'[k] = FuncInsts[k + 1] /\ k + 1 \in 1..Len(FuncInsts)
      /\ FuncInsts' # <<>> => Last(FuncInsts') = Last(FuncInsts)
      /\ FuncInsts' = <<>> => Last(FuncInsts) = i
      /\ 1 \in 1..Len(FuncInsts)
  <2>1. Len(FuncInsts) \in Nat /\ Len(FuncInsts) > 0
    BY <1>1, TailParts
  <2>2. 1 \in 1..Len(FuncInsts)
    BY <2>1
  <2> QED
    BY <2>1, <2>2, <1>1, <1>2, TailParts
<1>6. /\ Sorted(FuncInsts) /\ Unbroken(FuncInsts) /\ ~RunsOn(Last(FuncInsts))
      /\ NoDeadCode => StraightSeq(FuncInsts)
      /\ \A k \in 1..Len(FuncInsts) :
           /\ Annotation[FuncInsts[k]] = "BLOCK_START" <=> FuncInsts[k] = Fn \/ IsLabel(FuncInsts[k])
           /\ Annotation[FuncInsts[k]] = "BLOCK_START" <=> FuncInsts[k] \in DOMAIN Blocks
      /\ CBlock = NoBlock => i = Fn
      /\ CBlock # NoBlock => \A k \in 1..Len(FuncInsts) : FuncInsts[k] # Fn
  BY <1>1, <1>2 DEF Filling
<1>7. /\ Sorted(FuncInsts') /\ Unbroken(FuncInsts')
      /\ \A k \in 1..Len(FuncInsts') : i < FuncInsts'[k]
      /\ NoDeadCode => StraightSeq(FuncInsts')
      /\ FuncInsts' # <<>> => /\ RunsOn(i) => FuncInsts'[1] = i + 1
                              /\ NoDeadCode => Follows(i, FuncInsts'[1])
  BY <1>1, <1>2, <1>6, TailInOrder
<1>8. \A k \in 1..Len(FuncInsts') :
           /\ Annotation[FuncInsts'[k]] = "BLOCK_START" <=> FuncInsts'[k] = Fn \/ IsLabel(FuncInsts'[k])
           /\ Annotation[FuncInsts'[k]] = "BLOCK_START" <=> FuncInsts'[k] \in DOMAIN Blocks
  BY <1>5, <1>6
<1>9. \A k \in 1..Len(FuncInsts') : FuncInsts'[k] # Fn
  <2>1. CASE CBlock = NoBlock
    <3>1. ~(i < i)
      BY DEF Indices
    <3> QED
      BY <3>1, <2>1, <1>6, <1>7
  <2>2. CASE CBlock # NoBlock
    BY <2>2, <1>5, <1>6
  <2> QED
    BY <2>1, <2>2
<1>10. FuncInsts' # <<>> => ~RunsOn(Last(FuncInsts'))
  BY <1>5, <1>6
<1>11. RunsOn(i) => FuncInsts' # <<>>
  BY <1>5, <1>6
<1>12. /\ Blocks'[b].Instructions # <<>> /\ Last(Blocks'[b].Instructions) = i
       /\ b \notin Range(FuncInsts')
       /\ BlockWhole(Blocks', b, b)
       /\ NoDeadCode => BlockStraight(Blocks', b, b)
  BY <1>1, <1>2, <1>3, FillInto
<1>13. \A x \in DOMAIN Blocks :
         IF Blocks'[x].Instructions = <<>>
         THEN Blocks'[x].NextBlocks = <<>> /\ x \in Range(FuncInsts')
         ELSE /\ x \notin Range(FuncInsts')
              /\ BlockWhole(Blocks', x, b)
              /\ NoDeadCode => BlockStraight(Blocks', x, b)
  BY <1>1, <1>2, <1>3, <1>12, FillOthers
<1>14. /\ \A s : (Unbroken(s)' <=> Unbroken(s)) /\ (StraightSeq(s)' <=> StraightSeq(s))
       /\ \A j : (RunsOn(j)' <=> RunsOn(j)) /\ (IsLabel(j)' <=> IsLabel(j))
       /\ \A j, k : Follows(j, k)' <=> Follows(j, k)
       /\ NoDeadCode' <=> NoDeadCode
       /\ \A G, x, o : /\ BlockWhole(G, x, o)' <=> BlockWhole(G, x, o)
                       /\ BlockStraight(G, x, o)' <=> BlockStraight(G, x, o)
  BY <1>1, StaticKept, GraphsKept
<1>15. Linkage(Blocks', Fn)
  BY FillLinkage
<1>16. b # NoBlock
  BY <1>1 DEF IsGraph, Indices, NoBlock
<1> DEFINE first == \A k \in 1..Len(FuncInsts) :
                      /\ Annotation[FuncInsts[k]] = "BLOCK_START" <=> FuncInsts[k] = Fn \/ IsLabel(FuncInsts[k])
                      /\ Annotation[FuncInsts[k]] = "BLOCK_START" <=> FuncInsts[k] \in DOMAIN Blocks
           second == CBlock # NoBlock =>
              /\ CBlock \in DOMAIN Blocks /\ Blocks[CBlock].Instructions # <<>>
              /\ \A k \in 1..Len(FuncInsts) : FuncInsts[k] # Fn
              /\ LET j == Last(Blocks[CBlock].Instructions) IN
                   /\ RunsOn(j) => FuncInsts # <<>> /\ FuncInsts[1] = j + 1
                   /\ NoDeadCode /\ FuncInsts # <<>> => Follows(j, FuncInsts[1])
           third == \A x \in DOMAIN Blocks :
              IF Blocks[x].Instructions = <<>>
              THEN Blocks[x].NextBlocks = <<>> /\ x \in Range(FuncInsts)
              ELSE /\ x \notin Range(FuncInsts)
                   /\ BlockWhole(Blocks, x, CBlock)
                   /\ NoDeadCode => BlockStraight(Blocks, x, CBlock)
<1>17. first'
  BY <1>1, <1>4, <1>8, <1>14
<1>18. second'
  <2>1. PICK j : j = Last(Blocks'[b].Instructions)
    OBVIOUS
  <2>2. j = i
    BY <2>1, <1>12
  <2> QED
    BY <2>1, <2>2, <1>1, <1>4, <1>7, <1>9, <1>11, <1>12, <1>14
<1>19. third'
  <2>1. \A x : /\ BlockWhole(Blocks, x, CBlock)' <=> BlockWhole(Blocks', x, b)
               /\ BlockStraight(Blocks, x, CBlock)' <=> BlockStraight(Blocks', x, b)
    BY <1>4, <1>14
  <2> QED
    BY <2>1, <1>4, <1>13, <1>14
<1>20. /\ Unbroken(FuncInsts)' /\ (NoDeadCode' => StraightSeq(FuncInsts)')
       /\ FuncInsts' # <<>> => ~RunsOn(Last(FuncInsts))'
  BY <1>7, <1>10, <1>14
<1> HIDE DEF first, second, third
<1> QED
  BY <1>1, <1>4, <1>7, <1>15, <1>16, <1>17, <1>18, <1>19, <1>20 DEF Filling, first, second, third

LEMMA FillingNext ==
  ASSUME Types, Annotations, Listed, Filling, [Next]_vars
  PROVE  Filling'
<1>1. CASE MakeBlocks
  BY <1>1, FillingInit
<1>2. CASE Fill
  BY <1>2, FillStep
<1>3. CASE UNCHANGED vars
  <2>1. /\ code' = code /\ pc' = pc /\ Blocks' = Blocks /\ Fn' = Fn /\ FuncInsts' = FuncInsts
        /\ Annotation' = Annotation /\ CBlock' = CBlock
    BY <1>3 DEF vars, scan, graph
  <2>2. /\ \A s : (Unbroken(s)' <=> Unbroken(s)) /\ (StraightSeq(s)' <=> StraightSeq(s))
        /\ \A j : (RunsOn(j)' <=> RunsOn(j)) /\ (IsLabel(j)' <=> IsLabel(j))
        /\ \A j, k : Follows(j, k)' <=> Follows(j, k)
        /\ NoDeadCode' <=> NoDeadCode
        /\ \A G, x, o : /\ BlockWhole(G, x, o)' <=> BlockWhole(G, x, o)
                        /\ BlockStraight(G, x, o)' <=> BlockStraight(G, x, o)
    BY <2>1, StaticKept, GraphsKept
  <2> QED
    BY <2>1, <2>2 DEF Filling
<1>4. CASE pc' # "generateFunction"
  BY <1>4 DEF Filling
<1>5. MakeBlocks \/ Fill \/ UNCHANGED vars \/ pc' # "generateFunction"
  BY DEF Next, Annotate, StartFunction, LeaveToMain, StartMain, TakeInst, Sift, Sifted, NullBlock,
         Filled, Prune
<1> QED
  BY <1>1, <1>2, <1>3, <1>4, <1>5

-----------------------------------------------------------------------------
(* removeUnusedBlocks *)

LEMMA FinishedWithout ==
  ASSUME NEW G, IsGraph(G), NEW f, Finished(G, f)
  PROVE  Finished(Without(G, Unused(G)), f)
<1> DEFINE H == Without(G, Unused(G))
<1>1. Linkage(G, f)
  BY DEF Finished
<1>2. /\ Linkage(H, f)
      /\ \A b \in DOMAIN H :
           /\ b \in DOMAIN G
           /\ H[b].Instructions = G[b].Instructions /\ H[b].NextBlocks = G[b].NextBlocks
           /\ H[b].BrBlock = G[b].BrBlock /\ H[b].NoBrBlock = G[b].NoBrBlock
  <2> DEFINE U == Unused(G)
             W == Without(G, U)
  <2>1. /\ IsGraph(W) /\ Linkage(W, f) /\ DOMAIN W = DOMAIN G \ U
        /\ \A b \in DOMAIN W :
             /\ b \in DOMAIN G
             /\ W[b].Instructions = G[b].Instructions /\ W[b].NextBlocks = G[b].NextBlocks
             /\ W[b].BrBlock = G[b].BrBlock /\ W[b].NoBrBlock = G[b].NoBrBlock
             /\ W[b].PreviousBlocks = G[b].PreviousBlocks \ U
    BY <1>1, WithoutParts
  <2>2. W = H
    OBVIOUS
  <2> HIDE DEF W, H
  <2> QED
    BY <2>1, <2>2
<1> HIDE DEF H
<1>3. ASSUME NEW b \in DOMAIN H
      PROVE  BlockWhole(H, b, NoBlock) /\ (NoDeadCode => BlockStraight(H, b, NoBlock))
  <2>1. b # NoBlock
    BY <1>2 DEF IsGraph, Indices, NoBlock
  <2>2. BlockWhole(G, b, NoBlock) /\ (NoDeadCode => BlockStraight(G, b, NoBlock))
    BY <1>2 DEF Finished
  <2> QED
    BY <2>1, <2>2, <1>2, BlockSame
<1>4. Finished(H, f)
  BY <1>2, <1>3 DEF Finished
<1> QED
  BY <1>4 DEF H

\* When all instructions are in a block, no block is open any more.
LEMMA FilledFinishes ==
  ASSUME Types, Filling, pc = "generateFunction", FuncInsts = <<>>
  PROVE  Finished(Blocks, Fn)
<1>1. IsGraph(Blocks) /\ code \in Programs
  BY DEF Types
<1>2. Range(FuncInsts) = {}
  BY EmptySequence
<1>3. /\ CBlock \in DOMAIN Blocks /\ ~RunsOn(Last(Blocks[CBlock].Instructions))
      /\ Linkage(Blocks, Fn)
      /\ \A b \in DOMAIN Blocks : /\ Blocks[b].Instructions # <<>>
                                  /\ BlockWhole(Blocks, b, CBlock)
                                  /\ NoDeadCode => BlockStraight(Blocks, b, CBlock)
  BY <1>2 DEF Filling
<1>4. ASSUME NEW b \in DOMAIN Blocks
      PROVE  BlockWhole(Blocks, b, NoBlock) /\ (NoDeadCode => BlockStraight(Blocks, b, NoBlock))
  <2>1. b # NoBlock /\ b \in Indices
    BY <1>1 DEF IsGraph, Indices, NoBlock
  <2>2. CASE b # CBlock
    BY <2>1, <2>2, <1>3, BlockSame
  <2>3. CASE b = CBlock
    <3>1. PICK s \in Seq(Indices) : s = Blocks[b].Instructions
      BY <1>1, BlockTypes
    <3>2. s # <<>> /\ ~RunsOn(Last(s))
      BY <2>3, <3>1, <1>3
    <3>3. BlockWhole(Blocks, b, b) /\ (NoDeadCode => BlockStraight(Blocks, b, b))
      BY <2>3, <1>3
    <3>4. Last(s) \in Indices
      <4>1. Len(s) \in 1..Len(s)
        BY <3>2
      <4> QED
        BY <4>1 DEF Last
    <3>5. BlockWhole(Blocks, b, NoBlock)
      BY <3>1, <3>2, <3>3 DEF BlockWhole
    <3>6. EndsBlock(Last(s)) /\ Op(Last(s)) # "COND"
      BY <3>2, <3>4, <1>1, EdgesOf
    <3>7. NoDeadCode => BlockStraight(Blocks, b, NoBlock)
      BY <3>1, <3>2, <3>3, <3>6 DEF BlockStraight
    <3> QED
      BY <3>5, <3>7
  <2> QED
    BY <2>2, <2>3
<1> QED
  BY <1>3, <1>4 DEF Finished

LEMMA PruningNext ==
  ASSUME Types, Filling, Pruning, [Next]_vars
  PROVE  Pruning'
<1>1. code' = code
  BY ProgramKept
<1>2. \A G, f : Finished(G, f)' <=> Finished(G, f)
  BY <1>1, GraphsKept
<1>3. CASE Filled
  <2>1. Finished(Blocks, Fn) /\ Blocks' = Blocks /\ Fn' = Fn
    BY <1>3, FilledFinishes DEF Filled, graph
  <2> QED
    BY <2>1, <1>2 DEF Pruning
<1>4. CASE Prune
  <2>1. Finished(Blocks, Fn) /\ IsGraph(Blocks) /\ Blocks' = Without(Blocks, Unused(Blocks)) /\ Fn' = Fn
    BY <1>4 DEF Prune, Pruning, Types
  <2>2. Finished(Blocks', Fn)
    BY <2>1, FinishedWithout
  <2> QED
    BY <2>1, <2>2, <1>2 DEF Pruning
<1>5. CASE UNCHANGED vars
  BY <1>5, <1>2 DEF Pruning, vars, graph
<1>6. CASE pc' # "removeUnusedBlocks"
  BY <1>6 DEF Pruning
<1>7. Filled \/ Prune \/ UNCHANGED vars \/ pc' # "removeUnusedBlocks"
  BY DEF Next, Annotate, StartFunction, LeaveToMain, StartMain, TakeInst, Sift, Sifted, MakeBlocks,
         Fill, NullBlock
<1> QED
  BY <1>3, <1>4, <1>5, <1>6, <1>7

LEMMA MadeNext ==
  ASSUME Types, Pruning, Made, [Next]_vars
  PROVE  Made'
<1>1. code' = code
  BY ProgramKept
<1>2. \A G, f : Finished(G, f)' <=> Finished(G, f)
  BY <1>1, GraphsKept
<1>3. CASE Functions' = Functions
  BY <1>2, <1>3 DEF Made
<1>4. CASE Prune
  <2>1. Finished(Blocks, Fn) /\ IsGraph(Blocks) /\ Blocks' = Without(Blocks, Unused(Blocks))
    BY <1>4 DEF Prune, Pruning, Types
  <2>2. Finished(Blocks', Fn)
    BY <2>1, FinishedWithout
  <2>3. Functions' = [f \in DOMAIN Functions \cup {Fn} |-> IF f = Fn THEN Blocks' ELSE Functions[f]]
        \/ Functions' = Functions
    BY <1>4 DEF Prune
  <2> QED
    BY <2>2, <2>3, <1>2 DEF Made
<1>5. Functions' = Functions \/ Prune
  BY DEF Next, vars, Annotate, StartFunction, LeaveToMain, StartMain, TakeInst, Sift, Sifted,
         MakeBlocks, Fill, NullBlock, Filled
<1> QED
  BY <1>3, <1>4, <1>5

LEMMA InitOnceNext ==
  ASSUME Types, Pruning, InitOnce, [Next]_vars
  PROVE  InitOnce'
<1>1. CASE Prune /\ pc' = "done"
  <2> DEFINE G == Blocks
             U == Unused(G)
             H == Without(G, U)
  <2>1. /\ Fn = MAIN /\ ~Restarts(G, U) /\ Functions'[MAIN] = H /\ MAIN \in DOMAIN Functions'
        /\ IsGraph(G) /\ Linkage(G, MAIN)
    BY <1>1 DEF Prune, Pruning, Types, Finished
  <2>2. /\ DOMAIN H = DOMAIN G \ U /\ Linkage(H, MAIN)
        /\ \A b \in DOMAIN H : H[b].PreviousBlocks = G[b].PreviousBlocks \ U
    BY <2>1, WithoutParts
  <2>3. /\ MAIN \in DOMAIN G /\ MAIN \in DOMAIN H
        /\ \A b \in DOMAIN G : /\ MAIN <= b
                               /\ G[b].PreviousBlocks = {a \in DOMAIN G : b \in Range(G[a].NextBlocks)}
                               /\ 0 \notin Range(G[b].NextBlocks)
    BY <2>1, <2>2 DEF Linkage
  <2>4. \A b \in DOMAIN G : b # MAIN => MAIN < b
    BY <2>1, <2>3 DEF IsGraph, Indices, MAIN
  <2> HIDE DEF H
  <2>5. ASSUME NEW b \in DOMAIN H, H[b].PreviousBlocks = {}
        PROVE  b = MAIN
    <3>1. b \in DOMAIN G \ U /\ G[b].PreviousBlocks \subseteq U
      BY <2>2, <2>5
    <3>2. CASE G[b].PreviousBlocks = {}
      BY <3>1, <3>2, <2>3, <2>4 DEF Unused
    <3>3. CASE G[b].PreviousBlocks # {}
      <4>1. PICK u \in G[b].PreviousBlocks : u \in U
        BY <3>1, <3>3
      <4>2. b \in Range(G[u].NextBlocks)
        BY <4>1, <3>1, <2>3
      <4> QED
        BY <4>1, <4>2, <3>1, <2>1 DEF Restarts
    <3> QED
      BY <3>2, <3>3
  <2>6. H[MAIN].PreviousBlocks = {}
    <3>1. G[MAIN].PreviousBlocks = {}
      BY <2>3 DEF MAIN
    <3> QED
      BY <3>1, <2>2, <2>3
  <2>7. {b \in DOMAIN H : H[b].PreviousBlocks = {}} = {MAIN}
    BY <2>3, <2>5, <2>6
  <2> QED
    BY <2>1, <2>7 DEF InitOnce
<1>2. CASE pc' # "done"
  BY <1>2 DEF InitOnce
<1>3. CASE UNCHANGED vars
  BY <1>3 DEF InitOnce, vars
<1>4. Prune \/ UNCHANGED vars \/ pc' # "done"
  BY DEF Next, Annotate, StartFunction, LeaveToMain, StartMain, TakeInst, Sift, Sifted, MakeBlocks,
         Fill, NullBlock, Filled
<1> QED
  BY <1>1, <1>2, <1>3, <1>4

-----------------------------------------------------------------------------
(* The invariant *)

LEMMA GInvInit ==
  ASSUME Init
  PROVE  GInv
<1>1. Types
  BY TypesInit
<1>2. /\ code \in Programs /\ Len(code) \in Nat /\ Len(code) > 0 /\ Indices = 0 .. Len(code) - 1
      /\ pc = "annotateNodes" /\ at = 0 /\ MainInsts = <<>> /\ MaxBranch = 0 /\ SmallestCondBranch = 0
      /\ Annotation = [i \in Indices |-> "NOTHING"] /\ Queue = [k \in 1..Len(code) |-> k - 1]
      /\ Functions = <<>>
  BY CodeTypes DEF Init, Indices
<1>3. Len(Queue) = Len(code) /\ Pos = 0 /\ \A k \in 1..Len(Queue) : Queue[k] = Pos + k - 1
  <2>1. Len(Queue) = Len(code)
    BY <1>2
  <2>2. Pos = 0
    BY <2>1, <1>2 DEF Pos
  <2> QED
    BY <2>1, <2>2, <1>2
<1>4. Phases /\ Covered /\ Rest /\ Taken /\ Sifting /\ Listed /\ Filling /\ Pruning /\ InitOnce
  BY <1>2, <1>3 DEF Phases, Covered, Rest, Taken, Sifting, Listed, Filling, Pruning, InitOnce
<1>5. Annotations
  <2>1. \A i \in Indices : Annotation[i] = "NOTHING" /\ ~(i < at)
    BY <1>2
  <2> QED
    BY <2>1, <1>2 DEF Annotations
<1>6. LeftToMain
  <2>1. 1 .. Len(MainInsts) = {}
    BY <1>2, EmptySequence
  <2> QED
    BY <2>1, <1>2, <1>3, EmptySequence DEF LeftToMain
<1>7. Made
  <2>1. \A F : F = <<>> => DOMAIN F = {}
    OBVIOUS
  <2> QED
    BY <2>1, <1>2 DEF Made
<1> QED
  BY <1>1, <1>4, <1>5, <1>6, <1>7 DEF GInv

LEMMA GInvNext ==
  ASSUME GInv, [Next]_vars
  PROVE  GInv'
<1>1. /\ Types /\ Phases /\ Annotations /\ Covered /\ Rest
      /\ LeftToMain /\ Taken /\ Sifting /\ Listed
      /\ Filling /\ Pruning /\ Made
      /\ InitOnce
  BY DEF GInv
<1>2. Types' /\ Phases' /\ Annotations'
  BY <1>1, TypesNext, PhasesNext, AnnotationsNext
<1>3. Covered' /\ Rest' /\ LeftToMain'
  BY <1>1, CoveredNext, RestNext, LeftToMainNext
<1>4. Taken' /\ Sifting' /\ Listed'
  BY <1>1, TakenNext, SiftingNext, ListedNext
<1>5. Filling' /\ Pruning' /\ Made' /\ InitOnce'
  BY <1>1, FillingNext, PruningNext, MadeNext, InitOnceNext
<1> QED
  BY <1>2, <1>3, <1>4, <1>5 DEF GInv

(* In every reachable state of the passes, over every program laid out as
   ocamlc does it, each pass stands where it should: GInv. *)
THEOREM Invariance == Spec => []GInv
<1>1. Init => GInv
  BY GInvInit
<1>2. GInv /\ [Next]_vars => GInv'
  BY GInvNext
<1> QED
  BY <1>1, <1>2, PTL DEF Spec

-----------------------------------------------------------------------------
(* What it is good for *)

\* A finished function, and one of its blocks
LEMMA MadeParts ==
  ASSUME GInv, NEW f \in DOMAIN Functions, NEW b \in DOMAIN Functions[f],
         NEW s, s = Functions[f][b].Instructions
  PROVE  /\ s \in Seq(Indices) /\ s # <<>> /\ s[1] = b /\ Len(s) \in Nat /\ 1 \in 1..Len(s)
         /\ Len(s) \in 1..Len(s) /\ Last(s) = s[Len(s)] /\ Last(s) \in Indices
         /\ Functions[f][b].NextBlocks \in Seq(Indices)
         /\ Range(Functions[f][b].NextBlocks) \subseteq DOMAIN Functions[f]
         /\ Range(s) \subseteq Body(f)
         /\ BlockWhole(Functions[f], b, NoBlock) /\ b # NoBlock /\ b \in Indices
         /\ NoDeadCode => BlockStraight(Functions[f], b, NoBlock)
         /\ Linkage(Functions[f], f)
<1>1. IsGraph(Functions[f]) /\ Finished(Functions[f], f)
  BY DEF GInv, Types, Made
<1>2. /\ s \in Seq(Indices) /\ b \in Indices
      /\ Functions[f][b].NextBlocks \in Seq(Indices)
      /\ Range(Functions[f][b].NextBlocks) \subseteq DOMAIN Functions[f]
  BY <1>1, BlockTypes
<1>3. BlockWhole(Functions[f], b, NoBlock) /\ (NoDeadCode => BlockStraight(Functions[f], b, NoBlock))
      /\ Linkage(Functions[f], f)
  BY <1>1 DEF Finished
<1>4. s # <<>> /\ s[1] = b
  BY <1>3 DEF BlockWhole
<1>5. Len(s) \in Nat /\ Len(s) > 0
  BY <1>2, <1>4
<1>6. /\ 1 \in 1..Len(s) /\ Len(s) \in 1..Len(s) /\ Last(s) = s[Len(s)] /\ Last(s) \in Indices
  BY <1>2, <1>5 DEF Last
<1>7. Range(s) \subseteq Body(f)
  BY DEF Body
<1>8. b # NoBlock
  BY <1>2 DEF Indices, NoBlock
<1> QED
  BY <1>2, <1>3, <1>4, <1>5, <1>6, <1>7, <1>8

(* The passes keep within their types, and every function they finish has its
   blocks, none of them empty, and edges to blocks it has only. *)
THEOREM GenTypesOK == Spec => []TypeOK
<1>1. GInv => TypeOK
  <2> SUFFICES ASSUME GInv PROVE TypeOK
    OBVIOUS
  <2>1. Types
    BY DEF GInv
  <2>2. WellFormed(code)
    BY <2>1, CodeTypes DEF Types
  <2>3. ASSUME NEW f \in DOMAIN Functions
        PROVE  f \in DOMAIN Functions[f]
    BY DEF GInv, Made, Finished, Linkage
  <2>4. ASSUME NEW f \in DOMAIN Functions, NEW b \in DOMAIN Functions[f]
        PROVE  Functions[f][b].Instructions # <<>>
    BY MadeParts
  <2> QED
    BY <2>1, <2>2, <2>3, <2>4 DEF TypeOK, Types
<1> QED
  BY <1>1, Invariance, PTL

(* Whatever can run after an instruction of a finished function, in the same
   activation, is in that function too: neither initFunction's end, nor
   removeDeadInstructions, nor removeUnusedBlocks takes away code that can run. *)
THEOREM NothingThatRunsIsLost == Spec => []FunctionsWhole
<1>1. GInv => FunctionsWhole
  <2> SUFFICES ASSUME GInv, NEW f \in DOMAIN Functions, NEW i \in Body(f)
               PROVE  Successors(i) \subseteq Body(f)
    BY DEF FunctionsWhole
  <2>1. PICK b \in DOMAIN Functions[f] : i \in Range(Functions[f][b].Instructions)
    BY DEF Body
  <2>2. PICK s : s = Functions[f][b].Instructions
    OBVIOUS
  <2>3. PICK n : n = Functions[f][b].NextBlocks
    OBVIOUS
  <2>4. /\ Unbroken(s) /\ \A k \in 1..Len(s) : Range(Edges(s[k])) \subseteq Range(n)
        /\ RunsOn(Last(s)) => Last(s) + 1 \in Range(n)
    <3>1. BlockWhole(Functions[f], b, NoBlock) /\ b # NoBlock
      BY <2>2, MadeParts
    <3> QED
      BY ONLY <3>1, <2>2, <2>3 DEF BlockWhole
  <2>5. /\ Len(s) \in Nat /\ Last(s) = s[Len(s)] /\ Range(s) \subseteq Body(f)
        /\ Range(n) \subseteq DOMAIN Functions[f]
    BY <2>2, <2>3, MadeParts
  <2>6. ASSUME NEW d \in DOMAIN Functions[f] PROVE d \in Body(f)
    <3>1. PICK t : t = Functions[f][d].Instructions
      OBVIOUS
    <3>2. t[1] = d /\ 1 \in 1..Len(t) /\ Range(t) \subseteq Body(f)
      BY <3>1, MadeParts
    <3> QED
      BY <3>2 DEF Range
  <2>7. PICK k \in 1..Len(s) : i = s[k]
    BY <2>1, <2>2 DEF Range
  <2>8. Range(Edges(i)) \subseteq Body(f)
    BY <2>4, <2>5, <2>6, <2>7
  <2>9. ASSUME RunsOn(i) PROVE i + 1 \in Body(f)
    <3>1. CASE k = Len(s)
      BY <3>1, <2>4, <2>5, <2>6, <2>7, <2>9
    <3>2. CASE k # Len(s)
      <4>1. k \in 1 .. Len(s) - 1 /\ k + 1 \in 1..Len(s)
        BY <3>2, <2>5
      <4>2. s[k + 1] = i + 1
        BY <4>1, <2>4, <2>7, <2>9 DEF Unbroken
      <4> QED
        BY <4>1, <4>2, <2>5 DEF Range
    <3> QED
      BY <3>1, <3>2
  <2> QED
    BY <2>8, <2>9 DEF Successors, RunsOn
<1> QED
  BY <1>1, Invariance, PTL

(* Only the block the program starts with has no predecessor when the main
   function is finished, so init is called once. *)
THEOREM InitCalledOnce == Spec => []InitOnce
<1>1. GInv => InitOnce
  BY DEF GInv
<1> QED
  BY <1>1, Invariance, PTL

(* When all functions are made, every function the kept code makes a closure of
   is one of them. *)
THEOREM EveryClosureHasCode == Spec => []ClosuresHaveCode
<1>1. GInv => ClosuresHaveCode
  <2> SUFFICES ASSUME GInv, pc = "done", NEW f \in DOMAIN Functions, NEW i \in Body(f),
                      Op(i) = "CLOSURE"
               PROVE  Range(Dests(i)) \subseteq DOMAIN Functions \ {MAIN}
    BY DEF ClosuresHaveCode
  <2>1. PICK b \in DOMAIN Functions[f] : i \in Range(Functions[f][b].Instructions)
    BY DEF Body
  <2>2. PICK s : s = Functions[f][b].Instructions
    OBVIOUS
  <2>3. s \in Seq(Indices)
    BY <2>2, MadeParts
  <2>4. i \in Indices /\ code \in Programs
    BY <2>1, <2>2, <2>3 DEF Range, GInv, Types
  <2>5. Range(Dests(i)) = Closed(code, i)
    BY DEF Closed, Op, Dests
  <2>6. Range(Dests(i)) \subseteq Starts(code)
    BY <2>4, <2>5, LabelTypes
  <2>7. \A g \in Starts(code) : g # MAIN
    BY <2>4, LabelTypes, CodeTypes DEF MAIN
  <2>8. ~FirstPass
    BY DEF FirstPass, GInv, Phases
  <2>9. \A g \in Starts(code) : g \in DOMAIN Functions
    BY <2>8 DEF GInv, Covered
  <2> QED
    BY <2>6, <2>7, <2>9
<1> QED
  BY <1>1, Invariance, PTL

(* If no code of the program is dead, a block is a run of consecutive
   instructions that control enters at the first and leaves at the last. *)
THEOREM BlocksAreStraight == Spec => [](NoDeadCode => StraightLine)
<1>1. GInv => (NoDeadCode => StraightLine)
  <2> SUFFICES ASSUME GInv, NoDeadCode, NEW f \in DOMAIN Functions, NEW b \in DOMAIN Functions[f],
                      NEW s, s = Functions[f][b].Instructions
               PROVE  /\ s[1] = b
                      /\ \A k \in 1 .. Len(s) - 1 :
                           Op(s[k]) \notin Jumps \cup Ends \cup {"SWITCH"} /\ s[k + 1] = s[k] + 1
    BY DEF StraightLine
  <2>1. s[1] = b /\ Len(s) \in Nat /\ b \in Nat
    BY MadeParts DEF Indices
  <2>2. BlockStraight(Functions[f], b, NoBlock)
    BY MadeParts
  <2>3. /\ \A k \in 1..Len(s) : s[k] = b + k - 1
        /\ \A k \in 1 .. Len(s) - 1 : ~EndsBlock(s[k])
    BY <2>2 DEF BlockStraight
  <2>4. ASSUME NEW k \in 1 .. Len(s) - 1 PROVE s[k + 1] = s[k] + 1
    <3>1. k \in 1..Len(s) /\ k + 1 \in 1..Len(s) /\ k \in Nat
      BY <2>1
    <3>2. s[k] = b + k - 1 /\ s[k + 1] = b + (k + 1) - 1
      BY <3>1, <2>3
    <3> QED
      BY <3>1, <3>2, <2>1
  <2> QED
    BY <2>1, <2>3, <2>4 DEF EndsBlock
<1> QED
  BY <1>1, Invariance, PTL

(* Then the edges the code generator follows are those of the bytecode, each
   where GenBlock looks for it. *)
THEOREM EdgesAreThoseOfTheBytecode == Spec => [](NoDeadCode => EdgesRight)
<1>1. GInv => (NoDeadCode => EdgesRight)
  <2> SUFFICES ASSUME GInv, NoDeadCode, NEW f \in DOMAIN Functions, NEW b \in DOMAIN Functions[f]
               PROVE  LET G == Functions[f]
                          i == Last(G[b].Instructions)
                          handlers == {Dest(j) : j \in {h \in Range(G[b].Instructions) : isPushTrap(h)}}
                      IN /\ Range(G[b].NextBlocks) = handlers \cup Successors(i)
                         /\ G[b].PreviousBlocks = {a \in DOMAIN G : b \in Range(G[a].NextBlocks)}
                         /\ Op(i) \in Jumps => G[b].BrBlock = Dest(i)
                         /\ Op(i) = "COND" => G[b].NoBrBlock = i + 1
                         /\ Op(i) \in Kinds \ (Jumps \cup Ends \cup {"SWITCH"}) => Head(G[b].NextBlocks) = i + 1
    BY DEF EdgesRight
  <2>1. PICK G : G = Functions[f]
    OBVIOUS
  <2>2. PICK s : s = G[b].Instructions
    OBVIOUS
  <2>3. PICK i : i = Last(s)
    OBVIOUS
  <2>4. BlockStraight(G, b, NoBlock) /\ Linkage(G, f) /\ b \in DOMAIN G /\ b # NoBlock /\ i \in Indices
    BY <2>1, <2>2, <2>3, MadeParts
  <2>5. /\ Range(G[b].NextBlocks) =
             Handlers(s) \cup Range(Edges(i)) \cup (IF RunsOn(i) THEN {i + 1} ELSE {})
        /\ Op(i) \in Jumps => G[b].BrBlock = Dest(i)
        /\ Op(i) = "COND" => G[b].NoBrBlock = i + 1
        /\ ~EndsBlock(i) /\ Handlers(s) = {} => G[b].NextBlocks = <<i + 1>>
        /\ Handlers(s) # {} => EndsBlock(i)
    <3>1. Op(i) = "COND" => RunsOn(i)
      BY DEF RunsOn, Leaving, Ends
    <3> QED
      BY <2>2, <2>3, <2>4, <3>1 DEF BlockStraight
  <2>6. Successors(i) = Range(Edges(i)) \cup (IF RunsOn(i) THEN {i + 1} ELSE {})
    BY DEF Successors, RunsOn
  <2>7. G[b].PreviousBlocks = {a \in DOMAIN G : b \in Range(G[a].NextBlocks)}
    BY <2>4 DEF Linkage
  <2>8. Op(i) \in Kinds \ (Jumps \cup Ends \cup {"SWITCH"}) => Head(G[b].NextBlocks) = i + 1
    <3>1. \A x : Head(<<x>>) = x
      OBVIOUS
    <3> QED
      BY <3>1, <2>5 DEF EndsBlock
  <2>9. Range(G[b].NextBlocks) = Handlers(s) \cup Successors(i)
    BY <2>5, <2>6
  <2> QED
    BY <2>1, <2>2, <2>3, <2>5, <2>7, <2>8, <2>9 DEF Handlers
<1> QED
  BY <1>1, Invariance, PTL

(* No instruction of a function has a target that initFunction left out, if the
   last entry of each switch is the highest. *)
THEOREM TargetsKeptInFunctions == Spec => [](Fn # MAIN => TargetsKeptIfHighest)
<1>1. GInv => (Fn # MAIN => TargetsKeptIfHighest)
  BY DEF GInv, Listed, TargetsKeptIfHighest, TargetsKept
<1> QED
  BY <1>1, Invariance, PTL

-----------------------------------------------------------------------------
(* The passes of a function other than the main code *)

(* The part of a function that is not in blocks yet has its targets among its blocks. *)
TargetsHaveBlocks ==
  Fn # MAIN /\ LastEntryHighest =>
    /\ pc # "crash"
    /\ pc = "generateFunction" =>
         \A i \in Range(FuncInsts) : Range(Edges(i)) \subseteq DOMAIN Blocks

LEMMA EdgesAreTargets ==
  ASSUME NEW i, NEW d \in Range(Edges(i)), HasTarget(i) => Dests(i) # <<>>, Dests(i) \in Seq(Nat)
  PROVE  d \in BlockTargets(i)
<1>1. CASE HasTarget(i)
  <2>1. Range(<<Dest(i)>>) = {Dest(i)}
    BY DEF Range
  <2>2. Dest(i) \in Range(Dests(i))
    BY <1>1 DEF Dest, Range
  <2> QED
    BY <1>1, <2>1, <2>2 DEF Edges, BlockTargets
<1>2. CASE ~HasTarget(i) /\ isSwitch(i)
  BY <1>2 DEF Edges, BlockTargets
<1>3. CASE ~HasTarget(i) /\ ~isSwitch(i)
  BY <1>3 DEF Edges, Range
<1> QED
  BY <1>1, <1>2, <1>3

LEMMA TargetsHaveBlocksNext ==
  ASSUME GInv, TargetsHaveBlocks, [Next]_vars
  PROVE  TargetsHaveBlocks'
<1>1. GInv' /\ Types /\ Types'
  BY GInvNext DEF GInv
<1>2. code' = code
  BY DEF Next, vars, Annotate, StartFunction, LeaveToMain, StartMain, TakeInst, Sift, Sifted,
         MakeBlocks, Fill, NullBlock, Filled, Prune
<1>3. LastEntryHighest' = LastEntryHighest
  BY <1>2 DEF LastEntryHighest, Indices, isSwitch, Op, Dests
<1>4. \A i : Edges(i)' = Edges(i)
  BY <1>2 DEF Edges, HasTarget, isSwitch, Op, Dest, Dests
<1>5. CASE MakeBlocks
  <2>1. /\ pc = "makeBlocks" /\ pc' = "generateFunction" /\ FuncInsts' = FuncInsts /\ Fn' = Fn
    BY <1>5 DEF MakeBlocks, scan
  <2>2. ASSUME Fn # MAIN, LastEntryHighest
        PROVE  \A i \in Range(FuncInsts) : Range(Edges(i)) \subseteq Range(FuncInsts)
    BY <2>1, <2>2 DEF GInv, Listed
  <2>3. ASSUME Fn # MAIN, LastEntryHighest, NEW i \in Range(FuncInsts), NEW d \in Range(Edges(i))
        PROVE  d \in DOMAIN Blocks'
    <3>1. i \in Indices
      BY <1>1 DEF Types, Range
    <3>2. PICK l \in 1..Len(FuncInsts) : d = FuncInsts[l]
      BY <2>2, <2>3 DEF Range
    <3>3. d \in BlockTargets(i)
      <4>1. Dests(i) \in Seq(Nat) /\ (HasTarget(i) => Dests(i) # <<>>)
        <5>1. WellFormed(code) /\ Dests(i) \in Seq(Nat) /\ Len(code) \in Nat
          BY <3>1, <1>1, CodeTypes DEF Types
        <5>2. i + 1 \in 1..Len(code)
          BY <3>1, <5>1 DEF Indices
        <5> QED
          BY <5>1, <5>2 DEF WellFormed, HasTarget, Op, Dests
      <4> QED
        BY <4>1, EdgesAreTargets
    <3>4. IsLabel(d)'
      BY <3>1, <3>3, <1>2 DEF IsLabel, BlockTargets, Indices, HasTarget, isSwitch, Op, Dests
    <3>5. d \in DOMAIN Blocks'
      BY <3>2, <3>4, <2>1, <1>1 DEF GInv, Filling
    <3> QED
      BY <3>5
  <2> QED
    BY <2>1, <2>3, <1>3, <1>4 DEF TargetsHaveBlocks
<1>6. CASE Fill
  <2>1. /\ pc = "generateFunction" /\ pc' = pc /\ FuncInsts # <<>> /\ FuncInsts' = Tail(FuncInsts)
        /\ Fn' = Fn
    BY <1>6 DEF Fill
  <2>2. DOMAIN Blocks' = DOMAIN Blocks
    BY <1>6 DEF Fill, setNext, Linked
  <2>3. Range(FuncInsts') \subseteq Range(FuncInsts)
    <3>1. ASSUME NEW k \in 1..Len(FuncInsts')
          PROVE  k + 1 \in 1..Len(FuncInsts) /\ FuncInsts'[k] = FuncInsts[k + 1]
      BY <2>1, <1>1 DEF Types
    <3> QED
      BY <3>1 DEF Range
  <2> QED
    BY <2>1, <2>2, <2>3, <1>3, <1>4 DEF TargetsHaveBlocks
<1>7. CASE NullBlock
  <2>1. /\ pc = "generateFunction" /\ FuncInsts # <<>> /\ Fn' = Fn
        /\ ~(Range(Edges(Head(FuncInsts))) \subseteq DOMAIN Blocks)
    BY <1>7 DEF NullBlock
  <2>2. Head(FuncInsts) \in Range(FuncInsts)
    BY <2>1, <1>1 DEF Types, Range
  <2> QED
    BY <2>1, <2>2, <1>3 DEF TargetsHaveBlocks
<1>8. CASE Annotate \/ StartFunction \/ LeaveToMain \/ StartMain \/ TakeInst \/ Sift \/ Sifted
             \/ Filled \/ Prune
  <2>1. pc' # "crash" /\ pc' # "generateFunction"
    BY <1>8 DEF Annotate, StartFunction, LeaveToMain, StartMain, TakeInst, Sift, Sifted, Filled, Prune
  <2> QED
    BY <2>1 DEF TargetsHaveBlocks
<1>9. CASE UNCHANGED vars
  <2>1. UNCHANGED <<pc, Fn, FuncInsts, Blocks>>
    BY <1>9 DEF vars, scan, graph
  <2> QED
    BY <2>1, <1>3, <1>4 DEF TargetsHaveBlocks
<1> QED
  BY <1>5, <1>6, <1>7, <1>8, <1>9 DEF Next

(* No function makes generateFunction write through a null block, if the last entry of
   each switch is the highest: if there is a crash, it is in the main code. *)
THEOREM FunctionsNeverCrash == Spec => [](LastEntryHighest /\ pc = "crash" => Fn = MAIN)
<1>1. Init => GInv /\ TargetsHaveBlocks
  BY GInvInit DEF Init, TargetsHaveBlocks
<1>2. GInv /\ TargetsHaveBlocks /\ [Next]_vars => GInv' /\ TargetsHaveBlocks'
  BY GInvNext, TargetsHaveBlocksNext
<1>3. TargetsHaveBlocks => (LastEntryHighest /\ pc = "crash" => Fn = MAIN)
  BY DEF TargetsHaveBlocks
<1> QED
  BY <1>1, <1>2, <1>3, PTL DEF Spec
=============================================================================

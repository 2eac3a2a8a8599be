-------------------------- MODULE GenModuleCreator --------------------------
(***************************************************************************)
(* From the decoded bytecode to the functions and basic blocks the code    *)
(* generator works on: annotateNodes (src/Instructions.cpp), generate,     *)
(* initFunction, removeDeadInstructions and generateFunction               *)
(* (src/GenModuleCreator.cpp), removeUnusedBlocks (src/GenFunction.cpp).   *)
(*                                                                         *)
(* The bytecode has no function boundaries and the passes never look at    *)
(* the whole of it: they read it in order and find out by jump targets     *)
(* alone where a function ends and what is dead.  A step handles one       *)
(* instruction, as one turn of the code's loops does.                      *)
(*                                                                         *)
(* An instruction is its kind and its targets: `dests' holds the jump or   *)
(* handler target, the SwitchEntries, or the functions of a closure.       *)
(* "COND" stands for the instructions of isCondJump, "APPTERM" for         *)
(* APPTERM1 to 3 too, "CLOSURE" for CLOSURE and CLOSUREREC, and "NEXT" for *)
(* every instruction these passes do not look at.                          *)
(***************************************************************************)
EXTENDS Integers, Sequences

CONSTANT Programs    \* the bytecode sequences ocamlc may emit

Jumps == {"BRANCH", "COND"}
Ends  == {"RETURN", "APPTERM", "RAISE", "STOP"}
Leaving == Ends \cup {"BRANCH", "SWITCH"}    \* and never on to the next instruction
Kinds == Jumps \cup Ends \cup {"PUSHTRAP", "SWITCH", "CLOSURE", "RESTART", "GRAB", "NEXT"}

Range(s) == {s[k] : k \in 1..Len(s)}
Last(s)  == s[Len(s)]

\* Targets are instructions of the program, but not the one it starts with, and
\* the last one is a STOP.
WellFormed(p) ==
  /\ p \in Seq([op : Kinds, dests : Seq(Nat)])
  /\ p # <<>> /\ p[1].op # "RESTART" /\ p[Len(p)].op = "STOP"
  /\ \A k \in 1..Len(p) :
       /\ p[k].op \in Jumps \cup {"PUSHTRAP", "SWITCH", "CLOSURE"} => p[k].dests # <<>>
       /\ \A j \in 1..Len(p[k].dests) : p[k].dests[j] \in 1 .. Len(p) - 1

\* The targets of instruction i of p, and the functions p makes closures of
Targets(p, i) ==
  IF p[i + 1].op \in Jumps \cup {"PUSHTRAP", "SWITCH"} THEN Range(p[i + 1].dests) ELSE {}
Closed(p, i) == IF p[i + 1].op = "CLOSURE" THEN Range(p[i + 1].dests) ELSE {}
Starts(p)    == UNION {Closed(p, i) : i \in 0 .. Len(p) - 1}
Labels(p)    == UNION {Targets(p, i) : i \in 0 .. Len(p) - 1}

\* The function that starts at f ends at e: its jumps stay in it, and no other
\* function starts in it.
Spans(p, f, e) ==
  /\ f <= e /\ p[e + 1].op \in Ends
  /\ \A i \in f..e : Targets(p, i) \subseteq f..e
  /\ \A i \in f + 1 .. e : i \notin Starts(p)

\* The jumps to f or on to f, from instruction i
Reaches(p, i, f) == f \in Targets(p, i) \/ (p[i + 1].op \in Jumps /\ f = i + 1)

(* How ocamlc lays a program out: the functions of a unit, each in one piece,
   behind a branch to the unit's own code.  So nothing runs into a function, and
   of the jumps only that branch reaches one, which is before the unit's
   closures.  A try body does not run into the target of a jump: that only
   happens at the end of an alternative. *)
LaidOut(p) ==
  LET insts == 0 .. Len(p) - 1 IN
    /\ \A i \in insts \ {0} : i \in Starts(p) \/ p[i + 1].op = "RESTART" =>
         p[i].op \in Leaving \cup {"RESTART"}
    /\ \A f \in Starts(p) :
         /\ \E e \in insts : Spans(p, f, e)
         /\ \E c \in insts : /\ f \in Closed(p, c)
                             /\ \A i \in c + 1 .. Len(p) - 1 : ~Reaches(p, i, f)
    /\ \A i \in insts : p[i + 1].op = "PUSHTRAP" =>
         \A t \in Labels(p) : t > i =>
           \E j \in i + 1 .. t - 1 : p[j + 1].op \in Jumps \cup Ends \cup {"SWITCH"}

ASSUME ProgramsAssumption == \A p \in Programs : WellFormed(p) /\ LaidOut(p)

VARIABLES
  code,         \* OriginalInstructions
  Annotation,   \* of each instruction
  pc,           \* the pass that runs: its name, "done" or "crash"
  at,           \* annotateNodes: the instruction it is at
  Queue,        \* QInstructions; then MainBlockInsts, for removeDeadInstructions
  Fn,           \* the function being made
  FuncInsts,    \* the instructions of that function
  MaxInstIdx,   \* initFunction: the highest target seen
  MainInsts,    \* MainBlockInsts
  MaxBranch, SmallestCondBranch,   \* removeDeadInstructions
  Blocks,       \* Function->Blocks
  CBlock,       \* the block being filled
  Functions     \* Module->Functions and the main function, when their blocks are made

scan  == <<Queue, FuncInsts, MaxInstIdx, MainInsts, MaxBranch, SmallestCondBranch>>
graph == <<Blocks, CBlock>>
vars  == <<code, Annotation, pc, at, Fn, scan, graph, Functions>>

MAIN == 0       \* MAIN_FUNCTION_ID
NoBlock == -1   \* nullptr

Indices  == 0 .. Len(code) - 1
Op(i)    == code[i + 1].op
Dests(i) == code[i + 1].dests
Dest(i)  == Dests(i)[1]                      \* getDestIdx

Larger(a, b) == IF a > b THEN a ELSE b

isPushTrap(i) == Op(i) = "PUSHTRAP"
isSwitch(i)   == Op(i) = "SWITCH"
isReturn(i)   == Op(i) \in Ends
HasTarget(i)  == Op(i) \in Jumps \cup {"PUSHTRAP"}

-----------------------------------------------------------------------------
(* annotateNodes *)

\* Mutant: the instruction after a jump starts no block.
BlockTargets_no_fallthrough(i) ==
  IF HasTarget(i) \/ isSwitch(i) THEN Range(Dests(i)) ELSE {}

BlockTargets(i) ==
  (IF HasTarget(i) \/ isSwitch(i) THEN Range(Dests(i)) ELSE {})
    \cup (IF Op(i) \in Jumps THEN {i + 1} ELSE {})

\* Mutant: only the first function of a CLOSUREREC is one.
FunctionTargets_first_only(i) == IF Op(i) = "CLOSURE" THEN {Dest(i)} ELSE {}

FunctionTargets(i) == IF Op(i) = "CLOSURE" THEN Range(Dests(i)) ELSE {}

\* A later annotation of the same instruction replaces the earlier one.
Annotate ==
  /\ pc = "annotateNodes"
  /\ Annotation' = [i \in Indices |->
                      IF i \in BlockTargets(at) THEN "BLOCK_START"
                      ELSE IF i \in FunctionTargets(at) THEN "FUNCTION_START"
                      ELSE Annotation[i]]
  /\ at' = at + 1
  /\ pc' = IF at + 1 = Len(code) THEN "generate" ELSE pc
  /\ UNCHANGED <<code, Fn, scan, graph, Functions>>

-----------------------------------------------------------------------------
(* generate *)

Init ==
  /\ code \in Programs
  /\ Annotation = [i \in Indices |-> "NOTHING"]
  /\ pc = "annotateNodes" /\ at = 0
  /\ Queue = [k \in 1..Len(code) |-> k - 1]
  /\ Fn = MAIN
  /\ FuncInsts = <<>> /\ MaxInstIdx = 0
  /\ MainInsts = <<>> /\ MaxBranch = 0 /\ SmallestCondBranch = 0
  /\ Blocks = << >> /\ CBlock = NoBlock
  /\ Functions = << >>

StartFunction ==
  /\ pc = "generate" /\ Queue # <<>>
  /\ Annotation[Head(Queue)] = "FUNCTION_START"
  /\ Fn' = Head(Queue)
  /\ FuncInsts' = <<>> /\ MaxInstIdx' = 0
  /\ pc' = "initFunction"
  /\ UNCHANGED <<code, Annotation, at, Queue, MainInsts, MaxBranch, SmallestCondBranch,
                 graph, Functions>>

LeaveToMain ==
  /\ pc = "generate" /\ Queue # <<>>
  /\ Annotation[Head(Queue)] # "FUNCTION_START"
  /\ MainInsts' = IF Op(Head(Queue)) # "RESTART" THEN Append(MainInsts, Head(Queue))
                  ELSE MainInsts
  /\ Queue' = Tail(Queue)
  /\ UNCHANGED <<code, Annotation, pc, at, Fn, FuncInsts, MaxInstIdx, MaxBranch,
                 SmallestCondBranch, graph, Functions>>

StartMain ==
  /\ pc = "generate" /\ Queue = <<>>
  /\ Fn' = MAIN
  /\ Queue' = MainInsts /\ FuncInsts' = <<>>
  /\ pc' = "removeDeadInstructions"
  /\ UNCHANGED <<code, Annotation, at, MaxInstIdx, MainInsts, MaxBranch, SmallestCondBranch,
                 graph, Functions>>

-----------------------------------------------------------------------------
(* initFunction: take instructions until one that returns and that no target
   seen so far lies behind. *)

\* Mutant: handlers do not count as targets.
HighestTarget_no_handler(i) ==
  IF Op(i) \in Jumps THEN Larger(MaxInstIdx, Dest(i))
  ELSE IF isSwitch(i) THEN Larger(MaxInstIdx, Last(Dests(i)))
  ELSE MaxInstIdx

\* MaxInstIdx after instruction i
HighestTarget(i) ==
  IF HasTarget(i) THEN Larger(MaxInstIdx, Dest(i))
  ELSE IF isSwitch(i) THEN Larger(MaxInstIdx, Last(Dests(i)))
  ELSE MaxInstIdx

\* The queue does not run out: the last instruction of a program is a STOP, and
\* no target lies behind it.
TakeInst ==
  /\ pc = "initFunction" /\ Queue # <<>>
  /\ LET i == Head(Queue) IN
       /\ Queue' = Tail(Queue)
       /\ FuncInsts' = Append(FuncInsts, i)
       /\ MaxInstIdx' = HighestTarget(i)
       /\ pc' = IF isReturn(i) /\ i >= MaxInstIdx' THEN "makeBlocks" ELSE pc
  /\ UNCHANGED <<code, Annotation, at, Fn, MainInsts, MaxBranch, SmallestCondBranch,
                 graph, Functions>>

-----------------------------------------------------------------------------
(* removeDeadInstructions *)

Kept(i) == i >= MaxBranch \/ (i >= SmallestCondBranch /\ SmallestCondBranch > 0)

LowersCondBranch(i) ==
  /\ Op(i) = "COND" \/ isPushTrap(i)
  /\ SmallestCondBranch > Dest(i) \/ SmallestCondBranch = 0

Sift ==
  /\ pc = "removeDeadInstructions" /\ Queue # <<>>
  /\ LET i == Head(Queue) IN
       /\ FuncInsts' = IF Kept(i) THEN Append(FuncInsts, i) ELSE FuncInsts
       /\ SmallestCondBranch' =
            IF Kept(i) /\ LowersCondBranch(i) THEN Dest(i) ELSE SmallestCondBranch
       /\ MaxBranch' = IF Kept(i) /\ Op(i) = "BRANCH" THEN Dest(i) ELSE MaxBranch
  /\ Queue' = Tail(Queue)
  /\ UNCHANGED <<code, Annotation, pc, at, Fn, MaxInstIdx, MainInsts, graph, Functions>>

Sifted ==
  /\ pc = "removeDeadInstructions" /\ Queue = <<>>
  /\ pc' = "makeBlocks"
  /\ UNCHANGED <<code, Annotation, at, Fn, scan, graph, Functions>>

-----------------------------------------------------------------------------
(* generateFunction *)

Empty == [Instructions |-> <<>>, NextBlocks |-> <<>>, PreviousBlocks |-> {},
          BrBlock |-> NoBlock, NoBrBlock |-> NoBlock]

MakeBlocks ==
  /\ pc = "makeBlocks" /\ FuncInsts # <<>>
  /\ Annotation' = [Annotation EXCEPT ![Head(FuncInsts)] = "BLOCK_START"]
  /\ Blocks' = [b \in {i \in Range(FuncInsts) : Annotation'[i] = "BLOCK_START"} |-> Empty]
  /\ CBlock' = NoBlock
  /\ pc' = "generateFunction"
  /\ UNCHANGED <<code, at, Fn, scan, Functions>>

\* setNext, for each of the targets in turn: edges of the graph G from b to them
setNext(G, b, targets, IsBrBlock) ==
  [x \in DOMAIN G |->
     [G[x] EXCEPT
        !.NextBlocks = IF x = b THEN @ \o targets ELSE @,
        !.BrBlock    = IF x = b /\ IsBrBlock THEN Last(targets) ELSE @,
        !.NoBrBlock  = IF x = b /\ ~IsBrBlock /\ targets # <<>> THEN Last(targets) ELSE @,
        !.PreviousBlocks = IF x \in Range(targets) THEN @ \cup {b} ELSE @]]

\* Mutant: a block that returns is followed by the next one.
FallsThrough_after_return(b) ==
  b # NoBlock /\ ~(Op(Last(Blocks[b].Instructions)) = "BRANCH"
                   \/ isSwitch(Last(Blocks[b].Instructions)))

\* Mutant: a conditional jump does not fall through.
FallsThrough_never_from_jump(b) ==
  b # NoBlock /\ Op(Last(Blocks[b].Instructions)) \notin Jumps \cup Ends \cup {"SWITCH"}

\* The block b runs on into the block that starts next.
FallsThrough(b) ==
  /\ b # NoBlock
  /\ LET i == Last(Blocks[b].Instructions)
     IN ~(Op(i) = "BRANCH" \/ isReturn(i) \/ isSwitch(i))

\* The block instruction i goes to
Enters(i) == IF Annotation[i] = "BLOCK_START" THEN i ELSE CBlock

\* The targets instruction i makes its block point to
Edges(i) == IF HasTarget(i) THEN <<Dest(i)>> ELSE IF isSwitch(i) THEN Dests(i) ELSE <<>>

\* The graph once the block before i, if it runs on, points to i's.
Linked(i) ==
  setNext(Blocks, CBlock,
          IF Annotation[i] = "BLOCK_START" /\ FallsThrough(CBlock) THEN <<i>> ELSE <<>>,
          FALSE)

Fill ==
  /\ pc = "generateFunction" /\ FuncInsts # <<>>
  /\ LET i == Head(FuncInsts)
         b == Enters(i)
         G == [Linked(i) EXCEPT ![b].Instructions = Append(@, i)]
     IN /\ Range(Edges(i)) \subseteq DOMAIN Blocks
        /\ Blocks' = setNext(G, b, Edges(i), HasTarget(i))
        /\ CBlock' = b
  /\ FuncInsts' = Tail(FuncInsts)
  /\ UNCHANGED <<code, Annotation, pc, at, Fn, Queue, MaxInstIdx, MainInsts, MaxBranch,
                 SmallestCondBranch, Functions>>

\* A target the function has no block for: Blocks[] makes a null one, and
\* setNext writes through it.
NullBlock ==
  /\ pc = "generateFunction" /\ FuncInsts # <<>>
  /\ ~(Range(Edges(Head(FuncInsts))) \subseteq DOMAIN Blocks)
  /\ pc' = "crash"
  /\ UNCHANGED <<code, Annotation, at, Fn, scan, graph, Functions>>

Filled ==
  /\ pc = "generateFunction" /\ FuncInsts = <<>>
  /\ pc' = "removeUnusedBlocks"
  /\ UNCHANGED <<code, Annotation, at, Fn, scan, graph, Functions>>

-----------------------------------------------------------------------------
(* removeUnusedBlocks *)

\* Mutant: the test of the position is lost, so the first block may go.
Unused_first(G) == {b \in DOMAIN G : G[b].PreviousBlocks = {}}

\* std::map keeps the blocks in the order of their ids: the lowest stays.
Unused(G) == {b \in DOMAIN G : /\ G[b].PreviousBlocks = {}
                               /\ \E a \in DOMAIN G : a < b}

Without(G, U) ==
  [b \in DOMAIN G \ U |-> [G[b] EXCEPT !.PreviousBlocks = @ \ U]]

\* Mutant: one pass is taken for enough.
Restarts_never(G, U) == FALSE

\* Mutant: the first block asks for another pass, as any without predecessors.
Restarts_for_first(G, U) == \E b \in DOMAIN G : G[b].PreviousBlocks \subseteq U

\* Another pass is due when the removal left a block without predecessors.
Restarts(G, U) ==
  \E u \in U : \E n \in Range(G[u].NextBlocks) : G[n].PreviousBlocks \subseteq U

Prune ==
  /\ pc = "removeUnusedBlocks"
  /\ Blocks' = Without(Blocks, Unused(Blocks))
  /\ IF Restarts(Blocks, Unused(Blocks))
     THEN UNCHANGED <<pc, Functions>>
     ELSE /\ Functions' = [f \in DOMAIN Functions \cup {Fn} |->
                             IF f = Fn THEN Blocks' ELSE Functions[f]]
          /\ pc' = IF Fn = MAIN THEN "done" ELSE "generate"
  /\ UNCHANGED <<code, Annotation, at, Fn, scan, CBlock>>

-----------------------------------------------------------------------------
Next ==
  \/ Annotate
  \/ StartFunction \/ LeaveToMain \/ StartMain
  \/ TakeInst
  \/ Sift \/ Sifted
  \/ MakeBlocks \/ Fill \/ NullBlock \/ Filled
  \/ Prune

Spec == Init /\ [][Next]_vars

-----------------------------------------------------------------------------
Graph == [Instructions : Seq(Indices), NextBlocks : Seq(Indices),
          PreviousBlocks : SUBSET Indices,
          BrBlock : Indices \cup {NoBlock}, NoBrBlock : Indices \cup {NoBlock}]

IsGraph(G) ==
  /\ DOMAIN G \subseteq Indices
  /\ \A b \in DOMAIN G : G[b] \in Graph /\ Range(G[b].NextBlocks) \subseteq DOMAIN G

TypeOK ==
  /\ WellFormed(code)
  /\ Annotation \in [Indices -> {"NOTHING", "FUNCTION_START", "BLOCK_START"}]
  /\ pc \in {"annotateNodes", "generate", "initFunction", "removeDeadInstructions",
             "makeBlocks", "generateFunction", "removeUnusedBlocks", "done", "crash"}
  /\ at \in 0..Len(code)
  /\ Queue \in Seq(Indices) /\ FuncInsts \in Seq(Indices) /\ MainInsts \in Seq(Indices)
  /\ Fn \in Indices
  /\ MaxInstIdx \in Indices /\ MaxBranch \in Indices /\ SmallestCondBranch \in Indices
  /\ IsGraph(Blocks) /\ CBlock \in Indices \cup {NoBlock}
  /\ DOMAIN Functions \subseteq Indices
  /\ \A f \in DOMAIN Functions :
       /\ IsGraph(Functions[f])
       /\ f \in DOMAIN Functions[f]
       /\ \A b \in DOMAIN Functions[f] : Functions[f][b].Instructions # <<>>

(* What the bytecode interpreter does: the instructions that may run after i,
   in the same activation.  A handler may run after any instruction of its
   try body, and for the control flow counts as a successor of PUSHTRAP. *)
Successors(i) ==
  Range(Edges(i))
    \cup (IF Op(i) \in Leaving THEN {} ELSE {i + 1})

Body(f) == UNION {Range(Functions[f][b].Instructions) : b \in DOMAIN Functions[f]}

(* When initFunction has found the end of a function, or removeDeadInstructions
   what is alive of the main code, no instruction left in it has a target that
   was left out. *)
TargetsKept ==
  pc = "makeBlocks" =>
    \A i \in Range(FuncInsts) : Range(Edges(i)) \subseteq Range(FuncInsts)

(* initFunction takes the last entry of a switch for the highest. *)
LastEntryHighest ==
  \A i \in Indices : isSwitch(i) => \A d \in Range(Dests(i)) : d <= Last(Dests(i))

(* So functions keep their targets in every program whose matches do not share
   their last arm with an earlier one.  The main code may lose some even then:
   removeDeadInstructions drops nothing behind the target of the first test, but
   takes a match or a loop before it apart.  No program of the runs has one there. *)
TargetsKeptIfHighest == LastEntryHighest => TargetsKept

(* The code of a finished function, the main one included, is closed under what
   may run next: the end found for it, the instructions dropped as dead and the
   blocks dropped as unused never take away one that can run. *)
FunctionsWhole ==
  \A f \in DOMAIN Functions : \A i \in Body(f) : Successors(i) \subseteq Body(f)

(* A block is a run of consecutive instructions that control enters at the
   first and leaves at the last. *)
StraightLine ==
  \A f \in DOMAIN Functions : \A b \in DOMAIN Functions[f] :
    LET s == Functions[f][b].Instructions IN
      /\ s[1] = b
      /\ \A k \in 1..Len(s) - 1 :
           Op(s[k]) \notin Jumps \cup Ends \cup {"SWITCH"} /\ s[k + 1] = s[k] + 1

(* The edges the code generator follows are those of the bytecode: the targets
   and handlers of a block's instructions and no others, with the jump target,
   the fall-through of a conditional jump and of a plain block where GenBlock
   looks for them. *)
EdgesRight ==
  \A f \in DOMAIN Functions : \A b \in DOMAIN Functions[f] :
    LET G == Functions[f]
        i == Last(G[b].Instructions)
        handlers == {Dest(j) : j \in {h \in Range(G[b].Instructions) : isPushTrap(h)}}
    IN /\ Range(G[b].NextBlocks) = handlers \cup Successors(i)
       /\ G[b].PreviousBlocks = {a \in DOMAIN G : b \in Range(G[a].NextBlocks)}
       /\ Op(i) \in Jumps => G[b].BrBlock = Dest(i)
       /\ Op(i) = "COND" => G[b].NoBrBlock = i + 1
       /\ Op(i) \in Kinds \ (Jumps \cup Ends \cup {"SWITCH"}) => Head(G[b].NextBlocks) = i + 1

(* GenBlock::CodeGen starts each block of the main function that has no
   predecessor with a call of init, which resets StackPointer: only the first
   block may be one. *)
InitOnce ==
  pc = "done" =>
    {b \in DOMAIN Functions[MAIN] : Functions[MAIN][b].PreviousBlocks = {}} = {MAIN}

(* getPtrToFunc finds the function of every closure the kept code makes, although
   an annotation may be overwritten and functions are only found in passing. *)
ClosuresHaveCode ==
  pc = "done" =>
    \A f \in DOMAIN Functions : \A i \in Body(f) :
      Op(i) = "CLOSURE" => Range(Dests(i)) \subseteq DOMAIN Functions \ {MAIN}
=============================================================================

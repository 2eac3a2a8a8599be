-------------------------- MODULE ReadInstructions --------------------------
(***************************************************************************)
(* readInstructions (src/Instructions.cpp): from the words of a bytecode   *)
(* file to a vector of instructions that name one another by index.        *)
(*                                                                         *)
(* The words do not say where an instruction ends: its length follows from *)
(* the operation, and for CLOSUREREC and SWITCH from operands just read.   *)
(* Targets are relative to a word that depends on the operation.  The      *)
(* function keeps two cursors, TabInst and Pos, moved at different places, *)
(* and looks targets up under the value Pos had after the operation code.  *)
(*                                                                         *)
(* One operation stands for all of the same shape: "PUSH", "ACC" and       *)
(* "GETPUBMET" have 0, 1 and 2 operands and no target, "BRANCH" is any of  *)
(* BRANCH, BRANCHIF, BRANCHIFNOT, PUSHTRAP and PUSH_RETADDR, "BEQ" any     *)
(* conditional jump with an operand.                                       *)
(***************************************************************************)
EXTENDS Integers, Sequences

CONSTANT Files  \* [program, address, Tab, Size]: see Encoded

Shift16 == 65536

\* AllOpCodes
Arity(op) ==
  CASE op = "PUSH" -> 0
    [] op \in {"ACC", "BRANCH", "SWITCH"} -> 1
    [] op \in {"GETPUBMET", "BEQ", "CLOSURE", "CLOSUREREC"} -> 2

\* CodeOffsetArgs: the operand, counted from 0, that is a target
CodeOffsetArgs == [op \in {"BRANCH", "BEQ", "CLOSURE"} |-> IF op = "BRANCH" THEN 0 ELSE 1]

hasCodeOffset_jumps_only(op) == op \in {"BRANCH", "BEQ"}

hasCodeOffset(op) == op \in DOMAIN CodeOffsetArgs

-----------------------------------------------------------------------------
(* The file ocamlc writes for a program.  An instruction is [op, args, targets,
   blocks]: `args' are the operands other than targets, and `targets' the indices
   of instructions, one for a jump or CLOSURE, all the functions of CLOSUREREC, the
   entries of SWITCH.  The first entries of SWITCH are for constant constructors,
   the last `blocks' ones for blocks. *)

Tables == {"CLOSUREREC", "SWITCH"}
Jumps  == {"BRANCH", "BEQ", "CLOSURE"}
Plain  == {"PUSH", "ACC", "GETPUBMET"}

MaxFns == 32  \* functions in one definition: what ClosureRecFns[] can hold

Shaped(inst) ==
  /\ Len(inst.args) = CASE inst.op \in {"PUSH", "BRANCH", "SWITCH"} -> 0
                        [] inst.op \in {"ACC", "BEQ", "CLOSURE", "CLOSUREREC"} -> 1
                        [] inst.op = "GETPUBMET" -> 2
  /\ inst.op \in Plain => inst.targets = <<>>
  /\ inst.op \in Jumps => Len(inst.targets) = 1
  /\ inst.op = "CLOSUREREC" => Len(inst.targets) \in 1..MaxFns
  /\ inst.op = "SWITCH" => /\ inst.targets # <<>>
                           /\ inst.blocks \in 0..Len(inst.targets)
                           /\ Len(inst.targets) - inst.blocks < Shift16
                           /\ inst.blocks < Shift16 \div 2

Operands(inst) ==
  IF inst.op = "CLOSUREREC" THEN <<Len(inst.targets)>> \o inst.args
  ELSE IF inst.op = "SWITCH" THEN <<Len(inst.targets) - inst.blocks + inst.blocks * Shift16>>
  ELSE inst.args

\* Words of an instruction, and how many come before its targets
Before(inst) == 1 + Len(Operands(inst))
Words(inst)  == Before(inst) + Len(inst.targets)

Instruction(n) ==
  [op : Tables \cup Jumps \cup Plain, args : Seq(Int), targets : Seq(0..n - 1), blocks : Nat]

(* Words are counted from 0.  `address' is the counter ocamlc advances by every
   word it writes, at the first word of every instruction; targets are relative
   to the first of the words that hold them. *)
Encoded(file) ==
  LET count == Len(file.program)
  IN /\ file.program \in Seq(Instruction(count))
     /\ file.Size \in Nat /\ DOMAIN file.Tab = 0..file.Size - 1
     /\ file.address \in [0..count -> 0..file.Size]
     /\ file.address[0] = 0 /\ file.address[count] = file.Size
     /\ \A k \in 1..count :
          LET inst  == file.program[k]
              first == file.address[k - 1]
              table == first + Before(inst)
          IN /\ Shaped(inst)
             /\ file.address[k] = first + Words(inst)
             /\ file.Tab[first] = inst.op
             /\ \A j \in 1..Len(Operands(inst)) : file.Tab[first + j] = Operands(inst)[j]
             /\ \A j \in 1..Len(inst.targets) :
                  file.Tab[table + j - 1] = file.address[inst.targets[j]] - table

ASSUME FilesAssumption == \A file \in Files : Encoded(file)

-----------------------------------------------------------------------------
VARIABLES
  file,            \* the file that is read
  TabInst, Pos,    \* the two cursors
  Instructions,    \* [OpNum, Args, ClosureRecFns, SwitchEntries]
  InstPositions,   \* Pos after the operation code -> index of the instruction
  InstsToAdjust,   \* indices of instructions
  phase            \* "read", "adjust" or "done"

vars == <<file, TabInst, Pos, Instructions, InstPositions, InstsToAdjust, phase>>

Init ==
  /\ file \in Files
  /\ TabInst = 0 /\ Pos = 0
  /\ Instructions = <<>> /\ InstPositions = << >> /\ InstsToAdjust = <<>>
  /\ phase = "read"

WordAt(w) == file.Tab[w]

\* A table of n targets is read when Pos is on its first word.
TableOf(n) == [k \in 1..n |-> (Pos + 1 + Arity(WordAt(TabInst)) + 1)
                               + WordAt(TabInst + Arity(WordAt(TabInst)) + k)]

NumSwitchEntries_constants_only(arg) == arg % Shift16

NumSwitchEntries(arg) == (arg \div Shift16) + (arg % Shift16)

NextPos_table_too_long(op, n, table) ==
  Pos + 1 + n + (IF op \in Tables THEN 1 + table ELSE 0)

\* Pos is moved on for a table only after it was read, all but one word of it.
NextPos(op, n, table) ==
  Pos + 1 + n + (IF op \in Tables THEN 1 + (table - 1) ELSE 0)

\* One turn of the reading loop
ReadInstruction ==
  /\ phase = "read" /\ Pos < file.Size
  /\ LET op   == WordAt(TabInst)
         n    == Arity(op)
         args == [k \in 1..n |->
                    IF hasCodeOffset(op) /\ CodeOffsetArgs[op] = k - 1
                    THEN (Pos + k) + WordAt(TabInst + k) + 1
                    ELSE WordAt(TabInst + k)]
         fns     == IF op = "CLOSUREREC" THEN TableOf(args[1]) ELSE <<>>
         entries == IF op = "SWITCH" THEN TableOf(NumSwitchEntries(args[1])) ELSE <<>>
         table   == Len(fns) + Len(entries)
         index   == Len(Instructions)
     IN /\ Instructions' = Append(Instructions, [OpNum |-> op, Args |-> args,
                                                 ClosureRecFns |-> fns, SwitchEntries |-> entries])
        /\ InstPositions' = [q \in DOMAIN InstPositions \cup {Pos + 1} |->
                               IF q = Pos + 1 THEN index ELSE InstPositions[q]]
        /\ InstsToAdjust' = IF hasCodeOffset(op) \/ op \in Tables
                            THEN Append(InstsToAdjust, index) ELSE InstsToAdjust
        /\ TabInst' = TabInst + 1 + n + table
        /\ Pos' = NextPos(op, n, table)
  /\ UNCHANGED <<file, phase>>

ReadAll ==
  /\ phase = "read" /\ Pos >= file.Size
  /\ phase' = "adjust"
  /\ UNCHANGED <<file, TabInst, Pos, Instructions, InstPositions, InstsToAdjust>>

\* Positions to indices, in one instruction.  A position without an instruction
\* would be a null pointer.
Adjust ==
  /\ phase = "adjust" /\ InstsToAdjust # <<>>
  /\ LET i    == Head(InstsToAdjust) + 1
         inst == Instructions[i]
         Indices(table) == [k \in DOMAIN table |-> InstPositions[table[k]]]
     IN Instructions' =
          CASE inst.OpNum = "CLOSUREREC" ->
                 [Instructions EXCEPT ![i].ClosureRecFns = Indices(inst.ClosureRecFns)]
            [] inst.OpNum = "SWITCH" ->
                 [Instructions EXCEPT ![i].SwitchEntries = Indices(inst.SwitchEntries)]
            [] OTHER ->
                 [Instructions EXCEPT ![i].Args[CodeOffsetArgs[inst.OpNum] + 1] = InstPositions[@]]
  /\ InstsToAdjust' = Tail(InstsToAdjust)
  /\ UNCHANGED <<file, TabInst, Pos, InstPositions, phase>>

AdjustedAll ==
  /\ phase = "adjust" /\ InstsToAdjust = <<>>
  /\ phase' = "done"
  /\ UNCHANGED <<file, TabInst, Pos, Instructions, InstPositions, InstsToAdjust>>

Next == ReadInstruction \/ ReadAll \/ Adjust \/ AdjustedAll

Spec == Init /\ [][Next]_vars

-----------------------------------------------------------------------------
getSwitchOffset_blocks_first(arg, isBlock, n) ==
  IF isBlock THEN n ELSE (arg \div Shift16) + n

\* getSwitchOffset, for a constant constructor or for a block
getSwitchOffset(arg, isBlock, n) == IF isBlock THEN (arg % Shift16) + n ELSE n

\* The cursors stay in the file, and positions name instructions that were read.
TypeOK ==
  /\ TabInst \in 0..file.Size /\ Pos \in 0..file.Size
  /\ DOMAIN InstPositions \subseteq 1..file.Size
  /\ \A q \in DOMAIN InstPositions : InstPositions[q] \in 0..Len(Instructions) - 1
  /\ phase \in {"read", "adjust", "done"}

(* Between two instructions both cursors are on the first word of the next one,
   and every instruction read is filed under the word after its own first. *)
CursorsAgree ==
  /\ Pos = TabInst
  /\ Len(Instructions) <= Len(file.program)
  /\ TabInst = file.address[Len(Instructions)]
  /\ \A i \in 0..Len(Instructions) - 1 :
       /\ file.address[i] + 1 \in DOMAIN InstPositions
       /\ InstPositions[file.address[i] + 1] = i

\* An instruction as it was compiled, with ts for its targets
Decoded(inst, ts) ==
  [OpNum         |-> inst.op,
   Args          |-> Operands(inst) \o (IF inst.op \in Tables THEN <<>> ELSE ts),
   ClosureRecFns |-> IF inst.op = "CLOSUREREC" THEN ts ELSE <<>>,
   SwitchEntries |-> IF inst.op = "SWITCH" THEN ts ELSE <<>>]

(* The vector is the program that was compiled: every operation with its
   operands, and every target, function and switch entry, forward or backward,
   the index of the instruction that was meant. *)
RoundTrip ==
  phase = "done" =>
    Instructions = [k \in 1..Len(file.program) |->
                      Decoded(file.program[k], file.program[k].targets)]

(* A value that is matched goes to the entry of its constructor: the same operand
   gives the number of entries here and separates constants from blocks when the
   program runs. *)
SwitchReaches ==
  phase = "done" =>
    \A k \in {j \in 1..Len(file.program) : file.program[j].op = "SWITCH"} :
      LET read   == Instructions[k]
          consts == Len(file.program[k].targets) - file.program[k].blocks
          At(isBlock, n) == read.SwitchEntries[getSwitchOffset(read.Args[1], isBlock, n) + 1]
      IN /\ \A n \in 0..consts - 1 : At(FALSE, n) = file.program[k].targets[n + 1]
         /\ \A n \in 0..file.program[k].blocks - 1 : At(TRUE, n) = file.program[k].targets[consts + n + 1]
=============================================================================

----------------------- MODULE ReadInstructionsProofs -----------------------
(***************************************************************************)
(* The invariants of ReadInstructions, proved for every file ocamlc can    *)
(* write: programs of any length, tables of any size the code can hold,    *)
(* targets anywhere.                                                       *)
(***************************************************************************)
EXTENDS ReadInstructions, SequenceTheorems, TLAPS

-----------------------------------------------------------------------------
(* The inductive invariant: the instructions read so far are those of the
   program, with positions for targets in those that are still to adjust. *)

Results == [OpNum : Tables \cup Jumps \cup Plain, Args : Seq(Int),
            ClosureRecFns : Seq(Int), SwitchEntries : Seq(Int)]

Read == Len(Instructions)

\* The positions of an instruction's targets
Positions(inst) == [j \in 1..Len(inst.targets) |-> file.address[inst.targets[j]] + 1]

Pending(i) == \E j \in 1..Len(InstsToAdjust) : InstsToAdjust[j] = i

TargetsNow(k) ==
  IF Pending(k - 1) THEN Positions(file.program[k]) ELSE file.program[k].targets

ReadSoFar ==
  /\ Instructions \in Seq(Results) /\ Read <= Len(file.program)
  /\ \A k \in 1..Read : Instructions[k] = Decoded(file.program[k], TargetsNow(k))

\* Both cursors are where the next instruction begins, which is a new position.
AtNext ==
  /\ Pos = TabInst /\ TabInst = file.address[Read]
  /\ \A i \in 0..Read - 1 : file.address[i] < file.address[Read]

PositionsNamed ==
  /\ DOMAIN InstPositions = {file.address[i] + 1 : i \in 0..Read - 1}
  /\ \A i \in 0..Read - 1 : InstPositions[file.address[i] + 1] = i

\* Every instruction is to be adjusted at most once.
ToAdjustOnce ==
  /\ InstsToAdjust \in Seq(0..Read - 1)
  /\ \A i, j \in 1..Len(InstsToAdjust) : i < j => InstsToAdjust[i] < InstsToAdjust[j]
  /\ \A j \in 1..Len(InstsToAdjust) : file.program[InstsToAdjust[j] + 1].op \notin Plain

PhaseEnds ==
  /\ phase \in {"read", "adjust", "done"}
  /\ phase # "read" => Read = Len(file.program)
  /\ phase = "done" => InstsToAdjust = <<>>

RInv ==
  /\ file \in Files
  /\ ReadSoFar /\ AtNext /\ PositionsNamed /\ ToAdjustOnce /\ PhaseEnds

-----------------------------------------------------------------------------
(* What a file holds. *)

LEMMA Difference ==
  \A t, b, m \in Nat : b <= t /\ t - b < m => t - b \in 0..m - 1
OBVIOUS

LEMMA QuotientAndRest ==
  ASSUME NEW s \in Nat \ {0}, NEW c \in 0..s - 1, NEW b \in Nat
  PROVE  (c + b * s) \div s = b /\ (c + b * s) % s = c /\ c + b * s \in Nat
<1>1. (c + b * s) \div s = b
  OBVIOUS
<1>2. (c + b * s) % s = c
  OBVIOUS
<1>3. c + b * s \in Nat
  OBVIOUS
<1> QED BY <1>1, <1>2, <1>3

LEMMA ShiftPositive == Shift16 \in Nat \ {0}
BY SMTT(60) DEF Shift16

\* Half a word for the constant constructors and half a word for the others
LEMMA PackedCounts ==
  ASSUME NEW c \in 0..Shift16 - 1, NEW b \in Nat
  PROVE  /\ (c + b * Shift16) \div Shift16 = b
         /\ (c + b * Shift16) % Shift16 = c
         /\ c + b * Shift16 \in Nat
BY ShiftPositive, QuotientAndRest

LEMMA ConcatInts ==
  ASSUME NEW s \in Seq(Int), NEW t \in Seq(Int)
  PROVE  /\ s \o t \in Seq(Int)
         /\ Len(s \o t) = Len(s) + Len(t)
         /\ \A i \in 1..Len(s) + Len(t) :
              (s \o t)[i] = IF i <= Len(s) THEN s[i] ELSE t[i - Len(s)]
BY ConcatProperties

OperandFacts(inst) ==
  /\ Operands(inst) \in Seq(Int) /\ Len(Operands(inst)) \in Nat
  /\ inst.targets \in Seq(Int) /\ Len(inst.targets) \in Nat
  /\ Arity(inst.op) \in Nat
  /\ inst.op \in Tables => Len(Operands(inst)) = Arity(inst.op)
  /\ inst.op \in Jumps =>
       /\ Len(inst.targets) = 1
       /\ CodeOffsetArgs[inst.op] = Len(Operands(inst))
       /\ Arity(inst.op) = Len(Operands(inst)) + 1
  /\ inst.op \in Plain => inst.targets = <<>> /\ Len(Operands(inst)) = Arity(inst.op)
  /\ hasCodeOffset(inst.op) <=> inst.op \in Jumps
  /\ inst.op = "CLOSUREREC" => Operands(inst)[1] = Len(inst.targets)
  /\ inst.op = "SWITCH" => NumSwitchEntries(Operands(inst)[1]) = Len(inst.targets)

LEMMA OperandsShaped ==
  ASSUME NEW count \in Nat, NEW inst \in Instruction(count), Shaped(inst)
  PROVE  OperandFacts(inst)
<1> DEFINE consts == Len(inst.targets) - inst.blocks
<1>1. /\ inst.op \in Tables \cup Jumps \cup Plain
      /\ inst.args \in Seq(Int) /\ inst.targets \in Seq(0..count - 1) /\ inst.blocks \in Nat
  BY DEF Instruction
<1>2. inst.targets \in Seq(Int)
  <2>1. 0..count - 1 \subseteq Int OBVIOUS
  <2> QED BY <1>1, <2>1, SeqMonotonic
<1>3. Len(inst.targets) \in Nat /\ Len(inst.args) \in Nat
  BY <1>1, <1>2, LenProperties
<1>4. CASE inst.op = "CLOSUREREC"
  <2> DEFINE fns == <<Len(inst.targets)>>
  <2>1. Len(inst.args) = 1 /\ Operands(inst) = fns \o inst.args
    BY <1>4 DEF Shaped, Operands
  <2>2. fns \in Seq(Int) /\ Len(fns) = 1 /\ fns[1] = Len(inst.targets)
    BY <1>3
  <2>3. /\ Operands(inst) \in Seq(Int) /\ Len(Operands(inst)) = 2
        /\ Operands(inst)[1] = Len(inst.targets)
    <3> HIDE DEF fns
    <3>1. /\ fns \o inst.args \in Seq(Int)
          /\ Len(fns \o inst.args) = Len(fns) + Len(inst.args)
          /\ \A i \in 1..Len(fns) + Len(inst.args) : (fns \o inst.args)[i] =
               IF i <= Len(fns) THEN fns[i] ELSE inst.args[i - Len(fns)]
      BY ONLY <1>1, <2>2, ConcatInts
    <3> QED BY <3>1, <2>1, <2>2
  <2> QED
    BY <1>2, <1>3, <1>4, <2>3
    DEF OperandFacts, Arity, Tables, Jumps, Plain, hasCodeOffset, CodeOffsetArgs
<1>5. CASE inst.op = "SWITCH"
  <2> DEFINE arg == consts + inst.blocks * Shift16
  <2>1. Operands(inst) = <<arg>>
    BY <1>5 DEF Operands
  <2>2. consts \in 0..Shift16 - 1
    <3>1. inst.blocks <= Len(inst.targets) /\ Len(inst.targets) - inst.blocks < Shift16
      BY <1>5 DEF Shaped
    <3>2. Shift16 \in Nat
      BY ShiftPositive
    <3> HIDE DEF consts
    <3>3. inst.blocks \in Nat /\ Len(inst.targets) \in Nat
      BY <1>1, <1>3
    <3>4. Len(inst.targets) - inst.blocks \in 0..Shift16 - 1
      BY ONLY <3>1, <3>2, <3>3, Difference
    <3> QED BY ONLY <3>4 DEF consts
  <2>3. arg \in Nat /\ NumSwitchEntries(arg) = Len(inst.targets)
    <3>1. arg \in Nat /\ arg \div Shift16 = inst.blocks /\ arg % Shift16 = consts
      <4> HIDE DEF consts
      <4> QED BY ONLY <1>1, <2>2, PackedCounts
    <3>2. inst.blocks + consts = Len(inst.targets)
      BY <1>1, <1>3
    <3> HIDE DEF arg, consts
    <3> QED BY <3>1, <3>2 DEF NumSwitchEntries
  <2> HIDE DEF arg, consts
  <2>4. /\ Operands(inst) \in Seq(Int) /\ Len(Operands(inst)) = 1
        /\ Operands(inst)[1] = arg
    BY <2>1, <2>3
  <2> QED
    BY <1>2, <1>3, <1>5, <2>3, <2>4
    DEF OperandFacts, Arity, Tables, Jumps, Plain, hasCodeOffset, CodeOffsetArgs
<1>6. CASE inst.op \in Jumps
  <2>1. Operands(inst) = inst.args /\ Len(inst.targets) = 1
    BY <1>6 DEF Operands, Shaped, Jumps
  <2>2. /\ CodeOffsetArgs[inst.op] = Len(inst.args)
        /\ Arity(inst.op) = Len(inst.args) + 1
        /\ hasCodeOffset(inst.op)
    BY <1>6 DEF Shaped, Jumps, Arity, hasCodeOffset, CodeOffsetArgs
  <2>3. inst.op \notin Tables \cup Plain
    BY <1>6 DEF Jumps, Plain, Tables
  <2> QED
    BY <1>1, <1>2, <1>3, <1>6, <2>1, <2>2, <2>3 DEF OperandFacts, Tables
<1>7. CASE inst.op \in Plain
  <2>1. Operands(inst) = inst.args /\ inst.targets = <<>>
    BY <1>7 DEF Operands, Shaped, Plain
  <2>2. Arity(inst.op) = Len(inst.args) /\ ~hasCodeOffset(inst.op)
    BY <1>7 DEF Shaped, Plain, Arity, hasCodeOffset, CodeOffsetArgs
  <2>3. inst.op \notin Tables \cup Jumps
    BY <1>7 DEF Jumps, Plain, Tables
  <2> QED
    BY <1>1, <1>2, <1>3, <1>7, <2>1, <2>2, <2>3 DEF OperandFacts, Tables
<1> QED BY <1>1, <1>4, <1>5, <1>6, <1>7 DEF Tables

FileFacts(f, k, inst, first) ==
  /\ inst \in Instruction(Len(f.program)) /\ Shaped(inst) /\ OperandFacts(inst)
  /\ first \in 0..f.Size /\ f.address[k] \in 0..f.Size
  /\ f.address[k] = first + 1 + Len(Operands(inst)) + Len(inst.targets)
  /\ f.Tab[first] = inst.op
  /\ \A j \in 1..Len(Operands(inst)) : f.Tab[first + j] = Operands(inst)[j]
  /\ \A j \in 1..Len(inst.targets) :
       f.Tab[first + Len(Operands(inst)) + j]
         = f.address[inst.targets[j]] - (first + 1 + Len(Operands(inst)))

LEMMA FilesEncoded ==
  ASSUME NEW f \in Files
  PROVE  /\ Len(f.program) \in Nat /\ f.Size \in Nat
         /\ f.address[0] = 0 /\ f.address[Len(f.program)] = f.Size
         /\ \A i \in 0..Len(f.program) : f.address[i] \in 0..f.Size
<1>1. Encoded(f)
  BY FilesAssumption
<1>2. Len(f.program) \in Nat
  BY <1>1, LenProperties DEF Encoded
<1> QED BY <1>1, <1>2 DEF Encoded

LEMMA FileInstructions ==
  ASSUME NEW f \in Files, NEW k \in 1..Len(f.program)
  PROVE  FileFacts(f, k, f.program[k], f.address[k - 1])
<1> DEFINE inst  == f.program[k]
           first == f.address[k - 1]
           table == first + Before(inst)
<1>1. Encoded(f)
  BY FilesAssumption
<1>2. Len(f.program) \in Nat
  BY FilesEncoded
<1>3. inst \in Instruction(Len(f.program))
  BY <1>1, ElementOfSeq DEF Encoded
<1>4. /\ Shaped(inst)
      /\ f.address[k] = first + Words(inst)
      /\ f.Tab[first] = inst.op
      /\ \A j \in 1..Len(Operands(inst)) : f.Tab[first + j] = Operands(inst)[j]
      /\ \A j \in 1..Len(inst.targets) :
           f.Tab[table + j - 1] = f.address[inst.targets[j]] - table
  BY <1>1 DEF Encoded
<1>5. first \in 0..f.Size /\ f.address[k] \in 0..f.Size
  BY <1>2, FilesEncoded
<1>6. OperandFacts(inst)
  BY <1>2, <1>3, <1>4, OperandsShaped
<1>7. Len(Operands(inst)) \in Nat /\ Len(inst.targets) \in Nat /\ first \in Nat /\ f.Size \in Nat
  BY <1>5, <1>6, FilesEncoded DEF OperandFacts
<1>8. table = first + 1 + Len(Operands(inst)) /\ Words(inst) = 1 + Len(Operands(inst)) + Len(inst.targets)
  BY <1>7 DEF Before, Words
<1>9. \A j \in 1..Len(inst.targets) : table + j - 1 = first + Len(Operands(inst)) + j
  BY <1>7, <1>8
<1>10. \A j \in 1..Len(inst.targets) :
         f.Tab[first + Len(Operands(inst)) + j]
            = f.address[inst.targets[j]] - (first + 1 + Len(Operands(inst)))
  BY <1>4, <1>8, <1>9
<1>11. f.address[k] = first + 1 + Len(Operands(inst)) + Len(inst.targets)
  <2>1. f.address[k] = first + Words(inst)
    BY <1>4
  <2>2. \A x, y, z \in Nat : x + (1 + y + z) = x + 1 + y + z
    OBVIOUS
  <2> HIDE DEF inst, first, table
  <2>3. first + (1 + Len(Operands(inst)) + Len(inst.targets))
           = first + 1 + Len(Operands(inst)) + Len(inst.targets)
    BY ONLY <1>7, <2>2
  <2>4. Words(inst) = 1 + Len(Operands(inst)) + Len(inst.targets)
    BY <1>8
  <2>5. f.address[k] = first + (1 + Len(Operands(inst)) + Len(inst.targets))
    BY ONLY <2>1, <2>4
  <2> QED BY ONLY <2>3, <2>5
<1> HIDE DEF inst, first, table
<1>12. FileFacts(f, k, inst, first)
  BY ONLY <1>3, <1>4, <1>5, <1>6, <1>10, <1>11 DEF FileFacts
<1> QED BY <1>12 DEF inst, first

-----------------------------------------------------------------------------
(* What one turn of the reading loop takes out of the file. *)

LEMMA FunctionIsSeq ==
  ASSUME NEW n \in Nat, NEW f \in [1..n -> Int]
  PROVE  f \in Seq(Int) /\ Len(f) = n
<1>1. f \in Seq(Int)
  BY SeqDef
<1> QED BY <1>1, LenProperties

LEMMA EqualSeqs ==
  ASSUME NEW s \in Seq(Int), NEW t \in Seq(Int), Len(s) = Len(t),
         \A i \in 1..Len(s) : s[i] = t[i]
  PROVE  s = t
BY SeqEqual

PositionFacts(inst) ==
  /\ Positions(inst) \in Seq(Int) /\ Len(Positions(inst)) = Len(inst.targets)
  /\ \A j \in 1..Len(inst.targets) :
       Positions(inst)[j] = file.address[inst.targets[j]] + 1
  /\ \A j \in 1..Len(inst.targets) : inst.targets[j] \in 0..Len(file.program) - 1
  /\ \A j \in 1..Len(inst.targets) : file.address[inst.targets[j]] \in Nat

LEMMA PositionsTyped ==
  ASSUME file \in Files, NEW k \in 1..Len(file.program)
  PROVE  PositionFacts(file.program[k])
<1> DEFINE inst == file.program[k]
<1>1. /\ inst \in Instruction(Len(file.program)) /\ OperandFacts(inst)
  BY FileInstructions DEF FileFacts
<1>2. inst.targets \in Seq(0..Len(file.program) - 1) /\ Len(inst.targets) \in Nat
  BY <1>1 DEF Instruction, OperandFacts
<1> HIDE DEF inst
<1>3. \A j \in 1..Len(inst.targets) : inst.targets[j] \in 0..Len(file.program) - 1
  BY <1>2, ElementOfSeq
<1>4. \A i \in 0..Len(file.program) - 1 : file.address[i] \in Nat
  BY FilesEncoded
<1>5. \A j \in 1..Len(inst.targets) : file.address[inst.targets[j]] \in Nat
  BY <1>3, <1>4
<1>6. /\ Positions(inst) \in [1..Len(inst.targets) -> Int]
      /\ \A j \in 1..Len(inst.targets) :
           Positions(inst)[j] = file.address[inst.targets[j]] + 1
  BY <1>5 DEF Positions
<1>7. Positions(inst) \in Seq(Int) /\ Len(Positions(inst)) = Len(inst.targets)
  BY <1>2, <1>6, FunctionIsSeq
<1>8. PositionFacts(inst)
  BY <1>3, <1>5, <1>6, <1>7 DEF PositionFacts
<1> QED BY <1>8 DEF inst

OpRead == WordAt(TabInst)

ArgsRead ==
  [k \in 1..Arity(OpRead) |->
     IF hasCodeOffset(OpRead) /\ CodeOffsetArgs[OpRead] = k - 1
     THEN (Pos + k) + WordAt(TabInst + k) + 1
     ELSE WordAt(TabInst + k)]

FnsRead == IF OpRead = "CLOSUREREC" THEN TableOf(ArgsRead[1]) ELSE <<>>

EntriesRead == IF OpRead = "SWITCH" THEN TableOf(NumSwitchEntries(ArgsRead[1])) ELSE <<>>

TableRead == Len(FnsRead) + Len(EntriesRead)

InstRead == [OpNum |-> OpRead, Args |-> ArgsRead,
             ClosureRecFns |-> FnsRead, SwitchEntries |-> EntriesRead]

LEMMA ReadInstructionIs ==
  ASSUME ReadInstruction
  PROVE  /\ phase = "read" /\ Pos < file.Size
         /\ Instructions' = Append(Instructions, InstRead)
         /\ InstPositions' = [q \in DOMAIN InstPositions \cup {Pos + 1} |->
                                IF q = Pos + 1 THEN Len(Instructions) ELSE InstPositions[q]]
         /\ InstsToAdjust' = IF hasCodeOffset(OpRead) \/ OpRead \in Tables
                             THEN Append(InstsToAdjust, Len(Instructions)) ELSE InstsToAdjust
         /\ TabInst' = TabInst + 1 + Arity(OpRead) + TableRead
         /\ Pos' = NextPos(OpRead, Arity(OpRead), TableRead)
         /\ file' = file /\ phase' = phase
BY DEF ReadInstruction, OpRead, ArgsRead, FnsRead, EntriesRead, TableRead, InstRead

LEMMA InstructionRead ==
  ASSUME NEW k, NEW inst, FileFacts(file, k, inst, Pos), PositionFacts(inst), TabInst = Pos,
         Pos \in Nat
  PROVE  /\ OpRead = inst.op
         /\ InstRead = Decoded(inst, Positions(inst))
         /\ Pos + 1 + Arity(OpRead) + TableRead = file.address[k]
         /\ NextPos(OpRead, Arity(OpRead), TableRead) = file.address[k]
<1> DEFINE n == Arity(inst.op)
           m == Len(Operands(inst))
           t == Len(inst.targets)
           ts == Positions(inst)
           rest == IF inst.op \in Tables THEN <<>> ELSE ts
<1>1. OpRead = inst.op /\ OpRead = file.Tab[Pos]
  BY DEF FileFacts, OpRead, WordAt
<1>2. OperandFacts(inst)
  BY DEF FileFacts
<1>3. n \in Nat /\ m \in Nat /\ t \in Nat /\ Operands(inst) \in Seq(Int)
  BY <1>2 DEF OperandFacts
<1>4. inst.op \in Tables \cup Jumps \cup Plain
  BY DEF FileFacts, Instruction
<1>5. /\ \A j \in 1..m : WordAt(Pos + j) = Operands(inst)[j] /\ Operands(inst)[j] \in Int
      /\ \A j \in 1..t : WordAt(Pos + m + j) = file.address[inst.targets[j]] - (Pos + 1 + m)
  <2>1. \A j \in 1..m : Operands(inst)[j] \in Int
    BY <1>3, ElementOfSeq
  <2> QED BY <2>1 DEF FileFacts, WordAt
<1>6. /\ ts \in Seq(Int) /\ Len(ts) = t
      /\ \A j \in 1..t : ts[j] = file.address[inst.targets[j]] + 1
      /\ \A j \in 1..t : file.address[inst.targets[j]] \in Nat
  BY DEF PositionFacts
<1>7. rest \in Seq(Int) /\ Len(rest) = IF inst.op \in Tables THEN 0 ELSE t
  BY <1>3, <1>6
<1>8. n = m + Len(rest)
  <2>1. CASE inst.op \in Tables
    BY <1>2, <1>3, <1>7, <2>1 DEF OperandFacts
  <2>2. CASE inst.op \in Jumps
    BY <1>2, <1>3, <1>7, <2>2 DEF OperandFacts, Jumps, Tables
  <2>3. CASE inst.op \in Plain
    <3>1. inst.op \notin Tables /\ inst.targets = <<>> /\ m = n
      BY <1>2, <2>3 DEF OperandFacts, Plain, Tables
    <3>2. t = 0
      BY <3>1
    <3>3. Len(rest) = 0
      BY <1>7, <3>1, <3>2
    <3> HIDE DEF n, m, rest
    <3> QED BY <1>3, <3>1, <3>3
  <2> QED BY <1>4, <2>1, <2>2, <2>3
<1> DEFINE arg(j) == IF hasCodeOffset(inst.op) /\ CodeOffsetArgs[inst.op] = j - 1
                     THEN (Pos + j) + WordAt(Pos + j) + 1
                     ELSE WordAt(Pos + j)
<1>9. ArgsRead = [j \in 1..n |-> arg(j)]
  BY <1>1 DEF ArgsRead
<1>10. \A j \in 1..m : arg(j) = Operands(inst)[j]
  <2> SUFFICES ASSUME NEW j \in 1..m PROVE arg(j) = Operands(inst)[j]
    OBVIOUS
  <2>1. ~(hasCodeOffset(inst.op) /\ CodeOffsetArgs[inst.op] = j - 1)
    BY <1>2, <1>3 DEF OperandFacts
  <2> QED BY <1>5, <2>1
<1>11. \A j \in 1..n : j > m => inst.op \in Jumps /\ j = m + 1 /\ t = 1
  BY <1>2, <1>3, <1>4, <1>8 DEF OperandFacts
<1>12. inst.op \in Jumps => arg(m + 1) = ts[1] /\ rest = ts /\ n = m + 1
  <2> SUFFICES ASSUME inst.op \in Jumps PROVE arg(m + 1) = ts[1] /\ rest = ts /\ n = m + 1
    OBVIOUS
  <2>1. t = 1 /\ n = m + 1 /\ hasCodeOffset(inst.op) /\ CodeOffsetArgs[inst.op] = m
    BY <1>2 DEF OperandFacts
  <2>2. arg(m + 1) = (Pos + (m + 1)) + WordAt(Pos + (m + 1)) + 1
    BY <1>3, <2>1
  <2>3. Pos + (m + 1) = Pos + m + 1 /\ 1 \in 1..t
    BY <1>3, <2>1
  <2>4. /\ WordAt(Pos + m + 1) = file.address[inst.targets[1]] - (Pos + 1 + m)
        /\ ts[1] = file.address[inst.targets[1]] + 1
        /\ file.address[inst.targets[1]] \in Nat
    BY <1>5, <1>6, <2>3
  <2>5. rest = ts
    BY DEF Jumps, Tables
  <2> HIDE DEF ts, m, t, n, rest, arg
  <2>6. (Pos + (m + 1)) + WordAt(Pos + (m + 1)) + 1 = ts[1]
    BY <1>3, <2>3, <2>4
  <2> QED BY <2>1, <2>2, <2>5, <2>6
<1>13. ArgsRead = Operands(inst) \o rest
  <2> DEFINE s == Operands(inst) \o rest
  <2>1. /\ s \in Seq(Int) /\ Len(s) = m + Len(rest)
        /\ \A i \in 1..m + Len(rest) :
             s[i] = IF i <= m THEN Operands(inst)[i] ELSE rest[i - m]
    BY <1>3, <1>7, ConcatInts
  <2> HIDE DEF s, rest, arg, n, m, t, ts
  <2>2. \A j \in 1..n : arg(j) = s[j]
    <3> SUFFICES ASSUME NEW j \in 1..n PROVE arg(j) = s[j]
      OBVIOUS
    <3>1. CASE j <= m
      <4>1. j \in 1..m
        BY <1>3, <3>1
      <4>2. arg(j) = Operands(inst)[j]
        BY <1>10, <4>1
      <4>3. s[j] = Operands(inst)[j]
        BY <1>8, <2>1, <3>1
      <4> QED BY <4>2, <4>3
    <3>2. CASE j > m
      <4>1. j = m + 1 /\ arg(j) = ts[1] /\ rest = ts
        BY <1>11, <1>12, <3>2
      <4>2. s[j] = rest[j - m] /\ j - m = 1
        BY <1>3, <1>8, <2>1, <3>2, <4>1
      <4> QED BY <4>1, <4>2
    <3> QED BY <1>3, <3>1, <3>2
  <2>3. \A j \in 1..n : s[j] \in Int
    BY <1>8, <2>1, ElementOfSeq
  <2>4. ArgsRead \in [1..n -> Int]
    BY <1>9, <2>2, <2>3
  <2>5. ArgsRead \in Seq(Int) /\ Len(ArgsRead) = n
    BY <1>3, <2>4, FunctionIsSeq
  <2>6. \A j \in 1..n : ArgsRead[j] = s[j]
    BY <1>9, <2>2
  <2>7. ArgsRead = s
    BY <1>8, <2>1, <2>5, <2>6, EqualSeqs
  <2> QED BY <2>7 DEF s, rest
<1>14. inst.op \in Tables => TableOf(t) = ts
  <2> SUFFICES ASSUME inst.op \in Tables PROVE TableOf(t) = ts
    OBVIOUS
  <2>1. n = m
    BY <1>2 DEF OperandFacts
  <2>2. TableOf(t) = [j \in 1..t |-> (Pos + 1 + m + 1) + WordAt(Pos + m + j)]
    BY <1>1, <2>1 DEF TableOf, OpRead
  <2>3. \A j \in 1..t : (Pos + 1 + m + 1) + WordAt(Pos + m + j) = ts[j]
    <3> SUFFICES ASSUME NEW j \in 1..t PROVE (Pos + 1 + m + 1) + WordAt(Pos + m + j) = ts[j]
      OBVIOUS
    <3>1. /\ WordAt(Pos + m + j) = file.address[inst.targets[j]] - (Pos + 1 + m)
          /\ ts[j] = file.address[inst.targets[j]] + 1
          /\ file.address[inst.targets[j]] \in Nat
      BY <1>5, <1>6
    <3> HIDE DEF ts, t, m
    <3> QED BY <1>3, <3>1
  <2> HIDE DEF ts, t, m
  <2>4. \A j \in 1..t : ts[j] \in Int
    BY <1>6, ElementOfSeq
  <2>5. TableOf(t) \in [1..t -> Int] /\ \A j \in 1..t : TableOf(t)[j] = ts[j]
    BY <2>2, <2>3, <2>4
  <2>6. TableOf(t) \in Seq(Int) /\ Len(TableOf(t)) = t
    BY <1>3, <2>5, FunctionIsSeq
  <2> QED BY <1>6, <2>5, <2>6, EqualSeqs
<1>15. inst.op \in Tables => ArgsRead[1] = Operands(inst)[1]
  <2> SUFFICES ASSUME inst.op \in Tables PROVE ArgsRead[1] = Operands(inst)[1]
    OBVIOUS
  <2>1. rest = <<>>
    OBVIOUS
  <2> QED BY <1>3, <1>13, <2>1, ConcatEmptySeq
<1>16. FnsRead = IF inst.op = "CLOSUREREC" THEN ts ELSE <<>>
  <2>1. CASE inst.op = "CLOSUREREC"
    <3>1. ArgsRead[1] = t
      BY <1>2, <1>15, <2>1 DEF OperandFacts, Tables
    <3> QED BY <1>1, <1>14, <2>1, <3>1 DEF FnsRead, Tables
  <2>2. CASE inst.op # "CLOSUREREC"
    BY <1>1, <2>2 DEF FnsRead
  <2> QED BY <2>1, <2>2
<1>17. EntriesRead = IF inst.op = "SWITCH" THEN ts ELSE <<>>
  <2>1. CASE inst.op = "SWITCH"
    <3>1. NumSwitchEntries(ArgsRead[1]) = t
      BY <1>2, <1>15, <2>1 DEF OperandFacts, Tables
    <3> QED BY <1>1, <1>14, <2>1, <3>1 DEF EntriesRead, Tables
  <2>2. CASE inst.op # "SWITCH"
    BY <1>1, <2>2 DEF EntriesRead
  <2> QED BY <2>1, <2>2
<1>18. TableRead = IF inst.op \in Tables THEN t ELSE 0
  <2>1. inst.op \in Tables <=> inst.op = "CLOSUREREC" \/ inst.op = "SWITCH"
    BY DEF Tables
  <2> HIDE DEF ts, t
  <2>2. CASE inst.op = "CLOSUREREC"
    <3>1. FnsRead = ts /\ EntriesRead = <<>>
      BY <1>16, <1>17, <2>2
    <3> QED BY <1>3, <1>6, <2>1, <2>2, <3>1 DEF TableRead
  <2>3. CASE inst.op = "SWITCH"
    <3>1. FnsRead = <<>> /\ EntriesRead = ts
      BY <1>16, <1>17, <2>3
    <3> QED BY <1>3, <1>6, <2>1, <2>3, <3>1 DEF TableRead
  <2>4. CASE inst.op # "CLOSUREREC" /\ inst.op # "SWITCH"
    <3>1. FnsRead = <<>> /\ EntriesRead = <<>>
      BY <1>16, <1>17, <2>4
    <3> QED BY <2>1, <2>4, <3>1 DEF TableRead
  <2> QED BY <2>2, <2>3, <2>4
<1>19. InstRead = Decoded(inst, ts)
  BY <1>1, <1>13, <1>16, <1>17 DEF InstRead, Decoded
<1>20. file.address[k] = Pos + 1 + m + t
  BY DEF FileFacts
<1>21. Pos + 1 + Arity(OpRead) + TableRead = file.address[k]
  <2>1. Arity(OpRead) = n
    BY <1>1
  <2>2. n + TableRead = m + t
    <3>1. n = m + (IF inst.op \in Tables THEN 0 ELSE t)
      BY <1>7, <1>8
    <3> HIDE DEF n, m, t
    <3> QED BY <1>3, <1>18, <3>1
  <2> HIDE DEF n, m, t
  <2>3. TableRead \in Nat
    BY <1>3, <1>18
  <2> QED BY <1>3, <1>20, <2>1, <2>2, <2>3
<1>22. NextPos(OpRead, Arity(OpRead), TableRead) = file.address[k]
  <2>1. Arity(OpRead) = n /\ TableRead \in Nat
    BY <1>1, <1>3, <1>18
  <2>2. inst.op \notin Tables => TableRead = 0
    BY <1>18
  <2> HIDE DEF n
  <2>3. NextPos(inst.op, n, TableRead) = Pos + 1 + n + TableRead
    <3>1. CASE inst.op \in Tables
      BY <1>3, <2>1, <3>1 DEF NextPos
    <3>2. CASE inst.op \notin Tables
      BY <1>3, <2>1, <2>2, <3>2 DEF NextPos
    <3> QED BY <3>1, <3>2
  <2> QED BY <1>1, <1>21, <2>1, <2>3
<1> QED BY <1>1, <1>19, <1>21, <1>22

-----------------------------------------------------------------------------
(* The invariant, action by action. *)

LEMMA DecodedTyped ==
  ASSUME NEW inst, OperandFacts(inst), inst.op \in Tables \cup Jumps \cup Plain,
         NEW ts \in Seq(Int)
  PROVE  Decoded(inst, ts) \in Results
<1>1. Operands(inst) \in Seq(Int)
  BY DEF OperandFacts
<1>2. <<>> \in Seq(Int)
  OBVIOUS
<1> DEFINE rest == IF inst.op \in Tables THEN <<>> ELSE ts
<1>3. rest \in Seq(Int)
  BY <1>2
<1> HIDE DEF rest
<1>4. Operands(inst) \o rest \in Seq(Int)
  BY <1>1, <1>3, ConcatInts
<1> QED BY <1>2, <1>4 DEF Decoded, Results, rest

LEMMA ReadTyped ==
  ASSUME RInv
  PROVE  /\ Read \in Nat /\ Len(file.program) \in Nat /\ Read <= Len(file.program)
         /\ DOMAIN Instructions = 1..Read
         /\ \A i \in 0..Len(file.program) : file.address[i] \in 0..file.Size
         /\ file.Size \in Nat /\ Pos \in 0..file.Size
         /\ file.address[Len(file.program)] = file.Size
<1>1. Instructions \in Seq(Results) /\ Read <= Len(file.program)
  BY DEF RInv, ReadSoFar
<1>2. Read \in Nat /\ DOMAIN Instructions = 1..Read
  BY <1>1, LenProperties DEF Read
<1>3. /\ Len(file.program) \in Nat
      /\ \A i \in 0..Len(file.program) : file.address[i] \in 0..file.Size
      /\ file.Size \in Nat
      /\ file.address[Len(file.program)] = file.Size
  BY FilesEncoded DEF RInv
<1>4. Pos = file.address[Read]
  BY DEF RInv, AtNext
<1> QED BY <1>1, <1>2, <1>3, <1>4

\* The instruction the cursors are on
LEMMA Here ==
  ASSUME RInv, Pos < file.Size
  PROVE  /\ Read + 1 \in 1..Len(file.program)
         /\ FileFacts(file, Read + 1, file.program[Read + 1], Pos)
         /\ PositionFacts(file.program[Read + 1])
<1>1. Read + 1 \in 1..Len(file.program)
  <2>1. Read # Len(file.program)
    <3>1. Pos = file.address[Read]
      BY DEF RInv, AtNext
    <3> QED BY <3>1, ReadTyped
  <2> QED BY <2>1, ReadTyped
<1>2. file \in Files /\ Pos = file.address[Read]
  BY DEF RInv, AtNext
<1>3. (Read + 1) - 1 = Read
  BY ReadTyped
<1>4. FileFacts(file, Read + 1, file.program[Read + 1], file.address[(Read + 1) - 1])
  BY <1>1, <1>2, FileInstructions
<1>5. PositionFacts(file.program[Read + 1])
  BY <1>1, <1>2, PositionsTyped
<1> QED BY <1>1, <1>2, <1>3, <1>4, <1>5

LEMMA ToAdjustTyped ==
  ASSUME RInv
  PROVE  /\ Len(InstsToAdjust) \in Nat
         /\ \A j \in 1..Len(InstsToAdjust) : InstsToAdjust[j] \in 0..Read - 1
         /\ \A i : Pending(i) => i \in 0..Read - 1
<1>1. InstsToAdjust \in Seq(0..Read - 1)
  BY DEF RInv, ToAdjustOnce
<1>2. Len(InstsToAdjust) \in Nat
  BY <1>1, LenProperties
<1>3. \A j \in 1..Len(InstsToAdjust) : InstsToAdjust[j] \in 0..Read - 1
  BY <1>1, ElementOfSeq
<1> QED BY <1>2, <1>3 DEF Pending

LEMMA ReadStep ==
  ASSUME RInv, ReadInstruction
  PROVE  RInv'
<1> DEFINE k == Read + 1
           inst == file.program[k]
<1>1. /\ phase = "read" /\ Pos < file.Size
      /\ Instructions' = Append(Instructions, InstRead)
      /\ InstPositions' = [q \in DOMAIN InstPositions \cup {Pos + 1} |->
                             IF q = Pos + 1 THEN Read ELSE InstPositions[q]]
      /\ InstsToAdjust' = IF hasCodeOffset(OpRead) \/ OpRead \in Tables
                          THEN Append(InstsToAdjust, Read) ELSE InstsToAdjust
      /\ TabInst' = TabInst + 1 + Arity(OpRead) + TableRead
      /\ Pos' = NextPos(OpRead, Arity(OpRead), TableRead)
      /\ file' = file /\ phase' = phase
  BY ReadInstructionIs DEF Read
<1>2. Read \in Nat /\ Pos \in Nat /\ file.Size \in Nat
  BY ReadTyped
<1>3. /\ k \in 1..Len(file.program) /\ FileFacts(file, k, inst, Pos) /\ PositionFacts(inst)
  BY <1>1, Here
<1>4. OperandFacts(inst) /\ inst.op \in Tables \cup Jumps \cup Plain
  BY <1>3 DEF FileFacts, Instruction
<1>5. TabInst = Pos
  BY DEF RInv, AtNext
<1>6. /\ OpRead = inst.op /\ InstRead = Decoded(inst, Positions(inst))
      /\ Pos + 1 + Arity(OpRead) + TableRead = file.address[k]
      /\ NextPos(OpRead, Arity(OpRead), TableRead) = file.address[k]
  <2> HIDE DEF inst, k
  <2> QED BY <1>2, <1>3, <1>5, InstructionRead
<1>7. TabInst' = file.address[k] /\ Pos' = file.address[k]
  BY <1>1, <1>5, <1>6
<1>8. InstRead \in Results
  <2>1. Positions(inst) \in Seq(Int)
    BY <1>3 DEF PositionFacts
  <2> QED BY <1>4, <1>6, <2>1, DecodedTyped
<1>9. Instructions \in Seq(Results)
  BY DEF RInv, ReadSoFar
<1>10. /\ Instructions' \in Seq(Results) /\ Read' = k
       /\ \A i \in 1..Read : Instructions'[i] = Instructions[i]
       /\ Instructions'[k] = InstRead
  BY <1>1, <1>8, <1>9, AppendProperties DEF Read
<1>11. file.address[k] \in Nat /\ Pos < file.address[k]
  <2>1. /\ file.address[k] \in 0..file.Size
        /\ file.address[k] = Pos + 1 + Len(Operands(inst)) + Len(inst.targets)
    BY <1>3 DEF FileFacts
  <2>2. Len(Operands(inst)) \in Nat /\ Len(inst.targets) \in Nat
    BY <1>4 DEF OperandFacts
  <2>3. \A x, y, z \in Nat : x + 1 + y + z \in Nat /\ x < x + 1 + y + z
    OBVIOUS
  <2> HIDE DEF inst, k
  <2>4. /\ Pos + 1 + Len(Operands(inst)) + Len(inst.targets) \in Nat
        /\ Pos < Pos + 1 + Len(Operands(inst)) + Len(inst.targets)
    BY ONLY <1>2, <2>2, <2>3
  <2>5. file.address[k] = Pos + 1 + Len(Operands(inst)) + Len(inst.targets)
    BY <2>1
  <2> QED BY ONLY <2>4, <2>5
<1>12. Pos = file.address[Read] /\ k - 1 = Read
  BY <1>2 DEF RInv, AtNext
<1>13. AtNext'
  <2>1. \A i \in 0..Read - 1 : file.address[i] < Pos /\ file.address[i] \in Nat
    <3>1. \A i \in 0..Read - 1 : file.address[i] < file.address[Read]
      BY DEF RInv, AtNext
    <3>2. \A i \in 0..Read - 1 : file.address[i] \in 0..file.Size
      BY ReadTyped
    <3> QED BY <1>2, <1>12, <3>1, <3>2
  <2>2. \A i \in 0..Read : file.address[i] < file.address[k]
    <3> SUFFICES ASSUME NEW i \in 0..Read PROVE file.address[i] < file.address[k]
      OBVIOUS
    <3>1. CASE i = Read
      BY <1>11, <1>12, <3>1
    <3>2. CASE i # Read
      <4>1. i \in 0..Read - 1
        BY <1>2, <3>2
      <4>2. file.address[i] < Pos /\ file.address[i] \in Nat
        BY <2>1, <4>1
      <4> QED BY <1>2, <1>11, <4>2
    <3> QED BY <3>1, <3>2
  <2>3. (AtNext)' <=> /\ Pos' = TabInst' /\ TabInst' = file'.address[Read']
                      /\ \A i \in 0..Read' - 1 : file'.address[i] < file'.address[Read']
    BY DEF AtNext
  <2> HIDE DEF k
  <2> QED BY <1>1, <1>7, <1>10, <1>12, <2>2, <2>3
<1>14. PositionsNamed'
  <2>1. /\ DOMAIN InstPositions = {file.address[i] + 1 : i \in 0..Read - 1}
        /\ \A i \in 0..Read - 1 : InstPositions[file.address[i] + 1] = i
    BY DEF RInv, PositionsNamed
  <2>2. \A i \in 0..Read : i \in 0..Read - 1 \/ i = Read
    BY <1>2
  <2>3. DOMAIN InstPositions' = {file.address[i] + 1 : i \in 0..Read}
    <3>1. DOMAIN InstPositions' = DOMAIN InstPositions \cup {file.address[Read] + 1}
      BY <1>1, <1>12
    <3>2. 0..Read = 0..Read - 1 \cup {Read}
      BY <1>2
    <3>3. {file.address[i] + 1 : i \in 0..Read - 1} \cup {file.address[Read] + 1}
             = {file.address[i] + 1 : i \in 0..Read - 1 \cup {Read}}
      OBVIOUS
    <3> QED BY <2>1, <3>1, <3>2, <3>3
  <2>4. \A i \in 0..Read : InstPositions'[file.address[i] + 1] = i
    <3> SUFFICES ASSUME NEW i \in 0..Read PROVE InstPositions'[file.address[i] + 1] = i
      OBVIOUS
    <3>1. CASE i = Read
      BY <1>1, <1>12, <3>1
    <3>2. CASE i \in 0..Read - 1
      <4>1. file.address[i] < Pos
        BY <1>12, <3>2 DEF RInv, AtNext
      <4>2. file.address[i] \in 0..file.Size
        BY <3>2, ReadTyped
      <4>3. file.address[i] + 1 # Pos + 1
        BY <1>2, <4>1, <4>2
      <4>4. file.address[i] + 1 \in DOMAIN InstPositions
        BY <2>1, <3>2
      <4>5. InstPositions'[file.address[i] + 1] = InstPositions[file.address[i] + 1]
        BY <1>1, <4>3, <4>4
      <4> QED BY <2>1, <3>2, <4>5
    <3> QED BY <2>2, <3>1, <3>2
  <2>5. PositionsNamed' <=>
          /\ DOMAIN InstPositions' = {file'.address[i] + 1 : i \in 0..Read' - 1}
          /\ \A i \in 0..Read' - 1 : InstPositions'[file'.address[i] + 1] = i
    BY DEF PositionsNamed
  <2>6. Read' - 1 = Read /\ file' = file
    BY <1>1, <1>10, <1>12
  <2> HIDE DEF k
  <2>7. DOMAIN InstPositions' = {file'.address[i] + 1 : i \in 0..Read' - 1}
    BY ONLY <2>3, <2>6
  <2>8. \A i \in 0..Read' - 1 : InstPositions'[file'.address[i] + 1] = i
    BY ONLY <2>4, <2>6
  <2> QED BY ONLY <2>5, <2>7, <2>8
<1>15. /\ InstsToAdjust' \in Seq(0..Read)
       /\ \A i, j \in 1..Len(InstsToAdjust') : i < j => InstsToAdjust'[i] < InstsToAdjust'[j]
       /\ \A j \in 1..Len(InstsToAdjust') : file.program[InstsToAdjust'[j] + 1].op \notin Plain
       /\ \A i : Pending(i)' <=> Pending(i) \/ (inst.op \notin Plain /\ i = Read)
  <2>1. /\ InstsToAdjust \in Seq(0..Read - 1)
        /\ \A i, j \in 1..Len(InstsToAdjust) : i < j => InstsToAdjust[i] < InstsToAdjust[j]
        /\ \A j \in 1..Len(InstsToAdjust) : file.program[InstsToAdjust[j] + 1].op \notin Plain
    BY DEF RInv, ToAdjustOnce
  <2>2. InstsToAdjust \in Seq(0..Read)
    <3>1. 0..Read - 1 \subseteq 0..Read
      BY <1>2
    <3> QED BY <2>1, <3>1, SeqMonotonic
  <2>3. /\ Len(InstsToAdjust) \in Nat
        /\ \A j \in 1..Len(InstsToAdjust) : InstsToAdjust[j] \in 0..Read - 1
    BY ToAdjustTyped
  <2>4. hasCodeOffset(inst.op) \/ inst.op \in Tables <=> inst.op \notin Plain
    <3>1. hasCodeOffset(inst.op) <=> inst.op \in Jumps
      BY <1>4 DEF OperandFacts
    <3> QED BY <1>4, <3>1 DEF Plain, Jumps, Tables
  <2>5. CASE inst.op \in Plain
    <3>1. InstsToAdjust' = InstsToAdjust
      BY <1>1, <1>6, <2>4, <2>5
    <3> QED BY <2>1, <2>2, <2>5, <3>1 DEF Pending
  <2>6. CASE inst.op \notin Plain
    <3> DEFINE l == Len(InstsToAdjust)
    <3>1. InstsToAdjust' = Append(InstsToAdjust, Read)
      BY <1>1, <1>6, <2>4, <2>6
    <3>2. /\ InstsToAdjust' \in Seq(0..Read) /\ Len(InstsToAdjust') = l + 1
          /\ \A j \in 1..l : InstsToAdjust'[j] = InstsToAdjust[j]
          /\ InstsToAdjust'[l + 1] = Read
      <4>1. Read \in 0..Read
        BY <1>2
      <4> QED BY <2>2, <3>1, <4>1, AppendProperties
    <3> HIDE DEF l, inst, k
    <3>3. \A j \in 1..l + 1 : j \in 1..l \/ j = l + 1
      BY <2>3 DEF l
    <3>4. \A i, j \in 1..l + 1 : i < j => InstsToAdjust'[i] < InstsToAdjust'[j]
      <4> SUFFICES ASSUME NEW i \in 1..l + 1, NEW j \in 1..l + 1, i < j
                   PROVE  InstsToAdjust'[i] < InstsToAdjust'[j]
        OBVIOUS
      <4>1. i \in 1..l
        BY <2>3 DEF l
      <4>2. CASE j \in 1..l
        BY <2>1, <3>2, <4>1, <4>2 DEF l
      <4>3. CASE j = l + 1
        <5>1. InstsToAdjust'[i] \in 0..Read - 1
          BY <2>3, <3>2, <4>1 DEF l
        <5> QED BY <1>2, <3>2, <4>3, <5>1
      <4> QED BY <3>3, <4>2, <4>3
    <3>5. \A j \in 1..l + 1 : file.program[InstsToAdjust'[j] + 1].op \notin Plain
      <4>1. file.program[Read + 1].op \notin Plain
        BY <2>6 DEF inst, k
      <4>2. \A j \in 1..l : file.program[InstsToAdjust[j] + 1].op \notin Plain
        BY <2>1 DEF l
      <4> QED BY <3>2, <3>3, <4>1, <4>2
    <3>6. \A i : Pending(i)' <=> Pending(i) \/ i = Read
      <4> SUFFICES ASSUME NEW i PROVE Pending(i)' <=> Pending(i) \/ i = Read
        OBVIOUS
      <4>1. Pending(i)' <=> \E j \in 1..l + 1 : InstsToAdjust'[j] = i
        BY <3>2 DEF Pending
      <4>2. Pending(i) <=> \E j \in 1..l : InstsToAdjust[j] = i
        BY DEF Pending, l
      <4>3. l + 1 \in 1..l + 1 /\ \A j \in 1..l : j \in 1..l + 1
        BY <2>3 DEF l
      <4> QED BY <3>2, <3>3, <4>1, <4>2, <4>3
    <3> QED BY <2>6, <3>2, <3>4, <3>5, <3>6
  <2> QED BY <2>5, <2>6
<1>16. ToAdjustOnce'
  <2>1. Read' - 1 = Read
    BY <1>10, <1>12
  <2> QED BY <1>1, <1>15, <2>1 DEF ToAdjustOnce
<1>17. ReadSoFar'
  <2>1. \A i \in 1..Read : Instructions[i] = Decoded(file.program[i], TargetsNow(i))
    BY DEF RInv, ReadSoFar
  <2>2. \A i \in 1..k : Instructions'[i] = Decoded(file.program[i], TargetsNow(i)')
    <3> SUFFICES ASSUME NEW i \in 1..k
                 PROVE  Instructions'[i] = Decoded(file.program[i], TargetsNow(i)')
      OBVIOUS
    <3>1. TargetsNow(i)' = IF Pending(i - 1)' THEN Positions(file.program[i])
                           ELSE file.program[i].targets
      BY <1>1 DEF TargetsNow, Positions
    <3>2. CASE i \in 1..Read
      <4>1. i - 1 # Read
        BY <1>2, <3>2
      <4>2. Pending(i - 1)' <=> Pending(i - 1)
        BY <1>15, <4>1
      <4>3. TargetsNow(i)' = TargetsNow(i)
        BY <3>1, <4>2 DEF TargetsNow
      <4> QED BY <1>10, <2>1, <3>2, <4>3
    <3>3. CASE i = k
      <4>1. Pending(i - 1)' <=> inst.op \notin Plain
        <5>1. ~Pending(Read)
          <6>1. Pending(Read) => Read \in 0..Read - 1
            BY ToAdjustTyped
          <6> QED BY <1>2, <6>1
        <5> QED BY <1>12, <1>15, <3>3, <5>1
      <4>2. TargetsNow(i)' = Positions(inst)
        <5>1. CASE inst.op \notin Plain
          BY <3>1, <3>3, <4>1, <5>1
        <5>2. CASE inst.op \in Plain
          <6>1. inst.targets = <<>>
            BY <1>4, <5>2 DEF OperandFacts
          <6>2. TargetsNow(i)' = inst.targets
            BY <3>1, <3>3, <4>1, <5>2
          <6>3. Positions(inst) \in Seq(Int) /\ Len(Positions(inst)) = 0
            BY <1>3, <6>1 DEF PositionFacts
          <6>4. Positions(inst) = <<>>
            BY <6>3, EmptySeq
          <6> QED BY <6>1, <6>2, <6>4
        <5> QED BY <5>1, <5>2
      <4> QED BY <1>6, <1>10, <3>3, <4>2
    <3>4. i \in 1..Read \/ i = k
      BY <1>2
    <3> QED BY <3>2, <3>3, <3>4
  <2>3. k <= Len(file.program)
    BY <1>3
  <2>4. ReadSoFar' <=> /\ Instructions' \in Seq(Results) /\ Read' <= Len(file'.program)
                       /\ \A i \in 1..Read' : Instructions'[i] = Decoded(file'.program[i], TargetsNow(i)')
    BY DEF ReadSoFar
  <2> HIDE DEF k, inst
  <2> QED BY <1>1, <1>10, <2>2, <2>3, <2>4
<1>18. PhaseEnds'
  <2>1. phase' = "read"
    BY <1>1
  <2> QED BY <2>1 DEF PhaseEnds
<1>19. file' \in Files
  BY <1>1 DEF RInv
<1> QED BY <1>13, <1>14, <1>16, <1>17, <1>18, <1>19 DEF RInv

LEMMA LastReplaced ==
  ASSUME NEW s \in Seq(Int), NEW t \in Seq(Int), NEW u \in Seq(Int), Len(t) = 1, Len(u) = 1
  PROVE  /\ (s \o t)[Len(s) + 1] = t[1]
         /\ [(s \o t) EXCEPT ![Len(s) + 1] = u[1]] = s \o u
<1> DEFINE st == s \o t
           su == s \o u
           n  == Len(s) + 1
<1>1. Len(s) \in Nat
  BY LenProperties
<1>2. /\ st \in Seq(Int) /\ Len(st) = n
      /\ \A i \in 1..n : st[i] = IF i <= Len(s) THEN s[i] ELSE t[i - Len(s)]
  <2>1. /\ st \in Seq(Int) /\ Len(st) = Len(s) + Len(t)
        /\ \A i \in 1..Len(s) + Len(t) :
             st[i] = IF i <= Len(s) THEN s[i] ELSE t[i - Len(s)]
    BY ConcatInts
  <2>2. Len(s) + Len(t) = n
    OBVIOUS
  <2> HIDE DEF n, st
  <2> QED BY ONLY <2>1, <2>2
<1>3. /\ su \in Seq(Int) /\ Len(su) = n
      /\ \A i \in 1..n : su[i] = IF i <= Len(s) THEN s[i] ELSE u[i - Len(s)]
  <2>1. /\ su \in Seq(Int) /\ Len(su) = Len(s) + Len(u)
        /\ \A i \in 1..Len(s) + Len(u) :
             su[i] = IF i <= Len(s) THEN s[i] ELSE u[i - Len(s)]
    BY ConcatInts
  <2>2. Len(s) + Len(u) = n
    OBVIOUS
  <2> HIDE DEF n, su
  <2> QED BY ONLY <2>1, <2>2
<1>4. u[1] \in Int
  <2>1. 1 \in 1..Len(u)
    OBVIOUS
  <2> QED BY <2>1, ElementOfSeq
<1> DEFINE r == [st EXCEPT ![n] = u[1]]
<1> HIDE DEF st, su
<1>5. n \in 1..n /\ ~(n <= Len(s)) /\ n - Len(s) = 1
  BY <1>1
<1>6. st[n] = t[1] /\ su[n] = u[1]
  BY <1>2, <1>3, <1>5
<1>7. /\ r \in Seq(Int) /\ Len(r) = n
      /\ \A j \in 1..n : r[j] = IF j = n THEN u[1] ELSE st[j]
  BY <1>2, <1>4, <1>5, ExceptSeq
<1> HIDE DEF r
<1>8. \A j \in 1..n : r[j] = su[j]
  <2>1. \A j \in 1..n : j = n \/ j <= Len(s)
    BY <1>1
  <2> HIDE DEF n
  <2> QED BY <1>2, <1>3, <1>6, <1>7, <2>1
<1>9. r = su
  <2> HIDE DEF n
  <2> QED BY <1>3, <1>7, <1>8, EqualSeqs
<1> QED BY <1>6, <1>9 DEF r, st, su

\* An instruction, its targets turned from positions into indices
IndicesOf(table) == [j \in DOMAIN table |-> InstPositions[table[j]]]

AdjustedInst(inst) ==
  CASE inst.OpNum = "CLOSUREREC" ->
         [inst EXCEPT !.ClosureRecFns = IndicesOf(inst.ClosureRecFns)]
    [] inst.OpNum = "SWITCH" ->
         [inst EXCEPT !.SwitchEntries = IndicesOf(inst.SwitchEntries)]
    [] OTHER ->
         [inst EXCEPT !.Args = [inst.Args EXCEPT ![CodeOffsetArgs[inst.OpNum] + 1] =
            InstPositions[inst.Args[CodeOffsetArgs[inst.OpNum] + 1]]]]

LEMMA AdjustIs ==
  ASSUME Adjust, Head(InstsToAdjust) + 1 \in DOMAIN Instructions
  PROVE  /\ phase = "adjust" /\ InstsToAdjust # <<>>
         /\ Instructions' = [Instructions EXCEPT ![Head(InstsToAdjust) + 1] =
                               AdjustedInst(Instructions[Head(InstsToAdjust) + 1])]
         /\ InstsToAdjust' = Tail(InstsToAdjust)
         /\ UNCHANGED <<file, TabInst, Pos, InstPositions, phase>>
<1> DEFINE i    == Head(InstsToAdjust) + 1
           inst == Instructions[i]
<1>1. CASE inst.OpNum = "CLOSUREREC"
  BY <1>1 DEF Adjust, AdjustedInst, IndicesOf
<1>2. CASE inst.OpNum = "SWITCH"
  BY <1>2 DEF Adjust, AdjustedInst, IndicesOf
<1>3. CASE inst.OpNum # "CLOSUREREC" /\ inst.OpNum # "SWITCH"
  BY <1>3 DEF Adjust, AdjustedInst
<1> QED BY <1>1, <1>2, <1>3

LEMMA TargetsResolved ==
  ASSUME RInv, Read = Len(file.program), NEW k \in 1..Read,
         file.program[k].op \notin Plain
  PROVE  AdjustedInst(Decoded(file.program[k], Positions(file.program[k])))
            = Decoded(file.program[k], file.program[k].targets)
<1> DEFINE inst == file.program[k]
           ts   == Positions(inst)
           d    == Decoded(inst, ts)
<1>1. file \in Files
  BY DEF RInv
<1>2. FileFacts(file, k, inst, file.address[k - 1]) /\ PositionFacts(inst)
  BY <1>1, FileInstructions, PositionsTyped
<1>3. OperandFacts(inst) /\ inst.op \in Tables \cup Jumps
  BY <1>2 DEF FileFacts, Instruction
<1>4. /\ inst.targets \in Seq(Int) /\ Len(inst.targets) \in Nat
      /\ ts \in Seq(Int) /\ Len(ts) = Len(inst.targets)
      /\ \A j \in 1..Len(inst.targets) : ts[j] = file.address[inst.targets[j]] + 1
      /\ \A j \in 1..Len(inst.targets) : inst.targets[j] \in 0..Read - 1
  BY <1>2, <1>3 DEF OperandFacts, PositionFacts
<1>5. \A i \in 0..Read - 1 : InstPositions[file.address[i] + 1] = i
  BY DEF RInv, PositionsNamed
<1>6. \A j \in 1..Len(inst.targets) : InstPositions[ts[j]] = inst.targets[j]
  BY <1>4, <1>5
<1> HIDE DEF inst, ts
<1>7. DOMAIN ts = 1..Len(inst.targets) /\ DOMAIN inst.targets = 1..Len(inst.targets)
  BY <1>4, LenProperties
<1>8. IndicesOf(ts) = inst.targets
  <2>1. IndicesOf(ts) = [j \in 1..Len(inst.targets) |-> InstPositions[ts[j]]]
    BY <1>7 DEF IndicesOf
  <2>2. inst.targets = [j \in 1..Len(inst.targets) |-> inst.targets[j]]
    BY <1>4, LenProperties
  <2> QED BY <1>6, <2>1, <2>2
<1>9. /\ d.OpNum = inst.op
      /\ d.Args = Operands(inst) \o (IF inst.op \in Tables THEN <<>> ELSE ts)
      /\ d.ClosureRecFns = IF inst.op = "CLOSUREREC" THEN ts ELSE <<>>
      /\ d.SwitchEntries = IF inst.op = "SWITCH" THEN ts ELSE <<>>
  BY DEF Decoded
<1>10. CASE inst.op = "CLOSUREREC"
  <2>1. d.ClosureRecFns = ts /\ inst.op \in Tables
    BY <1>9, <1>10 DEF Tables
  <2>2. AdjustedInst(d) = [d EXCEPT !.ClosureRecFns = inst.targets]
    BY <1>8, <1>9, <1>10, <2>1 DEF AdjustedInst
  <2> QED BY <1>10, <2>1, <2>2 DEF Decoded, inst, ts
<1>11. CASE inst.op = "SWITCH"
  <2>1. d.SwitchEntries = ts /\ inst.op \in Tables
    BY <1>9, <1>11 DEF Tables
  <2>2. AdjustedInst(d) = [d EXCEPT !.SwitchEntries = inst.targets]
    BY <1>8, <1>9, <1>11, <2>1 DEF AdjustedInst
  <2> QED BY <1>11, <2>1, <2>2 DEF Decoded, inst, ts
<1>12. CASE inst.op \in Jumps
  <2>1. inst.op \notin Tables /\ inst.op # "CLOSUREREC" /\ inst.op # "SWITCH"
    BY <1>12 DEF Jumps, Tables
  <2>2. Len(inst.targets) = 1 /\ CodeOffsetArgs[inst.op] = Len(Operands(inst))
    BY <1>3, <1>12 DEF OperandFacts
  <2>3. Operands(inst) \in Seq(Int)
    BY <1>3 DEF OperandFacts
  <2>4. /\ (Operands(inst) \o ts)[Len(Operands(inst)) + 1] = ts[1]
        /\ [(Operands(inst) \o ts) EXCEPT ![Len(Operands(inst)) + 1] = inst.targets[1]]
             = Operands(inst) \o inst.targets
    <3>1. Len(ts) = 1
      BY <1>4, <2>2
    <3> DEFINE os == Operands(inst)
               is == inst.targets
    <3>2. os \in Seq(Int) /\ is \in Seq(Int) /\ ts \in Seq(Int) /\ Len(ts) = 1 /\ Len(is) = 1
      BY <1>4, <2>2, <2>3, <3>1
    <3> HIDE DEF os, is
    <3>3. /\ (os \o ts)[Len(os) + 1] = ts[1]
          /\ [(os \o ts) EXCEPT ![Len(os) + 1] = is[1]] = os \o is
      BY ONLY <3>2, LastReplaced
    <3> QED BY <3>3 DEF os, is
  <2>5. InstPositions[ts[1]] = inst.targets[1]
    BY <1>6, <2>2
  <2>6. d.Args = Operands(inst) \o ts
    BY <1>9, <2>1
  <2>7. AdjustedInst(d) = [d EXCEPT !.Args = [d.Args EXCEPT ![CodeOffsetArgs[d.OpNum] + 1] =
                             InstPositions[d.Args[CodeOffsetArgs[d.OpNum] + 1]]]]
    BY <1>9, <2>1 DEF AdjustedInst
  <2> HIDE DEF d
  <2>8. AdjustedInst(d) = [d EXCEPT !.Args = Operands(inst) \o inst.targets]
    <3>1. CodeOffsetArgs[d.OpNum] + 1 = Len(Operands(inst)) + 1
      BY <1>9, <2>2
    <3>2. InstPositions[d.Args[CodeOffsetArgs[d.OpNum] + 1]] = inst.targets[1]
      BY <2>4, <2>5, <2>6, <3>1
    <3>3. [d.Args EXCEPT ![CodeOffsetArgs[d.OpNum] + 1] = inst.targets[1]]
            = Operands(inst) \o inst.targets
      BY ONLY <2>4, <2>6, <3>1
    <3> QED BY ONLY <2>7, <3>2, <3>3
  <2>9. AdjustedInst(d) = Decoded(inst, inst.targets)
    BY <2>1, <2>8 DEF Decoded, d
  <2> QED BY <2>9 DEF inst, ts, d
<1> QED BY <1>3, <1>10, <1>11, <1>12 DEF Tables

LEMMA AdjustStep ==
  ASSUME RInv, Adjust
  PROVE  RInv'
<1> DEFINE h == Head(InstsToAdjust)
           i == h + 1
           l == Len(InstsToAdjust)
           inst == file.program[i]
<1>1. phase = "adjust" /\ InstsToAdjust # <<>>
  BY DEF Adjust
<1>2. /\ InstsToAdjust \in Seq(0..Read - 1)
      /\ \A m, j \in 1..l : m < j => InstsToAdjust[m] < InstsToAdjust[j]
      /\ \A j \in 1..l : file.program[InstsToAdjust[j] + 1].op \notin Plain
      /\ \A j \in 1..l : InstsToAdjust[j] \in 0..Read - 1
  BY ToAdjustTyped DEF RInv, ToAdjustOnce
<1>3. l \in Nat \ {0}
  BY <1>1, <1>2, EmptySeq
<1>4. h \in 0..Read - 1 /\ h = InstsToAdjust[1]
  BY <1>1, <1>2, HeadTailProperties
<1>5. Read \in Nat /\ Read = Len(file.program) /\ DOMAIN Instructions = 1..Read
  BY <1>1, ReadTyped DEF RInv, PhaseEnds
<1>6. i \in 1..Read /\ i - 1 = h
  BY <1>4, <1>5
<1>7. inst.op \notin Plain /\ Pending(h)
  BY <1>2, <1>3, <1>4 DEF Pending
<1>8. /\ Instructions' = [Instructions EXCEPT ![i] = AdjustedInst(Instructions[i])]
      /\ InstsToAdjust' = Tail(InstsToAdjust)
      /\ file' = file /\ TabInst' = TabInst /\ Pos' = Pos
      /\ InstPositions' = InstPositions /\ phase' = phase
  BY <1>5, <1>6, AdjustIs
<1>9. /\ Instructions \in Seq(Results)
      /\ \A k \in 1..Read : Instructions[k] = Decoded(file.program[k], TargetsNow(k))
  BY DEF RInv, ReadSoFar
<1>10. AdjustedInst(Instructions[i]) = Decoded(inst, inst.targets)
  <2>1. TargetsNow(i) = Positions(inst)
    BY <1>6, <1>7 DEF TargetsNow
  <2>2. Instructions[i] = Decoded(inst, Positions(inst))
    BY <1>6, <1>9, <2>1
  <2> QED BY <1>5, <1>6, <1>7, <2>2, TargetsResolved
<1>11. Decoded(inst, inst.targets) \in Results
  <2>1. file \in Files
    BY DEF RInv
  <2>2. OperandFacts(inst) /\ inst.op \in Tables \cup Jumps \cup Plain
    BY <1>5, <1>6, <2>1, FileInstructions DEF FileFacts, Instruction
  <2>3. inst.targets \in Seq(Int)
    BY <2>2 DEF OperandFacts
  <2> HIDE DEF inst
  <2> QED BY <2>2, <2>3, DecodedTyped
<1>12. /\ Instructions' \in Seq(Results) /\ Read' = Read
       /\ \A k \in 1..Read : Instructions'[k] =
            IF k = i THEN Decoded(inst, inst.targets) ELSE Instructions[k]
  <2> HIDE DEF inst, i
  <2> QED BY <1>6, <1>8, <1>9, <1>10, <1>11, ExceptSeq DEF Read
<1>13. /\ InstsToAdjust' \in Seq(0..Read - 1) /\ Len(InstsToAdjust') = l - 1
       /\ \A j \in 1..l - 1 : InstsToAdjust'[j] = InstsToAdjust[j + 1]
  BY <1>1, <1>2, <1>8, HeadTailProperties
<1>14. \A k : Pending(k)' <=> Pending(k) /\ k # h
  <2> SUFFICES ASSUME NEW k PROVE Pending(k)' <=> Pending(k) /\ k # h
    OBVIOUS
  <2>1. Pending(k)' <=> \E j \in 1..l - 1 : InstsToAdjust[j + 1] = k
    BY <1>13 DEF Pending
  <2>2. Pending(k) <=> \E j \in 1..l : InstsToAdjust[j] = k
    BY DEF Pending
  <2> HIDE DEF l, h
  <2>3. \A j \in 1..l : j # 1 => j - 1 \in 1..l - 1 /\ (j - 1) + 1 = j
    BY <1>3
  <2>4. \A j \in 1..l - 1 : j + 1 \in 1..l /\ 1 < j + 1 /\ 1 \in 1..l
    BY <1>3
  <2>5. ASSUME NEW j \in 1..l - 1, InstsToAdjust[j + 1] = k PROVE Pending(k) /\ k # h
    <3>1. j + 1 \in 1..l /\ 1 < j + 1 /\ 1 \in 1..l
      BY <2>4
    <3>2. h < k /\ h \in Int /\ k \in Int
      BY <1>2, <1>4, <2>5, <3>1
    <3>3. h # k
      BY ONLY <3>2
    <3> QED BY <2>2, <2>5, <3>1, <3>3
  <2>6. ASSUME NEW j \in 1..l, InstsToAdjust[j] = k, k # h PROVE Pending(k)'
    <3>1. j # 1
      BY <1>4, <2>6
    <3> QED BY <2>1, <2>3, <2>6, <3>1
  <2> QED BY <2>1, <2>2, <2>5, <2>6
<1>15. ToAdjustOnce'
  <2> HIDE DEF l, h, i, inst
  <2>1. \A j \in 1..l - 1 : j + 1 \in 1..l
    BY <1>3
  <2>2. \A m, j \in 1..l - 1 : m < j => InstsToAdjust'[m] < InstsToAdjust'[j]
    <3>1. \A m, j \in 1..l - 1 : m < j => m + 1 < j + 1
      BY <1>3
    <3> QED BY <1>2, <1>13, <2>1, <3>1
  <2>3. \A j \in 1..l - 1 : file.program[InstsToAdjust'[j] + 1].op \notin Plain
    BY <1>2, <1>13, <2>1
  <2> QED BY <1>8, <1>12, <1>13, <2>2, <2>3 DEF ToAdjustOnce
<1>16. ReadSoFar'
  <2>1. \A k \in 1..Read : Instructions'[k] = Decoded(file.program[k], TargetsNow(k)')
    <3> SUFFICES ASSUME NEW k \in 1..Read
                 PROVE  Instructions'[k] = Decoded(file.program[k], TargetsNow(k)')
      OBVIOUS
    <3>1. TargetsNow(k)' = IF Pending(k - 1)' THEN Positions(file.program[k])
                           ELSE file.program[k].targets
      BY <1>8 DEF TargetsNow, Positions
    <3>2. CASE k = i
      <4>1. ~Pending(k - 1)'
        BY <1>6, <1>14, <3>2
      <4> QED BY <1>12, <3>1, <3>2, <4>1
    <3>3. CASE k # i
      <4>1. k - 1 # h
        BY <1>4, <1>5, <3>3
      <4>2. Pending(k - 1)' <=> Pending(k - 1)
        BY <1>14, <4>1
      <4>3. TargetsNow(k)' = TargetsNow(k)
        BY <3>1, <4>2 DEF TargetsNow
      <4> QED BY <1>9, <1>12, <3>3, <4>3
    <3> QED BY <3>2, <3>3
  <2>2. Read <= Len(file.program)
    BY <1>5
  <2>3. ReadSoFar' <=> /\ Instructions' \in Seq(Results) /\ Read' <= Len(file'.program)
                       /\ \A k \in 1..Read' : Instructions'[k] = Decoded(file'.program[k], TargetsNow(k)')
    BY DEF ReadSoFar
  <2> QED BY <1>8, <1>12, <2>1, <2>2, <2>3
<1>17. AtNext' /\ PositionsNamed'
  BY <1>8, <1>12 DEF RInv, AtNext, PositionsNamed
<1>18. PhaseEnds'
  BY <1>1, <1>5, <1>8, <1>12 DEF PhaseEnds
<1>19. file' \in Files
  BY <1>8 DEF RInv
<1> QED BY <1>15, <1>16, <1>17, <1>18, <1>19 DEF RInv

LEMMA RInvInit ==
  ASSUME Init
  PROVE  RInv
<1>1. Instructions = <<>> /\ InstPositions = <<>> /\ InstsToAdjust = <<>> /\ phase = "read"
      /\ file \in Files /\ TabInst = 0 /\ Pos = 0
  BY DEF Init
<1>2. Len(file.program) \in Nat /\ file.address[0] = 0
  BY <1>1, FilesEncoded
<1>3. Read = 0
  BY <1>1 DEF Read
<1>4. 0..Read - 1 = {} /\ 1..Read = {}
  BY <1>3
<1>5. ReadSoFar
  BY <1>1, <1>2, <1>3, <1>4 DEF ReadSoFar
<1>6. AtNext
  BY <1>1, <1>2, <1>3, <1>4 DEF AtNext
<1>7. PositionsNamed
  <2>1. DOMAIN InstPositions = {}
    BY <1>1
  <2>2. {file.address[i] + 1 : i \in 0..Read - 1} = {}
    BY <1>4
  <2> QED BY <1>4, <2>1, <2>2 DEF PositionsNamed
<1>8. ToAdjustOnce
  <2>1. InstsToAdjust \in Seq(0..Read - 1) /\ 1..Len(InstsToAdjust) = {}
    BY <1>1
  <2> QED BY <2>1 DEF ToAdjustOnce
<1>9. PhaseEnds
  BY <1>1 DEF PhaseEnds
<1> QED BY <1>1, <1>5, <1>6, <1>7, <1>8, <1>9 DEF RInv

LEMMA SamePartsSame ==
  ASSUME RInv, UNCHANGED <<file, TabInst, Pos, Instructions, InstPositions, InstsToAdjust>>,
         PhaseEnds'
  PROVE  RInv'
BY DEF RInv, ReadSoFar, AtNext, PositionsNamed, ToAdjustOnce, Read, TargetsNow, Pending, Positions

LEMMA RInvNext ==
  ASSUME RInv, [Next]_vars
  PROVE  RInv'
<1>1. CASE ReadInstruction
  BY <1>1, ReadStep
<1>2. CASE ReadAll
  <2>1. /\ phase' = "adjust" /\ Pos >= file.Size
        /\ UNCHANGED <<file, TabInst, Pos, Instructions, InstPositions, InstsToAdjust>>
    BY <1>2 DEF ReadAll
  <2>2. Read = Len(file.program)
    <3>1. Read + 1 \notin 1..Len(file.program)
      <4> SUFFICES ASSUME Read + 1 \in 1..Len(file.program) PROVE FALSE
        OBVIOUS
      <4>1. /\ file \in Files /\ Pos = file.address[Read] /\ (Read + 1) - 1 = Read
        BY ReadTyped DEF RInv, AtNext
      <4> DEFINE inst == file.program[Read + 1]
      <4>2. FileFacts(file, Read + 1, inst, Pos)
        BY <4>1, FileInstructions
      <4>3. /\ file.address[Read + 1] = Pos + 1 + Len(Operands(inst)) + Len(inst.targets)
            /\ Len(Operands(inst)) \in Nat /\ Len(inst.targets) \in Nat
        BY <4>2 DEF FileFacts, OperandFacts
      <4>4. \A x, y, z \in Nat : x < x + 1 + y + z
        OBVIOUS
      <4>5. Pos \in Nat /\ file.Size \in Nat /\ file.address[Read + 1] \in 0..file.Size
        BY ReadTyped
      <4> HIDE DEF inst
      <4>6. Pos < file.address[Read + 1]
        BY ONLY <4>3, <4>4, <4>5
      <4> QED BY <2>1, <4>5, <4>6
    <3> QED BY <3>1, ReadTyped
  <2>3. PhaseEnds'
    <3>1. Read' = Read /\ Len(file'.program) = Len(file.program)
      BY <2>1 DEF Read
    <3> QED BY <2>1, <2>2, <3>1 DEF PhaseEnds
  <2> QED BY <2>1, <2>3, SamePartsSame
<1>3. CASE Adjust
  BY <1>3, AdjustStep
<1>4. CASE AdjustedAll
  <2>1. /\ phase = "adjust" /\ phase' = "done" /\ InstsToAdjust = <<>>
        /\ UNCHANGED <<file, TabInst, Pos, Instructions, InstPositions, InstsToAdjust>>
    BY <1>4 DEF AdjustedAll
  <2>2. PhaseEnds'
    <3>1. Read' = Read /\ Len(file'.program) = Len(file.program)
      BY <2>1 DEF Read
    <3> QED BY <2>1, <3>1 DEF RInv, PhaseEnds
  <2> QED BY <2>1, <2>2, SamePartsSame
<1>5. CASE UNCHANGED vars
  <2>1. UNCHANGED <<file, TabInst, Pos, Instructions, InstPositions, InstsToAdjust, phase>>
    BY <1>5 DEF vars
  <2>2. PhaseEnds'
    BY <2>1 DEF RInv, PhaseEnds, Read
  <2> QED BY <2>1, <2>2, SamePartsSame
<1> QED BY <1>1, <1>2, <1>3, <1>4, <1>5 DEF Next

LEMMA RInvariance == Spec => []RInv
<1>1. RInv /\ [Next]_vars => RInv'
  BY RInvNext
<1> QED BY RInvInit, <1>1, PTL DEF Spec

-----------------------------------------------------------------------------
(* What follows from the invariant. *)

(* Whatever the lengths of the instructions, both cursors stay in the file, and
   every position the reading loop has filed is that of an instruction it read. *)
THEOREM TypeCorrect == Spec => []TypeOK
<1>1. RInv => TypeOK
  <2> SUFFICES ASSUME RInv PROVE TypeOK
    OBVIOUS
  <2>1. /\ Pos = TabInst /\ Pos = file.address[Read]
        /\ \A i \in 0..Read - 1 : file.address[i] < file.address[Read]
    BY DEF RInv, AtNext
  <2>2. /\ Read \in Nat /\ file.Size \in Nat /\ Pos \in 0..file.Size
        /\ \A i \in 0..Read - 1 : file.address[i] \in 0..file.Size
    BY ReadTyped
  <2>3. /\ DOMAIN InstPositions = {file.address[i] + 1 : i \in 0..Read - 1}
        /\ \A i \in 0..Read - 1 : InstPositions[file.address[i] + 1] = i
    BY DEF RInv, PositionsNamed
  <2>4. \A i \in 0..Read - 1 : file.address[i] + 1 \in 1..file.Size
    <3> SUFFICES ASSUME NEW i \in 0..Read - 1 PROVE file.address[i] + 1 \in 1..file.Size
      OBVIOUS
    <3>1. file.address[i] < Pos /\ file.address[i] \in 0..file.Size
      BY <2>1, <2>2
    <3> QED BY <2>2, <3>1
  <2>5. DOMAIN InstPositions \subseteq 1..file.Size
    BY <2>3, <2>4
  <2>6. \A q \in DOMAIN InstPositions : InstPositions[q] \in 0..Len(Instructions) - 1
    BY <2>3 DEF Read
  <2>7. phase \in {"read", "adjust", "done"}
    BY DEF RInv, PhaseEnds
  <2> QED BY <2>1, <2>2, <2>5, <2>6, <2>7 DEF TypeOK
<1> QED BY RInvariance, <1>1, PTL

(* Pos and TabInst, which the code moves at different places and for tables by
   different amounts, are on the first word of the same instruction after every turn of
   the loop; an instruction is found under the word after its own first. *)
THEOREM CursorsCorrect == Spec => []CursorsAgree
<1>1. RInv => CursorsAgree
  BY DEF RInv, ReadSoFar, AtNext, PositionsNamed, CursorsAgree, Read
<1> QED BY RInvariance, <1>1, PTL

LEMMA Decoding ==
  ASSUME RInv, phase = "done"
  PROVE  /\ Read = Len(file.program) /\ Read \in Nat /\ DOMAIN Instructions = 1..Read
         /\ \A k \in 1..Read :
              Instructions[k] = Decoded(file.program[k], file.program[k].targets)
<1>1. Read = Len(file.program) /\ InstsToAdjust = <<>>
  BY DEF RInv, PhaseEnds
<1>2. \A k : ~Pending(k - 1)
  <2>1. 1..Len(InstsToAdjust) = {}
    BY <1>1
  <2> QED BY <2>1 DEF Pending
<1>3. \A k \in 1..Read : Instructions[k] = Decoded(file.program[k], TargetsNow(k))
  BY DEF RInv, ReadSoFar
<1> QED BY <1>1, <1>2, <1>3, ReadTyped DEF TargetsNow

(* The file of any program is decoded to that program: every operand, and every target,
   forward or backward, of a jump, a closure, a group of functions or a match. *)
THEOREM RoundTripCorrect == Spec => []RoundTrip
<1>1. RInv => RoundTrip
  <2> SUFFICES ASSUME RInv, phase = "done"
               PROVE  Instructions = [k \in 1..Len(file.program) |->
                                        Decoded(file.program[k], file.program[k].targets)]
    BY DEF RoundTrip
  <2>1. Instructions \in Seq(Results)
    BY DEF RInv, ReadSoFar
  <2>2. Instructions = [k \in 1..Read |-> Instructions[k]]
    BY <2>1, LenProperties DEF Read
  <2> QED BY <2>2, Decoding
<1> QED BY RInvariance, <1>1, PTL

(* The operand of SWITCH, unpacked by getSwitchOffset, leads every constructor to the
   entry that was compiled for it, whatever the numbers of constructors. *)
THEOREM SwitchCorrect == Spec => []SwitchReaches
<1>1. RInv => SwitchReaches
  <2> SUFFICES ASSUME RInv, phase = "done",
                      NEW k \in {j \in 1..Len(file.program) : file.program[j].op = "SWITCH"}
               PROVE  LET read   == Instructions[k]
                          consts == Len(file.program[k].targets) - file.program[k].blocks
                          At(isBlock, n) ==
                            read.SwitchEntries[getSwitchOffset(read.Args[1], isBlock, n) + 1]
                      IN /\ \A n \in 0..consts - 1 :
                              At(FALSE, n) = file.program[k].targets[n + 1]
                         /\ \A n \in 0..file.program[k].blocks - 1 :
                              At(TRUE, n) = file.program[k].targets[consts + n + 1]
    BY DEF SwitchReaches
  <2> DEFINE inst   == file.program[k]
             read   == Instructions[k]
             consts == Len(inst.targets) - inst.blocks
             arg    == consts + inst.blocks * Shift16
  <2>1. k \in 1..Len(file.program) /\ inst.op = "SWITCH" /\ read = Decoded(inst, inst.targets)
    BY Decoding
  <2>2. inst \in Instruction(Len(file.program)) /\ Shaped(inst) /\ OperandFacts(inst)
    BY <2>1, FileInstructions DEF RInv, FileFacts
  <2>3. Len(inst.targets) \in Nat /\ inst.blocks \in Nat
    BY <2>2 DEF Instruction, OperandFacts
  <2>4. consts \in 0..Shift16 - 1
    <3>1. inst.blocks <= Len(inst.targets) /\ Len(inst.targets) - inst.blocks < Shift16
      BY <2>1, <2>2 DEF Shaped
    <3>2. Shift16 \in Nat
      BY ShiftPositive
    <3> HIDE DEF inst
    <3> QED BY ONLY <2>3, <3>1, <3>2, Difference
  <2>5. arg % Shift16 = consts
    <3> HIDE DEF consts, inst
    <3> QED BY ONLY <2>3, <2>4, PackedCounts
  <2>6. read.SwitchEntries = inst.targets /\ read.Args[1] = arg
    <3>1. Operands(inst) = <<arg>>
      BY <2>1 DEF Operands
    <3>2. inst.op \in Tables
      BY <2>1 DEF Tables
    <3>3. read.Args = Operands(inst) \o <<>> /\ read.SwitchEntries = inst.targets
      BY <2>1, <3>2 DEF Decoded
    <3>4. read.Args = Operands(inst)
      BY <2>2, <3>3, ConcatEmptySeq DEF OperandFacts
    <3> HIDE DEF inst, read, arg
    <3> QED BY <3>1, <3>3, <3>4
  <2> HIDE DEF arg, consts, inst, read
  <2>7. \A n : getSwitchOffset(arg, FALSE, n) = n /\ getSwitchOffset(arg, TRUE, n) = consts + n
    BY <2>5 DEF getSwitchOffset
  <2> QED BY <2>6, <2>7 DEF inst, read, consts
<1> QED BY RInvariance, <1>1, PTL
=============================================================================

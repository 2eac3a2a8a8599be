------------------------------- MODULE IntOps -------------------------------
(***************************************************************************)
(* Integer instructions on tagged machine words, as src/StdLib/CStdLib.c   *)
(* computes them and src/GenBlock.cpp compares them: the int n is the word *)
(* 2n + 1, and every operation works on whole words, wraps around at 2^W   *)
(* and has to leave the tag bit as it is.                                  *)
(***************************************************************************)
EXTENDS Integers

CONSTANTS
  W,            \* bits of a word: 64 in the code
  Immediates    \* integer operands of instructions

ASSUME WordAssumption == W \in Nat \ 0..2 /\ Immediates \subseteq -(2^(W - 2)) .. 2^(W - 2) - 1

VARIABLES
  Accu, Operand,   \* words: the accumulator, and the top of the stack
  executed,        \* the instruction just executed
  signal           \* "none", or "SIGFPE": the processor trapped

vars == <<Accu, Operand, executed, signal>>

Words     == 0 .. 2^W - 1
Word(n)   == n % 2^W                                      \* as uintnat
Signed(w) == IF w >= 2^(W - 1) THEN w - 2^W ELSE w        \* as intnat

Val_long(n) == Word(2 * n + 1)
Long_val(w) == Signed(w) \div 2                           \* an arithmetic shift
Val_bool(b) == IF b THEN Val_long(1) ELSE Val_long(0)

\* / and % of C
Abs(n)     == IF n < 0 THEN -n ELSE n
CDiv(a, b) == IF (a < 0) = (b < 0) THEN Abs(a) \div Abs(b) ELSE -(Abs(a) \div Abs(b))
CMod(a, b) == a - b * CDiv(a, b)

-----------------------------------------------------------------------------
addInt(a, b) == Word(a + b - 1)
negInt(a)    == Word(2 - a)
subInt(a, b) == Word(a - b + 1)
mulInt(a, b) == Val_long(Long_val(a) * Long_val(b))
divInt(a, b) == Val_long(CDiv(Long_val(a), Long_val(b)))
modInt(a, b) == Val_long(CMod(Long_val(a), Long_val(b)))

\* GenBlock passes the operand shifted by one.
offsetInt(a, n) == Word(a + 2 * n)

\* The operators of C that combine two words bit by bit
Bit(w, k) == (w \div 2^k) % 2
BitByBit(Op(_, _), a, b) ==
  CHOOSE w \in Words : \A k \in 0..W - 1 : Bit(w, k) = Op(Bit(a, k), Bit(b, k))

BitAnd(x, y) == IF x = 1 /\ y = 1 THEN 1 ELSE 0
BitOr(x, y)  == IF x = 1 \/ y = 1 THEN 1 ELSE 0
BitXor(x, y) == IF x # y THEN 1 ELSE 0

And(a, b) == BitByBit(BitAnd, a, b)
Or(a, b)  == BitByBit(BitOr, a, b)
Xor(a, b) == BitByBit(BitXor, a, b)

andInt(a, b) == And(a, b)
orInt(a, b)  == Or(a, b)
\* Mutant: the tag bits cancel out.
xorInt_untagged(a, b) == Xor(a, b)

xorInt(a, b) == Or(Xor(a, b), 1)

\* Mutant: the tag takes part in the shift.
lslInt_with_tag(a, b) == Or(Word(a * 2^Long_val(b)), 1)

lslInt(a, b) == Word((a - 1) * 2^Long_val(b) + 1)
lsrInt(a, b) == Or(Word(a - 1) \div 2^Long_val(b), 1)
asrInt(a, b) == Or(Word(Signed(Word(a - 1)) \div 2^Long_val(b)), 1)

isInt(a)   == Val_long(And(a, 1))
boolNot(a) == Val_long(0) + Val_long(1) - a

\* What an instruction that takes two words and pops one leaves in Accu
Result(op, a, b) ==
  CASE op = "ADDINT" -> addInt(a, b)
    [] op = "SUBINT" -> subInt(a, b)
    [] op = "MULINT" -> mulInt(a, b)
    [] op = "DIVINT" -> divInt(a, b)
    [] op = "MODINT" -> modInt(a, b)
    [] op = "ANDINT" -> andInt(a, b)
    [] op = "ORINT"  -> orInt(a, b)
    [] op = "XORINT" -> xorInt(a, b)
    [] op = "LSLINT" -> lslInt(a, b)
    [] op = "LSRINT" -> lsrInt(a, b)
    [] op = "ASRINT" -> asrInt(a, b)
    [] op = "EQ"     -> Val_bool(Signed(a) = Signed(b))
    [] op = "NEQ"    -> Val_bool(Signed(a) # Signed(b))
    [] op = "LTINT"  -> Val_bool(Signed(a) < Signed(b))
    [] op = "LEINT"  -> Val_bool(Signed(a) <= Signed(b))
    [] op = "GTINT"  -> Val_bool(Signed(a) > Signed(b))
    [] op = "GEINT"  -> Val_bool(Signed(a) >= Signed(b))
    [] op = "ULTINT" -> Val_bool(a < b)
    [] op = "UGEINT" -> Val_bool(a >= b)

\* The comparison of a conditional jump: the operand is tagged, and comes first.
Compares(op, n, a) ==
  CASE op = "BEQ"     -> Val_long(n) = a
    [] op = "BNEQ"    -> Val_long(n) # a
    [] op = "BLTINT"  -> Signed(Val_long(n)) < Signed(a)
    [] op = "BLEINT"  -> Signed(Val_long(n)) <= Signed(a)
    [] op = "BGTINT"  -> Signed(Val_long(n)) > Signed(a)
    [] op = "BGEINT"  -> Signed(Val_long(n)) >= Signed(a)
    [] op = "BULTINT" -> Val_long(n) < a
    [] op = "BUGEINT" -> Val_long(n) >= a

-----------------------------------------------------------------------------
O == INSTANCE OCamlInts WITH
       Width   <- W - 1,
       acc     <- Long_val(Accu),
       top     <- Long_val(Operand),
       did     <- executed,
       outcome <- IF signal = "none" THEN "running" ELSE "raised"

Tagged == {Val_long(n) : n \in O!Ints}

Init == Accu \in Tagged /\ Operand \in Tagged /\ executed = << >> /\ signal = "none"

\* The operand is popped, and another integer comes to be on top of the stack.
Binary ==
  \E op \in O!Binary :
    /\ op \in O!Shifts => Long_val(Operand) \in 0..W - 2   \* others are undefined in OCaml too
    /\ executed' = <<op>>
    /\ Accu' = Result(op, Accu, Operand)
    /\ Operand' \in Tagged
    /\ UNCHANGED signal

\* divInt and modInt do not look at the divisor.
Divide ==
  \E op \in O!Divisions :
    /\ executed' = <<op>>
    /\ IF Long_val(Operand) = 0
       THEN signal' = "SIGFPE" /\ UNCHANGED <<Accu, Operand>>
       ELSE /\ Accu' = Result(op, Accu, Operand) /\ Operand' \in Tagged
            /\ UNCHANGED signal

Unary ==
  /\ \/ executed' = <<"NEGINT">> /\ Accu' = negInt(Accu)
     \/ executed' = <<"BOOLNOT">> /\ Accu \in {Val_long(0), Val_long(1)} /\ Accu' = boolNot(Accu)
     \/ executed' = <<"ISINT">> /\ Accu' = isInt(Accu)
     \/ \E n \in Immediates : executed' = <<"OFFSETINT", n>> /\ Accu' = offsetInt(Accu, n)
     \/ \E n \in Immediates : executed' = <<"CONSTINT", n>> /\ Accu' = Val_long(n)
  /\ UNCHANGED <<Operand, signal>>

Jump ==
  /\ \E op \in O!Jumps, n \in Immediates : executed' = <<op, n, Compares(op, n, Accu)>>
  /\ UNCHANGED <<Accu, Operand, signal>>

Next == signal = "none" /\ (Binary \/ Divide \/ Unary \/ Jump)

Spec == Init /\ [][Next]_vars

-----------------------------------------------------------------------------
(* Accu is a word that the collector takes for an integer after any sequence of
   integer instructions: no result carries into the tag or borrows from it. *)
StaysTagged == Accu \in Tagged /\ Operand \in Tagged

(* Every instruction computes, and every conditional jump decides, what the
   language says, at both ends of the range of int included. *)
RefinesOCamlInts == O!Spec
=============================================================================

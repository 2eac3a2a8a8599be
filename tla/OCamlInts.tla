----------------------------- MODULE OCamlInts -----------------------------
(***************************************************************************)
(* Integer instructions as the OCaml language defines them: integers of    *)
(* Width bits, wrapping around, and an exception for a division by zero.   *)
(* IntOps shows that CamllVM's operations on tagged words implement this.  *)
(***************************************************************************)
EXTENDS Integers

CONSTANTS Width, Immediates   \* of an int; operands of instructions

VARIABLES
  acc, top,    \* the accumulator, and the integer on top of the stack
  did,         \* the instruction just executed
  outcome      \* "running" or "raised"

vars == <<acc, top, did, outcome>>

Ints    == -(2^(Width - 1)) .. 2^(Width - 1) - 1
Wrap(n) == CHOOSE i \in Ints : (i - n) % 2^Width = 0
Unsigned(n) == n % 2^Width

Truth(b) == IF b THEN 1 ELSE 0

\* Division rounds towards zero, and the remainder has the sign of the dividend.
Magnitude(n) == IF n < 0 THEN -n ELSE n
Quotient(a, b) ==
  LET q == Magnitude(a) \div Magnitude(b) IN IF (a < 0) = (b < 0) THEN q ELSE -q
Remainder(a, b) == a - b * Quotient(a, b)

Bit(n, k) == (Unsigned(n) \div 2^k) % 2
Bitwise(Op(_, _), a, b) ==
  CHOOSE i \in Ints : \A k \in 0..Width - 1 : Bit(i, k) = Op(Bit(a, k), Bit(b, k))

Both(x, y)   == x * y
Either(x, y) == IF x + y > 0 THEN 1 ELSE 0
OneOf(x, y)  == (x + y) % 2

\* The instructions of two operands that cannot fail, and what they compute
Binary == {"ADDINT", "SUBINT", "MULINT", "ANDINT", "ORINT", "XORINT", "LSLINT", "LSRINT",
           "ASRINT", "EQ", "NEQ", "LTINT", "LEINT", "GTINT", "GEINT", "ULTINT", "UGEINT"}
Shifts == {"LSLINT", "LSRINT", "ASRINT"}
Divisions == {"DIVINT", "MODINT"}

Eval(op, a, b) ==
  CASE op = "ADDINT" -> Wrap(a + b)
    [] op = "SUBINT" -> Wrap(a - b)
    [] op = "MULINT" -> Wrap(a * b)
    [] op = "DIVINT" -> Wrap(Quotient(a, b))
    [] op = "MODINT" -> Remainder(a, b)
    [] op = "ANDINT" -> Bitwise(Both, a, b)
    [] op = "ORINT"  -> Bitwise(Either, a, b)
    [] op = "XORINT" -> Bitwise(OneOf, a, b)
    [] op = "LSLINT" -> Wrap(a * 2^b)
    [] op = "LSRINT" -> Wrap(Unsigned(a) \div 2^b)
    [] op = "ASRINT" -> a \div 2^b
    [] op = "EQ"     -> Truth(a = b)
    [] op = "NEQ"    -> Truth(a # b)
    [] op = "LTINT"  -> Truth(a < b)
    [] op = "LEINT"  -> Truth(a <= b)
    [] op = "GTINT"  -> Truth(a > b)
    [] op = "GEINT"  -> Truth(a >= b)
    [] op = "ULTINT" -> Truth(Unsigned(a) < Unsigned(b))
    [] op = "UGEINT" -> Truth(Unsigned(a) >= Unsigned(b))

\* The conditional jumps of two operands: the first is part of the instruction.
Jumps == {"BEQ", "BNEQ", "BLTINT", "BLEINT", "BGTINT", "BGEINT", "BULTINT", "BUGEINT"}

Taken(op, n, a) ==
  CASE op = "BEQ"     -> n = a
    [] op = "BNEQ"    -> n # a
    [] op = "BLTINT"  -> n < a
    [] op = "BLEINT"  -> n <= a
    [] op = "BGTINT"  -> n > a
    [] op = "BGEINT"  -> n >= a
    [] op = "BULTINT" -> Unsigned(n) < Unsigned(a)
    [] op = "BUGEINT" -> Unsigned(n) >= Unsigned(a)

-----------------------------------------------------------------------------
Init == acc \in Ints /\ top \in Ints /\ did = << >> /\ outcome = "running"

Binaries ==
  \E op \in Binary :
    /\ op \in Shifts => top \in 0..Width - 1
    /\ did' = <<op>>
    /\ acc' = Eval(op, acc, top) /\ top' \in Ints
    /\ UNCHANGED outcome

Divide ==
  \E op \in Divisions :
    /\ did' = <<op>>
    /\ \/ top # 0 /\ acc' = Eval(op, acc, top) /\ top' \in Ints /\ UNCHANGED outcome
       \/ top = 0 /\ outcome' = "raised" /\ UNCHANGED <<acc, top>>

Unary ==
  /\ \/ did' = <<"NEGINT">> /\ acc' = Wrap(-acc)
     \/ did' = <<"BOOLNOT">> /\ acc \in {0, 1} /\ acc' = 1 - acc
     \/ did' = <<"ISINT">> /\ acc' = 1
     \/ \E n \in Immediates : did' = <<"OFFSETINT", n>> /\ acc' = Wrap(acc + n)
     \/ \E n \in Immediates : did' = <<"CONSTINT", n>> /\ acc' = n
  /\ UNCHANGED <<top, outcome>>

\* A jump changes nothing but where control goes, which is part of did.
Jump ==
  /\ \E op \in Jumps, n \in Immediates : did' = <<op, n, Taken(op, n, acc)>>
  /\ UNCHANGED <<acc, top, outcome>>

Next == outcome = "running" /\ (Binaries \/ Divide \/ Unary \/ Jump)

Spec == Init /\ [][Next]_vars
=============================================================================

---------------------------- MODULE OCamlObjects ----------------------------
(***************************************************************************)
(* What the data instructions of the bytecode mean for an OCaml program:   *)
(* objects with a number of items, and functions that know their           *)
(* definition, their place in it and the values they close over.  There    *)
(* are no words, offsets, headers or tags.                                 *)
(*                                                                         *)
(* `inst' is the instruction that ran last, <<name, operand, operand>>     *)
(* with the operands counted as the program counts them: the second free   *)
(* variable, the third item.  A step does what its instruction says.       *)
(***************************************************************************)
EXTENDS Integers, Sequences

CONSTANT Definitions    \* [arity, vars, rec]: arities of the functions, values closed over

VARIABLES inst, objects, accu, self, locals, globals

\* Values; Fn(o, i) is the i-th function of the definition evaluated to object o.
IntValue(n)  == <<"int", n, 0>>
BoolValue(b) == IntValue(IF b THEN 1 ELSE 0)
UnitValue    == IntValue(0)
Ref(o)       == <<"ref", o, 0>>
Fn(o, i)     == <<"fn", o, i>>
IsInt(v)     == v[1] = "int"
Is(v, kind)  == ~IsInt(v) /\ objects[v[2]].kind = kind

\* An object, and what a functions or partial object is of; of a block, its tag
Object(kind, items, of) == [kind |-> kind, items |-> items, of |-> of]
Plain(kind, items)      == Object(kind, items, UnitValue)
Items(v) == objects[v[2]].items
Of(v)    == objects[v[2]].of

After(n) == SubSeq(locals, n + 1, Len(locals))
First(n) == <<accu>> \o SubSeq(locals, 1, n - 1)       \* accu and the locals above

Gives(v, rest)      == accu' = v /\ locals' = rest /\ UNCHANGED <<self, globals>>
Reads(v, rest)      == objects' = objects /\ Gives(v, rest)
Makes(o, v, rest)   == objects' = Append(objects, o) /\ Gives(v, rest)
Writes(i, item, rest) ==
  objects' = [objects EXCEPT ![accu[2]].items[i] = item] /\ Gives(UnitValue, rest)
NewRef   == Ref(Len(objects) + 1)
NewFn(i) == Fn(Len(objects) + 1, i)

-----------------------------------------------------------------------------
Name == inst'[1]
A    == inst'[2]     \* the operands
B    == inst'[3]

Local ==
  \/ Name = "const"  /\ Reads(IntValue(A), locals)
  \/ Name = "push"   /\ Reads(accu, <<accu>> \o locals)
  \/ Name = "pop"    /\ Reads(accu, After(A))
  \/ Name = "acc"    /\ Reads(locals[A], locals)
  \/ Name = "assign" /\ Reads(UnitValue, [locals EXCEPT ![A] = accu])
  \/ Name = "isint"  /\ Reads(BoolValue(IsInt(accu)), locals)
  \/ Name = "not"    /\ Reads(BoolValue(accu = BoolValue(FALSE)), locals)

\* A definition's functions share the values they close over; those of a
\* recursive one become locals, in order.
Define ==
  LET D     == Definitions[A]
      fns   == Len(D.arity)
      rest  == IF D.vars = 0 THEN locals ELSE After(D.vars - 1)
      vars  == IF D.vars = 0 THEN <<>> ELSE First(D.vars)
  IN /\ Name = "define"
     /\ Makes(Object("functions", vars, <<"definition", A, 0>>), NewFn(1),
              IF D.rec THEN [k \in 1..fns |-> NewFn(fns + 1 - k)] \o rest ELSE rest)

\* Of the function that runs: a free variable, and a function of its definition
Own ==
  \/ Name = "free"     /\ Reads(Items(self)[A], locals)
  \/ Name = "function" /\ Reads(Fn(self[2], A), locals)

\* An application adds its arguments above the earlier ones, and needs them all.
Apply ==
  LET callee == IF Is(accu, "partial") THEN Of(accu) ELSE accu
      args   == (IF Is(accu, "partial") THEN Items(accu) ELSE <<>>) \o SubSeq(locals, 1, A)
      arity  == Definitions[Of(callee)[2]].arity[callee[3]]
  IN /\ Name = "apply"
     /\ IF Len(args) < arity
        THEN Makes(Object("partial", args, callee), NewRef, After(A))
        ELSE self' = callee /\ locals' = args /\ UNCHANGED <<objects, accu, globals>>

\* Tuples, records, arrays; "tuple" is also a primitive that returns its arguments.
Block ==
  \/ Name = "atom" /\ Reads(Ref(CHOOSE o \in DOMAIN objects : objects[o] = Plain("block", <<>>)), locals)
  \/ Name \in {"block", "tuple"} /\ Makes(Object("block", First(A), IntValue(B)), NewRef, After(A - 1))
  \/ Name = "length"  /\ Reads(IntValue(Len(Items(accu))), locals)
  \/ Name = "item"    /\ Reads(Items(accu)[A], locals)
  \/ Name = "setitem" /\ Writes(A, locals[1], After(1))
  \/ Name = "get"     /\ Reads(Items(accu)[locals[1][2] + 1], After(1))
  \/ Name = "set"     /\ Writes(locals[1][2] + 1, locals[2], After(2))
  \/ Name = "add"     /\ Writes(1, IntValue(Items(accu)[1][2] + A), locals)
  \/ Name = "method"  /\ Reads(Items(Items(locals[1])[1])[accu[2] + 1], locals)

Float ==
  \/ Name = "box"      /\ Makes(Plain("float", <<accu[2]>>), NewRef, locals)
  \/ Name = "floats"   /\ Makes(Plain("floats", [i \in 1..A |-> Items(First(A)[i])[1]]),
                                NewRef, After(A - 1))
  \/ Name = "float"    /\ Makes(Plain("float", <<Items(accu)[A]>>), NewRef, locals)
  \/ Name = "setfloat" /\ Writes(A, Items(locals[1])[1], After(1))

String ==
  \/ Name = "char"    /\ Reads(IntValue(Items(accu)[locals[1][2] + 1]), After(1))
  \/ Name = "setchar" /\ Writes(locals[1][2] + 1, locals[2][2], After(2))

\* Nobody looks at accu after a global was set.
Global ==
  \/ Name = "global"      /\ Reads(globals[A], locals)
  \/ Name = "globalfield" /\ Reads(Items(globals[A])[B], locals)
  \/ /\ Name = "setglobal"
     /\ globals' = [globals EXCEPT ![A] = accu] /\ accu' \in {accu, UnitValue}
     /\ UNCHANGED <<objects, self, locals>>

Next == Local \/ Define \/ Own \/ Apply \/ Block \/ Float \/ String \/ Global

\* A program starts at toplevel, with atoms and literals, and integers for locals.
Init ==
  /\ self = UnitValue
  /\ \A n \in DOMAIN locals : IsInt(locals[n])
  /\ \A o \in DOMAIN objects : objects[o].kind \in {"block", "float", "floats", "string"}

Spec == Init /\ [][Next]_<<inst, objects, accu, self, locals, globals>>
=============================================================================

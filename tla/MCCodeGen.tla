----------------------------- MODULE MCCodeGen -----------------------------
(* Programs for CodeGen: those of MCGenModuleCreator, and functions whose code
   closes over itself or has handlers within loops. *)
EXTENDS CodeGen, MCGenModuleCreator

MCCompiled ==
  MCPrograms \cup MCSharedArm
    \cup {Linked1(Unit(<<Fun(r, f \o Leave)>>, Make(<<1>>) \o Plain)) :
             r \in BOOLEAN, f \in {While(Try(Plain, Plain)), For(Try(Plain, For(Plain)))}}
    \cup {Linked1(Unit(<<Fun(FALSE, Make(<<1>>) \o b)>>, Make(<<1>>) \o Plain)) : b \in Tails1}

\* The second function of a unit is not referred to, the first is, and a
\* conditional of the unit linked before keeps all of the main code alive.
MCDeadFunction ==
  {Linked2(Unit(<<>>, m), Unit(<<Fun(FALSE, Leave), Fun(FALSE, b)>>, Make(<<1>>) \o Plain)) :
     m \in {RaiseIf, IfElse(Plain, Plain)}, b \in Tails1}
=============================================================================

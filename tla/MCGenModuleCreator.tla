------------------------- MODULE MCGenModuleCreator -------------------------
(***************************************************************************)
(* Programs for GenModuleCreator, put together the way ocamlc lays out     *)
(* expressions.  A fragment is code whose targets are relative to the      *)
(* instruction that holds them; one that is `Tail' ends in a return.       *)
(***************************************************************************)
EXTENDS GenModuleCreator

LOCAL Sequence == INSTANCE SequencesExt

I(op, rel) == [op |-> op, rel |-> rel]
Plain   == <<I("NEXT", <<>>)>>
Leave   == <<I("RETURN", <<>>)>>
TailCall == <<I("APPTERM", <<>>)>>
Raise   == <<I("RAISE", <<>>)>>
Go(d)   == <<I("BRANCH", <<d>>)>>
Test(d) == <<I("COND", <<d>>)>>
Make(fns) == <<I("CLOSURE", fns)>>     \* of the unit's functions, by number

\* Fragments that run on at their end
IfThen(a)     == Test(Len(a) + 1) \o a
IfElse(a, b)  == Test(Len(a) + 2) \o a \o Go(Len(b) + 1) \o b
While(a)      == Go(Len(a) + 2) \o Plain \o a \o Plain \o Test(-(Len(a) + 2))
For(a)        == Plain \o Test(Len(a) + 4) \o Plain \o a \o Plain \o Test(-(Len(a) + 2))
Try(a, b)     == <<I("PUSHTRAP", <<Len(a) + 3>>)>> \o a \o Plain \o Go(Len(b) + 1) \o b
RaiseIf       == IfThen(Raise)

\* Two arms; entries maps each constructor to one of them.
Match(entries, a, b) ==
  LET start == <<1, Len(a) + 2>>
  IN <<I("SWITCH", [k \in DOMAIN entries |-> start[entries[k]]])>>
       \o a \o Go(Len(b) + 2) \o b \o Go(1)

\* The same in tail position
TailIf(a, b)  == Test(Len(a) + 1) \o a \o b
TailTry(a, b) == <<I("PUSHTRAP", <<Len(a) + 3>>)>> \o a \o Plain \o Leave \o b
TailMatch(entries, a, b) ==
  LET start == <<1, Len(a) + 1>>
  IN <<I("SWITCH", [k \in DOMAIN entries |-> start[entries[k]]])>> \o a \o b

Ascending == {<<1, 2>>, <<1, 1, 2>>}   \* the last entry is the highest

Fragments(inner) ==
  inner
    \cup {IfThen(a) : a \in inner} \cup {While(a) : a \in inner} \cup {For(a) : a \in inner}
    \cup UNION {{IfElse(a, Plain), IfElse(Plain, a), Try(a, Plain), Try(Plain, a)} : a \in inner}
    \cup UNION {{Match(e, a, Plain), Match(e, Plain, a)} : a \in inner, e \in Ascending}

Tails(inner, ends) ==
  {a \o Leave : a \in inner}
    \cup UNION {{TailIf(a, Leave), TailIf(Plain \o Leave, a)} : a \in ends}
    \cup UNION {{TailMatch(e, a, Plain \o Leave), TailMatch(e, Plain \o Leave, a)} :
                  a \in ends, e \in Ascending}
    \cup {TailTry(a, b) : a \in inner, b \in ends}

Fragments1 == Fragments({Plain, RaiseIf})
Fragments2 == Fragments(Fragments1)
Tails1     == Tails(Fragments1, {Plain \o Leave, TailCall})
Tails2     == Tails({Plain, Try(Plain, Plain)}, Tails1)

-----------------------------------------------------------------------------
(* A compilation unit is a sequence of functions and its own code; a function
   of several arguments starts with GRAB, and has a RESTART before it. *)
Fun(grabs, body) == [grabs |-> grabs,
                     body  |-> (IF grabs THEN <<I("GRAB", <<>>)>> ELSE <<>>) \o body]
Unit(fns, body)     == [fns |-> fns, body |-> body]

Laid(f) == (IF f.grabs THEN <<I("RESTART", <<>>)>> ELSE <<>>) \o f.body

\* The unit's code from instruction `base' on, with targets made absolute.
Placed(u, base) ==
  LET texts  == [k \in DOMAIN u.fns |-> Laid(u.fns[k])]
      all    == Sequence!FlattenSeq(texts)
      whole  == (IF u.fns = <<>> THEN <<>> ELSE Go(Len(all) + 1) \o all) \o u.body
      ends   == [k \in DOMAIN u.fns |-> base + 1 + Len(Sequence!FlattenSeq(SubSeq(texts, 1, k)))]
      starts == [k \in DOMAIN u.fns |-> ends[k] - Len(u.fns[k].body)]
  IN [i \in DOMAIN whole |->
        [op    |-> whole[i].op,
         dests |-> [k \in DOMAIN whole[i].rel |->
                      IF whole[i].op = "CLOSURE" THEN starts[whole[i].rel[k]]
                      ELSE base + i - 1 + whole[i].rel[k]]]]

Stop == <<[op |-> "STOP", dests |-> <<>>]>>
Linked1(u)    == Placed(u, 0) \o Stop
Linked2(u, v) == Placed(u, 0) \o Placed(v, Len(Placed(u, 0))) \o Stop

-----------------------------------------------------------------------------
\* One function of any shape, closed over by the main code
OneFunction == {Linked1(Unit(<<Fun(r, b)>>, Make(<<1>>) \o Plain)) :
                  r \in BOOLEAN, b \in Tails1 \cup Tails2 \cup {f \o Leave : f \in Fragments2}}

\* Main code of any shape, once a conditional has been met
AnyMain == {Linked1(Unit(<<>>, RaiseIf \o b)) : b \in Fragments2}

\* Several functions, nested and mutually recursive ones, and two units
Nested ==
  {Linked1(Unit(<<Fun(FALSE, Plain \o Make(<<2>>) \o Leave), Fun(TRUE, b), Fun(r, Plain \o Leave)>>,
                Make(<<1>>) \o Make(<<3>>) \o m)) : b \in Tails1, r \in BOOLEAN, m \in {Plain, RaiseIf}}
Mutual ==
  {Linked1(Unit(<<Fun(r, a), Fun(r, b)>>, Make(<<1, 2>>) \o Plain)) :
     r \in BOOLEAN, a \in {Leave, TailIf(Leave, Leave)}, b \in Tails1}
\* A closure the compiler dropped as dead leaves its function without a reference.
Unreferenced ==
  {Linked1(Unit(<<Fun(FALSE, Leave), Fun(FALSE, b)>>, Make(<<1>>) \o m)) :
     b \in Tails1, m \in {Plain, RaiseIf}}
TwoUnits ==
  {Linked2(Unit(<<Fun(FALSE, Leave)>>, Make(<<1>>) \o m), Unit(<<Fun(r, b)>>, Make(<<1>>) \o Plain)) :
     m \in {Plain, RaiseIf, IfElse(Plain, Plain), Try(Plain, Plain)}, r \in BOOLEAN, b \in Tails1}

\* As is this one, and in a unit linked after a conditional it stays in the main
\* code until its blocks turn out to have no predecessors.
UnreferencedAlone ==
  {Linked2(Unit(<<>>, m), Unit(<<Fun(FALSE, b)>>, Plain)) :
     m \in {RaiseIf, IfElse(Plain, Plain)}, b \in Tails1}

MCPrograms == OneFunction \cup AnyMain \cup Nested \cup Mutual \cup Unreferenced
                \cup UnreferencedAlone \cup TwoUnits

-----------------------------------------------------------------------------
(* Programs initFunction cuts short. *)

\* function A -> 1 | B -> 2 | C -> 1: the last entry is not the highest.
MCSharedArm ==
  {Linked1(Unit(<<Fun(r, TailMatch(<<1, 2, 1>>, Plain \o Leave, a))>>, Make(<<1>>) \o Plain)) :
     r \in BOOLEAN, a \in Tails1}
=============================================================================

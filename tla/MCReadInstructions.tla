------------------------- MODULE MCReadInstructions -------------------------
(* Programs of up to three instructions, with targets in both directions, the
   instruction itself included. *)
EXTENDS ReadInstructions

LOCAL Sequence == INSTANCE SequencesExt

Inst(op, args, targets, blocks) == [op |-> op, args |-> args, targets |-> targets, blocks |-> blocks]

NoTarget == {Inst("PUSH", <<>>, <<>>, 0), Inst("ACC", <<9>>, <<>>, 0), Inst("GETPUBMET", <<7, 0>>, <<>>, 0)}

\* Instructions whose targets are in I, with tables of at most n entries
Shapes(I, n) ==
  NoTarget
    \cup {Inst("BRANCH", <<>>, <<t>>, 0) : t \in I}
    \cup {Inst("BEQ", <<5>>, <<t>>, 0) : t \in I}
    \cup {Inst("CLOSURE", <<2>>, <<t>>, 0) : t \in I}
    \cup UNION {{Inst("CLOSUREREC", <<1>>, ts, 0) : ts \in [1..k -> I]} : k \in 1..n}
    \cup UNION {{Inst("SWITCH", <<>>, ts, b) : ts \in [1..k -> I], b \in 0..k} : k \in 1..n}

\* Programs end in an instruction without an operand, as STOP is.
Ended(p) == Append(p, Inst("PUSH", <<>>, <<>>, 0))

MCPrograms ==
  {Ended(<<a>>) : a \in Shapes(0..1, 3)}
    \cup {Ended(<<a, b>>) : a \in Shapes(0..2, 2), b \in Shapes(0..2, 2)}
    \cup {Ended(<<a, b, c>>) : a \in Shapes({3}, 1), b \in Shapes({0, 3}, 2), c \in Shapes({0, 2}, 1)}

-----------------------------------------------------------------------------
Address(p, i) ==
  Sequence!FoldSeq(LAMBDA inst, sum : sum + Words(inst), 0, SubSeq(p, 1, i))

Text(p) ==
  LET Encoding(k) ==
        LET inst  == p[k]
            table == Address(p, k - 1) + Before(inst)
        IN <<inst.op>> \o Operands(inst)
             \o [j \in 1..Len(inst.targets) |-> Address(p, inst.targets[j]) - table]
  IN Sequence!FlattenSeq([k \in 1..Len(p) |-> Encoding(k)])

File(p) ==
  LET text == Text(p)
  IN [program |-> p, address |-> [i \in 0..Len(p) |-> Address(p, i)],
      Tab |-> [w \in 0..Len(text) - 1 |-> text[w + 1]], Size |-> Len(text)]

MCFiles == {File(p) : p \in MCPrograms}
=============================================================================

------------------------------ MODULE GetDynMet ------------------------------
(***************************************************************************)
(* Method lookup by name, src/StdLib/CStdLib.c: getDynMet searches the     *)
(* method table of an object for a label, and getPubMet comes to it with   *)
(* the object in Accu.  The table holds methods and labels in turn, sorted *)
(* by label, so the bounds of the search are odd indices of words; its     *)
(* first word is the number of methods n as an OCaml integer, 2n + 1,      *)
(* which also is the index of the last label.                              *)
(***************************************************************************)
EXTENDS Integers, Sequences

CONSTANT Tables   \* the tables of objects: the labels of the methods each has

\* OCaml lays out a table with its labels in increasing order.
ASSUME TablesAssumption ==
  \A t \in Tables : t \in Seq(Int) /\ \A i, j \in 1..Len(t) : i < j => t[i] < t[j]

VARIABLES
  want,     \* the label the program asks for
  stack,    \* the words the instruction pushed or found: the object is on top
  Accu,     \* an object, a label as an OCaml integer, or a method
  li, hi,   \* indices of words of the table
  pc        \* "getPubMet", "getDynMet", "search" or "found"

vars == <<want, stack, Accu, li, hi, pc>>

Val_int(n) == 2 * n + 1

Method(label) == [method |-> label]

\* Word w of the method table of t
Field(t, w) ==
  IF w = 0 THEN Val_int(Len(t))
  ELSE IF w % 2 = 1 THEN Val_int(t[w \div 2])
  ELSE Method(t[w \div 2])

(* GETDYNMET finds the object on the stack and the label in Accu; the operand
   of GETPUBMET is the label.  A well-typed program asks for methods there are. *)
Init ==
  /\ \E t \in Tables :
       /\ want \in {t[i] : i \in 1..Len(t)}
       /\ \/ pc = "getPubMet" /\ stack = <<>> /\ Accu = t
          \/ pc = "getDynMet" /\ stack = <<t>> /\ Accu = Val_int(want)
  /\ li = 0 /\ hi = 0

getPubMet ==
  /\ pc = "getPubMet"
  /\ stack' = <<Accu>> \o stack
  /\ Accu' = Val_int(want)
  /\ pc' = "getDynMet"
  /\ UNCHANGED <<want, li, hi>>

\* Mutant: the number of methods is taken for the index of the last label.
getDynMet_untagged ==
  /\ pc = "getDynMet"
  /\ li' = 3 /\ hi' = Len(Head(stack))
  /\ pc' = "search"
  /\ UNCHANGED <<want, stack, Accu>>

getDynMet ==
  /\ pc = "getDynMet"
  /\ li' = 3 /\ hi' = Field(Head(stack), 0)
  /\ pc' = "search"
  /\ UNCHANGED <<want, stack, Accu>>

SetLowBit(n) == IF n % 2 = 0 THEN n + 1 ELSE n     \* n | 1

\* Mutant: an even middle is rounded down to the label before it.
Middle_rounded_down(lo, up) == SetLowBit((lo + up) \div 2 - 1)

Middle(lo, up) == SetLowBit((lo + up) \div 2)

\* Mutant: the label in the middle goes to the left half.
GoesLeft_on_equal(label, word) == label <= word

GoesLeft(label, word) == label < word

Search ==
  /\ pc = "search" /\ li < hi
  /\ LET mi == Middle(li, hi)
     IN IF GoesLeft(Accu, Field(Head(stack), mi))
        THEN hi' = mi - 2 /\ li' = li
        ELSE li' = mi /\ hi' = hi
  /\ UNCHANGED <<want, stack, Accu, pc>>

Found ==
  /\ pc = "search" /\ li >= hi
  /\ Accu' = Field(Head(stack), li - 1)
  /\ pc' = "found"
  /\ UNCHANGED <<want, stack, li, hi>>

Next == getPubMet \/ getDynMet \/ Search \/ Found

Spec == Init /\ [][Next]_vars

-----------------------------------------------------------------------------
(* The label that is searched always lies between the bounds, and so inside the
   table: the search neither loses it nor reads a word of the table that is not
   a label. *)
Brackets ==
  pc = "search" =>
    /\ li % 2 = 1 /\ hi % 2 = 1
    /\ 3 <= li /\ hi <= Field(Head(stack), 0)
    /\ \E w \in li..hi : w % 2 = 1 /\ Field(Head(stack), w) = Val_int(want)

\* What is called in the end is the method of that name.
FindsMethod == pc = "found" => Accu = Method(want)

(* Every turn of the loop brings the bounds nearer, since the middle is above
   the lower one and not above the upper one, with two labels left too. *)
Narrows == pc = "search" /\ li < hi => li < Middle(li, hi) /\ Middle(li, hi) <= hi
=============================================================================

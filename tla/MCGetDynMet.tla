----------------------------- MODULE MCGetDynMet -----------------------------
(* Tables of up to eight methods, with labels of both signs and gaps. *)
EXTENDS GetDynMet

MCLabels == <<-9, -3, -2, 0, 1, 4, 5, 11>>

MCTables == {SelectSeq(MCLabels, LAMBDA label : label \in L) :
               L \in SUBSET {MCLabels[i] : i \in 1..Len(MCLabels)}}
=============================================================================

--------------------------- MODULE MCStackGrowth ---------------------------
(* A stack that doubles once, from the smallest size StackAssumption allows,
   and overflows when it would have to again. *)
EXTENDS StackGrowth

MCSizes == {InitSize, 2 * InitSize}
=============================================================================

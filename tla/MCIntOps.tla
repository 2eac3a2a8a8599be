------------------------------ MODULE MCIntOps ------------------------------
(* Words of five bits, so that int runs from -8 to 7. *)
EXTENDS IntOps

MCImmediates == {-8, -1, 0, 3, 7}
=============================================================================

---------------------------- MODULE MCReversals ----------------------------
(* TLC instance of Reversals. *)
EXTENDS Reversals, TLC
Symmetry == Permutations(Deliveries)
=============================================================================

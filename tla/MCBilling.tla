----------------------------- MODULE MCBilling -----------------------------
(* TLC instance of Billing. *)
EXTENDS Billing, TLC
Symmetry == Permutations(Jobs)
=============================================================================

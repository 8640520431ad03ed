------------------------------ MODULE MCLedger ------------------------------
(* TLC instance of Ledger. *)
EXTENDS Ledger
=============================================================================

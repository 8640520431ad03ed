------------------------------ MODULE MCIntake ------------------------------
(* TLC instance of Intake: i1 and i2 are invoices of one customer. *)
EXTENDS Intake, TLC
CONSTANTS i1, i2, c1
Owner == [i \in Invoices |-> IF i \in {i1, i2} THEN c1 ELSE Guest]
Symmetry == Permutations(Deliveries) \union Permutations({i1, i2})
=============================================================================

----------------------------- MODULE MCFlywheel -----------------------------
(* TLC instance of Flywheel. *)
EXTENDS Flywheel, TLC

CONSTANTS api, worker, o1, o2, o3, o4, o5, o6

MCProcs == {api, worker}
MCOutcomes == {o1, o2, o3, o4, o5, o6}
Alike == Permutations(MCProcs) \union Permutations(MCOutcomes)
=============================================================================

------------------------------- MODULE MCSaga -------------------------------
(* TLC instance of RecoverySaga. *)
EXTENDS RecoverySaga
=============================================================================

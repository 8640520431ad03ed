---------------------------- MODULE MCProcessors ----------------------------
(* ProcessorFlow for TLC: every adapter, two bills of one subscription.    *)
EXTENDS ProcessorFlow

EveryAdapter == Adapters
=============================================================================

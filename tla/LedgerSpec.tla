----------------------------- MODULE LedgerSpec -----------------------------
(***************************************************************************)
(* What a ledger promises (LedgerPort.append): a log that only grows at    *)
(* its end, that holds a call at most once, and that keeps the calls of    *)
(* one process in the order they were made.  HashChainedLedger, the        *)
(* in-process ledger, is this log: its append is one step.                 *)
(***************************************************************************)
EXTENDS Naturals, Sequences

CONSTANTS Writers, Calls

Events == [writer : Writers, call : 1..Calls]

VARIABLE log

Init == log = <<>>

\* A call a process skipped (it was rejected) never enters later.
AppendEvent(e) ==
  /\ \A i \in 1..Len(log) : log[i].writer = e.writer => log[i].call < e.call
  /\ log' = Append(log, e)

Next == \E e \in Events : AppendEvent(e)

Spec == Init /\ [][Next]_log
=============================================================================

----------------------------- MODULE Reversals -----------------------------
(***************************************************************************)
(* Net recovery of one invoice.                                            *)
(*                                                                         *)
(* The processor takes collected money back (refund, chargeback) and gives *)
(* it back (won dispute), and reports each by a webhook, once or more      *)
(* often, in any order.  Handling one reads the whole ledger, caps the     *)
(* amount to what the ledger still allows, and appends: two awaits, and    *)
(* nothing but a deployment that handles one webhook at a time keeps two   *)
(* of them apart.  The P&L nets what was appended.                         *)
(***************************************************************************)
EXTENDS Integers, FiniteSets

CONSTANTS
  Deliveries,    \* webhooks the processor sends at most
  Total,         \* the invoice's amount
  Recoveries     \* how often case.recovered is appended at most

ASSUME AmountAssumption == Total \in Nat \ {0} /\ Recoveries \in Nat \ {0}

Kinds == {"payment.reversed", "payment.reversal_reverted"}
NoBooking == 0

VARIABLES
  serial,      \* is one webhook handled at a time
  held,        \* how much of the invoice the merchant has
  event,       \* per delivery: what it reports
  pc,          \* per delivery: future, queued, append, acked
  booking,     \* per delivery: the capped amount its handler is appending
  recovered,   \* the sum of the invoice's case.recovered entries
  reversed,    \*                        case.reversed
  reverted,    \*                        case.reversal_reverted
  history      \* what happened that is no fault of the handlers

vars == <<serial, held, event, pc, booking, recovered, reversed, reverted, history>>

Incidents == {"repeated", "early", "overlapped", "reinstated"}

Note(incident, happened) ==
  history' = IF happened THEN history \union {incident} ELSE history

Init ==
  /\ serial \in BOOLEAN
  /\ held = Total
  /\ event = [d \in Deliveries |-> [kind |-> "payment.reversed", amount |-> Total]]
  /\ pc = [d \in Deliveries |-> "future"]
  /\ booking = [d \in Deliveries |-> NoBooking]
  /\ recovered = 0 /\ reversed = 0 /\ reverted = 0
  /\ history = {}

Handling == {d \in Deliveries : pc[d] = "append"}
Waiting == {d \in Deliveries : pc[d] \in {"queued", "append"}}

-----------------------------------------------------------------------------
(* The processor, and the saga.                                            *)

Send(d, kind, a) ==
  /\ pc[d] = "future"
  /\ pc' = [pc EXCEPT ![d] = "queued"]
  /\ event' = [event EXCEPT ![d] = [kind |-> kind, amount |-> a]]
  /\ UNCHANGED <<serial, booking, recovered, reversed, reverted>>

TakeBack(d) ==
  \E a \in 1..held :
    /\ Send(d, "payment.reversed", a)
    /\ held' = held - a
    /\ Note("overlapped", Waiting # {})

GiveBack(d) ==
  \E a \in 1..Total - held :
    /\ Send(d, "payment.reversal_reverted", a)
    /\ held' = held + a
    /\ history' = history \union {"reinstated"}
                          \union (IF Waiting # {} THEN {"overlapped"} ELSE {})

\* The processor sends a webhook again, answered or not.
Redeliver(d) ==
  \E sent \in Deliveries :
    /\ pc[sent] # "future"
    /\ Send(d, event[sent].kind, event[sent].amount)
    /\ Note("repeated", TRUE)
    /\ UNCHANGED held

\* The saga ledgers the recovery: never, if the merchant collected by other means,
\* and more than once, if a try that timed out goes on beside its successor.
Recover ==
  /\ recovered < Recoveries * Total
  /\ recovered' = recovered + Total
  /\ Note("repeated", recovered > 0)
  /\ UNCHANGED <<serial, held, event, pc, booking, reversed, reverted>>

-----------------------------------------------------------------------------
(* The handlers.                                                           *)

netRecoveredForInvoice == recovered - reversed
netReversedForInvoice == reversed - reverted

NetFor(kind) ==
  IF kind = "payment.reversed" THEN netRecoveredForInvoice ELSE netReversedForInvoice

\* Bugs: no cap; and all that is left, whatever the webhook reports.
Uncapped(amount, net) == amount
AllThatIsLeft(amount, net) == net

Capped(amount, net) == IF amount <= net THEN amount ELSE net

MayRead(d) == pc[d] = "queued" /\ (serial => Handling = {})

Early(d) == recovered = 0 /\ event[d].kind = "payment.reversed"

\* Nothing of ours to reverse, or to reinstate.
Ignore(d) ==
  /\ MayRead(d) /\ NetFor(event[d].kind) <= 0
  /\ pc' = [pc EXCEPT ![d] = "acked"]
  /\ Note("early", Early(d))
  /\ UNCHANGED <<serial, held, event, booking, recovered, reversed, reverted>>

\* The bug of a missing check for a net of zero or less.
ReadNetUnchecked(d) ==
  /\ MayRead(d)
  /\ pc' = [pc EXCEPT ![d] = "append"]
  /\ booking' = [booking EXCEPT ![d] = Capped(event[d].amount, NetFor(event[d].kind))]
  /\ UNCHANGED <<serial, held, event, recovered, reversed, reverted, history>>

ReadNet(d) ==
  /\ MayRead(d) /\ NetFor(event[d].kind) > 0
  /\ pc' = [pc EXCEPT ![d] = "append"]
  /\ booking' = [booking EXCEPT ![d] = Capped(event[d].amount, NetFor(event[d].kind))]
  /\ UNCHANGED <<serial, held, event, recovered, reversed, reverted, history>>

\* The append is stored; its answer, or the webhook's, may be lost, and the processor
\* asks again.
AppendEntry(d) ==
  /\ pc[d] = "append"
  /\ IF event[d].kind = "payment.reversed"
     THEN reversed' = reversed + booking[d] /\ UNCHANGED reverted
     ELSE reverted' = reverted + booking[d] /\ UNCHANGED reversed
  /\ booking' = [booking EXCEPT ![d] = NoBooking]
  /\ \/ pc' = [pc EXCEPT ![d] = "acked"] /\ UNCHANGED history
     \/ pc' = [pc EXCEPT ![d] = "queued"] /\ Note("repeated", TRUE)
  /\ UNCHANGED <<serial, held, event, recovered>>

\* The append is rejected, or the process dies before it: the webhook comes again.
AppendFails(d) ==
  /\ pc[d] = "append"
  /\ pc' = [pc EXCEPT ![d] = "queued"]
  /\ booking' = [booking EXCEPT ![d] = NoBooking]
  /\ UNCHANGED <<serial, held, event, recovered, reversed, reverted, history>>

Next ==
  \/ Recover
  \/ \E d \in Deliveries :
       \/ TakeBack(d) \/ GiveBack(d) \/ Redeliver(d)
       \/ Ignore(d) \/ ReadNet(d) \/ AppendEntry(d) \/ AppendFails(d)

Spec == Init /\ [][Next]_vars
-----------------------------------------------------------------------------
\* What the P&L reports as recovered.
NetRecovery == recovered - reversed + reverted

\* The variables keep their types: a handler books nothing less than one unit.
TypeOK ==
  /\ serial \in BOOLEAN
  /\ held \in 0..Total
  /\ event \in [Deliveries -> [kind : Kinds, amount : 1..Total]]
  /\ pc \in [Deliveries -> {"future", "queued", "append", "acked"}]
  /\ booking \in [Deliveries -> 0..Total]
  /\ \A d \in Handling : booking[d] > 0
  /\ recovered \in Nat /\ reversed \in Nat /\ reverted \in Nat
  /\ history \subseteq Incidents

\* Handled one at a time, no series of refunds, redeliveries and won disputes reverses
\* more than was recovered or reinstates more than was reversed: the net the P&L bills
\* on stays between nothing and what was recovered.
CapsHold ==
  serial =>
    /\ reversed <= recovered /\ reverted <= reversed
    /\ 0 <= NetRecovery /\ NetRecovery <= recovered

\* Not even handlers that race claw back a fee for an invoice AX10M did not recover, or
\* reinstate what was never reversed.
UnearnedIsNeverClawedBack ==
  /\ reversed > 0 => recovered > 0
  /\ reverted > 0 => reversed > 0

\* Refunds reported once each and after the recovery, even handled at the same time,
\* leave as net recovery exactly what the merchant still has of the invoice.
RefundsAreExact ==
  (history \subseteq {"overlapped"} /\ Waiting = {} /\ recovered = Total)
    => NetRecovery = held

\* What the comment of recordReversal says: never claw back more fee than we earned.
NeverOverReversed == reversed <= recovered
=============================================================================

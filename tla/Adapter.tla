------------------------------ MODULE Adapter ------------------------------
(***************************************************************************)
(* The contract of a processor adapter, and the words its operations are   *)
(* written in: a native object is a record that has some of its fields, an *)
(* id is a tuple, an amount a number of units.                             *)
(*                                                                         *)
(* A webhook comes here when its signature or password has been verified;  *)
(* what fails that, or does not parse, is refused before anything happens. *)
(***************************************************************************)
EXTENDS Integers, Sequences, SequencesExt, FiniteSets, TLC

None == <<>>    \* an id that is missing

\* An object of one field, and the fields of one object with those only the other has.
Only(field, value) == [f \in {field} |-> value]
n ++ m == [f \in DOMAIN n \cup DOMAIN m |-> IF f \in DOMAIN n THEN n[f] ELSE m[f]]

\* a ?? b ?? c over the fields of a native object.
FirstOf(n, chain, default) ==
  LET i == SelectInSeq(chain, LAMBDA f : f \in DOMAIN n)
  IN IF i = 0 THEN default ELSE n[chain[i]]

Ref(n, chain) == FirstOf(n, chain, None)
Amount(n, chain) == FirstOf(n, chain, 0)

-----------------------------------------------------------------------------
(* Canonical invoices and events.  A ref stands for ax10m_inv_<ref>, whose  *)
(* prefix keeps what differs apart; the id of an event is processorEventId. *)

InvoiceFor(ref, customer) == [ref |-> ref, customer |-> customer]

\* The customer whose methods are listed: the one of the invoice, without its prefix.
CustomerFromInvoice(invoice) == invoice.customer

CanonicalEvent(type, id, ref, amount, kind, customer) ==
  [type |-> type, id |-> id, invoice |-> ref, amount |-> amount, kind |-> kind,
   customer |-> customer]

Failed(id, invoice, decline) ==
  CanonicalEvent("invoice.failed", id, invoice.ref, 0, decline, CustomerFromInvoice(invoice))
Paid(id, invoice) == CanonicalEvent("invoice.paid", id, invoice.ref, 0, "-", None)
Refunded(id, ref, amount) == CanonicalEvent("payment.reversed", id, ref, amount, "refund", None)
ChargedBack(id, ref, amount) ==
  CanonicalEvent("payment.reversed", id, ref, amount, "chargeback", None)
Reinstated(id, ref, amount) ==
  CanonicalEvent("payment.reversal_reverted", id, ref, amount, "chargeback", None)
MethodUpdated(id) == CanonicalEvent("payment_method.updated", id, None, 0, "-", None)
SubscriptionUpdated(id) == CanonicalEvent("subscription.updated", id, None, 0, "-", None)

When(condition, event) == IF condition THEN {event} ELSE {}

EventTypes == {"invoice.failed", "invoice.paid", "payment.reversed", "payment.reversal_reverted"}

-----------------------------------------------------------------------------
(* Charges.  A request names what is charged and how; a result is the       *)
(* outcome the saga sees, or that the call threw and will be tried again.   *)

Request(charges, method, reference, key) ==
  [charges |-> charges, method |-> method, reference |-> reference, key |-> key]

Default == <<"default">>    \* whatever method the processor has on file

Result(outcome, replay) == [outcome |-> outcome, replay |-> replay]
Throws == Result("throws", FALSE)

-----------------------------------------------------------------------------
(* What an adapter can do, and what the base class does for one that says   *)
(* nothing else.                                                            *)

CapabilityMatrix(mode, can) == [mode |-> mode, can |-> can]

BaseIngest(n) == {}
BaseCharge(a) == Throws
BaseMethods(stored) == {}
BaseUpdatedCard(method, source) == {}
BaseOpenFailures(rows) == {}
=============================================================================

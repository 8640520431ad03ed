-------------------------- MODULE BillingAdapters --------------------------
(***************************************************************************)
(* The adapters of the subscription billers: Stripe, Chargebee, Recurly,   *)
(* Zuora, Maxio and GoCardless.  For each: what it can do, what a native   *)
(* webhook becomes, what a charge asks of the processor, what the client's *)
(* answer means, which invoices it lists as open failures, and the methods *)
(* it offers, each under its id.                                           *)
(***************************************************************************)
EXTENDS Clients, Declines

-----------------------------------------------------------------------------
(* Stripe                                                                  *)

StripeCapabilities == CapabilityMatrix("drive",
  {"retry", "updater", "tokens", "partial", "pause", "webhooks", "methods"})

StripeInvoice(n) == InvoiceFor(n.invoice_id, Ref(n, <<"customer">>))
StripeChargeInvoice(n) == InvoiceFor(Ref(n, <<"invoice", "charge">>), Ref(n, <<"customer">>))

\* A failed lookup of the disputed charge is taken for a charge without invoice.
StripeDisputed(n, lookup) ==
  IF lookup /\ n.amount > 0 THEN Ref(n, <<"invoice">>) ELSE None

StripeIngest(n, lookup) ==
  CASE n.event = "invoice.payment_failed" -> {Failed(n.id, StripeInvoice(n), StripeDecline(n))}
    [] n.event \in {"invoice.payment_succeeded", "invoice.paid"} ->
         {Paid(n.id, StripeInvoice(n))}
    [] n.event = "charge.failed" -> {Failed(n.id, StripeChargeInvoice(n), StripeDecline(n))}
    [] n.event = "charge.succeeded" -> {Paid(n.id, StripeChargeInvoice(n))}
    [] n.event = "charge.refunded" ->
         LET amount == Amount(n, <<"newest", "amount_refunded">>)
         IN When(Ref(n, <<"invoice">>) # None /\ amount > 0,
                 Refunded(n.id, Ref(n, <<"invoice">>), amount))
    [] n.event = "charge.dispute.created" ->
         When(StripeDisputed(n, lookup) # None,
              ChargedBack(n.id, StripeDisputed(n, lookup), n.amount))
    [] n.event = "charge.dispute.closed" ->
         When(n.status = "won" /\ StripeDisputed(n, lookup) # None,
              Reinstated(n.id, StripeDisputed(n, lookup), n.amount))
    [] OTHER -> {}

StripeRequest(invoice, method, key) == Request(invoice, method, None, key)

StripeCharge(a) ==
  LET paid == Field(a, "paid") = "true" \/ Field(a, "status") = "paid"
  IN Outcome(a, paid, Field(a, "status") = "open", StripeCardError(a))

StripeOpenFailures(rows) == {StripeInvoice(inv) : inv \in {r \in rows : r.status = "open"}}

StripeMethod(pm) == pm.id
StripeMethods(stored) == {StripeMethod(pm) : pm \in stored}

-----------------------------------------------------------------------------
(* Chargebee                                                               *)

ChargebeeCapabilities == CapabilityMatrix("drive",
  {"retry", "updater", "tokens", "partial", "pause", "webhooks", "methods"})

\* The bug of an event that goes by its subscription.
ChargebeeSubscription(n) ==
  InvoiceFor(Ref(n, <<"subscription", "invoice">>), Ref(n, <<"customer">>))
ChargebeeInvoice(n) == InvoiceFor(Ref(n, <<"invoice">>), Ref(n, <<"customer">>))

ChargebeeIngest(n) ==
  LET invoice == ChargebeeInvoice(n) IN
  CASE n.event = "payment_failed" ->
         When(invoice.ref # None, Failed(n.id, invoice, ChargebeeDecline(n)))
    [] n.event = "payment_succeeded" -> When(invoice.ref # None, Paid(n.id, invoice))
    [] n.event = "payment_refunded" ->
         When(invoice.ref # None /\ "amount" \in DOMAIN n /\ n.amount > 0
                /\ FirstOf(n, <<"txn_type">>, "refund") = "refund",
              Refunded(n.id, invoice.ref, n.amount))
    [] n.event \in {"card_updated", "payment_source_updated"} ->
         When(Ref(n, <<"payment_source">>) # None, MethodUpdated(n.id))
    [] n.event \in {"subscription_changed", "subscription_cancelled", "subscription_reactivated"} ->
         When(Ref(n, <<"subscription">>) # None, SubscriptionUpdated(n.id))
    [] OTHER -> {}

ChargebeeRequest(invoice, method, key) == Request(invoice, method, None, key)

ChargebeeCharge(a) ==
  Outcome(a, Field(a, "txn_status") = "success", Field(a, "txn_status") = "failure",
          ChargebeePaymentFailure(a))

ChargebeeOpenFailures(rows) ==
  {ChargebeeInvoice(inv) : inv \in {r \in rows : r.status \in {"payment_due", "not_paid"}}}

\* The id of a source is its token, also when the card in it has changed.
ChargebeeMethod(source) == source.id
ChargebeeUpdatedCard(method, source) ==
  IF source.expiry # method.expiry THEN {ChargebeeMethod(source)} ELSE {}

ChargebeeMethods(stored) == {ChargebeeMethod(source) : source \in stored}

-----------------------------------------------------------------------------
(* Recurly                                                                 *)

RecurlyCapabilities == CapabilityMatrix("co-drive",
  {"retry", "updater", "tokens", "pause", "webhooks", "methods"})

\* The bug that reports a refund with the total of its invoice.
RecurlyNotificationTotal(n) ==
  [type |-> n.event,
   invoiceId |-> Ref(n, <<"uuid", "number", "txn_invoice_id", "txn_invoice_number">>),
   transactionId |-> Ref(n, <<"txn_uuid", "txn_id">>),
   amount |-> Amount(n, <<"total", "txn_amount">>)]

\* A refund notification has no invoice block: the transaction names the invoice.
RecurlyNotification(n) ==
  [type |-> n.event,
   invoiceId |-> Ref(n, <<"uuid", "number", "txn_invoice_id", "txn_invoice_number">>),
   transactionId |-> Ref(n, <<"txn_uuid", "txn_id">>),
   amount |-> Amount(n, <<"txn_amount", "total">>)]

RecurlyNotificationInvoice(n, note) == InvoiceFor(note.invoiceId, Ref(n, <<"account_code">>))

RecurlyIngest(n) ==
  LET note == RecurlyNotification(n)
      invoice == RecurlyNotificationInvoice(n, note)
      id == IF note.transactionId # None THEN note.transactionId ELSE note.invoiceId
  IN CASE note.type \in {"failed_payment_notification", "failed_charge"} ->
            {Failed(id, invoice, RecurlyDecline(n))}
       [] note.type \in {"successful_payment_notification", "paid_charge"} ->
            {Paid(id, invoice)}
       [] note.type = "successful_refund_notification" ->
            When(note.invoiceId # None /\ note.amount > 0,
                 Refunded(id, note.invoiceId, note.amount))
       [] note.type = "canceled_subscription_notification" ->
            When(Ref(n, <<"subscription">>) # None, SubscriptionUpdated(id))
       [] OTHER -> {}

\* An empty transaction: the account's billing info is charged.
RecurlyRequest(invoice, method, key) == Request(invoice, Default, None, key)

\* The invoice and the last of its transactions.
RecurlyCharge(a) ==
  Outcome(a, Field(a, "state") = "paid" \/ Field(a, "txn_status") = "success",
          Field(a, "txn_status") \in {"declined", "error"}, RecurlyPaymentFailure(a))

RecurlyInvoice(inv) ==
  InvoiceFor(Ref(inv, <<"uuid", "id", "number">>), Ref(inv, <<"account_code", "account_id">>))
RecurlyOpenFailures(rows) == {RecurlyInvoice(inv) : inv \in {r \in rows : r.state = "past_due"}}

\* A billing info goes by its id, and by its gateway token if it has none.
RecurlyMethod(info) == IF "id" \in DOMAIN info THEN info.id ELSE info.gateway_token
RecurlyMethods(stored) == {RecurlyMethod(info) : info \in stored}

-----------------------------------------------------------------------------
(* Zuora                                                                   *)

ZuoraCapabilities == CapabilityMatrix("co-drive", {"retry", "partial", "webhooks"})

ZuoraCalloutInvoice(n) == InvoiceFor(Ref(n, <<"invoice">>), Ref(n, <<"accountId">>))

ZuoraIngest(n) ==
  LET id == Ref(n, <<"payment", "invoice">>)
      invoice == ZuoraCalloutInvoice(n)
  IN CASE n.event \in {"paymentfailed", "payment_failed", "paymenterror"} ->
            {Failed(id, invoice, ZuoraDecline(n))}
       [] n.event \in {"paymentprocessed", "payment_processed", "paymentsuccess"} ->
            {Paid(id, invoice)}
       [] n.event \in {"subscriptioncancel", "subscription_cancel"} ->
            When(Ref(n, <<"subscription">>) # None, SubscriptionUpdated(id))
       [] OTHER -> {}

ZuoraRequest(invoice, method, key) == Request(invoice, method, None, key)

\* HTTP 200 with success = false is an error, as a failed call is.
ZuoraCharge(a) ==
  IF Field(a, "success") = "false" THEN Throws
  ELSE Outcome(a, Field(a, "status") = "Processed",
               Field(a, "status") \in {"Error", "Declined"}, FALSE)

\* An invoice stays posted when it is paid: what it still owes tells.
ZuoraInvoice(inv) == InvoiceFor(Ref(inv, <<"invoice">>), Ref(inv, <<"accountId">>))
ZuoraOpenFailures(rows) ==
  {ZuoraInvoice(inv) :
     inv \in {r \in rows : r.status = "Posted" /\ Amount(r, <<"balance", "amount">>) > 0}}

-----------------------------------------------------------------------------
(* Maxio                                                                   *)

MaxioCapabilities == CapabilityMatrix("drive", {"retry", "updater", "partial", "webhooks"})

\* There is no invoice on the wire: the subscription stands for its open balance.
MaxioInvoice(n) == InvoiceFor(Ref(n, <<"subscription">>), Ref(n, <<"customer">>))

MaxioIngest(n) ==
  LET id == Ref(n, <<"webhook_id", "transaction", "subscription", "event_id", "refund_id">>) IN
  CASE n.event = "payment_failure" -> {Failed(id, MaxioInvoice(n), MaxioDecline(n))}
    [] n.event \in {"payment_success", "renewal_success"} -> {Paid(id, MaxioInvoice(n))}
    [] n.event = "refund_success" ->
         LET subscription == Ref(n, <<"subscription_id">>)
             amount == Amount(n, <<"amount_in_cents">>)
         IN When(subscription # None /\ amount > 0, Refunded(id, subscription, amount))
    [] n.event \in {"subscription_state_change", "subscription_canceled"} ->
         When(Ref(n, <<"subscription">>) # None, SubscriptionUpdated(id))
    [] OTHER -> {}

MaxioRequest(invoice, method, key) == Request(invoice, Default, None, key)

MaxioCharge(a) ==
  Result(Outcome(a, Field(a, "state") = "active", FALSE, MaxioPaymentFailure(a)).outcome, FALSE)

MaxioOpenFailures(rows) == {MaxioInvoice(s) : s \in {r \in rows : r.state = "past_due"}}

-----------------------------------------------------------------------------
(* GoCardless                                                              *)

GoCardlessCapabilities(disableSuccessPlus) ==
  CapabilityMatrix(IF disableSuccessPlus THEN "drive" ELSE "co-drive",
                   {"retry", "pause", "webhooks", "methods"})

\* The payment is the invoice, and its whole amount what a reversal moves.
GoCardlessInvoice(p) == InvoiceFor(p.payment, Ref(p, <<"customer">>))

GoCardlessReversal(n) ==
  IF n.event = "charged_back"
  THEN ChargedBack(n.id, n.payment, n.payment_amount)
  ELSE Refunded(n.id, n.payment, n.payment_amount)
GoCardlessReverted(n) == Reinstated(n.id, n.payment, n.payment_amount)

GoCardlessPayment(n) ==
  IF n.event = "failed" THEN Failed(n.id, GoCardlessInvoice(n), GoCardlessDecline(n))
                        ELSE Paid(n.id, GoCardlessInvoice(n))

\* An event whose payment cannot be fetched is left out, and the rest answered.
GoCardlessIngest(n, lookup) ==
  IF ~lookup \/ Ref(n, <<"payment">>) = None THEN {}
  ELSE CASE n.event \in {"charged_back", "refunded"} -> {GoCardlessReversal(n)}
         [] n.event = "chargeback_cancelled" -> {GoCardlessReverted(n)}
         [] n.event \in {"failed", "confirmed"} -> {GoCardlessPayment(n)}
         [] OTHER -> {}

\* The failed payment is retried, on the mandate it was made with.
GoCardlessRequest(invoice, method, key) == Request(invoice, Default, None, key)

GoCardlessOutcome(status) ==
  CASE status \in {"confirmed", "paid_out"} -> "succeeded"
    [] status \in {"failed", "cancelled", "customer_approval_denied", "charged_back"} -> "failed"
    [] OTHER -> "pending"

GoCardlessCharge(a) ==
  CASE a.kind = "returned" -> Result(GoCardlessOutcome(Field(a, "status")), FALSE)
    [] a.kind = "error" /\ GoCardlessConflict(a) -> Result("pending", TRUE)
    [] OTHER -> Throws

GoCardlessOpenFailures(rows) == {GoCardlessInvoice(p) : p \in {r \in rows : r.status = "failed"}}

\* The mandates, whatever their state.
GoCardlessMethods(stored) == {mandate.id : mandate \in stored}
=============================================================================

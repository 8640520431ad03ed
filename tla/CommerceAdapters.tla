-------------------------- MODULE CommerceAdapters --------------------------
(***************************************************************************)
(* The adapters of the shops: Shopify and WooCommerce, whose own gateway   *)
(* performs the charge AX10M asks for, and the advisory ones, BigCommerce, *)
(* ThriveCart, Kajabi and SamCart, where AX10M may only watch.             *)
(***************************************************************************)
EXTENDS Clients, Declines

-----------------------------------------------------------------------------
(* Shopify                                                                 *)

ShopifyCapabilities == CapabilityMatrix("co-drive", {"retry", "updater", "tokens", "webhooks"})

\* The invoice is the object the webhook is about: an attempt, or an order.
ShopifyInvoice(n) == InvoiceFor(Ref(n, <<"payload_id">>), Ref(n, <<"customer">>))

ShopifyIngest(n) ==
  LET id == Ref(n, <<"graphql_id", "payload_id">>) IN
  CASE n.event = "subscription_billing_attempts/failure" ->
         {Failed(id, ShopifyInvoice(n), ShopifyDecline(n))}
    [] n.event \in {"subscription_billing_attempts/success", "orders/paid"} ->
         {Paid(id, ShopifyInvoice(n))}
    [] OTHER -> {}

\* The contract is billed, on the method it has.
ShopifyRequest(invoice, method, key) == Request(None, Default, invoice, key)

ShopifyCharge(a) ==
  IF Has(a, "userErrors") \/ ~Has(a, "ready") THEN Throws
  ELSE Outcome(a, /\ ~Has(a, "errorCode")
                  /\ Field(a, "ready") = "true" /\ Field(a, "status") = "SUCCESS",
               Has(a, "errorCode"), FALSE)

-----------------------------------------------------------------------------
(* WooCommerce                                                             *)

WooCapabilities == CapabilityMatrix("co-drive", {"retry", "webhooks"})

WooInvoice(order) == InvoiceFor(order.order, Ref(order, <<"customer">>))

\* refunds[] holds every refund of the order, the older ones too.
WooRefund(n) ==
  LET lines == Amount(n, <<"refunds">>)
      amount == IF lines > 0 THEN lines
                ELSE IF n.status = "refunded" THEN n.total ELSE 0
  IN When(amount > 0, Refunded(n.order, n.order, amount))

\* The order is at once the event and the invoice.
WooIngest(n) ==
  CASE n.event \in {"order.refunded", "order.updated", "order.created"} ->
         IF WooRefund(n) # {} THEN WooRefund(n)
         ELSE When(n.status = "failed", Failed(n.order, WooInvoice(n), WooDecline(n)))
              \cup When(n.status \in {"completed", "processing"}, Paid(n.order, WooInvoice(n)))
    [] n.event = "subscription.updated" -> {SubscriptionUpdated(n.order)}
    [] OTHER -> {}

WooRequest(invoice, method, key) == Request(invoice, Default, None, key)

WooOutcome(status) ==
  CASE status \in {"processing", "completed"} -> "succeeded"
    [] status = "failed" -> "failed"
    [] OTHER -> "pending"

WooCharge(a) ==
  Outcome(a, WooOutcome(Field(a, "status")) = "succeeded",
          WooOutcome(Field(a, "status")) = "failed", FALSE)

WooOpenFailures(rows) == {WooInvoice(order) : order \in {r \in rows : r.status = "failed"}}

-----------------------------------------------------------------------------
(* The advisory shops                                                      *)

AdvisoryCapabilities == CapabilityMatrix("advisory", {"webhooks"})

\* An event without an id goes by its kind and the object it is about.
EventId(n, object) == FirstOf(n, <<"id">>, <<n.event>> \o object)

BigCommerceKind(status) ==
  CASE status \in {"declined", "payment review", "failed"} -> "failed"
    [] status \in {"refunded", "partially refunded", "cancelled"} -> "churn"
    [] status \in {"completed", "paid", "awaiting fulfillment", "shipped"} -> "paid"
    [] OTHER -> "ignore"

\* Their invoices have a customer, who goes by an e-mail address if need be, and their
\* failures do not.
BigCommerceInvoice(ref, n) == InvoiceFor(ref, Ref(n, <<"customer_id", "email">>))
ThriveCartInvoice(ref, n) == InvoiceFor(ref, Ref(n, <<"customer_id", "email">>))
KajabiInvoice(ref, n) == InvoiceFor(ref, Ref(n, <<"buyer_id", "buyer_email">>))
SamCartInvoice(ref, n) == InvoiceFor(ref, Ref(n, <<"customer_id", "email">>))

AdvisoryFailed(id, invoice, decline) == [Failed(id, invoice, decline) EXCEPT !.customer = None]

BigCommerceIngest(n) ==
  LET ref == Ref(n, <<"order", "object">>)
      id == FirstOf(n, <<"hash">>, <<n.event>> \o ref \o <<n.created_at>>)
      kind == IF n.event = "store/subscription" THEN "churn"
              ELSE IF n.event = "store/order" THEN BigCommerceKind(n.status) ELSE "ignore"
      invoice == BigCommerceInvoice(ref, n)
  IN When(kind = "failed", AdvisoryFailed(id, invoice, BigCommerceDecline(n)))
       \cup When(kind = "paid", Paid(id, invoice))
       \cup When(kind = "churn", SubscriptionUpdated(id))

ThriveCartFailed(n) == FirstOf(n, <<"failed">>, "-") \in {"1", "true", "failed", "declined"}

ThriveCartIngest(n) ==
  LET ref == Ref(n, <<"order", "invoice">>)
      id == EventId(n, ref)
      failed == \/ n.event = "order.rebill_failed"
                \/ n.event = "order.subscription_payment" /\ ThriveCartFailed(n)
      paid == n.event \in {"order.subscription_payment", "order.success", "order.rebill"}
      invoice == ThriveCartInvoice(ref, n)
  IN When(failed, AdvisoryFailed(id, invoice, ThriveCartDecline(n)))
       \cup When(paid /\ ~failed, Paid(id, invoice))
       \cup When(n.event = "order.subscription_cancelled", SubscriptionUpdated(id))

KajabiIngest(n) ==
  LET ref == Ref(n, <<"data">>)
      id == EventId(n, ref)
      invoice == KajabiInvoice(ref, n)
  IN When(n.event = "payment.failed", AdvisoryFailed(id, invoice, KajabiDecline(n)))
       \cup When(n.event = "payment.succeeded", Paid(id, invoice))
       \cup When(n.event = "subscription.cancelled", SubscriptionUpdated(id))

\* A refund is taken for churn, and moves no money.
SamCartIngest(n) ==
  LET ref == Ref(n, <<"order">>)
      id == EventId(n, ref)
      invoice == SamCartInvoice(ref, n)
  IN When(n.event = "Subscription_Payment_Failed",
          AdvisoryFailed(id, invoice, SamCartDecline(n)))
       \cup When(n.event \in {"Order_Completed", "Subscription_Charge"}, Paid(id, invoice))
       \cup When(n.event \in {"Subscription_Cancelled", "Order_Refunded"}, SubscriptionUpdated(id))
=============================================================================

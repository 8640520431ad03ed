-------------------------- MODULE GatewayAdapters --------------------------
(***************************************************************************)
(* The adapters of the payment gateways: PayPal, Checkout.com, Worldpay,   *)
(* Adyen, Braintree, Elavon, TSYS and Deluxe.                              *)
(***************************************************************************)
EXTENDS Clients, Declines

-----------------------------------------------------------------------------
(* PayPal                                                                  *)

PayPalCapabilities == CapabilityMatrix("drive", {"retry", "tokens", "webhooks"})

PayPalInvoice(n) ==
  InvoiceFor(Ref(n, <<"invoice_id", "custom_id", "resource">>), Ref(n, <<"payer_id">>))

\* A refund names the capture by its rel:up link, never by its own id.
\* The bug that looks for the capture among the fields only.
PayPalRefundField(n) == Ref(n, <<"invoice_id", "custom_id">>)
PayPalRefundRef(n) == Ref(n, <<"invoice_id", "custom_id", "up">>)
PayPalDisputeRef(n) == Ref(n, <<"invoice_number", "custom", "seller_transaction_id">>)

\* A dispute may be resolved in favour of either.
\* The bug that takes any for a dispute won.
PayPalResolved(n) == n.event = "CUSTOMER.DISPUTE.RESOLVED"
PayPalWon(n) == n.outcome = "RESOLVED_SELLER_FAVOUR"

PayPalIngest(n) ==
  CASE n.event \in {"PAYMENT.CAPTURE.DENIED", "PAYMENT.SALE.DENIED",
                    "BILLING.SUBSCRIPTION.PAYMENT.FAILED"} ->
         {Failed(n.id, PayPalInvoice(n), PayPalDecline(n))}
    [] n.event \in {"PAYMENT.CAPTURE.COMPLETED", "PAYMENT.SALE.COMPLETED"} ->
         {Paid(n.id, PayPalInvoice(n))}
    [] n.event = "PAYMENT.CAPTURE.REFUNDED" ->
         When(PayPalRefundRef(n) # None /\ n.amount > 0,
              Refunded(n.id, PayPalRefundRef(n), n.amount))
    [] n.event = "CUSTOMER.DISPUTE.CREATED" ->
         When(PayPalDisputeRef(n) # None /\ n.amount > 0,
              ChargedBack(n.id, PayPalDisputeRef(n), n.amount))
    [] n.event = "CUSTOMER.DISPUTE.RESOLVED" ->
         When(PayPalWon(n) /\ PayPalDisputeRef(n) # None /\ n.amount > 0,
              Reinstated(n.id, PayPalDisputeRef(n), n.amount))
    [] n.event = "BILLING.SUBSCRIPTION.CANCELLED" -> {SubscriptionUpdated(n.id)}
    [] OTHER -> {}

\* The purchase unit has a reference_id, which no webhook of the capture repeats.
PayPalRequest(invoice, method, key) == Request(None, method, None, key)

\* The order is created and, unless that has captured it, captured; key for both.  What is
\* answered last is taken: the capture, or the order without one.
PayPalStatus(a) ==
  IF Has(a, "capture") THEN Field(a, "capture") ELSE Field(a, "order")

PayPalCharge(a) ==
  Outcome(a, PayPalStatus(a) = "COMPLETED", PayPalStatus(a) = "DECLINED", PayPalPaymentFailure(a))

-----------------------------------------------------------------------------
(* Checkout.com                                                            *)

CheckoutCapabilities == CapabilityMatrix("drive",
  {"retry", "updater", "tokens", "partial", "webhooks"})

CheckoutInvoice(n) == InvoiceFor(Ref(n, <<"reference", "payment">>), None)

CheckoutReversal(n) ==
  LET ref == CheckoutInvoice(n).ref IN
  When(ref # None /\ n.amount > 0,
       IF n.event = "payment_chargeback"
       THEN ChargedBack(n.id, ref, n.amount)
       ELSE Refunded(n.id, ref, n.amount))

CheckoutDisputeRef(n) == Ref(n, <<"payment_reference", "payment_id">>)
CheckoutDisputed(n) ==
  When(CheckoutDisputeRef(n) # None /\ n.amount > 0,
       ChargedBack(n.id, CheckoutDisputeRef(n), n.amount))
CheckoutReinstated(n) ==
  When(CheckoutDisputeRef(n) # None /\ n.amount > 0,
       Reinstated(n.id, CheckoutDisputeRef(n), n.amount))

CheckoutIngest(n) ==
  CASE n.event = "payment_declined" -> {Failed(n.id, CheckoutInvoice(n), CheckoutDecline(n))}
    [] n.event \in {"payment_captured", "payment_approved"} -> {Paid(n.id, CheckoutInvoice(n))}
    [] n.event \in {"payment_refunded", "payment_chargeback"} -> CheckoutReversal(n)
    [] n.event = "dispute_received" -> CheckoutDisputed(n)
    [] n.event \in {"dispute_won", "dispute_canceled"} -> CheckoutReinstated(n)
    [] OTHER -> {}

\* The bug of a request without its key.
CheckoutRequestNoKey(invoice, method, key) == Request(None, method, invoice, None)
CheckoutRequest(invoice, method, key) == Request(None, method, invoice, key)

CheckoutCharge(a) ==
  Outcome(a, Field(a, "status") \in {"Authorized", "Captured"}, Field(a, "status") = "Declined",
          CheckoutPaymentFailure(a))

-----------------------------------------------------------------------------
(* Worldpay                                                                *)

WorldpayCapabilities == CapabilityMatrix("drive",
  {"retry", "updater", "tokens", "partial", "webhooks"})

WorldpayInvoice(n) == InvoiceFor(Ref(n, <<"transactionReference">>), None)

WorldpayIngest(n) ==
  CASE n.event = "payment.refused" -> {Failed(n.id, WorldpayInvoice(n), WorldpayDecline(n))}
    [] n.event \in {"payment.settled", "payment.authorized"} -> {Paid(n.id, WorldpayInvoice(n))}
    [] n.event = "payment.refunded" ->
         When(WorldpayInvoice(n).ref # None /\ n.amount > 0,
              Refunded(n.id, WorldpayInvoice(n).ref, n.amount))
    [] OTHER -> {}

\* The bug of a reference made up per charge.
WorldpayRequestByKey(invoice, method, key) == Request(None, method, <<"payment", key[3]>>, key)
WorldpayRequest(invoice, method, key) == Request(None, method, invoice, key)

WorldpayCharge(a) ==
  Outcome(a, Field(a, "outcome") = "authorized", Field(a, "outcome") = "refused",
          WorldpayPaymentFailure(a))

-----------------------------------------------------------------------------
(* Adyen                                                                   *)

AdyenCapabilities == CapabilityMatrix("drive",
  {"retry", "updater", "tokens", "partial", "webhooks", "methods"})

AdyenChargebackCodes == {"CHARGEBACK", "NOTIFICATION_OF_CHARGEBACK", "SECOND_CHARGEBACK"}

AdyenReversal(n) ==
  When(n.success = "true",
       IF n.event \in AdyenChargebackCodes
       THEN ChargedBack(n.id, n.merchantReference, n.amount)
       ELSE Refunded(n.id, n.merchantReference, n.amount))
AdyenReinstated(n) ==
  When(n.success = "true", Reinstated(n.id, n.merchantReference, n.amount))

\* A notification does not say whose card it is.
AdyenInvoice(n) == InvoiceFor(n.merchantReference, None)

AdyenIngest(n) ==
  CASE n.event \in AdyenChargebackCodes \cup {"REFUND"} -> AdyenReversal(n)
    [] n.event = "CHARGEBACK_REVERSED" -> AdyenReinstated(n)
    [] n.event = "AUTHORISATION" ->
         {IF n.success = "true" THEN Paid(n.id, AdyenInvoice(n))
                                ELSE Failed(n.id, AdyenInvoice(n), AdyenDecline(n))}
    [] OTHER -> {}

\* The bug of a merchantReference that is not sent.
AdyenRequestNoReference(invoice, method, key) == Request(None, method, None, key)
AdyenRequest(invoice, method, key) == Request(None, method, invoice, key)

AdyenCharge(a) ==
  Outcome(a, Field(a, "resultCode") = "Authorised",
          Field(a, "resultCode") \in {"Refused", "Error", "Cancelled"}, FALSE)

AdyenMethod(sp) == sp.id
AdyenMethods(stored) == {AdyenMethod(sp) : sp \in stored}

-----------------------------------------------------------------------------
(* Braintree                                                               *)

BraintreeCapabilities(usesSubscriptions) ==
  CapabilityMatrix(IF usesSubscriptions THEN "co-drive" ELSE "drive",
    {"retry", "updater", "tokens", "partial", "webhooks", "methods"}
      \cup (IF usesSubscriptions THEN {"pause"} ELSE {}))

\* A webhook has no id of its own: kind, object and time stand for it.
BraintreeId(n, object) == <<n.event>> \o object \o <<n.timestamp>>

\* The subscription stands for the invoice, and nobody for the customer.
BraintreeInvoice(n) == InvoiceFor(n.subscription, None)

BraintreeDisputed(n) == n.kind = "chargeback" /\ Ref(n, <<"order">>) # None

BraintreeIngest(n) ==
  CASE n.event = "subscription_charged_unsuccessfully" ->
         {Failed(BraintreeId(n, n.subscription), BraintreeInvoice(n), BraintreeDecline(n))}
    [] n.event = "subscription_charged_successfully" ->
         {Paid(BraintreeId(n, n.subscription), BraintreeInvoice(n))}
    [] n.event = "dispute_opened" ->
         When(BraintreeDisputed(n), ChargedBack(BraintreeId(n, n.dispute), n.order, n.amount))
    [] n.event = "dispute_won" ->
         When(BraintreeDisputed(n), Reinstated(BraintreeId(n, n.dispute), n.order, n.amount))
    [] OTHER -> {}

\* Braintree takes no key: it refuses an order it has just seen.
BraintreeRequest(invoice, method, key) == Request(None, method, invoice, None)

BraintreeSuccess == {"authorized", "submitted_for_settlement", "settling",
                     "settlement_pending", "settlement_confirmed", "settled"}
BraintreeFailure == {"processor_declined", "gateway_rejected", "settlement_declined",
                     "failed", "authorization_expired", "voided"}

BraintreeDuplicate(a) ==
  Field(a, "status") = "gateway_rejected" /\ Field(a, "rejection") = "duplicate"

\* An answer without a status is an error, whatever its HTTP code.
BraintreeCharge(a) ==
  CASE ~Has(a, "status") -> Throws
    [] BraintreeDuplicate(a) -> Result("pending", TRUE)
    [] OTHER -> Outcome(a, Field(a, "status") \in BraintreeSuccess,
                        Field(a, "status") \in BraintreeFailure, FALSE)

BraintreeMethod(card) == card.token
BraintreeMethods(stored) == {BraintreeMethod(card) : card \in stored}

-----------------------------------------------------------------------------
(* Elavon                                                                  *)

ElavonCapabilities == CapabilityMatrix("drive", {"retry", "partial"})

\* There is no signed webhook: whatever comes is refused.
ElavonIngest(n) == BaseIngest(n)

\* Converge has no idempotency: the key is only echoed.
ElavonRequest(invoice, method, key) == Request(None, method, invoice, None)

\* Whatever is not result 0 is taken for a decline, an empty answer too.
ElavonCharge(a) == Outcome(a, Field(a, "ssl_result") = "0", TRUE, ElavonPaymentFailure(a))

-----------------------------------------------------------------------------
(* TSYS                                                                    *)

TsysCapabilities == CapabilityMatrix("drive", {"retry", "partial"})

TsysIngest(n) == BaseIngest(n)

TsysRequest(invoice, method, key) == Request(None, method, invoice, key)

TsysCharge(a) == Outcome(a, TRUE, FALSE, TsysPaymentFailure(a))

-----------------------------------------------------------------------------
(* Deluxe: capabilities only, the base class for the rest                  *)

DeluxeCapabilities == CapabilityMatrix("drive", {"retry", "webhooks", "methods"})
=============================================================================

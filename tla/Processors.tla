----------------------------- MODULE Processors -----------------------------
(***************************************************************************)
(* The processors, as the adapters and their tests use them: the native    *)
(* webhooks each sends about what happens to a payment, the answers each   *)
(* gives to a charge, and which of them AX10M can be built for.            *)
(*                                                                         *)
(* An occurrence is a record [what, bill, pay, reference, total, reason]:  *)
(* a payment of a bill that failed, for want of funds or because its card  *)
(* is dead, was paid, was refunded by one unit (total so far), was         *)
(* disputed, or whose dispute was won or lost.  The reference is what the  *)
(* payment was made under: the merchant's own payments name their bill,    *)
(* those of AX10M what the request named.  A processor tells of what it    *)
(* has a webhook for, whether or not the adapter acts on it.               *)
(***************************************************************************)
EXTENDS BillingAdapters, GatewayAdapters, CommerceAdapters

BillAmount == 2    \* what a bill asks for, in units that can be refunded

Subscription == <<"subscription", 0>>
Customer == <<"customer", 0>>
Invoice(o) == <<"invoice", o.bill>>
Payment(o) == <<"payment", o.pay>>
Dispute(o) == <<"dispute", o.pay>>
Id(event, o) == <<event, o.pay, o.total>>

Native(event, o) == [event |-> event, id |-> Id(event, o)]

\* The fields of a native object that are there: optional ones may be missing.
With(field, ref) == IF ref = None THEN << >> ELSE Only(field, ref)

\* The kind of the webhook, "other" for one that no adapter has a case for.
Named(o, names) == IF o.what \in DOMAIN names THEN names[o.what] ELSE "other"
HasOne(o, names) == o.what \in DOMAIN names

\* How a processor says why a payment failed: under a field, with a word for want of funds
\* and one for a card that is dead.  A text has more general words, too.
Why(o, field, funds, dead) ==
  IF o.what = "failed" THEN Only(field, IF o.reason = "dead" THEN dead ELSE funds) ELSE << >>
Says(o, field, dead) == Why(o, field, {"insufficient", "declined"}, {dead, "declined"})

-----------------------------------------------------------------------------
StripeWebhooks(o, detailed) ==
  LET names == [failed |-> "invoice.payment_failed", paid |-> "invoice.paid",
                refunded |-> "charge.refunded", disputed |-> "charge.dispute.created",
                won |-> "charge.dispute.closed", lost |-> "charge.dispute.closed"]
      charge == [failed |-> "charge.failed", paid |-> "charge.succeeded"]
      n(event) == Native(event, o)
        ++ [invoice_id |-> Invoice(o), invoice |-> Invoice(o), charge |-> Payment(o),
            customer |-> Customer, status |-> IF o.what = "lost" THEN "lost" ELSE "won",
            amount |-> BillAmount, amount_refunded |-> o.total]
        ++ (IF o.what = "refunded" /\ detailed THEN Only("newest", 1) ELSE << >>)
        ++ Why(o, "decline_code", "insufficient_funds", "stolen_card")
  IN {n(Named(o, names))} \cup (IF HasOne(o, charge) THEN {n(Named(o, charge))} ELSE {})

\* There is no webhook of a dispute, nor at Recurly and Maxio.
ChargebeeWebhooks(o, detailed) ==
  LET names == [failed |-> "payment_failed", paid |-> "payment_succeeded",
                refunded |-> "payment_refunded"]
  IN When(HasOne(o, names),
          Native(Named(o, names), o)
            ++ [invoice |-> Invoice(o), subscription |-> Subscription, customer |-> Customer,
                amount |-> 1]
            ++ (IF o.what = "refunded" /\ detailed THEN Only("txn_type", "refund") ELSE << >>)
            ++ Why(o, "error_code", "insufficient_funds", "stolen_card"))

RecurlyWebhooks(o, detailed) ==
  LET names == [failed |-> "failed_payment_notification",
                paid |-> "successful_payment_notification",
                refunded |-> "successful_refund_notification"]
  IN When(HasOne(o, names),
          Native(Named(o, names), o)
            ++ (IF o.what = "refunded"
                THEN [txn_invoice_id |-> Invoice(o), txn_amount |-> 1, total |-> BillAmount,
                      txn_uuid |-> <<"refund", o.pay, o.total>>]
                ELSE [uuid |-> Invoice(o), txn_uuid |-> Payment(o), account_code |-> Customer])
            ++ Why(o, "txn_error_code", "insufficient_funds", "stolen_card"))

ZuoraWebhooks(o, detailed) ==
  LET names == [failed |-> "paymentfailed", paid |-> "paymentprocessed"]
  IN {Native(Named(o, names), o)
        ++ [payment |-> Payment(o), invoice |-> Invoice(o), accountId |-> Customer]
        ++ Says(o, "gatewayResponse", "stolen")}

MaxioWebhooks(o, detailed) ==
  LET names == [failed |-> "payment_failure", paid |-> "payment_success",
                refunded |-> "refund_success"]
  IN When(HasOne(o, names),
          Native(Named(o, names), o)
            ++ [webhook_id |-> Id(Named(o, names), o), subscription |-> Subscription,
                customer |-> Customer, subscription_id |-> Subscription, amount_in_cents |-> 1]
            ++ Says(o, "memo", "stolen"))

\* A retried payment of GoCardless is the payment of its bill.
GoCardlessWebhooks(o, detailed) ==
  LET names == [failed |-> "failed", paid |-> "confirmed", refunded |-> "refunded",
                disputed |-> "charged_back", won |-> "chargeback_cancelled"]
  IN {Native(Named(o, names), o)
        ++ [payment |-> Invoice(o), payment_amount |-> BillAmount, customer |-> Customer]
        ++ Why(o, "cause", "refer_to_payer", "bank_account_closed")}

\* The invoice_id is what the merchant gave its own payment.
PayPalWebhooks(o, detailed) ==
  LET names == [failed |-> "PAYMENT.CAPTURE.DENIED", paid |-> "PAYMENT.CAPTURE.COMPLETED",
                refunded |-> "PAYMENT.CAPTURE.REFUNDED", disputed |-> "CUSTOMER.DISPUTE.CREATED",
                won |-> "CUSTOMER.DISPUTE.RESOLVED", lost |-> "CUSTOMER.DISPUTE.RESOLVED"]
  IN {Native(Named(o, names), o)
        ++ [resource |-> Payment(o), payer_id |-> Customer, up |-> Payment(o),
            seller_transaction_id |-> Payment(o),
            amount |-> IF o.what = "refunded" THEN 1 ELSE BillAmount,
            outcome |-> IF o.what = "lost" THEN "RESOLVED_BUYER_FAVOUR" ELSE "RESOLVED_SELLER_FAVOUR"]
        ++ With("invoice_id", o.reference) ++ With("invoice_number", o.reference)
        ++ Why(o, "status_reason", [code |-> "insufficient_funds", text |-> {"insufficient"}],
                                   [code |-> "-", text |-> {"closed", "declined"}])}

\* A dispute carries the reference of its payment or, less detailed, only its id.
CheckoutWebhooks(o, detailed) ==
  LET names == [failed |-> "payment_declined", paid |-> "payment_captured",
                refunded |-> "payment_refunded", disputed |-> "dispute_received",
                won |-> "dispute_won", lost |-> "dispute_resolved"]
  IN {Native(Named(o, names), o)
        ++ [payment |-> Payment(o), payment_id |-> Payment(o),
            amount |-> IF o.what = "refunded" THEN 1 ELSE BillAmount]
        ++ With("reference", o.reference)
        ++ (IF o.what \in {"disputed", "won", "lost"} /\ detailed
            THEN With("payment_reference", o.reference) ELSE << >>)
        ++ Why(o, "response_code", "20051", "20041")}

\* A chargeback carries the reference, too, and the stage it is at, which may be no more
\* than a request for information.
WorldpayWebhooks(o, detailed) ==
  LET names == [failed |-> "payment.refused", paid |-> "payment.settled",
                refunded |-> "payment.refunded",
                disputed |-> IF detailed THEN "informationRequested" ELSE "chargeback",
                won |-> "reversed", lost |-> "secondChargeback"]
  IN {Native(Named(o, names), o)
        ++ [amount |-> IF o.what = "refunded" THEN 1 ELSE BillAmount]
        ++ With("transactionReference", o.reference) ++ Why(o, "refusalCode", "51", "-")
        ++ Why(o, "refusalDescription", {"insufficient funds"}, {"stolen card", "issuer"})}

\* A dispute is notified before its debit, and again at the debit.
AdyenWebhooks(o, detailed) ==
  LET names == [failed |-> "AUTHORISATION", paid |-> "AUTHORISATION", refunded |-> "REFUND",
                disputed |-> "CHARGEBACK", won |-> "CHARGEBACK_REVERSED"]
      n(event) == Native(event, o)
        ++ [success |-> IF o.what = "failed" THEN "false" ELSE "true",
            merchantReference |-> o.reference,
            amount |-> IF o.what = "refunded" THEN 1 ELSE BillAmount]
        ++ Why(o, "reason", [code |-> "12", text |-> {}],
                            [code |-> "-", text |-> {"blocked card", "refused"}])
  IN {n(Named(o, names))} \cup When(o.what = "disputed" /\ detailed,
                                    n("NOTIFICATION_OF_CHARGEBACK"))

\* Only what a subscription is charged by itself is notified; a dispute always is,
\* and has an order if AX10M made the charge.
BraintreeWebhooks(o, detailed) ==
  LET names == [failed |-> "subscription_charged_unsuccessfully",
                paid |-> "subscription_charged_successfully",
                disputed |-> "dispute_opened", won |-> "dispute_won", lost |-> "dispute_lost"]
      own == o.reference = Invoice(o)
  IN When(HasOne(o, names) /\ (own \/ o.what \in {"disputed", "won", "lost"}),
          Native(Named(o, names), o)
            ++ [subscription |-> Subscription, dispute |-> Dispute(o), kind |-> "chargeback",
                amount |-> BillAmount, timestamp |-> o.pay]
            ++ (IF own THEN << >> ELSE Only("order", o.reference))
            ++ Why(o, "processor_response_code", "2001", "2013"))

\* Every billing attempt, the retries too, is an object of its own.
ShopifyWebhooks(o, detailed) ==
  LET names == [failed |-> "subscription_billing_attempts/failure",
                paid |-> "subscription_billing_attempts/success"]
  IN {Native(Named(o, names), o)
        ++ [graphql_id |-> Payment(o), payload_id |-> Payment(o), customer |-> Customer]
        ++ Why(o, "error_code", "insufficient_funds", "invalid_payment_method")}

\* A chargeback is the gateway plugin's, and no webhook of the order.
WooWebhooks(o, detailed) ==
  LET names == [failed |-> "order.updated", paid |-> "order.updated", refunded |-> "order.updated"]
  IN When(HasOne(o, names),
          Native(Named(o, names), o)
            ++ [order |-> Invoice(o), total |-> BillAmount, customer |-> Customer,
                status |-> CASE o.what = "failed" -> "failed"
                             [] o.what = "refunded" /\ o.total = BillAmount -> "refunded"
                             [] OTHER -> "completed"]
            ++ (IF o.what = "refunded" THEN Only("refunds", o.total) ELSE << >>)
            ++ Says(o, "failure_message", "stolen"))

\* The advisory shops tell of their own payments.
BigCommerceWebhooks(o, detailed) ==
  LET names == [failed |-> "declined", paid |-> "completed", refunded |-> "refunded"]
  IN {[event |-> "store/order", order |-> Invoice(o), status |-> Named(o, names),
       created_at |-> o.total] ++ (IF detailed THEN Only("hash", Id(Named(o, names), o)) ELSE << >>)
        ++ Says(o, "decline_reason", "closed")}

ThriveCartWebhooks(o, detailed) ==
  LET names == [failed |-> "order.subscription_payment", paid |-> "order.subscription_payment"]
  IN {[event |-> Named(o, names), order |-> Invoice(o),
       failed |-> IF o.what = "failed" THEN "true" ELSE "0"]
        ++ (IF detailed THEN Only("id", Id(Named(o, names), o)) ELSE << >>)
        ++ Says(o, "reason", "lost")}

KajabiWebhooks(o, detailed) ==
  LET names == [failed |-> "payment.failed", paid |-> "payment.succeeded"]
  IN {Native(Named(o, names), o) ++ [data |-> Invoice(o)] ++ Says(o, "failure_reason", "pickup")}

SamCartWebhooks(o, detailed) ==
  LET names == [failed |-> "Subscription_Payment_Failed", paid |-> "Subscription_Charge",
                refunded |-> "Order_Refunded"]
  IN {Native(Named(o, names), o) ++ [order |-> Invoice(o)] ++ Says(o, "decline_reason", "revoc")}

-----------------------------------------------------------------------------
(* What the processors that keep the bills show of one, if asked: whose it *)
(* is and where it stands, "open" or "paid" in the words of each.  And the *)
(* methods that are stored for the customer.                               *)

BillRow(p, b, standing) ==
  LET invoice == <<"invoice", b>>
      word(open, paid) == IF standing = "open" THEN open ELSE paid
  IN CASE p = "stripe" ->
            [invoice_id |-> invoice, customer |-> Customer, status |-> word("open", "paid")]
       [] p = "chargebee" ->
            [invoice |-> invoice, customer |-> Customer, status |-> word("payment_due", "paid")]
       [] p = "recurly" ->
            [uuid |-> invoice, account_code |-> Customer, state |-> word("past_due", "paid")]
       [] p = "zuora" ->
            [invoice |-> invoice, accountId |-> Customer, status |-> "Posted",
             balance |-> word(BillAmount, 0)]
       [] p = "maxio" ->
            [subscription |-> Subscription, customer |-> Customer,
             state |-> word("past_due", "active")]
       [] p = "gocardless" ->
            [payment |-> invoice, customer |-> Customer, status |-> word("failed", "confirmed")]
       [] OTHER -> [order |-> invoice, customer |-> Customer, status |-> word("failed", "completed")]

\* The expiry is of the card behind the method, and has changed since the bill.
Stored(ref, expiry) == [id |-> ref, token |-> ref, gateway_token |-> ref, expiry |-> expiry]
OwnCard == Stored(<<"card">>, 1)
RenewedCard == Stored(<<"card">>, 2)
StoredMethods == {RenewedCard, Stored(<<"backup">>, 1)}

-----------------------------------------------------------------------------
(* What the processors answer to a charge that collected, was declined or  *)
(* is in progress, and the header that says a key had been answered before. *)

Ok(body) == Response(200, body)

StripeAnswers ==
  [collected |-> {Ok([status |-> "paid"])},
   declined |-> {Response(402, [type |-> "card_error"]), Ok([status |-> "open"])}, progress |-> {}]
ChargebeeAnswers ==
  [collected |-> {Ok([txn_status |-> "success"])},
   declined |-> {Response(400, [type |-> "payment"]), Ok([txn_status |-> "failure"])},
   progress |-> {Ok([txn_status |-> "in_progress"])}]
RecurlyAnswers ==
  [collected |-> {Ok([state |-> "paid"]), Ok([state |-> "processing", txn_status |-> "success"])},
   declined |-> {Response(422, [type |-> "transaction"]),
                 Ok([state |-> "past_due", txn_status |-> "declined"])},
   progress |-> {Ok([state |-> "processing", txn_status |-> "pending"])}]
ZuoraAnswers ==
  [collected |-> {Ok([success |-> "true", status |-> "Processed"])},
   declined |-> {Ok([success |-> "true", status |-> "Error"])},
   progress |-> {Ok([success |-> "true", status |-> "Processing"])}]
MaxioAnswers ==
  [collected |-> {Ok([state |-> "active"])}, declined |-> {Response(422, [errors |-> "declined"])},
   progress |-> {Ok([state |-> "past_due"])}]
GoCardlessAnswers ==
  [collected |-> {}, declined |-> {}, progress |-> {Ok([status |-> "pending_submission"])}]
PayPalAnswers ==
  [collected |-> {Ok([order |-> "COMPLETED"]), Ok([order |-> "COMPLETED", capture |-> "COMPLETED"])},
   declined |-> {Response(422, [issue |-> "INSTRUMENT_DECLINED"]),
                 Ok([order |-> "COMPLETED", capture |-> "DECLINED"])},
   progress |-> {Ok([order |-> "COMPLETED", capture |-> "PENDING"])}]
CheckoutAnswers ==
  [collected |-> {Ok([status |-> "Captured"])},
   declined |-> {Ok([status |-> "Declined"]), Response(422, [error_type |-> "payment_declined"])},
   progress |-> {Ok([status |-> "Pending"])}]
WorldpayAnswers ==
  [collected |-> {Ok([outcome |-> "authorized"])},
   declined |-> {Ok([outcome |-> "refused"]), Response(400, [refusalCode |-> "51"])},
   progress |-> {Ok([outcome |-> "sentForSettlement"])}]
AdyenAnswers ==
  [collected |-> {Ok([resultCode |-> "Authorised"])}, declined |-> {Ok([resultCode |-> "Refused"])},
   progress |-> {Ok([resultCode |-> "Received"])}]
BraintreeAnswers ==
  [collected |-> {Response(201, [status |-> "submitted_for_settlement"])},
   declined |-> {Response(422, [status |-> "processor_declined"])}, progress |-> {}]
ElavonAnswers ==
  [collected |-> {Ok([ssl_result |-> "0"])}, declined |-> {Ok([ssl_result |-> "1"])}, progress |-> {}]
TsysAnswers ==
  [collected |-> {Ok([status |-> "PASS"])},
   declined |-> {Ok([status |-> "DECLINED"]), Response(400, [responseCode |-> "51"])}, progress |-> {}]
ShopifyAnswers ==
  [collected |-> {Ok([ready |-> "true", status |-> "SUCCESS"])},
   declined |-> {Ok([ready |-> "true", errorCode |-> "insufficient_funds"])},
   progress |-> {Ok([ready |-> "false"])}]
WooAnswers ==
  [collected |-> {Ok([status |-> "processing"])}, declined |-> {Ok([status |-> "failed"])},
   progress |-> {Ok([status |-> "on-hold"])}]

ReplayHeader(p) ==
  CASE p \in {"stripe", "maxio"} -> "idempotent-replayed"
    [] p = "chargebee" -> "chargebee-idempotency-replayed"
    [] p = "recurly" -> "recurly-idempotent-replayed" [] p = "zuora" -> "zuora-idempotency-replayed"
    [] p = "paypal" -> "paypal-request-id-replayed" [] p = "checkout" -> "cko-idempotency-replayed"
    [] p \in {"worldpay", "adyen"} -> "idempotency-replayed" [] OTHER -> "-"

\* A request that was not allowed, or that something on the way answered with a page or
\* with nothing but a code.
Refusals == {Response(401, [type |-> "authentication_error"]), Page(502), Page(200), Bare(503)}

\* Braintree refuses an order it has just seen; the window closes at some time.
Duplicate == Response(422, [status |-> "gateway_rejected", rejection |-> "duplicate"])
=============================================================================

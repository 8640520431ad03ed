------------------------------ MODULE Clients ------------------------------
(***************************************************************************)
(* The HTTP clients of the adapters: what a response of the processor is   *)
(* to the adapter that made the call, an answer it can read, an error of   *)
(* the client's own class, or something else that is thrown past it.       *)
(*                                                                         *)
(* A body is a record of the fields that are there.  It may also be the    *)
(* page of a proxy, which is no JSON, or empty.                            *)
(***************************************************************************)
EXTENDS Adapter

Response(code, body) == [code |-> code, form |-> "json", body |-> body, headers |-> {}]
Page(code) == [Response(code, << >>) EXCEPT !.form = "text"]
Bare(code) == [Response(code, << >>) EXCEPT !.form = "none"]

Answer(kind, code, body, replay) == [kind |-> kind, code |-> code, body |-> body, replay |-> replay]
Returned(r, body, replay) == Answer("returned", r.code, body, replay)
Error(r, body) == Answer("error", r.code, body, FALSE)
Unreadable(r) == Answer("unreadable", r.code, << >>, FALSE)

IsOk(r) == r.code \in 200..299
Has(a, f) == f \in DOMAIN a.body
Field(a, f) == FirstOf(a.body, <<f>>, "-")

\* JSON.parse of what is not empty, inside a try that keeps other text under a field.
Lenient(r, field) == IF r.form = "text" THEN Only(field, "page") ELSE r.body

\* What most clients make of a response: outside 2xx an error with what was said, within
\* it the parsed body, where a page is not caught.  The replay header counts on a 2xx.
JsonAnswer(r, replayHeader) ==
  CASE ~IsOk(r) -> Error(r, Lenient(r, "message"))
    [] IsOk(r) /\ r.form = "text" -> Unreadable(r)
    [] OTHER -> Returned(r, r.body, replayHeader \in r.headers)

\* What an adapter makes of an answer: a decline may come as a result or as an error that
\* the client knows for one; everything else is thrown on, and tried again.
Outcome(a, succeeded, failed, declined) ==
  CASE a.kind = "returned" ->
         Result(IF succeeded THEN "succeeded" ELSE IF failed THEN "failed" ELSE "pending", a.replay)
    [] a.kind = "error" /\ declined -> Result("failed", FALSE)
    [] OTHER -> Throws

-----------------------------------------------------------------------------
StripeAnswer(r) == JsonAnswer(r, "idempotent-replayed")
\* The bug that takes every error of the call for a decline.
StripeAnyError(a) == TRUE
StripeCardError(a) == Field(a, "type") = "card_error"

ChargebeeAnswer(r) == JsonAnswer(r, "chargebee-idempotency-replayed")
ChargebeePaymentFailure(a) ==
  \/ Field(a, "type") = "payment"
  \/ Field(a, "api_error_code") \in {"payment_processing_failed", "payment_method_not_present"}

RecurlyAnswer(r) == JsonAnswer(r, "recurly-idempotent-replayed")
RecurlyPaymentFailure(a) ==
  a.code = 422 /\ (Field(a, "type") = "transaction" \/ Has(a, "transaction_error"))

\* Zuora and PayPal take an OAuth token first, and keep it as long as the process lives.
ZuoraAnswer(r) == JsonAnswer(r, "zuora-idempotency-replayed")

\* A page is the error message, and with 422 a decline.
MaxioAnswer(r) ==
  IF IsOk(r) THEN JsonAnswer(r, "idempotent-replayed") ELSE Error(r, Lenient(r, "error"))
MaxioPaymentFailure(a) == a.code = 422 /\ (Has(a, "errors") \/ Has(a, "error"))

\* No replay header: a key seen before is answered with a conflict.
GoCardlessAnswer(r) == JsonAnswer(r, "-")
GoCardlessConflict(a) == Field(a, "reason") = "idempotent_creation_conflict"

PayPalAnswer(r) == JsonAnswer(r, "paypal-request-id-replayed")
PayPalDeclineIssues == {"INSTRUMENT_DECLINED", "PAYER_ACTION_REQUIRED", "TRANSACTION_REFUSED",
                        "INSUFFICIENT_FUNDS", "CARD_CLOSED", "CARD_EXPIRED"}
PayPalPaymentFailure(a) == a.code = 422 /\ Field(a, "issue") \in PayPalDeclineIssues

CheckoutAnswer(r) == JsonAnswer(r, "cko-idempotency-replayed")
CheckoutPaymentFailure(a) ==
  \/ Field(a, "status") = "Declined" \/ Has(a, "response_code")
  \/ Field(a, "error_type") = "payment_declined"

WorldpayAnswer(r) == JsonAnswer(r, "idempotency-replayed")
WorldpayPaymentFailure(a) == Field(a, "outcome") = "refused" \/ Has(a, "refusalCode")

\* Adyen and WooCommerce know no declines among the errors.
AdyenAnswer(r) == JsonAnswer(r, "idempotency-replayed")
WooAnswer(r) == JsonAnswer(r, "-")

\* XML is handed on as it came, whatever the code.
BraintreeAnswer(r) == Returned(r, r.body, FALSE)

\* Converge answers with 200, and with an errorCode or errorMessage if nothing was tried.
ElavonAnswer(r) ==
  LET body == Lenient(r, "errorMessage") IN
  IF ~IsOk(r) \/ DOMAIN body \cap {"errorCode", "errorMessage"} # {}
  THEN Error(r, body) ELSE Returned(r, body, FALSE)
ElavonPaymentFailure(a) == FALSE

\* A page counts as status FAIL, and whatever is not PASS is an error.
TsysAnswer(r) ==
  LET body == IF r.form = "text" THEN Only("status", "FAIL") ELSE r.body IN
  IF ~IsOk(r) \/ FirstOf(body, <<"status">>, "-") # "PASS"
  THEN Error(r, body) ELSE Returned(r, body, FALSE)

TsysApprovals == {"00", "000", "10", "85"}
TsysPaymentFailure(a) ==
  \/ Field(a, "status") = "DECLINED"
  \/ Field(a, "status") # "FAIL" /\ Has(a, "responseCode")
       /\ Field(a, "responseCode") \notin TsysApprovals

\* GraphQL: the errors of a 200 are thrown as those of a failed call are.
ShopifyAnswer(r) ==
  LET answer == JsonAnswer(r, "-") IN
  IF answer.kind = "returned" /\ Has(answer, "errors") THEN Error(r, r.body) ELSE answer
=============================================================================

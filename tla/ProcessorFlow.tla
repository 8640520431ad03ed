---------------------------- MODULE ProcessorFlow ----------------------------
(***************************************************************************)
(* One merchant's processor between the bills of a subscription and the    *)
(* recovery of those that fail: what the processor tells AX10M through its *)
(* adapter's webhooks, and what AX10M charges through its adapter.         *)
(*                                                                         *)
(* The recovery side is what RecoverySaga and Intake model in full, cut    *)
(* down to what meets the adapter: a case per invoice id, an attempt       *)
(* number, a key per method and attempt, and tries that repeat a charge    *)
(* that threw.  Answers are lost, webhooks late and in any order, the      *)
(* lookups made while one is ingested fail.                                *)
(***************************************************************************)
EXTENDS Processors

CONSTANTS
  Served,        \* the processors looked at, each in behaviours of its own
  Bills,         \* the periods of one subscription
  Dying,         \* those whose own payment may find the card dead
  MaxAttempts,   \* SchedulerConfig.maxAttempts
  MaxTries,      \* the activity retry policy's maximumAttempts
  MaxPayments,   \* bound on the payments a processor makes
  MaxReturns,    \* bound on its refunds, disputes and won disputes
  MaxWire        \* bound on the webhooks under way

\* The shops whose own dunning AX10M only advises, and the processors whose adapter is
\* implemented, with Deluxe for the skeletons.
Advisory == {"bigcommerce", "thrivecart", "kajabi", "samcart"}
Adapters == {"stripe", "chargebee", "recurly", "zuora", "maxio", "gocardless", "paypal",
  "checkout", "worldpay", "adyen", "braintree", "elavon", "tsys", "deluxe", "shopify",
  "woocommerce"} \cup Advisory

ASSUME FlowAssumption ==
  /\ Served \subseteq Adapters
  /\ MaxAttempts \in Nat \ {0} /\ MaxTries \in Nat \ {0}
  /\ MaxPayments \in Nat /\ MaxReturns \in Nat /\ MaxWire \in Nat
  /\ Bills \subseteq Nat

VARIABLES
  proc,        \* the merchant's processor
  payments,    \* what the processor tried to collect, oldest first
  wire,        \* webhooks not delivered yet: [pay, what, native]
  reported,    \* the canonical events, each with the payment it is about
  missed,      \* what the webhooks told that were answered and became nothing: [pay, what]
  cases        \* recovery cases by invoice id

world == <<payments, wire>>
vars == <<proc, payments, wire, reported, missed, cases>>

States == {"collected", "declined", "progress"}
Reasons == {"funds", "dead"}
Ids == {"invoice", "payment", "subscription", "dispute"} \X Nat
Methods == {<<"card">>, <<"backup">>}
Keys == Ids \X Methods \X (1..MaxAttempts)
Payments ==
  [bill : Bills, key : Keys \cup {None}, reference : Ids \cup {None}, method : Methods,
   state : States, first : States, reason : Reasons \cup {"-"},
   returned : 0..BillAmount, dispute : {"none", "open", "won", "lost"}]

Charging == Served \ (Advisory \cup {"deluxe"})    \* the adapters that can charge

-----------------------------------------------------------------------------
(* The adapter of the processor. *)

Capabilities ==
  CASE proc = "stripe" -> StripeCapabilities [] proc = "chargebee" -> ChargebeeCapabilities
    [] proc = "recurly" -> RecurlyCapabilities [] proc = "zuora" -> ZuoraCapabilities
    [] proc = "maxio" -> MaxioCapabilities [] proc = "gocardless" -> GoCardlessCapabilities(FALSE)
    [] proc = "paypal" -> PayPalCapabilities [] proc = "checkout" -> CheckoutCapabilities
    [] proc = "worldpay" -> WorldpayCapabilities [] proc = "adyen" -> AdyenCapabilities
    [] proc = "braintree" -> BraintreeCapabilities(FALSE)
    [] proc = "elavon" -> ElavonCapabilities [] proc = "tsys" -> TsysCapabilities
    [] proc = "shopify" -> ShopifyCapabilities [] proc = "woocommerce" -> WooCapabilities
    [] proc = "deluxe" -> DeluxeCapabilities
    [] OTHER -> AdvisoryCapabilities

Webhooks(o, detailed) ==
  CASE proc = "stripe" -> StripeWebhooks(o, detailed)
    [] proc = "chargebee" -> ChargebeeWebhooks(o, detailed)
    [] proc = "recurly" -> RecurlyWebhooks(o, detailed)
    [] proc = "zuora" -> ZuoraWebhooks(o, detailed)
    [] proc = "maxio" -> MaxioWebhooks(o, detailed)
    [] proc = "gocardless" -> GoCardlessWebhooks(o, detailed)
    [] proc = "paypal" -> PayPalWebhooks(o, detailed)
    [] proc = "checkout" -> CheckoutWebhooks(o, detailed)
    [] proc = "worldpay" -> WorldpayWebhooks(o, detailed)
    [] proc = "adyen" -> AdyenWebhooks(o, detailed)
    [] proc = "braintree" -> BraintreeWebhooks(o, detailed)
    [] proc = "shopify" -> ShopifyWebhooks(o, detailed)
    [] proc = "woocommerce" -> WooWebhooks(o, detailed)
    [] proc = "bigcommerce" -> BigCommerceWebhooks(o, detailed)
    [] proc = "thrivecart" -> ThriveCartWebhooks(o, detailed)
    [] proc = "kajabi" -> KajabiWebhooks(o, detailed)
    [] proc = "samcart" -> SamCartWebhooks(o, detailed)
    [] OTHER -> {}

Ingest(n, lookup) ==
  CASE proc = "stripe" -> StripeIngest(n, lookup) [] proc = "chargebee" -> ChargebeeIngest(n)
    [] proc = "recurly" -> RecurlyIngest(n) [] proc = "zuora" -> ZuoraIngest(n)
    [] proc = "maxio" -> MaxioIngest(n) [] proc = "gocardless" -> GoCardlessIngest(n, lookup)
    [] proc = "paypal" -> PayPalIngest(n) [] proc = "checkout" -> CheckoutIngest(n)
    [] proc = "worldpay" -> WorldpayIngest(n) [] proc = "adyen" -> AdyenIngest(n)
    [] proc = "braintree" -> BraintreeIngest(n) [] proc = "elavon" -> ElavonIngest(n)
    [] proc = "tsys" -> TsysIngest(n) [] proc = "shopify" -> ShopifyIngest(n)
    [] proc = "woocommerce" -> WooIngest(n) [] proc = "bigcommerce" -> BigCommerceIngest(n)
    [] proc = "thrivecart" -> ThriveCartIngest(n) [] proc = "kajabi" -> KajabiIngest(n)
    [] proc = "samcart" -> SamCartIngest(n) [] OTHER -> BaseIngest(n)

RequestFor(invoice, method, key) ==
  CASE proc = "stripe" -> StripeRequest(invoice, method, key)
    [] proc = "chargebee" -> ChargebeeRequest(invoice, method, key)
    [] proc = "recurly" -> RecurlyRequest(invoice, method, key)
    [] proc = "zuora" -> ZuoraRequest(invoice, method, key)
    [] proc = "maxio" -> MaxioRequest(invoice, method, key)
    [] proc = "gocardless" -> GoCardlessRequest(invoice, method, key)
    [] proc = "paypal" -> PayPalRequest(invoice, method, key)
    [] proc = "checkout" -> CheckoutRequest(invoice, method, key)
    [] proc = "worldpay" -> WorldpayRequest(invoice, method, key)
    [] proc = "adyen" -> AdyenRequest(invoice, method, key)
    [] proc = "braintree" -> BraintreeRequest(invoice, method, key)
    [] proc = "elavon" -> ElavonRequest(invoice, method, key)
    [] proc = "tsys" -> TsysRequest(invoice, method, key)
    [] proc = "shopify" -> ShopifyRequest(Subscription, method, key)
    [] OTHER -> WooRequest(invoice, method, key)

ChargeResult(r) ==
  CASE proc = "stripe" -> StripeCharge(StripeAnswer(r))
    [] proc = "chargebee" -> ChargebeeCharge(ChargebeeAnswer(r))
    [] proc = "recurly" -> RecurlyCharge(RecurlyAnswer(r))
    [] proc = "zuora" -> ZuoraCharge(ZuoraAnswer(r))
    [] proc = "maxio" -> MaxioCharge(MaxioAnswer(r))
    [] proc = "gocardless" -> GoCardlessCharge(GoCardlessAnswer(r))
    [] proc = "paypal" -> PayPalCharge(PayPalAnswer(r))
    [] proc = "checkout" -> CheckoutCharge(CheckoutAnswer(r))
    [] proc = "worldpay" -> WorldpayCharge(WorldpayAnswer(r))
    [] proc = "adyen" -> AdyenCharge(AdyenAnswer(r))
    [] proc = "braintree" -> BraintreeCharge(BraintreeAnswer(r))
    [] proc = "elavon" -> ElavonCharge(ElavonAnswer(r))
    [] proc = "tsys" -> TsysCharge(TsysAnswer(r))
    [] proc = "shopify" -> ShopifyCharge(ShopifyAnswer(r))
    [] proc = "woocommerce" -> WooCharge(WooAnswer(r))
    [] OTHER -> BaseCharge(r)

Answers ==
  CASE proc = "stripe" -> StripeAnswers [] proc = "chargebee" -> ChargebeeAnswers
    [] proc = "recurly" -> RecurlyAnswers [] proc = "zuora" -> ZuoraAnswers
    [] proc = "maxio" -> MaxioAnswers [] proc = "gocardless" -> GoCardlessAnswers
    [] proc = "paypal" -> PayPalAnswers [] proc = "checkout" -> CheckoutAnswers
    [] proc = "worldpay" -> WorldpayAnswers [] proc = "adyen" -> AdyenAnswers
    [] proc = "braintree" -> BraintreeAnswers [] proc = "elavon" -> ElavonAnswers
    [] proc = "tsys" -> TsysAnswers [] proc = "shopify" -> ShopifyAnswers
    [] OTHER -> WooAnswers

OpenFailures(rows) ==
  CASE proc = "stripe" -> StripeOpenFailures(rows)
    [] proc = "chargebee" -> ChargebeeOpenFailures(rows)
    [] proc = "recurly" -> RecurlyOpenFailures(rows) [] proc = "zuora" -> ZuoraOpenFailures(rows)
    [] proc = "maxio" -> MaxioOpenFailures(rows)
    [] proc = "gocardless" -> GoCardlessOpenFailures(rows)
    [] proc = "woocommerce" -> WooOpenFailures(rows)
    [] OTHER -> BaseOpenFailures(rows)

ListedMethods ==
  CASE proc = "stripe" -> StripeMethods(StoredMethods)
    [] proc = "chargebee" -> ChargebeeMethods(StoredMethods)
    [] proc = "recurly" -> RecurlyMethods(StoredMethods)
    [] proc = "gocardless" -> GoCardlessMethods(StoredMethods)
    [] proc = "adyen" -> AdyenMethods(StoredMethods)
    [] proc = "braintree" -> BraintreeMethods(StoredMethods)
    [] OTHER -> BaseMethods(StoredMethods)

UpdatedCard ==
  IF proc = "chargebee" THEN ChargebeeUpdatedCard(OwnCard, RenewedCard)
                        ELSE BaseUpdatedCard(OwnCard, RenewedCard)

\* The methods besides the card of a case: the card that replaces it if that goes by
\* another name, and what is listed for the customer.
OtherMethods == (UpdatedCard \cup ListedMethods) \ {<<"card">>}

\* A failure that names no customer has nobody's methods to list.
Alternates(customer) == IF customer = None THEN {} ELSE OtherMethods

-----------------------------------------------------------------------------
Init ==
  /\ proc \in Served
  /\ payments = << >> /\ wire = {} /\ reported = {} /\ missed = {}
  /\ cases = << >>

Numbers == DOMAIN payments
Moved(i) == payments[i].state \in {"collected", "progress"}
Due(b) == \A i \in Numbers : payments[i].bill = b => ~Moved(i)

\* Why a payment of a state was declined, if it was.
ReasonsOf(state, dying) ==
  IF state # "declined" THEN {"-"} ELSE IF dying THEN Reasons ELSE {"funds"}

NewPayment(b, key, reference, method, state, reason) ==
  [bill |-> b, key |-> key, reference |-> reference, method |-> method, state |-> state,
   first |-> state, reason |-> reason, returned |-> 0, dispute |-> "none"]

\* What the processor tells of payment i of ps.
Notify(ps, i, what) ==
  LET o == [what |-> what, bill |-> ps[i].bill, pay |-> i,
            reference |-> ps[i].reference, total |-> ps[i].returned, reason |-> ps[i].reason]
  IN \E detailed \in BOOLEAN :
       wire' = wire \cup {[pay |-> i, what |-> what, native |-> n] : n \in Webhooks(o, detailed)}

Tell(ps, i) ==
  CASE ps[i].state = "collected" -> Notify(ps, i, "paid")
    [] ps[i].state = "declined" -> Notify(ps, i, "failed")
    [] OTHER -> UNCHANGED wire

WireIsOpen == Cardinality(wire) < MaxWire

\* The merchant's own collection of a bill, the bills in their order; tried again
\* only where AX10M does not drive.
OwnPayment(b) ==
  /\ WireIsOpen /\ Len(payments) < MaxPayments
  /\ \A earlier \in {c \in Bills : c < b} : \E i \in Numbers : payments[i].bill = earlier
  /\ Due(b)
  /\ \/ \A i \in Numbers : payments[i].bill # b
     \/ Capabilities.mode # "drive"
  /\ \E state \in {"collected", "declined"} : \E reason \in ReasonsOf(state, b \in Dying) :
       /\ payments' = Append(payments, NewPayment(b, None, <<"invoice", b>>, <<"card">>, state, reason))
       /\ Tell(payments', Len(payments'))
  /\ UNCHANGED <<proc, reported, missed, cases>>

\* A payment in progress ends.
Settle(i) ==
  /\ WireIsOpen /\ payments[i].state = "progress"
  /\ \E state \in {"collected", "declined"} : \E reason \in ReasonsOf(state, FALSE) :
       /\ payments' = [payments EXCEPT ![i] = [@ EXCEPT !.state = state, !.reason = reason]]
       /\ Tell(payments', i)
  /\ UNCHANGED <<proc, reported, missed, cases>>

Returns ==
  MapThenSumSet(LAMBDA i : payments[i].returned + (CASE payments[i].dispute = "none" -> 0
                             [] payments[i].dispute = "open" -> 1 [] OTHER -> 2), Numbers)

\* Money goes back to the customer, one unit at a time, or is disputed.
Refund(i) ==
  /\ WireIsOpen /\ Returns < MaxReturns
  /\ payments[i].state = "collected" /\ payments[i].dispute = "none"
  /\ payments[i].returned < BillAmount
  /\ payments' = [payments EXCEPT ![i].returned = @ + 1]
  /\ Notify(payments', i, "refunded")
  /\ UNCHANGED <<proc, reported, missed, cases>>

OpenDispute(i) ==
  /\ WireIsOpen /\ Returns < MaxReturns
  /\ payments[i].state = "collected" /\ payments[i].returned = 0 /\ payments[i].dispute = "none"
  /\ payments' = [payments EXCEPT ![i].dispute = "open"]
  /\ Notify(payments', i, "disputed")
  /\ UNCHANGED <<proc, reported, missed, cases>>

WinDispute(i) ==
  /\ WireIsOpen /\ Returns < MaxReturns
  /\ payments[i].dispute = "open"
  /\ payments' = [payments EXCEPT ![i].dispute = "won"]
  /\ Notify(payments', i, "won")
  /\ UNCHANGED <<proc, reported, missed, cases>>

LoseDispute(i) ==
  /\ WireIsOpen /\ Returns < MaxReturns
  /\ payments[i].dispute = "open"
  /\ payments' = [payments EXCEPT ![i].dispute = "lost"]
  /\ Notify(payments', i, "lost")
  /\ UNCHANGED <<proc, reported, missed, cases>>

-----------------------------------------------------------------------------
(* AX10M. *)

NewCase(bill, decline, customer) ==
  [bill |-> bill, decline |-> decline, customer |-> customer, status |-> "open",
   attempt |-> 1, try |-> 0, method |-> <<"card">>]

\* A failed invoice opens a case, with its decline and customer for good, unless there is
\* one already.
Opened(events, bill) ==
  LET failures == {e \in events : e.type = "invoice.failed"}
      failure(v) == CHOOSE e \in failures : e.invoice = v
  IN [v \in DOMAIN cases \cup {e.invoice : e \in failures} |->
        IF v \in DOMAIN cases THEN cases[v]
        ELSE NewCase(bill, failure(v).kind, failure(v).customer)]

\* The outcomes of the lookups that two adapters make of what a webhook names.
Lookups == IF proc \in {"stripe", "gocardless"} THEN BOOLEAN ELSE {TRUE}

\* The webhook is answered with success, whatever became of it.
Deliver(w, lookup) ==
  LET events == Ingest(w.native, lookup) IN
  /\ wire' = wire \ {w}
  /\ reported' = reported \cup {[pay |-> w.pay, event |-> e] : e \in events}
  /\ missed' = IF events = {} THEN missed \cup {[pay |-> w.pay, what |-> w.what]} ELSE missed
  /\ cases' = Opened(events, payments[w.pay].bill)
  /\ UNCHANGED <<proc, payments>>

\* Where there are no webhooks the merchant feeds its failures in.
FeedFailure(i) ==
  /\ "webhooks" \notin Capabilities.can
  /\ payments[i].state = "declined" /\ payments[i].key = None
  /\ <<"invoice", payments[i].bill>> \notin DOMAIN cases
  /\ LET invoice == InvoiceFor(<<"invoice", payments[i].bill>>, Customer)
         decline == IF payments[i].reason = "dead" THEN "stolen_card" ELSE "insufficient_funds"
     IN cases' = Opened({Failed(None, invoice, decline)}, payments[i].bill)
  /\ UNCHANGED <<proc, world, reported, missed>>

\* An attempt is decided: its method and with it the key of all its tries.  The card that
\* failed is let through only if its decline can be tried again.
StartAttempt(v) ==
  /\ cases[v].status = "open"
  /\ \E method \in {<<"card">>} \cup Alternates(cases[v].customer) :
     /\ method = <<"card">> => RetriableCode(cases[v].decline)
     /\ cases' = [cases EXCEPT ![v] = [@ EXCEPT !.status = "calling", !.try = 1, !.method = method]]
  /\ UNCHANGED <<proc, world, reported, missed>>

\* The bug of a key that every try makes anew.
KeyPerTry(v) == <<v, cases[v].method, cases[v].attempt + 10 * cases[v].try>>
KeyOf(v) == <<v, cases[v].method, cases[v].attempt>>

\* The bug of one attempt too many.
AfterOneMore(c, result) ==
  CASE result.outcome = "succeeded" -> [c EXCEPT !.status = "recovered"]
    [] result.outcome = "failed" -> [c EXCEPT !.status = "open", !.attempt = @ + 1, !.try = 0]
    [] OTHER -> [c EXCEPT !.status = "handed_off"]

\* The result of a try, or what is left to try when the call threw.
After(c, result) ==
  CASE result.outcome = "succeeded" -> [c EXCEPT !.status = "recovered"]
    [] result.outcome = "pending" -> [c EXCEPT !.status = "handed_off"]
    [] result.outcome = "failed" ->
         IF c.attempt < MaxAttempts THEN [c EXCEPT !.status = "open", !.attempt = @ + 1, !.try = 0]
                                    ELSE [c EXCEPT !.status = "exhausted"]
    [] OTHER -> IF c.try < MaxTries THEN [c EXCEPT !.try = @ + 1]
                                    ELSE [c EXCEPT !.status = "workflow_failed"]

\* The answer arrives, or is lost on the way, which the client sees as an error.
Answered(v, a) ==
  \E result \in {ChargeResult(a), Throws} : cases' = [cases EXCEPT ![v] = After(@, result)]

Replay(r, again) == [r EXCEPT !.headers = IF again THEN {ReplayHeader(proc)} ELSE {}]

\* A key the processor knows: the answer it gave before.
ChargeAgain(v, request) ==
  \E i \in Numbers :
    /\ request.key # None /\ payments[i].key = request.key
    /\ \E a \in IF proc = "gocardless"
                 THEN {Response(409, [reason |-> "idempotent_creation_conflict"])}
                 ELSE Answers[payments[i].first] : Answered(v, Replay(a, TRUE))
    /\ UNCHANGED world

\* Without a key Braintree may refuse an order it has just seen.
ChargeDuplicate(v, request) ==
  /\ proc = "braintree"
  /\ \E i \in Numbers : payments[i].key = KeyOf(v)
  /\ Answered(v, Replay(Duplicate, FALSE))
  /\ UNCHANGED world

\* The bill named has been collected, or the request failed.
ChargeRefused(v, request) ==
  /\ \E a \in Refusals \cup (IF proc = "maxio" /\ ~Due(cases[v].bill)
                             THEN {Response(422, [errors |-> "paid"])} ELSE {}) :
       Answered(v, Replay(a, FALSE))
  /\ UNCHANGED world

\* The payment is tried; a request without a key is told by its case.
ChargeAnew(v, request) ==
  /\ WireIsOpen /\ Len(payments) < MaxPayments
  /\ request.key = None \/ \A i \in Numbers : payments[i].key # request.key
  /\ request.charges = None \/ Due(cases[v].bill)
  /\ \E state \in States : \E a \in Answers[state], reason \in ReasonsOf(state, FALSE) :
       /\ payments' = Append(payments,
            NewPayment(cases[v].bill, KeyOf(v), request.reference,
                       IF request.method = Default THEN <<"card">> ELSE request.method,
                       state, reason))
       /\ Tell(payments', Len(payments'))
       /\ Answered(v, Replay(a, FALSE))

Charge(v) ==
  LET request == RequestFor(v, cases[v].method, KeyOf(v)) IN
  /\ cases[v].status = "calling" /\ proc \in Charging
  /\ \/ ChargeAgain(v, request) \/ ChargeDuplicate(v, request)
     \/ ChargeRefused(v, request) \/ ChargeAnew(v, request)
  /\ UNCHANGED <<proc, reported, missed>>

\* The call does not get through: no network, a token that is refused, nothing to charge with.
ChargeThrows(v) ==
  /\ cases[v].status = "calling"
  /\ cases' = [cases EXCEPT ![v] = After(@, Throws)]
  /\ UNCHANGED <<proc, world, reported, missed>>

Next ==
  \/ \E b \in Bills : OwnPayment(b)
  \/ \E i \in Numbers : \/ Settle(i) \/ Refund(i)
                        \/ OpenDispute(i) \/ WinDispute(i) \/ LoseDispute(i) \/ FeedFailure(i)
  \/ \E w \in wire, lookup \in Lookups : Deliver(w, lookup)
  \/ \E v \in DOMAIN cases : StartAttempt(v) \/ Charge(v) \/ ChargeThrows(v)

Spec == Init /\ [][Next]_vars
-----------------------------------------------------------------------------
(* What holds of the adapters.  An adapter named in a property is one whose *)
(* code, or whose processor, does not give it.                              *)

TypeOK ==
  /\ proc \in Served
  /\ payments \in Seq(Payments)
  /\ \A r \in reported : r.pay \in Numbers
  /\ \A w \in wire \cup missed : w.pay \in Numbers
  /\ \A v \in DOMAIN cases : cases[v].attempt \in 1..MaxAttempts /\ cases[v].try \in 0..MaxTries

Driven == {i \in Numbers : payments[i].key # None}    \* the payments AX10M asked for
CaseOf(i) == payments[i].key[1]
Reported(i, types) == {r \in reported : r.pay = i /\ r.event.type \in types}

\* One key moves money once, however often its charge is tried: the key of the attempt
\* reaches the processor (not Elavon's or Braintree's, which take none).
OncePerKey ==
  proc \notin {"elavon", "braintree"} =>
    \A i, j \in Driven : Moved(i) /\ Moved(j) /\ payments[i].key = payments[j].key => i = j

\* A bill is collected once, by the merchant, by one of the attempts or by one of the
\* methods: what is still open decides, and a try that may have collected is never taken
\* for a failed attempt.  At PayPal and Shopify the bill of a second case is not known.
CollectedOnce ==
  proc \notin {"elavon", "braintree", "paypal", "shopify"} =>
    \A i, j \in Numbers : Moved(i) /\ Moved(j) /\ payments[i].bill = payments[j].bill => i = j

\* What is reported of a payment AX10M asked for carries the invoice of its case, so that
\* it opens no second case, settles the pending one and reverses what it was credited.
\* PayPal's order and Shopify's billing attempt do not lead back, nor does a dispute of
\* Checkout.com without a payment reference.
EventsJoinTheCase ==
  proc \notin {"paypal", "shopify", "checkout"} =>
    \A i \in Driven : \A r \in Reported(i, EventTypes) : r.event.invoice = CaseOf(i)

\* What a poll lists for a bill.
Listed(b) == OpenFailures({BillRow(proc, b, IF Due(b) THEN "open" ELSE "paid")})

\* Events of different bills carry different invoices, though the bills are of one
\* subscription; and the poll lists, under the same invoices, the bills that nobody has
\* collected, so that it opens no case beside that of a webhook and none for a bill that
\* is paid.  Maxio and Braintree report the subscription.
BillsAreToldApart ==
  proc \notin {"maxio", "braintree"} =>
    /\ \A r, s \in reported :
         r.event.invoice = s.event.invoice /\ r.event.invoice # None =>
           payments[r.pay].bill = payments[s.pay].bill
    /\ \A b \in Bills : \A invoice \in Listed(b) :
         /\ Due(b)
         /\ \A r \in reported : r.event.invoice # None =>
              (r.event.invoice = invoice.ref <=> payments[r.pay].bill = b)

\* The units that are reported as reversed of a payment, event by event.
ReversedUnits(i) ==
  UNION {{r} \X (1..r.event.amount) : r \in Reported(i, {"payment.reversed"})}

\* The reversals reported of a payment never add up to more than went back or is disputed,
\* over any series of partial refunds and disputes.  Stripe without the refund's own amount
\* and WooCommerce report running totals, GoCardless the whole payment, and Adyen a dispute
\* under more than one code.
ReversedIsReturned ==
  proc \notin {"stripe", "woocommerce", "gocardless", "adyen"} =>
    \A i \in Numbers :
      Cardinality(ReversedUnits(i))
        <= payments[i].returned + (IF payments[i].dispute = "none" THEN 0 ELSE BillAmount)

\* What happened to a payment, and the canonical event that says so.
EventOf == [failed |-> "invoice.failed", paid |-> "invoice.paid", refunded |-> "payment.reversed",
            disputed |-> "payment.reversed", won |-> "payment.reversal_reverted"]
Occurred(i) ==
  {what \in DOMAIN EventOf :
     CASE what = "failed" -> payments[i].state = "declined"
       [] what = "paid" -> payments[i].state = "collected"
       [] what = "refunded" -> payments[i].returned > 0
       [] what = "disputed" -> payments[i].dispute # "none"
       [] OTHER -> payments[i].dispute = "won"}

\* What of it AX10M may never learn, for want of a webhook or of a case for it in the
\* adapter: the disputes of most, also those Worldpay tells of; the refunds of Zuora and of
\* the shops, which are churn or nothing; at Braintree what AX10M charged itself, but not
\* its disputes; and what takes a lookup, which may fail, of Stripe's and all of GoCardless.
Unlearnt(i) ==
  CASE proc \in {"paypal", "checkout", "adyen"} -> {}
    [] proc \in {"stripe", "chargebee", "recurly", "maxio", "worldpay", "woocommerce"} ->
         {"disputed", "won"}
    [] proc = "braintree" ->
         {"refunded"} \cup IF i \in Driven THEN {"failed", "paid"} ELSE {"disputed", "won"}
    [] proc \in {"zuora", "shopify"} \cup Advisory -> {"refunded", "disputed", "won"}
    [] OTHER -> DOMAIN EventOf

\* What happened to a payment is on its way to AX10M or is reported as what it was, whatever
\* else the processor sends and in whatever order it is taken; nothing is reported that did
\* not happen, a dispute that was lost as won least of all.  A webhook is answered with
\* success and becomes nothing only if it tells of what Unlearnt names, or of a lost dispute.
AckedIsSeen ==
  /\ \A i \in Numbers :
       /\ \A what \in Occurred(i) \ Unlearnt(i) :
            \/ \E w \in wire : w.pay = i /\ w.what = what
            \/ Reported(i, {EventOf[what]}) # {}
       /\ \A r \in Reported(i, EventTypes) : \E what \in Occurred(i) : r.event.type = EventOf[what]
  /\ \A w \in missed : w.what \in Unlearnt(w.pay) \cup {"lost"}

\* An attempt taken for failed has collected nothing, also when the answer of an earlier
\* try was lost.  Maxio answers 422 for a bill that is paid, and for want of a key the
\* second charge of Elavon and Braintree may be declined.
FailedIsFailed ==
  proc \notin {"maxio", "elavon", "braintree"} =>
    \A i \in Driven :
      cases[CaseOf(i)].attempt > payments[i].key[3] \/ cases[CaseOf(i)].status = "exhausted" =>
        payments[i].state # "collected"

\* What AX10M collected it learns: from the answer, or from a webhook that is taken or
\* under way and carries the invoice of the case; also when every answer was lost.
CollectedIsKnown ==
  proc \notin {"gocardless", "paypal", "shopify", "braintree", "elavon", "tsys"} =>
    \A i \in Driven : payments[i].state = "collected" =>
      \/ cases[CaseOf(i)].status \in {"calling", "recovered"}
      \/ \E w \in wire : w.pay = i /\ w.what = "paid"
      \/ \E r \in Reported(i, {"invoice.paid"}) : r.event.invoice = CaseOf(i)

\* The method the engine chose is the one that is charged, as the counters and the ledger
\* of the recovery take it to be.  Recurly and GoCardless charge the one on file.
MethodIsHonoured ==
  proc \notin {"recurly", "gocardless"} =>
    \A i \in Driven : payments[i].method = payments[i].key[2]

\* A card whose processor called it dead is not charged for the bill it failed: the word
\* for it is told from the rest of the text, kept by the case, and lets only other methods
\* through.  Stripe's invoice.payment_failed has no such word, and Recurly and GoCardless
\* charge what is on file for any method.
DeadCardIsSpared ==
  proc \notin {"stripe", "recurly", "gocardless"} =>
    \A i \in Driven : payments[i].method = <<"card">> =>
      \E j \in 1..(i - 1) : payments[j].bill = payments[i].bill /\ payments[j].reason = "funds"
=============================================================================

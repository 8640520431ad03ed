------------------------ MODULE ProcessorFlowProofs ------------------------
(***************************************************************************)
(* Proofs about ProcessorFlow, for any of the adapters, any bills and any  *)
(* bounds, in three parts.                                                 *)
(*                                                                         *)
(* First what needs nothing of the webhooks: a key moves money at most     *)
(* once, and the method charged is the one chosen.                         *)
(*                                                                         *)
(* Then, adapter by adapter, what is made of a webhook and of an answer,   *)
(* and from that the invariant of the flow: a bill is collected once, what *)
(* is reported is true and of the right case, what is taken for failed has *)
(* collected nothing, and what was collected is learnt.                    *)
(*                                                                         *)
(* Last what goes back of a payment, counted: the reversals reported of it *)
(* are no more than the units that were refunded or are disputed.          *)
(***************************************************************************)
EXTENDS ProcessorFlow, FiniteSetTheorems, SequenceTheorems, TLAPS

\* The invariant.  What is a payment and what is a case, a key used by one payment where
\* the processor gets it, and the method of a case one that its adapter can name.
IsPayment(p) == {"key", "method"} \subseteq DOMAIN p
IsCase(c) == "method" \in DOMAIN c

PaymentsAreRecords ==
  /\ \E S : payments \in Seq(S)
  /\ \A i \in Numbers : IsPayment(payments[i])
CasesAreRecords ==
  /\ cases = [v \in DOMAIN cases |-> cases[v]]
  /\ \A v \in DOMAIN cases : IsCase(cases[v])

TakesKeys == proc \notin {"elavon", "braintree"}
KeysAreUnique ==
  TakesKeys => \A i, j \in Driven : payments[i].key = payments[j].key => i = j

TakesMethods == proc \notin {"recurly", "gocardless"}
MethodsAreNamed ==
  /\ \A v \in DOMAIN cases : cases[v].method \in {<<"card">>} \cup OtherMethods
  /\ TakesMethods => \A i \in Driven : payments[i].method = payments[i].key[2]

IInv == PaymentsAreRecords /\ CasesAreRecords /\ KeysAreUnique /\ MethodsAreNamed

-----------------------------------------------------------------------------
(* The adapters.                                                            *)

\* Every adapter but Elavon's and Braintree's passes the key on.
LEMMA KeyIsPassedOn ==
  ASSUME NEW v, NEW m, NEW k, TakesKeys
  PROVE  RequestFor(v, m, k).key = k
BY DEF TakesKeys, RequestFor, Request, StripeRequest, ChargebeeRequest, RecurlyRequest,
       ZuoraRequest, MaxioRequest, GoCardlessRequest, PayPalRequest, CheckoutRequest,
       WorldpayRequest, AdyenRequest, BraintreeRequest, ElavonRequest, TsysRequest,
       ShopifyRequest, WooRequest

\* An adapter that offers other methods than the card of the case names the one to charge.
LEMMA MethodIsPassedOn ==
  ASSUME NEW v, NEW m, NEW k, TakesMethods, OtherMethods # {}
  PROVE  RequestFor(v, m, k).method = m
BY DEF TakesMethods, OtherMethods, ListedMethods, UpdatedCard, BaseMethods, BaseUpdatedCard,
       RequestFor, Request, StripeRequest, ChargebeeRequest, AdyenRequest, BraintreeRequest

\* And one that does not, charges the card of the case.
LEMMA MethodOrDefault ==
  ASSUME NEW v, NEW m, NEW k
  PROVE  RequestFor(v, m, k).method \in {m, Default}
BY DEF RequestFor, Request, StripeRequest, ChargebeeRequest, RecurlyRequest, ZuoraRequest,
       MaxioRequest, GoCardlessRequest, PayPalRequest, CheckoutRequest, WorldpayRequest,
       AdyenRequest, BraintreeRequest, ElavonRequest, TsysRequest, ShopifyRequest, WooRequest

\* What an adapter offers besides the card of a case, as long as it is the same adapter.
LEMMA OtherMethodsAreBackups ==
  /\ OtherMethods \subseteq {<<"backup">>}
  /\ proc' = proc => OtherMethods' = OtherMethods
<1>1. \A m \in StoredMethods : /\ "id" \in DOMAIN m
                               /\ m.id \in {<<"card">>, <<"backup">>}
                               /\ m.token = m.id
  BY DEF StoredMethods, Stored, RenewedCard
<1>2. ListedMethods \subseteq {<<"card">>, <<"backup">>}
  BY <1>1 DEF ListedMethods, BaseMethods, StripeMethods, ChargebeeMethods, RecurlyMethods,
       GoCardlessMethods, AdyenMethods, BraintreeMethods, StripeMethod, ChargebeeMethod,
       RecurlyMethod, AdyenMethod, BraintreeMethod
<1>3. UpdatedCard \subseteq {<<"card">>}
  BY DEF UpdatedCard, BaseUpdatedCard, ChargebeeUpdatedCard, ChargebeeMethod, RenewedCard, Stored
<1>4. OtherMethods \subseteq {<<"backup">>}
  BY <1>2, <1>3 DEF OtherMethods
<1>5. proc' = proc => OtherMethods' = OtherMethods
  BY DEF OtherMethods, ListedMethods, UpdatedCard
<1> QED
  BY <1>4, <1>5

-----------------------------------------------------------------------------
(* What the actions do to the payments and the cases.                       *)

\* Keys that do not change stay unique.
LEMMA KeysStayUnique ==
  ASSUME KeysAreUnique, proc' = proc, Driven' = Driven,
         \A j \in Driven : payments'[j].key = payments[j].key
  PROVE  KeysAreUnique'
BY DEF KeysAreUnique, TakesKeys

\* A payment that changes keeps its key and its method.
LEMMA PaymentsKeepTheirKeys ==
  ASSUME IInv, UNCHANGED <<proc, cases>>, NEW i \in Numbers, NEW p, IsPayment(p),
         p.key = payments[i].key, p.method = payments[i].method,
         payments' = [payments EXCEPT ![i] = p]
  PROVE  IInv'
<1>1. PICK S : payments \in Seq(S)
  BY DEF IInv, PaymentsAreRecords
<1>2. /\ payments' \in Seq(S \cup {p})
      /\ DOMAIN payments' = DOMAIN payments
      /\ \A j \in DOMAIN payments : payments'[j] = IF j = i THEN p ELSE payments[j]
  BY <1>1 DEF Numbers
<1>3. PaymentsAreRecords'
  <2>1. \A j \in Numbers : IsPayment(payments[j])
    BY DEF IInv, PaymentsAreRecords
  <2>2. \A j \in Numbers' : IsPayment(payments'[j])
    BY <1>2, <2>1 DEF Numbers
  <2> QED
    BY <1>2, <2>2 DEF PaymentsAreRecords, IsPayment
<1>4. Driven' = Driven /\ \A j \in Driven : /\ payments'[j].key = payments[j].key
                                           /\ payments'[j].method = payments[j].method
  BY <1>2 DEF Driven, Numbers
<1>5. KeysAreUnique'
  BY <1>4, KeysStayUnique DEF IInv
<1>6. MethodsAreNamed'
  BY <1>4, OtherMethodsAreBackups DEF IInv, MethodsAreNamed, TakesMethods
<1>7. CasesAreRecords'
  BY DEF IInv, CasesAreRecords, IsCase
<1> QED
  BY <1>3, <1>5, <1>6, <1>7 DEF IInv

\* A payment without a key is nobody's attempt.
LEMMA PaymentsOfTheMerchant ==
  ASSUME IInv, UNCHANGED <<proc, cases>>, NEW p, IsPayment(p), p.key = None,
         payments' = Append(payments, p)
  PROVE  IInv'
<1>1. PICK S : payments \in Seq(S)
  BY DEF IInv, PaymentsAreRecords
<1>2. /\ payments' \in Seq(S \cup {p})
      /\ DOMAIN payments' = DOMAIN payments \cup {Len(payments) + 1}
      /\ Len(payments) + 1 \notin DOMAIN payments
      /\ payments'[Len(payments) + 1] = p
      /\ \A j \in DOMAIN payments : payments'[j] = payments[j]
  BY <1>1 DEF Numbers
<1>3. PaymentsAreRecords'
  <2>1. \A j \in Numbers : IsPayment(payments[j])
    BY DEF IInv, PaymentsAreRecords
  <2>2. \A j \in Numbers' : IsPayment(payments'[j])
    BY <1>2, <2>1 DEF Numbers
  <2> QED
    BY <1>2, <2>2 DEF PaymentsAreRecords, IsPayment
<1>4. Driven' = Driven /\ \A j \in Driven : /\ payments'[j].key = payments[j].key
                                           /\ payments'[j].method = payments[j].method
  BY <1>2 DEF Driven, Numbers
<1>5. KeysAreUnique'
  BY <1>4, KeysStayUnique DEF IInv
<1>6. MethodsAreNamed'
  BY <1>4, OtherMethodsAreBackups DEF IInv, MethodsAreNamed, TakesMethods
<1>7. CasesAreRecords'
  BY DEF IInv, CasesAreRecords, IsCase
<1> QED
  BY <1>3, <1>5, <1>6, <1>7 DEF IInv

\* A new case has its card; a case that changes keeps a method its adapter names.
LEMMA CasesKeepTheirMethods ==
  ASSUME IInv, UNCHANGED <<proc, payments>>,
         cases' = [v \in DOMAIN cases' |-> cases'[v]],
         \A v \in DOMAIN cases' : /\ IsCase(cases'[v])
                                  /\ cases'[v].method \in {<<"card">>} \cup OtherMethods
  PROVE  IInv'
<1>1. PaymentsAreRecords'
  BY DEF IInv, PaymentsAreRecords, IsPayment, Numbers
<1>2. CasesAreRecords'
  BY DEF CasesAreRecords, IsCase
<1>. Driven' = Driven
  BY DEF Driven, Numbers
<1>3. KeysAreUnique'
  BY DEF IInv, KeysAreUnique, TakesKeys
<1>4. MethodsAreNamed'
  BY OtherMethodsAreBackups DEF IInv, MethodsAreNamed, TakesMethods
<1> QED
  BY <1>1, <1>2, <1>3, <1>4 DEF IInv

-----------------------------------------------------------------------------
(* A charge.                                                                *)

\* The next try of an attempt, and the next attempt, is of a case with the same method.
LEMMA AfterKeepsTheMethod ==
  ASSUME NEW c, NEW result, IsCase(c)
  PROVE  IsCase(After(c, result)) /\ After(c, result).method = c.method
<1>1. CASE result.outcome = "succeeded"
  BY <1>1 DEF After, IsCase
<1>2. CASE result.outcome = "pending"
  BY <1>2 DEF After, IsCase
<1>3. CASE result.outcome = "failed" /\ c.attempt < MaxAttempts
  BY <1>3 DEF After, IsCase
<1>4. CASE result.outcome = "failed" /\ ~(c.attempt < MaxAttempts)
  BY <1>4 DEF After, IsCase
<1>5. CASE result.outcome \notin {"succeeded", "pending", "failed"}
  BY <1>5 DEF After, IsCase
<1> QED
  BY <1>1, <1>2, <1>3, <1>4, <1>5

\* A case that is answered keeps its method, whatever the answer.
LEMMA AnsweredKeepsTheMethod ==
  ASSUME IInv, NEW v \in DOMAIN cases, NEW result,
         cases' = [cases EXCEPT ![v] = After(@, result)]
  PROVE  /\ cases' = [u \in DOMAIN cases' |-> cases'[u]]
         /\ DOMAIN cases' = DOMAIN cases
         /\ \A u \in DOMAIN cases' : /\ IsCase(cases'[u])
                                     /\ cases'[u].method = cases[u].method
<1>1. \A u \in DOMAIN cases : IsCase(cases[u])
  BY DEF IInv, CasesAreRecords
<1>2. IsCase(After(cases[v], result)) /\ After(cases[v], result).method = cases[v].method
  BY <1>1, AfterKeepsTheMethod
<1>3. \A u \in DOMAIN cases : cases'[u] = IF u = v THEN After(cases[v], result) ELSE cases[u]
  OBVIOUS
<1> QED
  BY <1>1, <1>2, <1>3

\* The method of the case is the one charged, named or the card of the case by default.
LEMMA ChosenMethod ==
  ASSUME IInv, NEW v \in DOMAIN cases, NEW k, NEW m, m = RequestFor(v, cases[v].method, k).method
  PROVE  TakesMethods => (IF m = Default THEN <<"card">> ELSE m) = cases[v].method
<1>1. CASE OtherMethods = {}
  <2>1. cases[v].method = <<"card">>
    BY <1>1 DEF IInv, MethodsAreNamed
  <2> QED
    BY <2>1, MethodOrDefault
<1>2. CASE TakesMethods /\ OtherMethods # {}
  <2>1. m = cases[v].method
    BY <1>2, MethodIsPassedOn
  <2>2. cases[v].method \in {<<"card">>, <<"backup">>}
    BY OtherMethodsAreBackups DEF IInv, MethodsAreNamed
  <2> QED
    BY <2>1, <2>2 DEF Default
<1> QED
  BY <1>1, <1>2

\* The charge that is tried: a new payment under the key and the method of its case.
LEMMA ChargeAnewKeepsIInv ==
  ASSUME IInv, NEW v \in DOMAIN cases, proc' = proc,
         ChargeAnew(v, RequestFor(v, cases[v].method, KeyOf(v)))
  PROVE  IInv'
<1>. DEFINE request == RequestFor(v, cases[v].method, KeyOf(v))
            method == IF request.method = Default THEN <<"card">> ELSE request.method
<1>1. PICK p, result :
        /\ payments' = Append(payments, p)
        /\ IsPayment(p) /\ p.key = KeyOf(v) /\ p.method = method
        /\ cases' = [cases EXCEPT ![v] = After(@, result)]
  <2>1. PICK state \in States : \E a \in Answers[state], reason \in ReasonsOf(state, FALSE) :
          /\ payments' = Append(payments,
               NewPayment(cases[v].bill, KeyOf(v), request.reference, method, state, reason))
          /\ Answered(v, Replay(a, FALSE))
    BY DEF ChargeAnew
  <2>2. PICK result : cases' = [cases EXCEPT ![v] = After(@, result)]
    BY <2>1 DEF Answered
  <2> QED
    BY <2>1, <2>2 DEF NewPayment, IsPayment
<1>2. request.key = None \/ \A i \in Numbers : payments[i].key # request.key
  BY DEF ChargeAnew
<1>3. KeyOf(v)[2] = cases[v].method /\ KeyOf(v) # None
  BY DEF KeyOf, None
<1>4. TakesMethods => method = cases[v].method
  BY ChosenMethod
<1>5. TakesKeys => request.key = KeyOf(v)
  BY KeyIsPassedOn
<1>. HIDE DEF request, method
<1>6. PICK S : payments \in Seq(S)
  BY DEF IInv, PaymentsAreRecords
<1>7. /\ payments' \in Seq(S \cup {p})
      /\ DOMAIN payments' = DOMAIN payments \cup {Len(payments) + 1}
      /\ Len(payments) + 1 \notin DOMAIN payments
      /\ payments'[Len(payments) + 1] = p
      /\ \A j \in DOMAIN payments : payments'[j] = payments[j]
  BY <1>1, <1>6
<1>8. PaymentsAreRecords'
  <2>1. \A j \in Numbers : IsPayment(payments[j])
    BY DEF IInv, PaymentsAreRecords
  <2>2. \A j \in Numbers' : IsPayment(payments'[j])
    BY <1>1, <1>7, <2>1 DEF Numbers
  <2> QED
    BY <1>7, <2>2 DEF PaymentsAreRecords, IsPayment
<1>9. Driven' = Driven \cup {Len(payments) + 1}
  BY <1>1, <1>3, <1>7 DEF Driven, Numbers
<1>10. Driven \subseteq DOMAIN payments /\ Numbers = DOMAIN payments
  BY DEF Driven, Numbers
<1>11. KeysAreUnique'
  <2>. SUFFICES ASSUME TakesKeys, NEW i \in Driven', NEW j \in Driven',
                       payments'[i].key = payments'[j].key
                PROVE  i = j
    BY DEF KeysAreUnique, TakesKeys
  <2>1. \A k \in Driven : payments'[k].key # KeyOf(v)
    BY <1>2, <1>3, <1>5, <1>7, <1>10
  <2>2. payments'[Len(payments) + 1].key = KeyOf(v)
    BY <1>1, <1>7
  <2>3. CASE i \in Driven /\ j \in Driven
    BY <2>3, <1>7, <1>10 DEF IInv, KeysAreUnique
  <2> QED
    BY <1>9, <2>1, <2>2, <2>3
<1>12. CasesAreRecords' /\ \A u \in DOMAIN cases' : cases'[u].method \in {<<"card">>} \cup OtherMethods
  BY <1>1, AnsweredKeepsTheMethod DEF IInv, CasesAreRecords, MethodsAreNamed
<1>13. MethodsAreNamed'
  <2>1. TakesMethods => \A i \in Driven' : payments'[i].method = payments'[i].key[2]
    <3>. SUFFICES ASSUME TakesMethods, NEW i \in Driven'
                  PROVE  payments'[i].method = payments'[i].key[2]
      OBVIOUS
    <3>1. CASE i \in Driven
      BY <3>1, <1>7, <1>10 DEF IInv, MethodsAreNamed
    <3>2. CASE i = Len(payments) + 1
      BY <3>2, <1>1, <1>3, <1>4, <1>7
    <3> QED
      BY <1>9, <3>1, <3>2
  <2> QED
    BY <2>1, <1>12, OtherMethodsAreBackups DEF MethodsAreNamed, TakesMethods
<1> QED
  BY <1>8, <1>11, <1>12, <1>13 DEF IInv

\* An answer, to a try that made no payment.
LEMMA AnsweredKeepsIInv ==
  ASSUME IInv, NEW v \in DOMAIN cases, NEW result, UNCHANGED <<proc, payments>>,
         cases' = [cases EXCEPT ![v] = After(@, result)]
  PROVE  IInv'
<1>1. \A u \in DOMAIN cases : cases[u].method \in {<<"card">>} \cup OtherMethods
  BY DEF IInv, MethodsAreNamed
<1> QED
  BY <1>1, AnsweredKeepsTheMethod, CasesKeepTheirMethods

\* A charge, in each of the ways a processor may take it.
LEMMA ChargeKeepsIInv ==
  ASSUME IInv, NEW v \in DOMAIN cases, Charge(v)
  PROVE  IInv'
<1>. DEFINE request == RequestFor(v, cases[v].method, KeyOf(v))
<1>0. proc' = proc
  BY DEF Charge
<1>1. CASE ChargeAgain(v, request)
  BY <1>0, <1>1, AnsweredKeepsIInv DEF ChargeAgain, Answered, world
<1>2. CASE ChargeDuplicate(v, request)
  BY <1>0, <1>2, AnsweredKeepsIInv DEF ChargeDuplicate, Answered, world
<1>3. CASE ChargeRefused(v, request)
  BY <1>0, <1>3, AnsweredKeepsIInv DEF ChargeRefused, Answered, world
<1>4. CASE ChargeAnew(v, request)
  BY <1>0, <1>4, ChargeAnewKeepsIInv
<1> QED
  BY <1>1, <1>2, <1>3, <1>4 DEF Charge

-----------------------------------------------------------------------------
(* The steps.                                                               *)

\* Cases opened by a webhook or fed in have the card of their customer.
LEMMA OpenedKeepsIInv ==
  ASSUME IInv, UNCHANGED <<proc, payments>>, NEW events, NEW bill,
         cases' = Opened(events, bill)
  PROVE  IInv'
<1>1. /\ cases' = [v \in DOMAIN cases' |-> cases'[v]]
      /\ \A v \in DOMAIN cases' :
           IF v \in DOMAIN cases THEN cases'[v] = cases[v]
                                ELSE \E decline, customer : cases'[v] = NewCase(bill, decline, customer)
  BY DEF Opened
<1>2. \A decline, customer : /\ IsCase(NewCase(bill, decline, customer))
                            /\ NewCase(bill, decline, customer).method = <<"card">>
  BY DEF IsCase, NewCase
<1>3. \A v \in DOMAIN cases : IsCase(cases[v]) /\ cases[v].method \in {<<"card">>} \cup OtherMethods
  BY DEF IInv, CasesAreRecords, MethodsAreNamed
<1>4. \A v \in DOMAIN cases' : /\ IsCase(cases'[v])
                               /\ cases'[v].method \in {<<"card">>} \cup OtherMethods
  <2>. SUFFICES ASSUME NEW v \in DOMAIN cases'
                PROVE  IsCase(cases'[v]) /\ cases'[v].method \in {<<"card">>} \cup OtherMethods
    OBVIOUS
  <2>1. CASE v \in DOMAIN cases
    BY <2>1, <1>1, <1>3
  <2>2. CASE v \notin DOMAIN cases
    <3>1. PICK decline, customer : cases'[v] = NewCase(bill, decline, customer)
      BY <2>2, <1>1
    <3> QED
      BY <3>1, <1>2
  <2> QED
    BY <2>1, <2>2
<1> QED
  BY <1>1, <1>4, CasesKeepTheirMethods

\* No payment, no case.
LEMMA InitImpliesIInv == Init => IInv
<1>. SUFFICES ASSUME Init PROVE IInv
  OBVIOUS
<1>1. payments = << >> /\ payments \in Seq({}) /\ Numbers = {} /\ DOMAIN cases = {}
      /\ cases = [v \in DOMAIN cases |-> cases[v]]
  BY DEF Init, Numbers
<1> QED
  BY <1>1 DEF IInv, PaymentsAreRecords, CasesAreRecords, KeysAreUnique, MethodsAreNamed, Driven

\* The merchant's own collection has no key.
LEMMA OwnPaymentKeepsIInv ==
  ASSUME IInv, NEW b, OwnPayment(b)
  PROVE  IInv'
<1>1. PICK state, reason :
        payments' = Append(payments, NewPayment(b, None, <<"invoice", b>>, <<"card">>, state, reason))
  BY DEF OwnPayment
<1>. DEFINE p == NewPayment(b, None, <<"invoice", b>>, <<"card">>, state, reason)
<1>2. IsPayment(p) /\ p.key = None
  BY DEF NewPayment, IsPayment
<1>3. UNCHANGED <<proc, cases>>
  BY DEF OwnPayment
<1>. HIDE DEF p
<1>4. payments' = Append(payments, p)
  BY <1>1 DEF p
<1> QED
  BY <1>2, <1>3, <1>4, PaymentsOfTheMerchant

\* The processor's own steps change a field that is neither key nor method.
LEMMA ProcessorKeepsIInv ==
  ASSUME IInv, NEW i \in Numbers,
         Settle(i) \/ Refund(i) \/ OpenDispute(i) \/ WinDispute(i) \/ LoseDispute(i)
  PROVE  IInv'
<1>. DEFINE r == payments[i]
<1>1. PICK p : /\ payments' = [payments EXCEPT ![i] = p]
               /\ \/ \E x, y : p = [r EXCEPT !.state = x, !.reason = y]
                  \/ \E x : p = [r EXCEPT !.returned = x]
                  \/ \E x : p = [r EXCEPT !.dispute = x]
  <2>1. CASE Settle(i)
    <3>1. PICK x, y : payments' = [payments EXCEPT ![i] = [@ EXCEPT !.state = x, !.reason = y]]
      BY <2>1 DEF Settle
    <3>2. payments' = [payments EXCEPT ![i] = [r EXCEPT !.state = x, !.reason = y]]
      BY <3>1
    <3> QED
      BY <3>2
  <2>2. CASE Refund(i)
    BY <2>2 DEF Refund
  <2>3. CASE OpenDispute(i)
    BY <2>3 DEF OpenDispute
  <2>4. CASE WinDispute(i)
    BY <2>4 DEF WinDispute
  <2>5. CASE LoseDispute(i)
    BY <2>5 DEF LoseDispute
  <2> QED
    BY <2>1, <2>2, <2>3, <2>4, <2>5
<1>2. IsPayment(r)
  BY DEF IInv, PaymentsAreRecords
<1>3. IsPayment(p) /\ p.key = r.key /\ p.method = r.method
  BY <1>1, <1>2 DEF IsPayment
<1>4. UNCHANGED <<proc, cases>>
  BY DEF Settle, Refund, OpenDispute, WinDispute, LoseDispute
<1> QED
  BY <1>1, <1>3, <1>4, PaymentsKeepTheirKeys

\* An attempt chooses a method its adapter can name.
LEMMA StartAttemptKeepsIInv ==
  ASSUME IInv, NEW v \in DOMAIN cases, StartAttempt(v)
  PROVE  IInv'
<1>1. PICK method \in {<<"card">>} \cup OtherMethods :
        cases' = [cases EXCEPT ![v] = [@ EXCEPT !.status = "calling", !.try = 1, !.method = method]]
  BY DEF StartAttempt, Alternates
<1>. DEFINE c == [cases[v] EXCEPT !.status = "calling", !.try = 1, !.method = method]
<1>2. \A u \in DOMAIN cases : IsCase(cases[u]) /\ cases[u].method \in {<<"card">>} \cup OtherMethods
  BY DEF IInv, CasesAreRecords, MethodsAreNamed
<1>3. IsCase(c) /\ c.method = method
  BY <1>2 DEF IsCase
<1>. HIDE DEF c
<1>4. cases' = [cases EXCEPT ![v] = c]
  BY <1>1 DEF c
<1>5. UNCHANGED <<proc, payments>>
  BY DEF StartAttempt, world
<1> QED
  BY <1>2, <1>3, <1>4, <1>5, CasesKeepTheirMethods

\* Every action.
LEMMA NextKeepsIInv == IInv /\ [Next]_vars => IInv'
<1>. SUFFICES ASSUME IInv, [Next]_vars PROVE IInv'
  OBVIOUS
<1>1. CASE \E b \in Bills : OwnPayment(b)
  BY <1>1, OwnPaymentKeepsIInv
<1>2. CASE \E i \in Numbers :
             Settle(i) \/ Refund(i) \/ OpenDispute(i) \/ WinDispute(i) \/ LoseDispute(i)
  BY <1>2, ProcessorKeepsIInv
<1>3. CASE \E i \in Numbers : FeedFailure(i)
  BY <1>3, OpenedKeepsIInv DEF FeedFailure, world
<1>4. CASE \E w \in wire, lookup \in Lookups : Deliver(w, lookup)
  BY <1>4, OpenedKeepsIInv DEF Deliver
<1>5. CASE \E v \in DOMAIN cases : StartAttempt(v)
  BY <1>5, StartAttemptKeepsIInv
<1>6. CASE \E v \in DOMAIN cases : Charge(v)
  BY <1>6, ChargeKeepsIInv
<1>7. CASE \E v \in DOMAIN cases : ChargeThrows(v)
  BY <1>7, AnsweredKeepsIInv DEF ChargeThrows, world
<1>8. CASE UNCHANGED vars
  <2>1. UNCHANGED <<proc, payments>> /\ cases' = cases
    BY <1>8 DEF vars
  <2> QED
    BY <2>1, CasesKeepTheirMethods DEF IInv, CasesAreRecords, MethodsAreNamed
<1> QED
  BY <1>1, <1>2, <1>3, <1>4, <1>5, <1>6, <1>7, <1>8 DEF Next

\* What is a payment and what is a case, keys that are unique and methods that are named, in
\* every state (attemptRecovery and the attemptCharge of every adapter).
THEOREM InvariantHolds == Spec => []IInv
BY InitImpliesIInv, NextKeepsIInv, PTL DEF Spec

\* One key moves money once, for any processor served, however many tries a charge has
\* and whatever answers are lost (RequestFor, attemptCharge of every adapter).
THEOREM KeysMoveMoneyOnce == Spec => []OncePerKey
<1>1. IInv => OncePerKey
  BY DEF IInv, KeysAreUnique, TakesKeys, OncePerKey
<1> QED
  BY <1>1, InvariantHolds, PTL

\* The method charged is the method of the attempt (attemptCharge, listPaymentMethods).
THEOREM ChosenMethodIsCharged == Spec => []MethodIsHonoured
<1>1. IInv => MethodIsHonoured
  BY DEF IInv, MethodsAreNamed, TakesMethods, MethodIsHonoured
<1> QED
  BY <1>1, InvariantHolds, PTL

-----------------------------------------------------------------------------
(* Objects and the chains of fields they are read by.                       *)

\* The first field of a chain that is there, and what is taken if none is.
LEMMA FirstThere ==
  ASSUME NEW n, NEW chain, NEW d, Len(chain) \in Nat, NEW k \in 1..Len(chain),
         chain[k] \in DOMAIN n, \A j \in 1..(k - 1) : chain[j] \notin DOMAIN n
  PROVE  FirstOf(n, chain, d) = n[chain[k]]
<1>. DEFINE I == {i \in 1..Len(chain) : chain[i] \in DOMAIN n}
<1>1. k \in I /\ \A i \in I : k <= i
  OBVIOUS
<1>2. Min(I) = k
  BY <1>1 DEF Min
<1> QED
  BY <1>1, <1>2 DEF FirstOf, SelectInSeq

\* None of the fields is there.
LEMMA NoneThere ==
  ASSUME NEW n, NEW chain, NEW d,
         \A j \in 1..Len(chain) : chain[j] \notin DOMAIN n
  PROVE  FirstOf(n, chain, d) = d
BY DEF FirstOf, SelectInSeq

\* The chains the adapters have, of one field, of two and of three.
LEMMA OfOne ==
  ASSUME NEW n, NEW f, NEW d
  PROVE  FirstOf(n, <<f>>, d) = IF f \in DOMAIN n THEN n[f] ELSE d
<1>. DEFINE chain == <<f>>
<1>1. Len(chain) = 1 /\ chain[1] = f
  OBVIOUS
<1>. HIDE DEF chain
<1>2. CASE f \in DOMAIN n
  BY <1>1, <1>2, FirstThere DEF chain
<1>3. CASE f \notin DOMAIN n
  BY <1>1, <1>3, NoneThere DEF chain
<1> QED
  BY <1>2, <1>3

\* The same of two fields.
LEMMA OfTwo ==
  ASSUME NEW n, NEW f, NEW g, NEW d
  PROVE  FirstOf(n, <<f, g>>, d) =
           IF f \in DOMAIN n THEN n[f] ELSE IF g \in DOMAIN n THEN n[g] ELSE d
<1>. DEFINE chain == <<f, g>>
<1>1. Len(chain) = 2 /\ chain[1] = f /\ chain[2] = g
  OBVIOUS
<1>. HIDE DEF chain
<1>2. CASE f \in DOMAIN n
  BY <1>1, <1>2, FirstThere DEF chain
<1>3. CASE f \notin DOMAIN n /\ g \in DOMAIN n
  <2>1. \A j \in 1..(2 - 1) : chain[j] \notin DOMAIN n
    BY <1>1, <1>3
  <2> QED
    BY <1>1, <1>3, <2>1, FirstThere DEF chain
<1>4. CASE f \notin DOMAIN n /\ g \notin DOMAIN n
  BY <1>1, <1>4, NoneThere DEF chain
<1> QED
  BY <1>2, <1>3, <1>4

\* The same of three fields.
LEMMA OfThree ==
  ASSUME NEW n, NEW f, NEW g, NEW h, NEW d
  PROVE  FirstOf(n, <<f, g, h>>, d) =
           IF f \in DOMAIN n THEN n[f] ELSE IF g \in DOMAIN n THEN n[g]
           ELSE IF h \in DOMAIN n THEN n[h] ELSE d
<1>. DEFINE chain == <<f, g, h>>
<1>1. Len(chain) = 3 /\ chain[1] = f /\ chain[2] = g /\ chain[3] = h
  OBVIOUS
<1>. HIDE DEF chain
<1>2. CASE f \in DOMAIN n
  BY <1>1, <1>2, FirstThere DEF chain
<1>3. CASE f \notin DOMAIN n /\ g \in DOMAIN n
  <2>1. \A j \in 1..(2 - 1) : chain[j] \notin DOMAIN n
    BY <1>1, <1>3
  <2> QED
    BY <1>1, <1>3, <2>1, FirstThere DEF chain
<1>4. CASE f \notin DOMAIN n /\ g \notin DOMAIN n /\ h \in DOMAIN n
  <2>1. \A j \in 1..(3 - 1) : chain[j] \notin DOMAIN n
    BY <1>1, <1>4
  <2> QED
    BY <1>1, <1>4, <2>1, FirstThere DEF chain
<1>5. CASE f \notin DOMAIN n /\ g \notin DOMAIN n /\ h \notin DOMAIN n
  BY <1>1, <1>5, NoneThere DEF chain
<1> QED
  BY <1>2, <1>3, <1>4, <1>5

\* A code that one row of a table has, and a text whose first word is of one rule.
LEMMA InTable ==
  ASSUME NEW table, NEW code, NEW c \in DOMAIN table, code \in table[c],
         \A d \in DOMAIN table : code \in table[d] => d = c
  PROVE  ByTable(table, code) = c
BY DEF ByTable

\* The same of the rules that a text is read by: the first that has one of its words.
LEMMA InRules ==
  ASSUME NEW rules, NEW text, Len(rules) \in Nat, NEW k \in 1..Len(rules),
         rules[k][1] \cap text # {}, \A j \in 1..(k - 1) : rules[j][1] \cap text = {}
  PROVE  ByRules(rules, text) = rules[k][2]
<1>. DEFINE I == {i \in 1..Len(rules) : rules[i][1] \cap text # {}}
<1>1. k \in I /\ \A i \in I : k <= i
  OBVIOUS
<1>2. Min(I) = k
  BY <1>1 DEF Min
<1> QED
  BY <1>1, <1>2 DEF ByRules, SelectInSeq

-----------------------------------------------------------------------------
(* What an adapter makes of the webhooks of its processor.                  *)

\* An occurrence, and the invoice that what is told of it goes by.
Whats == {"failed", "paid", "refunded", "disputed", "won", "lost"}
Occurs(o) ==
  /\ o.what \in Whats
  /\ o.reference \in Ids \cup {None}
  /\ o.total \in Nat
  /\ o.what = "refunded" => o.total > 0
  /\ proc \in {"worldpay", "braintree"} => o.reference # None

IdOf(o) ==
  CASE proc = "maxio" -> Subscription
    [] proc = "braintree" -> IF o.reference = Invoice(o) THEN Subscription ELSE o.reference
    [] proc = "shopify" -> Payment(o)
    [] proc \in {"paypal", "checkout"} -> IF o.reference = None THEN Payment(o) ELSE o.reference
    [] proc \in {"worldpay", "adyen"} -> o.reference
    [] OTHER -> Invoice(o)

TellsDead == proc \notin {"stripe", "recurly", "gocardless"}

\* What an event says of the occurrence it is about.
Faithful(o, e) ==
  /\ IF e.type \in EventTypes
     THEN \/ e.invoice = IdOf(o)
          \/ proc = "checkout" /\ o.what \in {"disputed", "won"} /\ e.invoice = Payment(o)
     ELSE e.invoice = None
  /\ e.type \in EventTypes => o.what \in DOMAIN EventOf /\ e.type = EventOf[o.what]
  /\ e.type = "invoice.failed" <=> o.what = "failed"
  /\ e.type = "invoice.paid" <=> o.what = "paid"
  /\ TellsDead /\ o.what = "failed" /\ o.reason = "dead" => ~ RetriableCode(e.kind)

\* What of a payment an adapter has both a webhook and a case for, whatever else happens.
Learnable(o) ==
  CASE proc \in {"paypal", "checkout", "adyen"} -> DOMAIN EventOf
    [] proc \in {"stripe", "chargebee", "recurly", "maxio", "worldpay", "woocommerce"} ->
         {"failed", "paid", "refunded"}
    [] proc = "braintree" ->
         IF o.reference = Invoice(o) THEN {"failed", "paid"} ELSE {"disputed", "won"}
    [] proc \in {"zuora", "shopify"} \cup Advisory -> {"failed", "paid"}
    [] OTHER -> {}

\* An event that says of an occurrence that it happened; and the events of an occurrence, all
\* faithful to it, one of which says so if it is one that is learnt.
Tells(o, e) == Faithful(o, e) /\ e.type = EventOf[o.what]
Told(o, events) ==
  /\ \A e \in events : Faithful(o, e)
  /\ o.what \in Learnable(o) => \E e \in events : e.type = EventOf[o.what]

\* The adapters that report of a return what went back by it, and no more than once.
Itemised == proc \notin {"stripe", "woocommerce", "gocardless", "adyen"}

\* What becomes of a refund, which the unit it returned tells from the others.
RefundId(o) ==
  CASE proc = "chargebee" -> Id("payment_refunded", o)
    [] proc = "recurly" -> <<"refund", o.pay, o.total>>
    [] proc = "maxio" -> Id("refund_success", o)
    [] proc = "paypal" -> Id("PAYMENT.CAPTURE.REFUNDED", o)
    [] proc = "checkout" -> Id("payment_refunded", o)
    [] OTHER -> Id("payment.refunded", o)
RefundOf(o) == Refunded(RefundId(o), IdOf(o), 1)

\* What an occurrence takes back: a refund its unit, a dispute the bill, once each.
Reverses(o, events) ==
  LET back == {e \in events : e.type = "payment.reversed"}
  IN /\ o.what = "refunded" => back \subseteq {RefundOf(o)}
     /\ o.what = "disputed" => \A e, f \in back : e = f /\ e.amount = BillAmount
     /\ o.what \notin {"refunded", "disputed"} => back = {}

\* The canonical event of each.
LEMMA EventNames ==
  /\ DOMAIN EventOf = {"failed", "paid", "refunded", "disputed", "won"}
  /\ EventOf["failed"] = "invoice.failed" /\ EventOf["paid"] = "invoice.paid"
  /\ EventOf["refunded"] = "payment.reversed" /\ EventOf["disputed"] = "payment.reversed"
  /\ EventOf["won"] = "payment.reversal_reverted"
BY DEF EventOf

\* A failure that says why is told if the dead card is no code that can be tried again.
LEMMA FailureIsTold ==
  ASSUME NEW o, o.what = "failed", NEW id, NEW ref, NEW customer, NEW decline, ref = IdOf(o),
         TellsDead /\ o.reason = "dead" => ~ RetriableCode(decline)
  PROVE  /\ Tells(o, Failed(id, InvoiceFor(ref, customer), decline))
         /\ Tells(o, AdvisoryFailed(id, InvoiceFor(ref, customer), decline))
BY EventNames
   DEF Tells, Faithful, Failed, AdvisoryFailed, InvoiceFor, CanonicalEvent, EventTypes

\* A payment that is told under its invoice is.
LEMMA PaymentIsTold ==
  ASSUME NEW o, o.what = "paid", NEW id, NEW ref, NEW customer, ref = IdOf(o)
  PROVE  Tells(o, Paid(id, InvoiceFor(ref, customer)))
BY EventNames DEF Tells, Faithful, Paid, InvoiceFor, CanonicalEvent, EventTypes

\* So is money that went back or is disputed,
LEMMA ReturnIsTold ==
  ASSUME NEW o, o.what \in {"refunded", "disputed"}, NEW id, NEW ref, NEW amount,
         ref = IdOf(o) \/ (proc = "checkout" /\ o.what # "refunded" /\ ref = Payment(o))
  PROVE  Tells(o, Refunded(id, ref, amount)) /\ Tells(o, ChargedBack(id, ref, amount))
BY EventNames DEF Tells, Faithful, Refunded, ChargedBack, CanonicalEvent, EventTypes

\* and a dispute that was won.
LEMMA WonIsTold ==
  ASSUME NEW o, o.what = "won", NEW id, NEW ref, NEW amount,
         ref = IdOf(o) \/ (proc = "checkout" /\ ref = Payment(o))
  PROVE  Tells(o, Reinstated(id, ref, amount))
BY EventNames DEF Tells, Faithful, Reinstated, CanonicalEvent, EventTypes

\* A change of the subscription says nothing of an invoice,
LEMMA ChurnIsTold ==
  ASSUME NEW o, o.what \notin {"failed", "paid"} \cup Learnable(o), NEW id
  PROVE  Told(o, {SubscriptionUpdated(id)}) /\ Reverses(o, {SubscriptionUpdated(id)})
BY DEF Told, Faithful, Reverses, SubscriptionUpdated, CanonicalEvent, EventTypes

\* and a webhook that becomes nothing is of what is not learnt.
LEMMA NothingIsTold ==
  ASSUME NEW o, o.what \notin Learnable(o)
  PROVE  Told(o, {}) /\ Reverses(o, {})
BY DEF Told, Reverses

\* What is told of a collection takes nothing back.
LEMMA CollectionTakesNothingBack ==
  ASSUME NEW o, o.what \in {"failed", "paid"}, NEW events, Told(o, events)
  PROVE  Reverses(o, events)
<1>1. \A e \in events : e.type # "payment.reversed"
  BY EventNames DEF Told, Faithful, EventTypes
<1> QED
  BY <1>1 DEF Reverses

\* Chargebee (ingestWebhook, canonicalise).
LEMMA ChargebeeTells ==
  ASSUME proc = "chargebee", NEW o, Occurs(o), NEW detailed \in BOOLEAN,
         NEW n \in ChargebeeWebhooks(o, detailed)
  PROVE  Told(o, ChargebeeIngest(n)) /\ Reverses(o, ChargebeeIngest(n))
<1>0. IdOf(o) = Invoice(o) /\ Invoice(o) # None
  BY DEF IdOf, Invoice, None
<1>1. CASE o.what = "failed"
  <2>1. /\ n.event = "payment_failed"
        /\ "invoice" \in DOMAIN n /\ n["invoice"] = Invoice(o)
        /\ "error_code" \in DOMAIN n
        /\ o.reason = "dead" => n["error_code"] = "stolen_card"
    BY <1>1 DEF ChargebeeWebhooks, When, Named, HasOne, Native, ++, Only, Why
  <2>2. Ref(n, <<"invoice">>) = Invoice(o) /\ Code(n, <<"error_code">>) = n["error_code"]
    BY <2>1, OfOne DEF Ref, Code
  <2>3. ChargebeeIngest(n) = {Failed(n.id, ChargebeeInvoice(n), ChargebeeDecline(n))}
    BY <1>0, <2>1, <2>2 DEF ChargebeeIngest, ChargebeeInvoice, InvoiceFor, When
  <2>4. ByTable(ChargebeeDeclines, "stolen_card") = "stolen_card"
    BY InTable DEF ChargebeeDeclines
  <2>5. o.reason = "dead" => ~ RetriableCode(ChargebeeDecline(n))
    BY <2>1, <2>2, <2>4 DEF ChargebeeDecline, RetriableCode, HardCodes
  <2>6. Told(o, ChargebeeIngest(n))
    BY <1>0, <1>1, <2>2, <2>3, <2>5, FailureIsTold DEF ChargebeeInvoice, Told, Tells
  <2>7. Reverses(o, ChargebeeIngest(n))
    BY <1>1, <2>3 DEF Reverses, Failed, CanonicalEvent
  <2> QED
    BY <2>6, <2>7
<1>2. CASE o.what = "paid"
  <2>1. /\ n.event = "payment_succeeded" /\ "invoice" \in DOMAIN n /\ n["invoice"] = Invoice(o)
    BY <1>2 DEF ChargebeeWebhooks, When, Named, HasOne, Native, ++, Only, Why
  <2>2. Ref(n, <<"invoice">>) = Invoice(o)
    BY <2>1, OfOne DEF Ref
  <2>3. ChargebeeIngest(n) = {Paid(n.id, ChargebeeInvoice(n))}
    BY <1>0, <2>1, <2>2 DEF ChargebeeIngest, ChargebeeInvoice, InvoiceFor, When
  <2>4. Told(o, ChargebeeIngest(n))
    BY <1>0, <1>2, <2>2, <2>3, PaymentIsTold DEF ChargebeeInvoice, Told, Tells
  <2>5. Reverses(o, ChargebeeIngest(n))
    BY <1>2, <2>3 DEF Reverses, Paid, CanonicalEvent
  <2> QED
    BY <2>4, <2>5
<1>3. CASE o.what = "refunded"
  <2>1. /\ n.event = "payment_refunded" /\ n.id = Id("payment_refunded", o)
        /\ "invoice" \in DOMAIN n /\ n["invoice"] = Invoice(o)
        /\ "amount" \in DOMAIN n /\ n["amount"] = 1
        /\ "txn_type" \in DOMAIN n => n["txn_type"] = "refund"
    <3>1. CASE detailed
      BY <1>3, <3>1 DEF ChargebeeWebhooks, When, Named, HasOne, Native, ++, Only, Why
    <3>2. CASE ~ detailed
      BY <1>3, <3>2 DEF ChargebeeWebhooks, When, Named, HasOne, Native, ++, Only, Why
    <3> QED
      BY <3>1, <3>2
  <2>2. Ref(n, <<"invoice">>) = Invoice(o) /\ FirstOf(n, <<"txn_type">>, "refund") = "refund"
    BY <2>1, OfOne DEF Ref
  <2>3. ChargebeeIngest(n) = {Refunded(n.id, Invoice(o), n.amount)}
    BY <1>0, <2>1, <2>2 DEF ChargebeeIngest, ChargebeeInvoice, InvoiceFor, When
  <2>4. Told(o, ChargebeeIngest(n))
    BY <1>0, <1>3, <2>1, <2>3, ReturnIsTold DEF Told, Tells
  <2>5. Reverses(o, ChargebeeIngest(n))
    BY <1>0, <1>3, <2>1, <2>3 DEF Reverses, RefundOf, RefundId, Refunded, CanonicalEvent
  <2> QED
    BY <2>4, <2>5
<1> QED
  BY <1>1, <1>2, <1>3 DEF ChargebeeWebhooks, When, HasOne

\* Stripe (ingestWebhook): a dispute leads to its invoice only through a lookup that may fail.
LEMMA StripeTells ==
  ASSUME proc = "stripe", NEW o, Occurs(o), NEW detailed \in BOOLEAN, NEW lookup \in BOOLEAN,
         NEW n \in StripeWebhooks(o, detailed)
  PROVE  Told(o, StripeIngest(n, lookup))
<1>0. IdOf(o) = Invoice(o) /\ Invoice(o) # None /\ ~ TellsDead
  <2>1. IdOf(o) = Invoice(o)
    BY DEF IdOf
  <2>2. Invoice(o) # None
    BY DEF Invoice, None
  <2> QED
    BY <2>1, <2>2 DEF TellsDead
<1>5. o.what \in {"disputed", "won", "lost"} => o.what \notin Learnable(o)
  BY DEF Learnable
<1>1. CASE o.what = "failed"
  <2>1. /\ n.event \in {"invoice.payment_failed", "charge.failed"} /\ n.invoice_id = Invoice(o)
        /\ "invoice" \in DOMAIN n /\ n["invoice"] = Invoice(o)
    BY <1>1, SMTT(30) DEF StripeWebhooks, Named, HasOne, Native, ++, Only, Why
  <2>2. Ref(n, <<"invoice", "charge">>) = Invoice(o)
    BY <2>1, OfTwo DEF Ref
  <2>3. StripeIngest(n, lookup) \in
          {{Failed(n.id, inv, StripeDecline(n))} : inv \in {StripeInvoice(n), StripeChargeInvoice(n)}}
    BY <2>1 DEF StripeIngest
  <2> QED
    BY <1>0, <1>1, <2>1, <2>2, <2>3, FailureIsTold
       DEF StripeInvoice, StripeChargeInvoice, Told, Tells
<1>2. CASE o.what = "paid"
  <2>1. /\ n.event \in {"invoice.paid", "charge.succeeded"} /\ n.invoice_id = Invoice(o)
        /\ "invoice" \in DOMAIN n /\ n["invoice"] = Invoice(o)
    BY <1>2, SMTT(30) DEF StripeWebhooks, Named, HasOne, Native, ++, Only, Why
  <2>2. Ref(n, <<"invoice", "charge">>) = Invoice(o)
    BY <2>1, OfTwo DEF Ref
  <2>3. StripeIngest(n, lookup) \in
          {{Paid(n.id, inv)} : inv \in {StripeInvoice(n), StripeChargeInvoice(n)}}
    BY <2>1 DEF StripeIngest
  <2> QED
    BY <1>0, <1>2, <2>1, <2>2, <2>3, PaymentIsTold
       DEF StripeInvoice, StripeChargeInvoice, Told, Tells
<1>3. CASE o.what = "refunded"
  <2>1. /\ n.event = "charge.refunded" /\ "invoice" \in DOMAIN n /\ n["invoice"] = Invoice(o)
        /\ "newest" \in DOMAIN n => n["newest"] = 1
        /\ "amount_refunded" \in DOMAIN n /\ n["amount_refunded"] = o.total
    <3>1. CASE detailed
      BY <1>3, <3>1, SMTT(30) DEF StripeWebhooks, Named, HasOne, Native, ++, Only, Why
    <3>2. CASE ~ detailed
      BY <1>3, <3>2, SMTT(30) DEF StripeWebhooks, Named, HasOne, Native, ++, Only, Why
    <3> QED
      BY <3>1, <3>2
  <2>2. /\ Ref(n, <<"invoice">>) = Invoice(o)
        /\ Amount(n, <<"newest", "amount_refunded">>) \in {1, o.total}
    BY <2>1, OfOne, OfTwo DEF Ref, Amount
  <2>3. o.total > 0
    BY <1>3 DEF Occurs
  <2>4. \E amount : StripeIngest(n, lookup) = {Refunded(n.id, Invoice(o), amount)}
    BY <1>0, <2>1, <2>2, <2>3 DEF StripeIngest, When
  <2> QED
    BY <1>0, <1>3, <2>4, ReturnIsTold DEF Told, Tells
<1>4. CASE o.what \in {"disputed", "won", "lost"}
  <2>1. /\ n.event = IF o.what = "disputed" THEN "charge.dispute.created" ELSE "charge.dispute.closed"
        /\ n.status = IF o.what = "lost" THEN "lost" ELSE "won"
        /\ "invoice" \in DOMAIN n /\ n["invoice"] = Invoice(o)
    <3>1. CASE o.what = "disputed"
      BY <3>1, SMTT(30) DEF StripeWebhooks, Named, HasOne, Native, ++, Only, Why
    <3>2. CASE o.what = "won"
      BY <3>2, SMTT(30) DEF StripeWebhooks, Named, HasOne, Native, ++, Only, Why
    <3>3. CASE o.what = "lost"
      BY <3>3, SMTT(30) DEF StripeWebhooks, Named, HasOne, Native, ++, Only, Why
    <3> QED
      BY <1>4, <3>1, <3>2, <3>3
  <2>2. Ref(n, <<"invoice">>) = Invoice(o)
    BY <2>1, OfOne DEF Ref
  <2>3. \/ StripeIngest(n, lookup) = {}
        \/ o.what = "disputed" /\ StripeIngest(n, lookup) = {ChargedBack(n.id, Invoice(o), n.amount)}
        \/ o.what = "won" /\ StripeIngest(n, lookup) = {Reinstated(n.id, Invoice(o), n.amount)}
    BY <1>4, <2>1, <2>2 DEF StripeIngest, StripeDisputed, When
  <2> QED
    BY <1>0, <1>4, <1>5, <2>3, ReturnIsTold, WonIsTold, NothingIsTold DEF Told, Tells
<1> QED
  BY <1>1, <1>2, <1>3, <1>4 DEF Occurs, Whats

\* The invoice of a Recurly notification: of its invoice block or, for want of one, of its transaction.
LEMMA RecurlyRef ==
  ASSUME NEW n
  PROVE  /\ "uuid" \in DOMAIN n => RecurlyNotification(n).invoiceId = n["uuid"]
         /\ {"uuid", "number"} \cap DOMAIN n = {} /\ "txn_invoice_id" \in DOMAIN n
              => RecurlyNotification(n).invoiceId = n["txn_invoice_id"]
<1>. DEFINE chain == <<"uuid", "number", "txn_invoice_id", "txn_invoice_number">>
<1>1. RecurlyNotification(n).invoiceId = FirstOf(n, chain, None)
  BY DEF RecurlyNotification, Ref
<1>2. Len(chain) = 4 /\ chain[1] = "uuid" /\ chain[2] = "number" /\ chain[3] = "txn_invoice_id"
  OBVIOUS
<1>. HIDE DEF chain
<1>3. CASE "uuid" \in DOMAIN n
  BY <1>1, <1>2, <1>3, FirstThere
<1>4. CASE {"uuid", "number"} \cap DOMAIN n = {} /\ "txn_invoice_id" \in DOMAIN n
  <2>1. \A j \in 1..(3 - 1) : chain[j] \notin DOMAIN n
    BY <1>2, <1>4
  <2>2. FirstOf(n, chain, None) = n[chain[3]]
    BY <1>2, <1>4, <2>1, FirstThere
  <2> QED
    BY <1>1, <1>2, <1>4, <2>2
<1> QED
  BY <1>3, <1>4

\* Recurly (ingestWebhook): what it declined for is not told by a code of its own.
LEMMA RecurlyTells ==
  ASSUME proc = "recurly", NEW o, Occurs(o), NEW detailed \in BOOLEAN,
         NEW n \in RecurlyWebhooks(o, detailed)
  PROVE  Told(o, RecurlyIngest(n)) /\ Reverses(o, RecurlyIngest(n))
<1>0. /\ IdOf(o) = Invoice(o) /\ Invoice(o) # None /\ ~ TellsDead
      /\ RecurlyNotification(n).type = n.event
  BY DEF IdOf, Invoice, None, TellsDead, RecurlyNotification
<1>1. CASE o.what = "failed"
  <2>1. /\ n.event = "failed_payment_notification" /\ "uuid" \in DOMAIN n /\ n["uuid"] = Invoice(o)
    BY <1>1 DEF RecurlyWebhooks, When, Named, HasOne, Native, ++, Only, Why
  <2>2. RecurlyNotification(n).invoiceId = Invoice(o)
    BY <2>1, RecurlyRef
  <2>3. \E id, customer : RecurlyIngest(n) = {Failed(id, InvoiceFor(Invoice(o), customer), RecurlyDecline(n))}
    BY <1>0, <2>1, <2>2 DEF RecurlyIngest, RecurlyNotificationInvoice
  <2>4. Told(o, RecurlyIngest(n))
    BY <1>0, <1>1, <2>3, FailureIsTold DEF Told, Tells
  <2>5. Reverses(o, RecurlyIngest(n))
    BY <1>1, <2>3 DEF Reverses, Failed, CanonicalEvent
  <2> QED
    BY <2>4, <2>5
<1>2. CASE o.what = "paid"
  <2>1. /\ n.event = "successful_payment_notification"
        /\ "uuid" \in DOMAIN n /\ n["uuid"] = Invoice(o)
    BY <1>2 DEF RecurlyWebhooks, When, Named, HasOne, Native, ++, Only, Why
  <2>2. RecurlyNotification(n).invoiceId = Invoice(o)
    BY <2>1, RecurlyRef
  <2>3. \E id, customer : RecurlyIngest(n) = {Paid(id, InvoiceFor(Invoice(o), customer))}
    BY <1>0, <2>1, <2>2 DEF RecurlyIngest, RecurlyNotificationInvoice
  <2>4. Told(o, RecurlyIngest(n))
    BY <1>0, <1>2, <2>3, PaymentIsTold DEF Told, Tells
  <2>5. Reverses(o, RecurlyIngest(n))
    BY <1>2, <2>3 DEF Reverses, Paid, CanonicalEvent
  <2> QED
    BY <2>4, <2>5
<1>3. CASE o.what = "refunded"
  <2>1. /\ n.event = "successful_refund_notification"
        /\ "uuid" \notin DOMAIN n /\ "number" \notin DOMAIN n
        /\ "txn_invoice_id" \in DOMAIN n /\ n["txn_invoice_id"] = Invoice(o)
        /\ "txn_amount" \in DOMAIN n /\ n["txn_amount"] = 1
        /\ "txn_uuid" \in DOMAIN n /\ n["txn_uuid"] = <<"refund", o.pay, o.total>>
    BY <1>3 DEF RecurlyWebhooks, When, Named, HasOne, Native, ++, Only, Why
  <2>2. RecurlyNotification(n).invoiceId = Invoice(o)
    BY <2>1, RecurlyRef
  <2>3. /\ RecurlyNotification(n).amount = 1
        /\ RecurlyNotification(n).transactionId = RefundId(o) /\ RefundId(o) # None
    BY <2>1, OfTwo DEF Amount, Ref, RecurlyNotification, RefundId, None
  <2>4. RecurlyIngest(n) = {Refunded(RefundId(o), Invoice(o), 1)}
    BY <1>0, <2>1, <2>2, <2>3 DEF RecurlyIngest, When
  <2>5. Told(o, RecurlyIngest(n))
    BY <1>0, <1>3, <2>4, ReturnIsTold DEF Told, Tells
  <2>6. Reverses(o, RecurlyIngest(n))
    BY <1>0, <1>3, <2>4 DEF Reverses, RefundOf, RefundId, Refunded, CanonicalEvent
  <2> QED
    BY <2>5, <2>6
<1> QED
  BY <1>1, <1>2, <1>3 DEF RecurlyWebhooks, When, HasOne

\* What each adapter reads in the text of a card its processor called dead (zuora/adapter.ts).
LEMMA ZuoraDead == ByRules(ZuoraRules, {"stolen", "declined"}) = "stolen_card"
<1>. DEFINE words == {"stolen", "declined"}
<1>1. /\ Len(ZuoraRules) = 7 /\ ZuoraRules[4][2] = "stolen_card"
      /\ ZuoraRules[1][1] \cap words = {} /\ ZuoraRules[2][1] \cap words = {}
      /\ ZuoraRules[3][1] \cap words = {}
      /\ ZuoraRules[4][1] \cap words # {}
  BY DEF ZuoraRules
<1>. DEFINE first == 4
<1>. HIDE DEF words
<1>2. /\ Len(ZuoraRules) \in Nat /\ first \in 1..Len(ZuoraRules)
      /\ \A j \in 1..(first - 1) : ZuoraRules[j][1] \cap words = {}
      /\ ZuoraRules[first][1] \cap words # {}
  BY <1>1
<1>. HIDE DEF first
<1>3. ByRules(ZuoraRules, words) = ZuoraRules[first][2]
  BY <1>2, InRules
<1> QED
  BY <1>1, <1>3 DEF words, first

\* Zuora (ingestWebhook).
LEMMA ZuoraTells ==
  ASSUME proc = "zuora", NEW o, Occurs(o), NEW detailed \in BOOLEAN,
         NEW n \in ZuoraWebhooks(o, detailed)
  PROVE  Told(o, ZuoraIngest(n)) /\ Reverses(o, ZuoraIngest(n))
<1>0. IdOf(o) = Invoice(o)
  BY DEF IdOf
<1>1. CASE o.what = "failed"
  <2>1. /\ n.event = "paymentfailed" /\ "invoice" \in DOMAIN n /\ n["invoice"] = Invoice(o)
        /\ "gatewayResponse" \in DOMAIN n
        /\ o.reason = "dead" => n["gatewayResponse"] = {"stolen", "declined"}
    BY <1>1 DEF ZuoraWebhooks, Named, Native, ++, Only, Why, Says
  <2>2. /\ Ref(n, <<"invoice">>) = Invoice(o)
        /\ Text(n, <<"gatewayResponse", "gatewayResponseCode">>) = n["gatewayResponse"]
    BY <2>1, OfOne, OfTwo DEF Ref, Text
  <2>3. \E id : ZuoraIngest(n) = {Failed(id, ZuoraCalloutInvoice(n), ZuoraDecline(n))}
    BY <2>1 DEF ZuoraIngest
  <2>4. ByRules(ZuoraRules, {"stolen", "declined"}) = "stolen_card"
    BY ZuoraDead
  <2>5. o.reason = "dead" => ~ RetriableCode(ZuoraDecline(n))
    BY <2>1, <2>2, <2>4 DEF ZuoraDecline, RetriableCode, HardCodes
  <2>6. Told(o, ZuoraIngest(n))
    BY <1>0, <1>1, <2>2, <2>3, <2>5, FailureIsTold DEF ZuoraCalloutInvoice, Told, Tells
  <2> QED
    BY <1>1, <2>6, CollectionTakesNothingBack
<1>2. CASE o.what = "paid"
  <2>1. /\ n.event = "paymentprocessed" /\ "invoice" \in DOMAIN n /\ n["invoice"] = Invoice(o)
    BY <1>2 DEF ZuoraWebhooks, Named, Native, ++, Only, Why, Says
  <2>2. Ref(n, <<"invoice">>) = Invoice(o)
    BY <2>1, OfOne DEF Ref
  <2>3. \E id : ZuoraIngest(n) = {Paid(id, ZuoraCalloutInvoice(n))}
    BY <2>1 DEF ZuoraIngest
  <2>4. Told(o, ZuoraIngest(n))
    BY <1>0, <1>2, <2>2, <2>3, PaymentIsTold DEF ZuoraCalloutInvoice, Told, Tells
  <2> QED
    BY <1>2, <2>4, CollectionTakesNothingBack
<1>3. CASE o.what \notin {"failed", "paid"}
  <2>1. n.event = "other"
    BY <1>3 DEF ZuoraWebhooks, Named, Native, ++, Only, Why, Says
  <2>2. ZuoraIngest(n) = {} /\ o.what \notin Learnable(o)
    BY <1>3, <2>1 DEF ZuoraIngest, Learnable
  <2> QED
    BY <2>2, NothingIsTold
<1> QED
  BY <1>1, <1>2, <1>3 DEF Occurs, Whats

\* Maxio (maxio/adapter.ts).
LEMMA MaxioDead == ByRules(MaxioRules, {"stolen", "declined"}) = "stolen_card"
<1>. DEFINE words == {"stolen", "declined"}
<1>1. /\ Len(MaxioRules) = 6 /\ MaxioRules[4][2] = "stolen_card"
      /\ MaxioRules[1][1] \cap words = {} /\ MaxioRules[2][1] \cap words = {}
      /\ MaxioRules[3][1] \cap words = {}
      /\ MaxioRules[4][1] \cap words # {}
  BY DEF MaxioRules
<1>. DEFINE first == 4
<1>. HIDE DEF words
<1>2. /\ Len(MaxioRules) \in Nat /\ first \in 1..Len(MaxioRules)
      /\ \A j \in 1..(first - 1) : MaxioRules[j][1] \cap words = {}
      /\ MaxioRules[first][1] \cap words # {}
  BY <1>1
<1>. HIDE DEF first
<1>3. ByRules(MaxioRules, words) = MaxioRules[first][2]
  BY <1>2, InRules
<1> QED
  BY <1>1, <1>3 DEF words, first

\* PayPal (paypal/adapter.ts).
LEMMA PayPalDead == ByRules(PayPalRules, {"closed", "declined"}) = "closed_account"
<1>. DEFINE words == {"closed", "declined"}
<1>1. /\ Len(PayPalRules) = 5 /\ PayPalRules[4][2] = "closed_account"
      /\ PayPalRules[1][1] \cap words = {} /\ PayPalRules[2][1] \cap words = {}
      /\ PayPalRules[3][1] \cap words = {}
      /\ PayPalRules[4][1] \cap words # {}
  BY DEF PayPalRules
<1>. DEFINE first == 4
<1>. HIDE DEF words
<1>2. /\ Len(PayPalRules) \in Nat /\ first \in 1..Len(PayPalRules)
      /\ \A j \in 1..(first - 1) : PayPalRules[j][1] \cap words = {}
      /\ PayPalRules[first][1] \cap words # {}
  BY <1>1
<1>. HIDE DEF first
<1>3. ByRules(PayPalRules, words) = PayPalRules[first][2]
  BY <1>2, InRules
<1> QED
  BY <1>1, <1>3 DEF words, first

\* Worldpay.
LEMMA WorldpayDead == ByRules(WorldpayRules, {"stolen card", "issuer"}) = "stolen_card"
<1>. DEFINE words == {"stolen card", "issuer"}
<1>1. /\ Len(WorldpayRules) = 12 /\ WorldpayRules[4][2] = "stolen_card"
      /\ WorldpayRules[1][1] \cap words = {} /\ WorldpayRules[2][1] \cap words = {}
      /\ WorldpayRules[3][1] \cap words = {}
      /\ WorldpayRules[4][1] \cap words # {}
  BY DEF WorldpayRules
<1>. DEFINE first == 4
<1>. HIDE DEF words
<1>2. /\ Len(WorldpayRules) \in Nat /\ first \in 1..Len(WorldpayRules)
      /\ \A j \in 1..(first - 1) : WorldpayRules[j][1] \cap words = {}
      /\ WorldpayRules[first][1] \cap words # {}
  BY <1>1
<1>. HIDE DEF first
<1>3. ByRules(WorldpayRules, words) = WorldpayRules[first][2]
  BY <1>2, InRules
<1> QED
  BY <1>1, <1>3 DEF words, first

\* Adyen.
LEMMA AdyenDead == ByRules(AdyenRules, {"blocked card", "refused"}) = "pickup_card"
<1>. DEFINE words == {"blocked card", "refused"}
<1>1. /\ Len(AdyenRules) = 13 /\ AdyenRules[8][2] = "pickup_card"
      /\ AdyenRules[1][1] \cap words = {} /\ AdyenRules[2][1] \cap words = {}
      /\ AdyenRules[3][1] \cap words = {} /\ AdyenRules[4][1] \cap words = {}
      /\ AdyenRules[5][1] \cap words = {} /\ AdyenRules[6][1] \cap words = {}
      /\ AdyenRules[7][1] \cap words = {}
      /\ AdyenRules[8][1] \cap words # {}
  BY DEF AdyenRules
<1>. DEFINE first == 8
<1>. HIDE DEF words
<1>2. /\ Len(AdyenRules) \in Nat /\ first \in 1..Len(AdyenRules)
      /\ \A j \in 1..(first - 1) : AdyenRules[j][1] \cap words = {}
      /\ AdyenRules[first][1] \cap words # {}
  BY <1>1
<1>. HIDE DEF first
<1>3. ByRules(AdyenRules, words) = AdyenRules[first][2]
  BY <1>2, InRules
<1> QED
  BY <1>1, <1>3 DEF words, first

\* WooCommerce.
LEMMA WooDead == ByRules(WooRules, {"stolen", "declined"}) = "stolen_card"
<1>. DEFINE words == {"stolen", "declined"}
<1>1. /\ Len(WooRules) = 7 /\ WooRules[5][2] = "stolen_card"
      /\ WooRules[1][1] \cap words = {} /\ WooRules[2][1] \cap words = {}
      /\ WooRules[3][1] \cap words = {} /\ WooRules[4][1] \cap words = {}
      /\ WooRules[5][1] \cap words # {}
  BY DEF WooRules
<1>. DEFINE first == 5
<1>. HIDE DEF words
<1>2. /\ Len(WooRules) \in Nat /\ first \in 1..Len(WooRules)
      /\ \A j \in 1..(first - 1) : WooRules[j][1] \cap words = {}
      /\ WooRules[first][1] \cap words # {}
  BY <1>1
<1>. HIDE DEF first
<1>3. ByRules(WooRules, words) = WooRules[first][2]
  BY <1>2, InRules
<1> QED
  BY <1>1, <1>3 DEF words, first

\* BigCommerce.
LEMMA BigCommerceDead == ByRules(AdvisoryRules, {"closed", "declined"}) = "closed_account"
<1>. DEFINE words == {"closed", "declined"}
<1>1. /\ Len(AdvisoryRules) = 16 /\ AdvisoryRules[5][2] = "closed_account"
      /\ AdvisoryRules[1][1] \cap words = {} /\ AdvisoryRules[2][1] \cap words = {}
      /\ AdvisoryRules[3][1] \cap words = {} /\ AdvisoryRules[4][1] \cap words = {}
      /\ AdvisoryRules[5][1] \cap words # {}
  BY DEF AdvisoryRules
<1>. DEFINE first == 5
<1>. HIDE DEF words
<1>2. /\ Len(AdvisoryRules) \in Nat /\ first \in 1..Len(AdvisoryRules)
      /\ \A j \in 1..(first - 1) : AdvisoryRules[j][1] \cap words = {}
      /\ AdvisoryRules[first][1] \cap words # {}
  BY <1>1
<1>. HIDE DEF first
<1>3. ByRules(AdvisoryRules, words) = AdvisoryRules[first][2]
  BY <1>2, InRules
<1> QED
  BY <1>1, <1>3 DEF words, first

\* ThriveCart.
LEMMA ThriveCartDead == ByRules(AdvisoryRules, {"lost", "declined"}) = "lost_card"
<1>. DEFINE words == {"lost", "declined"}
<1>1. /\ Len(AdvisoryRules) = 16 /\ AdvisoryRules[3][2] = "lost_card"
      /\ AdvisoryRules[1][1] \cap words = {} /\ AdvisoryRules[2][1] \cap words = {}
      /\ AdvisoryRules[3][1] \cap words # {}
  BY DEF AdvisoryRules
<1>. DEFINE first == 3
<1>. HIDE DEF words
<1>2. /\ Len(AdvisoryRules) \in Nat /\ first \in 1..Len(AdvisoryRules)
      /\ \A j \in 1..(first - 1) : AdvisoryRules[j][1] \cap words = {}
      /\ AdvisoryRules[first][1] \cap words # {}
  BY <1>1
<1>. HIDE DEF first
<1>3. ByRules(AdvisoryRules, words) = AdvisoryRules[first][2]
  BY <1>2, InRules
<1> QED
  BY <1>1, <1>3 DEF words, first

\* Kajabi.
LEMMA KajabiDead == ByRules(AdvisoryRules, {"pickup", "declined"}) = "pickup_card"
<1>. DEFINE words == {"pickup", "declined"}
<1>1. /\ Len(AdvisoryRules) = 16 /\ AdvisoryRules[6][2] = "pickup_card"
      /\ AdvisoryRules[1][1] \cap words = {} /\ AdvisoryRules[2][1] \cap words = {}
      /\ AdvisoryRules[3][1] \cap words = {} /\ AdvisoryRules[4][1] \cap words = {}
      /\ AdvisoryRules[5][1] \cap words = {}
      /\ AdvisoryRules[6][1] \cap words # {}
  BY DEF AdvisoryRules
<1>. DEFINE first == 6
<1>. HIDE DEF words
<1>2. /\ Len(AdvisoryRules) \in Nat /\ first \in 1..Len(AdvisoryRules)
      /\ \A j \in 1..(first - 1) : AdvisoryRules[j][1] \cap words = {}
      /\ AdvisoryRules[first][1] \cap words # {}
  BY <1>1
<1>. HIDE DEF first
<1>3. ByRules(AdvisoryRules, words) = AdvisoryRules[first][2]
  BY <1>2, InRules
<1> QED
  BY <1>1, <1>3 DEF words, first

\* SamCart.
LEMMA SamCartDead == ByRules(AdvisoryRules, {"revoc", "declined"}) = "revocation_of_authorization"
<1>. DEFINE words == {"revoc", "declined"}
<1>1. /\ Len(AdvisoryRules) = 16 /\ AdvisoryRules[8][2] = "revocation_of_authorization"
      /\ AdvisoryRules[1][1] \cap words = {} /\ AdvisoryRules[2][1] \cap words = {}
      /\ AdvisoryRules[3][1] \cap words = {} /\ AdvisoryRules[4][1] \cap words = {}
      /\ AdvisoryRules[5][1] \cap words = {} /\ AdvisoryRules[6][1] \cap words = {}
      /\ AdvisoryRules[7][1] \cap words = {}
      /\ AdvisoryRules[8][1] \cap words # {}
  BY DEF AdvisoryRules
<1>. DEFINE first == 8
<1>. HIDE DEF words
<1>2. /\ Len(AdvisoryRules) \in Nat /\ first \in 1..Len(AdvisoryRules)
      /\ \A j \in 1..(first - 1) : AdvisoryRules[j][1] \cap words = {}
      /\ AdvisoryRules[first][1] \cap words # {}
  BY <1>1
<1>. HIDE DEF first
<1>3. ByRules(AdvisoryRules, words) = AdvisoryRules[first][2]
  BY <1>2, InRules
<1> QED
  BY <1>1, <1>3 DEF words, first

\* A webhook of Maxio goes by its own id.
LEMMA MaxioId ==
  ASSUME NEW n, "webhook_id" \in DOMAIN n
  PROVE  Ref(n, <<"webhook_id", "transaction", "subscription", "event_id", "refund_id">>) =
           n["webhook_id"]
<1>. DEFINE chain == <<"webhook_id", "transaction", "subscription", "event_id", "refund_id">>
<1>1. Len(chain) = 5 /\ chain[1] = "webhook_id"
  OBVIOUS
<1>. HIDE DEF chain
<1>2. FirstOf(n, chain, None) = n[chain[1]]
  BY <1>1, FirstThere
<1> QED
  BY <1>1, <1>2 DEF Ref, chain

\* Maxio (ingestWebhook): the subscription stands for its bill.
LEMMA MaxioTells ==
  ASSUME proc = "maxio", NEW o, Occurs(o), NEW detailed \in BOOLEAN,
         NEW n \in MaxioWebhooks(o, detailed)
  PROVE  Told(o, MaxioIngest(n)) /\ Reverses(o, MaxioIngest(n))
<1>0. IdOf(o) = Subscription /\ Subscription # None
  BY DEF IdOf, Subscription, None
<1>1. CASE o.what = "failed"
  <2>1. /\ n.event = "payment_failure" /\ "subscription" \in DOMAIN n
        /\ n["subscription"] = Subscription /\ "memo" \in DOMAIN n
        /\ o.reason = "dead" => n["memo"] = {"stolen", "declined"}
    BY <1>1 DEF MaxioWebhooks, When, Named, HasOne, Native, ++, Only, Why, Says
  <2>2. Ref(n, <<"subscription">>) = Subscription /\ Text(n, <<"memo", "message">>) = n["memo"]
    BY <2>1, OfOne, OfTwo DEF Ref, Text
  <2>3. \E id : MaxioIngest(n) = {Failed(id, MaxioInvoice(n), MaxioDecline(n))}
    BY <2>1 DEF MaxioIngest
  <2>4. o.reason = "dead" => ~ RetriableCode(MaxioDecline(n))
    BY <2>1, <2>2, MaxioDead DEF MaxioDecline, RetriableCode, HardCodes
  <2>5. Told(o, MaxioIngest(n))
    BY <1>0, <1>1, <2>2, <2>3, <2>4, FailureIsTold DEF MaxioInvoice, Told, Tells
  <2>6. Reverses(o, MaxioIngest(n))
    BY <1>1, <2>3 DEF Reverses, Failed, CanonicalEvent
  <2> QED
    BY <2>5, <2>6
<1>2. CASE o.what = "paid"
  <2>1. /\ n.event = "payment_success" /\ "subscription" \in DOMAIN n
        /\ n["subscription"] = Subscription
    BY <1>2 DEF MaxioWebhooks, When, Named, HasOne, Native, ++, Only, Why, Says
  <2>2. Ref(n, <<"subscription">>) = Subscription
    BY <2>1, OfOne DEF Ref
  <2>3. \E id : MaxioIngest(n) = {Paid(id, MaxioInvoice(n))}
    BY <2>1 DEF MaxioIngest
  <2>4. Told(o, MaxioIngest(n))
    BY <1>0, <1>2, <2>2, <2>3, PaymentIsTold DEF MaxioInvoice, Told, Tells
  <2>5. Reverses(o, MaxioIngest(n))
    BY <1>2, <2>3 DEF Reverses, Paid, CanonicalEvent
  <2> QED
    BY <2>4, <2>5
<1>3. CASE o.what = "refunded"
  <2>1. /\ n.event = "refund_success" /\ "subscription_id" \in DOMAIN n
        /\ n["subscription_id"] = Subscription
        /\ "amount_in_cents" \in DOMAIN n /\ n["amount_in_cents"] = 1
        /\ "webhook_id" \in DOMAIN n /\ n["webhook_id"] = RefundId(o)
    BY <1>3 DEF MaxioWebhooks, When, Named, HasOne, Native, ++, Only, Why, Says, RefundId
  <2>2. Ref(n, <<"subscription_id">>) = Subscription /\ Amount(n, <<"amount_in_cents">>) = 1
    BY <2>1, OfOne DEF Ref, Amount
  <2>3. MaxioIngest(n) = {Refunded(RefundId(o), Subscription, 1)}
    BY <1>0, <2>1, <2>2, MaxioId DEF MaxioIngest, When
  <2>4. Told(o, MaxioIngest(n))
    BY <1>0, <1>3, <2>3, ReturnIsTold DEF Told, Tells
  <2>5. Reverses(o, MaxioIngest(n))
    BY <1>0, <1>3, <2>3 DEF Reverses, RefundOf, RefundId, Refunded, CanonicalEvent
  <2> QED
    BY <2>4, <2>5
<1> QED
  BY <1>1, <1>2, <1>3 DEF MaxioWebhooks, When, HasOne

\* GoCardless (ingestWebhook): an event without its payment is nothing, but what is told is true.
LEMMA GoCardlessTells ==
  ASSUME proc = "gocardless", NEW o, Occurs(o), NEW detailed \in BOOLEAN, NEW lookup \in BOOLEAN,
         NEW n \in GoCardlessWebhooks(o, detailed)
  PROVE  Told(o, GoCardlessIngest(n, lookup))
<1>0. IdOf(o) = Invoice(o) /\ ~ TellsDead
  BY DEF IdOf, TellsDead
<1>6. Learnable(o) = {}
  BY DEF Learnable, Advisory
<1>1. CASE o.what = "failed"
  <2>1. n.event = "failed" /\ n.payment = Invoice(o)
    BY <1>1 DEF GoCardlessWebhooks, Named, Native, ++, Only, Why
  <2>2. GoCardlessIngest(n, lookup) \in {{}, {Failed(n.id, GoCardlessInvoice(n), GoCardlessDecline(n))}}
    BY <2>1 DEF GoCardlessIngest, GoCardlessPayment
  <2> QED
    BY <1>0, <1>6, <1>1, <2>1, <2>2, FailureIsTold, NothingIsTold DEF GoCardlessInvoice, Told, Tells
<1>2. CASE o.what = "paid"
  <2>1. n.event = "confirmed" /\ n.payment = Invoice(o)
    BY <1>2 DEF GoCardlessWebhooks, Named, Native, ++, Only, Why
  <2>2. GoCardlessIngest(n, lookup) \in {{}, {Paid(n.id, GoCardlessInvoice(n))}}
    BY <2>1 DEF GoCardlessIngest, GoCardlessPayment
  <2> QED
    BY <1>0, <1>6, <1>2, <2>1, <2>2, PaymentIsTold, NothingIsTold DEF GoCardlessInvoice, Told, Tells
<1>3. CASE o.what \in {"refunded", "disputed"}
  <2>1. n.event \in {"refunded", "charged_back"} /\ n.payment = Invoice(o)
    <3>1. CASE o.what = "refunded"
      BY <3>1 DEF GoCardlessWebhooks, Named, Native, ++, Only, Why
    <3>2. CASE o.what = "disputed"
      BY <3>2 DEF GoCardlessWebhooks, Named, Native, ++, Only, Why
    <3> QED
      BY <1>3, <3>1, <3>2
  <2>2. \/ GoCardlessIngest(n, lookup) = {}
        \/ \E amount : GoCardlessIngest(n, lookup) \in {{Refunded(n.id, Invoice(o), amount)},
                                                        {ChargedBack(n.id, Invoice(o), amount)}}
    BY <2>1 DEF GoCardlessIngest, GoCardlessReversal
  <2> QED
    BY <1>0, <1>6, <1>3, <2>2, ReturnIsTold, NothingIsTold DEF Told, Tells
<1>4. CASE o.what = "won"
  <2>1. n.event = "chargeback_cancelled" /\ n.payment = Invoice(o)
    BY <1>4 DEF GoCardlessWebhooks, Named, Native, ++, Only, Why
  <2>2. GoCardlessIngest(n, lookup) \in {{}, {Reinstated(n.id, Invoice(o), n.payment_amount)}}
    BY <2>1 DEF GoCardlessIngest, GoCardlessReverted
  <2> QED
    BY <1>0, <1>6, <1>4, <2>2, WonIsTold, NothingIsTold DEF Told, Tells
<1>5. CASE o.what = "lost"
  <2>1. n.event = "other"
    BY <1>5 DEF GoCardlessWebhooks, Named, Native, ++, Only, Why
  <2>2. GoCardlessIngest(n, lookup) = {}
    BY <2>1 DEF GoCardlessIngest
  <2> QED
    BY <1>0, <1>6, <2>2, NothingIsTold
<1> QED
  BY <1>1, <1>2, <1>3, <1>4, <1>5 DEF Occurs, Whats

\* A code that no row of a table has.
LEMMA NotInTable ==
  ASSUME NEW table, NEW code, \A d \in DOMAIN table : code \notin table[d]
  PROVE  ByTable(table, code) = "unknown"
BY DEF ByTable

\* PayPal (ingestWebhook): by the invoice id of the order, or by the capture.
LEMMA PayPalTells ==
  ASSUME proc = "paypal", NEW o, Occurs(o), NEW detailed \in BOOLEAN,
         NEW n \in PayPalWebhooks(o, detailed)
  PROVE  Told(o, PayPalIngest(n)) /\ Reverses(o, PayPalIngest(n))
<1>. DEFINE ref == IF o.reference = None THEN Payment(o) ELSE o.reference
           names == [failed |-> "PAYMENT.CAPTURE.DENIED", paid |-> "PAYMENT.CAPTURE.COMPLETED",
                     refunded |-> "PAYMENT.CAPTURE.REFUNDED", disputed |-> "CUSTOMER.DISPUTE.CREATED",
                     won |-> "CUSTOMER.DISPUTE.RESOLVED", lost |-> "CUSTOMER.DISPUTE.RESOLVED"]
           word == IF o.what = "lost" THEN "RESOLVED_BUYER_FAVOUR" ELSE "RESOLVED_SELLER_FAVOUR"
           dead == [code |-> "-", text |-> {"closed", "declined"}]
           a == Native(Named(o, names), o)
           b == [resource |-> Payment(o), payer_id |-> Customer, up |-> Payment(o),
                 seller_transaction_id |-> Payment(o),
                 amount |-> IF o.what = "refunded" THEN 1 ELSE BillAmount,
                 outcome |-> word]
           c == With("invoice_id", o.reference)
           d == With("invoice_number", o.reference)
           e == Why(o, "status_reason", [code |-> "insufficient_funds", text |-> {"insufficient"}], dead)
<1>0. IdOf(o) = ref /\ ref # None
  BY DEF IdOf, Payment, None
<1>1. n = a ++ b ++ c ++ d ++ e
  BY DEF PayPalWebhooks
<1>2. DOMAIN a = {"event", "id"} /\ a.event = names[o.what] /\ a.id = Id(names[o.what], o)
  BY DEF Native, Named, Occurs, Whats
<1>3. /\ DOMAIN b = {"resource", "payer_id", "up", "seller_transaction_id", "amount", "outcome"}
      /\ b.resource = Payment(o) /\ b.up = Payment(o) /\ b.seller_transaction_id = Payment(o)
      /\ b.amount = (IF o.what = "refunded" THEN 1 ELSE BillAmount) /\ b.outcome = word
  BY DEF BillAmount
<1>4. /\ o.reference = None => DOMAIN c = {} /\ DOMAIN d = {}
      /\ o.reference # None => /\ DOMAIN c = {"invoice_id"} /\ c["invoice_id"] = ref
                              /\ DOMAIN d = {"invoice_number"} /\ d["invoice_number"] = ref
  BY DEF With, Only
<1>5. /\ DOMAIN e \subseteq {"status_reason"}
      /\ o.what = "failed" => "status_reason" \in DOMAIN e
      /\ o.what = "failed" /\ o.reason = "dead" => e["status_reason"] = dead
  BY DEF Why, Only
<1>6. /\ names["failed"] = "PAYMENT.CAPTURE.DENIED" /\ names["paid"] = "PAYMENT.CAPTURE.COMPLETED"
      /\ names["refunded"] = "PAYMENT.CAPTURE.REFUNDED"
      /\ names["disputed"] = "CUSTOMER.DISPUTE.CREATED" /\ names["won"] = "CUSTOMER.DISPUTE.RESOLVED"
      /\ names["lost"] = "CUSTOMER.DISPUTE.RESOLVED"
  OBVIOUS
<1>7. dead.code = "-" /\ dead.text = {"closed", "declined"}
  OBVIOUS
<1>8. o.reference = None => ref = Payment(o)
  OBVIOUS
<1>. HIDE DEF a, b, c, d, e, names, dead, ref, word
<1>9. DOMAIN n = DOMAIN a \cup DOMAIN b \cup DOMAIN c \cup DOMAIN d \cup DOMAIN e
  BY <1>1 DEF ++
<1>10. \A f \in DOMAIN n : n[f] = IF f \in DOMAIN a THEN a[f] ELSE IF f \in DOMAIN b THEN b[f]
                                 ELSE IF f \in DOMAIN c THEN c[f] ELSE IF f \in DOMAIN d THEN d[f]
                                 ELSE e[f]
  BY <1>1 DEF ++
<1>11. /\ n.event = names[o.what] /\ n.id = Id(names[o.what], o)
       /\ n.amount = (IF o.what = "refunded" THEN 1 ELSE BillAmount) /\ n.amount > 0
       /\ n.outcome = word
       /\ {"custom_id", "custom", "reason"} \cap DOMAIN n = {}
       /\ {"resource", "up", "seller_transaction_id"} \subseteq DOMAIN n
       /\ n["resource"] = Payment(o) /\ n["up"] = Payment(o) /\ n["seller_transaction_id"] = Payment(o)
  BY <1>2, <1>3, <1>4, <1>5, <1>9, <1>10 DEF BillAmount
<1>12. /\ IF o.reference = None THEN "invoice_id" \notin DOMAIN n /\ "invoice_number" \notin DOMAIN n
          ELSE /\ "invoice_id" \in DOMAIN n /\ n["invoice_id"] = ref
               /\ "invoice_number" \in DOMAIN n /\ n["invoice_number"] = ref
       /\ o.what = "failed" => "status_reason" \in DOMAIN n
       /\ o.what = "failed" /\ o.reason = "dead" => n["status_reason"] = dead
  BY <1>2, <1>3, <1>4, <1>5, <1>9, <1>10
<1>13. /\ Ref(n, <<"invoice_id", "custom_id", "resource">>) = ref
       /\ PayPalRefundRef(n) = ref /\ PayPalDisputeRef(n) = ref
  BY <1>8, <1>11, <1>12, OfThree DEF Ref, PayPalRefundRef, PayPalDisputeRef
<1>14. CASE o.what = "failed"
  <2>1. PayPalIngest(n) = {Failed(n.id, PayPalInvoice(n), PayPalDecline(n))}
    BY <1>6, <1>11, <1>14 DEF PayPalIngest
  <2>2. ASSUME o.reason = "dead" PROVE ~ RetriableCode(PayPalDecline(n))
    <3>1. FirstOf(n, <<"status_reason", "reason">>, [code |-> "-", text |-> {}]) = dead
      BY <1>12, <1>14, <2>2, OfTwo
    <3>2. ByTable(PayPalDeclines, "-") = "unknown"
      BY NotInTable DEF PayPalDeclines
    <3>3. PayPalDecline(n) = "closed_account"
      BY <1>7, <3>1, <3>2, PayPalDead DEF PayPalDecline, Or
    <3> QED
      BY <3>3 DEF RetriableCode, HardCodes
  <2>3. Told(o, PayPalIngest(n))
    BY <1>0, <1>13, <1>14, <2>1, <2>2, FailureIsTold DEF PayPalInvoice, Told, Tells
  <2>4. Reverses(o, PayPalIngest(n))
    BY <1>14, <2>1 DEF Reverses, Failed, CanonicalEvent
  <2> QED
    BY <2>3, <2>4
<1>15. CASE o.what = "paid"
  <2>1. PayPalIngest(n) = {Paid(n.id, PayPalInvoice(n))}
    BY <1>6, <1>11, <1>15 DEF PayPalIngest
  <2>2. Told(o, PayPalIngest(n))
    BY <1>0, <1>13, <1>15, <2>1, PaymentIsTold DEF PayPalInvoice, Told, Tells
  <2>3. Reverses(o, PayPalIngest(n))
    BY <1>15, <2>1 DEF Reverses, Paid, CanonicalEvent
  <2> QED
    BY <2>2, <2>3
<1>16. CASE o.what \in {"refunded", "disputed", "won"}
  <2>1. PayPalIngest(n) =
          CASE o.what = "refunded" -> {Refunded(n.id, ref, n.amount)}
            [] o.what = "disputed" -> {ChargedBack(n.id, ref, n.amount)}
            [] OTHER -> {Reinstated(n.id, ref, n.amount)}
    BY <1>0, <1>6, <1>11, <1>13, <1>16 DEF PayPalIngest, PayPalWon, When, word
  <2>2. o.what = "refunded" => n.id = RefundId(o)
    BY <1>6, <1>11 DEF RefundId
  <2>3. Told(o, PayPalIngest(n))
    BY <1>0, <1>16, <2>1, ReturnIsTold, WonIsTold DEF Told, Tells
  <2>4. Reverses(o, PayPalIngest(n))
    BY <1>0, <1>11, <1>16, <2>1, <2>2
       DEF Reverses, RefundOf, RefundId, Refunded, ChargedBack, Reinstated, CanonicalEvent
  <2> QED
    BY <2>3, <2>4
<1>17. CASE o.what = "lost"
  <2>1. PayPalIngest(n) = {}
    BY <1>6, <1>11, <1>17 DEF PayPalIngest, PayPalWon, When, word
  <2>2. o.what \notin Learnable(o)
    BY <1>17, EventNames DEF Learnable
  <2> QED
    BY <2>1, <2>2, NothingIsTold
<1> QED
  BY <1>14, <1>15, <1>16, <1>17 DEF Occurs, Whats

\* Checkout.com (ingestWebhook): by the reference; a dispute may only have the payment.
LEMMA CheckoutTells ==
  ASSUME proc = "checkout", NEW o, Occurs(o), NEW detailed \in BOOLEAN,
         NEW n \in CheckoutWebhooks(o, detailed)
  PROVE  Told(o, CheckoutIngest(n)) /\ Reverses(o, CheckoutIngest(n))
<1>. DEFINE ref == IF o.reference = None THEN Payment(o) ELSE o.reference
           names == [failed |-> "payment_declined", paid |-> "payment_captured",
                     refunded |-> "payment_refunded", disputed |-> "dispute_received",
                     won |-> "dispute_won", lost |-> "dispute_resolved"]
           a == Native(Named(o, names), o)
           b == [payment |-> Payment(o), payment_id |-> Payment(o),
                 amount |-> IF o.what = "refunded" THEN 1 ELSE BillAmount]
           c == With("reference", o.reference)
           d == IF o.what \in {"disputed", "won", "lost"} /\ detailed
                THEN With("payment_reference", o.reference) ELSE << >>
           e == Why(o, "response_code", "20051", "20041")
<1>0. IdOf(o) = ref /\ ref # None /\ Payment(o) # None
  BY DEF IdOf, Payment, None
<1>1. n = a ++ b ++ c ++ d ++ e
  BY DEF CheckoutWebhooks
<1>2. DOMAIN a = {"event", "id"} /\ a.event = names[o.what] /\ a.id = Id(names[o.what], o)
  BY DEF Native, Named, Occurs, Whats
<1>3. /\ DOMAIN b = {"payment", "payment_id", "amount"}
      /\ b.payment = Payment(o) /\ b.payment_id = Payment(o)
      /\ b.amount = (IF o.what = "refunded" THEN 1 ELSE BillAmount)
  BY DEF BillAmount
<1>4. /\ o.reference = None => DOMAIN c = {} /\ DOMAIN d = {}
      /\ o.reference # None => DOMAIN c = {"reference"} /\ c["reference"] = ref
      /\ DOMAIN d \subseteq {"payment_reference"}
      /\ "payment_reference" \in DOMAIN d => d["payment_reference"] = ref
  BY DEF With, Only
<1>5. /\ DOMAIN e \subseteq {"response_code"}
      /\ o.what = "failed" => "response_code" \in DOMAIN e
      /\ o.what = "failed" /\ o.reason = "dead" => e["response_code"] = "20041"
  BY DEF Why, Only
<1>6. /\ names["failed"] = "payment_declined" /\ names["paid"] = "payment_captured"
      /\ names["refunded"] = "payment_refunded"
      /\ names["disputed"] = "dispute_received" /\ names["won"] = "dispute_won"
      /\ names["lost"] = "dispute_resolved"
  OBVIOUS
<1>8. o.reference = None => ref = Payment(o)
  OBVIOUS
<1>. HIDE DEF a, b, c, d, e, names, ref
<1>9. DOMAIN n = DOMAIN a \cup DOMAIN b \cup DOMAIN c \cup DOMAIN d \cup DOMAIN e
  BY <1>1 DEF ++
<1>10. \A f \in DOMAIN n : n[f] = IF f \in DOMAIN a THEN a[f] ELSE IF f \in DOMAIN b THEN b[f]
                                 ELSE IF f \in DOMAIN c THEN c[f] ELSE IF f \in DOMAIN d THEN d[f]
                                 ELSE e[f]
  BY <1>1 DEF ++
<1>11. /\ n.event = names[o.what] /\ n.id = Id(names[o.what], o)
       /\ n.amount = (IF o.what = "refunded" THEN 1 ELSE BillAmount) /\ n.amount > 0
       /\ {"payment", "payment_id"} \subseteq DOMAIN n
       /\ n["payment"] = Payment(o) /\ n["payment_id"] = Payment(o)
       /\ IF o.reference = None THEN "reference" \notin DOMAIN n
          ELSE "reference" \in DOMAIN n /\ n["reference"] = ref
       /\ "payment_reference" \in DOMAIN n => n["payment_reference"] = ref
  BY <1>2, <1>3, <1>4, <1>5, <1>9, <1>10 DEF BillAmount
<1>12. /\ o.what = "failed" => "response_code" \in DOMAIN n
       /\ o.what = "failed" /\ o.reason = "dead" => n["response_code"] = "20041"
  BY <1>2, <1>3, <1>4, <1>5, <1>9, <1>10
<1>13. Ref(n, <<"reference", "payment">>) = ref /\ CheckoutDisputeRef(n) \in {ref, Payment(o)}
  BY <1>8, <1>11, <1>12, OfTwo DEF Ref, CheckoutDisputeRef
<1>14. CASE o.what = "failed"
  <2>1. CheckoutIngest(n) = {Failed(n.id, CheckoutInvoice(n), CheckoutDecline(n))}
    BY <1>6, <1>11, <1>14 DEF CheckoutIngest
  <2>2. o.reason = "dead" => Code(n, <<"response_code">>) = "20041"
    BY <1>12, <1>14, OfOne DEF Code
  <2>3. ByTable(CheckoutDeclines, "20041") = "lost_card"
    BY InTable DEF CheckoutDeclines
  <2>4. o.reason = "dead" => ~ RetriableCode(CheckoutDecline(n))
    BY <2>2, <2>3 DEF CheckoutDecline, RetriableCode, HardCodes
  <2>5. Told(o, CheckoutIngest(n))
    BY <1>0, <1>13, <1>14, <2>1, <2>4, FailureIsTold DEF CheckoutInvoice, Told, Tells
  <2>6. Reverses(o, CheckoutIngest(n))
    BY <1>14, <2>1 DEF Reverses, Failed, CanonicalEvent
  <2> QED
    BY <2>5, <2>6
<1>15. CASE o.what = "paid"
  <2>1. CheckoutIngest(n) = {Paid(n.id, CheckoutInvoice(n))}
    BY <1>6, <1>11, <1>15 DEF CheckoutIngest
  <2>2. Told(o, CheckoutIngest(n))
    BY <1>0, <1>13, <1>15, <2>1, PaymentIsTold DEF CheckoutInvoice, Told, Tells
  <2>3. Reverses(o, CheckoutIngest(n))
    BY <1>15, <2>1 DEF Reverses, Paid, CanonicalEvent
  <2> QED
    BY <2>2, <2>3
<1>16. CASE o.what = "refunded"
  <2>1. CheckoutIngest(n) = {Refunded(n.id, ref, n.amount)}
    BY <1>0, <1>6, <1>11, <1>13, <1>16 DEF CheckoutIngest, CheckoutReversal, CheckoutInvoice,
       InvoiceFor, When
  <2>2. Told(o, CheckoutIngest(n))
    BY <1>0, <1>6, <1>11, <1>16, <2>1, ReturnIsTold DEF Told, Tells
  <2>3. Reverses(o, CheckoutIngest(n))
    BY <1>0, <1>6, <1>11, <1>16, <2>1 DEF Reverses, RefundOf, RefundId, Refunded, CanonicalEvent
  <2> QED
    BY <2>2, <2>3
<1>17. CASE o.what \in {"disputed", "won"}
  <2>1. CheckoutIngest(n) =
          IF o.what = "disputed" THEN {ChargedBack(n.id, CheckoutDisputeRef(n), n.amount)}
                                 ELSE {Reinstated(n.id, CheckoutDisputeRef(n), n.amount)}
    BY <1>0, <1>6, <1>11, <1>13, <1>17 DEF CheckoutIngest, CheckoutDisputed, CheckoutReinstated,
       When
  <2>2. Told(o, CheckoutIngest(n))
    BY <1>0, <1>11, <1>13, <1>17, <2>1, ReturnIsTold, WonIsTold DEF Told, Tells
  <2>3. Reverses(o, CheckoutIngest(n))
    BY <1>0, <1>11, <1>13, <1>17, <2>1 DEF Reverses, ChargedBack, Reinstated, CanonicalEvent
  <2> QED
    BY <2>2, <2>3
<1>18. CASE o.what = "lost"
  <2>1. CheckoutIngest(n) = {}
    BY <1>6, <1>11, <1>18 DEF CheckoutIngest
  <2>2. o.what \notin Learnable(o)
    BY <1>18, EventNames DEF Learnable
  <2> QED
    BY <2>1, <2>2, NothingIsTold
<1> QED
  BY <1>14, <1>15, <1>16, <1>17, <1>18 DEF Occurs, Whats

\* The field a processor says its reason in.
LEMMA WhyFields ==
  ASSUME NEW o, NEW field, NEW funds, NEW dead
  PROVE  /\ DOMAIN Why(o, field, funds, dead) \subseteq {field}
         /\ o.what = "failed" => field \in DOMAIN Why(o, field, funds, dead)
         /\ o.what = "failed" /\ o.reason = "dead" => Why(o, field, funds, dead)[field] = dead
BY DEF Why, Only

\* Worldpay (ingestWebhook).
LEMMA WorldpayTells ==
  ASSUME proc = "worldpay", NEW o, Occurs(o), NEW detailed \in BOOLEAN,
         NEW n \in WorldpayWebhooks(o, detailed)
  PROVE  Told(o, WorldpayIngest(n)) /\ Reverses(o, WorldpayIngest(n))
<1>. DEFINE names == [failed |-> "payment.refused", paid |-> "payment.settled",
                     refunded |-> "payment.refunded",
                     disputed |-> IF detailed THEN "informationRequested" ELSE "chargeback",
                     won |-> "reversed", lost |-> "secondChargeback"]
           a == Native(Named(o, names), o)
           b == [amount |-> IF o.what = "refunded" THEN 1 ELSE BillAmount]
           c == With("transactionReference", o.reference)
           words == {"stolen card", "issuer"}
           d == Why(o, "refusalCode", "51", "-")
           e == Why(o, "refusalDescription", {"insufficient funds"}, words)
<1>0. IdOf(o) = o.reference /\ o.reference # None
  BY DEF IdOf, Occurs
<1>1. n = a ++ b ++ c ++ d ++ e
  BY DEF WorldpayWebhooks
<1>2. DOMAIN a = {"event", "id"} /\ a.event = names[o.what] /\ a.id = Id(names[o.what], o)
  BY DEF Native, Named, Occurs, Whats
<1>3. DOMAIN b = {"amount"} /\ (o.what = "refunded" => b.amount = 1)
  OBVIOUS
<1>4. DOMAIN c = {"transactionReference"} /\ c["transactionReference"] = o.reference
  BY <1>0 DEF With, Only
<1>5. /\ DOMAIN d \subseteq {"refusalCode"} /\ DOMAIN e \subseteq {"refusalDescription"}
      /\ o.what = "failed" => "refusalCode" \in DOMAIN d /\ "refusalDescription" \in DOMAIN e
      /\ o.what = "failed" /\ o.reason = "dead" =>
           d["refusalCode"] = "-" /\ e["refusalDescription"] = words
  <2>. HIDE DEF words
  <2> QED
    BY DEF Why, Only
<1>6. /\ names["failed"] = "payment.refused" /\ names["paid"] = "payment.settled"
      /\ names["refunded"] = "payment.refunded"
      /\ names["disputed"] \in {"informationRequested", "chargeback"}
      /\ names["won"] = "reversed" /\ names["lost"] = "secondChargeback"
  OBVIOUS
<1>. HIDE DEF a, b, c, d, e, names, words
<1>9. DOMAIN n = DOMAIN a \cup DOMAIN b \cup DOMAIN c \cup DOMAIN d \cup DOMAIN e
  BY <1>1 DEF ++
<1>10. \A f \in DOMAIN n : n[f] = IF f \in DOMAIN a THEN a[f] ELSE IF f \in DOMAIN b THEN b[f]
                                 ELSE IF f \in DOMAIN c THEN c[f] ELSE IF f \in DOMAIN d THEN d[f]
                                 ELSE e[f]
  BY <1>1 DEF ++
<1>11. /\ n.event = names[o.what] /\ n.id = Id(names[o.what], o)
       /\ o.what = "refunded" => n.amount = 1
       /\ "transactionReference" \in DOMAIN n /\ n["transactionReference"] = o.reference
       /\ o.what = "failed" => "refusalCode" \in DOMAIN n /\ "refusalDescription" \in DOMAIN n
       /\ o.what = "failed" /\ o.reason = "dead" =>
            n["refusalCode"] = "-" /\ n["refusalDescription"] = words
  BY <1>2, <1>3, <1>4, <1>5, <1>9, <1>10
<1>12. WorldpayInvoice(n) = InvoiceFor(o.reference, None) /\ WorldpayInvoice(n).ref = o.reference
  BY <1>11, OfOne DEF WorldpayInvoice, Ref, InvoiceFor
<1>13. CASE o.what = "failed"
  <2>1. WorldpayIngest(n) = {Failed(n.id, WorldpayInvoice(n), WorldpayDecline(n))}
    BY <1>6, <1>11, <1>13 DEF WorldpayIngest
  <2>2. ASSUME o.reason = "dead" PROVE ~ RetriableCode(WorldpayDecline(n))
    <3>1. /\ Code(n, <<"refusalCode">>) = "-"
          /\ Text(n, <<"refusalDescription">>) = words
      BY <1>11, <1>13, <2>2, OfOne DEF Code, Text
    <3>2. ByTable(WorldpayDeclines, "-") = "unknown"
      BY NotInTable DEF WorldpayDeclines
    <3>3. WorldpayDecline(n) = "stolen_card"
      BY <3>1, <3>2, WorldpayDead DEF WorldpayDecline, Or, words
    <3> QED
      BY <3>3 DEF RetriableCode, HardCodes
  <2>3. Told(o, WorldpayIngest(n))
    BY <1>0, <1>12, <1>13, <2>1, <2>2, FailureIsTold DEF Told, Tells
  <2>4. Reverses(o, WorldpayIngest(n))
    BY <1>13, <2>1 DEF Reverses, Failed, CanonicalEvent
  <2> QED
    BY <2>3, <2>4
<1>14. CASE o.what = "paid"
  <2>1. WorldpayIngest(n) = {Paid(n.id, WorldpayInvoice(n))}
    BY <1>6, <1>11, <1>14 DEF WorldpayIngest
  <2>2. Told(o, WorldpayIngest(n))
    BY <1>0, <1>12, <1>14, <2>1, PaymentIsTold DEF Told, Tells
  <2>3. Reverses(o, WorldpayIngest(n))
    BY <1>14, <2>1 DEF Reverses, Paid, CanonicalEvent
  <2> QED
    BY <2>2, <2>3
<1>15. CASE o.what = "refunded"
  <2>1. WorldpayIngest(n) = {Refunded(n.id, o.reference, n.amount)}
    BY <1>0, <1>6, <1>11, <1>12, <1>15 DEF WorldpayIngest, When
  <2>2. Told(o, WorldpayIngest(n))
    BY <1>0, <1>6, <1>11, <1>15, <2>1, ReturnIsTold DEF Told, Tells
  <2>3. Reverses(o, WorldpayIngest(n))
    BY <1>0, <1>6, <1>11, <1>15, <2>1 DEF Reverses, RefundOf, RefundId, Refunded, CanonicalEvent
  <2> QED
    BY <2>2, <2>3
<1>16. CASE o.what \in {"disputed", "won", "lost"}
  <2>1. WorldpayIngest(n) = {} /\ o.what \notin Learnable(o)
    BY <1>6, <1>11, <1>16 DEF WorldpayIngest, Learnable
  <2> QED
    BY <2>1, NothingIsTold
<1> QED
  BY <1>13, <1>14, <1>15, <1>16 DEF Occurs, Whats

\* Adyen (ingestWebhook): by the merchant reference.
LEMMA AdyenTells ==
  ASSUME proc = "adyen", NEW o, Occurs(o), NEW detailed \in BOOLEAN,
         NEW n \in AdyenWebhooks(o, detailed)
  PROVE  Told(o, AdyenIngest(n))
<1>. DEFINE names == [failed |-> "AUTHORISATION", paid |-> "AUTHORISATION", refunded |-> "REFUND",
                     disputed |-> "CHARGEBACK", won |-> "CHARGEBACK_REVERSED"]
           dead == [code |-> "-", text |-> {"blocked card", "refused"}]
           funds == [code |-> "12", text |-> {}]
           a(event) == Native(event, o)
           b == [success |-> IF o.what = "failed" THEN "false" ELSE "true",
                 merchantReference |-> o.reference,
                 amount |-> IF o.what = "refunded" THEN 1 ELSE BillAmount]
           c == Why(o, "reason", funds, dead)
<1>0. IdOf(o) = o.reference
  BY DEF IdOf
<1>1. PICK event : /\ n = a(event) ++ b ++ c
                   /\ \/ event = IF o.what = "lost" THEN "other" ELSE names[o.what]
                      \/ o.what = "disputed" /\ event = "NOTIFICATION_OF_CHARGEBACK"
  BY DEF AdyenWebhooks, When, Named, Occurs, Whats
<1>2. DOMAIN a(event) = {"event", "id"} /\ a(event).event = event
  BY DEF Native
<1>3. /\ DOMAIN b = {"success", "merchantReference", "amount"}
      /\ b.success = IF o.what = "failed" THEN "false" ELSE "true"
      /\ b.merchantReference = o.reference
  OBVIOUS
<1>5. /\ DOMAIN c \subseteq {"reason"}
      /\ o.what = "failed" => "reason" \in DOMAIN c
      /\ o.what = "failed" /\ o.reason = "dead" => c["reason"] = dead
  <2>. HIDE DEF funds, dead
  <2> QED
    BY WhyFields
<1>6. /\ names["failed"] = "AUTHORISATION" /\ names["paid"] = "AUTHORISATION"
      /\ names["refunded"] = "REFUND"
      /\ names["disputed"] = "CHARGEBACK" /\ names["won"] = "CHARGEBACK_REVERSED"
  OBVIOUS
<1>7. dead.code = "-" /\ dead.text = {"blocked card", "refused"}
  OBVIOUS
<1>. HIDE DEF a, b, c, names, dead
<1>9. DOMAIN n = DOMAIN a(event) \cup DOMAIN b \cup DOMAIN c
  BY <1>1 DEF ++
<1>10. \A f \in DOMAIN n : n[f] = IF f \in DOMAIN a(event) THEN a(event)[f]
                                 ELSE IF f \in DOMAIN b THEN b[f] ELSE c[f]
  BY <1>1 DEF ++
<1>11. /\ n.event = event /\ n.merchantReference = o.reference
       /\ n.success = IF o.what = "failed" THEN "false" ELSE "true"
       /\ o.what = "failed" => "reason" \in DOMAIN n
       /\ o.what = "failed" /\ o.reason = "dead" => n["reason"] = dead
  BY <1>2, <1>3, <1>5, <1>9, <1>10
<1>12. CASE o.what = "failed"
  <2>1. AdyenIngest(n) = {Failed(n.id, AdyenInvoice(n), AdyenDecline(n))}
    BY <1>1, <1>6, <1>11, <1>12 DEF AdyenIngest, AdyenChargebackCodes
  <2>2. ASSUME o.reason = "dead" PROVE ~ RetriableCode(AdyenDecline(n))
    <3>1. FirstOf(n, <<"reason", "refusalReasonRaw">>, [code |-> "-", text |-> {}]) = dead
      BY <1>11, <1>12, <2>2, OfTwo
    <3>2. AdyenDecline(n) = "pickup_card"
      BY <1>7, <3>1, AdyenDead DEF AdyenDecline, Or
    <3> QED
      BY <3>2 DEF RetriableCode, HardCodes
  <2> QED
    BY <1>0, <1>11, <1>12, <2>1, <2>2, FailureIsTold DEF AdyenInvoice, Told, Tells
<1>13. CASE o.what = "paid"
  <2>1. AdyenIngest(n) = {Paid(n.id, AdyenInvoice(n))}
    BY <1>1, <1>6, <1>11, <1>13 DEF AdyenIngest, AdyenChargebackCodes
  <2> QED
    BY <1>0, <1>11, <1>13, <2>1, PaymentIsTold DEF AdyenInvoice, Told, Tells
<1>14. CASE o.what \in {"refunded", "disputed"}
  <2>1. AdyenIngest(n) \in {{Refunded(n.id, o.reference, n.amount)},
                            {ChargedBack(n.id, o.reference, n.amount)}}
    BY <1>1, <1>6, <1>11, <1>14 DEF AdyenIngest, AdyenReversal, AdyenChargebackCodes, When
  <2> QED
    BY <1>0, <1>14, <2>1, ReturnIsTold DEF Told, Tells
<1>15. CASE o.what = "won"
  <2>1. AdyenIngest(n) = {Reinstated(n.id, o.reference, n.amount)}
    BY <1>1, <1>6, <1>11, <1>15 DEF AdyenIngest, AdyenReinstated, AdyenChargebackCodes, When
  <2> QED
    BY <1>0, <1>15, <2>1, WonIsTold DEF Told, Tells
<1>16. CASE o.what = "lost"
  <2>1. AdyenIngest(n) = {}
    BY <1>1, <1>11, <1>16 DEF AdyenIngest, AdyenChargebackCodes
  <2>2. o.what \notin Learnable(o)
    BY <1>16, EventNames DEF Learnable
  <2> QED
    BY <2>1, <2>2, NothingIsTold
<1> QED
  BY <1>12, <1>13, <1>14, <1>15, <1>16 DEF Occurs, Whats

\* Braintree (ingestWebhook): the order of what AX10M charged, or the subscription.
LEMMA BraintreeTells ==
  ASSUME proc = "braintree", NEW o, Occurs(o), NEW detailed \in BOOLEAN,
         NEW n \in BraintreeWebhooks(o, detailed)
  PROVE  Told(o, BraintreeIngest(n)) /\ Reverses(o, BraintreeIngest(n))
<1>. DEFINE names == [failed |-> "subscription_charged_unsuccessfully",
                     paid |-> "subscription_charged_successfully",
                     disputed |-> "dispute_opened", won |-> "dispute_won", lost |-> "dispute_lost"]
           own == o.reference = Invoice(o)
           a == Native(Named(o, names), o)
           b == [subscription |-> Subscription, dispute |-> Dispute(o), kind |-> "chargeback",
                 amount |-> BillAmount, timestamp |-> o.pay]
           c == IF own THEN << >> ELSE Only("order", o.reference)
           d == Why(o, "processor_response_code", "2001", "2013")
<1>0. IdOf(o) = IF own THEN Subscription ELSE o.reference
  BY DEF IdOf
<1>1. /\ n = a ++ b ++ c ++ d /\ o.what \in {"failed", "paid", "disputed", "won", "lost"}
      /\ o.what \in {"failed", "paid"} => own
  BY DEF BraintreeWebhooks, When, HasOne
<1>2. DOMAIN a = {"event", "id"} /\ a.event = names[o.what]
  BY <1>1 DEF Native, Named
<1>3. /\ DOMAIN b = {"subscription", "dispute", "kind", "amount", "timestamp"}
      /\ b.subscription = Subscription /\ b.amount = BillAmount /\ b.kind = "chargeback"
  OBVIOUS
<1>4. IF own THEN DOMAIN c = {} ELSE DOMAIN c = {"order"} /\ c["order"] = o.reference
  BY DEF Only
<1>5. /\ DOMAIN d \subseteq {"processor_response_code"}
      /\ o.what = "failed" => "processor_response_code" \in DOMAIN d
      /\ o.what = "failed" /\ o.reason = "dead" => d["processor_response_code"] = "2013"
  BY WhyFields
<1>6. /\ names["failed"] = "subscription_charged_unsuccessfully"
      /\ names["paid"] = "subscription_charged_successfully"
      /\ names["disputed"] = "dispute_opened" /\ names["won"] = "dispute_won"
      /\ names["lost"] = "dispute_lost"
  OBVIOUS
<1>. HIDE DEF a, b, c, d, names
<1>9. DOMAIN n = DOMAIN a \cup DOMAIN b \cup DOMAIN c \cup DOMAIN d
  BY <1>1 DEF ++
<1>10. \A f \in DOMAIN n : n[f] = IF f \in DOMAIN a THEN a[f] ELSE IF f \in DOMAIN b THEN b[f]
                                 ELSE IF f \in DOMAIN c THEN c[f] ELSE d[f]
  BY <1>1 DEF ++
<1>11. /\ n.event = names[o.what] /\ n.subscription = Subscription /\ n.amount = BillAmount
       /\ n.kind = "chargeback"
       /\ IF own THEN "order" \notin DOMAIN n ELSE "order" \in DOMAIN n /\ n["order"] = o.reference
       /\ o.what = "failed" => "processor_response_code" \in DOMAIN n
       /\ o.what = "failed" /\ o.reason = "dead" => n["processor_response_code"] = "2013"
  BY <1>2, <1>3, <1>4, <1>5, <1>9, <1>10
<1>12. CASE o.what = "failed"
  <2>1. \E id : BraintreeIngest(n) = {Failed(id, BraintreeInvoice(n), BraintreeDecline(n))}
    BY <1>6, <1>11, <1>12 DEF BraintreeIngest
  <2>2. o.reason = "dead" => Code(n, <<"processor_response_code">>) = "2013"
    BY <1>11, <1>12, OfOne DEF Code
  <2>3. ByTable(BraintreeDeclines, "2013") = "stolen_card"
    BY InTable DEF BraintreeDeclines
  <2>4. o.reason = "dead" => ~ RetriableCode(BraintreeDecline(n))
    BY <2>2, <2>3 DEF BraintreeDecline, RetriableCode, HardCodes
  <2>5. Told(o, BraintreeIngest(n))
    BY <1>0, <1>1, <1>11, <1>12, <2>1, <2>4, FailureIsTold DEF BraintreeInvoice, Told, Tells
  <2>6. Reverses(o, BraintreeIngest(n))
    BY <1>12, <2>1 DEF Reverses, Failed, CanonicalEvent
  <2> QED
    BY <2>5, <2>6
<1>13. CASE o.what = "paid"
  <2>1. \E id : BraintreeIngest(n) = {Paid(id, BraintreeInvoice(n))}
    BY <1>6, <1>11, <1>13 DEF BraintreeIngest
  <2>2. Told(o, BraintreeIngest(n))
    BY <1>0, <1>1, <1>11, <1>13, <2>1, PaymentIsTold DEF BraintreeInvoice, Told, Tells
  <2>3. Reverses(o, BraintreeIngest(n))
    BY <1>13, <2>1 DEF Reverses, Paid, CanonicalEvent
  <2> QED
    BY <2>2, <2>3
<1>14. CASE o.what \in {"disputed", "won"} /\ o.reference # None /\ ~ own
  <2>1. BraintreeDisputed(n) /\ n["order"] = o.reference
    BY <1>11, <1>14, OfOne DEF BraintreeDisputed, Ref
  <2>2. \E id : \/ o.what = "disputed" /\ BraintreeIngest(n) = {ChargedBack(id, o.reference, BillAmount)}
                \/ o.what = "won" /\ BraintreeIngest(n) = {Reinstated(id, o.reference, BillAmount)}
    BY <1>6, <1>11, <1>14, <2>1 DEF BraintreeIngest, When
  <2>3. Told(o, BraintreeIngest(n))
    BY <1>0, <1>14, <2>2, ReturnIsTold, WonIsTold DEF Told, Tells
  <2>4. Reverses(o, BraintreeIngest(n))
    BY <1>14, <2>2 DEF Reverses, ChargedBack, Reinstated, CanonicalEvent
  <2> QED
    BY <2>3, <2>4
<1>15. CASE o.what \in {"disputed", "won"} /\ own
  <2>1. Ref(n, <<"order">>) = None
    BY <1>11, <1>15, OfOne DEF Ref
  <2>2. BraintreeIngest(n) = {}
    BY <1>6, <1>11, <1>15, <2>1 DEF BraintreeIngest, BraintreeDisputed, When
  <2>3. o.what \notin Learnable(o)
    BY <1>15 DEF Learnable
  <2> QED
    BY <2>2, <2>3, NothingIsTold
<1>16. CASE o.what = "lost"
  <2>1. BraintreeIngest(n) = {}
    BY <1>6, <1>11, <1>16 DEF BraintreeIngest
  <2>2. o.what \notin Learnable(o)
    BY <1>16 DEF Learnable
  <2> QED
    BY <2>1, <2>2, NothingIsTold
<1> QED
  BY <1>1, <1>12, <1>13, <1>14, <1>15, <1>16 DEF Occurs

\* Shopify (ingestWebhook): by the billing attempt.
LEMMA ShopifyTells ==
  ASSUME proc = "shopify", NEW o, Occurs(o), NEW detailed \in BOOLEAN,
         NEW n \in ShopifyWebhooks(o, detailed)
  PROVE  Told(o, ShopifyIngest(n)) /\ Reverses(o, ShopifyIngest(n))
<1>. DEFINE names == [failed |-> "subscription_billing_attempts/failure",
                     paid |-> "subscription_billing_attempts/success"]
           a == Native(Named(o, names), o)
           b == [graphql_id |-> Payment(o), payload_id |-> Payment(o), customer |-> Customer]
           c == Why(o, "error_code", "insufficient_funds", "invalid_payment_method")
<1>0. IdOf(o) = Payment(o)
  BY DEF IdOf
<1>1. n = a ++ b ++ c
  BY DEF ShopifyWebhooks
<1>2. DOMAIN a = {"event", "id"} /\ a.event = Named(o, names)
  BY DEF Native
<1>3. DOMAIN b = {"graphql_id", "payload_id", "customer"} /\ b.payload_id = Payment(o)
  OBVIOUS
<1>5. /\ DOMAIN c \subseteq {"error_code"}
      /\ o.what = "failed" => "error_code" \in DOMAIN c
      /\ o.what = "failed" /\ o.reason = "dead" => c["error_code"] = "invalid_payment_method"
  BY DEF Why, Only
<1>6. Named(o, names) = CASE o.what = "failed" -> "subscription_billing_attempts/failure"
                          [] o.what = "paid" -> "subscription_billing_attempts/success"
                          [] OTHER -> "other"
  BY DEF Named
<1>. HIDE DEF a, b, c, names
<1>9. DOMAIN n = DOMAIN a \cup DOMAIN b \cup DOMAIN c
  BY <1>1 DEF ++
<1>10. \A f \in DOMAIN n : n[f] = IF f \in DOMAIN a THEN a[f] ELSE IF f \in DOMAIN b THEN b[f] ELSE c[f]
  BY <1>1 DEF ++
<1>11. /\ n.event = Named(o, names) /\ "payload_id" \in DOMAIN n /\ n["payload_id"] = Payment(o)
       /\ o.what = "failed" => "error_code" \in DOMAIN n
       /\ o.what = "failed" /\ o.reason = "dead" => n["error_code"] = "invalid_payment_method"
  BY <1>2, <1>3, <1>5, <1>9, <1>10
<1>12. Ref(n, <<"payload_id">>) = Payment(o)
  BY <1>11, OfOne DEF Ref
<1>13. CASE o.what = "failed"
  <2>1. \E id : ShopifyIngest(n) = {Failed(id, ShopifyInvoice(n), ShopifyDecline(n))}
    BY <1>6, <1>11, <1>13 DEF ShopifyIngest
  <2>2. o.reason = "dead" => Code(n, <<"error_code">>) = "invalid_payment_method"
    BY <1>11, <1>13, OfOne DEF Code
  <2>3. ByTable(ShopifyDeclines, "invalid_payment_method") = "invalid_card"
    BY InTable DEF ShopifyDeclines
  <2>4. o.reason = "dead" => ~ RetriableCode(ShopifyDecline(n))
    BY <2>2, <2>3 DEF ShopifyDecline, RetriableCode, HardCodes
  <2>5. Told(o, ShopifyIngest(n))
    BY <1>0, <1>12, <1>13, <2>1, <2>4, FailureIsTold DEF ShopifyInvoice, Told, Tells
  <2> QED
    BY <1>13, <2>5, CollectionTakesNothingBack
<1>14. CASE o.what = "paid"
  <2>1. \E id : ShopifyIngest(n) = {Paid(id, ShopifyInvoice(n))}
    BY <1>6, <1>11, <1>14 DEF ShopifyIngest
  <2>2. Told(o, ShopifyIngest(n))
    BY <1>0, <1>12, <1>14, <2>1, PaymentIsTold DEF ShopifyInvoice, Told, Tells
  <2> QED
    BY <1>14, <2>2, CollectionTakesNothingBack
<1>15. CASE o.what \notin {"failed", "paid"}
  <2>1. ShopifyIngest(n) = {} /\ o.what \notin Learnable(o)
    BY <1>6, <1>11, <1>15 DEF ShopifyIngest, Learnable
  <2> QED
    BY <2>1, NothingIsTold
<1> QED
  BY <1>13, <1>14, <1>15

\* WooCommerce (ingestWebhook): by the order.
LEMMA WooTells ==
  ASSUME proc = "woocommerce", NEW o, Occurs(o), NEW detailed \in BOOLEAN,
         NEW n \in WooWebhooks(o, detailed)
  PROVE  Told(o, WooIngest(n))
<1>. DEFINE names == [failed |-> "order.updated", paid |-> "order.updated", refunded |-> "order.updated"]
           word == CASE o.what = "failed" -> "failed"
                     [] o.what = "refunded" /\ o.total = BillAmount -> "refunded"
                     [] OTHER -> "completed"
           words == {"stolen", "declined"}
           a == Native(Named(o, names), o)
           b == [order |-> Invoice(o), total |-> BillAmount, customer |-> Customer, status |-> word]
           c == IF o.what = "refunded" THEN Only("refunds", o.total) ELSE << >>
           d == Says(o, "failure_message", "stolen")
<1>0. IdOf(o) = Invoice(o)
  BY DEF IdOf
<1>1. n = a ++ b ++ c ++ d /\ o.what \in {"failed", "paid", "refunded"}
  BY DEF WooWebhooks, When, HasOne
<1>2. DOMAIN a = {"event", "id"} /\ a.event = "order.updated"
  BY <1>1 DEF Native, Named
<1>3. DOMAIN b = {"order", "total", "customer", "status"} /\ b.order = Invoice(o) /\ b.status = word
  OBVIOUS
<1>4. IF o.what = "refunded" THEN DOMAIN c = {"refunds"} /\ c["refunds"] = o.total ELSE DOMAIN c = {}
  BY DEF Only
<1>5. /\ DOMAIN d \subseteq {"failure_message"}
      /\ o.what = "failed" => "failure_message" \in DOMAIN d
      /\ o.what = "failed" /\ o.reason = "dead" => d["failure_message"] = words
  BY DEF Says, Why, Only
<1>6. (o.what = "failed" => word = "failed") /\ (o.what = "paid" => word = "completed")
  OBVIOUS
<1>. HIDE DEF a, b, c, d, names, word, words
<1>9. DOMAIN n = DOMAIN a \cup DOMAIN b \cup DOMAIN c \cup DOMAIN d
  BY <1>1 DEF ++
<1>10. \A f \in DOMAIN n : n[f] = IF f \in DOMAIN a THEN a[f] ELSE IF f \in DOMAIN b THEN b[f]
                                 ELSE IF f \in DOMAIN c THEN c[f] ELSE d[f]
  BY <1>1 DEF ++
<1>11. /\ n.event = "order.updated" /\ n.order = Invoice(o) /\ n.status = word
       /\ IF o.what = "refunded" THEN "refunds" \in DOMAIN n /\ n["refunds"] = o.total
                                 ELSE "refunds" \notin DOMAIN n
       /\ o.what = "failed" => "failure_message" \in DOMAIN n
       /\ o.what = "failed" /\ o.reason = "dead" => n["failure_message"] = words
  BY <1>2, <1>3, <1>4, <1>5, <1>9, <1>10
<1>12. Amount(n, <<"refunds">>) = IF o.what = "refunded" THEN o.total ELSE 0
  BY <1>11, OfOne DEF Amount
<1>13. CASE o.what = "failed"
  <2>1. WooIngest(n) = {Failed(n.order, WooInvoice(n), WooDecline(n))}
    BY <1>6, <1>11, <1>12, <1>13 DEF WooIngest, WooRefund, When
  <2>2. o.reason = "dead" => Text(n, <<"failure_message", "failure_code", "customer_note">>) = words
    BY <1>11, <1>13, OfThree DEF Text
  <2>3. o.reason = "dead" => ~ RetriableCode(WooDecline(n))
    BY <2>2, WooDead DEF WooDecline, RetriableCode, HardCodes, words
  <2> QED
    BY <1>0, <1>11, <1>13, <2>1, <2>3, FailureIsTold DEF WooInvoice, Told, Tells
<1>14. CASE o.what = "paid"
  <2>1. WooIngest(n) = {Paid(n.order, WooInvoice(n))}
    BY <1>6, <1>11, <1>12, <1>14 DEF WooIngest, WooRefund, When
  <2> QED
    BY <1>0, <1>11, <1>14, <2>1, PaymentIsTold DEF WooInvoice, Told, Tells
<1>15. CASE o.what = "refunded"
  <2>1. o.total > 0
    BY <1>15 DEF Occurs
  <2>2. WooRefund(n) = {Refunded(n.order, n.order, o.total)}
    BY <1>12, <1>15, <2>1 DEF WooRefund, When
  <2>3. WooIngest(n) = {Refunded(n.order, n.order, o.total)}
    BY <1>11, <2>2 DEF WooIngest
  <2> QED
    BY <1>0, <1>11, <1>15, <2>3, ReturnIsTold DEF Told, Tells
<1> QED
  BY <1>1, <1>13, <1>14, <1>15

\* BigCommerce (ingestWebhook).
LEMMA BigCommerceTells ==
  ASSUME proc = "bigcommerce", NEW o, Occurs(o), NEW detailed \in BOOLEAN,
         NEW n \in BigCommerceWebhooks(o, detailed)
  PROVE  Told(o, BigCommerceIngest(n)) /\ Reverses(o, BigCommerceIngest(n))
<1>. DEFINE names == [failed |-> "declined", paid |-> "completed", refunded |-> "refunded"]
           words == {"closed", "declined"}
           b == [event |-> "store/order", order |-> Invoice(o), status |-> Named(o, names),
                 created_at |-> o.total]
           c == IF detailed THEN Only("hash", Id(Named(o, names), o)) ELSE << >>
           d == Says(o, "decline_reason", "closed")
<1>0. IdOf(o) = Invoice(o)
  BY DEF IdOf
<1>1. n = b ++ c ++ d
  BY DEF BigCommerceWebhooks
<1>3. /\ DOMAIN b = {"event", "order", "status", "created_at"}
      /\ b.event = "store/order" /\ b.order = Invoice(o) /\ b.status = Named(o, names)
  OBVIOUS
<1>4. DOMAIN c \subseteq {"hash"}
  BY DEF Only
<1>5. /\ DOMAIN d \subseteq {"decline_reason"}
      /\ o.what = "failed" => "decline_reason" \in DOMAIN d
      /\ o.what = "failed" /\ o.reason = "dead" => d["decline_reason"] = words
  BY DEF Says, Why, Only
<1>6. Named(o, names) = CASE o.what = "failed" -> "declined" [] o.what = "paid" -> "completed"
                          [] o.what = "refunded" -> "refunded" [] OTHER -> "other"
  BY DEF Named
<1>. HIDE DEF b, c, d, names, words
<1>9. DOMAIN n = DOMAIN b \cup DOMAIN c \cup DOMAIN d
  BY <1>1 DEF ++
<1>10. \A f \in DOMAIN n : n[f] = IF f \in DOMAIN b THEN b[f] ELSE IF f \in DOMAIN c THEN c[f] ELSE d[f]
  BY <1>1 DEF ++
<1>11. /\ n.event = "store/order" /\ "order" \in DOMAIN n /\ n["order"] = Invoice(o)
       /\ n.status = Named(o, names)
       /\ o.what = "failed" => "decline_reason" \in DOMAIN n
       /\ o.what = "failed" /\ o.reason = "dead" => n["decline_reason"] = words
  BY <1>3, <1>4, <1>5, <1>9, <1>10
<1>12. Ref(n, <<"order", "object">>) = Invoice(o)
  BY <1>11, OfTwo DEF Ref
<1>13. CASE o.what = "failed"
  <2>1. \E id : BigCommerceIngest(n) =
          {AdvisoryFailed(id, BigCommerceInvoice(Invoice(o), n), BigCommerceDecline(n))}
    BY <1>6, <1>11, <1>12, <1>13 DEF BigCommerceIngest, BigCommerceKind, When
  <2>2. o.reason = "dead" => Text(n, <<"decline_reason", "payment_error">>) = words
    BY <1>11, <1>13, OfTwo DEF Text
  <2>3. o.reason = "dead" => ~ RetriableCode(BigCommerceDecline(n))
    BY <2>2, BigCommerceDead DEF BigCommerceDecline, RetriableCode, HardCodes, words
  <2>4. Told(o, BigCommerceIngest(n))
    BY <1>0, <1>13, <2>1, <2>3, FailureIsTold DEF BigCommerceInvoice, Told, Tells
  <2> QED
    BY <1>13, <2>4, CollectionTakesNothingBack
<1>14. CASE o.what = "paid"
  <2>1. \E id : BigCommerceIngest(n) = {Paid(id, BigCommerceInvoice(Invoice(o), n))}
    BY <1>6, <1>11, <1>12, <1>14 DEF BigCommerceIngest, BigCommerceKind, When
  <2>2. Told(o, BigCommerceIngest(n))
    BY <1>0, <1>14, <2>1, PaymentIsTold DEF BigCommerceInvoice, Told, Tells
  <2> QED
    BY <1>14, <2>2, CollectionTakesNothingBack
<1>15. CASE o.what = "refunded"
  <2>1. \E id : BigCommerceIngest(n) = {SubscriptionUpdated(id)}
    BY <1>6, <1>11, <1>12, <1>15 DEF BigCommerceIngest, BigCommerceKind, When
  <2>2. o.what \notin {"failed", "paid"} \cup Learnable(o)
    BY <1>15 DEF Learnable, Advisory
  <2>3. Told(o, BigCommerceIngest(n))
    BY <2>1, <2>2, ChurnIsTold
  <2>4. Reverses(o, BigCommerceIngest(n))
    BY <2>1, <2>2, ChurnIsTold
  <2> QED
    BY <2>3, <2>4
<1>16. CASE o.what \notin {"failed", "paid", "refunded"}
  <2>1. BigCommerceIngest(n) = {} /\ o.what \notin Learnable(o)
    BY <1>6, <1>11, <1>16 DEF BigCommerceIngest, BigCommerceKind, When, Learnable, Advisory
  <2> QED
    BY <2>1, NothingIsTold
<1> QED
  BY <1>13, <1>14, <1>15, <1>16

\* ThriveCart (ingestWebhook).
LEMMA ThriveCartTells ==
  ASSUME proc = "thrivecart", NEW o, Occurs(o), NEW detailed \in BOOLEAN,
         NEW n \in ThriveCartWebhooks(o, detailed)
  PROVE  Told(o, ThriveCartIngest(n)) /\ Reverses(o, ThriveCartIngest(n))
<1>. DEFINE names == [failed |-> "order.subscription_payment", paid |-> "order.subscription_payment"]
           words == {"lost", "declined"}
           b == [event |-> Named(o, names), order |-> Invoice(o),
                 failed |-> IF o.what = "failed" THEN "true" ELSE "0"]
           c == IF detailed THEN Only("id", Id(Named(o, names), o)) ELSE << >>
           d == Says(o, "reason", "lost")
<1>0. IdOf(o) = Invoice(o)
  BY DEF IdOf
<1>1. n = b ++ c ++ d
  BY DEF ThriveCartWebhooks
<1>3. /\ DOMAIN b = {"event", "order", "failed"}
      /\ b.event = (IF o.what \in {"failed", "paid"} THEN "order.subscription_payment" ELSE "other")
      /\ b.order = Invoice(o)
      /\ b.failed = IF o.what = "failed" THEN "true" ELSE "0"
  BY DEF Named
<1>4. DOMAIN c \subseteq {"id"}
  BY DEF Only
<1>5. /\ DOMAIN d \subseteq {"reason"}
      /\ o.what = "failed" => "reason" \in DOMAIN d
      /\ o.what = "failed" /\ o.reason = "dead" => d["reason"] = words
  BY DEF Says, Why, Only
<1>. HIDE DEF b, c, d, names, words
<1>9. DOMAIN n = DOMAIN b \cup DOMAIN c \cup DOMAIN d
  BY <1>1 DEF ++
<1>10. \A f \in DOMAIN n : n[f] = IF f \in DOMAIN b THEN b[f] ELSE IF f \in DOMAIN c THEN c[f] ELSE d[f]
  BY <1>1 DEF ++
<1>11. /\ n.event = (IF o.what \in {"failed", "paid"} THEN "order.subscription_payment" ELSE "other")
       /\ "order" \in DOMAIN n /\ n["order"] = Invoice(o)
       /\ "failed" \in DOMAIN n /\ n["failed"] = IF o.what = "failed" THEN "true" ELSE "0"
       /\ {"decline_reason", "failure_reason", "order_decline_reason"} \cap DOMAIN n = {}
       /\ o.what = "failed" => "reason" \in DOMAIN n
       /\ o.what = "failed" /\ o.reason = "dead" => n["reason"] = words
  BY <1>3, <1>4, <1>5, <1>9, <1>10
<1>12. /\ Ref(n, <<"order", "invoice">>) = Invoice(o)
       /\ ThriveCartFailed(n) <=> o.what = "failed"
  BY <1>11, OfOne, OfTwo DEF Ref, ThriveCartFailed
<1>13. CASE o.what = "failed"
  <2>1. \E id : ThriveCartIngest(n) =
          {AdvisoryFailed(id, ThriveCartInvoice(Invoice(o), n), ThriveCartDecline(n))}
    BY <1>11, <1>12, <1>13 DEF ThriveCartIngest, When
  <2>2. ASSUME o.reason = "dead"
        PROVE  Text(n, <<"decline_reason", "failure_reason", "order_decline_reason", "reason", "error">>)
                 = words
    <3>. DEFINE chain == <<"decline_reason", "failure_reason", "order_decline_reason", "reason", "error">>
    <3>1. /\ Len(chain) = 5 /\ chain[1] = "decline_reason" /\ chain[2] = "failure_reason"
          /\ chain[3] = "order_decline_reason" /\ chain[4] = "reason"
      OBVIOUS
    <3>. HIDE DEF chain
    <3>2. \A j \in 1..(4 - 1) : chain[j] \notin DOMAIN n
      BY <1>11, <3>1
    <3>3. FirstOf(n, chain, {}) = n[chain[4]]
      BY <1>11, <1>13, <3>1, <3>2, FirstThere
    <3> QED
      BY <1>11, <1>13, <2>2, <3>1, <3>3 DEF Text, chain
  <2>3. o.reason = "dead" => ~ RetriableCode(ThriveCartDecline(n))
    BY <2>2, ThriveCartDead DEF ThriveCartDecline, RetriableCode, HardCodes, words
  <2>4. Told(o, ThriveCartIngest(n))
    BY <1>0, <1>13, <2>1, <2>3, FailureIsTold DEF ThriveCartInvoice, Told, Tells
  <2> QED
    BY <1>13, <2>4, CollectionTakesNothingBack
<1>14. CASE o.what = "paid"
  <2>1. \E id : ThriveCartIngest(n) = {Paid(id, ThriveCartInvoice(Invoice(o), n))}
    BY <1>11, <1>12, <1>14 DEF ThriveCartIngest, When
  <2>2. Told(o, ThriveCartIngest(n))
    BY <1>0, <1>14, <2>1, PaymentIsTold DEF ThriveCartInvoice, Told, Tells
  <2> QED
    BY <1>14, <2>2, CollectionTakesNothingBack
<1>15. CASE o.what \notin {"failed", "paid"}
  <2>1. ThriveCartIngest(n) = {} /\ o.what \notin Learnable(o)
    BY <1>11, <1>15 DEF ThriveCartIngest, When, Learnable, Advisory
  <2> QED
    BY <2>1, NothingIsTold
<1> QED
  BY <1>13, <1>14, <1>15

\* Kajabi (ingestWebhook).
LEMMA KajabiTells ==
  ASSUME proc = "kajabi", NEW o, Occurs(o), NEW detailed \in BOOLEAN,
         NEW n \in KajabiWebhooks(o, detailed)
  PROVE  Told(o, KajabiIngest(n)) /\ Reverses(o, KajabiIngest(n))
<1>. DEFINE names == [failed |-> "payment.failed", paid |-> "payment.succeeded"]
           words == {"pickup", "declined"}
           a == Native(Named(o, names), o)
           b == [data |-> Invoice(o)]
           c == Says(o, "failure_reason", "pickup")
<1>0. IdOf(o) = Invoice(o)
  BY DEF IdOf
<1>1. n = a ++ b ++ c
  BY DEF KajabiWebhooks
<1>2. DOMAIN a = {"event", "id"} /\ a.event = Named(o, names)
  BY DEF Native
<1>3. DOMAIN b = {"data"} /\ b.data = Invoice(o)
  OBVIOUS
<1>5. /\ DOMAIN c \subseteq {"failure_reason"}
      /\ o.what = "failed" => "failure_reason" \in DOMAIN c
      /\ o.what = "failed" /\ o.reason = "dead" => c["failure_reason"] = words
  BY DEF Says, Why, Only
<1>6. Named(o, names) = CASE o.what = "failed" -> "payment.failed"
                          [] o.what = "paid" -> "payment.succeeded" [] OTHER -> "other"
  BY DEF Named
<1>. HIDE DEF a, b, c, names, words
<1>9. DOMAIN n = DOMAIN a \cup DOMAIN b \cup DOMAIN c
  BY <1>1 DEF ++
<1>10. \A f \in DOMAIN n : n[f] = IF f \in DOMAIN a THEN a[f] ELSE IF f \in DOMAIN b THEN b[f] ELSE c[f]
  BY <1>1 DEF ++
<1>11. /\ n.event = Named(o, names) /\ "data" \in DOMAIN n /\ n["data"] = Invoice(o)
       /\ "decline_code" \notin DOMAIN n
       /\ o.what = "failed" => "failure_reason" \in DOMAIN n
       /\ o.what = "failed" /\ o.reason = "dead" => n["failure_reason"] = words
  BY <1>2, <1>3, <1>5, <1>9, <1>10
<1>12. Ref(n, <<"data">>) = Invoice(o)
  BY <1>11, OfOne DEF Ref
<1>13. CASE o.what = "failed"
  <2>1. \E id : KajabiIngest(n) = {AdvisoryFailed(id, KajabiInvoice(Invoice(o), n), KajabiDecline(n))}
    BY <1>6, <1>11, <1>12, <1>13 DEF KajabiIngest, When
  <2>2. o.reason = "dead" => Text(n, <<"decline_code", "failure_reason">>) = words
    BY <1>11, <1>13, OfTwo DEF Text
  <2>3. o.reason = "dead" => ~ RetriableCode(KajabiDecline(n))
    BY <2>2, KajabiDead DEF KajabiDecline, RetriableCode, HardCodes, words
  <2>4. Told(o, KajabiIngest(n))
    BY <1>0, <1>13, <2>1, <2>3, FailureIsTold DEF KajabiInvoice, Told, Tells
  <2> QED
    BY <1>13, <2>4, CollectionTakesNothingBack
<1>14. CASE o.what = "paid"
  <2>1. \E id : KajabiIngest(n) = {Paid(id, KajabiInvoice(Invoice(o), n))}
    BY <1>6, <1>11, <1>12, <1>14 DEF KajabiIngest, When
  <2>2. Told(o, KajabiIngest(n))
    BY <1>0, <1>14, <2>1, PaymentIsTold DEF KajabiInvoice, Told, Tells
  <2> QED
    BY <1>14, <2>2, CollectionTakesNothingBack
<1>15. CASE o.what \notin {"failed", "paid"}
  <2>1. KajabiIngest(n) = {} /\ o.what \notin Learnable(o)
    BY <1>6, <1>11, <1>15 DEF KajabiIngest, When, Learnable, Advisory
  <2> QED
    BY <2>1, NothingIsTold
<1> QED
  BY <1>13, <1>14, <1>15

\* SamCart (ingestWebhook).
LEMMA SamCartTells ==
  ASSUME proc = "samcart", NEW o, Occurs(o), NEW detailed \in BOOLEAN,
         NEW n \in SamCartWebhooks(o, detailed)
  PROVE  Told(o, SamCartIngest(n)) /\ Reverses(o, SamCartIngest(n))
<1>. DEFINE names == [failed |-> "Subscription_Payment_Failed", paid |-> "Subscription_Charge",
                     refunded |-> "Order_Refunded"]
           words == {"revoc", "declined"}
           a == Native(Named(o, names), o)
           b == [order |-> Invoice(o)]
           c == Says(o, "decline_reason", "revoc")
<1>0. IdOf(o) = Invoice(o)
  BY DEF IdOf
<1>1. n = a ++ b ++ c
  BY DEF SamCartWebhooks
<1>2. DOMAIN a = {"event", "id"} /\ a.event = Named(o, names)
  BY DEF Native
<1>3. DOMAIN b = {"order"} /\ b.order = Invoice(o)
  OBVIOUS
<1>5. /\ DOMAIN c \subseteq {"decline_reason"}
      /\ o.what = "failed" => "decline_reason" \in DOMAIN c
      /\ o.what = "failed" /\ o.reason = "dead" => c["decline_reason"] = words
  BY DEF Says, Why, Only
<1>6. Named(o, names) = CASE o.what = "failed" -> "Subscription_Payment_Failed"
                          [] o.what = "paid" -> "Subscription_Charge"
                          [] o.what = "refunded" -> "Order_Refunded" [] OTHER -> "other"
  BY DEF Named
<1>. HIDE DEF a, b, c, names, words
<1>9. DOMAIN n = DOMAIN a \cup DOMAIN b \cup DOMAIN c
  BY <1>1 DEF ++
<1>10. \A f \in DOMAIN n : n[f] = IF f \in DOMAIN a THEN a[f] ELSE IF f \in DOMAIN b THEN b[f] ELSE c[f]
  BY <1>1 DEF ++
<1>11. /\ n.event = Named(o, names) /\ "order" \in DOMAIN n /\ n["order"] = Invoice(o)
       /\ o.what = "failed" => "decline_reason" \in DOMAIN n
       /\ o.what = "failed" /\ o.reason = "dead" => n["decline_reason"] = words
  BY <1>2, <1>3, <1>5, <1>9, <1>10
<1>12. Ref(n, <<"order">>) = Invoice(o)
  BY <1>11, OfOne DEF Ref
<1>13. CASE o.what = "failed"
  <2>1. \E id : SamCartIngest(n) = {AdvisoryFailed(id, SamCartInvoice(Invoice(o), n), SamCartDecline(n))}
    BY <1>6, <1>11, <1>12, <1>13 DEF SamCartIngest, When
  <2>2. o.reason = "dead" => Text(n, <<"decline_reason", "failure_reason">>) = words
    BY <1>11, <1>13, OfTwo DEF Text
  <2>3. o.reason = "dead" => ~ RetriableCode(SamCartDecline(n))
    BY <2>2, SamCartDead DEF SamCartDecline, RetriableCode, HardCodes, words
  <2>4. Told(o, SamCartIngest(n))
    BY <1>0, <1>13, <2>1, <2>3, FailureIsTold DEF SamCartInvoice, Told, Tells
  <2> QED
    BY <1>13, <2>4, CollectionTakesNothingBack
<1>14. CASE o.what = "paid"
  <2>1. \E id : SamCartIngest(n) = {Paid(id, SamCartInvoice(Invoice(o), n))}
    BY <1>6, <1>11, <1>12, <1>14 DEF SamCartIngest, When
  <2>2. Told(o, SamCartIngest(n))
    BY <1>0, <1>14, <2>1, PaymentIsTold DEF SamCartInvoice, Told, Tells
  <2> QED
    BY <1>14, <2>2, CollectionTakesNothingBack
<1>15. CASE o.what = "refunded"
  <2>1. \E id : SamCartIngest(n) = {SubscriptionUpdated(id)}
    BY <1>6, <1>11, <1>12, <1>15 DEF SamCartIngest, When
  <2>2. o.what \notin {"failed", "paid"} \cup Learnable(o)
    BY <1>15 DEF Learnable, Advisory
  <2>3. Told(o, SamCartIngest(n))
    BY <2>1, <2>2, ChurnIsTold
  <2>4. Reverses(o, SamCartIngest(n))
    BY <2>1, <2>2, ChurnIsTold
  <2> QED
    BY <2>3, <2>4
<1>16. CASE o.what \notin {"failed", "paid", "refunded"}
  <2>1. SamCartIngest(n) = {} /\ o.what \notin Learnable(o)
    BY <1>6, <1>11, <1>16 DEF SamCartIngest, When, Learnable, Advisory
  <2> QED
    BY <2>1, NothingIsTold
<1> QED
  BY <1>13, <1>14, <1>15, <1>16

-----------------------------------------------------------------------------
(* What an adapter makes of the answer to a charge.                         *)

\* The adapters whose "failed" can be taken for one, and the processors they charge at.
TakesFailures == proc \notin {"maxio", "elavon", "braintree"}
Chargers == {"stripe", "chargebee", "recurly", "zuora", "gocardless", "paypal", "checkout",
             "worldpay", "adyen", "tsys", "shopify", "woocommerce"}

\* A field of an answer, as the adapters read it.
LEMMA FieldOf ==
  ASSUME NEW a, NEW f
  PROVE  Field(a, f) = IF f \in DOMAIN a.body THEN a.body[f] ELSE "-"
<1>. DEFINE n == a.body
           d == "-"
<1>1. Field(a, f) = FirstOf(n, <<f>>, d)
  BY DEF Field
<1>. HIDE DEF n, d
<1>2. FirstOf(n, <<f>>, d) = IF f \in DOMAIN n THEN n[f] ELSE d
  BY OfOne
<1> QED
  BY <1>1, <1>2 DEF n, d

\* A response that is fine is read as what it says.
LEMMA OkAnswer ==
  ASSUME NEW b, NEW again \in BOOLEAN, NEW h
  PROVE  LET x == JsonAnswer(Replay(Ok(b), again), h)
         IN /\ x.kind = "returned" /\ x.body = b
            /\ \A f : Field(x, f) = IF f \in DOMAIN b THEN b[f] ELSE "-"
            /\ \A f : Has(x, f) <=> f \in DOMAIN b
<1>. DEFINE x == JsonAnswer(Replay(Ok(b), again), h)
<1>1. x.kind = "returned" /\ x.body = b
  BY DEF JsonAnswer, Replay, Ok, Response, IsOk, Returned, Answer
<1>. HIDE DEF x
<1>2. /\ \A f : Field(x, f) = IF f \in DOMAIN b THEN b[f] ELSE "-"
      /\ \A f : Has(x, f) <=> f \in DOMAIN b
  BY <1>1, FieldOf DEF Has
<1> QED
  BY <1>1, <1>2 DEF x

\* What the adapter of each processor takes for a failed charge was declined (attemptCharge).
LEMMA StripeFails ==
  ASSUME proc = "stripe", NEW state \in States, NEW a \in Answers[state],
         NEW again \in BOOLEAN, ChargeResult(Replay(a, again)).outcome = "failed"
  PROVE  state = "declined"
<1>1. CASE state = "collected"
  BY <1>1, OkAnswer DEF Answers, StripeAnswers, ChargeResult, StripeAnswer, StripeCharge,
     Outcome, Result
<1>2. CASE state = "progress"
  BY <1>2, OkAnswer DEF Answers, StripeAnswers, ChargeResult, StripeAnswer, StripeCharge,
     Outcome, Result
<1> QED
  BY <1>1, <1>2 DEF States

\* Chargebee (attemptCharge).
LEMMA ChargebeeFails ==
  ASSUME proc = "chargebee", NEW state \in States, NEW a \in Answers[state],
         NEW again \in BOOLEAN, ChargeResult(Replay(a, again)).outcome = "failed"
  PROVE  state = "declined"
<1>1. CASE state = "collected"
  BY <1>1, OkAnswer DEF Answers, ChargebeeAnswers, ChargeResult, ChargebeeAnswer,
     ChargebeeCharge, Outcome, Result
<1>2. CASE state = "progress"
  BY <1>2, OkAnswer DEF Answers, ChargebeeAnswers, ChargeResult, ChargebeeAnswer,
     ChargebeeCharge, Outcome, Result
<1> QED
  BY <1>1, <1>2 DEF States

\* Recurly (attemptCharge).
LEMMA RecurlyFails ==
  ASSUME proc = "recurly", NEW state \in States, NEW a \in Answers[state],
         NEW again \in BOOLEAN, ChargeResult(Replay(a, again)).outcome = "failed"
  PROVE  state = "declined"
<1>1. CASE state = "collected"
  BY <1>1, OkAnswer DEF Answers, RecurlyAnswers, ChargeResult, RecurlyAnswer, RecurlyCharge,
     Outcome, Result
<1>2. CASE state = "progress"
  BY <1>2, OkAnswer DEF Answers, RecurlyAnswers, ChargeResult, RecurlyAnswer, RecurlyCharge,
     Outcome, Result
<1> QED
  BY <1>1, <1>2 DEF States

\* Zuora (attemptCharge).
LEMMA ZuoraFails ==
  ASSUME proc = "zuora", NEW state \in States, NEW a \in Answers[state],
         NEW again \in BOOLEAN, ChargeResult(Replay(a, again)).outcome = "failed"
  PROVE  state = "declined"
<1>1. CASE state = "collected"
  BY <1>1, OkAnswer DEF Answers, ZuoraAnswers, ChargeResult, ZuoraAnswer, ZuoraCharge, Outcome,
     Result
<1>2. CASE state = "progress"
  BY <1>2, OkAnswer DEF Answers, ZuoraAnswers, ChargeResult, ZuoraAnswer, ZuoraCharge, Outcome,
     Result
<1> QED
  BY <1>1, <1>2 DEF States

\* GoCardless (attemptCharge).
LEMMA GoCardlessFails ==
  ASSUME proc = "gocardless", NEW state \in States, NEW a \in Answers[state],
         NEW again \in BOOLEAN, ChargeResult(Replay(a, again)).outcome = "failed"
  PROVE  state = "declined"
<1>1. CASE state = "collected"
  BY <1>1, OkAnswer DEF Answers, GoCardlessAnswers, ChargeResult, GoCardlessAnswer,
     GoCardlessCharge, Outcome, Result, GoCardlessOutcome
<1>2. CASE state = "progress"
  BY <1>2, OkAnswer DEF Answers, GoCardlessAnswers, ChargeResult, GoCardlessAnswer,
     GoCardlessCharge, Outcome, Result, GoCardlessOutcome
<1> QED
  BY <1>1, <1>2 DEF States

\* PayPal (attemptCharge).
LEMMA PayPalFails ==
  ASSUME proc = "paypal", NEW state \in States, NEW a \in Answers[state],
         NEW again \in BOOLEAN, ChargeResult(Replay(a, again)).outcome = "failed"
  PROVE  state = "declined"
<1>1. CASE state = "collected"
  BY <1>1, OkAnswer DEF Answers, PayPalAnswers, ChargeResult, PayPalAnswer, PayPalCharge,
     Outcome, Result, PayPalStatus
<1>2. CASE state = "progress"
  BY <1>2, OkAnswer DEF Answers, PayPalAnswers, ChargeResult, PayPalAnswer, PayPalCharge,
     Outcome, Result, PayPalStatus
<1> QED
  BY <1>1, <1>2 DEF States

\* Checkout.com (attemptCharge).
LEMMA CheckoutFails ==
  ASSUME proc = "checkout", NEW state \in States, NEW a \in Answers[state],
         NEW again \in BOOLEAN, ChargeResult(Replay(a, again)).outcome = "failed"
  PROVE  state = "declined"
<1>1. CASE state = "collected"
  BY <1>1, OkAnswer DEF Answers, CheckoutAnswers, ChargeResult, CheckoutAnswer, CheckoutCharge,
     Outcome, Result
<1>2. CASE state = "progress"
  BY <1>2, OkAnswer DEF Answers, CheckoutAnswers, ChargeResult, CheckoutAnswer, CheckoutCharge,
     Outcome, Result
<1> QED
  BY <1>1, <1>2 DEF States

\* Worldpay (attemptCharge).
LEMMA WorldpayFails ==
  ASSUME proc = "worldpay", NEW state \in States, NEW a \in Answers[state],
         NEW again \in BOOLEAN, ChargeResult(Replay(a, again)).outcome = "failed"
  PROVE  state = "declined"
<1>1. CASE state = "collected"
  BY <1>1, OkAnswer DEF Answers, WorldpayAnswers, ChargeResult, WorldpayAnswer, WorldpayCharge,
     Outcome, Result
<1>2. CASE state = "progress"
  BY <1>2, OkAnswer DEF Answers, WorldpayAnswers, ChargeResult, WorldpayAnswer, WorldpayCharge,
     Outcome, Result
<1> QED
  BY <1>1, <1>2 DEF States

\* Adyen (attemptCharge).
LEMMA AdyenFails ==
  ASSUME proc = "adyen", NEW state \in States, NEW a \in Answers[state],
         NEW again \in BOOLEAN, ChargeResult(Replay(a, again)).outcome = "failed"
  PROVE  state = "declined"
<1>1. CASE state = "collected"
  BY <1>1, OkAnswer DEF Answers, AdyenAnswers, ChargeResult, AdyenAnswer, AdyenCharge, Outcome,
     Result
<1>2. CASE state = "progress"
  BY <1>2, OkAnswer DEF Answers, AdyenAnswers, ChargeResult, AdyenAnswer, AdyenCharge, Outcome,
     Result
<1> QED
  BY <1>1, <1>2 DEF States

\* TSYS (attemptCharge).
LEMMA TsysFails ==
  ASSUME proc = "tsys", NEW state \in States, NEW a \in Answers[state], NEW again \in BOOLEAN,
         ChargeResult(Replay(a, again)).outcome = "failed"
  PROVE  state = "declined"
BY FieldOf, OfOne DEF States, Answers, TsysAnswers, ChargeResult, TsysCharge, TsysAnswer,
   TsysApprovals,
   Outcome, Replay, Response, Ok, Result, Returned, Error, Answer, IsOk, Has, Lenient, Throws,
   Unreadable, TsysPaymentFailure

\* Shopify (attemptCharge).
LEMMA ShopifyFails ==
  ASSUME proc = "shopify", NEW state \in States, NEW a \in Answers[state],
         NEW again \in BOOLEAN, ChargeResult(Replay(a, again)).outcome = "failed"
  PROVE  state = "declined"
<1>1. CASE state = "collected"
  BY <1>1, OkAnswer DEF Answers, ShopifyAnswers, ChargeResult, ShopifyAnswer, ShopifyCharge,
     Outcome, Result, Throws
<1>2. CASE state = "progress"
  BY <1>2, OkAnswer DEF Answers, ShopifyAnswers, ChargeResult, ShopifyAnswer, ShopifyCharge,
     Outcome, Result, Throws
<1> QED
  BY <1>1, <1>2 DEF States

\* WooCommerce (attemptCharge).
LEMMA WooFails ==
  ASSUME proc = "woocommerce", NEW state \in States, NEW a \in Answers[state],
         NEW again \in BOOLEAN, ChargeResult(Replay(a, again)).outcome = "failed"
  PROVE  state = "declined"
<1>1. CASE state = "collected"
  BY <1>1, OkAnswer DEF Answers, WooAnswers, ChargeResult, WooAnswer, WooCharge, Outcome,
     Result, WooOutcome
<1>2. CASE state = "progress"
  BY <1>2, OkAnswer DEF Answers, WooAnswers, ChargeResult, WooAnswer, WooCharge, Outcome,
     Result, WooOutcome
<1> QED
  BY <1>1, <1>2 DEF States

\* What the clients make of a request that was not allowed or did not get through.
Unheard(x) ==
  /\ x.kind \in {"error", "unreadable"} /\ x.code \in {200, 401, 502, 503}
  /\ DOMAIN x.body \subseteq {"type", "message"}
  /\ "type" \in DOMAIN x.body => x.body["type"] = "authentication_error"

\* What a client makes of a token that is refused, of a page or of nothing.
LEMMA RefusalAnswer ==
  ASSUME NEW a \in Refusals, NEW h
  PROVE  Unheard(JsonAnswer(Replay(a, FALSE), h))
<1>. DEFINE x == JsonAnswer(Replay(a, FALSE), h)
<1>1. CASE a = Response(401, [type |-> "authentication_error"])
  <2>1. x.kind = "error" /\ x.code = 401 /\ x.body = [type |-> "authentication_error"]
    BY <1>1 DEF Replay, Response, JsonAnswer, IsOk, Error, Answer, Lenient
  <2>. HIDE DEF x
  <2>2. Unheard(x)
    BY <2>1 DEF Unheard
  <2> QED
    BY <2>2 DEF x
<1>2. CASE a = Page(502)
  <2>1. x.kind = "error" /\ x.code = 502 /\ x.body = Only("message", "page")
    BY <1>2 DEF Replay, Response, Page, JsonAnswer, IsOk, Error, Answer, Lenient
  <2>. HIDE DEF x
  <2>2. Unheard(x)
    BY <2>1 DEF Unheard, Only
  <2> QED
    BY <2>2 DEF x
<1>3. CASE a = Page(200)
  <2>1. x.kind = "unreadable" /\ x.code = 200 /\ x.body = << >>
    BY <1>3 DEF Replay, Response, Page, JsonAnswer, IsOk, Unreadable, Answer
  <2>. HIDE DEF x
  <2>2. Unheard(x)
    BY <2>1 DEF Unheard
  <2> QED
    BY <2>2 DEF x
<1>4. CASE a = Bare(503)
  <2>1. x.kind = "error" /\ x.code = 503 /\ x.body = << >>
    BY <1>4 DEF Replay, Response, Bare, JsonAnswer, IsOk, Error, Answer, Lenient
  <2>. HIDE DEF x
  <2>2. Unheard(x)
    BY <2>1 DEF Unheard
  <2> QED
    BY <2>2 DEF x
<1>. HIDE DEF x
<1> QED
  BY <1>1, <1>2, <1>3, <1>4, ZenonT(60) DEF Refusals, x

\* A request that was refused or did not get through is taken for no failed attempt.
LEMMA RefusalFails ==
  ASSUME NEW a \in Refusals, proc # "maxio", proc # "elavon", proc # "braintree"
  PROVE  ChargeResult(Replay(a, FALSE)).outcome # "failed"
<1>. DEFINE r == Replay(a, FALSE)
           x(h) == JsonAnswer(r, h)
<1>1. \A h : Unheard(x(h))
  BY RefusalAnswer
<1>. HIDE DEF x
<1>3. CASE proc = "stripe"
  <2>1. ~StripeCardError(x("idempotent-replayed")) /\ x("idempotent-replayed").kind # "returned"
    BY <1>1, FieldOf DEF StripeCardError, Has, Unheard
  <2> QED
    BY <1>3, <2>1 DEF ChargeResult, StripeCharge, StripeAnswer, x, r, Outcome, Throws, Result
<1>4. CASE proc = "chargebee"
  <2>1. /\ ~ChargebeePaymentFailure(x("chargebee-idempotency-replayed"))
        /\ x("chargebee-idempotency-replayed").kind # "returned"
    BY <1>1, FieldOf DEF ChargebeePaymentFailure, Has, Unheard
  <2> QED
    BY <1>4, <2>1 DEF ChargeResult, ChargebeeCharge, ChargebeeAnswer, x, r, Outcome, Throws, Result
<1>5. CASE proc = "recurly"
  <2>1. /\ ~RecurlyPaymentFailure(x("recurly-idempotent-replayed"))
        /\ x("recurly-idempotent-replayed").kind # "returned"
    BY <1>1, FieldOf DEF RecurlyPaymentFailure, Has, Unheard
  <2> QED
    BY <1>5, <2>1 DEF ChargeResult, RecurlyCharge, RecurlyAnswer, x, r, Outcome, Throws, Result
<1>6. CASE proc = "zuora"
  <2>1. x("zuora-idempotency-replayed").kind # "returned"
    BY <1>1 DEF Unheard
  <2> QED
    BY <1>6, <2>1 DEF ChargeResult, ZuoraCharge, ZuoraAnswer, x, r, Outcome, Throws, Result
<1>7. CASE proc = "gocardless"
  <2>1. ~GoCardlessConflict(x("-")) /\ x("-").kind # "returned"
    BY <1>1, FieldOf DEF GoCardlessConflict, Has, Unheard
  <2> QED
    BY <1>7, <2>1 DEF ChargeResult, GoCardlessCharge, GoCardlessAnswer, x, r, Outcome, Throws,
       Result
<1>8. CASE proc = "paypal"
  <2>1. /\ ~PayPalPaymentFailure(x("paypal-request-id-replayed"))
        /\ x("paypal-request-id-replayed").kind # "returned"
    BY <1>1, FieldOf DEF PayPalPaymentFailure, Has, Unheard
  <2> QED
    BY <1>8, <2>1 DEF ChargeResult, PayPalCharge, PayPalAnswer, x, r, Outcome, Throws, Result
<1>9. CASE proc = "checkout"
  <2>1. /\ ~CheckoutPaymentFailure(x("cko-idempotency-replayed"))
        /\ x("cko-idempotency-replayed").kind # "returned"
    BY <1>1, FieldOf DEF CheckoutPaymentFailure, Has, Unheard
  <2> QED
    BY <1>9, <2>1 DEF ChargeResult, CheckoutCharge, CheckoutAnswer, x, r, Outcome, Throws, Result
<1>10. CASE proc = "worldpay"
  <2>1. /\ ~WorldpayPaymentFailure(x("idempotency-replayed"))
        /\ x("idempotency-replayed").kind # "returned"
    BY <1>1, FieldOf DEF WorldpayPaymentFailure, Has, Unheard
  <2> QED
    BY <1>10, <2>1 DEF ChargeResult, WorldpayCharge, WorldpayAnswer, x, r, Outcome, Throws, Result
<1>11. CASE proc = "adyen"
  <2>1. x("idempotency-replayed").kind # "returned"
    BY <1>1 DEF Unheard
  <2> QED
    BY <1>11, <2>1 DEF ChargeResult, AdyenCharge, AdyenAnswer, x, r, Outcome, Throws, Result
<1>12. CASE proc = "woocommerce"
  <2>1. x("-").kind # "returned"
    BY <1>1 DEF Unheard
  <2> QED
    BY <1>12, <2>1 DEF ChargeResult, WooCharge, WooAnswer, x, r, Outcome, Throws, Result
<1>13. CASE proc = "shopify"
  <2>1. ~ Has(x("-"), "errors") /\ ~ Has(x("-"), "ready")
    BY <1>1 DEF Has, Unheard
  <2> QED
    BY <1>13, <2>1 DEF ChargeResult, ShopifyCharge, ShopifyAnswer, Throws, Result, x, r, Outcome,
       Throws, Result
<1>14. CASE proc = "tsys"
  <2>1. CASE a \in {Response(401, [type |-> "authentication_error"]), Bare(503)}
    <3>. DEFINE y == TsysAnswer(r)
    <3>1. r.code \in {401, 503} /\ r.form # "text" /\ DOMAIN r.body \subseteq {"type"}
      BY <2>1 DEF r, Replay, Response, Bare
    <3>2. y.kind = "error" /\ DOMAIN y.body \subseteq {"type"}
      <4>. HIDE DEF r
      <4>0. ~ IsOk(r)
        BY <3>1 DEF IsOk
      <4>1. y = Error(r, r.body)
        BY <3>1, <4>0 DEF TsysAnswer
      <4>2. Error(r, r.body).kind = "error" /\ Error(r, r.body).body = r.body
        BY DEF Error, Answer
      <4>. HIDE DEF y
      <4> QED
        BY <3>1, <4>1, <4>2
    <3>. HIDE DEF y
    <3>3. y.kind # "returned" /\ ~ TsysPaymentFailure(y)
      BY <3>2, FieldOf DEF TsysPaymentFailure, Has
    <3> QED
      BY <1>14, <3>3 DEF r, y, ChargeResult, TsysCharge, Outcome, Throws, Result
  <2>2. CASE a \in {Page(502), Page(200)}
    <3>. DEFINE body == Only("status", "FAIL")
    <3>1. "status" \in DOMAIN body /\ body["status"] = "FAIL"
      BY DEF Only
    <3>2. r.form = "text"
      BY <2>2 DEF r, Replay, Response, Page
    <3>. HIDE DEF body
    <3>3. FirstOf(body, <<"status">>, "-") = "FAIL"
      BY <3>1, OfOne
    <3>4. TsysAnswer(r) = Error(r, body)
      BY <3>2, <3>3 DEF TsysAnswer, body
    <3>5. TsysAnswer(r).kind = "error" /\ TsysAnswer(r).body = body
      <4>1. Error(r, body).kind = "error" /\ Error(r, body).body = body
        BY DEF Error, Answer
      <4> QED
        BY <3>4, <4>1
    <3>6. Field(TsysAnswer(r), "status") = "FAIL"
      BY <3>1, <3>5, FieldOf
    <3>7. ~ TsysPaymentFailure(TsysAnswer(r))
      BY <3>6 DEF TsysPaymentFailure
    <3> QED
      BY <3>5, <3>7, <1>14 DEF r, ChargeResult, TsysCharge, Outcome, Throws, Result
  <2> QED
    BY <2>1, <2>2, ZenonT(60) DEF Refusals
<1>15. CASE proc \notin {"maxio", "elavon", "braintree"} \cup Chargers
  BY <1>15 DEF Chargers, ChargeResult, BaseCharge, Throws, Result
<1> QED
  BY <1>3, <1>4, <1>5, <1>6, <1>7, <1>8, <1>9, <1>10, <1>11, <1>12, <1>13, <1>14, <1>15
   DEF Chargers, r

\* What is taken for a failed attempt was declined, also when the answer is repeated (attemptCharge).
LEMMA FailedMeansDeclined ==
  ASSUME TakesFailures, NEW state \in States, NEW a \in Answers[state], NEW again \in BOOLEAN,
         ChargeResult(Replay(a, again)).outcome = "failed"
  PROVE  state = "declined"
<1>1. CASE proc \in Chargers
  BY <1>1, StripeFails, ChargebeeFails, RecurlyFails, ZuoraFails, GoCardlessFails, PayPalFails,
     CheckoutFails, WorldpayFails, AdyenFails, TsysFails, ShopifyFails, WooFails DEF Chargers
<1>2. CASE proc \notin {"maxio", "elavon", "braintree"} \cup Chargers
  BY <1>2 DEF Chargers, ChargeResult, BaseCharge, Throws, Result
<1> QED
  BY <1>1, <1>2 DEF TakesFailures

-----------------------------------------------------------------------------
(* Whatever the adapter.                                                    *)

\* The shops, and the billers and gateways that need no lookup.
Shops == Advisory \cup {"shopify", "woocommerce"}
Billers == {"chargebee", "recurly", "zuora", "maxio", "paypal", "checkout", "worldpay", "adyen"}

\* What a shop tells becomes events that are true to it.
LEMMA ShopsTell ==
  ASSUME proc \in Shops, NEW o, Occurs(o), NEW detailed \in BOOLEAN,
         NEW lookup \in BOOLEAN, NEW n \in Webhooks(o, detailed)
  PROVE  Told(o, Ingest(n, lookup))
<1>1. CASE proc = "shopify"
  BY <1>1, ShopifyTells DEF Webhooks, Ingest
<1>2. CASE proc = "woocommerce"
  BY <1>2, WooTells DEF Webhooks, Ingest
<1>3. CASE proc = "bigcommerce"
  BY <1>3, BigCommerceTells DEF Webhooks, Ingest
<1>4. CASE proc = "thrivecart"
  BY <1>4, ThriveCartTells DEF Webhooks, Ingest
<1>5. CASE proc = "kajabi"
  BY <1>5, KajabiTells DEF Webhooks, Ingest
<1>6. CASE proc = "samcart"
  BY <1>6, SamCartTells DEF Webhooks, Ingest
<1> QED
  BY <1>1, <1>2, <1>3, <1>4, <1>5, <1>6 DEF Shops, Advisory

\* What a biller or gateway tells becomes events that are true to it.
LEMMA BillersTell ==
  ASSUME proc \in Billers, NEW o, Occurs(o), NEW detailed \in BOOLEAN,
         NEW lookup \in BOOLEAN, NEW n \in Webhooks(o, detailed)
  PROVE  Told(o, Ingest(n, lookup))
<1>1. CASE proc = "chargebee"
  BY <1>1, ChargebeeTells DEF Webhooks, Ingest
<1>2. CASE proc = "recurly"
  BY <1>2, RecurlyTells DEF Webhooks, Ingest
<1>3. CASE proc = "zuora"
  BY <1>3, ZuoraTells DEF Webhooks, Ingest
<1>4. CASE proc = "maxio"
  BY <1>4, MaxioTells DEF Webhooks, Ingest
<1>5. CASE proc = "paypal"
  BY <1>5, PayPalTells DEF Webhooks, Ingest
<1>6. CASE proc = "checkout"
  BY <1>6, CheckoutTells DEF Webhooks, Ingest
<1>7. CASE proc = "worldpay"
  BY <1>7, WorldpayTells DEF Webhooks, Ingest
<1>8. CASE proc = "adyen"
  BY <1>8, AdyenTells DEF Webhooks, Ingest
<1> QED
  BY <1>1, <1>2, <1>3, <1>4, <1>5, <1>6, <1>7, <1>8 DEF Billers

\* What any processor tells becomes events that are true to it, one of which says what
\* happened if it can be learnt.
LEMMA WebhooksAreTold ==
  ASSUME NEW o, Occurs(o), NEW detailed \in BOOLEAN, NEW lookup \in BOOLEAN,
         NEW n \in Webhooks(o, detailed)
  PROVE  Told(o, Ingest(n, lookup))
<1>1. CASE proc \in Shops
  BY <1>1, ShopsTell
<1>2. CASE proc \in Billers
  BY <1>2, BillersTell
<1>3. CASE proc = "stripe"
  BY <1>3, StripeTells DEF Webhooks, Ingest
<1>4. CASE proc = "gocardless"
  BY <1>4, GoCardlessTells DEF Webhooks, Ingest
<1>5. CASE proc = "braintree"
  BY <1>5, BraintreeTells DEF Webhooks, Ingest
<1>6. CASE proc \notin Shops \cup Billers \cup {"stripe", "gocardless", "braintree"}
  <2>1. Webhooks(o, detailed) = {}
    BY <1>6 DEF Webhooks, Shops, Billers, Advisory
  <2> QED
    BY <2>1
<1> QED
  BY <1>1, <1>2, <1>3, <1>4, <1>5, <1>6

\* What a webhook says went back did, and a dispute is told of once.
LEMMA ReturnsAreTold ==
  ASSUME Itemised, NEW o, Occurs(o), NEW detailed \in BOOLEAN, NEW lookup \in BOOLEAN,
         NEW n \in Webhooks(o, detailed)
  PROVE  Reverses(o, Ingest(n, lookup)) /\ Webhooks(o, detailed) \subseteq {n}
<1>. USE DEF Webhooks, Ingest
<1>1. CASE proc \in {"zuora", "shopify", "thrivecart", "kajabi"}
  BY <1>1, ZuoraTells, ShopifyTells, ThriveCartTells, KajabiTells
     DEF ZuoraWebhooks, ShopifyWebhooks, ThriveCartWebhooks, KajabiWebhooks
<1>2. CASE proc = "bigcommerce"
  BY <1>2, BigCommerceTells DEF BigCommerceWebhooks
<1>3. CASE proc = "samcart"
  BY <1>3, SamCartTells DEF SamCartWebhooks
<1>4. CASE proc = "chargebee"
  BY <1>4, ChargebeeTells DEF ChargebeeWebhooks, When
<1>5. CASE proc = "recurly"
  BY <1>5, RecurlyTells DEF RecurlyWebhooks, When
<1>6. CASE proc = "maxio"
  BY <1>6, MaxioTells DEF MaxioWebhooks, When
<1>7. CASE proc = "paypal"
  BY <1>7, PayPalTells DEF PayPalWebhooks
<1>8. CASE proc = "checkout"
  BY <1>8, CheckoutTells DEF CheckoutWebhooks
<1>9. CASE proc = "worldpay"
  BY <1>9, WorldpayTells DEF WorldpayWebhooks
<1>10. CASE proc = "braintree"
  BY <1>10, BraintreeTells DEF BraintreeWebhooks, When
<1> QED
  BY <1>1, <1>2, <1>3, <1>4, <1>5, <1>6, <1>7, <1>8, <1>9, <1>10 DEF Itemised

\* What can be learnt of a payment is sent.
LEMMA LearnableIsSent ==
  ASSUME NEW o, o.what \in Learnable(o), NEW detailed \in BOOLEAN
  PROVE  Webhooks(o, detailed) # {}
<1>1. CASE proc \in {"paypal", "checkout", "adyen", "stripe", "worldpay"}
  BY <1>1 DEF Webhooks, StripeWebhooks, PayPalWebhooks, CheckoutWebhooks, AdyenWebhooks,
     WorldpayWebhooks
<1>2. CASE proc \in {"chargebee", "recurly", "maxio", "woocommerce"}
  <2>1. o.what \in {"failed", "paid", "refunded"}
    BY <1>2 DEF Learnable
  <2> QED
    BY <1>2, <2>1 DEF Webhooks, ChargebeeWebhooks, RecurlyWebhooks, MaxioWebhooks, WooWebhooks, When,
       HasOne
<1>3. CASE proc \in {"zuora", "shopify"} \cup Advisory
  BY <1>3 DEF Webhooks, ZuoraWebhooks, ShopifyWebhooks, BigCommerceWebhooks, ThriveCartWebhooks,
     KajabiWebhooks, SamCartWebhooks, Advisory
<1>4. CASE proc = "braintree"
  <2>1. CASE o.reference = Invoice(o)
    <3>1. Learnable(o) = {"failed", "paid"}
      BY <1>4, <2>1 DEF Learnable
    <3> QED
      BY <1>4, <2>1, <3>1 DEF Webhooks, BraintreeWebhooks, When, HasOne
  <2>2. CASE o.reference # Invoice(o)
    <3>1. Learnable(o) = {"disputed", "won"}
      BY <1>4, <2>2 DEF Learnable, Advisory
    <3> QED
      BY <1>4, <2>2, <3>1 DEF Webhooks, BraintreeWebhooks, When, HasOne
  <2> QED
    BY <2>1, <2>2
<1>5. CASE proc \notin {"paypal", "checkout", "adyen", "stripe", "worldpay", "chargebee", "recurly",
                        "maxio", "woocommerce", "zuora", "shopify", "braintree"} \cup Advisory
  BY <1>5 DEF Learnable
<1> QED
  BY <1>1, <1>2, <1>3, <1>4, <1>5

-----------------------------------------------------------------------------
(* The invariant of the flow, part by part.                                 *)

\* What is told of a payment, and that it happened: what was reported once stays true.
Occurrence(i, what, total) ==
  [what |-> what, bill |-> payments[i].bill, pay |-> i, reference |-> payments[i].reference,
   total |-> total, reason |-> payments[i].reason]
Happened(i, what, total) ==
  /\ i \in Numbers /\ total \in 0..BillAmount /\ what \in Whats
  /\ payments[i].state = IF what = "failed" THEN "declined" ELSE "collected"
  /\ what = "refunded" => total > 0 /\ payments[i].returned > 0
  /\ what = "disputed" => payments[i].dispute # "none"
  /\ what = "won" => payments[i].dispute = "won"

\* The cases, and the invoice each goes by, which is the one its events carry.
Statuses == {"open", "calling", "recovered", "handed_off", "exhausted", "workflow_failed"}
CaseFields == {"bill", "decline", "customer", "status", "attempt", "try", "method"}
GoesBy(v, b) ==
  /\ v \in Ids
  /\ proc \in {"maxio", "braintree"} => v = Subscription
  /\ proc \notin {"maxio", "braintree", "paypal", "shopify"} => v = <<"invoice", b>>
CaseOK(v, c) ==
  /\ DOMAIN c = CaseFields /\ c.bill \in Bills /\ c.status \in Statuses
  /\ c.attempt \in 1..MaxAttempts /\ c.try \in 0..MaxTries /\ c.method \in Methods
  /\ GoesBy(v, c.bill)
CasesOK == \A v \in DOMAIN cases : CaseOK(v, cases[v])

\* The payments: the merchant's own and those of an attempt, each under what its adapter
\* named it, which is how its webhooks lead back to the case.
Own == Numbers \ Driven
PaymentsOK ==
  /\ payments \in Seq(Payments)
  /\ \A i \in Numbers : /\ payments[i].reason \in Reasons <=> payments[i].state = "declined"
                        /\ payments[i].first = "declined" => payments[i].state = "declined"
                        /\ payments[i].dispute # "none" => payments[i].state = "collected"
  /\ \A i \in Own : /\ payments[i].state # "progress"
                    /\ payments[i].reference = <<"invoice", payments[i].bill>>
  /\ \A i \in Driven :
       LET k == payments[i].key
       IN /\ proc \in Charging
          /\ k[1] \in DOMAIN cases /\ payments[i].bill = cases[k[1]].bill
          /\ payments[i].reference = RequestFor(k[1], k[2], k).reference

\* Attempts are made one after the other, and the next one when the last has failed: a
\* payment of an attempt that is over did not collect and never will.
AttemptsInv ==
  \A i \in Driven :
    LET k == payments[i].key  c == cases[k[1]]
    IN /\ k[3] <= c.attempt
       /\ k[3] = c.attempt => c.status # "open" /\ k[2] = c.method
       /\ TakesFailures /\ (k[3] < c.attempt \/ c.status = "exhausted") =>
            payments[i].state = "declined"

\* What is under way and what was reported is true, and so can be told to a case later.
WireInv ==
  \A w \in wire :
    \E total \in 0..BillAmount, detailed \in BOOLEAN :
      /\ Happened(w.pay, w.what, total)
      /\ w.native \in Webhooks(Occurrence(w.pay, w.what, total), detailed)
ReportedInv ==
  \A r \in reported :
    \E what \in Whats, total \in 0..BillAmount :
      /\ Happened(r.pay, what, total)
      /\ Faithful(Occurrence(r.pay, what, total), r.event)

\* What AX10M can learn of a payment, and what became nothing is none of it.
Learns(i) == Learnable([bill |-> payments[i].bill, reference |-> payments[i].reference])
MissedInv == \A w \in missed : w.pay \in Numbers /\ w.what \in Whats \ Learns(w.pay)

\* What happened to a payment and can be learnt is reported or about to be.
ToldOf(i, what) ==
  \/ \E w \in wire : w.pay = i /\ w.what = what
  \/ \E r \in reported : r.pay = i /\ r.event.type = EventOf[what]
HappenedIsTold == \A i \in Numbers : \A what \in Occurred(i) : what \in Learns(i) => ToldOf(i, what)

\* A case is of a bill that was tried, and of one that failed for want of funds if its decline
\* can be tried again.
HaveFailed ==
  \A v \in DOMAIN cases :
    \E j \in Numbers : payments[j].bill = cases[v].bill
SparedInv ==
  TellsDead =>
   /\ \A v \in DOMAIN cases : LET c == cases[v] IN
       /\ RetriableCode(c.decline) =>
            \E j \in Numbers : payments[j].bill = c.bill /\ payments[j].reason = "funds"
       /\ c.status = "calling" /\ c.method = <<"card">> => RetriableCode(c.decline)
   /\ DeadCardIsSpared

\* Where a charge names no invoice that could be paid already, what keeps a bill from being
\* collected twice is that the merchant tries it once, and that its case is of a failure.
Unguarded == proc \in {"checkout", "worldpay", "adyen", "tsys"}
OwnOnce ==
  Unguarded =>
    /\ \A i, j \in Own : payments[i].bill = payments[j].bill => i = j
    /\ \A v \in DOMAIN cases : \A i \in Own :
         payments[i].bill = cases[v].bill => payments[i].state = "declined"

\* The whole of it.
FInv ==
  /\ IInv /\ proc \in Served
  /\ CasesOK /\ PaymentsOK /\ AttemptsInv /\ WireInv /\ ReportedInv /\ MissedInv
  /\ HappenedIsTold /\ HaveFailed /\ SparedInv /\ OwnOnce /\ CollectedOnce

-----------------------------------------------------------------------------
(* Requests, and the answer to one that is repeated.                        *)

\* What the payment of an attempt is made under, and what names no bill.
LEMMA RequestNames ==
  ASSUME NEW v, NEW m, NEW k
  PROVE  /\ RequestFor(v, m, k).reference \in {None, v, Subscription}
         /\ proc \in {"worldpay", "adyen", "checkout", "braintree"} => RequestFor(v, m, k).reference = v
         /\ proc \in {"paypal"} => RequestFor(v, m, k).reference = None
         /\ RequestFor(v, m, k).charges = None =>
              \/ proc \in {"paypal", "checkout", "worldpay", "adyen", "braintree", "elavon", "tsys",
                           "shopify"}
              \/ v = None
BY DEF RequestFor, Request, StripeRequest, ChargebeeRequest, RecurlyRequest, ZuoraRequest,
       MaxioRequest, GoCardlessRequest, PayPalRequest, CheckoutRequest, WorldpayRequest,
       AdyenRequest, BraintreeRequest, ElavonRequest, TsysRequest, ShopifyRequest, WooRequest

\* GoCardless does not repeat what it answered, and the adapter waits for the webhook.
LEMMA ConflictPends ==
  ASSUME proc = "gocardless"
  PROVE  LET r == Response(409, [reason |-> "idempotent_creation_conflict"])
         IN  ChargeResult(Replay(r, TRUE)).outcome # "failed"
BY FieldOf DEF ChargeResult, GoCardlessCharge, GoCardlessConflict, GoCardlessAnswer, JsonAnswer,
   Outcome, Replay, Response, Ok, Result, Returned, Error, Answer, IsOk, Has, Lenient, Throws,
   Unreadable

-----------------------------------------------------------------------------
(* What a step leaves as it was.                                            *)

\* One payment more.
LEMMA OneMore ==
  ASSUME payments \in Seq(Payments), NEW p \in Payments, payments' = Append(payments, p),
         NEW n, n = Len(payments) + 1
  PROVE  /\ payments' \in Seq(Payments) /\ n \in Nat /\ Len(payments') = n
         /\ Numbers' = Numbers \cup {n} /\ n \notin Numbers
         /\ \A j \in Numbers : j \in Nat /\ j < n
         /\ payments'[n] = p /\ \A j \in Numbers : payments'[j] = payments[j]
         /\ Driven' = Driven \cup (IF p.key = None THEN {} ELSE {n})
         /\ Own' = Own \cup (IF p.key = None THEN {n} ELSE {})
<1>1. payments' \in Seq(Payments) /\ n \in Nat /\ Len(payments') = n
  OBVIOUS
<1>2. Numbers = 1..Len(payments) /\ Numbers' = 1..n
  BY <1>1 DEF Numbers
<1>3. Numbers' = Numbers \cup {n} /\ n \notin Numbers /\ \A j \in Numbers : j \in Nat /\ j < n
  BY <1>1, <1>2
<1>4. payments'[n] = p /\ \A j \in Numbers : payments'[j] = payments[j]
  BY <1>2
<1>5. Driven' = Driven \cup (IF p.key = None THEN {} ELSE {n})
  BY <1>3, <1>4 DEF Driven
<1>6. Own' = Own \cup (IF p.key = None THEN {n} ELSE {})
  BY <1>3, <1>5 DEF Own, Driven
<1> QED
  BY <1>1, <1>3, <1>4, <1>5, <1>6

\* One payment that changes.
LEMMA OneChanged ==
  ASSUME payments \in Seq(Payments), NEW p \in Payments, NEW i \in Numbers,
         payments' = [payments EXCEPT ![i] = p], p.key = payments[i].key
  PROVE  /\ payments' \in Seq(Payments)
         /\ Numbers' = Numbers /\ Driven' = Driven /\ Own' = Own
         /\ \A j \in Numbers : payments'[j] = IF j = i THEN p ELSE payments[j]
<1>1. payments' \in Seq(Payments) /\ DOMAIN payments' = DOMAIN payments
  BY DEF Numbers
<1>2. \A j \in Numbers : payments'[j] = IF j = i THEN p ELSE payments[j]
  BY DEF Numbers
<1>3. Numbers' = Numbers
  BY <1>1 DEF Numbers
<1>4. Driven' = Driven
  BY <1>2, <1>3 DEF Driven
<1> QED
  BY <1>1, <1>2, <1>3, <1>4 DEF Own

\* What does not change of a payment, and of a case.
Stable ==
  \A j \in Numbers :
    /\ j \in Numbers'
    /\ payments'[j].bill = payments[j].bill /\ payments'[j].key = payments[j].key
    /\ payments'[j].reference = payments[j].reference
    /\ payments'[j].method = payments[j].method
    /\ payments[j].state # "progress" => /\ payments'[j].state = payments[j].state
                                         /\ payments'[j].reason = payments[j].reason
    /\ payments[j].returned > 0 => payments'[j].returned > 0
    /\ payments[j].dispute # "none" => payments'[j].dispute # "none"
    /\ payments[j].dispute = "won" => payments'[j].dispute = "won"
StableCases ==
  \A v \in DOMAIN cases :
    /\ v \in DOMAIN cases'
    /\ cases'[v].bill = cases[v].bill /\ cases'[v].decline = cases[v].decline

\* What happened to a payment has happened to it for good.
LEMMA WhatHappenedStays ==
  ASSUME Stable, NEW i, NEW what, NEW total, Happened(i, what, total)
  PROVE  Happened(i, what, total)' /\ Occurrence(i, what, total)' = Occurrence(i, what, total)
BY DEF Stable, Happened, Occurrence

\* So what was reported stays true,
LEMMA ReportsStay ==
  ASSUME ReportedInv, Stable, proc' = proc, reported' = reported
  PROVE  ReportedInv'
<1>. SUFFICES ASSUME NEW r \in reported
     PROVE \E what \in Whats, total \in 0..BillAmount :
      /\ Happened(r.pay, what, total)'
      /\ Faithful(Occurrence(r.pay, what, total), r.event)'
  BY DEF ReportedInv
<1>1. PICK what \in Whats, total \in 0..BillAmount :
        Happened(r.pay, what, total) /\ Faithful(Occurrence(r.pay, what, total), r.event)
  BY DEF ReportedInv
<1>2. Happened(r.pay, what, total)' /\ Occurrence(r.pay, what, total)' = Occurrence(r.pay, what, total)
  BY <1>1, WhatHappenedStays
<1>3. Faithful(Occurrence(r.pay, what, total), r.event)'
  BY <1>1, <1>2 DEF Faithful, IdOf, TellsDead
<1> QED
  BY <1>2, <1>3

\* and what is under way.
LEMMA WireStays ==
  ASSUME WireInv, Stable, proc' = proc, NEW w \in wire
  PROVE  \E total \in 0..BillAmount, detailed \in BOOLEAN :
      /\ Happened(w.pay, w.what, total)'
      /\ w.native \in Webhooks(Occurrence(w.pay, w.what, total), detailed)'
<1>1. PICK total \in 0..BillAmount, detailed \in BOOLEAN :
        Happened(w.pay, w.what, total) /\ w.native \in Webhooks(Occurrence(w.pay, w.what, total), detailed)
  BY DEF WireInv
<1>2. Happened(w.pay, w.what, total)' /\ Occurrence(w.pay, w.what, total)' = Occurrence(w.pay, w.what, total)
  BY <1>1, WhatHappenedStays
<1>3. w.native \in Webhooks(Occurrence(w.pay, w.what, total), detailed)'
  BY <1>1, <1>2 DEF Webhooks
<1> QED
  BY <1>2, <1>3

\* What is told of a payment is true, and what can be learnt is told.
LEMMA NotifyKeepsTheWire ==
  ASSUME WireInv, Stable, proc' = proc, NEW i, NEW what, Happened(i, what, payments[i].returned)',
         Notify(payments', i, what)
  PROVE  /\ WireInv' /\ wire \subseteq wire'
         /\ what \in Learns(i)' => \E w \in wire' : w.pay = i /\ w.what = what
<1>. DEFINE o == Occurrence(i, what, payments[i].returned)'
<1>1. PICK detailed \in BOOLEAN :
        wire' = wire \cup {[pay |-> i, what |-> what, native |-> n] : n \in Webhooks(o, detailed)}
  BY DEF Notify, Occurrence
<1>2. payments'[i].returned \in 0..BillAmount
  BY DEF Happened
<1>3. WireInv'
  <2>. SUFFICES ASSUME NEW w \in wire'
       PROVE  \E total \in 0..BillAmount, d \in BOOLEAN :
                /\ Happened(w.pay, w.what, total)'
                /\ w.native \in Webhooks(Occurrence(w.pay, w.what, total), d)'
    BY DEF WireInv
  <2>1. CASE w \in wire
    BY <2>1, WireStays
  <2>2. CASE w \notin wire
    <3>1. PICK n \in Webhooks(o, detailed) : w = [pay |-> i, what |-> what, native |-> n]
      BY <1>1, <2>2
    <3>2. w.native \in Webhooks(o, detailed)
      BY <3>1
    <3>3. w.native \in Webhooks(Occurrence(i, what, payments[i].returned), detailed)'
      BY <3>2 DEF Webhooks
    <3>4. w.pay = i /\ w.what = what
      BY <3>1
    <3> QED
      BY <1>2, <3>3, <3>4
  <2> QED
    BY <2>1, <2>2
<1>4. ASSUME what \in Learns(i)'
      PROVE  \E w \in wire' : w.pay = i /\ w.what = what
  <2>1. o.what = what /\ o.bill = payments'[i].bill /\ o.reference = payments'[i].reference
    BY DEF Occurrence
  <2>2. Learns(i)' = Learnable(o)
    BY <2>1 DEF Learns, Learnable, Invoice
  <2>. HIDE DEF o
  <2>3. Webhooks(o, detailed) # {}
    BY <1>4, <2>1, <2>2, LearnableIsSent
  <2>4. PICK n : n \in Webhooks(o, detailed)
    BY <2>3
  <2>5. [pay |-> i, what |-> what, native |-> n] \in wire'
    BY <1>1, <2>4
  <2> QED
    BY <2>5
<1> QED
  BY <1>1, <1>3, <1>4

\* What a payment came to is told.
LEMMA TellKeepsTheWire ==
  ASSUME WireInv, Stable, proc' = proc, payments' \in Seq(Payments), NEW i, i \in Numbers',
         Tell(payments', i)
  PROVE  /\ WireInv' /\ wire \subseteq wire'
         /\ payments'[i].state = "collected" /\ "paid" \in Learns(i)' =>
              \E w \in wire' : w.pay = i /\ w.what = "paid"
         /\ payments'[i].state = "declined" /\ "failed" \in Learns(i)' =>
              \E w \in wire' : w.pay = i /\ w.what = "failed"
<1>1. payments'[i] \in Payments
  BY DEF Numbers
<1>2. payments'[i].returned \in 0..BillAmount /\ payments'[i].state \in States
  BY <1>1 DEF Payments
<1>3. CASE payments'[i].state = "collected"
  <2>1. Happened(i, "paid", payments[i].returned)'
    BY <1>2, <1>3 DEF Happened, Whats
  <2>2. Notify(payments', i, "paid")
    BY <1>3 DEF Tell
  <2>. DEFINE what == "paid"
  <2>3. Happened(i, what, payments[i].returned)' /\ Notify(payments', i, what) /\ what = "paid"
    BY <2>1, <2>2
  <2>. HIDE DEF what
  <2> QED
    BY <1>3, <2>3, NotifyKeepsTheWire
<1>4. CASE payments'[i].state = "declined"
  <2>1. Happened(i, "failed", payments[i].returned)'
    BY <1>2, <1>4 DEF Happened, Whats
  <2>2. Notify(payments', i, "failed")
    BY <1>4 DEF Tell
  <2>. DEFINE what == "failed"
  <2>3. Happened(i, what, payments[i].returned)' /\ Notify(payments', i, what) /\ what = "failed"
    BY <2>1, <2>2
  <2>. HIDE DEF what
  <2> QED
    BY <1>4, <2>3, NotifyKeepsTheWire
<1>5. CASE payments'[i].state \notin {"collected", "declined"}
  <2>1. wire' = wire
    BY <1>5 DEF Tell
  <2> QED
    BY <1>5, <2>1, WireStays DEF WireInv
<1> QED
  BY <1>3, <1>4, <1>5

\* What can be learnt of a payment is settled when it is made.
LEMMA LearnsTheSame ==
  ASSUME Stable, proc' = proc, NEW i \in Numbers
  PROVE  Learns(i)' = Learns(i)
<1>1. payments'[i].bill = payments[i].bill /\ payments'[i].reference = payments[i].reference
  BY DEF Stable
<1> QED
  BY <1>1 DEF Learns, Learnable, Invoice

\* Steps of the processor leave alone what AX10M has.
LEMMA CasesStay ==
  ASSUME FInv, Stable, UNCHANGED <<proc, cases, reported, missed>>
  PROVE  /\ proc' \in Served /\ CasesOK' /\ ReportedInv' /\ MissedInv' /\ HaveFailed'
<1>1. CasesOK'
  BY DEF FInv, CasesOK, CaseOK, GoesBy
<1>2. ReportedInv'
  BY ReportsStay DEF FInv
<1>3. MissedInv'
  BY LearnsTheSame DEF FInv, MissedInv, Stable
<1>4. HaveFailed'
  BY DEF FInv, HaveFailed, Stable
<1> QED
  BY <1>1, <1>2, <1>3, <1>4 DEF FInv

\* And the attempts of its cases.
LEMMA AttemptsStay ==
  ASSUME FInv, Stable, UNCHANGED <<proc, cases>>, Driven' = Driven
  PROVE  AttemptsInv' /\ SparedInv'
<1>1. Driven \subseteq Numbers /\ \A j \in Driven : payments'[j].key = payments[j].key
  BY DEF Driven, Stable
<1>2. AttemptsInv'
  BY <1>1 DEF FInv, AttemptsInv, Stable, TakesFailures
<1>3. ASSUME TellsDead, NEW b, NEW j \in Numbers, payments[j].bill = b, payments[j].reason = "funds"
      PROVE  j \in Numbers' /\ payments'[j].bill = b /\ payments'[j].reason = "funds"
  BY <1>3 DEF FInv, PaymentsOK, Stable, Reasons
<1>4. ASSUME TellsDead, NEW v \in DOMAIN cases, RetriableCode(cases[v].decline)
      PROVE  \E j \in Numbers' : payments'[j].bill = cases[v].bill /\ payments'[j].reason = "funds"
  BY <1>3, <1>4 DEF FInv, SparedInv
<1>5. ASSUME TellsDead, NEW i \in Driven', payments'[i].method = <<"card">>
      PROVE  \E j \in 1..(i - 1) : payments'[j].bill = payments'[i].bill /\ payments'[j].reason = "funds"
  <2>1. payments[i].method = <<"card">> /\ payments'[i].bill = payments[i].bill
    BY <1>1, <1>5 DEF Stable
  <2>2. PICK j \in 1..(i - 1) : payments[j].bill = payments[i].bill /\ payments[j].reason = "funds"
    BY <1>5, <2>1 DEF FInv, SparedInv, DeadCardIsSpared, TellsDead
  <2>3. j \in Numbers
    BY <1>1 DEF Numbers, FInv, PaymentsOK
  <2> QED
    BY <1>5, <1>3, <2>1, <2>2, <2>3
<1>6. SparedInv'
  BY <1>4, <1>5 DEF FInv, SparedInv, DeadCardIsSpared, TellsDead
<1> QED
  BY <1>2, <1>6

\* What was told stays told, and what happens to one payment is told.
LEMMA HappenedStaysTold ==
  ASSUME HappenedIsTold, Stable, proc' = proc, wire \subseteq wire', reported' = reported, NEW i,
         \A j \in Numbers' \ {i} : j \in Numbers /\ payments'[j] = payments[j],
         i \in Numbers' => \A what \in Occurred(i)' :
           \/ i \in Numbers /\ what \in Occurred(i)
           \/ what \in Learns(i)' => \E w \in wire' : w.pay = i /\ w.what = what
  PROVE  HappenedIsTold'
<1>. SUFFICES ASSUME NEW j \in Numbers', NEW what \in Occurred(j)', what \in Learns(j)'
     PROVE  ToldOf(j, what)'
  BY DEF HappenedIsTold
<1>1. ASSUME j \in Numbers, what \in Occurred(j)
      PROVE  ToldOf(j, what)'
  <2>1. what \in Learns(j)
    BY <1>1, LearnsTheSame
  <2>2. ToldOf(j, what)
    BY <1>1, <2>1 DEF HappenedIsTold
  <2> QED
    BY <2>2 DEF ToldOf
<1>2. CASE j # i
  <2>1. j \in Numbers /\ payments'[j] = payments[j]
    BY <1>2
  <2>2. what \in Occurred(j)
    BY <2>1 DEF Occurred
  <2> QED
    BY <1>1, <2>1, <2>2
<1>3. CASE j = i
  BY <1>1, <1>3 DEF ToldOf
<1> QED
  BY <1>2, <1>3

\* Nothing new happens and all that was told is kept.
LEMMA NothingHappens ==
  ASSUME FInv, UNCHANGED <<proc, payments, wire, reported, missed>>
  PROVE  WireInv' /\ ReportedInv' /\ MissedInv' /\ HappenedIsTold'
<1>1. Stable /\ Numbers' = Numbers
  BY DEF Stable, Numbers
<1>2. WireInv' /\ ReportedInv'
  BY <1>1, WireStays, ReportsStay DEF FInv, WireInv
<1>3. MissedInv'
  BY <1>1, LearnsTheSame DEF FInv, MissedInv
<1>4. HappenedIsTold'
  <2>1. \A i \in Numbers : Occurred(i)' = Occurred(i) /\ Learns(i)' = Learns(i)
    BY <1>1, LearnsTheSame DEF Occurred
  <2> QED
    BY <1>1, <2>1 DEF FInv, HappenedIsTold, ToldOf
<1> QED
  BY <1>2, <1>3, <1>4

\* What happens to a payment that is made is that it is paid or that it fails.
LEMMA NewPaymentHappens ==
  ASSUME NEW i, payments'[i].returned = 0, payments'[i].dispute = "none", NEW what \in Occurred(i)'
  PROVE  \/ what = "paid" /\ payments'[i].state = "collected"
         \/ what = "failed" /\ payments'[i].state = "declined"
BY EventNames DEF Occurred

\* These processors have no invoice that they try again on their own.
LEMMA UnguardedDrives ==
  ASSUME Unguarded
  PROVE  Capabilities.mode = "drive"
<1>1. \A can : CapabilityMatrix("drive", can).mode = "drive"
  BY DEF CapabilityMatrix
<1>2. Capabilities \in {CheckoutCapabilities, WorldpayCapabilities, AdyenCapabilities, TsysCapabilities}
  BY DEF Unguarded, Capabilities
<1> QED
  BY <1>1, <1>2 DEF CheckoutCapabilities, WorldpayCapabilities, AdyenCapabilities, TsysCapabilities

-----------------------------------------------------------------------------
(* The merchant's own collection.                                          *)

\* The merchant's own collection: of a bill that is due, and the only one where nothing guards it.
LEMMA OwnPaymentKeepsFInv ==
  ASSUME FlowAssumption, FInv, NEW b \in Bills, OwnPayment(b)
  PROVE  FInv'
<1>1. PICK state \in {"collected", "declined"} : \E reason \in ReasonsOf(state, b \in Dying) :
       /\ payments' = Append(payments, NewPayment(b, None, <<"invoice", b>>, <<"card">>, state, reason))
       /\ Tell(payments', Len(payments'))
  BY DEF OwnPayment
<1>1a. PICK reason \in ReasonsOf(state, b \in Dying) :
       /\ payments' = Append(payments, NewPayment(b, None, <<"invoice", b>>, <<"card">>, state, reason))
       /\ Tell(payments', Len(payments'))
  BY <1>1
<1>. DEFINE p == NewPayment(b, None, <<"invoice", b>>, <<"card">>, state, reason)
<1>2. /\ UNCHANGED <<proc, cases, reported, missed>> /\ Due(b)
      /\ (\A i \in Numbers : payments[i].bill # b) \/ Capabilities.mode # "drive"
  BY DEF OwnPayment
<1>3. reason \in Reasons \cup {"-"} /\ (reason \in Reasons <=> state = "declined")
  BY <1>1a DEF ReasonsOf, Reasons
<1>4. b \in Nat
  BY DEF FlowAssumption
<1>5. /\ p.bill = b /\ p.key = None /\ p.reference = <<"invoice", b>> /\ p.method = <<"card">>
      /\ p.state = state /\ p.first = state /\ p.reason = reason /\ p.dispute = "none"
      /\ p.returned = 0
  BY DEF NewPayment
<1>6. p \in Payments
  BY <1>3, <1>4 DEF NewPayment, Payments, Ids, Methods, States, BillAmount
<1>7. payments \in Seq(Payments) /\ payments' = Append(payments, p)
  BY <1>1a DEF FInv, PaymentsOK
<1>. HIDE DEF p
<1>7a. PICK n : n = Len(payments) + 1
  OBVIOUS
<1>8. /\ payments' \in Seq(Payments) /\ n \in Nat /\ Len(payments') = n
      /\ Numbers' = Numbers \cup {n} /\ n \notin Numbers
      /\ payments'[n] = p /\ \A j \in Numbers : payments'[j] = payments[j]
      /\ Driven' = Driven /\ Own' = Own \cup {n}
  <2>1. (IF p.key = None THEN {} ELSE {n}) = {} /\ (IF p.key = None THEN {n} ELSE {}) = {n}
    BY <1>5
  <2>2. /\ Driven' = Driven \cup (IF p.key = None THEN {} ELSE {n})
        /\ Own' = Own \cup (IF p.key = None THEN {n} ELSE {})
    BY <1>6, <1>7, <1>7a, OneMore
  <2> QED
    BY <1>6, <1>7, <1>7a, <2>1, <2>2, OneMore
<1>9. Stable
  <2>1. \A j \in Numbers : j \in Numbers' /\ payments'[j] = payments[j]
    BY <1>8
  <2> QED
    BY <2>1 DEF Stable
<1>10. Driven \subseteq Numbers /\ Own \subseteq Numbers
  BY DEF Driven, Own
<1>11. /\ WireInv' /\ wire \subseteq wire'
       /\ payments'[n].state = "collected" /\ "paid" \in Learns(n)' =>
            \E w \in wire' : w.pay = n /\ w.what = "paid"
       /\ payments'[n].state = "declined" /\ "failed" \in Learns(n)' =>
            \E w \in wire' : w.pay = n /\ w.what = "failed"
  <2>1. WireInv /\ proc' = proc /\ payments' \in Seq(Payments) /\ n \in Numbers'
    BY <1>2, <1>8 DEF FInv
  <2>2. Tell(payments', n)
    BY <1>1a, <1>8
  <2> QED
    BY <1>9, <2>1, <2>2, TellKeepsTheWire
<1>12. HappenedIsTold'
  <2>1. \A what \in Occurred(n)' : what \in Learns(n)' => \E w \in wire' : w.pay = n /\ w.what = what
    BY <1>5, <1>8, <1>11, NewPaymentHappens
  <2> QED
    BY <1>2, <1>8, <1>9, <1>11, <2>1, HappenedStaysTold DEF FInv
<1>13. PaymentsOK'
  <2>1. \A i \in Numbers' : /\ payments'[i].reason \in Reasons <=> payments'[i].state = "declined"
                            /\ payments'[i].first = "declined" => payments'[i].state = "declined"
                            /\ payments'[i].dispute # "none" => payments'[i].state = "collected"
    BY <1>3, <1>5, <1>8 DEF FInv, PaymentsOK
  <2>2. \A i \in Own' : /\ payments'[i].state # "progress"
                        /\ payments'[i].reference = <<"invoice", payments'[i].bill>>
    BY <1>5, <1>8, <1>10 DEF FInv, PaymentsOK
  <2>3. ASSUME NEW i \in Driven', NEW k, k = payments'[i].key
        PROVE  /\ proc' \in Charging
               /\ k[1] \in DOMAIN cases' /\ payments'[i].bill = cases'[k[1]].bill
               /\ payments'[i].reference = RequestFor(k[1], k[2], k)'
                                           .reference
    <3>1. i \in Driven /\ i \in Numbers /\ payments'[i] = payments[i]
      BY <1>8, <1>10
    <3>2. RequestFor(k[1], k[2], k)' = RequestFor(k[1], k[2], k)
      BY <1>2 DEF RequestFor
    <3> QED
      BY <1>2, <2>3, <3>1, <3>2 DEF FInv, PaymentsOK
  <2> QED
    BY <1>8, <2>1, <2>2, <2>3 DEF PaymentsOK
<1>14. OwnOnce'
  <2>. SUFFICES ASSUME Unguarded
       PROVE  /\ \A i, j \in Own' : payments'[i].bill = payments'[j].bill => i = j
              /\ \A v \in DOMAIN cases : \A i \in Own' :
                   payments'[i].bill = cases[v].bill => payments'[i].state = "declined"
    BY <1>2 DEF OwnOnce, Unguarded
  <2>1. \A i \in Numbers : payments[i].bill # b
    BY <1>2, UnguardedDrives
  <2>2. \A v \in DOMAIN cases : cases[v].bill # b
    BY <2>1 DEF FInv, HaveFailed
  <2> QED
    BY <1>5, <1>8, <1>10, <2>1, <2>2 DEF FInv, OwnOnce
<1>15. CollectedOnce'
  <2>. SUFFICES ASSUME proc \notin {"elavon", "braintree", "paypal", "shopify"},
                       NEW i \in Numbers', NEW j \in Numbers', Moved(i)', Moved(j)',
                       payments'[i].bill = payments'[j].bill
                PROVE  i = j
    BY <1>2 DEF CollectedOnce
  <2>1. \A k \in Numbers : Moved(k)' => Moved(k)
    BY <1>8 DEF Moved
  <2>2. \A k \in Numbers : payments[k].bill = b => ~ Moved(k)
    BY <1>2 DEF Due
  <2> QED
    BY <1>5, <1>8, <2>1, <2>2 DEF FInv, CollectedOnce
<1>16. IInv'
  BY OwnPaymentKeepsIInv DEF FInv
<1> QED
  BY <1>2, <1>8, <1>9, <1>11, <1>12, <1>13, <1>14, <1>15, <1>16, CasesStay, AttemptsStay DEF FInv

-----------------------------------------------------------------------------
(* What the processor does with a payment.                                 *)

\* A return that is told, and nothing else, happens to a payment.
Brings(before, after, what) ==
  /\ what \notin {"failed", "paid"}
  /\ after.returned > 0 <=> before.returned > 0 \/ what = "refunded"
  /\ after.dispute # "none" <=> before.dispute # "none" \/ what = "disputed"
  /\ after.dispute = "won" <=> before.dispute = "won" \/ what = "won"

\* What the steps of a processor change of a payment, and what they tell.
LEMMA ProcessorChanges ==
  ASSUME FInv, NEW i \in Numbers,
         Settle(i) \/ Refund(i) \/ OpenDispute(i) \/ WinDispute(i) \/ LoseDispute(i)
  PROVE  /\ UNCHANGED <<proc, cases, reported, missed>>
         /\ \E p \in Payments :
              /\ payments' = [payments EXCEPT ![i] = p]
              /\ p.bill = payments[i].bill /\ p.key = payments[i].key
              /\ p.reference = payments[i].reference /\ p.method = payments[i].method
              /\ p.first = payments[i].first /\ p.state # "progress"
              /\ p.reason \in Reasons <=> p.state = "declined"
              /\ p.dispute # "none" => p.state = "collected"
              /\ payments[i].returned > 0 => p.returned > 0
              /\ payments[i].dispute # "none" => p.dispute # "none"
              /\ payments[i].dispute = "won" => p.dispute = "won"
              /\ \/ /\ payments[i].state = "progress" /\ Tell(payments', i)
                    /\ p.returned = payments[i].returned /\ p.dispute = payments[i].dispute
                 \/ /\ payments[i].state = "collected" /\ p.state = "collected"
                    /\ p.reason = payments[i].reason
                    /\ \E what \in Whats : Notify(payments', i, what) /\ Brings(payments[i], p, what)
<1>. DEFINE r == payments[i]
<1>0. UNCHANGED <<proc, cases, reported, missed>>
  BY DEF Settle, Refund, OpenDispute, WinDispute, LoseDispute
<1>1. r \in Payments
  BY DEF FInv, PaymentsOK, Numbers
<1>2. r.reason \in Reasons <=> r.state = "declined"
  BY DEF FInv, PaymentsOK
<1>3. r.dispute # "none" => r.state = "collected"
  BY DEF FInv, PaymentsOK
<1>4. CASE Settle(i)
  <2>1. r.state = "progress"
    BY <1>4 DEF Settle
  <2>2. PICK state \in {"collected", "declined"} : \E reason \in ReasonsOf(state, FALSE) :
          /\ payments' = [payments EXCEPT ![i] = [@ EXCEPT !.state = state, !.reason = reason]]
          /\ Tell(payments', i)
    BY <1>4 DEF Settle
  <2>3. PICK reason \in ReasonsOf(state, FALSE) :
          /\ payments' = [payments EXCEPT ![i] = [r EXCEPT !.state = state, !.reason = reason]]
          /\ Tell(payments', i)
    BY <2>2
  <2>. DEFINE p == [r EXCEPT !.state = state, !.reason = reason]
  <2>4. reason \in Reasons \cup {"-"} /\ (reason \in Reasons <=> state = "declined")
    BY <2>3 DEF ReasonsOf, Reasons
  <2>5. p \in Payments
    BY <1>1, <2>4 DEF Payments, States
  <2>6. /\ p.bill = r.bill /\ p.key = r.key /\ p.reference = r.reference /\ p.method = r.method
        /\ p.first = r.first /\ p.state = state /\ p.reason = reason /\ p.dispute = r.dispute
        /\ p.returned = r.returned
    BY <1>1 DEF Payments
  <2>. HIDE DEF p
  <2>7. payments' = [payments EXCEPT ![i] = p]
    BY <2>3 DEF p
  <2> QED
    BY <1>0, <1>3, <2>1, <2>3, <2>4, <2>5, <2>6, <2>7
<1>5. CASE Refund(i)
  <2>. DEFINE p == [r EXCEPT !.returned = @ + 1]
  <2>1. r.state = "collected" /\ r.returned < BillAmount
    BY <1>5 DEF Refund
  <2>2. p \in Payments /\ p.returned > 0
    BY <1>1, <2>1 DEF Payments, BillAmount
  <2>3. /\ p.bill = r.bill /\ p.key = r.key /\ p.reference = r.reference /\ p.method = r.method
        /\ p.first = r.first /\ p.state = r.state /\ p.reason = r.reason /\ p.dispute = r.dispute
    BY <1>1 DEF Payments
  <2>4. payments' = [payments EXCEPT ![i] = p] /\ Notify(payments', i, "refunded")
    BY <1>5 DEF Refund
  <2>5. Brings(r, p, "refunded")
    BY <2>2, <2>3 DEF Brings
  <2>. HIDE DEF p
  <2> QED
    BY <1>0, <1>2, <1>3, <2>1, <2>2, <2>3, <2>4, <2>5 DEF Whats
<1>6. CASE OpenDispute(i)
  <2>. DEFINE p == [r EXCEPT !.dispute = "open"]
  <2>1. r.state = "collected"
    BY <1>6 DEF OpenDispute
  <2>2. p \in Payments
    BY <1>1 DEF Payments
  <2>3. /\ p.bill = r.bill /\ p.key = r.key /\ p.reference = r.reference /\ p.method = r.method
        /\ p.first = r.first /\ p.state = r.state /\ p.reason = r.reason
        /\ p.returned = r.returned /\ p.dispute = "open"
    BY <1>1 DEF Payments
  <2>4. payments' = [payments EXCEPT ![i] = p] /\ Notify(payments', i, "disputed")
    BY <1>6 DEF OpenDispute
  <2>5. r.dispute = "none"
    BY <1>6 DEF OpenDispute
  <2>6. Brings(r, p, "disputed")
    BY <2>3, <2>5 DEF Brings
  <2>. HIDE DEF p
  <2> QED
    BY <1>0, <1>2, <1>3, <2>1, <2>2, <2>3, <2>4, <2>5, <2>6 DEF Whats
<1>7. CASE WinDispute(i)
  <2>. DEFINE p == [r EXCEPT !.dispute = "won"]
  <2>1. r.state = "collected" /\ r.dispute = "open"
    BY <1>3, <1>7 DEF WinDispute
  <2>2. p \in Payments
    BY <1>1 DEF Payments
  <2>3. /\ p.bill = r.bill /\ p.key = r.key /\ p.reference = r.reference /\ p.method = r.method
        /\ p.first = r.first /\ p.state = r.state /\ p.reason = r.reason
        /\ p.returned = r.returned /\ p.dispute = "won"
    BY <1>1 DEF Payments
  <2>4. payments' = [payments EXCEPT ![i] = p] /\ Notify(payments', i, "won")
    BY <1>7 DEF WinDispute
  <2>5. Brings(r, p, "won")
    BY <2>1, <2>3 DEF Brings
  <2>. HIDE DEF p
  <2> QED
    BY <1>0, <1>2, <1>3, <2>1, <2>2, <2>3, <2>4, <2>5 DEF Whats
<1>8. CASE LoseDispute(i)
  <2>. DEFINE p == [r EXCEPT !.dispute = "lost"]
  <2>1. r.state = "collected" /\ r.dispute = "open"
    BY <1>3, <1>8 DEF LoseDispute
  <2>2. p \in Payments
    BY <1>1 DEF Payments
  <2>3. /\ p.bill = r.bill /\ p.key = r.key /\ p.reference = r.reference /\ p.method = r.method
        /\ p.first = r.first /\ p.state = r.state /\ p.reason = r.reason
        /\ p.returned = r.returned /\ p.dispute = "lost"
    BY <1>1 DEF Payments
  <2>4. payments' = [payments EXCEPT ![i] = p] /\ Notify(payments', i, "lost")
    BY <1>8 DEF LoseDispute
  <2>5. Brings(r, p, "lost")
    BY <2>1, <2>3 DEF Brings
  <2>. HIDE DEF p
  <2> QED
    BY <1>0, <1>2, <1>3, <2>1, <2>2, <2>3, <2>4, <2>5 DEF Whats
<1> QED
  BY <1>4, <1>5, <1>6, <1>7, <1>8

\* A payment settles, money goes back or is disputed.
LEMMA ProcessorKeepsFInv ==
  ASSUME FInv, NEW i \in Numbers,
         Settle(i) \/ Refund(i) \/ OpenDispute(i) \/ WinDispute(i) \/ LoseDispute(i)
  PROVE  FInv'
<1>1. UNCHANGED <<proc, cases, reported, missed>>
  BY ProcessorChanges
<1>2. PICK p \in Payments :
        /\ payments' = [payments EXCEPT ![i] = p]
        /\ p.bill = payments[i].bill /\ p.key = payments[i].key
        /\ p.reference = payments[i].reference /\ p.method = payments[i].method
        /\ p.first = payments[i].first /\ p.state # "progress"
        /\ p.reason \in Reasons <=> p.state = "declined"
        /\ p.dispute # "none" => p.state = "collected"
        /\ payments[i].returned > 0 => p.returned > 0
        /\ payments[i].dispute # "none" => p.dispute # "none"
        /\ payments[i].dispute = "won" => p.dispute = "won"
        /\ \/ /\ payments[i].state = "progress" /\ Tell(payments', i)
              /\ p.returned = payments[i].returned /\ p.dispute = payments[i].dispute
           \/ /\ payments[i].state = "collected" /\ p.state = "collected"
              /\ p.reason = payments[i].reason
              /\ \E what \in Whats : Notify(payments', i, what) /\ Brings(payments[i], p, what)
  BY ProcessorChanges
<1>3. payments \in Seq(Payments)
  BY DEF FInv, PaymentsOK
<1>4. /\ payments' \in Seq(Payments)
      /\ Numbers' = Numbers /\ Driven' = Driven /\ Own' = Own
      /\ \A j \in Numbers : payments'[j] = IF j = i THEN p ELSE payments[j]
  BY <1>2, <1>3, OneChanged
<1>5. payments[i].state = "progress" \/ (payments[i].state = p.state /\ payments[i].reason = p.reason)
  BY <1>2
<1>6. Stable
  BY <1>2, <1>4, <1>5 DEF Stable
<1>7. Driven \subseteq Numbers /\ Own \subseteq Numbers
  BY DEF Driven, Own
<1>8. /\ WireInv' /\ wire \subseteq wire'
      /\ \A what \in Occurred(i)' :
           \/ what \in Occurred(i)
           \/ what \in Learns(i)' => \E w \in wire' : w.pay = i /\ w.what = what
  <2>1. CASE /\ payments[i].state = "progress" /\ Tell(payments', i)
             /\ p.returned = payments[i].returned /\ p.dispute = payments[i].dispute
    <3>1. /\ WireInv' /\ wire \subseteq wire'
          /\ payments'[i].state = "collected" /\ "paid" \in Learns(i)' =>
               \E w \in wire' : w.pay = i /\ w.what = "paid"
          /\ payments'[i].state = "declined" /\ "failed" \in Learns(i)' =>
               \E w \in wire' : w.pay = i /\ w.what = "failed"
      BY <1>1, <1>4, <1>6, <2>1, TellKeepsTheWire DEF FInv
    <3>2. payments'[i].returned = payments[i].returned /\ payments'[i].dispute = payments[i].dispute
      BY <1>4, <2>1
    <3>3. ASSUME NEW what \in Occurred(i)', what \notin Occurred(i)
          PROVE  \/ what = "paid" /\ payments'[i].state = "collected"
                 \/ what = "failed" /\ payments'[i].state = "declined"
      BY <3>2, <3>3, EventNames DEF Occurred
    <3> QED
      BY <3>1, <3>3
  <2>2. CASE /\ payments[i].state = "collected" /\ p.state = "collected"
             /\ \E what \in Whats : Notify(payments', i, what) /\ Brings(payments[i], p, what)
    <3>1. PICK told \in Whats : Notify(payments', i, told) /\ Brings(payments[i], p, told)
      BY <2>2
    <3>2. Happened(i, told, payments[i].returned)'
      BY <1>4, <2>2, <3>1 DEF Happened, Payments, Brings
    <3>3. /\ WireInv' /\ wire \subseteq wire'
          /\ told \in Learns(i)' => \E w \in wire' : w.pay = i /\ w.what = told
      BY <1>1, <1>6, <3>1, <3>2, NotifyKeepsTheWire DEF FInv
    <3>4. payments'[i] = p
      BY <1>4
    <3>5. ASSUME NEW what \in Occurred(i)', what \notin Occurred(i)
          PROVE  what = told
      BY <2>2, <3>1, <3>4, <3>5, EventNames DEF Occurred, Brings
    <3> QED
      BY <3>3, <3>5
  <2> QED
    BY <1>2, <2>1, <2>2
<1>9. i \in Own => payments[i].state # "progress"
  BY DEF FInv, PaymentsOK
<1>10. HappenedIsTold'
  BY <1>1, <1>4, <1>6, <1>8, HappenedStaysTold DEF FInv
<1>11. PaymentsOK'
  <2>1. \A j \in Numbers' : /\ payments'[j].reason \in Reasons <=> payments'[j].state = "declined"
                            /\ payments'[j].first = "declined" => payments'[j].state = "declined"
                            /\ payments'[j].dispute # "none" => payments'[j].state = "collected"
    BY <1>2, <1>4, <1>5 DEF FInv, PaymentsOK
  <2>2. \A j \in Own' : /\ payments'[j].state # "progress"
                        /\ payments'[j].reference = <<"invoice", payments'[j].bill>>
    BY <1>2, <1>4, <1>7 DEF FInv, PaymentsOK
  <2>3. ASSUME NEW j \in Driven', NEW k, k = payments'[j].key
        PROVE  /\ proc' \in Charging
               /\ k[1] \in DOMAIN cases' /\ payments'[j].bill = cases'[k[1]].bill
               /\ payments'[j].reference = RequestFor(k[1], k[2], k)'
                                           .reference
    <3>1. /\ j \in Driven /\ j \in Numbers /\ payments[j].key = k
          /\ payments'[j].bill = payments[j].bill /\ payments'[j].reference = payments[j].reference
      BY <1>4, <1>6, <1>7, <2>3 DEF Stable
    <3>2. RequestFor(k[1], k[2], k)' = RequestFor(k[1], k[2], k)
      BY <1>1 DEF RequestFor
    <3> QED
      BY <1>1, <3>1, <3>2 DEF FInv, PaymentsOK
  <2> QED
    BY <1>4, <2>1, <2>2, <2>3 DEF PaymentsOK
<1>12. OwnOnce'
  <2>1. \A j \in Own : /\ payments'[j].bill = payments[j].bill
                       /\ payments[j].state = "declined" => payments'[j].state = "declined"
    BY <1>6, <1>7 DEF Stable
  <2> QED
    BY <1>1, <1>4, <2>1 DEF FInv, OwnOnce, Unguarded
<1>13. CollectedOnce'
  <2>1. p.state = "collected" => Moved(i)
    BY <1>5 DEF Moved
  <2>2. \A k \in Numbers : Moved(k)' => Moved(k) /\ payments'[k].bill = payments[k].bill
    BY <1>2, <1>4, <2>1 DEF Moved
  <2> QED
    BY <1>1, <1>4, <2>2 DEF FInv, CollectedOnce
<1>14. IInv'
  BY ProcessorKeepsIInv DEF FInv
<1> QED
  BY <1>1, <1>4, <1>6, <1>8, <1>10, <1>11, <1>12, <1>13, <1>14, CasesStay, AttemptsStay DEF FInv

-----------------------------------------------------------------------------
(* The names that payments and cases go by.                                *)

\* The invoice that what is told of a payment goes by: of its bill and, of an attempt, of its case.
LEMMA NamesOfPayments ==
  ASSUME FlowAssumption, CasesOK, PaymentsOK, NEW i, NEW what, NEW total, Happened(i, what, total),
         NEW o, o = Occurrence(i, what, total)
  PROVE  /\ Occurs(o) /\ GoesBy(IdOf(o), payments[i].bill)
         /\ i \in Driven /\ proc \notin {"paypal", "shopify"} => IdOf(o) = CaseOf(i)
<1>1. i \in Numbers /\ i \in Nat /\ payments[i] \in Payments
  BY DEF Happened, PaymentsOK, Numbers
<1>2. /\ o.what = what /\ o.bill = payments[i].bill /\ o.pay = i /\ o.reference = payments[i].reference
      /\ o.total = total
  BY DEF Occurrence
<1>3. payments[i].bill \in Nat /\ payments[i].reference \in Ids \cup {None}
  BY <1>1 DEF Payments, FlowAssumption
<1>4. Invoice(o) = <<"invoice", payments[i].bill>> /\ Invoice(o) \in Ids /\ Payment(o) \in Ids
      /\ Subscription \in Ids /\ Invoice(o) # Subscription /\ None \notin Ids
  BY <1>1, <1>2, <1>3 DEF Invoice, Payment, Subscription, Ids, None
<1>5. CASE i \in Own
  <2>1. o.reference = Invoice(o) /\ i \notin Driven
    BY <1>2, <1>4, <1>5 DEF PaymentsOK, Own
  <2>2. Occurs(o)
    BY <1>2, <1>3, <1>4, <2>1 DEF Occurs, Happened, BillAmount
  <2>3. GoesBy(IdOf(o), payments[i].bill)
    BY <1>4, <2>1 DEF GoesBy, IdOf
  <2> QED
    BY <2>1, <2>2, <2>3
<1>6. CASE i \in Driven
  <2>. DEFINE k == payments[i].key
             v == k[1]
  <2>1. /\ v \in DOMAIN cases /\ payments[i].bill = cases[v].bill
        /\ payments[i].reference = RequestFor(v, k[2], k).reference
    BY <1>6 DEF PaymentsOK
  <2>2. GoesBy(v, payments[i].bill)
    BY <2>1 DEF CasesOK, CaseOK
  <2>3. CaseOf(i) = v
    BY DEF CaseOf
  <2>. HIDE DEF k, v
  <2>4. v \in Ids
    BY <2>2 DEF GoesBy
  <2>5. /\ o.reference \in {None, v, Subscription}
        /\ proc \in {"worldpay", "adyen", "checkout", "braintree"} => o.reference = v
    BY <1>2, <2>1, RequestNames
  <2>6. Occurs(o)
    BY <1>2, <1>3, <1>4, <2>4, <2>5 DEF Occurs, Happened, BillAmount
  <2>7. GoesBy(IdOf(o), payments[i].bill) /\ (proc \notin {"paypal", "shopify"} => IdOf(o) = v)
    <3>1. CASE proc \in {"maxio", "braintree"}
      BY <1>4, <2>2, <2>5, <3>1 DEF GoesBy, IdOf
    <3>2. CASE proc \in {"paypal", "shopify"}
      BY <1>3, <1>4, <1>2, <3>2 DEF GoesBy, IdOf
    <3>3. CASE proc \in {"worldpay", "adyen", "checkout"}
      BY <1>4, <2>2, <2>4, <2>5, <3>3 DEF GoesBy, IdOf
    <3>4. CASE proc \notin {"maxio", "braintree", "paypal", "shopify", "worldpay", "adyen", "checkout"}
      BY <1>4, <2>2, <3>4 DEF GoesBy, IdOf
    <3> QED
      BY <3>1, <3>2, <3>3, <3>4
  <2> QED
    BY <2>3, <2>6, <2>7
<1> QED
  BY <1>1, <1>5, <1>6 DEF Own

-----------------------------------------------------------------------------
(* Cases are opened.                                                       *)

\* A webhook leaves the cases there are alone, and opens one per failed invoice (openCaseFromEvent).
LEMMA OpenedCases ==
  ASSUME NEW events, NEW bill, cases' = Opened(events, bill)
  PROVE  /\ \A v \in DOMAIN cases : v \in DOMAIN cases' /\ cases'[v] = cases[v]
         /\ \A v \in DOMAIN cases' \ DOMAIN cases :
              \E e \in events : /\ e.type = "invoice.failed" /\ e.invoice = v
                                /\ cases'[v] = NewCase(bill, e.kind, e.customer)
BY DEF Opened

\* A step that opens cases, if any, each after a payment of its bill failed.
OpensCases ==
  /\ UNCHANGED <<proc, payments>>
  /\ \A v \in DOMAIN cases : v \in DOMAIN cases' /\ cases'[v] = cases[v]
  /\ \A v \in DOMAIN cases' \ DOMAIN cases :
       \E j \in Numbers : \E decline, customer :
         /\ cases'[v] = NewCase(payments[j].bill, decline, customer)
         /\ payments[j].state = "declined" /\ GoesBy(v, payments[j].bill)
         /\ TellsDead /\ payments[j].reason = "dead" => ~ RetriableCode(decline)
         /\ j \in Driven => proc \in {"paypal", "shopify"}

\* What a case opened after a failed payment leaves as it was.
LEMMA OpeningKeepsTheCases ==
  ASSUME FlowAssumption, FInv, OpensCases
  PROVE  /\ CasesOK' /\ PaymentsOK' /\ AttemptsInv' /\ HaveFailed' /\ SparedInv' /\ OwnOnce'
         /\ CollectedOnce' /\ Stable
<1>1. UNCHANGED <<proc, payments>> /\ Numbers' = Numbers /\ Driven' = Driven /\ Own' = Own
  BY DEF OpensCases, Numbers, Driven, Own
<1>2. \A v \in DOMAIN cases : v \in DOMAIN cases' /\ cases'[v] = cases[v]
  BY DEF OpensCases
<1>3. ASSUME NEW v \in DOMAIN cases', v \notin DOMAIN cases
      PROVE  \E j \in Numbers : \E decline, customer :
         /\ cases'[v] = NewCase(payments[j].bill, decline, customer)
         /\ payments[j].state = "declined" /\ GoesBy(v, payments[j].bill)
         /\ TellsDead /\ payments[j].reason = "dead" => ~ RetriableCode(decline)
         /\ j \in Driven => proc \in {"paypal", "shopify"}
  BY <1>3 DEF OpensCases
<1>4. \A b, decline, customer :
        LET c == NewCase(b, decline, customer)
        IN /\ DOMAIN c = CaseFields /\ c.bill = b /\ c.decline = decline /\ c.status = "open"
           /\ c.attempt = 1 /\ c.try = 0 /\ c.method = <<"card">>
  BY DEF NewCase, CaseFields
<1>5a. \A j \in Numbers : payments[j] \in Payments
  BY DEF FInv, PaymentsOK, Numbers
<1>5. \A j \in Numbers : payments[j].bill \in Bills
  BY <1>5a DEF Payments
<1>6. ASSUME NEW v \in DOMAIN cases', v \notin DOMAIN cases
      PROVE  \E j \in Numbers :
         /\ DOMAIN cases'[v] = CaseFields /\ cases'[v].bill = payments[j].bill /\ cases'[v].status = "open"
         /\ cases'[v].attempt = 1 /\ cases'[v].try = 0 /\ cases'[v].method = <<"card">>
         /\ payments[j].state = "declined" /\ GoesBy(v, payments[j].bill)
         /\ TellsDead /\ payments[j].reason = "dead" => ~ RetriableCode(cases'[v].decline)
         /\ j \in Driven => proc \in {"paypal", "shopify"}
  BY <1>3, <1>4, <1>6
<1>7. CasesOK'
  <2>. SUFFICES ASSUME NEW v \in DOMAIN cases'
      PROVE  CaseOK(v, cases[v])'
    BY DEF CasesOK
  <2>1. CASE v \in DOMAIN cases
    BY <1>1, <1>2, <2>1 DEF FInv, CasesOK, CaseOK, GoesBy
  <2>2. CASE v \notin DOMAIN cases
    <3>1. PICK j \in Numbers :
             /\ DOMAIN cases'[v] = CaseFields /\ cases'[v].bill = payments[j].bill /\ cases'[v].status = "open"
             /\ cases'[v].attempt = 1 /\ cases'[v].try = 0 /\ cases'[v].method = <<"card">>
             /\ GoesBy(v, payments[j].bill)
      BY <1>6, <2>2
    <3> QED
      BY <1>1, <1>5, <3>1 DEF CaseOK, GoesBy, Statuses, Methods, FlowAssumption
  <2> QED
    BY <2>1, <2>2
<1>8. PaymentsOK'
  <2>1. ASSUME NEW j \in Driven', NEW k, k = payments'[j].key
        PROVE  /\ proc' \in Charging
               /\ k[1] \in DOMAIN cases' /\ payments'[j].bill = cases'[k[1]].bill
               /\ payments'[j].reference = RequestFor(k[1], k[2], k)'
                                           .reference
    <3>1. RequestFor(k[1], k[2], k)' = RequestFor(k[1], k[2], k)
      BY <1>1 DEF RequestFor
    <3> QED
      BY <1>1, <1>2, <2>1, <3>1 DEF FInv, PaymentsOK
  <2>2. payments' \in Seq(Payments)
    BY <1>1 DEF FInv, PaymentsOK
  <2> QED
    BY <1>1, <2>1, <2>2 DEF FInv, PaymentsOK
<1>9. \A i \in Driven : payments[i].key[1] \in DOMAIN cases
  BY DEF FInv, PaymentsOK
<1>10. AttemptsInv'
  BY <1>1, <1>2, <1>9 DEF FInv, AttemptsInv, TakesFailures
<1>11. HaveFailed'
  BY <1>1, <1>2, <1>6 DEF FInv, HaveFailed
<1>12. SparedInv'
  <2>. SUFFICES ASSUME TellsDead, NEW v \in DOMAIN cases'
      PROVE  /\ RetriableCode(cases'[v].decline) =>
                  \E j \in Numbers : payments[j].bill = cases'[v].bill /\ payments[j].reason = "funds"
             /\ cases'[v].status = "calling" /\ cases'[v].method = <<"card">> => RetriableCode(cases'[v].decline)
    BY <1>1 DEF FInv, SparedInv, TellsDead, DeadCardIsSpared
  <2>1. CASE v \in DOMAIN cases
    BY <1>2, <2>1 DEF FInv, SparedInv
  <2>2. CASE v \notin DOMAIN cases
    <3>1. PICK j \in Numbers :
             /\ cases'[v].bill = payments[j].bill /\ cases'[v].status = "open"
             /\ payments[j].state = "declined"
             /\ TellsDead /\ payments[j].reason = "dead" => ~ RetriableCode(cases'[v].decline)
      BY <1>6, <2>2
    <3>2. payments[j].reason \in Reasons
      BY <3>1 DEF FInv, PaymentsOK
    <3> QED
      BY <3>1, <3>2 DEF Reasons
  <2> QED
    BY <2>1, <2>2
<1>13. OwnOnce'
  <2>. SUFFICES ASSUME Unguarded, NEW v \in DOMAIN cases', NEW i \in Own, payments[i].bill = cases'[v].bill
      PROVE  payments[i].state = "declined"
    BY <1>1 DEF FInv, OwnOnce, Unguarded
  <2>1. CASE v \in DOMAIN cases
    BY <1>2, <2>1 DEF FInv, OwnOnce
  <2>2. CASE v \notin DOMAIN cases
    <3>1. PICK j \in Numbers : /\ cases'[v].bill = payments[j].bill /\ payments[j].state = "declined"
                               /\ j \in Driven => proc \in {"paypal", "shopify"}
      BY <1>6, <2>2
    <3>2. j \in Own
      BY <3>1 DEF Unguarded, Own
    <3>3. i = j
      BY <3>1, <3>2 DEF FInv, OwnOnce
    <3> QED
      BY <3>1, <3>3
  <2> QED
    BY <2>1, <2>2
<1>14. CollectedOnce' /\ Stable
  BY <1>1 DEF FInv, CollectedOnce, Moved, Stable
<1> QED
  BY <1>7, <1>8, <1>10, <1>11, <1>12, <1>13, <1>14

\* Maxio and Braintree have webhooks.
LEMMA NoWebhooks ==
  ASSUME "webhooks" \notin Capabilities.can
  PROVE  proc \notin {"maxio", "braintree"}
<1>1. \A mode, can : CapabilityMatrix(mode, can).can = can
  BY DEF CapabilityMatrix
<1>2. proc = "maxio" => Capabilities.can = {"retry", "updater", "partial", "webhooks"}
  BY <1>1 DEF Capabilities, MaxioCapabilities
<1>3. proc = "braintree" => "webhooks" \in BraintreeCapabilities(FALSE).can
  BY <1>1 DEF BraintreeCapabilities
<1>4. proc = "braintree" => Capabilities = BraintreeCapabilities(FALSE)
  BY DEF Capabilities
<1> QED
  BY <1>2, <1>3, <1>4

\* A failure that the merchant feeds in.
LEMMA FeedFailureKeepsFInv ==
  ASSUME FlowAssumption, FInv, NEW i \in Numbers, FeedFailure(i)
  PROVE  FInv'
<1>. DEFINE b == payments[i].bill
            invoice == InvoiceFor(<<"invoice", b>>, Customer)
            decline == IF payments[i].reason = "dead" THEN "stolen_card" ELSE "insufficient_funds"
            e == Failed(None, invoice, decline)
<1>1. /\ UNCHANGED <<proc, payments, wire, reported, missed>>
      /\ payments[i].state = "declined" /\ payments[i].key = None
      /\ cases' = Opened({e}, b)
  BY DEF FeedFailure, world
<1>2. e.type = "invoice.failed" /\ e.invoice = <<"invoice", b>> /\ e.kind = decline
  BY DEF Failed, InvoiceFor, CanonicalEvent
<1>3. payments[i].reason = "dead" => ~ RetriableCode(decline)
  BY DEF RetriableCode, HardCodes
<1>4. b \in Nat
  <2>1. payments[i] \in Payments
    BY DEF FInv, PaymentsOK, Numbers
  <2> QED
    BY <2>1 DEF Payments, FlowAssumption
<1>5. GoesBy(<<"invoice", b>>, b)
  BY <1>4, NoWebhooks DEF FeedFailure, GoesBy, Ids
<1>6. i \notin Driven
  BY <1>1 DEF Driven
<1>. HIDE DEF e, decline, invoice
<1>7. OpensCases
  <2>1. /\ \A v \in DOMAIN cases : v \in DOMAIN cases' /\ cases'[v] = cases[v]
        /\ \A v \in DOMAIN cases' \ DOMAIN cases :
             \E x \in {e} : /\ x.type = "invoice.failed" /\ x.invoice = v
                            /\ cases'[v] = NewCase(b, x.kind, x.customer)
    BY <1>1, OpenedCases
  <2>2. \A v \in DOMAIN cases' \ DOMAIN cases :
          v = <<"invoice", b>> /\ cases'[v] = NewCase(b, decline, e.customer)
    BY <1>2, <2>1
  <2> QED
    BY <1>1, <1>3, <1>5, <1>6, <2>1, <2>2 DEF OpensCases
<1>8. /\ CasesOK' /\ PaymentsOK' /\ AttemptsInv' /\ HaveFailed' /\ SparedInv' /\ OwnOnce'
      /\ CollectedOnce' /\ Stable
  BY <1>7, OpeningKeepsTheCases
<1>9. WireInv' /\ ReportedInv' /\ MissedInv' /\ HappenedIsTold'
  BY <1>1, NothingHappens
<1>10. IInv'
  BY NextKeepsIInv DEF FInv, Next, vars, world
<1> QED
  BY <1>1, <1>8, <1>9, <1>10 DEF FInv

\* What becomes of a webhook: events that are true of its payment.
LEMMA WebhooksAreTrue ==
  ASSUME FlowAssumption, FInv, NEW w \in wire, NEW lookup \in BOOLEAN
  PROVE  \E total \in 0..BillAmount :
           /\ Happened(w.pay, w.what, total)
           /\ Told(Occurrence(w.pay, w.what, total), Ingest(w.native, lookup))
<1>1. PICK total \in 0..BillAmount, detailed \in BOOLEAN :
        /\ Happened(w.pay, w.what, total)
        /\ w.native \in Webhooks(Occurrence(w.pay, w.what, total), detailed)
  BY DEF FInv, WireInv
<1>. DEFINE o == Occurrence(w.pay, w.what, total)
           n == w.native
<1>3. Occurs(o)
  BY <1>1, NamesOfPayments DEF FInv
<1>4. n \in Webhooks(o, detailed)
  BY <1>1
<1>. HIDE DEF o, n
<1>5. Told(o, Ingest(n, lookup))
  BY <1>3, <1>4, WebhooksAreTold
<1> QED
  BY <1>1, <1>5 DEF o, n

\* A webhook is delivered: true, of the bill of its payment, and never beside a driven case.
LEMMA DeliverKeepsFInv ==
  ASSUME FlowAssumption, FInv, NEW w \in wire, NEW lookup \in Lookups, Deliver(w, lookup)
  PROVE  FInv'
<1>. DEFINE events == Ingest(w.native, lookup)
            i == w.pay
<1>1. /\ UNCHANGED <<proc, payments>> /\ wire' = wire \ {w}
      /\ reported' = reported \cup {[pay |-> i, event |-> e] : e \in events}
      /\ missed' = IF events = {} THEN missed \cup {[pay |-> w.pay, what |-> w.what]} ELSE missed
      /\ cases' = Opened(events, payments[i].bill)
  BY DEF Deliver
<1>2. PICK total \in 0..BillAmount :
        Happened(i, w.what, total) /\ Told(Occurrence(i, w.what, total), events)
  <2>1. lookup \in BOOLEAN
    BY DEF Lookups
  <2> QED
    BY <2>1, WebhooksAreTrue
<1>. HIDE DEF events
<1>. DEFINE o == Occurrence(i, w.what, total)
<1>3. o.what = w.what /\ o.reason = payments[i].reason
  BY DEF Occurrence
<1>4. /\ GoesBy(IdOf(o), payments[i].bill)
      /\ i \in Driven /\ proc \notin {"paypal", "shopify"} => IdOf(o) = CaseOf(i)
  BY <1>2, NamesOfPayments DEF FInv
<1>5. /\ \A e \in events : Faithful(o, e)
      /\ w.what \in Learnable(o) => \E e \in events : e.type = EventOf[w.what]
  BY <1>2, <1>3 DEF Told
<1>5a. Learns(i) = Learnable(o)
  <2>1. o.bill = payments[i].bill /\ o.reference = payments[i].reference
    BY DEF Occurrence
  <2> QED
    BY <2>1 DEF Learns, Learnable, Invoice
<1>6. i \in Numbers /\ w.what \in Whats /\ (w.what = "failed" => payments[i].state = "declined")
  BY <1>2 DEF Happened
<1>. HIDE DEF o
<1>7. OpensCases
  <2>1. /\ \A v \in DOMAIN cases : v \in DOMAIN cases' /\ cases'[v] = cases[v]
        /\ \A v \in DOMAIN cases' \ DOMAIN cases :
             \E e \in events : /\ e.type = "invoice.failed" /\ e.invoice = v
                               /\ cases'[v] = NewCase(payments[i].bill, e.kind, e.customer)
    BY <1>1, OpenedCases
  <2>2. \A e \in events : e.type = "invoice.failed" =>
          /\ w.what = "failed" /\ e.invoice = IdOf(o)
          /\ TellsDead /\ payments[i].reason = "dead" => ~ RetriableCode(e.kind)
    BY <1>3, <1>5 DEF Faithful, EventTypes
  <2>3. i \in Driven => CaseOf(i) \in DOMAIN cases
    BY DEF FInv, PaymentsOK, CaseOf
  <2>4. ASSUME NEW v \in DOMAIN cases', v \notin DOMAIN cases
        PROVE  \E j \in Numbers : \E decline, customer :
         /\ cases'[v] = NewCase(payments[j].bill, decline, customer)
         /\ payments[j].state = "declined" /\ GoesBy(v, payments[j].bill)
         /\ TellsDead /\ payments[j].reason = "dead" => ~ RetriableCode(decline)
         /\ j \in Driven => proc \in {"paypal", "shopify"}
    <3>1. PICK e \in events : /\ e.type = "invoice.failed" /\ e.invoice = v
                              /\ cases'[v] = NewCase(payments[i].bill, e.kind, e.customer)
      BY <2>1, <2>4
    <3> QED
      BY <1>4, <1>6, <2>2, <2>3, <2>4, <3>1
  <2> QED
    BY <1>1, <2>1, <2>4 DEF OpensCases
<1>8. /\ CasesOK' /\ PaymentsOK' /\ AttemptsInv' /\ HaveFailed' /\ SparedInv' /\ OwnOnce'
      /\ CollectedOnce' /\ Stable
  BY <1>7, OpeningKeepsTheCases
<1>9. WireInv'
  BY <1>1, <1>8, WireStays DEF FInv, WireInv
<1>10. Numbers' = Numbers /\ Driven' = Driven
  BY <1>1 DEF Numbers, Driven
<1>11. ReportedInv'
  <2>. SUFFICES ASSUME NEW r \in reported'
      PROVE \E what \in Whats, t \in 0..BillAmount :
              /\ Happened(r.pay, what, t)'
              /\ Faithful(Occurrence(r.pay, what, t), r.event)'
    BY DEF ReportedInv
  <2>1. \E what \in Whats, t \in 0..BillAmount :
          /\ Happened(r.pay, what, t)
          /\ Faithful(Occurrence(r.pay, what, t), r.event)
    <3>1. CASE r \in reported
      BY <3>1 DEF FInv, ReportedInv
    <3>2. CASE r \notin reported
      BY <1>1, <1>2, <1>5, <1>6, <3>2 DEF o
    <3> QED
      BY <3>1, <3>2
  <2>2. PICK what \in Whats, t \in 0..BillAmount :
          /\ Happened(r.pay, what, t)
          /\ Faithful(Occurrence(r.pay, what, t), r.event)
    BY <2>1
  <2>3. Happened(r.pay, what, t)' /\ Occurrence(r.pay, what, t)' = Occurrence(r.pay, what, t)
    BY <1>8, <2>2, WhatHappenedStays
  <2>4. Faithful(Occurrence(r.pay, what, t), r.event)'
    BY <1>1, <2>2, <2>3 DEF Faithful, IdOf, TellsDead
  <2> QED
    BY <2>3, <2>4
<1>12. MissedInv'
  <2>1. events = {} => w.what \notin Learns(i)
    BY <1>5, <1>5a
  <2>2. \A x \in missed' :
          x \in missed \/ (x = [pay |-> w.pay, what |-> w.what] /\ events = {})
    BY <1>1
  <2>3. \A x \in missed' : x.pay \in Numbers /\ x.what \in Whats \ Learns(x.pay)
    BY <1>6, <2>1, <2>2 DEF FInv, MissedInv
  <2> QED
    BY <1>1, <1>8, <1>10, <2>3, LearnsTheSame DEF MissedInv
<1>13. HappenedIsTold'
  <2>. SUFFICES ASSUME NEW j \in Numbers, NEW what \in Occurred(j), what \in Learns(j)
      PROVE  ToldOf(j, what)'
    <3>1. \A j \in Numbers : Occurred(j)' = Occurred(j) /\ Learns(j)' = Learns(j)
      BY <1>1, <1>8, LearnsTheSame DEF Occurred
    <3> QED
      BY <1>10, <3>1 DEF HappenedIsTold
  <2>1. CASE w.pay = j /\ w.what = what
    <3>1. PICK e \in events : e.type = EventOf[what]
      BY <1>5, <1>5a, <2>1
    <3>2. [pay |-> i, event |-> e] \in reported'
      BY <1>1
    <3> QED
      BY <2>1, <3>1, <3>2 DEF ToldOf
  <2>2. CASE ~ (w.pay = j /\ w.what = what)
    <3>1. ToldOf(j, what)
      BY DEF FInv, HappenedIsTold
    <3> QED
      BY <1>1, <2>2, <3>1 DEF ToldOf
  <2> QED
    BY <2>1, <2>2
<1>15. IInv'
  BY NextKeepsIInv DEF FInv, Next
<1> QED
  BY <1>1, <1>8, <1>9, <1>11, <1>12, <1>13, <1>15 DEF FInv

-----------------------------------------------------------------------------
(* Attempts.                                                               *)

\* What an answer makes of a case: the same attempt, or the next if it failed.
LEMMA AfterFacts ==
  ASSUME FlowAssumption, NEW v, NEW c, NEW result, CaseOK(v, c), c.status = "calling"
  PROVE  LET d == After(c, result)
         IN /\ CaseOK(v, d) /\ d.bill = c.bill /\ d.decline = c.decline /\ d.method = c.method
            /\ \/ /\ d.attempt = c.attempt /\ d.status # "open"
                  /\ d.status = "exhausted" => result.outcome = "failed"
               \/ d.attempt = c.attempt + 1 /\ result.outcome = "failed" /\ d.status = "open"
<1>0. /\ DOMAIN c = CaseFields /\ c.attempt \in 1..MaxAttempts /\ c.try \in 0..MaxTries
      /\ MaxAttempts \in Nat \ {0} /\ MaxTries \in Nat \ {0}
  BY DEF CaseOK, FlowAssumption
<1>1. CASE result.outcome \in {"succeeded", "pending"}
  BY <1>0, <1>1 DEF After, CaseOK, CaseFields, Statuses
<1>2. CASE result.outcome = "failed" /\ c.attempt < MaxAttempts
  <2>1. After(c, result) = [c EXCEPT !.status = "open", !.attempt = c.attempt + 1, !.try = 0]
    BY <1>2 DEF After
  <2>2. c.attempt + 1 \in 1..MaxAttempts
    BY <1>0, <1>2
  <2> QED
    BY <1>0, <1>2, <2>1, <2>2 DEF CaseOK, CaseFields, Statuses
<1>3. CASE result.outcome = "failed" /\ ~(c.attempt < MaxAttempts)
  BY <1>0, <1>3 DEF After, CaseOK, CaseFields, Statuses
<1>4. CASE result.outcome \notin {"succeeded", "pending", "failed"} /\ c.try < MaxTries
  <2>1. After(c, result) = [c EXCEPT !.try = c.try + 1]
    BY <1>4 DEF After
  <2>2. c.try + 1 \in 0..MaxTries
    BY <1>0, <1>4
  <2> QED
    BY <1>0, <1>4, <2>1, <2>2 DEF CaseOK, CaseFields, Statuses
<1>5. CASE result.outcome \notin {"succeeded", "pending", "failed"} /\ ~(c.try < MaxTries)
  BY <1>0, <1>5 DEF After, CaseOK, CaseFields, Statuses
<1> QED
  BY <1>1, <1>2, <1>3, <1>4, <1>5

\* A case is answered.
AnswersCase(v, result) ==
  /\ v \in DOMAIN cases /\ cases[v].status = "calling" /\ proc' = proc
  /\ cases' = [cases EXCEPT ![v] = After(@, result)]

\* The cases, when one is answered.
LEMMA AnsweredCases ==
  ASSUME FlowAssumption, CasesOK, NEW v, NEW result, AnswersCase(v, result)
  PROVE  /\ DOMAIN cases' = DOMAIN cases /\ CasesOK' /\ StableCases
         /\ \A u \in DOMAIN cases : /\ u # v => cases'[u] = cases[u]
                                    /\ cases'[u].method = cases[u].method
         /\ \/ /\ cases'[v].attempt = cases[v].attempt /\ cases'[v].status # "open"
               /\ cases'[v].status = "exhausted" => result.outcome = "failed"
            \/ /\ cases'[v].attempt = cases[v].attempt + 1 /\ result.outcome = "failed"
               /\ cases'[v].status = "open"
<1>1. CaseOK(v, cases[v])
  BY DEF CasesOK, AnswersCase
<1>. DEFINE d == After(cases[v], result)
<1>2. /\ CaseOK(v, d) /\ d.bill = cases[v].bill /\ d.decline = cases[v].decline /\ d.method = cases[v].method
      /\ \/ /\ d.attempt = cases[v].attempt /\ d.status # "open"
            /\ d.status = "exhausted" => result.outcome = "failed"
         \/ d.attempt = cases[v].attempt + 1 /\ result.outcome = "failed" /\ d.status = "open"
  BY <1>1, AfterFacts DEF AnswersCase
<1>3. DOMAIN cases' = DOMAIN cases /\ \A u \in DOMAIN cases : cases'[u] = IF u = v THEN d ELSE cases[u]
  BY DEF AnswersCase
<1>. HIDE DEF d
<1>4. v \in DOMAIN cases /\ proc' = proc
  BY DEF AnswersCase
<1>5. CasesOK'
  <2>1. \A u \in DOMAIN cases : CaseOK(u, cases'[u])
    BY <1>2, <1>3 DEF CasesOK
  <2> QED
    BY <1>3, <1>4, <2>1 DEF CasesOK, CaseOK, GoesBy
<1>6. StableCases
  BY <1>2, <1>3 DEF StableCases
<1> QED
  BY <1>2, <1>3, <1>4, <1>5, <1>6

\* The attempts of an answered case.
LEMMA AnsweredAttempts ==
  ASSUME FlowAssumption, CasesOK, PaymentsOK, AttemptsInv, NEW v, NEW result, AnswersCase(v, result),
         payments' \in Seq(Payments),
         \A i \in Driven' : \/ i \in Driven /\ payments'[i] = payments[i]
                            \/ payments'[i].key = KeyOf(v),
         TakesFailures /\ result.outcome = "failed" =>
           \A i \in Driven' : payments'[i].key = KeyOf(v) => payments'[i].state = "declined"
  PROVE  AttemptsInv'
<1>1. /\ DOMAIN cases' = DOMAIN cases
      /\ \A u \in DOMAIN cases : /\ u # v => cases'[u] = cases[u]
                                 /\ cases'[u].method = cases[u].method
      /\ \/ /\ cases'[v].attempt = cases[v].attempt /\ cases'[v].status # "open"
            /\ cases'[v].status = "exhausted" => result.outcome = "failed"
         \/ /\ cases'[v].attempt = cases[v].attempt + 1 /\ result.outcome = "failed"
            /\ cases'[v].status = "open"
  BY AnsweredCases
<1>2. v \in DOMAIN cases /\ cases[v].status = "calling" /\ proc' = proc /\ cases[v].attempt \in Nat
  BY DEF AnswersCase, CasesOK, CaseOK
<1>3. KeyOf(v)[1] = v /\ KeyOf(v)[2] = cases[v].method /\ KeyOf(v)[3] = cases[v].attempt
  BY DEF KeyOf
<1>. SUFFICES ASSUME NEW i \in Driven', NEW k, k = payments'[i].key, NEW c, c = cases'[k[1]]
     PROVE  /\ k[3] <= c.attempt
            /\ k[3] = c.attempt => c.status # "open" /\ k[2] = c.method
            /\ TakesFailures /\ (k[3] < c.attempt \/ c.status = "exhausted") =>
                 payments'[i].state = "declined"
  BY <1>2 DEF AttemptsInv, TakesFailures
<1>4. CASE k = KeyOf(v)
  <2>1. k[1] = v /\ k[2] = cases[v].method /\ k[3] = cases[v].attempt /\ c = cases'[v]
    BY <1>3, <1>4
  <2>2. TakesFailures /\ result.outcome = "failed" => payments'[i].state = "declined"
    BY <1>4
  <2>3. c.method = cases[v].method
    BY <1>1, <1>2, <2>1
  <2>4. CASE /\ c.attempt = cases[v].attempt /\ c.status # "open"
             /\ c.status = "exhausted" => result.outcome = "failed"
    BY <1>2, <2>1, <2>2, <2>3, <2>4
  <2>5. CASE c.attempt = cases[v].attempt + 1 /\ result.outcome = "failed"
    BY <1>2, <2>1, <2>2, <2>5
  <2> QED
    BY <1>1, <2>1, <2>4, <2>5
<1>5. CASE k # KeyOf(v)
  <2>1. i \in Driven /\ payments'[i] = payments[i] /\ payments[i].key = k
    BY <1>5
  <2>2. /\ k[1] \in DOMAIN cases /\ k[3] <= cases[k[1]].attempt
        /\ k[3] = cases[k[1]].attempt => cases[k[1]].status # "open" /\ k[2] = cases[k[1]].method
        /\ TakesFailures /\ (k[3] < cases[k[1]].attempt \/ cases[k[1]].status = "exhausted") =>
             payments[i].state = "declined"
    BY <2>1 DEF AttemptsInv, PaymentsOK
  <2>3. CASE k[1] # v
    BY <1>1, <2>1, <2>2, <2>3
  <2>4. CASE k[1] = v
    <3>1. k \in Keys
      <4>1. payments[i] \in Payments /\ payments[i].key # None
        BY <2>1 DEF PaymentsOK, Driven, Numbers
      <4> QED
        BY <2>1, <4>1 DEF Payments
    <3>2. k = <<k[1], k[2], k[3]>> /\ k[3] \in Nat
      BY <3>1 DEF Keys
    <3>3. k[3] # cases[v].attempt
      BY <1>5, <2>2, <2>4, <3>2 DEF KeyOf
    <3>4. k[3] < cases[v].attempt
      BY <1>2, <2>2, <2>4, <3>2, <3>3
    <3> QED
      BY <1>1, <1>2, <2>1, <2>2, <2>4, <3>2, <3>4
  <2> QED
    BY <2>3, <2>4
<1> QED
  BY <1>4, <1>5

\* An attempt starts, with the card only if its decline can be tried again.
LEMMA StartAttemptKeepsFInv ==
  ASSUME FlowAssumption, FInv, NEW v \in DOMAIN cases, StartAttempt(v)
  PROVE  FInv'
<1>1. PICK method \in {<<"card">>} \cup Alternates(cases[v].customer) :
        /\ method = <<"card">> => RetriableCode(cases[v].decline)
        /\ cases' = [cases EXCEPT ![v] = [@ EXCEPT !.status = "calling", !.try = 1, !.method = method]]
  BY DEF StartAttempt
<1>. DEFINE d == [cases[v] EXCEPT !.status = "calling", !.try = 1, !.method = method]
<1>2. UNCHANGED <<proc, payments, wire, reported, missed>> /\ cases[v].status = "open"
  BY DEF StartAttempt, world
<1>3. method \in Methods
  BY <1>1, OtherMethodsAreBackups DEF Alternates, Methods
<1>4. CaseOK(v, cases[v])
  BY DEF FInv, CasesOK
<1>5. /\ CaseOK(v, d) /\ d.bill = cases[v].bill /\ d.decline = cases[v].decline
      /\ d.attempt = cases[v].attempt /\ d.status = "calling" /\ d.method = method
  BY <1>3, <1>4 DEF CaseOK, CaseFields, Statuses, FlowAssumption
<1>6. DOMAIN cases' = DOMAIN cases /\ \A u \in DOMAIN cases : cases'[u] = IF u = v THEN d ELSE cases[u]
  BY <1>1
<1>. HIDE DEF d
<1>7. Numbers' = Numbers /\ Driven' = Driven /\ Own' = Own /\ Stable
  BY <1>2 DEF Numbers, Driven, Own, Stable
<1>8. CasesOK'
  <2>1. \A u \in DOMAIN cases : CaseOK(u, cases'[u])
    BY <1>5, <1>6 DEF FInv, CasesOK
  <2> QED
    BY <1>2, <1>6, <2>1 DEF CasesOK, CaseOK, GoesBy
<1>9. \A u \in DOMAIN cases : cases'[u].bill = cases[u].bill /\ cases'[u].decline = cases[u].decline
  BY <1>5, <1>6
<1>10. PaymentsOK'
  <2>1. ASSUME NEW j \in Driven', NEW k, k = payments'[j].key
        PROVE  /\ proc' \in Charging
               /\ k[1] \in DOMAIN cases' /\ payments'[j].bill = cases'[k[1]].bill
               /\ payments'[j].reference = RequestFor(k[1], k[2], k)'
                                           .reference
    <3>1. RequestFor(k[1], k[2], k)' = RequestFor(k[1], k[2], k)
      BY <1>2 DEF RequestFor
    <3> QED
      BY <1>2, <1>6, <1>7, <1>9, <2>1, <3>1 DEF FInv, PaymentsOK
  <2>2. payments' \in Seq(Payments)
    BY <1>2 DEF FInv, PaymentsOK
  <2> QED
    BY <1>2, <1>7, <2>1, <2>2 DEF FInv, PaymentsOK
<1>11. AttemptsInv'
  <2>. SUFFICES ASSUME NEW i \in Driven, NEW k, k = payments[i].key
       PROVE  /\ k[3] <= cases'[k[1]].attempt
              /\ k[3] = cases'[k[1]].attempt => cases'[k[1]].status # "open" /\ k[2] = cases'[k[1]].method
              /\ TakesFailures /\ (k[3] < cases'[k[1]].attempt \/ cases'[k[1]].status = "exhausted") =>
                   payments[i].state = "declined"
    BY <1>2, <1>7 DEF AttemptsInv, TakesFailures
  <2>1. /\ k[1] \in DOMAIN cases /\ k[3] <= cases[k[1]].attempt
        /\ k[3] = cases[k[1]].attempt => cases[k[1]].status # "open" /\ k[2] = cases[k[1]].method
        /\ TakesFailures /\ (k[3] < cases[k[1]].attempt \/ cases[k[1]].status = "exhausted") =>
             payments[i].state = "declined"
    BY DEF FInv, AttemptsInv, PaymentsOK
  <2>2. CASE k[1] # v
    BY <1>6, <2>1, <2>2
  <2>3. CASE k[1] = v
    BY <1>2, <1>5, <1>6, <2>1, <2>3
  <2> QED
    BY <2>2, <2>3
<1>12. WireInv' /\ ReportedInv' /\ MissedInv' /\ HappenedIsTold'
  BY <1>2, NothingHappens
<1>14. HaveFailed' /\ OwnOnce'
  BY <1>2, <1>6, <1>7, <1>9 DEF FInv, HaveFailed, OwnOnce, Unguarded
<1>15. SparedInv'
  <2>1. TellsDead => \A u \in DOMAIN cases' :
          cases'[u].status = "calling" /\ cases'[u].method = <<"card">> => RetriableCode(cases'[u].decline)
    BY <1>1, <1>5, <1>6 DEF FInv, SparedInv
  <2>2. TellsDead => \A u \in DOMAIN cases' : RetriableCode(cases'[u].decline) =>
          \E j \in Numbers : payments[j].bill = cases'[u].bill /\ payments[j].reason = "funds"
    BY <1>6, <1>9 DEF FInv, SparedInv
  <2> QED
    BY <1>2, <1>7, <2>1, <2>2 DEF FInv, SparedInv, TellsDead, DeadCardIsSpared
<1>16. CollectedOnce'
  BY <1>2, <1>7 DEF FInv, CollectedOnce, Moved
<1>17. IInv'
  BY StartAttemptKeepsIInv DEF FInv
<1> QED
  BY <1>2, <1>8, <1>10, <1>11, <1>12, <1>14, <1>15, <1>16, <1>17 DEF FInv

\* The payments of a case that is answered, if none is new.
LEMMA PaymentsStay ==
  ASSUME FInv, UNCHANGED <<proc, payments>>, StableCases
  PROVE  PaymentsOK'
<1>1. Numbers' = Numbers /\ Driven' = Driven /\ Own' = Own
  BY DEF Numbers, Driven, Own
<1>2. ASSUME NEW j \in Driven', NEW k, k = payments'[j].key
      PROVE  /\ proc' \in Charging
             /\ k[1] \in DOMAIN cases' /\ payments'[j].bill = cases'[k[1]].bill
             /\ payments'[j].reference = RequestFor(k[1], k[2], k)'
                                         .reference
  <2>1. RequestFor(k[1], k[2], k)' = RequestFor(k[1], k[2], k)
    BY DEF RequestFor
  <2> QED
    BY <1>1, <1>2, <2>1 DEF FInv, PaymentsOK, StableCases
<1>3. payments' \in Seq(Payments)
  BY DEF FInv, PaymentsOK
<1> QED
  BY <1>1, <1>2, <1>3 DEF FInv, PaymentsOK

\* A case that is answered is of the same bill and of the same decline.
LEMMA AnsweredFailures ==
  ASSUME FlowAssumption, FInv, NEW v, NEW result, AnswersCase(v, result), Stable
  PROVE  /\ HaveFailed'
         /\ TellsDead => \A u \in DOMAIN cases' :
              /\ RetriableCode(cases'[u].decline) =>
                   \E j \in Numbers' : payments'[j].bill = cases'[u].bill /\ payments'[j].reason = "funds"
              /\ cases'[u].status = "calling" /\ cases'[u].method = <<"card">> =>
                   RetriableCode(cases'[u].decline)
<1>1. /\ DOMAIN cases' = DOMAIN cases
      /\ \A u \in DOMAIN cases : /\ cases'[u].bill = cases[u].bill /\ cases'[u].decline = cases[u].decline
                                 /\ cases'[u].method = cases[u].method
                                 /\ u # v => cases'[u] = cases[u]
  BY AnsweredCases DEF FInv, StableCases
<1>2. v \in DOMAIN cases /\ cases[v].status = "calling" /\ proc' = proc
  BY DEF AnswersCase
<1>3. HaveFailed'
  BY <1>1 DEF FInv, HaveFailed, Stable
<1>4. ASSUME NEW b, NEW j \in Numbers, payments[j].bill = b, payments[j].reason = "funds"
      PROVE  j \in Numbers' /\ payments'[j].bill = b /\ payments'[j].reason = "funds"
  BY <1>4 DEF FInv, PaymentsOK, Stable, Reasons
<1>5. ASSUME TellsDead, NEW u \in DOMAIN cases, RetriableCode(cases[u].decline)
      PROVE  \E j \in Numbers' : payments'[j].bill = cases[u].bill /\ payments'[j].reason = "funds"
  BY <1>4, <1>5 DEF FInv, SparedInv
<1>6. ASSUME TellsDead, NEW u \in DOMAIN cases, cases'[u].status = "calling", cases'[u].method = <<"card">>
      PROVE  RetriableCode(cases[u].decline)
  BY <1>1, <1>2, <1>6 DEF FInv, SparedInv
<1> QED
  BY <1>1, <1>3, <1>5, <1>6

\* An answer, to a try that made no payment.
LEMMA AnswerKeepsFInv ==
  ASSUME FlowAssumption, FInv, NEW v, NEW result, AnswersCase(v, result),
         UNCHANGED <<payments, wire, reported, missed>>, IInv',
         TakesFailures /\ result.outcome = "failed" =>
           \A i \in Driven : payments[i].key = KeyOf(v) => payments[i].state = "declined"
  PROVE  FInv'
<1>1. Numbers' = Numbers /\ Driven' = Driven /\ Own' = Own /\ Stable /\ proc' = proc
  BY DEF Numbers, Driven, Own, Stable, AnswersCase
<1>2. DOMAIN cases' = DOMAIN cases /\ CasesOK' /\ StableCases
  BY AnsweredCases DEF FInv
<1>3. PaymentsOK'
  BY <1>1, <1>2, PaymentsStay
<1>4. AttemptsInv'
  <2>1. payments' \in Seq(Payments)
    BY <1>3 DEF PaymentsOK
  <2>2. \A i \in Driven' : i \in Driven /\ payments'[i] = payments[i]
    BY <1>1
  <2>3. TakesFailures /\ result.outcome = "failed" =>
          \A i \in Driven' : payments'[i].key = KeyOf(v) => payments'[i].state = "declined"
    BY <1>1
  <2> QED
    BY <2>1, <2>2, <2>3, AnsweredAttempts DEF FInv
<1>5. WireInv' /\ ReportedInv' /\ MissedInv' /\ HappenedIsTold'
  BY <1>1, NothingHappens
<1>7. HaveFailed'
  BY <1>1, AnsweredFailures
<1>8. SparedInv'
  BY <1>1, AnsweredFailures DEF FInv, SparedInv, TellsDead, DeadCardIsSpared
<1>9. OwnOnce'
  BY <1>1, <1>2 DEF FInv, OwnOnce, Unguarded, StableCases
<1>10. CollectedOnce'
  BY <1>1 DEF FInv, CollectedOnce, Moved
<1> QED
  BY <1>1, <1>2, <1>3, <1>4, <1>5, <1>7, <1>8, <1>9, <1>10 DEF FInv

-----------------------------------------------------------------------------
(* A charge that is tried.                                                 *)

\* No payment of the bill has collected, or may, when it is.
LEMMA ChargedWhenDue ==
  ASSUME FlowAssumption, FInv, NEW v \in DOMAIN cases,
         NEW request, request = RequestFor(v, cases[v].method, KeyOf(v)),
         proc \notin {"elavon", "braintree", "paypal", "shopify"},
         request.key = None \/ \A i \in Numbers : payments[i].key # request.key,
         request.charges = None \/ Due(cases[v].bill)
  PROVE  Due(cases[v].bill)
<1>. SUFFICES ASSUME request.charges = None, NEW i \in Numbers, payments[i].bill = cases[v].bill
     PROVE  ~ Moved(i)
  BY DEF Due
<1>1. CaseOK(v, cases[v])
  BY DEF FInv, CasesOK
<1>2. v # None
  <2>1. v \in Ids
    BY <1>1 DEF CaseOK, GoesBy
  <2>2. None \notin Ids
    BY DEF Ids, None
  <2> QED
    BY <2>1, <2>2
<1>3. Unguarded
  BY <1>2, RequestNames DEF Unguarded
<1>4. \A j \in Numbers : payments[j].key # KeyOf(v)
  <2>1. request.key = KeyOf(v)
    BY KeyIsPassedOn DEF TakesKeys
  <2>2. KeyOf(v) # None
    BY DEF KeyOf, None
  <2> QED
    BY <2>1, <2>2
<1>5. CASE i \in Own
  BY <1>3, <1>5 DEF FInv, OwnOnce, Moved
<1>6. CASE i \in Driven
  <2>. DEFINE k == payments[i].key
  <2>1. /\ k[1] \in DOMAIN cases /\ payments[i].bill = cases[k[1]].bill
        /\ k[3] <= cases[k[1]].attempt
        /\ k[3] = cases[k[1]].attempt => k[2] = cases[k[1]].method
        /\ TakesFailures /\ k[3] < cases[k[1]].attempt => payments[i].state = "declined"
    BY <1>6 DEF FInv, PaymentsOK, AttemptsInv
  <2>2. k \in Keys
    <3>1. payments[i] \in Payments /\ payments[i].key # None
      BY <1>6 DEF FInv, PaymentsOK, Driven, Numbers
    <3> QED
      BY <3>1 DEF Payments
  <2>3. k = <<k[1], k[2], k[3]>> /\ k[3] \in Nat
    BY <2>2 DEF Keys
  <2>4. k # KeyOf(v)
    BY <1>4
  <2>5. CaseOK(k[1], cases[k[1]])
    BY <2>1 DEF FInv, CasesOK
  <2>. HIDE DEF k
  <2>6. k[1] = v
    BY <1>1, <1>3, <2>1, <2>5 DEF CaseOK, GoesBy, Unguarded
  <2>7. cases[v].attempt \in Nat
    BY <1>1 DEF CaseOK
  <2>8. k[3] < cases[v].attempt
    BY <2>1, <2>3, <2>4, <2>6, <2>7 DEF KeyOf
  <2>9. payments[i].state = "declined"
    BY <1>3, <2>1, <2>6, <2>8 DEF TakesFailures, Unguarded
  <2> QED
    BY <2>9 DEF Moved
<1> QED
  BY <1>5, <1>6 DEF Own

\* A charge that is tried: of a bill that is due, by a key of its own, told as it ends.
LEMMA ChargeAnewKeepsFInv ==
  ASSUME FlowAssumption, FInv, IInv', NEW v \in DOMAIN cases, cases[v].status = "calling",
         proc \in Charging, UNCHANGED <<proc, reported, missed>>,
         ChargeAnew(v, RequestFor(v, cases[v].method, KeyOf(v)))
  PROVE  FInv'
<1>. DEFINE request == RequestFor(v, cases[v].method, KeyOf(v))
            method == IF request.method = Default THEN <<"card">> ELSE request.method
<1>1. PICK state \in States : \E a \in Answers[state], reason \in ReasonsOf(state, FALSE) :
       /\ payments' = Append(payments,
            NewPayment(cases[v].bill, KeyOf(v), request.reference, method, state, reason))
       /\ Tell(payments', Len(payments'))
       /\ Answered(v, Replay(a, FALSE))
  BY DEF ChargeAnew
<1>2. PICK a \in Answers[state], reason \in ReasonsOf(state, FALSE) :
       /\ payments' = Append(payments,
            NewPayment(cases[v].bill, KeyOf(v), request.reference, method, state, reason))
       /\ Tell(payments', Len(payments'))
       /\ Answered(v, Replay(a, FALSE))
  BY <1>1
<1>3. PICK result \in {ChargeResult(Replay(a, FALSE)), Throws} :
        cases' = [cases EXCEPT ![v] = After(@, result)]
  BY <1>2 DEF Answered
<1>4. TakesFailures /\ result.outcome = "failed" => state = "declined"
  <2>1. Throws.outcome # "failed"
    BY DEF Throws, Result
  <2>2. FALSE \in BOOLEAN
    OBVIOUS
  <2> QED
    BY <1>3, <2>1, <2>2, FailedMeansDeclined
<1>5. /\ request.key = None \/ \A i \in Numbers : payments[i].key # request.key
      /\ request.charges = None \/ Due(cases[v].bill)
  BY DEF ChargeAnew
<1>6. proc \notin {"elavon", "braintree", "paypal", "shopify"} => Due(cases[v].bill)
  BY <1>5, ChargedWhenDue
<1>7. TakesKeys => \A i \in Numbers : payments[i].key # KeyOf(v)
  <2>1. KeyOf(v) # None
    BY DEF KeyOf, None
  <2> QED
    BY <1>5, <2>1, KeyIsPassedOn
<1>8. TakesMethods => method = cases[v].method
  BY ChosenMethod DEF FInv
<1>9. CaseOK(v, cases[v])
  BY DEF FInv, CasesOK
<1>10. request.reference \in Ids \cup {None}
  <2>1. v \in Ids /\ Subscription \in Ids
    BY <1>9 DEF CaseOK, GoesBy, Subscription, Ids
  <2> QED
    BY <2>1, RequestNames
<1>11. method \in Methods
  <2>1. cases[v].method \in Methods /\ <<"card">> \in Methods
    BY <1>9 DEF CaseOK, Methods
  <2> QED
    BY <2>1, MethodOrDefault
<1>12. KeyOf(v) \in Keys /\ KeyOf(v) # None /\ KeyOf(v)[1] = v /\ KeyOf(v)[2] = cases[v].method
  BY <1>9 DEF CaseOK, GoesBy, KeyOf, Keys, None
<1>13. reason \in Reasons \cup {"-"} /\ (reason \in Reasons <=> state = "declined")
  BY <1>2 DEF ReasonsOf, Reasons
<1>. DEFINE p == NewPayment(cases[v].bill, KeyOf(v), request.reference, method, state, reason)
<1>14. /\ p.bill = cases[v].bill /\ p.key = KeyOf(v) /\ p.reference = request.reference
       /\ p.method = method /\ p.state = state /\ p.first = state /\ p.reason = reason
       /\ p.dispute = "none" /\ p.returned = 0
  BY DEF NewPayment
<1>. HIDE DEF method
<1>15. p \in Payments
  <2>1. cases[v].bill \in Bills
    BY <1>9 DEF CaseOK
  <2>. HIDE DEF request
  <2> QED
    BY <2>1, <1>10, <1>11, <1>12, <1>13 DEF NewPayment, Payments, BillAmount
<1>16. payments \in Seq(Payments) /\ payments' = Append(payments, p)
  BY <1>2 DEF FInv, PaymentsOK
<1>17. request.reference = RequestFor(KeyOf(v)[1], KeyOf(v)[2], KeyOf(v)).reference
  BY <1>12
<1>. HIDE DEF p, request
<1>18. PICK n : n = Len(payments) + 1 /\ p.key # None
  BY <1>12, <1>14
<1>19. /\ payments' \in Seq(Payments) /\ n \in Nat /\ Len(payments') = n
       /\ Numbers' = Numbers \cup {n} /\ n \notin Numbers
       /\ \A j \in Numbers : j \in Nat /\ j < n
       /\ payments'[n] = p /\ \A j \in Numbers : payments'[j] = payments[j]
       /\ Driven' = Driven \cup {n} /\ Own' = Own
  <2>1. (IF p.key = None THEN {} ELSE {n}) = {n} /\ (IF p.key = None THEN {n} ELSE {}) = {}
    BY <1>18
  <2>2. /\ Driven' = Driven \cup (IF p.key = None THEN {} ELSE {n})
        /\ Own' = Own \cup (IF p.key = None THEN {n} ELSE {})
    BY <1>15, <1>16, <1>18, OneMore
  <2> QED
    BY <1>15, <1>16, <1>18, <2>1, <2>2, OneMore
<1>20. Stable
  <2>1. \A j \in Numbers : j \in Numbers' /\ payments'[j] = payments[j]
    BY <1>19
  <2> QED
    BY <2>1 DEF Stable
<1>21. Driven \subseteq Numbers /\ Own \subseteq Numbers
  BY DEF Driven, Own
<1>22. AnswersCase(v, result)
  BY <1>3 DEF AnswersCase
<1>23. DOMAIN cases' = DOMAIN cases /\ CasesOK' /\ StableCases
  BY <1>22, AnsweredCases DEF FInv
<1>24. /\ WireInv' /\ wire \subseteq wire'
       /\ payments'[n].state = "collected" /\ "paid" \in Learns(n)' =>
            \E w \in wire' : w.pay = n /\ w.what = "paid"
       /\ payments'[n].state = "declined" /\ "failed" \in Learns(n)' =>
            \E w \in wire' : w.pay = n /\ w.what = "failed"
  BY <1>2, <1>19, <1>20, TellKeepsTheWire DEF FInv
<1>25. HappenedIsTold'
  <2>1. \A what \in Occurred(n)' : what \in Learns(n)' => \E w \in wire' : w.pay = n /\ w.what = what
    BY <1>14, <1>19, <1>24, NewPaymentHappens
  <2> QED
    BY <1>19, <1>20, <1>24, <2>1, HappenedStaysTold DEF FInv
<1>26. PaymentsOK'
  <2>1. \A i \in Numbers' : /\ payments'[i].reason \in Reasons <=> payments'[i].state = "declined"
                            /\ payments'[i].first = "declined" => payments'[i].state = "declined"
                            /\ payments'[i].dispute # "none" => payments'[i].state = "collected"
    BY <1>13, <1>14, <1>19 DEF FInv, PaymentsOK
  <2>2. \A i \in Own' : /\ payments'[i].state # "progress"
                        /\ payments'[i].reference = <<"invoice", payments'[i].bill>>
    BY <1>19, <1>21 DEF FInv, PaymentsOK
  <2>3. ASSUME NEW i \in Driven', NEW k, k = payments'[i].key
        PROVE  /\ proc' \in Charging
               /\ k[1] \in DOMAIN cases' /\ payments'[i].bill = cases'[k[1]].bill
               /\ payments'[i].reference = RequestFor(k[1], k[2], k)'
                                           .reference
    <3>1. RequestFor(k[1], k[2], k)' = RequestFor(k[1], k[2], k)
      BY DEF RequestFor
    <3>2. CASE i = n
      BY <1>12, <1>14, <1>17, <1>19, <1>23, <2>3, <3>1, <3>2 DEF StableCases
    <3>3. CASE i \in Driven
      BY <1>19, <1>21, <1>23, <2>3, <3>1, <3>3 DEF FInv, PaymentsOK, StableCases
    <3> QED
      BY <1>19, <3>2, <3>3
  <2> QED
    BY <1>19, <2>1, <2>2, <2>3 DEF PaymentsOK
<1>27. AttemptsInv'
  <2>1. \A i \in Driven' : \/ i \in Driven /\ payments'[i] = payments[i]
                           \/ payments'[i].key = KeyOf(v)
    BY <1>14, <1>19, <1>21
  <2>2. ASSUME TakesFailures, result.outcome = "failed", NEW i \in Driven', payments'[i].key = KeyOf(v)
        PROVE  payments'[i].state = "declined"
    <3>1. TakesKeys
      BY <2>2 DEF TakesFailures, TakesKeys
    <3>2. i = n
      BY <1>7, <1>19, <1>21, <2>2, <3>1
    <3> QED
      BY <1>4, <1>14, <1>19, <2>2, <3>2
  <2> QED
    BY <1>19, <1>22, <2>1, <2>2, AnsweredAttempts DEF FInv
<1>28. ReportedInv'
  BY <1>20, ReportsStay DEF FInv
<1>29. MissedInv'
  BY <1>19, <1>20, LearnsTheSame DEF FInv, MissedInv
<1>30. /\ HaveFailed'
       /\ TellsDead => \A u \in DOMAIN cases' :
            /\ RetriableCode(cases'[u].decline) =>
                 \E j \in Numbers' : payments'[j].bill = cases'[u].bill /\ payments'[j].reason = "funds"
            /\ cases'[u].status = "calling" /\ cases'[u].method = <<"card">> =>
                 RetriableCode(cases'[u].decline)
  BY <1>20, <1>22, AnsweredFailures
<1>31. ASSUME TellsDead, NEW i \in Driven', payments'[i].method = <<"card">>
       PROVE  \E j \in 1..(i - 1) : payments'[j].bill = payments'[i].bill /\ payments'[j].reason = "funds"
  <2>1. CASE i \in Driven
    <3>1. PICK j \in 1..(i - 1) : payments[j].bill = payments[i].bill /\ payments[j].reason = "funds"
      BY <1>19, <1>21, <1>31, <2>1 DEF FInv, SparedInv, DeadCardIsSpared, TellsDead
    <3>2. j \in Numbers
      BY <1>16, <1>21, <2>1 DEF Numbers
    <3> QED
      BY <1>19, <1>21, <2>1, <3>1, <3>2
  <2>2. CASE i = n
    <3>1. cases[v].method = <<"card">>
      BY <1>8, <1>14, <1>19, <1>31, <2>2 DEF TellsDead, TakesMethods
    <3>2. RetriableCode(cases[v].decline)
      BY <1>31, <3>1 DEF FInv, SparedInv
    <3>3. PICK j \in Numbers : payments[j].bill = cases[v].bill /\ payments[j].reason = "funds"
      BY <1>31, <3>2 DEF FInv, SparedInv
    <3>4. j \in 1..(n - 1)
      BY <1>16, <1>18, <1>19 DEF Numbers
    <3> QED
      BY <1>14, <1>19, <2>2, <3>3, <3>4
  <2> QED
    BY <1>19, <2>1, <2>2
<1>32. SparedInv'
  BY <1>30, <1>31 DEF SparedInv, TellsDead, DeadCardIsSpared
<1>33. OwnOnce'
  BY <1>19, <1>21, <1>23 DEF FInv, OwnOnce, Unguarded, StableCases
<1>34. CollectedOnce'
  <2>. SUFFICES ASSUME proc \notin {"elavon", "braintree", "paypal", "shopify"},
                       NEW i \in Numbers', NEW j \in Numbers', Moved(i)', Moved(j)',
                       payments'[i].bill = payments'[j].bill
                PROVE  i = j
    BY DEF CollectedOnce
  <2>1. \A k \in Numbers : Moved(k)' => Moved(k)
    BY <1>19 DEF Moved
  <2>2. \A k \in Numbers : payments[k].bill = cases[v].bill => ~ Moved(k)
    BY <1>6 DEF Due
  <2> QED
    BY <1>14, <1>19, <2>1, <2>2 DEF FInv, CollectedOnce
<1> QED
  BY <1>23, <1>24, <1>25, <1>26, <1>27, <1>28, <1>29, <1>30, <1>32, <1>33, <1>34 DEF FInv

\* A key the processor knows gets the answer it got: a failure that is repeated was one.
LEMMA ChargeAgainKeepsFInv ==
  ASSUME FlowAssumption, FInv, IInv', NEW v \in DOMAIN cases, cases[v].status = "calling",
         UNCHANGED <<proc, reported, missed>>,
         ChargeAgain(v, RequestFor(v, cases[v].method, KeyOf(v)))
  PROVE  FInv'
<1>. DEFINE request == RequestFor(v, cases[v].method, KeyOf(v))
<1>1. PICK i \in Numbers :
        /\ request.key # None /\ payments[i].key = request.key
        /\ \E a \in IF proc = "gocardless"
                     THEN {Response(409, [reason |-> "idempotent_creation_conflict"])}
                     ELSE Answers[payments[i].first] : Answered(v, Replay(a, TRUE))
  BY DEF ChargeAgain
<1>2. PICK a \in IF proc = "gocardless"
                  THEN {Response(409, [reason |-> "idempotent_creation_conflict"])}
                  ELSE Answers[payments[i].first] : Answered(v, Replay(a, TRUE))
  BY <1>1
<1>3. PICK result \in {ChargeResult(Replay(a, TRUE)), Throws} :
        cases' = [cases EXCEPT ![v] = After(@, result)]
  BY <1>2 DEF Answered
<1>4. AnswersCase(v, result) /\ UNCHANGED <<payments, wire>>
  BY <1>3 DEF AnswersCase, ChargeAgain, world
<1>5. ASSUME TakesFailures, result.outcome = "failed", NEW j \in Driven, payments[j].key = KeyOf(v)
      PROVE  payments[j].state = "declined"
  <2>1. TakesKeys
    BY <1>5 DEF TakesFailures, TakesKeys
  <2>2. payments[i].key = KeyOf(v) /\ i \in Driven
    BY <1>1, <2>1, KeyIsPassedOn DEF Driven
  <2>3. i = j
    BY <1>5, <2>1, <2>2 DEF FInv, IInv, KeysAreUnique
  <2>4. ChargeResult(Replay(a, TRUE)).outcome = "failed"
    <3>1. Throws.outcome # "failed"
      BY DEF Throws, Result
    <3> QED
      BY <1>3, <1>5, <3>1
  <2>5. proc # "gocardless" /\ a \in Answers[payments[i].first]
    BY <1>2, <2>4, ConflictPends
  <2>6. payments[i].first \in States
    <3>1. payments[i] \in Payments
      BY DEF FInv, PaymentsOK, Numbers
    <3> QED
      BY <3>1 DEF Payments
  <2>7. payments[i].first = "declined"
    BY <1>5, <2>4, <2>5, <2>6, FailedMeansDeclined
  <2> QED
    BY <2>3, <2>7 DEF FInv, PaymentsOK
<1> QED
  BY <1>4, <1>5, AnswerKeepsFInv

\* A charge, in each of the ways a processor may take it.
LEMMA ChargeKeepsFInv ==
  ASSUME FlowAssumption, FInv, NEW v \in DOMAIN cases, Charge(v)
  PROVE  FInv'
<1>. DEFINE request == RequestFor(v, cases[v].method, KeyOf(v))
<1>1. IInv' /\ cases[v].status = "calling" /\ proc \in Charging /\ UNCHANGED <<proc, reported, missed>>
  BY ChargeKeepsIInv DEF FInv, Charge
<1>2. CASE ChargeAgain(v, request)
  BY <1>1, <1>2, ChargeAgainKeepsFInv
<1>3. CASE ChargeDuplicate(v, request)
  <2>1. PICK result : cases' = [cases EXCEPT ![v] = After(@, result)]
    BY <1>3 DEF ChargeDuplicate, Answered
  <2>2. AnswersCase(v, result) /\ UNCHANGED <<payments, wire>> /\ ~ TakesFailures
    BY <1>1, <1>3, <2>1 DEF ChargeDuplicate, AnswersCase, world, TakesFailures
  <2> QED
    BY <1>1, <2>2, AnswerKeepsFInv
<1>4. CASE ChargeRefused(v, request)
  <2>1. PICK a \in Refusals \cup (IF proc = "maxio" /\ ~Due(cases[v].bill)
                                  THEN {Response(422, [errors |-> "paid"])} ELSE {}) :
          Answered(v, Replay(a, FALSE))
    BY <1>4 DEF ChargeRefused
  <2>2. PICK result \in {ChargeResult(Replay(a, FALSE)), Throws} :
          cases' = [cases EXCEPT ![v] = After(@, result)]
    BY <2>1 DEF Answered
  <2>3. AnswersCase(v, result) /\ UNCHANGED <<payments, wire>>
    BY <1>1, <1>4, <2>2 DEF ChargeRefused, AnswersCase, world
  <2>4. TakesFailures => result.outcome # "failed"
    <3>1. TakesFailures => a \in Refusals
      BY <2>1 DEF TakesFailures
    <3>2. Throws.outcome # "failed"
      BY DEF Throws, Result
    <3> QED
      BY <2>2, <3>1, <3>2, RefusalFails DEF TakesFailures
  <2> QED
    BY <1>1, <2>3, <2>4, AnswerKeepsFInv
<1>5. CASE ChargeAnew(v, request)
  BY <1>1, <1>5, ChargeAnewKeepsFInv
<1> QED
  BY <1>2, <1>3, <1>4, <1>5 DEF Charge

\* A call that does not get through leaves the attempt where it is.
LEMMA ChargeThrowsKeepsFInv ==
  ASSUME FlowAssumption, FInv, NEW v \in DOMAIN cases, ChargeThrows(v)
  PROVE  FInv'
<1>1. AnswersCase(v, Throws) /\ UNCHANGED <<payments, wire, reported, missed>>
  BY DEF ChargeThrows, AnswersCase, world
<1>2. IInv'
  BY <1>1, AnsweredKeepsIInv DEF FInv, AnswersCase
<1>3. Throws.outcome # "failed"
  BY DEF Throws, Result
<1> QED
  BY <1>1, <1>2, <1>3, AnswerKeepsFInv

-----------------------------------------------------------------------------

\* Nothing is collected, nothing is told.
LEMMA InitImpliesFInv == FlowAssumption /\ Init => FInv
<1>. SUFFICES ASSUME FlowAssumption, Init PROVE FInv
  OBVIOUS
<1>1. /\ payments = << >> /\ payments \in Seq(Payments) /\ Numbers = {} /\ Driven = {} /\ Own = {}
      /\ DOMAIN cases = {} /\ wire = {} /\ reported = {} /\ missed = {} /\ proc \in Served
  BY DEF Init, Numbers, Driven, Own
<1>2. IInv
  BY InitImpliesIInv
<1>3. CasesOK /\ PaymentsOK /\ AttemptsInv
  BY <1>1 DEF CasesOK, PaymentsOK, AttemptsInv
<1>4. WireInv /\ ReportedInv /\ MissedInv /\ HappenedIsTold
  BY <1>1 DEF WireInv, ReportedInv, MissedInv, HappenedIsTold
<1>5. HaveFailed /\ SparedInv /\ OwnOnce
  BY <1>1 DEF HaveFailed, SparedInv, OwnOnce, DeadCardIsSpared
<1>6. CollectedOnce
  BY <1>1 DEF CollectedOnce
<1> QED
  BY <1>1, <1>2, <1>3, <1>4, <1>5, <1>6 DEF FInv

\* Nothing changes.
LEMMA StutterKeepsFInv ==
  ASSUME FlowAssumption, FInv, UNCHANGED vars
  PROVE  FInv'
<1>1. UNCHANGED <<proc, payments, wire, reported, missed, cases>>
  BY DEF vars
<1>2. Numbers' = Numbers /\ Driven' = Driven /\ Own' = Own /\ Stable /\ StableCases
  BY <1>1 DEF Numbers, Driven, Own, Stable, StableCases
<1>3. IInv'
  <2>1. [Next]_vars
    OBVIOUS
  <2> QED
    BY <2>1, NextKeepsIInv DEF FInv
<1>4. proc' \in Served /\ CasesOK' /\ HaveFailed'
  BY <1>1, <1>2, CasesStay
<1>5. AttemptsInv' /\ SparedInv'
  BY <1>1, <1>2, AttemptsStay
<1>6. PaymentsOK'
  BY <1>1, <1>2, PaymentsStay
<1>7. WireInv' /\ ReportedInv' /\ MissedInv' /\ HappenedIsTold'
  BY <1>1, NothingHappens
<1>8. OwnOnce' /\ CollectedOnce'
  BY <1>1, <1>2 DEF FInv, OwnOnce, Unguarded, CollectedOnce, Moved
<1> QED
  BY <1>3, <1>4, <1>5, <1>6, <1>7, <1>8 DEF FInv

\* Every action.
LEMMA NextKeepsFInv == FlowAssumption /\ FInv /\ [Next]_vars => FInv'
<1>. SUFFICES ASSUME FlowAssumption, FInv, [Next]_vars PROVE FInv'
  OBVIOUS
<1>1. CASE \E b \in Bills : OwnPayment(b)
  BY <1>1, OwnPaymentKeepsFInv
<1>2. CASE \E i \in Numbers :
             Settle(i) \/ Refund(i) \/ OpenDispute(i) \/ WinDispute(i) \/ LoseDispute(i)
  BY <1>2, ProcessorKeepsFInv
<1>3. CASE \E i \in Numbers : FeedFailure(i)
  BY <1>3, FeedFailureKeepsFInv
<1>4. CASE \E w \in wire, lookup \in Lookups : Deliver(w, lookup)
  BY <1>4, DeliverKeepsFInv
<1>5. CASE \E v \in DOMAIN cases : StartAttempt(v)
  BY <1>5, StartAttemptKeepsFInv
<1>6. CASE \E v \in DOMAIN cases : Charge(v)
  BY <1>6, ChargeKeepsFInv
<1>7. CASE \E v \in DOMAIN cases : ChargeThrows(v)
  BY <1>7, ChargeThrowsKeepsFInv
<1>8. CASE UNCHANGED vars
  BY <1>8, StutterKeepsFInv
<1> QED
  BY <1>1, <1>2, <1>3, <1>4, <1>5, <1>6, <1>7, <1>8 DEF Next

\* The invariant of the flow, in every state, for every processor served (ingestWebhook,
\* attemptCharge, attemptRecovery).
THEOREM FlowInvariantHolds == Spec => []FInv
BY FlowAssumption, InitImpliesFInv, NextKeepsFInv, PTL DEF Spec

\* What is reported of a payment is a thing that happened to it.
LEMMA ReportsAreTrue ==
  ASSUME FlowAssumption, FInv, NEW r \in reported
  PROVE  /\ r.pay \in Numbers
         /\ \E o, what, total :
              /\ Happened(r.pay, what, total) /\ o = Occurrence(r.pay, what, total)
              /\ Faithful(o, r.event) /\ o.what = what
              /\ GoesBy(IdOf(o), payments[r.pay].bill)
              /\ r.pay \in Driven /\ proc \notin {"paypal", "shopify"} => IdOf(o) = CaseOf(r.pay)
<1>1. PICK what \in Whats, total \in 0..BillAmount :
        Happened(r.pay, what, total) /\ Faithful(Occurrence(r.pay, what, total), r.event)
  BY DEF FInv, ReportedInv
<1>2. r.pay \in Numbers /\ Occurrence(r.pay, what, total).what = what
  BY <1>1 DEF Happened, Occurrence
<1>3. /\ GoesBy(IdOf(Occurrence(r.pay, what, total)), payments[r.pay].bill)
      /\ r.pay \in Driven /\ proc \notin {"paypal", "shopify"} =>
           IdOf(Occurrence(r.pay, what, total)) = CaseOf(r.pay)
  BY <1>1, NamesOfPayments DEF FInv
<1> QED
  BY <1>1, <1>2, <1>3

\* What is not named as never learnt can be: of Braintree's own payments and of those AX10M
\* charged, which go by their case, each its half.
LEMMA LearntUnlessNamed ==
  ASSUME FInv, NEW i \in Numbers, NEW what \in DOMAIN EventOf
  PROVE  what \in Learns(i) <=> what \notin Unlearnt(i)
<1>1. CASE proc = "braintree"
  <2>1. i \in Driven <=> payments[i].reference # <<"invoice", payments[i].bill>>
    <3>1. CASE i \in Own
      BY <3>1 DEF FInv, PaymentsOK, Own
    <3>2. CASE i \in Driven
      <4>. DEFINE k == payments[i].key
                  v == k[1]
      <4>1. v \in DOMAIN cases /\ payments[i].reference = RequestFor(v, k[2], k).reference
        BY <3>2 DEF FInv, PaymentsOK
      <4>2. v = Subscription
        BY <1>1, <4>1 DEF FInv, CasesOK, CaseOK, GoesBy
      <4>. HIDE DEF k, v
      <4>3. payments[i].reference = Subscription
        BY <1>1, <4>1, <4>2, RequestNames
      <4> QED
        BY <3>2, <4>3 DEF Subscription
    <3> QED
      BY <3>1, <3>2 DEF Own
  <2> QED
    BY <1>1, <2>1, EventNames DEF Learns, Learnable, Unlearnt, Invoice, Advisory
<1>2. CASE proc # "braintree"
  BY <1>2, EventNames DEF Learns, Learnable, Unlearnt, Advisory
<1> QED
  BY <1>1, <1>2

\* The invoice of an event is the one of its bill, or one of its payment alone.
LEMMA EventsNameTheirBill ==
  ASSUME FlowAssumption, FInv, proc \notin {"maxio", "braintree"},
         NEW r \in reported, r.event.invoice # None
  PROVE  /\ r.event.invoice \in {<<"invoice", payments[r.pay].bill>>, <<"payment", r.pay>>}
         /\ proc \notin {"paypal", "shopify", "checkout"} =>
              r.event.invoice = <<"invoice", payments[r.pay].bill>>
<1>1. PICK o, what, total :
        /\ Happened(r.pay, what, total) /\ o = Occurrence(r.pay, what, total)
        /\ Faithful(o, r.event)
        /\ GoesBy(IdOf(o), payments[r.pay].bill)
  BY ReportsAreTrue
<1>2. o.pay = r.pay /\ o.bill = payments[r.pay].bill /\ o.reference = payments[r.pay].reference
  BY <1>1 DEF Occurrence
<1>3. r.pay \in Numbers
  BY <1>1 DEF Happened
<1>4. \/ r.event.invoice = IdOf(o)
      \/ proc = "checkout" /\ r.event.invoice = <<"payment", r.pay>>
  BY <1>1, <1>2 DEF Faithful, Payment
<1>5. IdOf(o) \in {<<"invoice", payments[r.pay].bill>>, <<"payment", r.pay>>}
  <2>1. CASE proc \notin {"paypal", "shopify"}
    BY <1>1, <2>1 DEF GoesBy
  <2>2. CASE proc = "shopify"
    BY <1>2, <2>2 DEF IdOf, Payment
  <2>3. CASE proc = "paypal" /\ r.pay \in Own
    <3>1. o.reference = <<"invoice", payments[r.pay].bill>>
      BY <1>2, <2>3 DEF FInv, PaymentsOK
    <3> QED
      BY <1>2, <2>3, <3>1 DEF IdOf, Payment
  <2>4. CASE proc = "paypal" /\ r.pay \in Driven
    <3>. DEFINE k == payments[r.pay].key
    <3>1. o.reference = RequestFor(k[1], k[2], k).reference
      BY <1>2, <2>4 DEF FInv, PaymentsOK
    <3>2. o.reference = None
      BY <2>4, <3>1, RequestNames
    <3> QED
      BY <1>2, <2>4, <3>2 DEF IdOf, Payment
  <2> QED
    BY <1>3, <2>1, <2>2, <2>3, <2>4 DEF Own
<1> QED
  BY <1>1, <1>4, <1>5 DEF GoesBy

\* A poll lists a bill under its own invoice, while nobody has collected it.
LEMMA ListedWhileDue ==
  ASSUME NEW b, NEW invoice \in Listed(b), proc # "maxio"
  PROVE  /\ Due(b) /\ invoice.ref = <<"invoice", b>>
         /\ proc \in {"stripe", "chargebee", "recurly", "zuora", "gocardless", "woocommerce"}
<1>. DEFINE standing == IF Due(b) THEN "open" ELSE "paid"
            row == BillRow(proc, b, standing)
<1>0. invoice \in OpenFailures({row}) /\ (Due(b) <=> standing = "open")
  BY DEF Listed
<1>. HIDE DEF standing
<1>1. CASE proc = "stripe"
  BY <1>0, <1>1 DEF OpenFailures, StripeOpenFailures, StripeInvoice, InvoiceFor, BillRow, standing
<1>2. CASE proc = "chargebee"
  <2>1. row.status \in {"payment_due", "not_paid"} /\ invoice = ChargebeeInvoice(row)
    BY <1>0, <1>2 DEF OpenFailures, ChargebeeOpenFailures
  <2>2. standing = "open" /\ "invoice" \in DOMAIN row /\ row["invoice"] = <<"invoice", b>>
    BY <1>2, <2>1 DEF BillRow
  <2>3. Ref(row, <<"invoice">>) = <<"invoice", b>>
    <3>. HIDE DEF row
    <3> QED
      BY <2>2, OfOne DEF Ref
  <2> QED
    BY <1>0, <1>2, <2>1, <2>2, <2>3 DEF ChargebeeInvoice, InvoiceFor
<1>3. CASE proc = "recurly"
  <2>1. row.state = "past_due" /\ invoice = RecurlyInvoice(row)
    BY <1>0, <1>3 DEF OpenFailures, RecurlyOpenFailures
  <2>2. standing = "open" /\ "uuid" \in DOMAIN row /\ row["uuid"] = <<"invoice", b>>
    BY <1>3, <2>1 DEF BillRow
  <2>3. Ref(row, <<"uuid", "id", "number">>) = <<"invoice", b>>
    <3>. HIDE DEF row
    <3> QED
      BY <2>2, OfThree DEF Ref
  <2> QED
    BY <1>0, <1>3, <2>1, <2>2, <2>3 DEF RecurlyInvoice, InvoiceFor
<1>4. CASE proc = "zuora"
  <2>1. Amount(row, <<"balance", "amount">>) > 0 /\ invoice = ZuoraInvoice(row)
    BY <1>0, <1>4 DEF OpenFailures, ZuoraOpenFailures
  <2>2. /\ "balance" \in DOMAIN row /\ row["balance"] = IF standing = "open" THEN BillAmount ELSE 0
        /\ "invoice" \in DOMAIN row /\ row["invoice"] = <<"invoice", b>>
    BY <1>4 DEF BillRow
  <2>3. Ref(row, <<"invoice">>) = <<"invoice", b>> /\ Amount(row, <<"balance", "amount">>) = row["balance"]
    <3>. HIDE DEF row
    <3> QED
      BY <2>2, OfOne, OfTwo DEF Ref, Amount
  <2>4. standing = "open"
    BY <2>1, <2>2, <2>3
  <2> QED
    BY <1>0, <1>4, <2>1, <2>3, <2>4 DEF ZuoraInvoice, InvoiceFor
<1>5. CASE proc = "gocardless"
  BY <1>0, <1>5 DEF OpenFailures, GoCardlessOpenFailures, GoCardlessInvoice, InvoiceFor, BillRow,
     standing
<1>6. CASE proc = "woocommerce"
  BY <1>0, <1>6 DEF OpenFailures, WooOpenFailures, WooInvoice, InvoiceFor, BillRow, standing
<1>7. CASE proc \notin {"stripe", "chargebee", "recurly", "zuora", "maxio", "gocardless", "woocommerce"}
  BY <1>0, <1>7 DEF OpenFailures, BaseOpenFailures
<1> QED
  BY <1>1, <1>2, <1>3, <1>4, <1>5, <1>6, <1>7

-----------------------------------------------------------------------------
(* Theorems                                                                *)

\* Payments, cases and what is told of them are what they are said to be, within their
\* bounds (attemptRecovery, ingestWebhook).
THEOREM FlowTypeCorrect == Spec => []TypeOK
<1>1. FlowAssumption /\ FInv => TypeOK
  <2>. SUFFICES ASSUME FlowAssumption, FInv PROVE TypeOK
    OBVIOUS
  <2>1. \A r \in reported : r.pay \in Numbers
    BY ReportsAreTrue
  <2>2. \A w \in wire \cup missed : w.pay \in Numbers
    BY DEF FInv, WireInv, MissedInv, Happened
  <2>3. \A v \in DOMAIN cases : cases[v].attempt \in 1..MaxAttempts /\ cases[v].try \in 0..MaxTries
    BY DEF FInv, CasesOK, CaseOK
  <2> QED
    BY <2>1, <2>2, <2>3 DEF FInv, PaymentsOK, TypeOK
<1> QED
  BY <1>1, FlowAssumption, FlowInvariantHolds, PTL

\* A bill is collected once, by the merchant, one attempt or one method, for every
\* processor but the four named (attemptCharge and what it charges: an open invoice or a key).
THEOREM BillsAreCollectedOnce == Spec => []CollectedOnce
<1>1. FInv => CollectedOnce
  BY DEF FInv
<1> QED
  BY <1>1, FlowInvariantHolds, PTL

\* What happens to a payment and on its way to AX10M is reported as what it was, in any order
\* and beside whatever else the processor sends, unless the adapter has no webhook or no case
\* for it; nothing is reported that did not happen (ingestWebhook of every adapter).
THEOREM NoWebhookIsMissed == Spec => []AckedIsSeen
<1>1. FlowAssumption /\ FInv => AckedIsSeen
  <2>. SUFFICES ASSUME FlowAssumption, FInv PROVE AckedIsSeen
    OBVIOUS
  <2>1. ASSUME NEW i \in Numbers, NEW what \in Occurred(i) \ Unlearnt(i)
        PROVE  \/ \E w \in wire : w.pay = i /\ w.what = what
               \/ Reported(i, {EventOf[what]}) # {}
    <3>1. what \in DOMAIN EventOf /\ what \in Learns(i)
      BY <2>1, LearntUnlessNamed DEF Occurred
    <3>2. ToldOf(i, what)
      BY <2>1, <3>1 DEF FInv, HappenedIsTold
    <3> QED
      BY <3>2 DEF ToldOf, Reported
  <2>2. ASSUME NEW i \in Numbers, NEW r \in Reported(i, EventTypes)
        PROVE  \E what \in Occurred(i) : r.event.type = EventOf[what]
    <3>1. r \in reported /\ r.pay = i /\ r.event.type \in EventTypes
      BY DEF Reported
    <3>2. PICK o, what, total : Happened(i, what, total) /\ Faithful(o, r.event) /\ o.what = what
      BY <3>1, ReportsAreTrue
    <3>3. what \in DOMAIN EventOf /\ r.event.type = EventOf[what]
      BY <3>1, <3>2 DEF Faithful
    <3>4. what \in Occurred(i)
      BY <3>2, <3>3, EventNames DEF Happened, Occurred
    <3> QED
      BY <3>3, <3>4
  <2>3. ASSUME NEW w \in missed
        PROVE  w.what \in Unlearnt(w.pay) \cup {"lost"}
    <3>1. w.pay \in Numbers /\ w.what \in Whats \ Learns(w.pay)
      BY DEF FInv, MissedInv
    <3>2. w.what \in DOMAIN EventOf \cup {"lost"}
      BY <3>1, EventNames DEF Whats
    <3> QED
      BY <3>1, <3>2, LearntUnlessNamed
  <2> QED
    BY <2>1, <2>2, <2>3 DEF AckedIsSeen
<1> QED
  BY <1>1, FlowAssumption, FlowInvariantHolds, PTL

\* A card that its processor called dead is not charged again for the bill
\* (decline mapping of every adapter, RetriableCode, attemptRecovery).
THEOREM DeadCardsAreSpared == Spec => []DeadCardIsSpared
<1>1. FInv => DeadCardIsSpared
  BY DEF FInv, SparedInv, DeadCardIsSpared, TellsDead
<1> QED
  BY <1>1, FlowInvariantHolds, PTL

\* An attempt taken for failed has collected nothing, whatever answers were lost or
\* repeated (attemptCharge of every adapter but the three named).
THEOREM FailuresCollectNothing == Spec => []FailedIsFailed
<1>1. FInv => FailedIsFailed
  <2>. SUFFICES ASSUME FInv, TakesFailures, NEW i \in Driven,
                       \/ cases[CaseOf(i)].attempt > payments[i].key[3]
                       \/ cases[CaseOf(i)].status = "exhausted"
                PROVE  payments[i].state # "collected"
    BY DEF FailedIsFailed, TakesFailures
  <2>. DEFINE k == payments[i].key
  <2>1. k[1] \in DOMAIN cases
    BY DEF FInv, PaymentsOK
  <2>2. cases[k[1]].attempt \in Nat
    BY <2>1 DEF FInv, CasesOK, CaseOK
  <2>3. k \in Keys
    <3>1. payments[i] \in Payments /\ payments[i].key # None
      BY DEF FInv, PaymentsOK, Driven, Numbers
    <3> QED
      BY <3>1 DEF Payments
  <2>4. k[3] \in Nat
    BY <2>3 DEF Keys
  <2>5. k[3] < cases[k[1]].attempt \/ cases[k[1]].status = "exhausted"
    BY <2>2, <2>4 DEF CaseOf
  <2>6. payments[i].state = "declined"
    BY <2>5 DEF FInv, AttemptsInv
  <2> QED
    BY <2>6
<1> QED
  BY <1>1, FlowInvariantHolds, PTL

\* What is reported of an attempt carries the invoice of its case (attemptCharge's
\* reference, ingestWebhook's invoice id).
THEOREM EventsGoByTheirCase == Spec => []EventsJoinTheCase
<1>1. FlowAssumption /\ FInv => EventsJoinTheCase
  <2>. SUFFICES ASSUME FlowAssumption, FInv, proc \notin {"paypal", "shopify", "checkout"},
                       NEW i \in Driven, NEW r \in reported, r.pay = i, r.event.type \in EventTypes
                PROVE  r.event.invoice = CaseOf(i)
    BY DEF EventsJoinTheCase, Reported
  <2> QED
    BY ReportsAreTrue DEF Faithful
<1> QED
  BY <1>1, FlowAssumption, FlowInvariantHolds, PTL

\* What AX10M collected it learns, also when every answer was lost (attemptCharge,
\* ingestWebhook).
THEOREM CollectedIsLearnt == Spec => []CollectedIsKnown
<1>1. FlowAssumption /\ FInv => CollectedIsKnown
  <2>. SUFFICES ASSUME FlowAssumption, FInv,
                       proc \notin {"gocardless", "paypal", "shopify", "braintree", "elavon", "tsys"},
                       NEW i \in Driven, payments[i].state = "collected",
                       ~ \E w \in wire : w.pay = i /\ w.what = "paid"
                PROVE  \E r \in Reported(i, {"invoice.paid"}) : r.event.invoice = CaseOf(i)
    BY DEF CollectedIsKnown
  <2>1. proc \in Served /\ proc \in Charging
    BY DEF FInv, PaymentsOK
  <2>2. proc \in {"stripe", "chargebee", "recurly", "zuora", "maxio", "checkout", "worldpay",
                   "adyen", "woocommerce"}
    BY <2>1 DEF FlowAssumption, Charging, Adapters, Advisory
  <2>2a. "paid" \in Learns(i) /\ "paid" \in Occurred(i)
    BY <2>2, EventNames DEF Learns, Learnable, Occurred
  <2>2b. ToldOf(i, "paid") /\ i \in Numbers
    BY <2>2a DEF FInv, HappenedIsTold, Driven
  <2>3. PICK r \in reported : r.pay = i /\ r.event.type = "invoice.paid"
    BY <2>2b, EventNames DEF ToldOf
  <2>4. r.event.invoice = CaseOf(i)
    BY <2>3, ReportsAreTrue DEF Faithful, EventTypes
  <2> QED
    BY <2>3, <2>4 DEF Reported
<1> QED
  BY <1>1, FlowAssumption, FlowInvariantHolds, PTL

\* Events of two bills carry two invoices, and a poll lists a bill under its own
\* while nobody has collected it (ingestWebhook, listOpenFailures).
THEOREM BillsKeepTheirInvoices == Spec => []BillsAreToldApart
<1>1. FlowAssumption /\ FInv => BillsAreToldApart
  <2>. SUFFICES ASSUME FlowAssumption, FInv, proc \notin {"maxio", "braintree"}
                PROVE  /\ \A r, s \in reported :
                            r.event.invoice = s.event.invoice /\ r.event.invoice # None =>
                              payments[r.pay].bill = payments[s.pay].bill
                       /\ \A b \in Bills : \A invoice \in Listed(b) :
                            /\ Due(b)
                            /\ \A r \in reported : r.event.invoice # None =>
                                 (r.event.invoice = invoice.ref <=> payments[r.pay].bill = b)
    BY DEF BillsAreToldApart
  <2>1. ASSUME NEW r \in reported, NEW s \in reported,
               r.event.invoice = s.event.invoice, r.event.invoice # None
        PROVE  payments[r.pay].bill = payments[s.pay].bill
    <3>1. /\ r.event.invoice \in {<<"invoice", payments[r.pay].bill>>, <<"payment", r.pay>>}
          /\ r.event.invoice \in {<<"invoice", payments[s.pay].bill>>, <<"payment", s.pay>>}
      BY <2>1, EventsNameTheirBill
    <3> QED
      BY <3>1
  <2>2. ASSUME NEW b \in Bills, NEW invoice \in Listed(b)
        PROVE  /\ Due(b)
               /\ \A r \in reported : r.event.invoice # None =>
                    (r.event.invoice = invoice.ref <=> payments[r.pay].bill = b)
    <3>1. /\ Due(b) /\ invoice.ref = <<"invoice", b>>
          /\ proc \notin {"paypal", "shopify", "checkout"}
      BY ListedWhileDue
    <3>2. \A r \in reported : r.event.invoice # None =>
            r.event.invoice = <<"invoice", payments[r.pay].bill>>
      BY <3>1, EventsNameTheirBill
    <3> QED
      BY <3>1, <3>2
  <2> QED
    BY <2>1, <2>2
<1> QED
  BY <1>1, FlowAssumption, FlowInvariantHolds, PTL

-----------------------------------------------------------------------------
(* What went back, and what is reported to have.                           *)

\* What was reported as reversed of a payment, and what of it is under way.
Back(i) == Reported(i, {"payment.reversed"})
Telling(i, what) == {w \in wire : w.pay = i /\ w.what = what}

\* Of a payment that is not disputed, an event per unit that went back: the unit tells them
\* from each other and, told twice, is one.
RefundsInv(i) ==
  /\ Telling(i, "disputed") = {}
  /\ \A w \in Telling(i, "refunded") :
       \E total \in 1..payments[i].returned, detailed \in BOOLEAN :
         w.native \in Webhooks(Occurrence(i, "refunded", total), detailed)
  /\ \A r \in Back(i) : \E total \in 1..payments[i].returned :
       r = [pay |-> i, event |-> RefundOf(Occurrence(i, "refunded", total))]

\* Of one that is, a single event, of the bill: a payment that was refunded is not disputed.
DisputeInv(i) ==
  /\ payments[i].returned = 0 /\ Telling(i, "refunded") = {}
  /\ Telling(i, "disputed") # {} => Back(i) = {}
  /\ \A w, x \in Telling(i, "disputed") : w = x
  /\ \A r, s \in Back(i) : r = s /\ r.event.amount = BillAmount

ReturnedInv(i) == IF payments[i].dispute = "none" THEN RefundsInv(i) ELSE DisputeInv(i)
ReturnsInv == Itemised => \A i \in Numbers : ReturnedInv(i)

\* A notification is of its payment, and of what it says.
LEMMA NotifyIsOfOne ==
  ASSUME NEW i, NEW what, Notify(payments', i, what)
  PROVE  /\ \A j, other : j # i \/ other # what => Telling(j, other)' = Telling(j, other)
         /\ \E detailed \in BOOLEAN :
              \A w \in Telling(i, what)' : w \in Telling(i, what)
                \/ \E n \in Webhooks(Occurrence(i, what, payments[i].returned)', detailed) :
                     w = [pay |-> i, what |-> what, native |-> n]
<1>. DEFINE o == Occurrence(i, what, payments[i].returned)'
<1>1. PICK detailed \in BOOLEAN :
        wire' = wire \cup {[pay |-> i, what |-> what, native |-> n] : n \in Webhooks(o, detailed)}
  BY DEF Notify, Occurrence
<1>. DEFINE told == {[pay |-> i, what |-> what, native |-> n] : n \in Webhooks(o, detailed)}
<1>2. \A w \in told : /\ w.pay = i /\ w.what = what
                      /\ \E n \in Webhooks(o, detailed) : w = [pay |-> i, what |-> what, native |-> n]
  OBVIOUS
<1>3. wire' = wire \cup told
  BY <1>1
<1>. HIDE DEF told
<1>4. \A j, other : j # i \/ other # what => Telling(j, other)' = Telling(j, other)
  BY <1>2, <1>3 DEF Telling
<1>5. \A w \in Telling(i, what)' : w \in Telling(i, what) \/ w \in told
  BY <1>3 DEF Telling
<1> QED
  BY <1>2, <1>4, <1>5

\* What a payment came to says nothing of a return.
LEMMA TellIsNoReturn ==
  ASSUME NEW i, Tell(payments', i), NEW j, NEW what \in {"refunded", "disputed"}
  PROVE  Telling(j, what)' = Telling(j, what)
<1>1. CASE payments'[i].state = "collected"
  BY <1>1, NotifyIsOfOne DEF Tell
<1>2. CASE payments'[i].state = "declined"
  BY <1>2, NotifyIsOfOne DEF Tell
<1>3. CASE payments'[i].state \notin {"collected", "declined"}
  BY <1>3 DEF Tell, Telling
<1> QED
  BY <1>1, <1>2, <1>3

\* Nothing is told of a payment that is not there, or is in progress.
LEMMA NothingToldYet ==
  ASSUME FInv, NEW j, j \notin Numbers \/ payments[j].state = "progress"
  PROVE  Back(j) = {} /\ \A what : Telling(j, what) = {}
<1>1. \A w \in wire : w.pay # j
  BY DEF FInv, WireInv, Happened
<1>2. \A r \in reported : r.pay # j
  BY DEF FInv, ReportedInv, Happened
<1> QED
  BY <1>1, <1>2 DEF Back, Reported, Telling

\* A refund that is told of is the same afterwards.
LEMMA RefundsStay ==
  ASSUME Stable, proc' = proc, NEW j \in Numbers, payments[j].state # "progress", NEW total
  PROVE  LET o == Occurrence(j, "refunded", total)
         IN  RefundOf(o)' = RefundOf(o) /\ \A detailed : Webhooks(o, detailed)' = Webhooks(o, detailed)
<1>. DEFINE o == Occurrence(j, "refunded", total)
<1>1. o' = o
  BY DEF Stable, Occurrence
<1>. HIDE DEF o
<1>2. RefundOf(o)' = RefundOf(o)
  BY <1>1 DEF RefundOf, RefundId, IdOf
<1>3. \A detailed : Webhooks(o, detailed)' = Webhooks(o, detailed)
  BY <1>1 DEF Webhooks
<1> QED
  BY <1>2, <1>3 DEF o

\* A step that returns nothing of a payment, disputes it as little, and reports nothing new.
LEMMA QuietStepsKeepReturns ==
  ASSUME FInv, Stable, proc' = proc, NEW j \in Numbers, ReturnedInv(j),
         payments'[j].returned = payments[j].returned,
         payments'[j].dispute = "none" <=> payments[j].dispute = "none",
         Telling(j, "refunded")' \subseteq Telling(j, "refunded"),
         Telling(j, "disputed")' \subseteq Telling(j, "disputed"),
         Back(j)' = Back(j)
  PROVE  ReturnedInv(j)'
<1>1. CASE payments[j].state = "progress"
  <2>1. Back(j) = {} /\ Telling(j, "refunded") = {} /\ Telling(j, "disputed") = {}
    BY <1>1, NothingToldYet
  <2>2. payments[j].dispute = "none"
    BY <1>1 DEF FInv, PaymentsOK
  <2> QED
    BY <2>1, <2>2 DEF ReturnedInv, RefundsInv
<1>2. CASE payments[j].state # "progress" /\ payments[j].dispute = "none"
  <2>1. RefundsInv(j)
    BY <1>2 DEF ReturnedInv
  <2>2. ASSUME NEW w \in Telling(j, "refunded")'
        PROVE  \E total \in 1..payments'[j].returned, detailed \in BOOLEAN :
                 w.native \in Webhooks(Occurrence(j, "refunded", total), detailed)'
    <3>1. PICK total \in 1..payments[j].returned, detailed \in BOOLEAN :
            w.native \in Webhooks(Occurrence(j, "refunded", total), detailed)
      BY <2>1, <2>2 DEF RefundsInv
    <3> QED
      BY <1>2, <3>1, RefundsStay
  <2>3. ASSUME NEW r \in Back(j)'
        PROVE  \E total \in 1..payments'[j].returned :
                 r = [pay |-> j, event |-> RefundOf(Occurrence(j, "refunded", total))']
    <3>1. PICK total \in 1..payments[j].returned :
            r = [pay |-> j, event |-> RefundOf(Occurrence(j, "refunded", total))]
      BY <2>1, <2>3 DEF RefundsInv
    <3> QED
      BY <1>2, <3>1, RefundsStay
  <2> QED
    BY <1>2, <2>1, <2>2, <2>3 DEF ReturnedInv, RefundsInv
<1>3. CASE payments[j].dispute # "none"
  BY <1>3 DEF ReturnedInv, DisputeInv
<1> QED
  BY <1>1, <1>2, <1>3

\* Steps that leave every payment as it is, and tell and report no return.
LEMMA NothingReturns ==
  ASSUME FInv, Stable, ReturnsInv, proc' = proc, reported' = reported, NEW n,
         Numbers' \subseteq Numbers \cup {n},
         n \in Numbers' \ Numbers => payments'[n].dispute = "none",
         \A j \in Numbers : /\ payments'[j].returned = payments[j].returned
                            /\ payments'[j].dispute = "none" <=> payments[j].dispute = "none",
         \A j : \A what \in {"refunded", "disputed"} : Telling(j, what)' \subseteq Telling(j, what)
  PROVE  ReturnsInv'
<1>. SUFFICES ASSUME Itemised, NEW j \in Numbers' PROVE ReturnedInv(j)'
  BY DEF ReturnsInv, Itemised
<1>1. Back(j)' = Back(j)
  BY DEF Back, Reported
<1>2. /\ Telling(j, "refunded")' \subseteq Telling(j, "refunded")
      /\ Telling(j, "disputed")' \subseteq Telling(j, "disputed")
  OBVIOUS
<1>3. CASE j \in Numbers
  BY <1>1, <1>2, <1>3, QuietStepsKeepReturns DEF ReturnsInv
<1>4. CASE j \notin Numbers
  <2>1. Back(j) = {} /\ Telling(j, "refunded") = {} /\ Telling(j, "disputed") = {}
    BY <1>4, NothingToldYet
  <2>2. payments'[j].dispute = "none"
    BY <1>4
  <2> QED
    BY <1>1, <1>2, <2>1, <2>2 DEF ReturnedInv, RefundsInv
<1> QED
  BY <1>3, <1>4

\* A payment more, the merchant's own or of an attempt.
LEMMA NewPaymentReturnsNothing ==
  ASSUME FInv, FInv', ReturnsInv, proc' = proc, reported' = reported,
         NEW p, p.dispute = "none", payments' = Append(payments, p), Tell(payments', Len(payments'))
  PROVE  ReturnsInv'
<1>. DEFINE n == Len(payments) + 1
<1>1. payments \in Seq(Payments) /\ payments' \in Seq(Payments) /\ n = Len(payments) + 1
  BY DEF FInv, PaymentsOK
<1>1a. p \in Payments
  BY <1>1
<1>. HIDE DEF n
<1>2. /\ Numbers' = Numbers \cup {n} /\ n \notin Numbers
      /\ payments'[n] = p /\ \A j \in Numbers : payments'[j] = payments[j]
  BY <1>1, <1>1a, OneMore
<1>3. Stable
  <2>1. \A j \in Numbers : j \in Numbers' /\ payments'[j] = payments[j]
    BY <1>2
  <2> QED
    BY <2>1 DEF Stable
<1>4. \A j : \A what \in {"refunded", "disputed"} : Telling(j, what)' \subseteq Telling(j, what)
  BY TellIsNoReturn
<1> QED
  BY <1>2, <1>3, <1>4, NothingReturns

\* A step that leaves the payments and what is under way alone.
LEMMA WorldKeepsReturns ==
  ASSUME FInv, ReturnsInv, UNCHANGED <<proc, payments, wire, reported>>
  PROVE  ReturnsInv'
<1>1. ASSUME NEW j
      PROVE  ReturnedInv(j)' = ReturnedInv(j)
  BY DEF ReturnedInv, RefundsInv, DisputeInv, Telling, Back, Reported, Occurrence, Webhooks, RefundOf,
     RefundId, IdOf
<1>2. Numbers' = Numbers
  BY DEF Numbers
<1> QED
  BY <1>1, <1>2 DEF ReturnsInv, Itemised

\* Money goes back: a unit more, and a webhook of it.
LEMMA RefundKeepsReturns ==
  ASSUME FInv, ReturnsInv, NEW i \in Numbers, Refund(i)
  PROVE  ReturnsInv'
<1>. SUFFICES ASSUME Itemised, NEW j \in Numbers' PROVE ReturnedInv(j)'
  BY DEF ReturnsInv, Itemised, Refund
<1>. DEFINE q == payments[i]
            p == [q EXCEPT !.returned = @ + 1]
<1>1. /\ UNCHANGED <<proc, reported>> /\ q.state = "collected" /\ q.dispute = "none"
      /\ payments' = [payments EXCEPT ![i] = p] /\ Notify(payments', i, "refunded")
      /\ q.returned < BillAmount
  BY DEF Refund
<1>2. q \in Payments /\ payments \in Seq(Payments)
  BY DEF FInv, PaymentsOK, Numbers
<1>3. /\ p \in Payments /\ p.returned = q.returned + 1 /\ p.returned > 0
      /\ p.bill = q.bill /\ p.key = q.key
      /\ p.reference = q.reference /\ p.method = q.method /\ p.state = q.state
      /\ p.reason = q.reason /\ p.dispute = q.dispute
  BY <1>1, <1>2, SMTT(30) DEF Payments, BillAmount
<1>. HIDE DEF p
<1>4. Numbers' = Numbers /\ \A k \in Numbers : payments'[k] = IF k = i THEN p ELSE payments[k]
  BY <1>1, <1>2, <1>3, OneChanged
<1>5. Stable
  BY <1>3, <1>4 DEF Stable
<1>6. \A k : Back(k)' = Back(k)
  BY <1>1 DEF Back, Reported
<1>7. \A k, other : k # i \/ other # "refunded" => Telling(k, other)' = Telling(k, other)
  BY <1>1, NotifyIsOfOne, ZenonT(60)
<1>8. CASE j # i
  BY <1>1, <1>4, <1>5, <1>6, <1>7, <1>8, QuietStepsKeepReturns DEF ReturnsInv
<1>9. CASE j = i
  <2>1. RefundsInv(i) /\ q.returned \in Nat
    BY <1>1, <1>2 DEF ReturnsInv, ReturnedInv, Payments, BillAmount
  <2>2. ASSUME NEW w \in Telling(i, "refunded")'
        PROVE  \E total \in 1..payments'[i].returned, detailed \in BOOLEAN :
                 w.native \in Webhooks(Occurrence(i, "refunded", total), detailed)'
    <3>1. CASE w \in Telling(i, "refunded")
      <4>1. PICK total \in 1..q.returned, detailed \in BOOLEAN :
              w.native \in Webhooks(Occurrence(i, "refunded", total), detailed)
        BY <2>1, <3>1 DEF RefundsInv
      <4>2. w.native \in Webhooks(Occurrence(i, "refunded", total), detailed)'
        BY <1>1, <1>5, <4>1, RefundsStay
      <4> QED
        BY <1>3, <1>4, <2>1, <4>2
    <3>2. CASE w \notin Telling(i, "refunded")
      <4>. DEFINE o == Occurrence(i, "refunded", payments[i].returned)'
      <4>1. PICK detailed \in BOOLEAN : \E n \in Webhooks(o, detailed) :
              w = [pay |-> i, what |-> "refunded", native |-> n]
        BY <1>1, <2>2, <3>2, NotifyIsOfOne
      <4>2. w.native \in Webhooks(o, detailed)
        BY <4>1
      <4>3. w.native \in Webhooks(Occurrence(i, "refunded", payments[i].returned), detailed)'
        BY <1>1, <4>2 DEF Webhooks
      <4> QED
        BY <1>3, <1>4, <2>1, <4>3
    <3> QED
      BY <3>1, <3>2
  <2>3. ASSUME NEW r \in Back(i)'
        PROVE  \E total \in 1..payments'[i].returned :
                 r = [pay |-> i, event |-> RefundOf(Occurrence(i, "refunded", total))']
    <3>1. PICK total \in 1..q.returned :
            r = [pay |-> i, event |-> RefundOf(Occurrence(i, "refunded", total))]
      BY <1>6, <2>1, <2>3 DEF RefundsInv
    <3>2. RefundOf(Occurrence(i, "refunded", total))' = RefundOf(Occurrence(i, "refunded", total))
      BY <1>1, <1>5, RefundsStay
    <3> QED
      BY <1>3, <1>4, <2>1, <3>1, <3>2
  <2>4. Telling(i, "disputed")' = {}
    BY <1>7, <2>1 DEF RefundsInv
  <2> QED
    BY <1>1, <1>3, <1>4, <1>9, <2>2, <2>3, <2>4 DEF ReturnedInv, RefundsInv
<1> QED
  BY <1>8, <1>9

\* A dispute: of a payment of which nothing went back, so that nothing is told of it yet.
LEMMA OpenDisputeKeepsReturns ==
  ASSUME FlowAssumption, FInv, ReturnsInv, NEW i \in Numbers, OpenDispute(i)
  PROVE  ReturnsInv'
<1>. SUFFICES ASSUME Itemised, NEW j \in Numbers' PROVE ReturnedInv(j)'
  BY DEF ReturnsInv, Itemised, OpenDispute
<1>. DEFINE q == payments[i]
            p == [q EXCEPT !.dispute = "open"]
<1>1. /\ UNCHANGED <<proc, reported>> /\ q.state = "collected" /\ q.dispute = "none"
      /\ payments' = [payments EXCEPT ![i] = p] /\ Notify(payments', i, "disputed")
      /\ q.returned = 0
  BY DEF OpenDispute
<1>2. q \in Payments /\ payments \in Seq(Payments)
  BY DEF FInv, PaymentsOK, Numbers
<1>3. /\ p \in Payments /\ p.returned = 0 /\ p.bill = q.bill /\ p.key = q.key
      /\ p.reference = q.reference /\ p.method = q.method /\ p.state = q.state
      /\ p.reason = q.reason /\ p.dispute = "open"
  BY <1>1, <1>2 DEF Payments
<1>. HIDE DEF p
<1>4. Numbers' = Numbers /\ \A k \in Numbers : payments'[k] = IF k = i THEN p ELSE payments[k]
  BY <1>1, <1>2, <1>3, OneChanged
<1>5. Stable
  BY <1>1, <1>3, <1>4 DEF Stable
<1>6. \A k : Back(k)' = Back(k)
  BY <1>1 DEF Back, Reported
<1>7. \A k, other : k # i \/ other # "disputed" => Telling(k, other)' = Telling(k, other)
  BY <1>1, NotifyIsOfOne, ZenonT(60)
<1>8. CASE j # i
  BY <1>1, <1>4, <1>5, <1>6, <1>7, <1>8, QuietStepsKeepReturns DEF ReturnsInv
<1>9. CASE j = i
  <2>1. Telling(i, "refunded") = {} /\ Telling(i, "disputed") = {} /\ Back(i) = {}
    BY <1>1 DEF ReturnsInv, ReturnedInv, RefundsInv
  <2>. DEFINE o == Occurrence(i, "disputed", payments[i].returned)'
  <2>2. PICK detailed \in BOOLEAN : \A w \in Telling(i, "disputed")' :
          w \in Telling(i, "disputed")
            \/ \E n \in Webhooks(o, detailed) : w = [pay |-> i, what |-> "disputed", native |-> n]
    BY <1>1, NotifyIsOfOne
  <2>3. Occurs(o)
    <3>1. Happened(i, "paid", 0)
      BY <1>1 DEF Happened, BillAmount, Whats
    <3>2. Occurs(Occurrence(i, "paid", 0)) /\ Occurrence(i, "paid", 0).reference = q.reference
      BY <3>1, NamesOfPayments DEF FInv, Occurrence
    <3>3. o.what = "disputed" /\ o.reference = q.reference /\ o.total = 0
      BY <1>3, <1>4 DEF Occurrence
    <3> QED
      BY <1>1, <3>2, <3>3 DEF Occurs, Whats
  <2>. HIDE DEF o
  <2>4. \A m, n \in Webhooks(o, detailed) : m = n
    <3>1. TRUE \in BOOLEAN
      OBVIOUS
    <3>2. ASSUME NEW n \in Webhooks(o, detailed)
          PROVE  Webhooks(o, detailed) \subseteq {n}
      BY <2>3, <3>1, ReturnsAreTold
    <3> QED
      BY <3>2
  <2>5. \A w, x \in Telling(i, "disputed")' : w = x
    BY <2>1, <2>2, <2>4
  <2>6. Telling(i, "refunded")' = {} /\ Back(i)' = {}
    BY <1>6, <1>7, <2>1
  <2> QED
    BY <1>3, <1>4, <1>9, <2>5, <2>6 DEF ReturnedInv, DisputeInv
<1> QED
  BY <1>8, <1>9

\* A payment settles, or its dispute is won or lost.
LEMMA SettleKeepsReturns ==
  ASSUME FInv, ReturnsInv, NEW i \in Numbers, Settle(i) \/ WinDispute(i) \/ LoseDispute(i)
  PROVE  ReturnsInv'
<1>. DEFINE q == payments[i]
<1>0. UNCHANGED <<proc, reported>>
  BY DEF Settle, WinDispute, LoseDispute
<1>1. q \in Payments /\ payments \in Seq(Payments)
  BY DEF FInv, PaymentsOK, Numbers
<1>2. \E p \in Payments : /\ payments' = [payments EXCEPT ![i] = p]
                          /\ p.bill = q.bill /\ p.key = q.key /\ p.reference = q.reference
                          /\ p.method = q.method /\ p.returned = q.returned
                          /\ p.dispute = "none" <=> q.dispute = "none"
                          /\ q.dispute = "won" => p.dispute = "won"
                          /\ q.state # "progress" => p.state = q.state /\ p.reason = q.reason
  <2>1. CASE Settle(i)
    <3>1. PICK state \in {"collected", "declined"}, reason \in Reasons \cup {"-"} :
            payments' = [payments EXCEPT ![i] = [q EXCEPT !.state = state, !.reason = reason]]
      BY <2>1 DEF Settle, ReasonsOf, Reasons
    <3>. DEFINE p == [q EXCEPT !.state = state, !.reason = reason]
    <3>2. /\ p \in Payments /\ p.bill = q.bill /\ p.key = q.key /\ p.reference = q.reference
          /\ p.method = q.method /\ p.returned = q.returned /\ p.dispute = q.dispute
      BY <1>1 DEF Payments, States
    <3> QED
      BY <2>1, <3>1, <3>2 DEF Settle
  <2>2. CASE WinDispute(i)
    <3>. DEFINE p == [q EXCEPT !.dispute = "won"]
    <3>1. /\ p \in Payments /\ p.bill = q.bill /\ p.key = q.key /\ p.reference = q.reference
          /\ p.method = q.method /\ p.returned = q.returned /\ p.dispute = "won"
          /\ p.state = q.state /\ p.reason = q.reason
      BY <1>1 DEF Payments
    <3> QED
      BY <2>2, <3>1 DEF WinDispute
  <2>3. CASE LoseDispute(i)
    <3>. DEFINE p == [q EXCEPT !.dispute = "lost"]
    <3>1. /\ p \in Payments /\ p.bill = q.bill /\ p.key = q.key /\ p.reference = q.reference
          /\ p.method = q.method /\ p.returned = q.returned /\ p.dispute = "lost"
          /\ p.state = q.state /\ p.reason = q.reason
      BY <1>1 DEF Payments
    <3> QED
      BY <2>3, <3>1 DEF LoseDispute
  <2> QED
    BY <2>1, <2>2, <2>3
<1>3. PICK p \in Payments : /\ payments' = [payments EXCEPT ![i] = p]
                            /\ p.bill = q.bill /\ p.key = q.key /\ p.reference = q.reference
                            /\ p.method = q.method /\ p.returned = q.returned
                            /\ p.dispute = "none" <=> q.dispute = "none"
                            /\ q.dispute = "won" => p.dispute = "won"
                            /\ q.state # "progress" => p.state = q.state /\ p.reason = q.reason
  BY <1>2
<1>4. Numbers' = Numbers /\ \A k \in Numbers : payments'[k] = IF k = i THEN p ELSE payments[k]
  BY <1>1, <1>3, OneChanged
<1>5. Stable
  BY <1>3, <1>4 DEF Stable
<1>6. \A j : \A what \in {"refunded", "disputed"} : Telling(j, what)' \subseteq Telling(j, what)
  <2>1. CASE Settle(i)
    <3>1. Tell(payments', i)
      BY <2>1 DEF Settle
    <3> QED
      BY <3>1, TellIsNoReturn
  <2>2. CASE WinDispute(i)
    <3>1. Notify(payments', i, "won")
      BY <2>2 DEF WinDispute
    <3> QED
      BY <3>1, NotifyIsOfOne
  <2>3. CASE LoseDispute(i)
    <3>1. Notify(payments', i, "lost")
      BY <2>3 DEF LoseDispute
    <3> QED
      BY <3>1, NotifyIsOfOne
  <2> QED
    BY <2>1, <2>2, <2>3
<1> QED
  BY <1>0, <1>3, <1>4, <1>5, <1>6, NothingReturns

\* No more goes back of a payment than the bill.
LEMMA ReturnedIsBounded ==
  ASSUME FInv, NEW i \in Numbers
  PROVE  payments[i].returned \in 0..BillAmount
<1>1. payments[i] \in Payments
  BY DEF FInv, PaymentsOK, Numbers
<1> QED
  BY <1>1 DEF Payments

\* What is delivered of a refund is its unit, of a dispute the bill, of the rest nothing.
LEMMA DeliverKeepsReturns ==
  ASSUME FlowAssumption, FInv, ReturnsInv, NEW w \in wire, NEW lookup \in Lookups, Deliver(w, lookup)
  PROVE  ReturnsInv'
<1>. SUFFICES ASSUME Itemised, NEW j \in Numbers PROVE ReturnedInv(j)'
  BY DEF ReturnsInv, Itemised, Deliver, Numbers
<1>. DEFINE i == w.pay
            events == Ingest(w.native, lookup)
            back == {e \in events : e.type = "payment.reversed"}
            new == {[pay |-> i, event |-> e] : e \in back}
<1>1. /\ UNCHANGED <<proc, payments>> /\ wire' = wire \ {w}
      /\ reported' = reported \cup {[pay |-> i, event |-> e] : e \in events}
  BY DEF Deliver
<1>2. Stable
  BY <1>1 DEF Stable, Numbers
<1>3. \A k : Back(k)' = Back(k) \cup (IF k = i THEN new ELSE {})
  BY <1>1 DEF Back, Reported
<1>4. \A k, what : Telling(k, what)' = Telling(k, what) \ {w}
  BY <1>1 DEF Telling
<1>5. PICK total \in 0..BillAmount, detailed \in BOOLEAN :
        Happened(i, w.what, total) /\ w.native \in Webhooks(Occurrence(i, w.what, total), detailed)
  BY DEF FInv, WireInv
<1>5a. lookup \in BOOLEAN
  BY DEF Lookups
<1>6. \A t : \A d \in BOOLEAN :
        Happened(i, w.what, t) /\ w.native \in Webhooks(Occurrence(i, w.what, t), d)
          => Reverses(Occurrence(i, w.what, t), events)
  BY <1>5a, NamesOfPayments, ReturnsAreTold DEF FInv
<1>7. ReturnedInv(j)
  BY DEF ReturnsInv
<1>8. /\ Telling(j, "refunded")' \subseteq Telling(j, "refunded")
      /\ Telling(j, "disputed")' \subseteq Telling(j, "disputed")
  BY <1>4
<1>. HIDE DEF events, back
<1>9. CASE j # i \/ w.what \notin {"refunded", "disputed"}
  <2>1. w.what \notin {"refunded", "disputed"} => back = {}
    BY <1>5, <1>6 DEF Reverses, Occurrence, back
  <2>2. Back(j)' = Back(j)
    BY <1>3, <1>9, <2>1
  <2> QED
    BY <1>1, <1>2, <1>7, <1>8, <2>2, QuietStepsKeepReturns
<1>10. CASE j = i /\ w.what = "refunded"
  <2>1. w \in Telling(i, "refunded")
    BY <1>10 DEF Telling
  <2>2. payments[i].dispute = "none" /\ RefundsInv(i)
    BY <1>7, <1>10, <2>1 DEF ReturnedInv, DisputeInv
  <2>3. PICK t \in 1..payments[i].returned, d \in BOOLEAN :
          w.native \in Webhooks(Occurrence(i, "refunded", t), d)
    BY <2>1, <2>2 DEF RefundsInv
  <2>4. Happened(i, w.what, t)
    <3>1. payments[i].returned \in 0..BillAmount
      BY <1>10, ReturnedIsBounded
    <3> QED
      BY <1>5, <1>10, <2>3, <3>1 DEF Happened, BillAmount
  <2>5. back \subseteq {RefundOf(Occurrence(i, "refunded", t))}
    BY <1>6, <1>10, <2>3, <2>4 DEF Reverses, Occurrence, back
  <2>6. \A r \in Back(i)' : \E u \in 1..payments[i].returned :
          r = [pay |-> i, event |-> RefundOf(Occurrence(i, "refunded", u))]
    BY <1>3, <2>2, <2>3, <2>5 DEF RefundsInv
  <2>7. payments[i].state # "progress"
    BY <1>5, <1>10 DEF Happened
  <2>8. ASSUME NEW r \in Back(i)'
        PROVE  \E u \in 1..payments'[i].returned :
                 r = [pay |-> i, event |-> RefundOf(Occurrence(i, "refunded", u))']
    BY <1>1, <1>2, <1>10, <2>6, <2>7, RefundsStay
  <2>9. ASSUME NEW x \in Telling(i, "refunded")'
        PROVE  \E u \in 1..payments'[i].returned, e \in BOOLEAN :
                 x.native \in Webhooks(Occurrence(i, "refunded", u), e)'
    <3>1. PICK u \in 1..payments[i].returned, e \in BOOLEAN :
            x.native \in Webhooks(Occurrence(i, "refunded", u), e)
      BY <1>8, <1>10, <2>2, <2>9 DEF RefundsInv
    <3> QED
      BY <1>1, <1>2, <1>10, <2>7, <3>1, RefundsStay
  <2> QED
    BY <1>1, <1>8, <1>10, <2>2, <2>8, <2>9 DEF ReturnedInv, RefundsInv
<1>11. CASE j = i /\ w.what = "disputed"
  <2>1. w \in Telling(i, "disputed")
    BY <1>11 DEF Telling
  <2>2. payments[i].dispute # "none" /\ DisputeInv(i)
    BY <1>7, <1>11, <2>1 DEF ReturnedInv, RefundsInv
  <2>3. Telling(i, "disputed")' = {} /\ Back(i) = {}
    BY <1>4, <2>1, <2>2 DEF DisputeInv
  <2>4. \A e, f \in back : e = f /\ e.amount = BillAmount
    BY <1>5, <1>6, <1>11 DEF Reverses, Occurrence, back
  <2>5. \A r \in Back(i)' : \E e \in back : r = [pay |-> i, event |-> e]
    BY <1>3, <2>3
  <2>6. \A r, s \in Back(i)' : r = s /\ r.event.amount = BillAmount
    BY <2>4, <2>5
  <2> QED
    BY <1>1, <1>8, <1>11, <2>2, <2>3, <2>6 DEF ReturnedInv, DisputeInv
<1> QED
  BY <1>9, <1>10, <1>11

\* A charge: a payment that is new, or nothing of the processor's.
LEMMA ChargeKeepsReturns ==
  ASSUME FInv, FInv', ReturnsInv, NEW v \in DOMAIN cases, Charge(v)
  PROVE  ReturnsInv'
<1>. DEFINE request == RequestFor(v, cases[v].method, KeyOf(v))
<1>1. UNCHANGED <<proc, reported>>
  BY DEF Charge
<1>2. CASE ChargeAgain(v, request) \/ ChargeDuplicate(v, request) \/ ChargeRefused(v, request)
  <2>1. UNCHANGED <<payments, wire>>
    BY <1>2 DEF ChargeAgain, ChargeDuplicate, ChargeRefused, world
  <2> QED
    BY <1>1, <2>1, WorldKeepsReturns
<1>3. CASE ChargeAnew(v, request)
  <2>1. PICK state, reason :
          /\ payments' = Append(payments,
               NewPayment(cases[v].bill, KeyOf(v), request.reference,
                          IF request.method = Default THEN <<"card">> ELSE request.method,
                          state, reason))
          /\ Tell(payments', Len(payments'))
    BY <1>3 DEF ChargeAnew
  <2>2. \A key, reference, method : NewPayment(cases[v].bill, key, reference, method, state, reason).dispute = "none"
    BY DEF NewPayment
  <2> QED
    BY <1>1, <2>1, <2>2, NewPaymentReturnsNothing
<1> QED
  BY <1>2, <1>3 DEF Charge

\* Nothing has been collected, and so nothing returned.
LEMMA InitImpliesReturns == Init => ReturnsInv
BY DEF Init, ReturnsInv, Numbers

\* Every action.
LEMMA NextKeepsReturns == FlowAssumption /\ FInv /\ FInv' /\ ReturnsInv /\ [Next]_vars => ReturnsInv'
<1>. SUFFICES ASSUME FlowAssumption, FInv, FInv', ReturnsInv, [Next]_vars PROVE ReturnsInv'
  OBVIOUS
<1>1. ASSUME NEW b \in Bills, OwnPayment(b) PROVE ReturnsInv'
  <2>1. PICK state, reason :
          /\ payments' = Append(payments, NewPayment(b, None, <<"invoice", b>>, <<"card">>, state, reason))
          /\ Tell(payments', Len(payments'))
    BY <1>1 DEF OwnPayment
  <2>2. NewPayment(b, None, <<"invoice", b>>, <<"card">>, state, reason).dispute = "none"
    BY DEF NewPayment
  <2>3. UNCHANGED <<proc, reported>>
    BY <1>1 DEF OwnPayment
  <2> QED
    BY <2>1, <2>2, <2>3, NewPaymentReturnsNothing
<1>2. CASE \E i \in Numbers : Settle(i) \/ WinDispute(i) \/ LoseDispute(i)
  BY <1>2, SettleKeepsReturns
<1>3. CASE \E i \in Numbers : Refund(i)
  BY <1>3, RefundKeepsReturns
<1>4. CASE \E i \in Numbers : OpenDispute(i)
  BY <1>4, OpenDisputeKeepsReturns
<1>5. CASE \E w \in wire, lookup \in Lookups : Deliver(w, lookup)
  BY <1>5, DeliverKeepsReturns
<1>6. CASE \E v \in DOMAIN cases : Charge(v)
  BY <1>6, ChargeKeepsReturns
<1>7. CASE \/ \E i \in Numbers : FeedFailure(i)
           \/ \E v \in DOMAIN cases : StartAttempt(v) \/ ChargeThrows(v)
           \/ UNCHANGED vars
  <2>1. UNCHANGED <<proc, payments, wire, reported>>
    BY <1>7 DEF FeedFailure, StartAttempt, ChargeThrows, world, vars
  <2> QED
    BY <2>1, WorldKeepsReturns
<1> QED
  BY <1>1, <1>2, <1>3, <1>4, <1>5, <1>6, <1>7 DEF Next

\* A set that is named by the numbers up to n has no more than n elements.
LEMMA NamedByNumbers ==
  ASSUME NEW n \in Nat, NEW f, DOMAIN f = 1..n, NEW S, \A s \in S : \E t \in 1..n : s = f[t]
  PROVE  IsFiniteSet(S) /\ Cardinality(S) \in Nat /\ Cardinality(S) <= n
<1>. DEFINE N == {t \in 1..n : f[t] \in S}
            g == [t \in N |-> f[t]]
<1>1. IsFiniteSet(1..n) /\ Cardinality(1..n) = n
  BY FS_Interval
<1>2. IsFiniteSet(N) /\ Cardinality(N) <= n
  BY <1>1, FS_Subset
<1>3. g \in Surjection(N, S)
  BY DEF Surjection
<1>4. IsFiniteSet(S) /\ Cardinality(S) <= Cardinality(N)
  BY <1>2, <1>3, FS_Surjection
<1> QED
  BY <1>2, <1>4, FS_CardinalityType

\* The units of a payment that are reported as reversed: those of one event of the bill, or one
\* of each refund.
LEMMA ReturnsBoundReversals ==
  ASSUME FInv, Itemised, NEW i \in Numbers, ReturnedInv(i)
  PROVE  Cardinality(ReversedUnits(i))
           <= payments[i].returned + (IF payments[i].dispute = "none" THEN 0 ELSE BillAmount)
<1>1. payments[i].returned \in 0..BillAmount
  BY ReturnedIsBounded
<1>2. \A u \in ReversedUnits(i) : \E r \in Back(i) : \E t \in 1..r.event.amount : u = <<r, t>>
  BY DEF ReversedUnits, Back
<1>3. CASE payments[i].dispute = "none"
  <2>. DEFINE n == payments[i].returned
              f == [t \in 1..n |-> <<[pay |-> i, event |-> RefundOf(Occurrence(i, "refunded", t))], 1>>]
  <2>1. RefundsInv(i) /\ n \in Nat
    BY <1>1, <1>3 DEF ReturnedInv, BillAmount
  <2>2. \A o : RefundOf(o).amount = 1
    BY DEF RefundOf, Refunded, CanonicalEvent
  <2>3. \A u \in ReversedUnits(i) : \E t \in 1..n : u = f[t]
    <3>. SUFFICES ASSUME NEW u \in ReversedUnits(i) PROVE \E t \in 1..n : u = f[t]
      OBVIOUS
    <3>1. PICK r \in Back(i) : \E t \in 1..r.event.amount : u = <<r, t>>
      BY <1>2
    <3>2. PICK t \in 1..n : r = [pay |-> i, event |-> RefundOf(Occurrence(i, "refunded", t))]
      BY <2>1, <3>1 DEF RefundsInv
    <3>3. r.event.amount = 1
      BY <2>2, <3>2
    <3>4. u = <<r, 1>>
      BY <3>1, <3>3
    <3> QED
      BY <3>2, <3>4
  <2>4. DOMAIN f = 1..n
    OBVIOUS
  <2>. HIDE DEF f
  <2>5. Cardinality(ReversedUnits(i)) <= n
    BY <2>1, <2>3, <2>4, NamedByNumbers
  <2>6. Cardinality(ReversedUnits(i)) \in Nat
    BY <2>1, <2>3, <2>4, NamedByNumbers
  <2> QED
    BY <1>3, <2>1, <2>5, <2>6
<1>4. CASE payments[i].dispute # "none"
  <2>1. payments[i].returned = 0 /\ \A r, s \in Back(i) : r = s /\ r.event.amount = BillAmount
    BY <1>4 DEF ReturnedInv, DisputeInv
  <2>. DEFINE event == CHOOSE r : r \in Back(i)
              f == [t \in 1..BillAmount |-> <<event, t>>]
  <2>2. \A u \in ReversedUnits(i) : \E t \in 1..BillAmount : u = f[t]
    BY <1>2, <2>1
  <2>3. DOMAIN f = 1..BillAmount /\ BillAmount \in Nat
    BY DEF BillAmount
  <2>. HIDE DEF f
  <2>4. Cardinality(ReversedUnits(i)) <= BillAmount
    BY <2>2, <2>3, NamedByNumbers
  <2> QED
    BY <1>4, <2>1, <2>3, <2>4
<1> QED
  BY <1>3, <1>4

\* What is under way and what was reported of a payment's returns is what went back of it, in
\* every state (Refund, OpenDispute, ingestWebhook).
THEOREM ReturnsInvariantHolds == Spec => []ReturnsInv
<1>1. FlowAssumption /\ FInv /\ FInv' /\ ReturnsInv /\ [Next]_vars => ReturnsInv'
  BY NextKeepsReturns
<1> QED
  BY <1>1, FlowAssumption, FlowInvariantHolds, InitImpliesReturns, PTL DEF Spec

\* The reversals reported of a payment add up to no more than went back of it or is disputed,
\* whatever the order its webhooks are delivered in (ingestWebhook of every adapter but four).
THEOREM ReversalsAreReturned == Spec => []ReversedIsReturned
<1>1. FInv /\ ReturnsInv => ReversedIsReturned
  <2>. SUFFICES ASSUME FInv, ReturnsInv, Itemised, NEW i \in Numbers
       PROVE  Cardinality(ReversedUnits(i))
                <= payments[i].returned + (IF payments[i].dispute = "none" THEN 0 ELSE BillAmount)
    BY DEF ReversedIsReturned, Itemised
  <2> QED
    BY ReturnsBoundReversals DEF ReturnsInv
<1> QED
  BY <1>1, FlowInvariantHolds, ReturnsInvariantHolds, PTL
=============================================================================

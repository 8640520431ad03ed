------------------------------ MODULE Notices ------------------------------
(***************************************************************************)
(* AX10M's own invoices: issued by the monthly job to merchants that have  *)
(* opted in, and dunned, from the first notice to the final one, by sweeps *)
(* over the stored invoices, while dunning messages to customers use the   *)
(* same table.                                                             *)
(*                                                                         *)
(* Dates are days.  A sweep takes its date and its invoices once, at its   *)
(* start, and delivers one notice after the other.                         *)
(***************************************************************************)
EXTENDS Dunning

CONSTANTS
  Periods,    \* the months billed
  Days,       \* the days on which something runs
  Deployments, \* what is sent for real (liveComms, AX10M_LIVE_BILLING), the customer and the
              \* template, and a bound on how often the merchant opts in
  Amounts,    \* what an invoice may be about, in minor units
  Reissues    \* bound: how often the job runs again for a month

ASSUME NoticesAssumption ==
  /\ Deployments \subseteq
       [live : SUBSET Keys, customer : Customers, template : Templates, optIns : Nat]
  /\ Days \subseteq Nat /\ 0 \in Days
  /\ Amounts \subseteq Nat \ {0} /\ Reissues \in Nat

Tracks == {"invoice", "auto_pay"}
Stages == {"issued", "due_soon", "due_today", "overdue_1", "overdue_2", "final_notice"}
Notice == Periods \X Stages
PaymentTermsDays == 14

ASSUME KeysAssumption ==
  /\ Reminders \subseteq Keys /\ Notice \subseteq Keys
  /\ Reminders \intersect Notice = {}

VARIABLES
  serial,     \* do runs of the jobs never overlap; fixed at the start
  day,        \* now
  account,    \* the merchant's, in a set
  signing,    \* the opt-ins that have stored their account, but not, or never, the acceptance
  accepted,   \* the tracks of the signed acceptances
  optIns,     \* how often the merchant will still opt in
  invoices,   \* per period: the stored invoice, in a set
  reissued,   \* how often a period was billed again
  charged,    \* per period: the track under which its fee was collected, in a set
  work,       \* per process: the invoices its sweep has still to do, each as of its date
  says,       \* per process: the total that the notice in hand states
  told        \* external: per period, the rank and the total of the last notice

portalVars == <<account, signing, accepted, optIns>>
invoiceVars == <<invoices, reissued, charged>>
sweepVars == <<work, says, told>>
noticesVars == <<serial, day, portalVars, invoiceVars, sweepVars>>
vars == <<deliveryVars, dunningVars, noticesVars>>

Accounts == [track : Tracks, customerRef : BOOLEAN]
Docs == [period : Periods, issued : Days, subtotal : Amounts]

Init ==
  /\ DeliveryInit
  /\ \E d \in Deployments :
       /\ live = d.live /\ optIns = d.optIns
       /\ customer = d.customer /\ template = d.template
  /\ serial \in BOOLEAN /\ day = 0
  /\ account = {} /\ signing = {} /\ accepted = {}
  /\ invoices = [n \in Periods |-> {}] /\ reissued = 0
  /\ charged = [n \in Periods |-> {}]
  /\ work = [p \in Procs |-> {}]
  /\ says = [p \in Procs |-> 0]
  /\ told = [n \in Periods |-> [rank |-> 0, total |-> 0]]

-----------------------------------------------------------------------------
(* Opting in: the portal.                                                  *)

\* validateOptIn, beyond formats: a track; and for auto-pay a payment method and an
\* authorization, but no customer of Stripe's that could be charged.
ValidOptIns == {a \in Accounts : a.customerRef => a.track = "auto_pay"}

\* The account is stored: from now on the merchant is invoiced, or charged.
UpsertAccount(a) ==
  /\ a \in ValidOptIns \ signing /\ optIns > 0
  /\ account' = {a} /\ signing' = signing \union {a} /\ optIns' = optIns - 1
  /\ UNCHANGED <<deliveryVars, dunningVars, serial, day, accepted, invoiceVars,
                 sweepVars>>

\* The acceptance that backs it is stored, unless the request died before.
RecordAcceptance(a) ==
  /\ a \in signing /\ signing' = signing \ {a}
  /\ accepted' = accepted \union {a.track}
  /\ UNCHANGED <<deliveryVars, dunningVars, serial, day, account, optIns, invoiceVars,
                 sweepVars>>

-----------------------------------------------------------------------------
(* What an invoice comes to, and which notice it is due.                   *)

Due(doc) == doc.issued + PaymentTermsDays

Rank == [s \in Stages |->
  CASE s = "issued" -> 1 [] s = "due_soon" -> 2 [] s = "due_today" -> 3
    [] s = "overdue_1" -> 4 [] s = "overdue_2" -> 5 [] OTHER -> 6]
DaysFromDue == [s \in Stages |->
  CASE s = "issued" -> 0 - PaymentTermsDays [] s = "due_soon" -> -3 [] s = "due_today" -> 0
    [] s = "overdue_1" -> 3 [] s = "overdue_2" -> 10 [] OTHER -> 21]

\* invoiceDunningStage: the most advanced of the stages whose day has come.
InvoiceDunningStage(doc, at) ==
  LET due == {s \in Stages : at >= Due(doc) + DaysFromDue[s]} IN
  {s \in due : \A r \in due : Rank[r] <= Rank[s]}

\* The bug of a charge that starts again with every term.
FinanceChargeOfTerm(doc, at) ==
  IF at <= Due(doc) THEN 0
  ELSE (doc.subtotal * ((at - Due(doc)) % PaymentTermsDays) * 15 + 15000) \div 30000

\* computeFinanceChargeMinor: 1.5% of the subtotal for 30 days, pro rata and rounded.
FinanceCharge(doc, at) ==
  IF at <= Due(doc) THEN 0 ELSE (doc.subtotal * (at - Due(doc)) * 15 + 15000) \div 30000

\* invoiceAsOf.
Total(doc, at) == doc.subtotal + FinanceCharge(doc, at)

-----------------------------------------------------------------------------
(* The jobs.                                                               *)

Idle(p) == pc[p] = "free" /\ work[p] = {}
MayStart(p) == Idle(p) /\ (serial => \A q \in Procs : Idle(q))

\* The bug of a charger that does not ask for the track.
ChargeableAnyTrack(a) == TRUE

\* StripeBillingCharger.charge asks the account, not the acceptances.
Chargeable(a) == a.track = "auto_pay" /\ a.customerRef

OpenNotice(p, doc, s, at) ==
  /\ Open(p, <<doc.period, s>>, TRUE)
  /\ says' = [says EXCEPT ![p] = Total(doc, at)]

\* The monthly job, for a merchant with an account: it charges what it can, issues the
\* invoice in place of the period's earlier one, charged or not, and sends the first
\* notice.
BillPeriod(p, n) ==
  /\ MayStart(p)
  /\ invoices[n] # {} => reissued < Reissues
  /\ reissued' = IF invoices[n] = {} THEN reissued ELSE reissued + 1
  /\ \E a \in account, amount \in Amounts :
       LET doc == [period |-> n, issued |-> day, subtotal |-> amount] IN
       /\ \/ /\ Notice \subseteq live /\ Chargeable(a)
             /\ charged' = [charged EXCEPT ![n] = @ \union {a.track}]
          \/ UNCHANGED charged
       /\ invoices' = [invoices EXCEPT ![n] = {doc}]
       /\ OpenNotice(p, doc, "issued", day)
  /\ UNCHANGED <<dunningVars, serial, day, portalVars, work, told>>

\* A sweep (the daily job, or a request) over all invoices, or over one (a request).
StartSweep(p) ==
  /\ MayStart(p)
  /\ \E ns \in {Periods} \union {{n} : n \in Periods} :
       LET docs == UNION {invoices[n] : n \in ns} IN
       /\ docs # {}
       /\ work' = [work EXCEPT ![p] = {[doc |-> d, at |-> day] : d \in docs}]
  /\ UNCHANGED <<deliveryVars, dunningVars, serial, day, portalVars, invoiceVars, says, told>>

\* deliverDue, for the sweep's next invoice.
SweepNext(p) ==
  /\ \E w \in work[p], s \in Stages :
       /\ s \in InvoiceDunningStage(w.doc, w.at)
       /\ OpenNotice(p, w.doc, s, w.at)
       /\ work' = [work EXCEPT ![p] = @ \ {w}]
  /\ UNCHANGED <<dunningVars, serial, day, portalVars, invoiceVars, told>>

\* A try of a saga's activity.
DunCustomer(p) ==
  /\ Idle(p)
  /\ \E k \in Reminders : Dun(p, k)
  /\ UNCHANGED noticesVars

\* The merchant reads the notice, if one arrives; when the delivery ends, its text is gone.
Tell(p) ==
  /\ told' = [n \in Periods |->
       IF \E s \in Stages : Delivering(p, <<n, s>>) /\ inbox' # inbox
       THEN LET s == CHOOSE s \in Stages : Delivering(p, <<n, s>>) IN
            [rank |-> Rank[s], total |-> says[p]]
       ELSE told[n]]
  /\ says' = IF pc'[p] = "free" THEN [says EXCEPT ![p] = 0] ELSE says

DeliverStep(p) ==
  /\ Deliver(p) /\ Tell(p)
  /\ UNCHANGED <<dunningVars, serial, day, portalVars, invoiceVars, work>>

\* The process dies, or the store fails it: the rest of its sweep is lost.
ProcDies(p) ==
  /\ \/ \E k \in Keys : Dies(p, k)
     \/ pc[p] = "free" /\ work[p] # {} /\ UNCHANGED deliveryVars
  /\ Tell(p)
  /\ work' = [work EXCEPT ![p] = {}]
  /\ UNCHANGED <<dunningVars, serial, day, portalVars, invoiceVars>>

Tick ==
  /\ day' \in {d \in Days : d > day}
  /\ UNCHANGED <<deliveryVars, dunningVars, serial, portalVars, invoiceVars, sweepVars>>

Runs(p) == DeliverStep(p) \/ SweepNext(p)

Next ==
  \/ Tick
  \/ \E a \in Accounts : UpsertAccount(a) \/ RecordAcceptance(a)
  \/ \E p \in Procs :
       \/ \E n \in Periods : BillPeriod(p, n)
       \/ StartSweep(p) \/ DunCustomer(p) \/ Runs(p) \/ ProcDies(p)

Spec == Init /\ [][Next]_vars

-----------------------------------------------------------------------------
NoticesTypeOK ==
  /\ DeliveryTypeOK
  /\ customer \in Customers /\ template \in Texts
  /\ serial \in BOOLEAN /\ day \in Days
  /\ account \subseteq ValidOptIns /\ signing \subseteq ValidOptIns
  /\ accepted \subseteq Tracks /\ optIns \in Nat
  /\ invoices \in [Periods -> SUBSET Docs] /\ reissued \in 0..Reissues
  /\ charged \in [Periods -> SUBSET Tracks]
  /\ work \in [Procs -> SUBSET [doc : Docs, at : Days]]
  /\ says \in [Procs -> Nat]
  /\ told \in [Periods -> [rank : 0..6, total : Nat]]

\* A fee is collected only from a merchant that signed for auto-pay, or whose opt-in is
\* between its two awaits, where it may have died (optIn, StripeBillingCharger.charge).
ChargedIsAgreed ==
  \A n \in Periods : charged[n] \subseteq {"auto_pay"} \intersect
    (accepted \union {a.track : a \in signing})

\* What a merchant is told of an invoice that was not issued anew only gets worse: no
\* notice follows a later stage's, or states less than the one before, whatever dies, is
\* retried or arrives after its run gave up, as long as runs of the jobs do not overlap.
NoticesEscalate ==
  [][\A n \in Periods :
       serial /\ reissued' = 0 =>
         /\ told'[n].rank >= told[n].rank
         /\ told'[n].total >= told[n].total]_vars
=============================================================================

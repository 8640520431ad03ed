--------------------------- MODULE DeliveryProofs ---------------------------
(***************************************************************************)
(* Messages are sent once, or again for cause, to those who may be sent    *)
(* them: proved for every number of processes, messages and periods.       *)
(*                                                                         *)
(* SentOnceOrForCause is not inductive.  What makes it so is what is known *)
(* of a message that is not excused: at most one process is past the       *)
(* question whether it was sent; while that process is sending, no copy    *)
(* has arrived; and once a copy has, it is recorded or about to be.        *)
(*                                                                         *)
(* NoticesEscalate is about what a sweep read and delivers later.  Stage   *)
(* and total are due by a date, and what is due stays due; jobs that do    *)
(* not overlap are in turn: what was told last was due by the date of      *)
(* whatever is still to be told.                                           *)
(***************************************************************************)
EXTENDS Notices, TLAPS

Holds(p, k) == Delivering(p, k) /\ pc[p] \in {"send", "record"}

OneMessageEach ==
  \A p \in Procs, k, l \in Keys : Delivering(p, k) /\ Delivering(p, l) => k = l

RecordsWhatArrived ==
  \A p \in Procs, k \in Keys : Delivering(p, k) /\ pc[p] = "record" => inbox[k] > 0

\* Of a message that is not excused.
Careful(k) ==
  /\ \A p, q \in Procs : Holds(p, k) /\ Holds(q, k) => p = q
  /\ k \in store => \A p \in Procs : ~Holds(p, k)
  /\ \A p \in Procs : Delivering(p, k) /\ pc[p] = "send" => inbox[k] = 0
  /\ inbox[k] > 0 => k \in store \/ \E p \in Procs : Delivering(p, k) /\ pc[p] = "record"

DeliveryInv ==
  /\ DeliveryTypeOK
  /\ OneMessageEach
  /\ RecordsWhatArrived
  /\ SentOnceOrForCause
  /\ \A k \in Keys : k \in excused \/ Careful(k)

LEMMA InitInv == DeliveryInit /\ live \subseteq Keys => DeliveryInv
BY DeliveryAssumption
   DEF DeliveryInit, DeliveryInv, DeliveryTypeOK, OneMessageEach, RecordsWhatArrived,
       SentOnceOrForCause, Careful, Holds, Delivering

\* The definitions a step of one process is judged by.
USE DEF Delivering, Holds

LEMMA CloseType ==
  ASSUME DeliveryTypeOK, NEW p \in Procs, Close(p)
  PROVE  /\ pc' \in [Procs -> {"free", "has", "send", "record"}]
         /\ key' \in [Procs -> SUBSET Keys]
         /\ sendable' \in [Procs -> BOOLEAN]
         /\ try' \in [Procs -> 0..MaxTries]
BY DeliveryAssumption DEF DeliveryTypeOK, Close

LEMMA OpenInv ==
  ASSUME DeliveryInv, NEW p \in Procs, NEW k \in Keys, NEW s \in BOOLEAN, Open(p, k, s)
  PROVE  DeliveryInv'
<1>1. DeliveryTypeOK'
  BY DeliveryAssumption DEF DeliveryInv, DeliveryTypeOK, Open
<1>2. OneMessageEach' /\ RecordsWhatArrived' /\ SentOnceOrForCause'
  BY DEF DeliveryInv, DeliveryTypeOK, OneMessageEach, RecordsWhatArrived,
         SentOnceOrForCause, Open
<1>3. ASSUME NEW l \in Keys, l \notin excused' PROVE Careful(l)'
  BY <1>3 DEF DeliveryInv, DeliveryTypeOK, Careful, Open
<1> QED  BY <1>1, <1>2, <1>3 DEF DeliveryInv

LEMMA HasInv ==
  ASSUME DeliveryInv, NEW p \in Procs, NEW k \in Keys, Has(p, k)
  PROVE  DeliveryInv'
<1>1. DeliveryTypeOK'
  <2>1. CASE Close(p)
    BY <2>1, CloseType DEF DeliveryInv, DeliveryTypeOK, Has
  <2>2. CASE ~Close(p)
    BY <2>2 DEF DeliveryInv, DeliveryTypeOK, Has
  <2> QED  BY <2>1, <2>2
<1>2. OneMessageEach' /\ RecordsWhatArrived' /\ SentOnceOrForCause'
  BY DEF DeliveryInv, DeliveryTypeOK, OneMessageEach, RecordsWhatArrived,
         SentOnceOrForCause, Has, Close
<1>3. ASSUME NEW l \in Keys, l \notin excused' PROVE Careful(l)'
  <2>1. l \notin excused /\ Careful(l)
    BY <1>3 DEF DeliveryInv, Has
  <2>2. CASE k \in store
    BY <2>1, <2>2 DEF DeliveryInv, DeliveryTypeOK, Careful, Has, Close
  <2>3. CASE k \notin store /\ l # k
    BY <2>1, <2>3 DEF DeliveryInv, DeliveryTypeOK, OneMessageEach, Careful, Has
  <2>4. CASE k \notin store /\ l = k
    <3>1. \A q \in Procs \ {p} : ~Holds(q, k)
      BY <1>3, <2>4 DEF Has
    <3>2. inbox[k] = 0
      BY <2>1, <2>4, <3>1 DEF DeliveryInv, DeliveryTypeOK, Careful, Has
    <3> QED  BY <2>4, <3>1, <3>2 DEF DeliveryInv, DeliveryTypeOK, Careful, Has
  <2> QED  BY <2>2, <2>3, <2>4
<1> QED  BY <1>1, <1>2, <1>3 DEF DeliveryInv

LEMMA NothingInv ==
  ASSUME DeliveryInv, NEW p \in Procs, NEW k \in Keys, SendNothing(p, k)
  PROVE  DeliveryInv'
<1>1. DeliveryTypeOK'
  BY DeliveryAssumption DEF DeliveryInv, DeliveryTypeOK, SendNothing, Close
<1>2. OneMessageEach' /\ RecordsWhatArrived' /\ SentOnceOrForCause'
  BY DEF DeliveryInv, DeliveryTypeOK, OneMessageEach, RecordsWhatArrived,
         SentOnceOrForCause, SendNothing, Close
<1>3. ASSUME NEW l \in Keys, l \notin excused' PROVE Careful(l)'
  BY <1>3 DEF DeliveryInv, DeliveryTypeOK, Careful, SendNothing, Close
<1> QED  BY <1>1, <1>2, <1>3 DEF DeliveryInv

LEMMA SendInv ==
  ASSUME DeliveryInv, NEW p \in Procs, NEW k \in Keys, NEW a \in ProviderAnswers,
         Send(p, k, a)
  PROVE  DeliveryInv'
<1>a. a.lands \in BOOLEAN /\ (a.says = "sent" => a.lands)
  BY DEF ProviderAnswers
<1>1. DeliveryTypeOK'
  <2>1. inbox' \in [Keys -> 0..2] /\ excused' \subseteq Keys
    BY <1>a DEF DeliveryInv, DeliveryTypeOK, Send, Lands
  <2>2. CASE Close(p)
    <3>1. live' \subseteq Keys /\ store' \subseteq Keys
      BY DEF DeliveryInv, DeliveryTypeOK, Send
    <3> QED  BY <2>1, <2>2, <3>1, CloseType DEF DeliveryInv, DeliveryTypeOK
  <2>3. CASE ~Close(p)
    <3>1. CASE a.says = "sent"
      BY <2>1, <3>1 DEF DeliveryInv, DeliveryTypeOK, Send
    <3>2. CASE /\ try[p] < MaxTries /\ try' = [try EXCEPT ![p] = @ + 1]
               /\ UNCHANGED <<pc, key, sendable, live, store>>
      BY <2>1, <3>2, DeliveryAssumption DEF DeliveryInv, DeliveryTypeOK
    <3> QED  BY <2>3, <3>1, <3>2 DEF Send, TriesAgain
  <2> QED  BY <2>2, <2>3
<1>2. OneMessageEach' /\ RecordsWhatArrived'
  BY <1>a DEF DeliveryInv, DeliveryTypeOK, OneMessageEach, RecordsWhatArrived, Send, Lands,
              Close
<1>3. SentOnceOrForCause'
  BY <1>a DEF DeliveryInv, DeliveryTypeOK, SentOnceOrForCause, Careful, Send, Lands
<1>4. ASSUME NEW l \in Keys, l \notin excused' PROVE Careful(l)'
  <2>1. l \notin excused /\ Careful(l)
    BY <1>4 DEF DeliveryInv, Send
  <2>2. CASE l # k
    BY <1>a, <2>1, <2>2
       DEF DeliveryInv, DeliveryTypeOK, OneMessageEach, Careful, Send, Lands, Close
  <2>3. CASE l = k
    <3>1. \A q \in Procs \ {p} : ~Holds(q, k)
      BY <2>1, <2>3 DEF Careful, Send
    <3>2. k \notin store /\ inbox[k] = 0
      BY <2>1, <2>3 DEF Careful, Send
    <3>3. CASE a.says = "sent"
      BY <1>a, <2>3, <3>1, <3>2, <3>3 DEF DeliveryInv, DeliveryTypeOK, Careful, Send, Lands
    <3>4. CASE a.says # "sent"
      <4>1. ~a.lands /\ inbox' = inbox
        BY <1>4, <2>3, <3>4, <1>a DEF Send
      <4> QED
        BY <2>3, <3>1, <3>2, <3>4, <4>1
           DEF DeliveryInv, DeliveryTypeOK, Careful, Send, Close
    <3> QED  BY <3>3, <3>4
  <2> QED  BY <2>2, <2>3
<1> QED  BY <1>1, <1>2, <1>3, <1>4 DEF DeliveryInv

LEMMA RecordInv ==
  ASSUME DeliveryInv, NEW p \in Procs, NEW k \in Keys, Record(p, k)
  PROVE  DeliveryInv'
<1>1. DeliveryTypeOK'
  BY DeliveryAssumption DEF DeliveryInv, DeliveryTypeOK, Record, Close
<1>2. OneMessageEach' /\ RecordsWhatArrived' /\ SentOnceOrForCause'
  BY DEF DeliveryInv, DeliveryTypeOK, OneMessageEach, RecordsWhatArrived,
         SentOnceOrForCause, Record, Close
<1>3. ASSUME NEW l \in Keys, l \notin excused' PROVE Careful(l)'
  BY <1>3 DEF DeliveryInv, DeliveryTypeOK, OneMessageEach, Careful, Record, Close
<1> QED  BY <1>1, <1>2, <1>3 DEF DeliveryInv

LEMMA DiesInv ==
  ASSUME DeliveryInv, NEW p \in Procs, NEW k \in Keys, Dies(p, k)
  PROVE  DeliveryInv'
<1>1. DeliveryTypeOK'
  BY DeliveryAssumption DEF DeliveryInv, DeliveryTypeOK, Dies, Lands, Close
<1>2. OneMessageEach' /\ RecordsWhatArrived' /\ SentOnceOrForCause'
  BY DEF DeliveryInv, DeliveryTypeOK, OneMessageEach, RecordsWhatArrived,
         SentOnceOrForCause, Careful, Dies, Lands, Close
<1>3. ASSUME NEW l \in Keys, l \notin excused' PROVE Careful(l)'
  BY <1>3 DEF DeliveryInv, DeliveryTypeOK, OneMessageEach, Careful, Dies, Lands, Close
<1> QED  BY <1>1, <1>2, <1>3 DEF DeliveryInv

\* No step of the protocol, by any process, breaks the invariant.
LEMMA StepInv == DeliveryInv /\ [DeliveryNext]_deliveryVars => DeliveryInv'
<1> SUFFICES ASSUME DeliveryInv, [DeliveryNext]_deliveryVars PROVE DeliveryInv'
  OBVIOUS
<1>1. CASE UNCHANGED deliveryVars
  BY <1>1 DEF deliveryVars, DeliveryInv, DeliveryTypeOK, OneMessageEach, RecordsWhatArrived,
              SentOnceOrForCause, Careful
<1>2. ASSUME NEW p \in Procs, NEW k \in Keys, NEW s \in BOOLEAN, Open(p, k, s)
      PROVE  DeliveryInv'
  BY <1>2, OpenInv
<1>3. ASSUME NEW p \in Procs, Deliver(p) PROVE DeliveryInv'
  BY <1>3, HasInv, NothingInv, SendInv, RecordInv DEF Deliver
<1>4. ASSUME NEW p \in Procs, NEW k \in Keys, Dies(p, k) PROVE DeliveryInv'
  BY <1>4, DiesInv
<1> QED  BY <1>1, <1>2, <1>3, <1>4 DEF DeliveryNext

-----------------------------------------------------------------------------
(* The jobs and the activities of Notices do nothing else to the table.    *)


SweepsTypeOK ==
  /\ day \in Days
  /\ invoices \in [Periods -> SUBSET Docs]
  /\ work \in [Procs -> SUBSET [doc : Docs, at : Days]]

LEMMA SweepsType == SweepsTypeOK /\ [Next]_vars => SweepsTypeOK'
<1> SUFFICES ASSUME SweepsTypeOK, [Next]_vars PROVE SweepsTypeOK'
  OBVIOUS
<1> USE DEF SweepsTypeOK
<1>1. ASSUME NEW p \in Procs, NEW n \in Periods, BillPeriod(p, n)
      PROVE  SweepsTypeOK'
  BY <1>1 DEF BillPeriod, Docs
<1>2. ASSUME NEW p \in Procs, StartSweep(p) PROVE SweepsTypeOK'
  <2>1. PICK ns \in {Periods} \union {{n} : n \in Periods} :
          work' = [work EXCEPT ![p] =
            {[doc |-> d, at |-> day] : d \in UNION {invoices[n] : n \in ns}}]
    BY <1>2 DEF StartSweep
  <2>2. UNION {invoices[n] : n \in ns} \subseteq Docs
    OBVIOUS
  <2> QED  BY <1>2, <2>1, <2>2 DEF StartSweep, invoiceVars
<1>3. ASSUME NEW p \in Procs, SweepNext(p) PROVE SweepsTypeOK'
  BY <1>3 DEF SweepNext, invoiceVars
<1>4. ASSUME NEW p \in Procs, ProcDies(p) PROVE SweepsTypeOK'
  BY <1>4 DEF ProcDies, invoiceVars
<1> QED
  BY <1>1, <1>2, <1>3, <1>4
     DEF Next, Runs, DeliverStep, DunCustomer, Tick, UpsertAccount, RecordAcceptance,
         vars, noticesVars, invoiceVars, sweepVars

LEMMA NextDelivers == SweepsTypeOK /\ [Next]_vars => [DeliveryNext]_deliveryVars
<1> SUFFICES ASSUME SweepsTypeOK, [Next]_vars PROVE [DeliveryNext]_deliveryVars
  OBVIOUS
<1> USE KeysAssumption
<1>1. ASSUME NEW p \in Procs, NEW n \in Periods, BillPeriod(p, n)
      PROVE  DeliveryNext
  BY <1>1 DEF BillPeriod, OpenNotice, DeliveryNext, Notice, Stages
<1>2. ASSUME NEW p \in Procs, SweepNext(p) PROVE DeliveryNext
  <2>1. PICK w \in work[p], s \in Stages : Open(p, <<w.doc.period, s>>, TRUE)
    BY <1>2 DEF SweepNext, OpenNotice
  <2>2. <<w.doc.period, s>> \in Keys
    BY DEF SweepsTypeOK, Docs, Notice
  <2> QED  BY <2>1, <2>2 DEF DeliveryNext
<1>3. ASSUME NEW p \in Procs, DunCustomer(p) PROVE DeliveryNext
  BY <1>3 DEF DunCustomer, Dun, DeliveryNext, Sendable
<1>4. ASSUME NEW p \in Procs, ProcDies(p) PROVE [DeliveryNext]_deliveryVars
  BY <1>4 DEF ProcDies, DeliveryNext
<1>5. ASSUME NEW p \in Procs, DeliverStep(p) PROVE DeliveryNext
  BY <1>5 DEF DeliverStep, DeliveryNext
<1> QED
  BY <1>1, <1>2, <1>3, <1>4, <1>5
     DEF Next, Runs, Tick, UpsertAccount, RecordAcceptance, StartSweep, vars

\* Whatever dies, is retried or overlaps, nothing is recorded that did not arrive, and
\* nothing arrives again without cause (deliverDunning, deliverStage, RetryingDunningSender).
THEOREM SentOnce == Spec => []SentOnceOrForCause
<1>1. Init => DeliveryInv /\ SweepsTypeOK
  <2>1. Init => DeliveryInv
    <3> SUFFICES ASSUME Init PROVE DeliveryInit /\ live \subseteq Keys
      BY InitInv
    <3> QED  BY NoticesAssumption DEF Init
  <2>2. Init => SweepsTypeOK
    BY NoticesAssumption DEF Init, SweepsTypeOK
  <2> QED  BY <2>1, <2>2
<1>2. DeliveryInv /\ SweepsTypeOK /\ [Next]_vars => DeliveryInv' /\ SweepsTypeOK'
  BY NextDelivers, StepInv, SweepsType
<1>3. DeliveryInv => SentOnceOrForCause
  BY DEF DeliveryInv
<1> QED  BY <1>1, <1>2, <1>3, PTL DEF Spec

-----------------------------------------------------------------------------
(* A reminder on its way passed the guardrail.                             *)

MayRemind == channel \in customer.consent /\ ~customer.optedOut

ConsentInv ==
  /\ OnlyWithConsent
  /\ \A p \in Procs, k \in Reminders : Delivering(p, k) => MayRemind

\* Nobody is reminded who had not consented to the channel, or had opted out, when the
\* case was opened (the guardrail's gate in deliverDunning).
THEOREM ConsentIsKept == Spec => []OnlyWithConsent
<1>1. Init => ConsentInv
  BY KeysAssumption DEF Init, DeliveryInit, ConsentInv, OnlyWithConsent
<1>2. ConsentInv /\ SweepsTypeOK /\ DeliveryTypeOK /\ [Next]_vars => ConsentInv'
  <2> SUFFICES ASSUME ConsentInv, SweepsTypeOK, DeliveryTypeOK, [Next]_vars
               PROVE  ConsentInv'
    OBVIOUS
  <2>1. UNCHANGED customer
    BY DEF Next, Tick, UpsertAccount, RecordAcceptance, BillPeriod, StartSweep, DunCustomer,
           Dun, Runs, DeliverStep, SweepNext, ProcDies, dunningVars, vars
  <2>2. ASSUME NEW p \in Procs, NEW k \in Reminders, NEW s \in BOOLEAN, MayRemind,
               Open(p, k, s)
        PROVE  ConsentInv'
    BY <2>1, <2>2, KeysAssumption
       DEF ConsentInv, OnlyWithConsent, MayRemind, Open, DeliveryTypeOK
  <2>3. ASSUME NEW p \in Procs, NEW k \in Notice, Open(p, k, TRUE)
        PROVE  ConsentInv'
    BY <2>1, <2>3, KeysAssumption
       DEF ConsentInv, OnlyWithConsent, MayRemind, Open, DeliveryTypeOK
  <2>4. ASSUME NEW p \in Procs, NEW k \in Keys, Delivering(p, k),
               inbox' = inbox \/ Lands(k), Close(p) \/ UNCHANGED key
        PROVE  ConsentInv'
    <3>1. \A l \in Keys : inbox'[l] > 0 => inbox[l] > 0 \/ l = k
      BY <2>4 DEF Lands, DeliveryTypeOK
    <3>2. \A q \in Procs, l \in Keys : l \in key'[q] => l \in key[q]
      BY <2>4 DEF Close, DeliveryTypeOK
    <3> QED
      BY <2>1, <2>4, <3>1, <3>2, KeysAssumption DEF ConsentInv, OnlyWithConsent, MayRemind
  <2>5. ASSUME NEW p \in Procs, Deliver(p) \/ \E k \in Keys : Dies(p, k)
        PROVE  ConsentInv'
    BY <2>4, <2>5 DEF Deliver, Has, SendNothing, Send, Record, Dies, Close
  <2>6. ASSUME NEW p \in Procs, DunCustomer(p) PROVE ConsentInv'
    <3>1. PICK k \in Reminders : Dun(p, k)
      BY <2>6 DEF DunCustomer
    <3>2. MayRemind
      BY <3>1 DEF Dun, Gate, Allows, Evaluate, EvaluateComms, ChargeKinds, MayRemind
    <3> QED  BY <2>2, <3>1, <3>2 DEF Dun, Sendable
  <2>7. ASSUME NEW p \in Procs, NEW n \in Periods, BillPeriod(p, n) PROVE ConsentInv'
    BY <2>3, <2>7 DEF BillPeriod, OpenNotice, Notice, Stages
  <2>8. ASSUME NEW p \in Procs, SweepNext(p) PROVE ConsentInv'
    <3>1. PICK w \in work[p], s \in Stages : Open(p, <<w.doc.period, s>>, TRUE)
      BY <2>8 DEF SweepNext, OpenNotice
    <3>2. <<w.doc.period, s>> \in Notice
      BY DEF SweepsTypeOK, Docs, Notice
    <3> QED  BY <2>3, <3>1, <3>2
  <2>9. CASE UNCHANGED <<deliveryVars, customer>>
    BY <2>9 DEF deliveryVars, ConsentInv, OnlyWithConsent, MayRemind
  <2> QED
    BY <2>1, <2>5, <2>6, <2>7, <2>8, <2>9
       DEF Next, Runs, DeliverStep, ProcDies, StartSweep, Tick, UpsertAccount,
           RecordAcceptance, vars
<1>3. Init => DeliveryInv /\ SweepsTypeOK
  <2>1. Init => DeliveryInit /\ live \subseteq Keys /\ SweepsTypeOK
    BY NoticesAssumption DEF Init, SweepsTypeOK
  <2> QED  BY <2>1, InitInv
<1>4. DeliveryInv /\ SweepsTypeOK /\ [Next]_vars => DeliveryInv' /\ SweepsTypeOK'
  BY NextDelivers, StepInv, SweepsType
<1>5. DeliveryInv => DeliveryTypeOK
  BY DEF DeliveryInv
<1>6. ConsentInv => OnlyWithConsent
  BY DEF ConsentInv
<1> QED  BY <1>1, <1>2, <1>3, <1>4, <1>5, <1>6, PTL DEF Spec

-----------------------------------------------------------------------------
AgreedInv ==
  /\ ChargedIsAgreed
  /\ \A a \in account : a.track \in accepted \union {b.track : b \in signing}
  /\ charged \in [Periods -> SUBSET Tracks]

\* No fee is collected without an agreement to auto-pay, however the two awaits of an
\* opt-in, its death between them and the monthly job interleave.
THEOREM AgreementsPrecedeCharges == Spec => []ChargedIsAgreed
<1>1. Init => AgreedInv
  BY DEF Init, AgreedInv, ChargedIsAgreed
<1>2. AgreedInv /\ [Next]_vars => AgreedInv'
  <2> SUFFICES ASSUME AgreedInv, [Next]_vars PROVE AgreedInv'
    OBVIOUS
  <2>1. ASSUME NEW a \in Accounts, UpsertAccount(a) PROVE AgreedInv'
    BY <2>1 DEF UpsertAccount, invoiceVars, AgreedInv, ChargedIsAgreed
  <2>2. ASSUME NEW a \in Accounts, RecordAcceptance(a) PROVE AgreedInv'
    <3>1. accepted \union {b.track : b \in signing}
            \subseteq accepted' \union {b.track : b \in signing'}
      BY <2>2 DEF RecordAcceptance
    <3> QED
      BY <2>2, <3>1 DEF RecordAcceptance, invoiceVars, AgreedInv, ChargedIsAgreed
  <2>3. ASSUME NEW p \in Procs, NEW n \in Periods, BillPeriod(p, n) PROVE AgreedInv'
    <3>1. UNCHANGED <<account, accepted, signing>>
      BY <2>3 DEF BillPeriod, portalVars
    <3>2. PICK a \in account :
            \/ Chargeable(a) /\ charged' = [charged EXCEPT ![n] = @ \union {a.track}]
            \/ UNCHANGED charged
      BY <2>3 DEF BillPeriod
    <3>3. CASE UNCHANGED charged
      BY <3>1, <3>3 DEF AgreedInv, ChargedIsAgreed
    <3>4. CASE Chargeable(a) /\ charged' = [charged EXCEPT ![n] = @ \union {a.track}]
      <4>1. a.track = "auto_pay" /\ a.track \in accepted \union {b.track : b \in signing}
        BY <3>4 DEF AgreedInv, Chargeable
      <4> QED  BY <3>1, <3>4, <4>1 DEF AgreedInv, ChargedIsAgreed, Tracks
    <3> QED  BY <3>2, <3>3, <3>4
  <2>4. CASE UNCHANGED <<account, accepted, signing, charged>>
    BY <2>4 DEF AgreedInv, ChargedIsAgreed
  <2> QED
    BY <2>1, <2>2, <2>3, <2>4
       DEF Next, Runs, DeliverStep, ProcDies, StartSweep, SweepNext, DunCustomer, Tick,
           noticesVars, portalVars, invoiceVars, vars
<1>3. AgreedInv => ChargedIsAgreed
  BY DEF AgreedInv
<1> QED  BY <1>1, <1>2, <1>3, PTL DEF Spec
-----------------------------------------------------------------------------
(* What the sweeps and the merchant's notices are made of.                 *)

\* Each stage has a rank, and the first is due from the day of issue.
LEMMA StageFacts ==
  /\ \A s \in Stages : Rank[s] \in 1..6 /\ DaysFromDue[s] \in Int
  /\ "issued" \in Stages /\ Rank["issued"] = 1
  /\ DaysFromDue["issued"] = 0 - PaymentTermsDays
BY DEF Stages, Rank, DaysFromDue, PaymentTermsDays

\* Dates and amounts are natural numbers.
LEMMA DocsAreNumbers == ASSUME NEW doc \in Docs PROVE doc.issued \in Nat /\ doc.subtotal \in Nat
<1>1. Days \subseteq Nat /\ Amounts \subseteq Nat
  BY NoticesAssumption
<1> QED  BY <1>1 DEF Docs

\* The finance charge is a natural number, and grows with the days past due.
LEMMA ChargeGrows ==
  ASSUME NEW doc \in Docs, NEW at \in Nat, NEW later \in Nat, at <= later
  PROVE  /\ FinanceCharge(doc, at) \in Nat
         /\ FinanceCharge(doc, at) <= FinanceCharge(doc, later)
<1> DEFINE Over(d) == IF d <= Due(doc) THEN 0 ELSE d - Due(doc)
           Product(d) == doc.subtotal * Over(d)
           Rounded(n) == (n * 15 + 15000) \div 30000
<1>1. doc.subtotal \in Nat /\ Due(doc) \in Nat
  BY DocsAreNumbers DEF Due, PaymentTermsDays
<1>2. Over(at) \in Nat /\ Over(later) \in Nat /\ Over(at) <= Over(later)
  BY <1>1
<1>3. \A k, x, y \in Nat : x <= y => k * x \in Nat /\ k * y \in Nat /\ k * x <= k * y
  OBVIOUS
<1>4. Product(at) \in Nat /\ Product(later) \in Nat /\ Product(at) <= Product(later)
  <2> HIDE DEF Over
  <2> QED  BY <1>1, <1>2, <1>3
<1>5. \A m, n \in Nat : m <= n => Rounded(m) \in Nat /\ Rounded(m) <= Rounded(n)
  OBVIOUS
<1>6. Rounded(Product(at)) \in Nat /\ Rounded(Product(at)) <= Rounded(Product(later))
        /\ Rounded(Product(later)) \in Nat
  <2> HIDE DEF Product, Rounded
  <2> QED  BY <1>4, <1>5
<1>7. \A d \in {at, later} :
        FinanceCharge(doc, d) = IF d <= Due(doc) THEN 0 ELSE Rounded(Product(d))
  BY DEF FinanceCharge
<1> HIDE DEF Over, Product, Rounded
<1> QED  BY <1>1, <1>6, <1>7

\* So does an invoice's total.
LEMMA TotalGrows ==
  ASSUME NEW doc \in Docs, NEW at \in Nat, NEW later \in Nat, at <= later
  PROVE  Total(doc, at) \in Nat /\ Total(doc, at) <= Total(doc, later)
<1>1. doc.subtotal \in Nat
  BY DocsAreNumbers
<1> QED  BY <1>1, ChargeGrows DEF Total

\* A notice told carries a stage's rank and the total that its process says.
LEMMA TellIsOfANotice ==
  ASSUME NoticesTypeOK, OneMessageEach, NEW p \in Procs, Tell(p), NEW n \in Periods
  PROVE  \/ told'[n] = told[n]
         \/ \E s \in Stages : /\ Delivering(p, <<n, s>>)
                             /\ told'[n] = [rank |-> Rank[s], total |-> says[p]]
<1>1. CASE \E s \in Stages : Delivering(p, <<n, s>>) /\ inbox' # inbox
  <2> DEFINE s == CHOOSE s \in Stages : Delivering(p, <<n, s>>)
  <2>1. s \in Stages /\ Delivering(p, <<n, s>>)
    BY <1>1
  <2>2. told'[n] = [rank |-> Rank[s], total |-> says[p]]
    BY <1>1 DEF Tell
  <2> QED  BY <2>1, <2>2
<1>2. CASE ~\E s \in Stages : Delivering(p, <<n, s>>) /\ inbox' # inbox
  BY <1>2 DEF Tell
<1> QED  BY <1>1, <1>2

\* Telling keeps the types.
LEMMA TellType ==
  ASSUME NoticesTypeOK, OneMessageEach, NEW p \in Procs, Tell(p)
  PROVE  /\ says' \in [Procs -> Nat]
         /\ told' \in [Periods -> [rank : 0..6, total : Nat]]
<1>1. says' \in [Procs -> Nat]
  BY DEF Tell, NoticesTypeOK
<1>2. ASSUME NEW n \in Periods PROVE told'[n] \in [rank : 0..6, total : Nat]
  <2>1. told[n] \in [rank : 0..6, total : Nat] /\ says[p] \in Nat
    BY DEF NoticesTypeOK
  <2>2. \A s \in Stages : Rank[s] \in 0..6
    BY StageFacts
  <2>3. \/ told'[n] = told[n]
        \/ \E s \in Stages : told'[n] = [rank |-> Rank[s], total |-> says[p]]
    BY TellIsOfANotice
  <2>4. \A s \in Stages :
          [rank |-> Rank[s], total |-> says[p]] \in [rank : 0..6, total : Nat]
    BY <2>1, <2>2
  <2> QED  BY <2>1, <2>3, <2>4, Zenon
<1>3. told' = [n \in Periods |-> told'[n]]
  BY DEF Tell
<1> QED  BY <1>1, <1>2, <1>3

\* The types, given those of the protocol.
LEMMA NoticesType ==
  NoticesTypeOK /\ OneMessageEach /\ DeliveryTypeOK' /\ [Next]_vars => NoticesTypeOK'
<1> SUFFICES ASSUME NoticesTypeOK, OneMessageEach, DeliveryTypeOK', [Next]_vars
             PROVE  NoticesTypeOK'
  OBVIOUS
<1>1. ASSUME NEW p \in Procs, NEW doc \in Docs, NEW s \in Stages, NEW at \in Days,
             OpenNotice(p, doc, s, at)
      PROVE  says' \in [Procs -> Nat]
  BY <1>1, TotalGrows, NoticesAssumption DEF OpenNotice, NoticesTypeOK
<1>2. SweepsTypeOK'
  BY SweepsType DEF SweepsTypeOK, NoticesTypeOK
<1>3. ASSUME NEW a \in Accounts, UpsertAccount(a) PROVE NoticesTypeOK'
  BY <1>3, <1>2 DEF UpsertAccount, NoticesTypeOK, SweepsTypeOK, dunningVars, invoiceVars,
                    sweepVars
<1>4. ASSUME NEW a \in Accounts, RecordAcceptance(a) PROVE NoticesTypeOK'
  BY <1>4, <1>2 DEF RecordAcceptance, NoticesTypeOK, SweepsTypeOK, dunningVars, invoiceVars,
                    sweepVars, Accounts
<1>5. ASSUME NEW p \in Procs, NEW n \in Periods, BillPeriod(p, n) PROVE NoticesTypeOK'
  <2>1. reissued' \in 0..Reissues
    BY <1>5, NoticesAssumption DEF BillPeriod, NoticesTypeOK
  <2>2. charged' \in [Periods -> SUBSET Tracks]
    BY <1>5 DEF BillPeriod, NoticesTypeOK, ValidOptIns, Accounts
  <2>3. PICK amount \in Amounts :
          OpenNotice(p, [period |-> n, issued |-> day, subtotal |-> amount], "issued", day)
    BY <1>5 DEF BillPeriod
  <2>4. says' \in [Procs -> Nat]
    BY <2>3, <1>1, StageFacts DEF NoticesTypeOK, Docs
  <2> QED
    BY <1>5, <1>2, <2>1, <2>2, <2>4
       DEF BillPeriod, NoticesTypeOK, SweepsTypeOK, dunningVars, portalVars
<1>6. ASSUME NEW p \in Procs, StartSweep(p) PROVE NoticesTypeOK'
  BY <1>6, <1>2 DEF StartSweep, NoticesTypeOK, SweepsTypeOK, dunningVars, portalVars,
                    invoiceVars
<1>7. ASSUME NEW p \in Procs, SweepNext(p) PROVE NoticesTypeOK'
  <2>1. says' \in [Procs -> Nat]
    BY <1>7, <1>1 DEF SweepNext, NoticesTypeOK
  <2> QED
    BY <1>7, <1>2, <2>1 DEF SweepNext, NoticesTypeOK, SweepsTypeOK, dunningVars, portalVars,
                            invoiceVars
<1>8. ASSUME NEW p \in Procs, DunCustomer(p) PROVE NoticesTypeOK'
  BY <1>8, <1>2 DEF DunCustomer, Dun, NoticesTypeOK, SweepsTypeOK, dunningVars, noticesVars,
                    portalVars, invoiceVars, sweepVars
<1>9. ASSUME NEW p \in Procs, DeliverStep(p) \/ ProcDies(p) PROVE NoticesTypeOK'
  <2>1. Tell(p)
    BY <1>9 DEF DeliverStep, ProcDies
  <2> QED
    BY <1>9, <1>2, <2>1, TellType
       DEF DeliverStep, ProcDies, NoticesTypeOK, SweepsTypeOK, dunningVars, portalVars,
           invoiceVars
<1>10. CASE Tick \/ UNCHANGED vars
  BY <1>10, <1>2 DEF Tick, vars, NoticesTypeOK, SweepsTypeOK, dunningVars, noticesVars,
                     portalVars, invoiceVars, sweepVars
<1> QED
  BY <1>3, <1>4, <1>5, <1>6, <1>7, <1>8, <1>9, <1>10 DEF Next, Runs

TypedInv == DeliveryInv /\ NoticesTypeOK

\* The protocol's invariant and the types are inductive together.
LEMMA TypedStep == TypedInv /\ [Next]_vars => TypedInv'
<1> SUFFICES ASSUME TypedInv, [Next]_vars PROVE TypedInv'
  OBVIOUS
<1>1. SweepsTypeOK /\ OneMessageEach
  BY DEF TypedInv, NoticesTypeOK, SweepsTypeOK, DeliveryInv
<1>2. DeliveryInv'
  BY <1>1, NextDelivers, StepInv DEF TypedInv
<1>3. DeliveryTypeOK'
  BY <1>2 DEF DeliveryInv
<1> QED  BY <1>1, <1>2, <1>3, NoticesType DEF TypedInv

\* Initially, too.
LEMMA InitTyped == Init => TypedInv
<1> SUFFICES ASSUME Init PROVE TypedInv
  OBVIOUS
<1>1. DeliveryInv
  <2>1. DeliveryInit /\ live \subseteq Keys
    BY NoticesAssumption DEF Init
  <2> QED  BY <2>1, InitInv
<1>2. /\ customer \in Customers /\ template \in Texts /\ optIns \in Nat
  BY NoticesAssumption, DunningAssumption DEF Init
<1> QED
  BY <1>1, <1>2, NoticesAssumption DEF Init, TypedInv, DeliveryInv, NoticesTypeOK

\* Type correctness: whatever runs, dies or overlaps, every total told is a natural
\* number of minor units, and every stored invoice and sweep is of a day that was reached.
THEOREM NoticesTypeCorrect == Spec => []NoticesTypeOK
<1>1. TypedInv => NoticesTypeOK
  BY DEF TypedInv
<1> QED  BY <1>1, InitTyped, TypedStep, PTL DEF Spec
-----------------------------------------------------------------------------
(* Notices only get worse.                                                 *)
(*                                                                         *)
(* A notice states the stage and the total of the day its sweep started,   *)
(* and is told days later.  It never undercuts what was told meanwhile,    *)
(* because, as long as runs of the jobs do not overlap and no invoice is   *)
(* issued anew, one process has all notices in hand and all invoices to    *)
(* do, at most one of each period, and whatever was told of a period was   *)
(* due by the date of what is still to come: the notice in hand, then the  *)
(* sweep's date, then today.                                               *)

Sweeps(p) == work[p] # {} \/ key[p] \intersect Notice # {}

\* A notice of rank r that states the total t is not ahead of what is due at a date.
DueBy(doc, at, r, t) ==
  /\ \E s \in Stages : at >= Due(doc) + DaysFromDue[s] /\ r <= Rank[s]
  /\ t <= Total(doc, at)

EmptyHanded == \A p \in Procs : pc[p] = "free" => key[p] = {}

OneAtWork ==
  /\ \A p, q \in Procs : Sweeps(p) /\ Sweeps(q) => p = q
  /\ \A n \in Periods : \A d, e \in invoices[n] : d = e
  /\ \A n \in Periods : \A d \in invoices[n] : d.period = n /\ d.issued <= day
  /\ \A p \in Procs : \A w \in work[p] :
       /\ w.doc \in invoices[w.doc.period] /\ w.at <= day
       /\ \A v \in work[p] : v.doc.period = w.doc.period => v = w
       /\ \A s \in Stages : ~Delivering(p, <<w.doc.period, s>>)

InTurn ==
  /\ \A n \in Periods : invoices[n] = {} => told[n] = [rank |-> 0, total |-> 0]
  /\ \A n \in Periods : \A d \in invoices[n] : DueBy(d, day, told[n].rank, told[n].total)
  /\ \A p \in Procs : \A w \in work[p] :
       DueBy(w.doc, w.at, told[w.doc.period].rank, told[w.doc.period].total)
  /\ \A p \in Procs, n \in Periods, s \in Stages :
       Delivering(p, <<n, s>>) =>
         /\ told[n].rank <= Rank[s] /\ told[n].total <= says[p]
         /\ \A d \in invoices[n] : DueBy(d, day, Rank[s], says[p])
         /\ invoices[n] # {}

EscalatingInv == EmptyHanded /\ (serial /\ reissued = 0 => OneAtWork /\ InTurn)

\* What is due by a date is due by a later one.
LEMMA DueGrows ==
  ASSUME NEW doc \in Docs, NEW at \in Nat, NEW later \in Nat, at <= later,
         NEW r \in Nat, NEW t \in Nat, DueBy(doc, at, r, t)
  PROVE  DueBy(doc, later, r, t)
<1>1. Due(doc) \in Int
  BY DocsAreNumbers DEF Due, PaymentTermsDays
<1>2. \E s \in Stages : later >= Due(doc) + DaysFromDue[s] /\ r <= Rank[s]
  <2>1. PICK s \in Stages : at >= Due(doc) + DaysFromDue[s] /\ r <= Rank[s]
    BY DEF DueBy
  <2>2. DaysFromDue[s] \in Int
    BY StageFacts
  <2> QED  BY <1>1, <2>1, <2>2
<1>3. t <= Total(doc, later)
  BY TotalGrows DEF DueBy
<1> QED  BY <1>2, <1>3 DEF DueBy

\* The first notice is due on the day of issue, and so is silence.
LEMMA FirstIsDue ==
  ASSUME NEW doc \in Docs, NEW at \in Nat, doc.issued <= at
  PROVE  DueBy(doc, at, Rank["issued"], Total(doc, at)) /\ DueBy(doc, at, 0, 0)
<1>1. Total(doc, at) \in Nat /\ doc.issued \in Nat
  BY TotalGrows, DocsAreNumbers
<1>2. "issued" \in Stages /\ at >= Due(doc) + DaysFromDue["issued"]
  BY <1>1, StageFacts DEF Due, PaymentTermsDays
<1> QED  BY <1>1, <1>2, StageFacts DEF DueBy

\* The notice that a sweep picks is due by its date, and nothing due by then exceeds it.
LEMMA StageIsLast ==
  ASSUME NEW doc \in Docs, NEW at \in Nat, NEW s \in Stages,
         s \in InvoiceDunningStage(doc, at)
  PROVE  /\ DueBy(doc, at, Rank[s], Total(doc, at))
         /\ \A r, t \in Nat : DueBy(doc, at, r, t) => r <= Rank[s] /\ t <= Total(doc, at)
<1>1. Total(doc, at) \in Nat /\ at >= Due(doc) + DaysFromDue[s]
  BY TotalGrows DEF InvoiceDunningStage
<1>2. \A q \in Stages : at >= Due(doc) + DaysFromDue[q] => Rank[q] <= Rank[s]
  BY DEF InvoiceDunningStage
<1>3. DueBy(doc, at, Rank[s], Total(doc, at))
  BY <1>1, StageFacts DEF DueBy
<1>4. ASSUME NEW r \in Nat, NEW t \in Nat, DueBy(doc, at, r, t)
      PROVE  r <= Rank[s] /\ t <= Total(doc, at)
  BY <1>2, <1>4, StageFacts DEF DueBy
<1> QED  BY <1>3, <1>4

\* A process without a delivery holds no message, whatever the protocol does.
LEMMA HandsStep ==
  DeliveryTypeOK /\ EmptyHanded /\ [DeliveryNext]_deliveryVars => EmptyHanded'
<1> SUFFICES ASSUME DeliveryTypeOK, EmptyHanded, [DeliveryNext]_deliveryVars
             PROVE  EmptyHanded'
  OBVIOUS
<1>1. ASSUME NEW p \in Procs, Close(p) PROVE EmptyHanded'
  BY <1>1 DEF Close, DeliveryTypeOK, EmptyHanded
<1>2. ASSUME NEW p \in Procs, UNCHANGED key, pc'[p] # "free",
             \A q \in Procs \ {p} : pc'[q] = pc[q]
      PROVE  EmptyHanded'
  BY <1>2 DEF EmptyHanded
<1>3. ASSUME NEW p \in Procs, NEW k \in Keys, NEW s \in BOOLEAN, Open(p, k, s)
      PROVE  EmptyHanded'
  BY <1>3 DEF Open, DeliveryTypeOK, EmptyHanded
<1>4. ASSUME NEW p \in Procs, Deliver(p) PROVE EmptyHanded'
  <2>1. ASSUME NEW k \in Keys, Has(p, k) PROVE EmptyHanded'
    <3>1. CASE k \notin store
      BY <2>1, <3>1, <1>2 DEF Has, DeliveryTypeOK
    <3>2. CASE k \in store
      BY <2>1, <3>2, <1>1 DEF Has
    <3> QED  BY <3>1, <3>2
  <2>2. ASSUME NEW k \in Keys, SendNothing(p, k) \/ Record(p, k) PROVE EmptyHanded'
    BY <2>2, <1>1 DEF SendNothing, Record
  <2>3. ASSUME NEW k \in Keys, NEW a \in ProviderAnswers, Send(p, k, a) PROVE EmptyHanded'
    <3>1. CASE Close(p)
      BY <3>1, <1>1
    <3>2. CASE ~Close(p)
      BY <2>3, <3>2, <1>2 DEF Send, DeliveryTypeOK
    <3> QED  BY <3>1, <3>2
  <2> QED  BY <1>4, <2>1, <2>2, <2>3 DEF Deliver
<1>5. ASSUME NEW p \in Procs, NEW k \in Keys, Dies(p, k) PROVE EmptyHanded'
  BY <1>5, <1>1 DEF Dies
<1>6. CASE UNCHANGED deliveryVars
  BY <1>6 DEF deliveryVars, EmptyHanded
<1> QED  BY <1>3, <1>4, <1>5, <1>6 DEF DeliveryNext

\* What the types say of one invoice, one notice and one invoice to do.
LEMMA Numbers ==
  ASSUME NoticesTypeOK
  PROVE  /\ day \in Nat
         /\ \A n \in Periods : told[n].rank \in Nat /\ told[n].total \in Nat
         /\ \A p \in Procs : says[p] \in Nat
         /\ \A n \in Periods : invoices[n] \subseteq Docs
         /\ \A p \in Procs : \A w \in work[p] :
              w.doc \in Docs /\ w.at \in Nat /\ w.doc.period \in Periods
<1>1. Days \subseteq Nat
  BY NoticesAssumption
<1>2. day \in Nat
  BY <1>1 DEF NoticesTypeOK
<1>3. \A n \in Periods : told[n].rank \in Nat /\ told[n].total \in Nat
  <2> SUFFICES ASSUME NEW n \in Periods PROVE told[n].rank \in Nat /\ told[n].total \in Nat
    OBVIOUS
  <2>1. told[n] \in [rank : 0..6, total : Nat]
    BY DEF NoticesTypeOK
  <2> QED  BY <2>1
<1>4. \A p \in Procs : says[p] \in Nat
  BY DEF NoticesTypeOK
<1>5. \A n \in Periods : invoices[n] \subseteq Docs
  BY DEF NoticesTypeOK
<1>6. \A p \in Procs : \A w \in work[p] :
        w.doc \in Docs /\ w.at \in Nat /\ w.doc.period \in Periods
  <2> SUFFICES ASSUME NEW p \in Procs, NEW w \in work[p]
               PROVE  w.doc \in Docs /\ w.at \in Nat /\ w.doc.period \in Periods
    OBVIOUS
  <2>1. w \in [doc : Docs, at : Days]
    BY DEF NoticesTypeOK
  <2> QED  BY <1>1, <2>1 DEF Docs
<1> QED  BY <1>2, <1>3, <1>4, <1>5, <1>6

\* A run of the jobs that may start, runs alone.
LEMMA StartsAlone ==
  ASSUME EscalatingInv, serial, NEW p \in Procs, MayStart(p)
  PROVE  \A q \in Procs : key[q] = {} /\ work[q] = {} /\ ~Sweeps(q)
BY DEF EscalatingInv, EmptyHanded, MayStart, Idle, Sweeps

\* The monthly job bills a period once: its first notice is the first it is told.
LEMMA BillInTurn ==
  ASSUME TypedInv, EscalatingInv, NEW p \in Procs, NEW n \in Periods, BillPeriod(p, n),
         serial, reissued' = 0
  PROVE  (OneAtWork /\ InTurn)'
<1>1. reissued = 0 /\ invoices[n] = {}
  BY DEF BillPeriod, TypedInv, NoticesTypeOK
<1>2. OneAtWork /\ InTurn /\ \A q \in Procs : key[q] = {} /\ work[q] = {}
  BY <1>1, StartsAlone DEF EscalatingInv, BillPeriod
<1>3. PICK amount \in Amounts :
        LET doc == [period |-> n, issued |-> day, subtotal |-> amount] IN
        invoices' = [invoices EXCEPT ![n] = {doc}] /\ OpenNotice(p, doc, "issued", day)
  BY DEF BillPeriod
<1> DEFINE new == [period |-> n, issued |-> day, subtotal |-> amount]
<1>4. PICK doc \in Docs : doc = new
  BY DEF TypedInv, NoticesTypeOK, Docs
<1>5. /\ invoices' = [invoices EXCEPT ![n] = {doc}] /\ doc.period = n /\ doc.issued = day
      /\ key' = [key EXCEPT ![p] = {<<n, "issued">>}]
      /\ says' = [says EXCEPT ![p] = Total(doc, day)]
      /\ UNCHANGED <<day, work, told>>
  BY <1>3, <1>4 DEF OpenNotice, Open, BillPeriod
<1> HIDE DEF new
<1>6. /\ invoices'[n] = {doc} /\ \A m \in Periods \ {n} : invoices'[m] = invoices[m]
      /\ key'[p] = {<<n, "issued">>} /\ \A q \in Procs \ {p} : key'[q] = {}
      /\ says'[p] = Total(doc, day)
      /\ \A q \in Procs : work'[q] = {}
  BY <1>2, <1>5 DEF TypedInv, NoticesTypeOK, DeliveryTypeOK
<1>7. day \in Nat /\ told[n] = [rank |-> 0, total |-> 0]
  BY <1>1, <1>2, Numbers DEF TypedInv, InTurn
<1>8. DueBy(doc, day, Rank["issued"], Total(doc, day)) /\ DueBy(doc, day, 0, 0)
        /\ Total(doc, day) \in Nat /\ Rank["issued"] \in Nat
  BY <1>5, <1>7, FirstIsDue, TotalGrows, StageFacts
<1>9. OneAtWork'
  <2>1. \A q, r \in Procs : Sweeps(q)' /\ Sweeps(r)' => q = r
    BY <1>6 DEF Sweeps
  <2>2. \A m \in Periods : \A d, e \in invoices'[m] : d = e
    BY <1>2, <1>6 DEF OneAtWork
  <2>3. \A m \in Periods : \A d \in invoices'[m] : d.period = m /\ d.issued <= day'
    BY <1>2, <1>5, <1>6, <1>7 DEF OneAtWork
  <2> QED  BY <1>6, <2>1, <2>2, <2>3 DEF OneAtWork
<1>10. InTurn'
  <2>1. \A m \in Periods : invoices'[m] = {} => told'[m] = [rank |-> 0, total |-> 0]
    BY <1>2, <1>5, <1>6 DEF InTurn
  <2>2. \A m \in Periods : \A d \in invoices'[m] :
          DueBy(d, day', told'[m].rank, told'[m].total)
    BY <1>2, <1>5, <1>6, <1>7, <1>8 DEF InTurn
  <2>3. ASSUME NEW q \in Procs, NEW m \in Periods, NEW s \in Stages, <<m, s>> \in key'[q]
        PROVE  /\ told'[m].rank <= Rank[s] /\ told'[m].total <= says'[q]
               /\ \A d \in invoices'[m] : DueBy(d, day', Rank[s], says'[q])
               /\ invoices'[m] # {}
    <3>1. q = p /\ m = n /\ s = "issued"
      BY <1>6, <2>3
    <3> QED  BY <1>5, <1>6, <1>7, <1>8, <3>1
  <2> QED  BY <1>6, <2>1, <2>2, <2>3 DEF InTurn
<1> QED  BY <1>9, <1>10

\* A sweep starts with the stored invoices, of which nothing is told that is not due.
LEMMA StartInTurn ==
  ASSUME TypedInv, EscalatingInv, NEW p \in Procs, StartSweep(p), serial, reissued = 0
  PROVE  (OneAtWork /\ InTurn)'
<1>1. OneAtWork /\ InTurn /\ \A q \in Procs : key[q] = {} /\ work[q] = {}
  BY StartsAlone DEF EscalatingInv, StartSweep
<1>2. PICK docs :
        /\ docs \subseteq UNION {invoices[n] : n \in Periods}
        /\ work' = [work EXCEPT ![p] = {[doc |-> d, at |-> day] : d \in docs}]
        /\ UNCHANGED <<key, day, invoices, says, told>>
  <2>1. PICK ns \in {Periods} \union {{n} : n \in Periods} :
          work' = [work EXCEPT ![p] =
            {[doc |-> d, at |-> day] : d \in UNION {invoices[n] : n \in ns}}]
    BY DEF StartSweep
  <2>2. UNION {invoices[n] : n \in ns} \subseteq UNION {invoices[n] : n \in Periods}
    OBVIOUS
  <2> QED  BY <2>1, <2>2 DEF StartSweep, deliveryVars, invoiceVars
<1>3. /\ work'[p] = {[doc |-> d, at |-> day] : d \in docs}
      /\ \A q \in Procs \ {p} : work'[q] = {}
  BY <1>1, <1>2 DEF TypedInv, NoticesTypeOK
<1>4. \A w \in work'[p] :
        /\ w.at = day /\ w.doc.period \in Periods /\ w.doc \in invoices[w.doc.period]
        /\ w = [doc |-> w.doc, at |-> day]
  BY <1>1, <1>2, <1>3 DEF OneAtWork
<1>5. OneAtWork'
  <2>1. \A w \in work'[p] : w.at <= day'
    BY <1>2, <1>4, Numbers DEF TypedInv
  <2>2. \A w, v \in work'[p] : v.doc.period = w.doc.period => v = w
    <3> SUFFICES ASSUME NEW w \in work'[p], NEW v \in work'[p], v.doc.period = w.doc.period
                 PROVE  v = w
      OBVIOUS
    <3>1. v.doc = w.doc
      BY <1>1, <1>4 DEF OneAtWork
    <3> QED  BY <1>4, <3>1
  <2>3. \A q, r \in Procs : Sweeps(q)' /\ Sweeps(r)' => q = r
    BY <1>1, <1>2, <1>3 DEF Sweeps
  <2> QED  BY <1>1, <1>2, <1>3, <1>4, <2>1, <2>2, <2>3 DEF OneAtWork
<1>6. InTurn'
  <2>1. \A w \in work'[p] :
          DueBy(w.doc, w.at, told'[w.doc.period].rank, told'[w.doc.period].total)
    BY <1>1, <1>2, <1>4 DEF InTurn
  <2> QED  BY <1>1, <1>2, <1>3, <2>1 DEF InTurn
<1> QED  BY <1>5, <1>6

\* The sweep's next notice is of its date: nothing told or due by then exceeds it.
LEMMA SweepInTurn ==
  ASSUME TypedInv, EscalatingInv, NEW p \in Procs, SweepNext(p), serial, reissued = 0
  PROVE  (OneAtWork /\ InTurn)'
<1>1. OneAtWork /\ InTurn
  BY DEF EscalatingInv
<1>2. PICK w \in work[p], s \in Stages :
        /\ s \in InvoiceDunningStage(w.doc, w.at)
        /\ OpenNotice(p, w.doc, s, w.at)
        /\ work' = [work EXCEPT ![p] = @ \ {w}]
  BY DEF SweepNext
<1> DEFINE n == w.doc.period
<1>3. /\ w.doc \in Docs /\ w.at \in Nat /\ n \in Periods /\ day \in Nat /\ w.at <= day
      /\ told[n].rank \in Nat /\ told[n].total \in Nat
      /\ w.doc \in invoices[n] /\ \A d \in invoices[n] : d = w.doc
  BY <1>1, <1>2, Numbers DEF TypedInv, OneAtWork
<1>4. Total(w.doc, w.at) \in Nat /\ Rank[s] \in Nat
  BY <1>3, TotalGrows, StageFacts
<1>5. /\ DueBy(w.doc, w.at, Rank[s], Total(w.doc, w.at))
      /\ told[n].rank <= Rank[s] /\ told[n].total <= Total(w.doc, w.at)
  <2>1. DueBy(w.doc, w.at, told[n].rank, told[n].total)
    BY <1>1, <1>2 DEF InTurn
  <2> QED  BY <1>2, <1>3, <2>1, StageIsLast
<1>6. DueBy(w.doc, day, Rank[s], Total(w.doc, w.at))
  BY <1>3, <1>4, <1>5, DueGrows
<1>7. /\ key' = [key EXCEPT ![p] = {<<n, s>>}]
      /\ says' = [says EXCEPT ![p] = Total(w.doc, w.at)]
      /\ UNCHANGED <<day, invoices, told>>
  BY <1>2 DEF SweepNext, OpenNotice, Open, invoiceVars
<1>8. /\ key'[p] = {<<n, s>>} /\ \A q \in Procs \ {p} : key'[q] = key[q]
      /\ says'[p] = Total(w.doc, w.at) /\ \A q \in Procs \ {p} : says'[q] = says[q]
      /\ work'[p] = work[p] \ {w} /\ \A q \in Procs \ {p} : work'[q] = work[q]
  BY <1>2, <1>7 DEF TypedInv, NoticesTypeOK, DeliveryTypeOK
<1>9. \A q \in Procs \ {p} : ~Sweeps(q)
  BY <1>1, <1>2 DEF OneAtWork, Sweeps
<1>10. \A q \in Procs \ {p} : work[q] = {} /\ key[q] \intersect Notice = {}
  BY <1>9 DEF Sweeps
<1>11. \A v \in work'[p] : v.doc.period # n
  BY <1>1, <1>2, <1>8 DEF OneAtWork
<1> HIDE DEF n
<1>12. OneAtWork'
  <2>1. \A q, r \in Procs : Sweeps(q)' /\ Sweeps(r)' => q = r
    BY <1>8, <1>10 DEF Sweeps
  <2>2. \A v \in work'[p], t \in Stages : <<v.doc.period, t>> \notin key'[p]
    BY <1>8, <1>11
  <2>3. \A v \in work'[p] : v \in work[p]
    BY <1>8
  <2> QED
    BY <1>1, <1>7, <1>8, <1>10, <2>1, <2>2, <2>3 DEF OneAtWork
<1>13. InTurn'
  <2>1. ASSUME NEW q \in Procs, NEW m \in Periods, NEW t \in Stages, <<m, t>> \in key'[q]
        PROVE  /\ told'[m].rank <= Rank[t] /\ told'[m].total <= says'[q]
               /\ \A d \in invoices'[m] : DueBy(d, day', Rank[t], says'[q])
               /\ invoices'[m] # {}
    <3>1. q = p /\ m = n /\ t = s
      BY <1>8, <1>10, <2>1 DEF Notice
    <3> QED  BY <1>3, <1>5, <1>6, <1>7, <1>8, <3>1
  <2>2. \A q \in Procs : \A v \in work'[q] : v \in work[q]
    BY <1>8
  <2> QED  BY <1>1, <1>7, <2>1, <2>2 DEF InTurn
<1> QED  BY <1>12, <1>13

\* A reminder is no notice.
LEMMA RemindInTurn ==
  ASSUME TypedInv, EscalatingInv, NEW p \in Procs, DunCustomer(p), serial, reissued = 0
  PROVE  (OneAtWork /\ InTurn)'
<1>1. OneAtWork /\ InTurn /\ work[p] = {}
  BY DEF EscalatingInv, DunCustomer, Idle
<1>2. PICK k \in Reminders : key' = [key EXCEPT ![p] = {k}]
  BY DEF DunCustomer, Dun, Open
<1>3. key'[p] = {k} /\ (\A q \in Procs \ {p} : key'[q] = key[q]) /\ k \notin Notice
  BY <1>2, KeysAssumption DEF TypedInv, NoticesTypeOK, DeliveryTypeOK
<1>4. UNCHANGED <<day, invoices, work, says, told>>
  BY DEF DunCustomer, noticesVars, invoiceVars, sweepVars
<1>5. \A q \in Procs : Sweeps(q)' => Sweeps(q)
  BY <1>3, <1>4 DEF Sweeps
<1>6. \A q \in Procs, m \in Periods, t \in Stages :
        <<m, t>> \in key'[q] => <<m, t>> \in key[q]
  BY <1>3 DEF Notice
<1>7. OneAtWork'
  <2>1. \A q \in Procs : \A w \in work[q] : w.doc.period \in Periods
    BY Numbers DEF TypedInv
  <2>2. \A q \in Procs : \A w \in work'[q], t \in Stages :
          <<w.doc.period, t>> \notin key'[q]
    <3> SUFFICES ASSUME NEW q \in Procs, NEW w \in work[q], NEW t \in Stages,
                        <<w.doc.period, t>> \in key'[q]
                 PROVE  FALSE
      BY <1>4
    <3>1. <<w.doc.period, t>> \in key[q]
      BY <1>6, <2>1
    <3> QED  BY <1>1, <3>1 DEF OneAtWork
  <2> QED  BY <1>1, <1>4, <1>5, <2>2 DEF OneAtWork
<1>8. InTurn'
  BY <1>1, <1>4, <1>6 DEF InTurn
<1> QED  BY <1>7, <1>8

\* A later day makes more due, of what was told and of what is in hand.
LEMMA TickInTurn ==
  ASSUME TypedInv, EscalatingInv, Tick, serial, reissued = 0
  PROVE  (OneAtWork /\ InTurn)'
<1>1. OneAtWork /\ InTurn
  BY DEF EscalatingInv
<1>2. /\ day' \in Days /\ day' > day
      /\ UNCHANGED <<key, invoices, work, says, told>>
  BY DEF Tick, deliveryVars, invoiceVars, sweepVars
<1>3. day \in Nat /\ day' \in Nat /\ day <= day'
  BY <1>2, Numbers, NoticesAssumption DEF TypedInv
<1>4. ASSUME NEW n \in Periods, NEW d \in invoices[n], NEW r \in Nat, NEW t \in Nat,
             DueBy(d, day, r, t)
      PROVE  DueBy(d, day', r, t)
  <2>1. d \in Docs
    BY Numbers DEF TypedInv
  <2> QED  BY <1>3, <1>4, <2>1, DueGrows
<1>5. OneAtWork'
  <2>1. \A n \in Periods : \A d \in invoices'[n] : d.issued <= day'
    <3> SUFFICES ASSUME NEW n \in Periods, NEW d \in invoices[n] PROVE d.issued <= day'
      BY <1>2
    <3>1. d.issued \in Nat /\ d.issued <= day
      BY <1>1, Numbers, DocsAreNumbers DEF OneAtWork, TypedInv
    <3> QED  BY <1>3, <3>1
  <2>2. \A p \in Procs : \A w \in work'[p] : w.at <= day'
    <3> SUFFICES ASSUME NEW p \in Procs, NEW w \in work[p] PROVE w.at <= day'
      BY <1>2
    <3>1. w.at \in Nat /\ w.at <= day
      BY <1>1, Numbers DEF OneAtWork, TypedInv
    <3> QED  BY <1>3, <3>1
  <2> QED  BY <1>1, <1>2, <2>1, <2>2 DEF OneAtWork, Sweeps
<1>6. InTurn'
  <2>1. \A n \in Periods : \A d \in invoices'[n] :
          DueBy(d, day', told'[n].rank, told'[n].total)
    <3> SUFFICES ASSUME NEW n \in Periods, NEW d \in invoices[n]
                 PROVE  DueBy(d, day', told[n].rank, told[n].total)
      BY <1>2
    <3>1. DueBy(d, day, told[n].rank, told[n].total)
      BY <1>1 DEF InTurn
    <3>2. told[n].rank \in Nat /\ told[n].total \in Nat
      BY Numbers DEF TypedInv
    <3> QED  BY <1>4, <3>1, <3>2
  <2>2. \A p \in Procs, n \in Periods, s \in Stages : <<n, s>> \in key'[p] =>
          \A d \in invoices'[n] : DueBy(d, day', Rank[s], says'[p])
    <3> SUFFICES ASSUME NEW p \in Procs, NEW n \in Periods, NEW s \in Stages,
                        <<n, s>> \in key[p], NEW d \in invoices[n]
                 PROVE  DueBy(d, day', Rank[s], says[p])
      BY <1>2
    <3>1. DueBy(d, day, Rank[s], says[p])
      BY <1>1 DEF InTurn
    <3>2. Rank[s] \in Nat /\ says[p] \in Nat
      BY Numbers, StageFacts DEF TypedInv
    <3> QED  BY <1>4, <3>1, <3>2
  <2> QED  BY <1>1, <1>2, <2>1, <2>2 DEF InTurn
<1> QED  BY <1>5, <1>6

\* A step of one process that may tell what it has in hand, and drop it, and its sweep.
LEMMA TellInTurn ==
  ASSUME TypedInv, EscalatingInv, NEW p \in Procs, serial, reissued = 0,
         Tell(p), UNCHANGED <<day, invoices>>,
         (UNCHANGED key /\ (pc'[p] = "free" => key[p] = {})) \/ Close(p),
         UNCHANGED work \/ work' = [work EXCEPT ![p] = {}]
  PROVE  /\ (OneAtWork /\ InTurn)'
         /\ \A n \in Periods : /\ told'[n].rank >= told[n].rank
                              /\ told'[n].total >= told[n].total
<1>1. OneAtWork /\ InTurn
  BY DEF EscalatingInv
<1>2. /\ \A q \in Procs : key'[q] \subseteq key[q] /\ work'[q] \subseteq work[q]
      /\ key'[p] # {} => pc'[p] # "free"
  BY DEF Close, TypedInv, NoticesTypeOK, DeliveryTypeOK
<1>3. /\ \A q \in Procs \ {p} : says'[q] = says[q]
      /\ key'[p] # {} => says'[p] = says[p]
  BY <1>2 DEF Tell, TypedInv, NoticesTypeOK
<1>4. ASSUME NEW n \in Periods
      PROVE  \/ told'[n] = told[n]
             \/ \E s \in Stages : /\ <<n, s>> \in key[p]
                                 /\ told'[n] = [rank |-> Rank[s], total |-> says[p]]
  BY TellIsOfANotice DEF TypedInv, DeliveryInv
<1>5. \A n \in Periods, s \in Stages : <<n, s>> \in Notice
  BY DEF Notice
<1>6. ASSUME NEW n \in Periods
      PROVE  told'[n].rank >= told[n].rank /\ told'[n].total >= told[n].total
  <2>1. told[n].rank \in Nat /\ told[n].total \in Nat /\ says[p] \in Nat
    BY Numbers DEF TypedInv
  <2>2. CASE told'[n] = told[n]
    BY <2>1, <2>2
  <2>3. ASSUME NEW s \in Stages, <<n, s>> \in key[p],
               told'[n] = [rank |-> Rank[s], total |-> says[p]]
        PROVE  told'[n].rank >= told[n].rank /\ told'[n].total >= told[n].total
    <3>1. told[n].rank <= Rank[s] /\ told[n].total <= says[p] /\ Rank[s] \in Nat
      BY <1>1, <2>3, StageFacts DEF InTurn
    <3> QED  BY <2>1, <2>3, <3>1
  <2> QED  BY <1>4, <2>2, <2>3
<1>7. OneAtWork'
  <2>1. \A q \in Procs : Sweeps(q)' => Sweeps(q)
    BY <1>2 DEF Sweeps
  <2> QED  BY <1>1, <1>2, <2>1 DEF OneAtWork
<1>8. InTurn'
  <2>1. ASSUME NEW n \in Periods, invoices[n] = {}
        PROVE  told'[n] = [rank |-> 0, total |-> 0]
    BY <1>1, <1>4, <2>1 DEF InTurn
  <2>2. ASSUME NEW n \in Periods, NEW d \in invoices[n]
        PROVE  DueBy(d, day, told'[n].rank, told'[n].total)
    <3>1. DueBy(d, day, told[n].rank, told[n].total)
      BY <1>1 DEF InTurn
    <3>2. ASSUME NEW s \in Stages, <<n, s>> \in key[p] PROVE DueBy(d, day, Rank[s], says[p])
      BY <1>1, <3>2 DEF InTurn
    <3>3. CASE told'[n] = told[n]
      BY <3>1, <3>3
    <3>4. ASSUME NEW s \in Stages, <<n, s>> \in key[p],
                 told'[n] = [rank |-> Rank[s], total |-> says[p]]
          PROVE  DueBy(d, day, told'[n].rank, told'[n].total)
      <4>1. told'[n].rank = Rank[s] /\ told'[n].total = says[p]
        BY <3>4
      <4> QED  BY <3>2, <3>4, <4>1
    <3> QED  BY <1>4, <3>3, <3>4
  <2>3. ASSUME NEW q \in Procs, NEW w \in work'[q]
        PROVE  DueBy(w.doc, w.at, told'[w.doc.period].rank, told'[w.doc.period].total)
    <3>1. w \in work[q] /\ w.doc.period \in Periods
      BY <1>2, <2>3, Numbers DEF TypedInv
    <3>2. \A s \in Stages : <<w.doc.period, s>> \notin key[p]
      <4>1. ASSUME NEW s \in Stages, <<w.doc.period, s>> \in key[p] PROVE FALSE
        <5>1. Sweeps(p) /\ Sweeps(q)
          BY <1>5, <3>1, <4>1 DEF Sweeps
        <5>2. p = q
          BY <1>1, <5>1 DEF OneAtWork
        <5> QED  BY <1>1, <3>1, <4>1, <5>2 DEF OneAtWork
      <4> QED  BY <4>1
    <3>3. told'[w.doc.period] = told[w.doc.period]
      BY <1>4, <3>1, <3>2
    <3>4. DueBy(w.doc, w.at, told[w.doc.period].rank, told[w.doc.period].total)
      BY <1>1, <3>1 DEF InTurn
    <3> QED  BY <3>3, <3>4
  <2>4. ASSUME NEW q \in Procs, NEW n \in Periods, NEW s \in Stages, <<n, s>> \in key'[q]
        PROVE  /\ told'[n].rank <= Rank[s] /\ told'[n].total <= says'[q]
               /\ \A d \in invoices[n] : DueBy(d, day, Rank[s], says'[q])
               /\ invoices[n] # {}
    <3>1. <<n, s>> \in key[q] /\ says'[q] = says[q]
      BY <1>2, <1>3, <2>4
    <3>2. /\ told[n].rank <= Rank[s] /\ told[n].total <= says[q]
          /\ \A d \in invoices[n] : DueBy(d, day, Rank[s], says[q])
          /\ invoices[n] # {}
      BY <1>1, <3>1 DEF InTurn
    <3>3. ASSUME NEW t \in Stages, <<n, t>> \in key[p] PROVE p = q /\ t = s
      <4>1. Sweeps(p) /\ Sweeps(q)
        BY <1>5, <3>1, <3>3 DEF Sweeps
      <4>2. p = q
        BY <1>1, <4>1 DEF OneAtWork
      <4>3. <<n, t>> \in Keys /\ <<n, s>> \in Keys
        BY <1>5, KeysAssumption
      <4>4. <<n, t>> = <<n, s>>
        BY <3>1, <3>3, <4>2, <4>3 DEF TypedInv, DeliveryInv, OneMessageEach
      <4> QED  BY <4>2, <4>4
    <3>4. Rank[s] \in Nat /\ says[q] \in Nat
      BY StageFacts, Numbers DEF TypedInv
    <3>5. told'[n] = told[n] \/ told'[n] = [rank |-> Rank[s], total |-> says[q]]
      BY <1>4, <3>3
    <3> QED  BY <3>1, <3>2, <3>4, <3>5
  <2> QED  BY <2>1, <2>2, <2>3, <2>4 DEF InTurn
<1> QED  BY <1>6, <1>7, <1>8

\* A step of the protocol drops what is in hand, or goes on with it.
LEMMA KeepsOrCloses ==
  ASSUME DeliveryTypeOK, NEW p \in Procs, Deliver(p)
  PROVE  (UNCHANGED key /\ pc'[p] # "free") \/ Close(p)
<1>1. ASSUME NEW k \in Keys, Has(p, k) PROVE (UNCHANGED key /\ pc'[p] # "free") \/ Close(p)
  BY <1>1 DEF Has, DeliveryTypeOK
<1>2. ASSUME NEW k \in Keys, SendNothing(p, k) \/ Record(p, k) PROVE Close(p)
  BY <1>2 DEF SendNothing, Record
<1>3. ASSUME NEW k \in Keys, NEW a \in ProviderAnswers, Send(p, k, a), ~Close(p)
      PROVE  UNCHANGED key /\ pc'[p] # "free"
  BY <1>3 DEF Send, DeliveryTypeOK
<1> QED  BY <1>1, <1>2, <1>3 DEF Deliver

Worsens ==
  \A n \in Periods : told'[n].rank >= told[n].rank /\ told'[n].total >= told[n].total

\* The invariant is inductive beside the types, and carries the action property: one case
\* per action.
LEMMA EscalatingStep ==
  TypedInv /\ EscalatingInv /\ [Next]_vars
    => EscalatingInv' /\ (serial /\ reissued' = 0 => Worsens)
<1> SUFFICES ASSUME TypedInv, EscalatingInv, [Next]_vars
             PROVE  EscalatingInv' /\ (serial /\ reissued' = 0 => Worsens)
  OBVIOUS
<1>1. EmptyHanded'
  <2>1. SweepsTypeOK /\ DeliveryTypeOK
    BY DEF TypedInv, NoticesTypeOK, SweepsTypeOK
  <2> QED  BY <2>1, NextDelivers, HandsStep DEF EscalatingInv
<1>2. serial' = serial /\ (reissued' = 0 => reissued = 0)
  BY DEF Next, Tick, UpsertAccount, RecordAcceptance, BillPeriod, StartSweep, DunCustomer,
         Runs, DeliverStep, SweepNext, ProcDies, vars, noticesVars, invoiceVars, TypedInv,
         NoticesTypeOK
<1> SUFFICES ASSUME serial, reissued = 0, reissued' = 0
             PROVE  (OneAtWork /\ InTurn)' /\ Worsens
  BY <1>1, <1>2 DEF EscalatingInv
<1>3. ASSUME UNCHANGED told PROVE Worsens
  BY <1>3, Numbers DEF Worsens, TypedInv
<1>4. CASE UNCHANGED <<day, key, invoices, work, says, told>>
  <2>1. OneAtWork /\ InTurn
    BY DEF EscalatingInv
  <2> QED  BY <1>3, <1>4, <2>1 DEF OneAtWork, InTurn, Sweeps
<1>5. CASE \E a \in Accounts : UpsertAccount(a) \/ RecordAcceptance(a)
  BY <1>4, <1>5 DEF UpsertAccount, RecordAcceptance, deliveryVars, invoiceVars, sweepVars
<1>6. CASE UNCHANGED vars
  BY <1>4, <1>6 DEF vars, deliveryVars, noticesVars, invoiceVars, sweepVars
<1>7. CASE Tick
  BY <1>3, <1>7, TickInTurn DEF Tick, sweepVars
<1>8. ASSUME NEW p \in Procs, NEW n \in Periods, BillPeriod(p, n)
      PROVE  (OneAtWork /\ InTurn)' /\ Worsens
  BY <1>3, <1>8, BillInTurn DEF BillPeriod
<1>9. ASSUME NEW p \in Procs, StartSweep(p) PROVE (OneAtWork /\ InTurn)' /\ Worsens
  BY <1>3, <1>9, StartInTurn DEF StartSweep
<1>10. ASSUME NEW p \in Procs, SweepNext(p) PROVE (OneAtWork /\ InTurn)' /\ Worsens
  BY <1>3, <1>10, SweepInTurn DEF SweepNext
<1>11. ASSUME NEW p \in Procs, DunCustomer(p) PROVE (OneAtWork /\ InTurn)' /\ Worsens
  BY <1>3, <1>11, RemindInTurn DEF DunCustomer, noticesVars, sweepVars
<1>12. ASSUME NEW p \in Procs, DeliverStep(p) PROVE (OneAtWork /\ InTurn)' /\ Worsens
  <2>1. Deliver(p) /\ Tell(p) /\ UNCHANGED <<day, invoices, work>>
    BY <1>12 DEF DeliverStep, invoiceVars
  <2>2. (UNCHANGED key /\ pc'[p] # "free") \/ Close(p)
    BY <2>1, KeepsOrCloses DEF TypedInv, NoticesTypeOK
  <2> QED  BY <2>1, <2>2, TellInTurn DEF Worsens
<1>13. ASSUME NEW p \in Procs, ProcDies(p) PROVE (OneAtWork /\ InTurn)' /\ Worsens
  <2>1. /\ Tell(p) /\ work' = [work EXCEPT ![p] = {}] /\ UNCHANGED <<day, invoices>>
        /\ (\E k \in Keys : Dies(p, k)) \/ (pc[p] = "free" /\ UNCHANGED deliveryVars)
    BY <1>13 DEF ProcDies, invoiceVars
  <2>2. (UNCHANGED key /\ key[p] = {}) \/ Close(p)
    BY <2>1 DEF Dies, deliveryVars, EscalatingInv, EmptyHanded
  <2> QED  BY <2>1, <2>2, TellInTurn DEF Worsens
<1> QED
  BY <1>5, <1>6, <1>7, <1>8, <1>9, <1>10, <1>11, <1>12, <1>13 DEF Next, Runs

\* Initially nothing is stored, in hand or told.
LEMMA InitEscalating == Init => EscalatingInv
BY DEF Init, DeliveryInit, EscalatingInv, EmptyHanded, OneAtWork, InTurn, Sweeps

\* No notice follows a later stage's, or states less than the one before, as long as runs
\* of the jobs do not overlap and no invoice is issued anew (deliverDue, deliverStage).
THEOREM NoticesOnlyWorsen == Spec => NoticesEscalate
<1>1. Init => TypedInv /\ EscalatingInv
  BY InitTyped, InitEscalating
<1>2. TypedInv /\ EscalatingInv /\ [Next]_vars => (TypedInv /\ EscalatingInv)'
  BY TypedStep, EscalatingStep
<1>3. TypedInv /\ EscalatingInv /\ [Next]_vars
        => [\A n \in Periods :
              serial /\ reissued' = 0 =>
                /\ told'[n].rank >= told[n].rank
                /\ told'[n].total >= told[n].total]_vars
  BY EscalatingStep DEF Worsens
<1> QED  BY <1>1, <1>2, <1>3, PTL DEF Spec, NoticesEscalate
=============================================================================

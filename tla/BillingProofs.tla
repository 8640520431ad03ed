--------------------------- MODULE BillingProofs ---------------------------
(***************************************************************************)
(* Proofs about Billing, for any number of runs, months and movements.     *)
(*                                                                         *)
(* The sums of the increments and of the fees are only right if a run that *)
(* does not overlap another still has, when it appends, the watermark it   *)
(* read (UpToDate), and if its statement is then the latest one (Latest).  *)
(***************************************************************************)
EXTENDS Billing, TLAPS

\* The runs that have computed their statement have different times, all in the past.
Times ==
  /\ \A j \in Jobs : statement[j].at <= clock
  /\ \A j \in Jobs : pc[j] \in {"append", "charge", "invoice"} => statement[j].at > 0
  /\ \A j \in stored : statement[j].at > 0
  /\ \A j, k \in Jobs :
       statement[j].at = statement[k].at /\ statement[j].at > 0 => j = k

\* Some stored statement has the watermark.
HasLatest ==
  stored = {} \/ \E j \in stored : \A k \in stored : statement[k].at <= statement[j].at

\* Where a run is tells whether its statement is stored.
Placed ==
  /\ \A j \in stored : pc[j] \in {"charge", "invoice", "done", "dead"}
  /\ \A j \in Jobs : pc[j] \in {"charge", "invoice"} => j \in stored

\* What a run is to collect is no more than its increment.
NetFits ==
  \A j \in Jobs :
    pc[j] \in {"append", "charge"} => statement[j].net <= AtLeastZero(Increment(j))

\* No two runs overlap.
Alone == serial => \A j, k \in Running : j = k

\* A run works on the watermark that is still in force, and is later than all before.
UpToDate ==
  serial => \A j \in Jobs :
    /\ pc[j] = "compute" => snapshot[j].prior = accrued
    /\ pc[j] = "append" =>
         /\ statement[j].prior = accrued
         /\ \A k \in stored : statement[k].at < statement[j].at

\* The latest statement states the sum of the increments.
Latest ==
  serial =>
    \/ stored = {} /\ accrued = 0
    \/ \E j \in stored :
         /\ \A k \in stored : k # j => statement[k].at < statement[j].at
         /\ statement[j].cum = accrued

\* What is collected, and is to be collected next, was accrued.
Covered ==
  serial =>
    /\ collected <= accrued + absorbed
    /\ \A j \in Jobs :
         pc[j] = "charge" => collected + statement[j].net <= accrued + absorbed

IInv ==
  /\ TypeOK /\ Times /\ HasLatest /\ Placed /\ NetFits
  /\ Alone /\ UpToDate /\ Latest /\ Covered /\ MoneyIsOnRecord

-----------------------------------------------------------------------------
(* The watermark.                                                          *)

\* A statement later than the others has the watermark.
LEMMA WatermarkIs ==
  ASSUME TypeOK, NEW j \in stored,
         \A k \in stored : k # j => statement[k].at < statement[j].at
  PROVE  priorBilledFromLedger = statement[j].cum
<1> DEFINE latest == CHOOSE i \in stored : \A k \in stored : statement[k].at <= statement[i].at
<1>1. \A k \in stored : statement[k].at \in Nat
  BY DEF TypeOK
<1>2. \A k \in stored : statement[k].at <= statement[j].at
  BY <1>1
<1>3. latest \in stored /\ \A k \in stored : statement[k].at <= statement[latest].at
  BY <1>2
<1>4. latest = j
  BY <1>1, <1>3
<1> QED
  BY <1>4 DEF priorBilledFromLedger

\* The watermark is one of the stated bounds, or zero.
LEMMA WatermarkIsLift ==
  ASSUME TypeOK, HasLatest
  PROVE  priorBilledFromLedger \in Lifts
<1>1. CASE stored = {}
  BY <1>1, BillingAssumption DEF priorBilledFromLedger, Lifts
<1>2. CASE stored # {}
  <2> DEFINE latest == CHOOSE i \in stored : \A k \in stored : statement[k].at <= statement[i].at
  <2>1. latest \in stored
    BY <1>2 DEF HasLatest
  <2> QED
    BY <2>1, <1>2 DEF priorBilledFromLedger, TypeOK
<1> QED BY <1>1, <1>2

\* Runs that do not overlap find the sum of the increments as the watermark.
LEMMA WatermarkIsAccrued ==
  ASSUME TypeOK, Latest, serial
  PROVE  priorBilledFromLedger = accrued
<1>1. CASE stored = {} /\ accrued = 0
  BY <1>1 DEF priorBilledFromLedger
<1>2. CASE \E j \in stored :
             /\ \A k \in stored : k # j => statement[k].at < statement[j].at
             /\ statement[j].cum = accrued
  BY <1>2, WatermarkIs
<1> QED BY <1>1, <1>2 DEF Latest

-----------------------------------------------------------------------------
(* The invariant.                                                          *)

\* Initially nothing has run.
LEMMA InitInv == Init => IInv
  BY BillingAssumption
  DEF Init, IInv, TypeOK, Times, HasLatest, Placed, NetFits, Alone, UpToDate, Latest,
      Covered, MoneyIsOnRecord, NoSnapshot, NoStatement, Cohorts, Lifts, Running

\* What happens around the job concerns no run: the ledger, the month, the account.
LEMMA AroundStep ==
  ASSUME IInv, LedgerMoves \/ NextMonth \/ OptIn
  PROVE  IInv'
<1>1. UNCHANGED <<serial, pc, snapshot, statement, stored, charges, invoices, collected,
                  accrued, absorbed, clock>>
  BY DEF LedgerMoves, NextMonth, OptIn
<1>2. TypeOK'
  <2> USE BillingAssumption DEF IInv, TypeOK
  <2>1. CASE LedgerMoves
    BY <1>1, <2>1 DEF LedgerMoves
  <2>2. CASE NextMonth
    BY <1>1, <2>2 DEF NextMonth, Cohorts
  <2>3. CASE OptIn
    BY <1>1, <2>3 DEF OptIn
  <2> QED BY <2>1, <2>2, <2>3
<1>3. (Times /\ HasLatest /\ Placed /\ NetFits)'
  BY <1>1 DEF IInv, Times, HasLatest, Placed, NetFits, Increment
<1>4. (Alone /\ UpToDate /\ Latest /\ Covered /\ MoneyIsOnRecord)'
  BY <1>1 DEF IInv, Alone, Running, UpToDate, Latest, Covered, MoneyIsOnRecord, Owed
<1> QED BY <1>2, <1>3, <1>4 DEF IInv

\* A run reads the watermark: the sum of the increments, if it is alone.
LEMMA ReadStep ==
  ASSUME IInv, NEW j \in Jobs, ReadLedger(j)
  PROVE  IInv'
<1> USE DEF IInv
<1>1. TypeOK'
  BY WatermarkIsLift DEF ReadLedger, TypeOK
<1>2. (Times /\ HasLatest /\ Placed /\ NetFits)'
  BY DEF ReadLedger, TypeOK, Times, HasLatest, Placed, NetFits, Increment
<1>3. Alone'
  BY DEF ReadLedger, TypeOK, Alone, Running
<1>4. UpToDate'
  BY WatermarkIsAccrued DEF ReadLedger, TypeOK, UpToDate
<1>5. (Latest /\ Covered /\ MoneyIsOnRecord)'
  BY DEF ReadLedger, TypeOK, Latest, Covered, MoneyIsOnRecord, Owed
<1> QED BY <1>1, <1>2, <1>3, <1>4, <1>5

\* What is billed is between zero and the rise of the watermark.
LEMMA NetBounds ==
  ASSUME NEW cum \in Lifts, NEW prior \in Lifts, NEW billable \in BOOLEAN,
         NEW credit \in 0..AtLeastZero(Fee(cum - prior, cum, billable))
  PROVE  LET net == NetBilled(Fee(cum - prior, cum, billable), credit)
         IN net \in Lifts /\ net <= AtLeastZero(cum - prior)
  BY BillingAssumption DEF Lifts, NetBilled, Fee, AtLeastZero

\* A run computes its statement, which is later than all others.
LEMMA ComputeStep ==
  ASSUME IInv, NEW j \in Jobs, Compute(j)
  PROVE  IInv'
<1> USE DEF IInv
<1>1. PICK gates \in BOOLEAN :
        LET cum == snapshot[j].lift[period]
            prior == snapshot[j].prior
            billable == gates /\ cum > 0
            fee == Fee(cum - prior, cum, billable)
        IN \E credit \in 0..AtLeastZero(fee) :
             statement' = [statement EXCEPT ![j] =
               [period |-> period, prior |-> prior, cum |-> cum, billable |-> billable,
                net |-> NetBilled(fee, credit), at |-> clock']]
  BY DEF Compute
<1> DEFINE cum == snapshot[j].lift[period]
           prior == snapshot[j].prior
           billable == gates /\ cum > 0
           fee == Fee(cum - prior, cum, billable)
<1>2. cum \in Lifts /\ prior \in Lifts /\ billable \in BOOLEAN /\ period \in Cohorts
  BY DEF TypeOK
<1> HIDE DEF cum, prior, billable
<1>3. PICK net : /\ net \in Lifts /\ net <= AtLeastZero(cum - prior)
                 /\ statement' = [statement EXCEPT ![j] =
                     [period |-> period, prior |-> prior, cum |-> cum,
                      billable |-> billable, net |-> net, at |-> clock + 1]]
  <2>1. PICK credit \in 0..AtLeastZero(fee) :
          statement' = [statement EXCEPT ![j] =
            [period |-> period, prior |-> prior, cum |-> cum, billable |-> billable,
             net |-> NetBilled(fee, credit), at |-> clock']]
    BY <1>1 DEF cum, prior, billable
  <2>2. NetBilled(fee, credit) \in Lifts /\ NetBilled(fee, credit) <= AtLeastZero(cum - prior)
    BY <1>2, NetBounds
  <2>3. clock' = clock + 1
    BY DEF Compute
  <2> QED BY <2>1, <2>2, <2>3
<1>4. /\ pc[j] = "compute" /\ pc' = [pc EXCEPT ![j] = "append"] /\ clock' = clock + 1
      /\ snapshot' = [snapshot EXCEPT ![j] = NoSnapshot]
      /\ UNCHANGED <<serial, live, payer, period, lift, changes, stored, charges,
                     invoices, collected, accrued, absorbed>>
  BY DEF Compute
<1>5. j \notin stored
  BY <1>4 DEF Placed
<1>6. \A k \in stored : statement'[k] = statement[k]
  BY <1>3, <1>5 DEF TypeOK
<1>7. TypeOK'
  BY <1>2, <1>3, <1>4, BillingAssumption DEF TypeOK, NoSnapshot, Lifts
<1>8. Times'
  BY <1>3, <1>4 DEF TypeOK, Times
<1>9. HasLatest' /\ Placed'
  BY <1>4, <1>6 DEF TypeOK, HasLatest, Placed
<1>10. NetFits'
  BY <1>2, <1>3, <1>4 DEF TypeOK, NetFits, Increment
<1>11. Alone'
  BY <1>4 DEF TypeOK, Alone, Running
<1>12. UpToDate'
  <2> SUFFICES ASSUME serial, NEW i \in Jobs
               PROVE  /\ pc'[i] = "compute" => snapshot'[i].prior = accrued
                      /\ pc'[i] = "append" =>
                           /\ statement'[i].prior = accrued
                           /\ \A k \in stored : statement'[k].at < statement'[i].at
    BY <1>4 DEF UpToDate
  <2>1. CASE i = j
    BY <2>1, <1>3, <1>4, <1>6 DEF UpToDate, TypeOK, Times, prior
  <2>2. CASE i # j
    BY <2>2, <1>3, <1>4, <1>6 DEF UpToDate, TypeOK
  <2> QED BY <2>1, <2>2
<1>13. Latest'
  BY <1>4, <1>6 DEF Latest
<1>14. Covered'
  BY <1>3, <1>4 DEF Covered, TypeOK
<1>15. MoneyIsOnRecord'
  BY <1>4, <1>6 DEF MoneyIsOnRecord, Owed
<1> QED BY <1>7, <1>8, <1>9, <1>10, <1>11, <1>12, <1>13, <1>14, <1>15

\* A run appends its statement, which becomes the latest one.
LEMMA AppendStep ==
  ASSUME IInv, NEW j \in Jobs, AppendStatement(j)
  PROVE  IInv'
<1> USE DEF IInv
<1>1. /\ pc[j] = "append" /\ pc' = [pc EXCEPT ![j] = "charge"]
      /\ stored' = stored \union {j}
      /\ UNCHANGED <<serial, live, payer, period, lift, changes, clock, snapshot, statement,
                     charges, invoices, collected>>
  BY DEF AppendStatement
<1>2. /\ accrued' = accrued + Increment(j) /\ Increment(j) \in Int
      /\ absorbed' = absorbed + AtLeastZero(0 - Increment(j))
      /\ AtLeastZero(0 - Increment(j)) \in Nat
      /\ accrued' + absorbed' = accrued + absorbed + AtLeastZero(Increment(j))
      /\ AtLeastZero(Increment(j)) \in Nat
  <2>1. Increment(j) \in Int /\ accrued \in Int /\ absorbed \in Nat
    BY BillingAssumption DEF TypeOK, Increment, Lifts
  <2>2. /\ accrued' = accrued + Increment(j)
        /\ absorbed' = absorbed + AtLeastZero(0 - Increment(j))
    BY DEF AppendStatement
  <2> HIDE DEF IInv
  <2> QED BY <2>1, <2>2 DEF AtLeastZero
<1>3. j \notin stored
  BY <1>1 DEF Placed
<1>4. j \in Running
  BY <1>1 DEF Running
<1>5. TypeOK'
  BY <1>1, <1>2 DEF TypeOK
<1>6. Times' /\ Placed'
  BY <1>1 DEF TypeOK, Times, Placed
<1>7. HasLatest'
  <2>1. CASE stored = {}
    BY <2>1, <1>1 DEF HasLatest, TypeOK
  <2>2. CASE stored # {}
    <3>1. PICK i \in stored : \A k \in stored : statement[k].at <= statement[i].at
      BY <2>2 DEF HasLatest
    <3>2. \A k \in stored' : statement[k].at \in Nat
      BY <1>1 DEF TypeOK
    <3>3. CASE statement[i].at <= statement[j].at
      BY <1>1, <3>1, <3>2, <3>3 DEF HasLatest
    <3>4. CASE statement[j].at <= statement[i].at
      BY <1>1, <3>1, <3>2, <3>4 DEF HasLatest
    <3> QED BY <1>1, <3>1, <3>2, <3>3, <3>4
  <2> QED BY <2>1, <2>2
<1>8. NetFits'
  BY <1>1 DEF TypeOK, NetFits, Increment
<1>9. Alone'
  BY <1>1 DEF TypeOK, Alone, Running
<1>10. UpToDate'
  <2> SUFFICES ASSUME serial, NEW i \in Jobs, pc'[i] \in {"compute", "append"} PROVE FALSE
    BY <1>1 DEF UpToDate
  <2>1. i # j /\ i \in Running
    BY <1>1 DEF TypeOK, Running
  <2> QED BY <2>1, <1>4 DEF Alone
<1>11. Latest'
  <2> SUFFICES ASSUME serial
               PROVE  /\ \A k \in stored' : k # j => statement[k].at < statement[j].at
                      /\ statement[j].cum = accrued'
    BY <1>1 DEF Latest
  <2>1. \A k \in stored' : k # j => statement[k].at < statement[j].at
    BY <1>1 DEF UpToDate
  <2>2. statement[j].prior = accrued /\ statement[j].cum \in Int /\ accrued \in Int
    BY <1>1, BillingAssumption DEF UpToDate, TypeOK, Lifts
  <2> QED BY <1>2, <2>1, <2>2 DEF Increment
<1>12. Covered'
  <2> SUFFICES ASSUME serial
               PROVE  /\ collected <= accrued' + absorbed'
                      /\ \A i \in Jobs : pc'[i] = "charge" =>
                           collected + statement[i].net <= accrued' + absorbed'
    BY <1>1 DEF Covered
  <2>1. collected \in Nat /\ accrued \in Int /\ absorbed \in Nat
    BY DEF TypeOK
  <2>2. collected <= accrued + absorbed
    BY DEF Covered
  <2>3. collected <= accrued' + absorbed'
    BY <1>2, <2>1, <2>2
  <2>4. ASSUME NEW i \in Jobs, pc'[i] = "charge"
        PROVE  collected + statement[i].net <= accrued' + absorbed'
    <3>1. i = j
      BY <2>4, <1>1, <1>4 DEF Alone, Running, TypeOK
    <3>2. statement[j].net \in Nat /\ statement[j].net <= AtLeastZero(Increment(j))
      BY <1>1, BillingAssumption DEF NetFits, TypeOK, Lifts
    <3> QED BY <1>2, <2>1, <2>2, <3>1, <3>2
  <2> QED BY <2>3, <2>4
<1>13. MoneyIsOnRecord'
  BY <1>1 DEF MoneyIsOnRecord, Owed
<1> QED BY <1>5, <1>6, <1>7, <1>8, <1>9, <1>10, <1>11, <1>12, <1>13

\* A step of a run that only moves it, or ends it.
LEMMA MoveStep ==
  ASSUME IInv, NEW j \in Jobs, NoCharge(j) \/ Dies(j)
  PROVE  IInv'
<1> USE DEF IInv
<1>1. /\ \/ pc[j] = "charge" /\ pc' = [pc EXCEPT ![j] = "invoice"]
         \/ j \in Running /\ pc' = [pc EXCEPT ![j] = "dead"]
      /\ UNCHANGED <<serial, live, payer, period, lift, changes, clock, snapshot, statement,
                     stored, charges, invoices, collected, accrued, absorbed>>
  BY DEF NoCharge, Dies
<1>2. TypeOK' /\ Times' /\ HasLatest' /\ Placed' /\ NetFits'
  BY <1>1 DEF TypeOK, Times, HasLatest, Placed, NetFits, Increment, Running
<1>3. Alone' /\ UpToDate' /\ Latest' /\ Covered' /\ MoneyIsOnRecord'
  BY <1>1 DEF TypeOK, Alone, UpToDate, Latest, Covered, MoneyIsOnRecord, Owed, Running
<1> QED BY <1>2, <1>3

\* Stripe collects what the run has been found to owe.
LEMMA ChargeStep ==
  ASSUME IInv, NEW j \in Jobs, Charge(j)
  PROVE  IInv'
<1> USE DEF IInv
<1>1. /\ pc[j] = "charge" /\ Owed(j) /\ pc' = [pc EXCEPT ![j] = "invoice"]
      /\ charges' = charges \union {j}
      /\ collected' = collected + statement[j].net
      /\ UNCHANGED <<serial, live, payer, period, lift, changes, clock, snapshot, statement,
                     stored, invoices, accrued, absorbed>>
  BY DEF Charge
<1>2. TypeOK'
  BY <1>1, BillingAssumption DEF TypeOK, Lifts
<1>3. Times' /\ HasLatest' /\ Placed' /\ NetFits'
  BY <1>1 DEF TypeOK, Times, HasLatest, Placed, NetFits, Increment
<1>4. Alone' /\ UpToDate' /\ Latest'
  BY <1>1 DEF TypeOK, Alone, UpToDate, Latest, Running
<1>5. Covered'
  <2> SUFFICES ASSUME serial
               PROVE  /\ collected' <= accrued + absorbed
                      /\ \A i \in Jobs : pc'[i] # "charge"
    BY <1>1 DEF Covered
  <2>1. collected' <= accrued + absorbed
    BY <1>1 DEF Covered
  <2>2. \A i \in Jobs : pc'[i] # "charge"
    BY <1>1 DEF Alone, Running, TypeOK
  <2> QED BY <2>1, <2>2
<1>6. MoneyIsOnRecord'
  BY <1>1 DEF MoneyIsOnRecord, Owed, Placed
<1> QED BY <1>2, <1>3, <1>4, <1>5, <1>6

\* A run issues the invoice of its own statement.
LEMMA IssueStep ==
  ASSUME IInv, NEW j \in Jobs, IssueInvoice(j)
  PROVE  IInv'
<1> USE DEF IInv
<1>1. /\ pc[j] = "invoice" /\ pc' = [pc EXCEPT ![j] = "done"]
      /\ \/ Owed(j) /\ invoices' = Upsert(statement[j].period, j)
         \/ UNCHANGED invoices
      /\ UNCHANGED <<serial, live, payer, period, lift, changes, clock, snapshot, statement,
                     stored, charges, collected, accrued, absorbed>>
  BY DEF IssueInvoice
<1>2. TypeOK'
  BY <1>1 DEF TypeOK, Upsert
<1>3. Times' /\ HasLatest' /\ Placed' /\ NetFits'
  BY <1>1 DEF TypeOK, Times, HasLatest, Placed, NetFits, Increment
<1>4. Alone' /\ UpToDate' /\ Latest' /\ Covered'
  BY <1>1 DEF TypeOK, Alone, UpToDate, Latest, Covered, Running
<1>5. MoneyIsOnRecord'
  BY <1>1 DEF MoneyIsOnRecord, Owed, Placed, Upsert
<1> QED BY <1>2, <1>3, <1>4, <1>5

\* Every step keeps the invariant.
LEMMA NextInv == IInv /\ [Next]_vars => IInv'
<1> SUFFICES ASSUME IInv, [Next]_vars PROVE IInv'
  OBVIOUS
<1>1. CASE LedgerMoves \/ NextMonth \/ OptIn
  BY <1>1, AroundStep
<1>2. ASSUME NEW j \in Jobs, ReadLedger(j) \/ Compute(j) \/ AppendStatement(j)
      PROVE  IInv'
  BY <1>2, ReadStep, ComputeStep, AppendStep
<1>3. ASSUME NEW j \in Jobs, NoCharge(j) \/ Charge(j) \/ IssueInvoice(j) \/ Dies(j)
      PROVE  IInv'
  BY <1>3, MoveStep, ChargeStep, IssueStep
<1>4. CASE UNCHANGED vars
  <2>1. UNCHANGED <<serial, pc, snapshot, statement, stored, charges, invoices, collected,
                    accrued, absorbed, clock>> /\ TypeOK'
    BY <1>4 DEF vars, IInv, TypeOK
  <2>2. (Times /\ HasLatest /\ Placed /\ NetFits)'
    BY <2>1 DEF IInv, Times, HasLatest, Placed, NetFits, Increment
  <2>3. (Alone /\ UpToDate /\ Latest /\ Covered /\ MoneyIsOnRecord)'
    BY <2>1 DEF IInv, Alone, Running, UpToDate, Latest, Covered, MoneyIsOnRecord, Owed
  <2> QED BY <2>1, <2>2, <2>3 DEF IInv
<1> QED BY <1>1, <1>2, <1>3, <1>4 DEF Next

-----------------------------------------------------------------------------
(* The theorems.                                                           *)

\* The inductive invariant holds throughout.
THEOREM Inductive == Spec => []IInv
  BY InitInv, NextInv, PTL DEF Spec

\* Type correctness of the billing job.
THEOREM TypeCorrect == Spec => []TypeOK
<1>1. IInv => TypeOK
  BY DEF IInv
<1> QED BY <1>1, Inductive, PTL

\* Runs that do not overlap bill each dollar of the watermark once.
THEOREM NothingBilledTwice == Spec => []IncrementsAddUp
<1>1. IInv => IncrementsAddUp
  BY WatermarkIsAccrued DEF IInv, IncrementsAddUp
<1> QED BY <1>1, Inductive, PTL

\* They collect no more than was proven, but for the credits they do not settle.
THEOREM OnlyProvenIsCollected == Spec => []CollectedIsProven
<1>1. IInv => CollectedIsProven
  BY WatermarkIsAccrued DEF IInv, Covered, CollectedIsProven
<1> QED BY <1>1, Inductive, PTL

\* Overlapping runs, too, take money and issue invoices on record only.
THEOREM MoneyOnRecord == Spec => []MoneyIsOnRecord
<1>1. IInv => MoneyIsOnRecord
  BY DEF IInv
<1> QED BY <1>1, Inductive, PTL
=============================================================================

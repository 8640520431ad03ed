------------------------------ MODULE Billing ------------------------------
(***************************************************************************)
(* The monthly billing job, for one merchant.                              *)
(*                                                                         *)
(* A run of the job reads the ledger, computes the lower bound that the    *)
(* previous month's cohort proves, and bills what this exceeds the         *)
(* watermark by, which is the bound that the latest statement states.  It  *)
(* appends its statement, charges Stripe, and issues an invoice.  The      *)
(* ledger moves under it, cron or an operator may start it again, and      *)
(* nothing resumes a run that died.                                        *)
(***************************************************************************)
EXTENDS Integers, FiniteSets

CONSTANTS
  Jobs,       \* runs of the job
  Periods,    \* bound: months with a cohort to bill
  MaxLift,    \* the highest lower bound, in units of which the fee is the 12%
  Changes     \* bound: entries that change what a cohort proves

ASSUME BillingAssumption ==
  Periods \in Nat \ {0} /\ MaxLift \in Nat \ {0} /\ Changes \in Nat

Cohorts == 1..Periods
Lifts == 0..MaxLift

VARIABLES
  serial,      \* is the job never started while it runs
  live,        \* AX10M_LIVE_BILLING, with Stripe as the charger
  payer,       \* the account's track: none (not opted in), invoice, auto_pay
  period,      \* the month before the current one
  lift,        \* per cohort: lowerDollarsCum, as the ledger now has it
  changes,     \* how often the ledger has changed it
  clock,       \* for occurredAt
  pc,          \* per run: idle, compute, append, charge, invoice, done, dead
  snapshot,    \* per run: what it read, the lifts and the watermark
  statement,   \* per run: the signed statement
  stored,      \* the runs whose uplift.statement is in the ledger
  charges,     \* the runs whose PaymentIntent succeeded
  invoices,    \* per period at most one, with the run whose statement it states
  collected,   \* the fees charged, in all
  accrued,     \* the sum of the stored statements' increments
  absorbed     \* and of the negative ones among them

vars == <<serial, live, payer, period, lift, changes, clock, pc, snapshot, statement,
          stored, charges, invoices, collected, accrued, absorbed>>

NoSnapshot == [lift |-> [c \in Cohorts |-> 0], prior |-> 0]
NoStatement ==
  [period |-> 1, prior |-> 0, cum |-> 0, billable |-> FALSE, net |-> 0, at |-> 0]

Init ==
  /\ serial \in BOOLEAN /\ live \in BOOLEAN
  /\ payer \in {"none", "invoice", "auto_pay"}
  /\ period = 1 /\ changes = 0 /\ clock = 0
  /\ lift = [c \in Cohorts |-> 0]
  /\ pc = [j \in Jobs |-> "idle"]
  /\ snapshot = [j \in Jobs |-> NoSnapshot]
  /\ statement = [j \in Jobs |-> NoStatement]
  /\ stored = {} /\ charges = {}
  /\ invoices = {}
  /\ collected = 0 /\ accrued = 0 /\ absorbed = 0

Running == {j \in Jobs : pc[j] \in {"compute", "append", "charge", "invoice"}}

-----------------------------------------------------------------------------
(* Around the job.                                                         *)

\* A recovery, a reversal or a reinstatement; also an assignment, this month.
LedgerMoves ==
  /\ changes < Changes /\ changes' = changes + 1
  /\ \E c \in Cohorts, v \in Lifts :
       /\ c <= period + 1 /\ v # lift[c]
       /\ lift' = [lift EXCEPT ![c] = v]
  /\ UNCHANGED <<serial, live, payer, period, clock, pc, snapshot, statement, stored,
                 charges, invoices, collected, accrued, absorbed>>

NextMonth ==
  /\ period < Periods /\ period' = period + 1
  /\ UNCHANGED <<serial, live, payer, lift, changes, clock, pc, snapshot, statement,
                 stored, charges, invoices, collected, accrued, absorbed>>

\* A merchant opts in, or in again on the other track.
OptIn ==
  /\ payer' \in {"invoice", "auto_pay"} \ {payer}
  /\ UNCHANGED <<serial, live, period, lift, changes, clock, pc, snapshot, statement,
                 stored, charges, invoices, collected, accrued, absorbed>>

-----------------------------------------------------------------------------
(* A run.                                                                  *)

\* The bug of a watermark that is the highest one.
HighestWatermark ==
  IF stored = {} THEN 0
  ELSE LET top == CHOOSE j \in stored :
                    \A k \in stored : statement[k].cum <= statement[j].cum
       IN statement[top].cum

\* The statement with the latest occurredAt has it, whichever was appended last.
priorBilledFromLedger ==
  IF stored = {} THEN 0
  ELSE LET latest == CHOOSE j \in stored :
                       \A k \in stored : statement[k].at <= statement[j].at
       IN statement[latest].cum

ReadLedger(j) ==
  /\ pc[j] = "idle" /\ (serial => Running = {})
  /\ pc' = [pc EXCEPT ![j] = "compute"]
  /\ snapshot' = [snapshot EXCEPT ![j] = [lift |-> lift, prior |-> priorBilledFromLedger]]
  /\ UNCHANGED <<serial, live, payer, period, lift, changes, clock, statement, stored,
                 charges, invoices, collected, accrued, absorbed>>

AtLeastZero(n) == IF n < 0 THEN 0 ELSE n

\* The bug of a fee on all that the cohort proves.
FeeOnAll(increment, cum, billable) == IF billable THEN cum ELSE 0

\* A gate withholds a positive fee; a negative one is a credit.
Fee(increment, cum, billable) == IF billable \/ increment < 0 THEN increment ELSE 0

\* The bug of a net that may be negative.
NetOwed(fee, credit) == fee - credit

\* The holdout credit is at most the fee, and what is left is not below zero.
NetBilled(fee, credit) == AtLeastZero(fee - credit)

\* The time is taken only now, and the rest is computed.  The gates other than that of a
\* positive bound, and the holdout credit, are whatever the cohort makes them.
Compute(j) ==
  /\ pc[j] = "compute"
  /\ pc' = [pc EXCEPT ![j] = "append"]
  /\ clock' = clock + 1
  /\ \E gates \in BOOLEAN :
       LET cum == snapshot[j].lift[period]
           prior == snapshot[j].prior
           billable == gates /\ cum > 0
           fee == Fee(cum - prior, cum, billable)
       IN \E credit \in 0..AtLeastZero(fee) :
            statement' = [statement EXCEPT ![j] =
              [period |-> period, prior |-> prior, cum |-> cum, billable |-> billable,
               net |-> NetBilled(fee, credit), at |-> clock']]
  /\ snapshot' = [snapshot EXCEPT ![j] = NoSnapshot]
  /\ UNCHANGED <<serial, live, payer, period, lift, changes, stored, charges, invoices,
                 collected, accrued, absorbed>>

Increment(j) == statement[j].cum - statement[j].prior
Owed(j) == statement[j].billable /\ statement[j].net > 0

\* The bug of a job that goes on when the append is rejected.
AppendStatementOrNot(j) ==
  /\ pc[j] = "append"
  /\ pc' = [pc EXCEPT ![j] = "charge"]
  /\ \/ /\ stored' = stored \union {j}
        /\ accrued' = accrued + Increment(j)
        /\ absorbed' = absorbed + AtLeastZero(0 - Increment(j))
     \/ UNCHANGED <<stored, accrued, absorbed>>
  /\ UNCHANGED <<serial, live, payer, period, lift, changes, clock, snapshot, statement,
                 charges, invoices, collected>>

AppendStatement(j) ==
  /\ pc[j] = "append"
  /\ pc' = [pc EXCEPT ![j] = "charge"]
  /\ stored' = stored \union {j}
  /\ accrued' = accrued + Increment(j)
  /\ absorbed' = absorbed + AtLeastZero(0 - Increment(j))
  /\ UNCHANGED <<serial, live, payer, period, lift, changes, clock, snapshot, statement,
                 charges, invoices, collected>>

\* Nothing is to be collected, by this charger, or it is declined.
NoCharge(j) ==
  /\ pc[j] = "charge"
  /\ pc' = [pc EXCEPT ![j] = "invoice"]
  /\ UNCHANGED <<serial, live, payer, period, lift, changes, clock, snapshot, statement,
                 stored, charges, invoices, collected, accrued, absorbed>>

\* Stripe collects, whether its answer arrives or not.  The idempotency key is of this run
\* alone, since the statement's hash covers the time it was generated.
Charge(j) ==
  /\ pc[j] = "charge" /\ live /\ Owed(j) /\ payer = "auto_pay"
  /\ pc' = [pc EXCEPT ![j] = "invoice"]
  /\ charges' = charges \union {j}
  /\ collected' = collected + statement[j].net
  /\ UNCHANGED <<serial, live, payer, period, lift, changes, clock, snapshot, statement,
                 stored, invoices, accrued, absorbed>>

\* upsertInvoice: the invoice number is of the period.
Upsert(p, j) == {i \in invoices : i.period # p} \union {[period |-> p, run |-> j]}

\* The period's invoice is inserted or replaced, whether it was charged or not.
IssueInvoice(j) ==
  /\ pc[j] = "invoice"
  /\ pc' = [pc EXCEPT ![j] = "done"]
  /\ invoices' = IF Owed(j) /\ payer # "none" THEN Upsert(statement[j].period, j)
                 ELSE invoices
  /\ UNCHANGED <<serial, live, payer, period, lift, changes, clock, snapshot, statement,
                 stored, charges, collected, accrued, absorbed>>

\* The process dies, or a query or the append is rejected, which ends it as well.
Dies(j) ==
  /\ j \in Running
  /\ pc' = [pc EXCEPT ![j] = "dead"]
  /\ UNCHANGED <<serial, live, payer, period, lift, changes, clock, snapshot, statement,
                 stored, charges, invoices, collected, accrued, absorbed>>

Next ==
  \/ LedgerMoves \/ NextMonth \/ OptIn
  \/ \E j \in Jobs :
       \/ ReadLedger(j) \/ Compute(j) \/ AppendStatement(j)
       \/ NoCharge(j) \/ Charge(j) \/ IssueInvoice(j) \/ Dies(j)

Spec == Init /\ [][Next]_vars
-----------------------------------------------------------------------------
\* The variables keep their types, and each run its own time.
TypeOK ==
  /\ serial \in BOOLEAN /\ live \in BOOLEAN
  /\ payer \in {"none", "invoice", "auto_pay"}
  /\ period \in Cohorts /\ changes \in 0..Changes /\ clock \in Nat
  /\ lift \in [Cohorts -> Lifts]
  /\ pc \in [Jobs -> {"idle", "compute", "append", "charge", "invoice", "done", "dead"}]
  /\ snapshot \in [Jobs -> [lift : [Cohorts -> Lifts], prior : Lifts]]
  /\ statement \in [Jobs -> [period : Cohorts, prior : Lifts, cum : Lifts,
                             billable : BOOLEAN, net : Lifts, at : Nat]]
  /\ stored \subseteq Jobs /\ charges \subseteq Jobs
  /\ invoices \subseteq [period : Cohorts, run : Jobs]
  /\ collected \in Nat /\ accrued \in Int /\ absorbed \in Nat

\* Runs that do not overlap bill a dollar of the watermark's rise once: wherever a run
\* dies, and however the cohorts move meanwhile, the increments of the statements add up
\* to the watermark, neither more (billed again) nor less (skipped).
IncrementsAddUp == serial => accrued = priorBilledFromLedger

\* What such runs collect exceeds the watermark by no more than the credits they state
\* and do not settle.
CollectedIsProven == serial => collected <= priorBilledFromLedger + absorbed

\* No money is taken and no invoice issued without its statement in the ledger: for that
\* period, billable, and for a net amount; overlapping runs and dying ones included.
MoneyIsOnRecord ==
  /\ \A j \in charges : j \in stored /\ Owed(j)
  /\ \A i \in invoices :
       i.run \in stored /\ Owed(i.run) /\ i.period = statement[i.run].period

\* What docs/ATTRIBUTION.md says: never bill above the cumulative bound.
NeverAboveCumulative ==
  serial => \/ collected = 0
            \/ \E j \in stored : collected <= statement[j].cum
=============================================================================

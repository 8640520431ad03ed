------------------------------- MODULE Intake -------------------------------
(***************************************************************************)
(* From a processor's webhook to a saga: RecoveryCaseService.handleEvent,  *)
(* openCase, planRecovery and the dispatch to Temporal, in one API process *)
(* that handles webhooks concurrently and may restart.                     *)
(*                                                                         *)
(* A processor redelivers what is not answered, and also what is.  The set *)
(* of opened cases is in memory and is filled before the append it guards. *)
(* Temporal refuses a workflow id that is running, not one that has run.   *)
(* Sagas are seen from here: they run, may collect, and end (RecoverySaga).*)
(***************************************************************************)
EXTENDS Onboarding

CONSTANTS
  Deliveries,    \* webhooks the processor sends at most
  Customers,
  Guest,         \* the invoices' customerId when there is none
  CustomerOf,    \* whose invoice it is
  Strata,
  Restarts,      \* bound: restarts of the API
  MaxSagas       \* bound: sagas of one invoice

ASSUME IntakeAssumption ==
  /\ CustomerOf \in [Invoices -> Customers \union {Guest}]
  /\ Guest \notin Customers
  /\ Restarts \in Nat /\ MaxSagas \in Nat

Buckets == {"control", "treatment"}

VARIABLES
  arm,        \* per unit: which side of the control fraction its hash is on
  dispatching,   \* durable dispatch: off, shadow, or live (liveCharging)
  opened,     \* openedInvoices, in memory
  restarts,   \* how often the process has restarted
  message,    \* per delivery: what it reports
  pc,         \* per delivery: future, queued, assign, plan, dispatch, acked
  assigned,   \* the ledger's holdout.assigned entries: how many, per invoice and bucket
  planned,    \* invoices with a recovery.planned entry
  workflow,   \* per invoice: none, running, closed
  sagas,      \* per invoice: how many workflows were started
  collected,  \* invoices AX10M collected and ledgered
  paid        \* invoices the merchant's own stack collected

intake == <<arm, dispatching, opened, restarts, message, pc, assigned, planned,
            workflow, sagas, collected, paid>>
vars == <<onboarding, intake>>

Failures ==
  [type : {"invoice.failed"}, invoice : Invoices, stratum : Strata, method : BOOLEAN]
Payments == [type : {"invoice.paid"}, invoice : Invoices]
Messages == Failures \union Payments
NoMessage == [type |-> "none"]

\* A customer's invoices share a unit, a guest's invoice is one of its own.
Unit(i) == IF CustomerOf[i] = Guest THEN i ELSE CustomerOf[i]
Units == {Unit(i) : i \in Invoices}

\* assign: the stratum is deliberately left out.
Bucket(i, stratum) == arm[Unit(i)]

Init ==
  /\ OnboardingInit
  /\ arm \in [Units -> Buckets]
  /\ dispatching \in {"off", "shadow", "live"}
  /\ opened = {} /\ restarts = 0
  /\ message = [d \in Deliveries |-> NoMessage]
  /\ pc = [d \in Deliveries |-> "future"]
  /\ assigned = [i \in Invoices |-> [b \in Buckets |-> 0]]
  /\ planned = {}
  /\ workflow = [i \in Invoices |-> "none"]
  /\ sagas = [i \in Invoices |-> 0]
  /\ collected = {} /\ paid = {}

-----------------------------------------------------------------------------
(* The processor.                                                          *)

Send(d, m) ==
  /\ pc[d] = "future"
  /\ pc' = [pc EXCEPT ![d] = "queued"]
  /\ message' = [message EXCEPT ![d] = m]
  /\ UNCHANGED <<arm, dispatching, opened, restarts, assigned, planned, workflow,
                 sagas, collected, paid, onboarding>>

\* A first charge fails, or one of the merchant's or of a saga.
ReportFailure(d) ==
  \E m \in Failures : m.invoice \notin collected \union paid /\ Send(d, m)

ReportPaid(d) ==
  \E m \in Payments : m.invoice \in collected \union paid /\ Send(d, m)

Redeliver(d) ==
  \E sent \in Deliveries : pc[sent] # "future" /\ Send(d, message[sent])

MerchantCollects(i) ==
  /\ i \notin collected \union paid
  /\ paid' = paid \union {i}
  /\ UNCHANGED <<arm, dispatching, opened, restarts, message, pc, assigned, planned,
                 workflow, sagas, collected, onboarding>>

-----------------------------------------------------------------------------
(* The handler of a webhook.                                               *)

Move(d, to) == pc' = [pc EXCEPT ![d] = to]
Rejected(d) == Move(d, "queued")    \* not answered with success: it comes again

\* What follows openCase: the shadow observation, and for treatment the plan.
CaseOpened(d) ==
  /\ RecordFailure(message[d].invoice)
  /\ Move(d, IF Bucket(message[d].invoice, message[d].stratum) = "treatment"
             THEN "plan" ELSE "acked")

\* The bug of a redelivered failure that is taken for treatment.
ReopenAsTreatment(d) ==
  /\ pc[d] = "queued" /\ message[d].type = "invoice.failed"
  /\ message[d].invoice \in opened
  /\ RecordFailure(message[d].invoice) /\ Move(d, "plan")
  /\ UNCHANGED <<arm, dispatching, opened, restarts, message, assigned, planned,
                 workflow, sagas, collected, paid>>

\* A case this process has opened is not assigned again.
Reopen(d) ==
  /\ pc[d] = "queued" /\ message[d].type = "invoice.failed"
  /\ message[d].invoice \in opened
  /\ CaseOpened(d)
  /\ UNCHANGED <<arm, dispatching, opened, restarts, message, assigned, planned,
                 workflow, sagas, collected, paid>>

\* The bug of a case that counts as opened only when its entry is stored.
OpenCaseLate(d) ==
  /\ pc[d] = "queued" /\ message[d].type = "invoice.failed"
  /\ message[d].invoice \notin opened
  /\ Move(d, "assign")
  /\ UNCHANGED <<arm, dispatching, opened, restarts, message, assigned, planned,
                 workflow, sagas, collected, paid, onboarding>>

\* The case counts as opened from before the append on.
OpenCase(d) ==
  /\ pc[d] = "queued" /\ message[d].type = "invoice.failed"
  /\ message[d].invoice \notin opened
  /\ opened' = opened \union {message[d].invoice}
  /\ Move(d, "assign")
  /\ UNCHANGED <<arm, dispatching, restarts, message, assigned, planned, workflow,
                 sagas, collected, paid, onboarding>>

AppendAssigned(d) ==
  LET i == message[d].invoice IN
  /\ pc[d] = "assign"
  /\ assigned' = [assigned EXCEPT ![i][Bucket(i, message[d].stratum)] = @ + 1]
  /\ CaseOpened(d)
  /\ UNCHANGED <<arm, dispatching, opened, restarts, message, planned, workflow,
                 sagas, collected, paid>>

\* planAttempt appends the engine's decision.
AppendPlanned(d) ==
  /\ pc[d] = "plan"
  /\ planned' = planned \union {message[d].invoice}
  /\ Move(d, IF dispatching # "off" /\ message[d].method THEN "dispatch" ELSE "acked")
  /\ UNCHANGED <<arm, dispatching, opened, restarts, message, assigned, workflow,
                 sagas, collected, paid, onboarding>>

\* The bug of a dispatcher that swallows every error.
DispatchSwallowing(d) ==
  /\ pc[d] = "dispatch"
  /\ Move(d, "acked")
  /\ UNCHANGED <<arm, dispatching, opened, restarts, message, assigned, planned,
                 workflow, sagas, collected, paid, onboarding>>

\* A workflow with the invoice's id is running: swallowed.
DispatchAlreadyStarted(d) ==
  /\ pc[d] = "dispatch" /\ workflow[message[d].invoice] = "running"
  /\ Move(d, "acked")
  /\ UNCHANGED <<arm, dispatching, opened, restarts, message, assigned, planned,
                 workflow, sagas, collected, paid, onboarding>>

\* Temporal starts the workflow; its answer may be lost.
Dispatch(d) ==
  LET i == message[d].invoice IN
  /\ pc[d] = "dispatch" /\ workflow[i] # "running" /\ sagas[i] < MaxSagas
  /\ workflow' = [workflow EXCEPT ![i] = "running"]
  /\ sagas' = [sagas EXCEPT ![i] = @ + 1]
  /\ Move(d, "acked") \/ Rejected(d)
  /\ UNCHANGED <<arm, dispatching, opened, restarts, message, assigned, planned,
                 collected, paid, onboarding>>

\* An append or the dispatch throws.
HandlerFails(d) ==
  /\ pc[d] \in {"assign", "plan", "dispatch"}
  /\ Rejected(d)
  /\ UNCHANGED <<arm, dispatching, opened, restarts, message, assigned, planned,
                 workflow, sagas, collected, paid, onboarding>>

\* invoice.paid is taken for the merchant's own recovery; nothing else happens.
HandlePaid(d) ==
  /\ pc[d] = "queued" /\ message[d].type = "invoice.paid"
  /\ RecordBaselineRecovery(message[d].invoice)
  /\ Move(d, "acked")
  /\ UNCHANGED <<arm, dispatching, opened, restarts, message, assigned, planned,
                 workflow, sagas, collected, paid>>

Restart ==
  /\ restarts < Restarts
  /\ restarts' = restarts + 1
  /\ opened' = {}
  /\ pc' = [d \in Deliveries |-> IF pc[d] \in {"assign", "plan", "dispatch"}
                                 THEN "queued" ELSE pc[d]]
  /\ Forget
  /\ UNCHANGED <<arm, dispatching, message, assigned, planned, workflow, sagas,
                 collected, paid>>

-----------------------------------------------------------------------------
(* Sagas and operators.                                                    *)

\* A saga ends; a live one may have collected, or meets what an earlier one collected.
SagaEnds(i) ==
  /\ workflow[i] = "running"
  /\ workflow' = [workflow EXCEPT ![i] = "closed"]
  /\ \/ dispatching = "live" /\ i \notin paid /\ collected' = collected \union {i}
     \/ UNCHANGED collected
  /\ UNCHANGED <<arm, dispatching, opened, restarts, message, pc, assigned, planned,
                 sagas, paid, onboarding>>

Operate == (Connect \/ Activate) /\ UNCHANGED intake

Handle(d) ==
  \/ Reopen(d) \/ OpenCase(d) \/ AppendAssigned(d) \/ AppendPlanned(d)
  \/ DispatchAlreadyStarted(d) \/ Dispatch(d) \/ HandlePaid(d)

Next ==
  \/ \E d \in Deliveries : \/ ReportFailure(d) \/ ReportPaid(d) \/ Redeliver(d)
                           \/ Handle(d) \/ HandlerFails(d)
  \/ \E i \in Invoices : MerchantCollects(i) \/ SagaEnds(i)
  \/ Restart
  \/ Operate

Spec == Init /\ [][Next]_vars
-----------------------------------------------------------------------------
Entries(i) == assigned[i]["control"] + assigned[i]["treatment"]

\* The variables keep their types.
TypeOK ==
  /\ OnboardingTypeOK
  /\ arm \in [Units -> Buckets] /\ dispatching \in {"off", "shadow", "live"}
  /\ opened \subseteq Invoices /\ restarts \in 0..Restarts
  /\ message \in [Deliveries -> Messages \union {NoMessage}]
  /\ \A d \in Deliveries : pc[d] = "future" <=> message[d] = NoMessage
  /\ pc \in [Deliveries -> {"future", "queued", "assign", "plan", "dispatch", "acked"}]
  /\ assigned \in [Invoices -> [Buckets -> Nat]]
  /\ planned \subseteq Invoices
  /\ workflow \in [Invoices -> {"none", "running", "closed"}]
  /\ sagas \in [Invoices -> 0..MaxSagas]
  /\ \A i \in Invoices : workflow[i] = "none" <=> sagas[i] = 0
  /\ collected \subseteq Invoices /\ paid \subseteq Invoices

\* Whatever is redelivered, with whatever stratum and after whatever restart, the ledger
\* never puts two invoices of one customer, or one invoice twice, in different arms.
OneArmPerUnit ==
  \A i, j \in Invoices :
    Unit(i) = Unit(j) => ~(assigned[i]["control"] > 0 /\ assigned[j]["treatment"] > 0)

\* The control arm stays a counterfactual: no invoice of a unit the ledger has in control
\* is planned or recovered, and no saga runs without its plan in the ledger.
ControlIsUntouched ==
  \A i \in Invoices :
    /\ i \in planned => \A j \in Invoices : Unit(i) = Unit(j) => assigned[j]["control"] = 0
    /\ sagas[i] > 0 => i \in planned
    /\ i \in collected => sagas[i] > 0

\* Concurrent deliveries of one failure assign it once in the life of the process: the
\* uplift counts an invoice once more for a restart at most.
AssignedOncePerLife == \A i \in Invoices : Entries(i) <= restarts + 1

\* A failed treatment invoice whose webhook was answered has got its saga: no crash,
\* failed append or refused start between the webhook and the saga loses it.
AckedIsDispatched ==
  \A d \in Deliveries :
    LET i == message[d].invoice IN
    (/\ pc[d] = "acked" /\ message[d] \in Failures /\ message[d].method
     /\ dispatching # "off" /\ arm[Unit(i)] = "treatment") => sagas[i] > 0
=============================================================================

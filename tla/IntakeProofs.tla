---------------------------- MODULE IntakeProofs ----------------------------
(***************************************************************************)
(* Proofs about Intake, for any number of webhooks, invoices, customers,   *)
(* strata, restarts and sagas.                                             *)
(*                                                                         *)
(* The safety properties are not inductive: what is acknowledged or        *)
(* assigned depends on what the handlers under way have established.       *)
(* HandlerKnows says it for each of their steps, and Opening that a case   *)
(* has one handler that assigns it at most, in each life of the process.   *)
(***************************************************************************)
EXTENDS Intake, TLAPS

\* The deliveries whose handler is appending the assignment of invoice i.
Assigning(i) == {d \in Deliveries : pc[d] = "assign" /\ message[d].invoice = i}

\* The ledger has an invoice in the arm of its unit and in no other.
ArmsKept ==
  \A i \in Invoices : \A b \in Buckets : assigned[i][b] > 0 => b = arm[Unit(i)]

\* What a handler has established at each of its steps.
HandlerKnows ==
  \A d \in Deliveries :
    /\ pc[d] \in {"assign", "plan", "dispatch"} => message[d] \in Failures
    /\ pc[d] \in {"plan", "dispatch"} => arm[Unit(message[d].invoice)] = "treatment"
    /\ pc[d] = "dispatch" => message[d].invoice \in planned

\* What is planned is treatment, what runs was planned, what is collected was run.
Treated ==
  \A i \in Invoices :
    /\ i \in planned => arm[Unit(i)] = "treatment"
    /\ sagas[i] > 0 => i \in planned
    /\ i \in collected => sagas[i] > 0

\* In each life of the process one handler at most assigns a case.
Opening ==
  \A i \in Invoices :
    /\ \A d, e \in Assigning(i) : d = e
    /\ Assigning(i) # {} => i \in opened /\ Entries(i) <= restarts
    /\ i \notin opened => Entries(i) <= restarts
    /\ Entries(i) <= restarts + 1

IInv ==
  /\ TypeOK /\ ArmsKept /\ HandlerKnows /\ Treated /\ Opening
  /\ AckedIsDispatched /\ ActivationIsMeasured

-----------------------------------------------------------------------------
(* Helpers.                                                                *)

\* A message that was sent is none of the placeholders, and its type tells its fields.
LEMMA MessageKinds ==
  /\ NoMessage \notin Messages
  /\ \A m \in Messages : m.type = "invoice.failed" <=> m \in Failures
  /\ \A m \in Messages : m.invoice \in Invoices
  BY DEF Messages, Failures, Payments, NoMessage

\* A delivery that was sent carries a message about an invoice.
LEMMA Sent ==
  ASSUME TypeOK, NEW d \in Deliveries, pc[d] # "future"
  PROVE  message[d] \in Messages /\ message[d].invoice \in Invoices
  BY MessageKinds DEF TypeOK

\* The bucket is the arm of the invoice's unit, whatever the stratum.
LEMMA BucketIsArm ==
  ASSUME TypeOK, NEW i \in Invoices, NEW s
  PROVE  Bucket(i, s) = arm[Unit(i)] /\ arm[Unit(i)] \in Buckets
  BY DEF TypeOK, Bucket, Units

\* Onboarding's steps keep its types and what a merchant was activated on.
LEMMA OnboardingSteps ==
  ASSUME OnboardingTypeOK, ActivationIsMeasured,
         \/ Connect \/ Activate \/ Forget \/ UNCHANGED onboarding
         \/ \E i \in Invoices : RecordFailure(i) \/ RecordBaselineRecovery(i)
  PROVE  OnboardingTypeOK' /\ ActivationIsMeasured'
<1> USE DEF OnboardingTypeOK, ActivationIsMeasured, Ready
<1>1. CASE Connect \/ Forget
  BY <1>1 DEF Connect, Forget
<1>2. CASE Activate \/ UNCHANGED onboarding
  BY <1>2 DEF Activate, onboarding, Ready
<1>3. ASSUME NEW i \in Invoices, RecordFailure(i)
      PROVE  OnboardingTypeOK' /\ ActivationIsMeasured'
  BY <1>3 DEF RecordFailure, onboarding
<1>4. ASSUME NEW i \in Invoices, RecordBaselineRecovery(i)
      PROVE  OnboardingTypeOK' /\ ActivationIsMeasured'
  BY <1>4 DEF RecordBaselineRecovery, onboarding
<1> QED BY <1>1, <1>2, <1>3, <1>4

\* The initial states satisfy the invariant.
LEMMA InitInv == Init => IInv
<1> SUFFICES ASSUME Init PROVE IInv
  OBVIOUS
<1> USE IntakeAssumption DEF Init, OnboardingInit
<1>1. TypeOK
  BY MessageKinds DEF TypeOK, OnboardingTypeOK, Buckets, Messages
<1>2. Opening
  BY DEF Opening, Assigning, Entries, Buckets
<1> QED
  BY <1>1, <1>2
  DEF IInv, ArmsKept, HandlerKnows, Treated, AckedIsDispatched, ActivationIsMeasured, Buckets

-----------------------------------------------------------------------------
(* Steps outside the handlers.                                             *)

\* A webhook that is sent is known to no handler.
LEMMA SendStep ==
  ASSUME IInv, NEW d \in Deliveries, NEW m \in Messages, Send(d, m)
  PROVE  IInv'
<1> USE IntakeAssumption DEF IInv
<1>1. OnboardingTypeOK' /\ ActivationIsMeasured'
  BY OnboardingSteps DEF Send, TypeOK
<1>2. TypeOK'
  BY <1>1, MessageKinds DEF Send, TypeOK
<1>3. ArmsKept'
  BY BucketIsArm DEF Send, TypeOK, ArmsKept
<1>4. HandlerKnows'
  BY MessageKinds, BucketIsArm DEF Send, TypeOK, HandlerKnows
<1>5. Treated'
  BY DEF Send, TypeOK, Treated
<1>6. Opening'
  BY DEF Send, TypeOK, Opening, Assigning, Entries
<1>7. AckedIsDispatched'
  BY MessageKinds, BucketIsArm DEF Send, TypeOK, AckedIsDispatched
<1> QED BY <1>1, <1>2, <1>3, <1>4, <1>5, <1>6, <1>7

\* What the merchant collects concerns no handler.
LEMMA MerchantStep ==
  ASSUME IInv, NEW i \in Invoices, MerchantCollects(i)
  PROVE  IInv'
<1> USE IntakeAssumption DEF IInv
<1>1. OnboardingTypeOK' /\ ActivationIsMeasured'
  BY OnboardingSteps DEF MerchantCollects, TypeOK
<1>2. TypeOK'
  BY <1>1, MessageKinds DEF MerchantCollects, TypeOK
<1>3. ArmsKept'
  BY BucketIsArm DEF MerchantCollects, TypeOK, ArmsKept
<1>4. HandlerKnows'
  BY MessageKinds, BucketIsArm DEF MerchantCollects, TypeOK, HandlerKnows
<1>5. Treated'
  BY DEF MerchantCollects, TypeOK, Treated
<1>6. Opening'
  BY DEF MerchantCollects, TypeOK, Opening, Assigning, Entries
<1>7. AckedIsDispatched'
  BY MessageKinds, BucketIsArm DEF MerchantCollects, TypeOK, AckedIsDispatched
<1> QED BY <1>1, <1>2, <1>3, <1>4, <1>5, <1>6, <1>7

\* A saga that ends has been started, and was planned.
LEMMA SagaStep ==
  ASSUME IInv, NEW i \in Invoices, SagaEnds(i)
  PROVE  IInv'
<1> USE IntakeAssumption DEF IInv
<1>1. OnboardingTypeOK' /\ ActivationIsMeasured'
  BY OnboardingSteps DEF SagaEnds, TypeOK
<1>2. TypeOK'
  BY <1>1, MessageKinds DEF SagaEnds, TypeOK
<1>3. ArmsKept'
  BY BucketIsArm DEF SagaEnds, TypeOK, ArmsKept
<1>4. HandlerKnows'
  BY MessageKinds, BucketIsArm DEF SagaEnds, TypeOK, HandlerKnows
<1>5. Treated'
  BY DEF SagaEnds, TypeOK, Treated
<1>6. Opening'
  BY DEF SagaEnds, TypeOK, Opening, Assigning, Entries
<1>7. AckedIsDispatched'
  BY MessageKinds, BucketIsArm DEF SagaEnds, TypeOK, AckedIsDispatched
<1> QED BY <1>1, <1>2, <1>3, <1>4, <1>5, <1>6, <1>7

\* A case that was opened goes on without another entry.
LEMMA ReopenStep ==
  ASSUME IInv, NEW d \in Deliveries, Reopen(d)
  PROVE  IInv'
<1> USE IntakeAssumption DEF IInv
<1>0. message[d] \in Messages /\ message[d].invoice \in Invoices
  BY Sent DEF Reopen
<1>1. OnboardingTypeOK' /\ ActivationIsMeasured'
  BY <1>0, OnboardingSteps DEF Reopen, CaseOpened, Move, TypeOK
<1>2. TypeOK'
  BY <1>0, <1>1, MessageKinds DEF Reopen, CaseOpened, Move, TypeOK
<1>3. ArmsKept'
  BY <1>0, BucketIsArm DEF Reopen, CaseOpened, Move, TypeOK, ArmsKept
<1>4. HandlerKnows'
  BY <1>0, MessageKinds, BucketIsArm DEF Reopen, CaseOpened, Move, TypeOK, HandlerKnows
<1>5. Treated'
  BY <1>0 DEF Reopen, CaseOpened, Move, TypeOK, Treated
<1>6. Opening'
  BY <1>0 DEF Reopen, CaseOpened, Move, TypeOK, Opening, Assigning, Entries
<1>7. AckedIsDispatched'
  BY <1>0, MessageKinds, BucketIsArm DEF Reopen, CaseOpened, Move, TypeOK, AckedIsDispatched
<1> QED BY <1>1, <1>2, <1>3, <1>4, <1>5, <1>6, <1>7

\* A case counts as opened from before its entry on.
LEMMA OpenStep ==
  ASSUME IInv, NEW d \in Deliveries, OpenCase(d)
  PROVE  IInv'
<1> USE IntakeAssumption DEF IInv
<1>0. message[d] \in Messages /\ message[d].invoice \in Invoices
  BY Sent DEF OpenCase
<1>1. OnboardingTypeOK' /\ ActivationIsMeasured'
  BY <1>0, OnboardingSteps DEF OpenCase, Move, TypeOK
<1>2. TypeOK'
  BY <1>0, <1>1, MessageKinds DEF OpenCase, Move, TypeOK
<1>3. ArmsKept'
  BY <1>0, BucketIsArm DEF OpenCase, Move, TypeOK, ArmsKept
<1>4. HandlerKnows'
  BY <1>0, MessageKinds, BucketIsArm DEF OpenCase, Move, TypeOK, HandlerKnows
<1>5. Treated'
  BY <1>0 DEF OpenCase, Move, TypeOK, Treated
<1>6. Opening'
  BY <1>0 DEF OpenCase, Move, TypeOK, Opening, Assigning, Entries
<1>7. AckedIsDispatched'
  BY <1>0, MessageKinds, BucketIsArm DEF OpenCase, Move, TypeOK, AckedIsDispatched
<1> QED BY <1>1, <1>2, <1>3, <1>4, <1>5, <1>6, <1>7

\* The one handler that opened a case appends its entry, in the arm of its unit.
LEMMA AssignStep ==
  ASSUME IInv, NEW d \in Deliveries, AppendAssigned(d)
  PROVE  IInv'
<1> USE IntakeAssumption DEF IInv
<1>0. message[d] \in Messages /\ message[d].invoice \in Invoices
  BY Sent DEF AppendAssigned
<1>1. OnboardingTypeOK' /\ ActivationIsMeasured'
  BY <1>0, OnboardingSteps DEF AppendAssigned, CaseOpened, Move, TypeOK
<1>2. TypeOK'
  <2>1. Bucket(message[d].invoice, message[d].stratum) \in Buckets
    BY <1>0, BucketIsArm
  <2>2. assigned' \in [Invoices -> [Buckets -> Nat]]
    BY <1>0, <2>1 DEF AppendAssigned, TypeOK
  <2>3. pc' \in [Deliveries ->
                   {"future", "queued", "assign", "plan", "dispatch", "acked"}]
    BY DEF AppendAssigned, CaseOpened, Move, TypeOK
  <2>4. \A e \in Deliveries : pc'[e] = "future" <=> pc[e] = "future"
    BY DEF AppendAssigned, CaseOpened, Move, TypeOK
  <2> QED
    BY <1>1, <2>2, <2>3, <2>4 DEF AppendAssigned, TypeOK
<1>3. ArmsKept'
  BY <1>0, BucketIsArm DEF AppendAssigned, CaseOpened, Move, TypeOK, ArmsKept
<1>4. HandlerKnows'
  BY <1>0, MessageKinds, BucketIsArm DEF AppendAssigned, CaseOpened, Move, TypeOK, HandlerKnows
<1>5. Treated'
  BY <1>0 DEF AppendAssigned, CaseOpened, Move, TypeOK, Treated
<1>6. Opening'
  <2>1. PICK i \in Invoices : i = message[d].invoice
    BY <1>0
  <2>2. PICK b \in Buckets : b = Bucket(i, message[d].stratum)
    BY <2>1, BucketIsArm
  <2>3. d \in Assigning(i) /\ i \in opened /\ Entries(i) <= restarts
    BY <2>1 DEF AppendAssigned, Assigning, Opening
  <2>4. Assigning(i)' = {}
    BY <2>1, <2>3 DEF AppendAssigned, CaseOpened, Move, Assigning, Opening, TypeOK
  <2>5. \A j \in Invoices \ {i} : Assigning(j)' = Assigning(j) /\ Entries(j)' = Entries(j)
    BY <2>1 DEF AppendAssigned, CaseOpened, Move, Assigning, Entries, TypeOK
  <2>6. Entries(i)' = Entries(i) + 1
    <3>1. assigned'[i] = [assigned[i] EXCEPT ![b] = @ + 1]
      BY <2>1, <2>2 DEF AppendAssigned, TypeOK
    <3>2. assigned[i] \in [Buckets -> Nat]
      BY DEF TypeOK
    <3> QED BY <2>2, <3>1, <3>2 DEF Entries, Buckets
  <2>7. opened' = opened /\ restarts' = restarts
    BY DEF AppendAssigned
  <2>8. Entries(i) \in Nat /\ restarts \in Nat
    BY DEF Entries, TypeOK, Buckets
  <2>9. \A j \in Invoices \ {i} :
          /\ \A e, f \in Assigning(j) : e = f
          /\ Assigning(j) # {} => j \in opened /\ Entries(j) <= restarts
          /\ j \notin opened => Entries(j) <= restarts
          /\ Entries(j) <= restarts + 1
    BY DEF Opening
  <2> QED BY <2>3, <2>4, <2>5, <2>6, <2>7, <2>8, <2>9 DEF Opening
<1>7. AckedIsDispatched'
  BY <1>0, MessageKinds, BucketIsArm DEF AppendAssigned, CaseOpened, Move, TypeOK, AckedIsDispatched
<1> QED BY <1>1, <1>2, <1>3, <1>4, <1>5, <1>6, <1>7

\* Only treatment is planned, and answered only if nothing is to dispatch.
LEMMA PlanStep ==
  ASSUME IInv, NEW d \in Deliveries, AppendPlanned(d)
  PROVE  IInv'
<1> USE IntakeAssumption DEF IInv
<1>0. message[d] \in Messages /\ message[d].invoice \in Invoices
  BY Sent DEF AppendPlanned
<1>1. OnboardingTypeOK' /\ ActivationIsMeasured'
  BY <1>0, OnboardingSteps DEF AppendPlanned, Move, TypeOK
<1>2. TypeOK'
  BY <1>0, <1>1, MessageKinds DEF AppendPlanned, Move, TypeOK
<1>3. ArmsKept'
  BY <1>0, BucketIsArm DEF AppendPlanned, Move, TypeOK, ArmsKept
<1>4. HandlerKnows'
  BY <1>0, MessageKinds, BucketIsArm DEF AppendPlanned, Move, TypeOK, HandlerKnows
<1>5. Treated'
  <2>1. arm[Unit(message[d].invoice)] = "treatment"
    BY DEF AppendPlanned, HandlerKnows
  <2> QED BY <1>0, <2>1 DEF AppendPlanned, Treated
<1>6. Opening'
  BY <1>0 DEF AppendPlanned, Move, TypeOK, Opening, Assigning, Entries
<1>7. AckedIsDispatched'
  BY <1>0, MessageKinds, BucketIsArm DEF AppendPlanned, Move, TypeOK, AckedIsDispatched
<1> QED BY <1>1, <1>2, <1>3, <1>4, <1>5, <1>6, <1>7

\* A workflow that runs was started.
LEMMA AlreadyStep ==
  ASSUME IInv, NEW d \in Deliveries, DispatchAlreadyStarted(d)
  PROVE  IInv'
<1> USE IntakeAssumption DEF IInv
<1>0. message[d] \in Messages /\ message[d].invoice \in Invoices
  BY Sent DEF DispatchAlreadyStarted
<1>1. OnboardingTypeOK' /\ ActivationIsMeasured'
  BY <1>0, OnboardingSteps DEF DispatchAlreadyStarted, Move, TypeOK
<1>2. TypeOK'
  BY <1>0, <1>1, MessageKinds DEF DispatchAlreadyStarted, Move, TypeOK
<1>3. ArmsKept'
  BY <1>0, BucketIsArm DEF DispatchAlreadyStarted, Move, TypeOK, ArmsKept
<1>4. HandlerKnows'
  BY <1>0, MessageKinds, BucketIsArm DEF DispatchAlreadyStarted, Move, TypeOK, HandlerKnows
<1>5. Treated'
  BY <1>0 DEF DispatchAlreadyStarted, Move, TypeOK, Treated
<1>6. Opening'
  BY <1>0 DEF DispatchAlreadyStarted, Move, TypeOK, Opening, Assigning, Entries
<1>7. AckedIsDispatched'
  BY <1>0, MessageKinds, BucketIsArm DEF DispatchAlreadyStarted, Move, TypeOK, AckedIsDispatched
<1> QED BY <1>1, <1>2, <1>3, <1>4, <1>5, <1>6, <1>7

\* A started workflow is counted before the webhook is answered.
LEMMA DispatchStep ==
  ASSUME IInv, NEW d \in Deliveries, Dispatch(d)
  PROVE  IInv'
<1> USE IntakeAssumption DEF IInv
<1>0. message[d] \in Messages /\ message[d].invoice \in Invoices
  BY Sent DEF Dispatch
<1>1. OnboardingTypeOK' /\ ActivationIsMeasured'
  BY <1>0, OnboardingSteps DEF Dispatch, Move, Rejected, TypeOK
<1>2. TypeOK'
  <2>1. /\ workflow' \in [Invoices -> {"none", "running", "closed"}]
        /\ sagas' \in [Invoices -> 0..MaxSagas]
    BY <1>0 DEF Dispatch, TypeOK
  <2>2. \A i \in Invoices : workflow'[i] = "none" <=> sagas'[i] = 0
    BY <1>0 DEF Dispatch, TypeOK
  <2>3. /\ pc' \in [Deliveries ->
                      {"future", "queued", "assign", "plan", "dispatch", "acked"}]
        /\ \A e \in Deliveries : pc'[e] = "future" <=> pc[e] = "future"
    BY DEF Dispatch, Move, Rejected, TypeOK
  <2> QED
    BY <1>1, <2>1, <2>2, <2>3 DEF Dispatch, TypeOK
<1>3. ArmsKept'
  BY <1>0, BucketIsArm DEF Dispatch, Move, Rejected, TypeOK, ArmsKept
<1>4. HandlerKnows'
  BY <1>0, MessageKinds, BucketIsArm DEF Dispatch, Move, Rejected, TypeOK, HandlerKnows
<1>5. Treated'
  <2>1. message[d].invoice \in planned
    BY DEF Dispatch, HandlerKnows
  <2>2. \A i \in Invoices : sagas'[i] > 0 => sagas[i] > 0 \/ i = message[d].invoice
    BY <1>0 DEF Dispatch, TypeOK
  <2>3. \A i \in Invoices : sagas[i] > 0 => sagas'[i] > 0
    BY <1>0 DEF Dispatch, TypeOK
  <2> QED BY <2>1, <2>2, <2>3 DEF Dispatch, Treated
<1>6. Opening'
  BY <1>0 DEF Dispatch, Move, Rejected, TypeOK, Opening, Assigning, Entries
<1>7. AckedIsDispatched'
  BY <1>0, MessageKinds, BucketIsArm DEF Dispatch, Move, Rejected, TypeOK, AckedIsDispatched
<1> QED BY <1>1, <1>2, <1>3, <1>4, <1>5, <1>6, <1>7

\* A payment concerns the onboarding only.
LEMMA PaidStep ==
  ASSUME IInv, NEW d \in Deliveries, HandlePaid(d)
  PROVE  IInv'
<1> USE IntakeAssumption DEF IInv
<1>0. message[d] \in Messages /\ message[d].invoice \in Invoices
  BY Sent DEF HandlePaid
<1>1. OnboardingTypeOK' /\ ActivationIsMeasured'
  BY <1>0, OnboardingSteps DEF HandlePaid, Move, TypeOK
<1>2. TypeOK'
  BY <1>0, <1>1, MessageKinds DEF HandlePaid, Move, TypeOK
<1>3. ArmsKept'
  BY <1>0, BucketIsArm DEF HandlePaid, Move, TypeOK, ArmsKept
<1>4. HandlerKnows'
  BY <1>0, MessageKinds, BucketIsArm DEF HandlePaid, Move, TypeOK, HandlerKnows
<1>5. Treated'
  BY <1>0 DEF HandlePaid, Move, TypeOK, Treated
<1>6. Opening'
  BY <1>0 DEF HandlePaid, Move, TypeOK, Opening, Assigning, Entries
<1>7. AckedIsDispatched'
  <2>1. message[d] \notin Failures
    BY <1>0, MessageKinds DEF HandlePaid
  <2> QED BY <2>1 DEF HandlePaid, Move, TypeOK, AckedIsDispatched
<1> QED BY <1>1, <1>2, <1>3, <1>4, <1>5, <1>6, <1>7

\* A handler that fails forgets what it had established.
LEMMA FailStep ==
  ASSUME IInv, NEW d \in Deliveries, HandlerFails(d)
  PROVE  IInv'
<1> USE IntakeAssumption DEF IInv
<1>0. message[d] \in Messages /\ message[d].invoice \in Invoices
  BY Sent DEF HandlerFails
<1>1. OnboardingTypeOK' /\ ActivationIsMeasured'
  BY <1>0, OnboardingSteps DEF HandlerFails, Move, Rejected, TypeOK
<1>2. TypeOK'
  BY <1>0, <1>1, MessageKinds DEF HandlerFails, Move, Rejected, TypeOK
<1>3. ArmsKept'
  BY <1>0, BucketIsArm DEF HandlerFails, Move, Rejected, TypeOK, ArmsKept
<1>4. HandlerKnows'
  BY <1>0, MessageKinds, BucketIsArm DEF HandlerFails, Move, Rejected, TypeOK, HandlerKnows
<1>5. Treated'
  BY <1>0 DEF HandlerFails, Move, Rejected, TypeOK, Treated
<1>6. Opening'
  BY <1>0 DEF HandlerFails, Move, Rejected, TypeOK, Opening, Assigning, Entries
<1>7. AckedIsDispatched'
  BY <1>0, MessageKinds, BucketIsArm DEF HandlerFails, Move, Rejected, TypeOK, AckedIsDispatched
<1> QED BY <1>1, <1>2, <1>3, <1>4, <1>5, <1>6, <1>7

\* After a restart no handler is under way and no case is open.
LEMMA RestartStep ==
  ASSUME IInv, Restart
  PROVE  IInv'
<1> USE IntakeAssumption DEF IInv
<1>1. OnboardingTypeOK' /\ ActivationIsMeasured'
  BY OnboardingSteps DEF Restart, Forget, TypeOK
<1>2. TypeOK'
  BY <1>1, MessageKinds DEF Restart, Forget, TypeOK
<1>3. ArmsKept'
  BY BucketIsArm DEF Restart, Forget, TypeOK, ArmsKept
<1>4. HandlerKnows'
  BY MessageKinds, BucketIsArm DEF Restart, Forget, TypeOK, HandlerKnows
<1>5. Treated'
  BY DEF Restart, Forget, TypeOK, Treated
<1>6. Opening'
  <2>1. \A i \in Invoices : Assigning(i)' = {} /\ Entries(i)' = Entries(i)
    BY DEF Restart, Assigning, Entries, TypeOK
  <2>2. \A i \in Invoices : Entries(i) \in Nat /\ Entries(i) <= restarts + 1
    BY DEF Opening, Entries, TypeOK, Buckets
  <2>3. restarts' = restarts + 1 /\ restarts \in Nat
    BY DEF Restart, TypeOK
  <2> QED BY <2>1, <2>2, <2>3 DEF Opening
<1>7. AckedIsDispatched'
  BY MessageKinds, BucketIsArm DEF Restart, Forget, TypeOK, AckedIsDispatched
<1> QED BY <1>1, <1>2, <1>3, <1>4, <1>5, <1>6, <1>7

-----------------------------------------------------------------------------
(* The theorems.                                                           *)

\* Connecting and activating concern the onboarding only.
LEMMA OperateStep ==
  ASSUME IInv, Operate
  PROVE  IInv'
<1> USE DEF IInv
<1>1. OnboardingTypeOK' /\ ActivationIsMeasured'
  BY OnboardingSteps DEF Operate, TypeOK
<1>2. UNCHANGED intake
  BY DEF Operate
<1> QED
  BY <1>1, <1>2
  DEF intake, TypeOK, ArmsKept, HandlerKnows, Treated, Opening, Assigning, Entries,
      AckedIsDispatched

\* Every step keeps the invariant: one case per action.
LEMMA NextInv == IInv /\ [Next]_vars => IInv'
<1> SUFFICES ASSUME IInv, [Next]_vars PROVE IInv'
  OBVIOUS
<1>1. ASSUME NEW d \in Deliveries, ReportFailure(d) \/ ReportPaid(d) \/ Redeliver(d)
      PROVE  IInv'
  <2>1. \E m \in Messages : Send(d, m)
    BY <1>1, Sent DEF ReportFailure, ReportPaid, Redeliver, Messages, IInv
  <2> QED BY <2>1, SendStep
<1>2. ASSUME NEW d \in Deliveries, Handle(d)
      PROVE  IInv'
  BY <1>2, ReopenStep, OpenStep, AssignStep, PlanStep, AlreadyStep, DispatchStep, PaidStep
  DEF Handle
<1>3. ASSUME NEW d \in Deliveries, HandlerFails(d)
      PROVE  IInv'
  BY <1>3, FailStep
<1>4. ASSUME NEW i \in Invoices, MerchantCollects(i) \/ SagaEnds(i)
      PROVE  IInv'
  BY <1>4, MerchantStep, SagaStep
<1>5. CASE Restart
  BY <1>5, RestartStep
<1>6. CASE Operate
  BY <1>6, OperateStep
<1>7. CASE UNCHANGED vars
  BY <1>7
  DEF vars, onboarding, intake, IInv, TypeOK, OnboardingTypeOK, ArmsKept, HandlerKnows,
      Treated, Opening, Assigning, Entries, AckedIsDispatched, ActivationIsMeasured, Ready
<1> QED
  BY <1>1, <1>2, <1>3, <1>4, <1>5, <1>6, <1>7 DEF Next

\* The inductive invariant holds throughout.
THEOREM Inductive == Spec => []IInv
  BY InitInv, NextInv, PTL DEF Spec

\* Type correctness of the intake and the onboarding.
THEOREM TypeCorrect == Spec => []TypeOK
<1>1. IInv => TypeOK
  BY DEF IInv
<1> QED BY <1>1, Inductive, PTL

\* The ledger never has the invoices of one unit in different arms.
THEOREM OneArm == Spec => []OneArmPerUnit
<1>1. IInv => OneArmPerUnit
  BY DEF IInv, ArmsKept, OneArmPerUnit, Buckets
<1> QED BY <1>1, Inductive, PTL

\* No invoice of a control unit is planned, recovered or collected.
THEOREM ControlUntouched == Spec => []ControlIsUntouched
<1>1. IInv => ControlIsUntouched
  <2> SUFFICES ASSUME IInv PROVE ControlIsUntouched
    OBVIOUS
  <2>1. \A j \in Invoices : assigned[j]["control"] > 0 => arm[Unit(j)] = "control"
    BY DEF IInv, ArmsKept, Buckets
  <2>2. \A j \in Invoices : assigned[j]["control"] \in Nat
    BY DEF IInv, TypeOK, Buckets
  <2> QED BY <2>1, <2>2 DEF IInv, Treated, ControlIsUntouched
<1> QED BY <1>1, Inductive, PTL

\* Racing deliveries assign an invoice once in each life of the process.
THEOREM AssignedOnce == Spec => []AssignedOncePerLife
<1>1. IInv => AssignedOncePerLife
  BY DEF IInv, Opening, AssignedOncePerLife
<1> QED BY <1>1, Inductive, PTL

\* A treatment failure whose webhook was answered has its saga.
THEOREM NoCaseLost == Spec => []AckedIsDispatched
<1>1. IInv => AckedIsDispatched
  BY DEF IInv
<1> QED BY <1>1, Inductive, PTL

\* What a merchant was activated on stays what justified it.
THEOREM ActivationStays == Spec => []ActivationIsMeasured
<1>1. IInv => ActivationIsMeasured
  BY DEF IInv
<1> QED BY <1>1, Inductive, PTL
=============================================================================

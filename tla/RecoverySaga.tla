---------------------------- MODULE RecoverySaga ----------------------------
(***************************************************************************)
(* One failed invoice, recovered by one durable saga.                      *)
(*                                                                         *)
(* The workflow (packages/scheduler/src/driver.ts) owns the attempt        *)
(* number: it plans, sleeps, runs the executeAttempt activity and decides  *)
(* what follows.  An activity is at-least-once: Temporal starts another    *)
(* try of it after a crash, a thrown error or the start-to-close timeout,  *)
(* with the same attempt number and the same saga time.  A try that timed  *)
(* out is not stopped; with Zombies it goes on beside its successor.       *)
(*                                                                         *)
(* Each try runs executeRecovery (recovery-case.service.ts), one action    *)
(* per awaited call: between two of them other tries run, and a crash is   *)
(* a try that takes no further step.                                       *)
(*                                                                         *)
(* Abstracted: features, rationale and amounts; the choice of the policy   *)
(* is any its rules allow; the in-process outcome statistics and the       *)
(* bandit's learning; the delivery of the dunning message.                 *)
(***************************************************************************)
EXTENDS Integers, FiniteSets, Guardrail

CONSTANTS
  MaxAttempts,   \* SchedulerConfig.maxAttempts
  MaxTries,      \* the activity retry policy's maximumAttempts
  Backoffs,      \* what the engine's retryAt can lie ahead, in hours
  RetryCap,      \* GuardrailPolicy.maxRetryAttempts
  NetworkCap,    \* the network's maxAttemptsPerWindow
  MinInterval,   \* the network's minMinutesBetween, in hours
  Policies,      \* which policies may be wired
  Zombies        \* whether a timed-out try can still run

ASSUME BoundsAssumption ==
  /\ MaxAttempts \in Nat \ {0}
  /\ MaxTries \in Nat \ {0}
  /\ RetryCap \in Nat /\ NetworkCap \in Nat /\ MinInterval \in Nat

ASSUME ChoicesAssumption ==
  /\ Backoffs \subseteq Nat
  /\ Policies \subseteq {"cost_aware", "bandit"}
  /\ Zombies \in BOOLEAN

AttemptNumbers == 1..MaxAttempts
Slots == AttemptNumbers \X (1..MaxTries)      \* the tries of every activity
Credentials == {"orig", "refreshed", "backup"}
Keys == Credentials \X AttemptNumbers         \* idempotency keys

Phases == {"plan", "execute", "settle", "stopped"}
Outcomes == {"succeeded", "failed", "pending"}
Stops == {"recovered", "exhausted", "engine_suppressed", "guardrail_suppressed",
          "card_update_comms", "shadow_complete", "pending_handoff", "workflow_failed"}
Steps == {"idle", "window", "decide", "suppress", "refresh", "backup", "freshWindow",
          "propose", "count", "record", "recover", "comms", "return", "done"}
Results == Outcomes \union {"none", "shadowed", "guardrail_suppressed",
                            "engine_suppressed", "card_update_comms"}
EntryTypes == {"recovery.planned", "charge.attempted", "charge.succeeded",
               "charge.failed", "case.recovered", "action.suppressed", "comms.sent"}
Entries == [type : EntryTypes, cred : Credentials, n : AttemptNumbers, try : 0..MaxTries]

(***************************************************************************)
(* The decline codes the policies and the guardrail tell apart.            *)
(***************************************************************************)
DeclineCodes == {"insufficient_funds", "fraudulent", "expired_card", "lost_card"}
Taxonomy(code) ==
  [family |-> CASE code = "insufficient_funds" -> "soft"
                [] code = "lost_card" -> "hard"
                [] OTHER -> "gray",
   blocked |-> code \in {"fraudulent", "expired_card"}]

VARIABLES
  shadow, decline, policy,           \* the case and the deployment: never change
  phase, attempt, try, status,       \* the workflow
  nowIso,                            \* saga time at which attempt n executes
  step, cred, seen, result,          \* each try: next step, credential, window read, result
  attempts, lastAt,                  \* the per-credential counter store
  answer,                            \* the processor's first answer to each key
  ledger                             \* entries, tagged with the try that wrote them

caseVars == <<shadow, decline, policy>>
sagaVars == <<phase, attempt, try, status, nowIso>>
tryVars == <<step, cred, seen, result>>
storeVars == <<attempts, lastAt, answer>>
vars == <<caseVars, sagaVars, tryVars, storeVars, ledger>>

NoWindow == [count |-> 0, last |-> {}]

Init ==
  /\ shadow \in BOOLEAN /\ decline \in DeclineCodes /\ policy \in Policies
  /\ phase = "plan" /\ attempt = 1 /\ try = 0 /\ status = "running"
  /\ nowIso = [n \in AttemptNumbers |-> 0]
  /\ step = [s \in Slots |-> "idle"]
  /\ cred = [s \in Slots |-> "orig"]
  /\ seen = [s \in Slots |-> NoWindow]
  /\ result = [s \in Slots |-> "none"]
  /\ attempts = [c \in Credentials |-> 0]
  /\ lastAt = [c \in Credentials |-> {}]
  /\ answer = [k \in Keys |-> "none"]
  /\ ledger = {}

Entry(type, c, n, t) == [type |-> type, cred |-> c, n |-> n, try |-> t]

(***************************************************************************)
(* What RetryPolicy.decide may answer.  A dead credential is never         *)
(* retried; only the bandit sends a live one to card-update comms.         *)
(***************************************************************************)
DeadCredential == Taxonomy(decline).family = "hard" \/ decline = "expired_card"
PolicyActions ==
  (IF DeadCredential THEN {} ELSE {"retry"})
    \union (IF DeadCredential \/ policy = "bandit" THEN {"card_update_comms"} ELSE {})
    \union (IF DeadCredential /\ policy = "cost_aware" THEN {} ELSE {"suppress"})

-----------------------------------------------------------------------------
(* The workflow: runRecoverySaga. *)

Stop(reason) == phase' = "stopped" /\ status' = reason

\* The workflow starts try t of the execute activity.
StartTry(t) ==
  /\ try' = t
  /\ step' = [step EXCEPT ![<<attempt, t>>] = "window"]

\* The plan activity, whose only effect is its ledger note.
PlanAttempt(d) ==
  /\ phase = "plan"
  /\ d \in PolicyActions
  /\ ledger' = ledger \union {Entry("recovery.planned", "orig", attempt, 0)}

\* planStep: comms and suppress end the saga before anything executes.
PlanStops ==
  /\ \/ PlanAttempt("card_update_comms") /\ Stop("card_update_comms")
     \/ PlanAttempt("suppress") /\ Stop("engine_suppressed")
  /\ UNCHANGED <<caseVars, attempt, try, nowIso, tryVars, storeVars>>

\* planStep: a retry sleeps until retryAt, then executes at the saga time of waking.
PlanThenSleep(b) ==
  /\ PlanAttempt("retry")
  /\ phase' = "execute"
  /\ nowIso' = [nowIso EXCEPT
       ![attempt] = b + (IF attempt = 1 THEN 0 ELSE nowIso[attempt - 1])]
  /\ StartTry(1)
  /\ UNCHANGED <<caseVars, attempt, status, cred, seen, result, storeVars>>

\* Every try of the plan activity failed: the workflow fails.
PlanFails ==
  /\ phase = "plan"
  /\ Stop("workflow_failed")
  /\ UNCHANGED <<caseVars, attempt, try, nowIso, tryVars, storeVars, ledger>>

Current(s) == phase = "execute" /\ s = <<attempt, try>>

\* postExecuteStep on the result of the activity's current try.
PostExecute(s) ==
  /\ Current(s) /\ step[s] = "return"
  /\ step' = [step EXCEPT ![s] = "done"]
  /\ \/ /\ result[s] = "failed" /\ attempt + 1 <= MaxAttempts
        /\ attempt' = attempt + 1 /\ phase' = "plan" /\ try' = 0
        /\ UNCHANGED status
     \/ /\ result[s] = "failed" /\ attempt + 1 > MaxAttempts
        /\ Stop("exhausted") /\ UNCHANGED <<attempt, try>>
     \/ /\ result[s] = "pending"
        /\ phase' = "settle" /\ UNCHANGED <<attempt, try, status>>
     \/ /\ result[s] = "succeeded"
        /\ Stop("recovered") /\ UNCHANGED <<attempt, try>>
     \/ /\ result[s] = "shadowed"
        /\ Stop("shadow_complete") /\ UNCHANGED <<attempt, try>>
     \/ /\ result[s] \in {"engine_suppressed", "guardrail_suppressed", "card_update_comms"}
        /\ Stop(result[s]) /\ UNCHANGED <<attempt, try>>
  /\ UNCHANGED <<caseVars, nowIso, cred, seen, result, storeVars, ledger>>

\* A pending charge: wait out the settlement window, hand off to the webhooks.
AwaitSettlement ==
  /\ phase = "settle"
  /\ Stop("pending_handoff")
  /\ UNCHANGED <<caseVars, attempt, try, nowIso, tryVars, storeVars, ledger>>

\* Bugs this development must catch: one try too many; an unlimited retry policy.
RetryActivityOffByOne ==
  /\ phase = "execute"
  /\ \/ try <= MaxTries /\ StartTry(try + 1) /\ UNCHANGED <<phase, status>>
     \/ try > MaxTries /\ Stop("workflow_failed") /\ UNCHANGED <<try, step>>
  /\ UNCHANGED <<caseVars, attempt, nowIso, cred, seen, result, storeVars, ledger>>
RetryActivityForever ==
  /\ phase = "execute"
  /\ StartTry(IF try < MaxTries THEN try + 1 ELSE try)
  /\ UNCHANGED <<caseVars, phase, status, attempt, nowIso, cred, seen, result, storeVars, ledger>>

\* The try crashed, threw, timed out, or its answer was lost.
RetryActivity ==
  /\ phase = "execute"
  /\ \/ try < MaxTries /\ StartTry(try + 1) /\ UNCHANGED <<phase, status>>
     \/ try = MaxTries /\ Stop("workflow_failed") /\ UNCHANGED <<try, step>>
  /\ UNCHANGED <<caseVars, attempt, nowIso, cred, seen, result, storeVars, ledger>>

-----------------------------------------------------------------------------
(* The execute activity: executeRecovery, attemptRecovery. *)

At(s, here) == step[s] = here /\ (Zombies \/ Current(s))
Goto(s, next) == step' = [step EXCEPT ![s] = next]
Append(s, type) == ledger' = ledger \union {Entry(type, cred[s], s[1], s[2])}

\* A charge on one credential ended with outcome o: what runs next.
AfterCharge(s, o) ==
  /\ result' = [result EXCEPT ![s] = o]
  /\ Goto(s, IF cred[s] = "orig" \/ o = "succeeded" THEN "return"
             ELSE IF cred[s] = "refreshed" THEN "backup" ELSE "comms")

ReadWindow(s) ==
  /\ \/ At(s, "window") /\ Goto(s, "decide")
     \/ At(s, "freshWindow") /\ Goto(s, "propose")
  /\ seen' = [seen EXCEPT ![s] = [count |-> attempts[cred[s]], last |-> lastAt[cred[s]]]]
  /\ UNCHANGED <<caseVars, sagaVars, cred, result, storeVars, ledger>>

Decide(s) ==
  /\ At(s, "decide")
  /\ \E d \in PolicyActions :
       Goto(s, CASE d = "retry" -> "propose"
                 [] d = "suppress" -> "suppress"
                 [] OTHER -> IF shadow THEN "comms" ELSE "refresh")
  /\ Append(s, "recovery.planned")
  /\ UNCHANGED <<caseVars, sagaVars, cred, seen, result, storeVars>>

EngineSuppress(s) ==
  /\ At(s, "suppress") /\ Goto(s, "return")
  /\ result' = [result EXCEPT ![s] = "engine_suppressed"]
  /\ Append(s, "action.suppressed")
  /\ UNCHANGED <<caseVars, sagaVars, cred, seen, storeVars>>

SendComms(s) ==
  /\ At(s, "comms") /\ Goto(s, "return")
  /\ result' = [result EXCEPT ![s] = "card_update_comms"]
  /\ ledger' = ledger \union {Entry("comms.sent", "orig", s[1], s[2])}
  /\ UNCHANGED <<caseVars, sagaVars, cred, seen, storeVars>>

\* fetchUpdatedCard, then listPaymentMethods: a fresh credential is found and its
\* charge planned, or there is none (an error counts as none).
SeekFreshCredential(s) ==
  /\ \/ \E from \in {"refresh", "backup"} :
          LET c == IF from = "refresh" THEN "refreshed" ELSE "backup" IN
          /\ At(s, from) /\ Goto(s, "freshWindow")
          /\ cred' = [cred EXCEPT ![s] = c]
          /\ ledger' = ledger \union {Entry("recovery.planned", c, s[1], s[2])}
     \/ At(s, "refresh") /\ Goto(s, "backup") /\ UNCHANGED <<cred, ledger>>
     \/ At(s, "backup") /\ Goto(s, "comms") /\ UNCHANGED <<cred, ledger>>
  /\ UNCHANGED <<caseVars, sagaVars, seen, result, storeVars>>

GuardrailPolicy ==
  [maxRetryAttempts |-> RetryCap,
   networkCaps |-> [n \in {"visa"} |->
     [maxAttemptsPerWindow |-> NetworkCap, minMinutesBetween |-> MinInterval]],
   quietHours |-> [start |-> 21, end |-> 8]]

\* The proposed charge, built from the window read earlier.
Proposed(s) ==
  [kind |-> IF cred[s] = "orig" THEN "charge_retry" ELSE "fresh_credential_charge",
   decline |-> Taxonomy(decline),
   attemptsSoFar |-> s[1] - 1,
   cardNetwork |-> "visa",
   attemptsInWindow |-> {seen[s].count},
   minutesSinceLastAttempt |-> {nowIso[s[1]] - t : t \in seen[s].last},
   localHour |-> 12, hasConsent |-> TRUE, globallyOptedOut |-> FALSE]

GuardrailAllows(s) == Allows(Proposed(s), GuardrailPolicy)

GuardrailSuppress(s) ==
  /\ At(s, "propose") /\ ~GuardrailAllows(s)
  /\ AfterCharge(s, "guardrail_suppressed")
  /\ Append(s, "action.suppressed")
  /\ UNCHANGED <<caseVars, sagaVars, cred, seen, storeVars>>

ShadowCharge(s) ==
  /\ At(s, "propose") /\ GuardrailAllows(s) /\ shadow
  /\ AfterCharge(s, "shadowed")
  /\ Append(s, "charge.attempted")
  /\ UNCHANGED <<caseVars, sagaVars, cred, seen, storeVars>>

\* The processor charges a new key and repeats its first answer to a known one.
Charge(s) ==
  LET key == <<cred[s], s[1]>> IN
  /\ At(s, "propose") /\ GuardrailAllows(s) /\ ~shadow
  /\ \E o \in Outcomes :
       /\ answer[key] \in {"none", o}
       /\ answer' = [answer EXCEPT ![key] = o]
       /\ result' = [result EXCEPT ![s] = o]
  /\ Goto(s, "count")
  /\ UNCHANGED <<caseVars, sagaVars, cred, seen, attempts, lastAt, ledger>>

IncrementAttempts(s) ==
  /\ At(s, "count") /\ Goto(s, "record")
  /\ attempts' = [attempts EXCEPT ![cred[s]] = @ + 1]
  /\ lastAt' = [lastAt EXCEPT ![cred[s]] = {nowIso[s[1]]}]
  /\ UNCHANGED <<caseVars, sagaVars, cred, seen, result, answer, ledger>>

\* Bugs this development must catch: a pending charge reported as failed; a recovery
\* that is not ledgered.
RecordChargePendingFails(s) ==
  /\ At(s, "record")
  /\ \/ /\ result[s] = "succeeded"
        /\ Goto(s, "recover") /\ Append(s, "charge.succeeded") /\ UNCHANGED result
     \/ /\ result[s] # "succeeded"
        /\ AfterCharge(s, "failed") /\ Append(s, "charge.failed")
  /\ UNCHANGED <<caseVars, sagaVars, cred, seen, storeVars>>
RecordChargeOnly(s) ==
  /\ At(s, "record")
  /\ AfterCharge(s, result[s])
  /\ Append(s, IF result[s] = "succeeded" THEN "charge.succeeded" ELSE "charge.failed")
  /\ UNCHANGED <<caseVars, sagaVars, cred, seen, storeVars>>

\* Anything but a success, pending included, is ledgered as charge.failed.
RecordCharge(s) ==
  /\ At(s, "record")
  /\ \/ /\ result[s] = "succeeded"
        /\ Goto(s, "recover") /\ Append(s, "charge.succeeded") /\ UNCHANGED result
     \/ /\ result[s] # "succeeded"
        /\ AfterCharge(s, result[s]) /\ Append(s, "charge.failed")
  /\ UNCHANGED <<caseVars, sagaVars, cred, seen, storeVars>>

RecordRecovery(s) ==
  /\ At(s, "recover")
  /\ AfterCharge(s, "succeeded")
  /\ Append(s, "case.recovered")
  /\ UNCHANGED <<caseVars, sagaVars, cred, seen, storeVars>>

-----------------------------------------------------------------------------
Workflow ==
  \/ PlanStops
  \/ \E b \in Backoffs : PlanThenSleep(b)
  \/ PlanFails
  \/ \E s \in Slots : PostExecute(s)
  \/ AwaitSettlement
  \/ RetryActivity

Execute(s) ==
  \/ ReadWindow(s) \/ Decide(s) \/ EngineSuppress(s) \/ SendComms(s)
  \/ SeekFreshCredential(s) \/ GuardrailSuppress(s) \/ ShadowCharge(s) \/ Charge(s)
  \/ IncrementAttempts(s) \/ RecordCharge(s) \/ RecordRecovery(s)

Next == Workflow \/ \E s \in Slots : Execute(s)

Spec == Init /\ [][Next]_vars

\* Temporal keeps the workflow going and times its activities out; nothing is
\* assumed of the worker that runs a try.
FairSpec == Spec /\ WF_vars(Workflow)
-----------------------------------------------------------------------------
\* The variables keep their types.
TypeOK ==
  /\ shadow \in BOOLEAN /\ decline \in DeclineCodes /\ policy \in Policies
  /\ phase \in Phases /\ status \in Stops \union {"running"}
  /\ attempt \in AttemptNumbers /\ try \in 0..MaxTries
  /\ nowIso \in [AttemptNumbers -> Nat]
  /\ step \in [Slots -> Steps]
  /\ cred \in [Slots -> Credentials]
  /\ seen \in [Slots -> [count : Nat, last : SUBSET Nat]]
  /\ result \in [Slots -> Results]
  /\ attempts \in [Credentials -> Nat]
  /\ lastAt \in [Credentials -> SUBSET Nat]
  /\ answer \in [Keys -> Outcomes \union {"none"}]
  /\ ledger \in SUBSET Entries

InFlightOrCollected(k) == answer[k] \in {"succeeded", "pending"}

\* With the default policy a case is charged successfully at most once, whatever
\* crashes, retries and late tries happen: the saga-owned attempt number makes a
\* repeated try reuse its key, and the next number is used only after a failure
\* (driver.ts, saga.ts, attemptRecovery).
ChargedOnce ==
  policy = "cost_aware" =>
    \A k, l \in Keys : InFlightOrCollected(k) /\ InFlightOrCollected(l) => k = l

\* The original card is never submitted under more keys than the network cap,
\* although the counter is read before the charge and bumped after it.
NetworkCapRespected ==
  Cardinality({n \in AttemptNumbers : answer[<<"orig", n>>] # "none"}) <= NetworkCap

\* A saga that ends `recovered` collected the money under its last attempt number
\* and ledgered case.recovered for that charge; no other case.recovered is ledgered
\* for money the processor did not report.
RecoveredIsBacked ==
  /\ status = "recovered" =>
       \E c \in Credentials : /\ answer[<<c, attempt>>] = "succeeded"
                              /\ Entry("case.recovered", c, attempt, try) \in ledger
  /\ \A e \in ledger : e.type = "case.recovered" => answer[<<e.cred, e.n>>] = "succeeded"

\* Whatever the processor was asked to charge, the same try or an earlier one had
\* ledgered a plan for, and neither a shadow case nor a refused decline is charged on
\* the original card (engine, ledger, guardrail, adapter: in that order).
ChargeIsPlannedAndLawful ==
  \A k \in Keys : answer[k] # "none" =>
    /\ \E e \in ledger : /\ e.type = "recovery.planned" /\ e.try > 0
                         /\ <<e.cred, e.n>> = k
    /\ ~shadow
    /\ k[1] = "orig" => IsRetriable(Taxonomy(decline))

\* The saga ends, with a reason, even if no worker ever finishes a try.
SagaEnds == <>(phase = "stopped" /\ status # "running")

\* What executeCredentialRecovery says: the distinct keys of fresh credentials keep
\* exactly-once, so an invoice is collected on one credential.
CollectedOnce ==
  \A k, l \in Keys : answer[k] = "succeeded" /\ answer[l] = "succeeded" => k = l
=============================================================================

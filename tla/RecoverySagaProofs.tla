------------------------- MODULE RecoverySagaProofs -------------------------
(***************************************************************************)
(* Proofs about RecoverySaga, for every value of its constants.            *)
(***************************************************************************)
EXTENDS RecoverySaga, FiniteSetTheorems, TLAPS

-----------------------------------------------------------------------------
(* Type correctness. *)

\* The initial state is typed.
LEMMA InitTyped == Init => TypeOK
<1> USE BoundsAssumption, ChoicesAssumption
<1> QED  BY DEF Init, TypeOK, NoWindow, AttemptNumbers, Slots, Keys, Credentials, Phases,
                Steps, Results, Outcomes, DeclineCodes

\* A plan only adds one well-formed ledger note.
LEMMA PlanTyped ==
  ASSUME TypeOK, NEW d, PlanAttempt(d)
  PROVE  ledger' \in SUBSET Entries
BY BoundsAssumption DEF TypeOK, PlanAttempt, Entry, Entries, EntryTypes, Credentials

\* Starting a try moves one typed slot to a typed step.
LEMMA StartTryTyped ==
  ASSUME TypeOK, NEW t \in 1..MaxTries, StartTry(t)
  PROVE  try' \in 0..MaxTries /\ step' \in [Slots -> Steps]
<1>1. t \in 0..MaxTries
  BY BoundsAssumption
<1>2. step' \in [Slots -> Steps]
  BY DEF TypeOK, StartTry, Steps
<1> QED  BY <1>1, <1>2 DEF StartTry

\* Every step of the workflow keeps the types.
LEMMA WorkflowTyped ==
  ASSUME TypeOK, Workflow
  PROVE  TypeOK'
<1> USE BoundsAssumption, ChoicesAssumption
<1>1. CASE PlanStops
  BY <1>1, PlanTyped DEF PlanStops, Stop, TypeOK, caseVars, tryVars, storeVars, Phases, Stops
<1>2. ASSUME NEW b \in Backoffs, PlanThenSleep(b)
      PROVE  TypeOK'
  <2>1. ledger' \in SUBSET Entries
    BY <1>2, PlanTyped DEF PlanThenSleep
  <2>2. try' \in 0..MaxTries /\ step' \in [Slots -> Steps]
    BY <1>2, StartTryTyped DEF PlanThenSleep
  <2>3. b + (IF attempt = 1 THEN 0 ELSE nowIso[attempt - 1]) \in Nat
    BY DEF TypeOK, AttemptNumbers
  <2>4. nowIso' \in [AttemptNumbers -> Nat]
    BY <1>2, <2>3 DEF PlanThenSleep, TypeOK
  <2> QED
    BY <1>2, <2>1, <2>2, <2>4 DEF PlanThenSleep, TypeOK, caseVars, storeVars, Phases
<1>3. CASE PlanFails
  BY <1>3 DEF PlanFails, Stop, TypeOK, caseVars, tryVars, storeVars, Phases, Stops
<1>4. ASSUME NEW s \in Slots, PostExecute(s)
      PROVE  TypeOK'
  <2>1. step' \in [Slots -> Steps]
    BY <1>4 DEF PostExecute, TypeOK, Steps
  <2>2. /\ phase' \in Phases /\ status' \in Stops \union {"running"}
        /\ attempt' \in AttemptNumbers /\ try' \in 0..MaxTries
    BY <1>4 DEF PostExecute, Stop, TypeOK, Phases, Stops, AttemptNumbers
  <2> QED
    BY <1>4, <2>1, <2>2 DEF PostExecute, TypeOK, caseVars, storeVars
<1>5. CASE AwaitSettlement
  BY <1>5 DEF AwaitSettlement, Stop, TypeOK, caseVars, tryVars, storeVars, Phases, Stops
<1>6. CASE RetryActivity
  <2>1. try' \in 0..MaxTries /\ step' \in [Slots -> Steps]
    <3>1. CASE try < MaxTries /\ StartTry(try + 1)
      BY <3>1, StartTryTyped DEF TypeOK
    <3> QED  BY <1>6, <3>1 DEF RetryActivity, TypeOK
  <2> QED
    BY <1>6, <2>1 DEF RetryActivity, Stop, TypeOK, caseVars, storeVars, Phases, Stops
<1> QED  BY <1>1, <1>2, <1>3, <1>4, <1>5, <1>6 DEF Workflow

\* What a try appends to the ledger is an entry.
LEMMA AppendTyped ==
  ASSUME TypeOK, NEW s \in Slots, NEW type \in EntryTypes, Append(s, type)
  PROVE  ledger' \in SUBSET Entries
BY BoundsAssumption DEF TypeOK, Append, Entry, Entries, Slots

\* Moving a try to a named step keeps the step function typed.
LEMMA GotoTyped ==
  ASSUME TypeOK, NEW s \in Slots, NEW next \in Steps, Goto(s, next)
  PROVE  step' \in [Slots -> Steps]
BY DEF TypeOK, Goto

\* The end of a charge leaves a typed step and result.
LEMMA AfterChargeTyped ==
  ASSUME TypeOK, NEW s \in Slots, NEW o \in Results, AfterCharge(s, o)
  PROVE  step' \in [Slots -> Steps] /\ result' \in [Slots -> Results]
BY DEF AfterCharge, Goto, TypeOK, Steps

\* Every step of a try keeps the types.
LEMMA ExecuteTyped ==
  ASSUME TypeOK, NEW s \in Slots, Execute(s)
  PROVE  TypeOK'
<1> USE BoundsAssumption DEF caseVars, sagaVars, tryVars, storeVars
<1>1. CASE ReadWindow(s)
  BY <1>1, GotoTyped DEF ReadWindow, TypeOK, Steps
<1>2. CASE Decide(s)
  <2>1. step' \in [Slots -> Steps]
    BY <1>2 DEF Decide, Goto, TypeOK, Steps
  <2>2. ledger' \in SUBSET Entries
    BY <1>2, AppendTyped DEF Decide, EntryTypes
  <2> QED  BY <1>2, <2>1, <2>2 DEF Decide, TypeOK
<1>3. CASE EngineSuppress(s)
  BY <1>3, GotoTyped, AppendTyped DEF EngineSuppress, TypeOK, Steps, Results, EntryTypes
<1>4. CASE SendComms(s)
  <2>1. ledger' \in SUBSET Entries
    BY <1>4 DEF SendComms, TypeOK, Entry, Entries, EntryTypes, Credentials, Slots
  <2> QED  BY <1>4, <2>1, GotoTyped DEF SendComms, TypeOK, Steps, Results
<1>5. CASE SeekFreshCredential(s)
  <2>1. step' \in [Slots -> Steps]
    BY <1>5 DEF SeekFreshCredential, Goto, TypeOK, Steps
  <2>2. cred' \in [Slots -> Credentials]
    BY <1>5 DEF SeekFreshCredential, TypeOK, Credentials
  <2>3. ledger' \in SUBSET Entries
    BY <1>5 DEF SeekFreshCredential, TypeOK, Entry, Entries, EntryTypes, Credentials, Slots
  <2> QED  BY <1>5, <2>1, <2>2, <2>3 DEF SeekFreshCredential, TypeOK
<1>6. CASE GuardrailSuppress(s)
  BY <1>6, AfterChargeTyped, AppendTyped DEF GuardrailSuppress, TypeOK, Results, EntryTypes
<1>7. CASE ShadowCharge(s)
  BY <1>7, AfterChargeTyped, AppendTyped DEF ShadowCharge, TypeOK, Results, EntryTypes
<1>8. CASE Charge(s)
  <2>1. step' \in [Slots -> Steps]
    BY <1>8, GotoTyped DEF Charge, Steps
  <2>2. result' \in [Slots -> Results]
    BY <1>8 DEF Charge, TypeOK, Results
  <2>3. answer' \in [Keys -> Outcomes \union {"none"}]
    BY <1>8 DEF Charge, TypeOK
  <2> QED  BY <1>8, <2>1, <2>2, <2>3 DEF Charge, TypeOK
<1>9. CASE IncrementAttempts(s)
  <2>1. step' \in [Slots -> Steps]
    BY <1>9, GotoTyped DEF IncrementAttempts, Steps
  <2>2. attempts' \in [Credentials -> Nat]
    BY <1>9 DEF IncrementAttempts, TypeOK
  <2>3. nowIso[s[1]] \in Nat
    BY DEF TypeOK, Slots
  <2>4. lastAt' \in [Credentials -> SUBSET Nat]
    BY <1>9, <2>3 DEF IncrementAttempts, TypeOK
  <2> QED  BY <1>9, <2>1, <2>2, <2>4 DEF IncrementAttempts, TypeOK
<1>10. CASE RecordCharge(s)
  <2>1. step' \in [Slots -> Steps] /\ result' \in [Slots -> Results]
    BY <1>10, AfterChargeTyped, GotoTyped DEF RecordCharge, TypeOK, Steps
  <2>2. ledger' \in SUBSET Entries
    BY <1>10, AppendTyped DEF RecordCharge, EntryTypes
  <2> QED  BY <1>10, <2>1, <2>2 DEF RecordCharge, TypeOK
<1>11. CASE RecordRecovery(s)
  BY <1>11, AfterChargeTyped, AppendTyped DEF RecordRecovery, TypeOK, Results, Outcomes, EntryTypes
<1> QED
  BY <1>1, <1>2, <1>3, <1>4, <1>5, <1>6, <1>7, <1>8, <1>9, <1>10, <1>11 DEF Execute

\* The types are inductive by themselves.
LEMMA TypedStep == TypeOK /\ [Next]_vars => TypeOK'
<1>1. ASSUME TypeOK, UNCHANGED vars
      PROVE  TypeOK'
  BY <1>1 DEF TypeOK, vars, caseVars, sagaVars, tryVars, storeVars
<1> QED  BY <1>1, WorkflowTyped, ExecuteTyped DEF Next

\* Every variable keeps its type, for any number of attempts, tries and caps.
THEOREM TypeCorrect == Spec => []TypeOK
BY InitTyped, TypedStep, PTL DEF Spec
-----------------------------------------------------------------------------
(* The inductive invariant, one named part per idea. *)

\* A key is charged only for an attempt that reached the execute activity, and a try
\* runs only there.
Reached(n) == n < attempt \/ (n = attempt /\ phase # "plan")
Frontier ==
  /\ \A s \in Slots : step[s] # "idle" => Reached(s[1])
  /\ \A k \in Keys : answer[k] # "none" => Reached(k[2])

AnswerTo(s) == answer[<<cred[s], s[1]>>]
HasFailed(s) == /\ cred[s] = "orig" /\ answer[<<"orig", s[1]>>] = "failed"
                /\ attempts["orig"] >= s[1]

\* What a try knows at each step of the processor's answer, the counter and the ledger.
Knows(s) ==
  /\ step[s] \in {"count", "record", "recover"} => result[s] = AnswerTo(s) /\ result[s] \in Outcomes
  /\ step[s] = "recover" => result[s] = "succeeded"
  /\ step[s] = "record" /\ cred[s] = "orig" => attempts["orig"] >= s[1]
  /\ step[s] = "return" /\ result[s] = "failed" => HasFailed(s)
  /\ step[s] = "return" /\ result[s] = "succeeded" =>
       /\ AnswerTo(s) = "succeeded"
       /\ Entry("case.recovered", cred[s], s[1], s[2]) \in ledger
  /\ step[s] \in {"decide", "propose"} /\ cred[s] = "orig" => seen[s].count >= s[1] - 1

TryKnows == \A s \in Slots : Knows(s)

\* The attempts before the current one failed on the original card and were counted.
EarlierFailed ==
  /\ attempts["orig"] >= attempt - 1
  /\ \A n \in AttemptNumbers : n < attempt => answer[<<"orig", n>>] = "failed"

\* The counter stands between a key number and the cap.
UnderCap == \A n \in AttemptNumbers : answer[<<"orig", n>>] # "none" => n <= NetworkCap

Planned(c, n, t) == Entry("recovery.planned", c, n, t) \in ledger
PlannedFirst ==
  \A s \in Slots : step[s] \in {"freshWindow", "propose"} => Planned(cred[s], s[1], s[2])

Terminal == status = "recovered" => phase = "stopped"

OnlyOriginal ==
  policy = "cost_aware" =>
    /\ \A s \in Slots : /\ cred[s] = "orig"
                        /\ step[s] \notin {"refresh", "backup", "freshWindow", "comms"}
    /\ \A k \in Keys : k[1] # "orig" => answer[k] = "none"
    /\ DeadCredential => phase \in {"plan", "stopped"} /\ \A s \in Slots : step[s] = "idle"

-----------------------------------------------------------------------------
(* What a step of a try leaves alone. *)

\* A step of a try touches neither the workflow nor any other try.
LEMMA ExecuteFrame ==
  ASSUME TypeOK, NEW s \in Slots, Execute(s)
  PROVE  /\ UNCHANGED <<caseVars, sagaVars>>
         /\ step[s] # "idle"
         /\ \A r \in Slots : r # s => /\ step'[r] = step[r] /\ cred'[r] = cred[r]
                                      /\ seen'[r] = seen[r] /\ result'[r] = result[r]
         /\ ledger \subseteq ledger'
<1> USE DEF At, Goto, TypeOK, tryVars, storeVars, AfterCharge, Append
<1>1. CASE ReadWindow(s)
  BY <1>1 DEF ReadWindow
<1>2. CASE Decide(s)
  BY <1>2 DEF Decide
<1>3. CASE EngineSuppress(s)
  BY <1>3 DEF EngineSuppress
<1>4. CASE SendComms(s)
  BY <1>4 DEF SendComms
<1>5. CASE SeekFreshCredential(s)
  BY <1>5 DEF SeekFreshCredential
<1>6. CASE GuardrailSuppress(s)
  BY <1>6 DEF GuardrailSuppress
<1>7. CASE ShadowCharge(s)
  BY <1>7 DEF ShadowCharge
<1>8. CASE Charge(s)
  BY <1>8 DEF Charge
<1>9. CASE IncrementAttempts(s)
  BY <1>9 DEF IncrementAttempts
<1>10. CASE RecordCharge(s)
  BY <1>10 DEF RecordCharge
<1>11. CASE RecordRecovery(s)
  BY <1>11 DEF RecordRecovery
<1> QED
  BY <1>1, <1>2, <1>3, <1>4, <1>5, <1>6, <1>7, <1>8, <1>9, <1>10, <1>11 DEF Execute

\* An answer, once given, stays; a new one answers the key of a try that is charging.
LEMMA AnswersStay ==
  ASSUME TypeOK, [Next]_vars, NEW k \in Keys, answer'[k] # answer[k]
  PROVE  /\ answer[k] = "none" /\ answer'[k] \in Outcomes
         /\ \E s \in Slots : /\ Charge(s) /\ k = <<cred[s], s[1]>>
                             /\ result'[s] = answer'[k]
<1> USE DEF storeVars, TypeOK
<1>1. CASE UNCHANGED vars
  BY <1>1 DEF vars
<1>2. CASE Workflow
  BY <1>2 DEF Workflow, PlanStops, PlanThenSleep, PlanFails, PostExecute, AwaitSettlement, RetryActivity
<1>3. ASSUME NEW s \in Slots, Execute(s)
      PROVE  /\ answer[k] = "none" /\ answer'[k] \in Outcomes
             /\ Charge(s) /\ k = <<cred[s], s[1]>> /\ result'[s] = answer'[k]
  <2>1. Charge(s)
    BY <1>3 DEF Execute, ReadWindow, Decide, EngineSuppress, SendComms, SeekFreshCredential,
                GuardrailSuppress, ShadowCharge, IncrementAttempts, RecordCharge, RecordRecovery
  <2> QED  BY <2>1 DEF Charge, Outcomes
<1> QED  BY <1>1, <1>2, <1>3 DEF Next

-----------------------------------------------------------------------------
(* Frontier. *)

\* Only the running activity, and those before it, have tries and answers.
LEMMA FrontierStep ==
  ASSUME TypeOK, Frontier, [Next]_vars
  PROVE  Frontier'
<1> USE DEF caseVars, sagaVars, tryVars, storeVars
<1>1. CASE UNCHANGED vars
  BY <1>1 DEF vars, Frontier, Reached
<1>2. CASE PlanStops \/ PlanFails \/ AwaitSettlement
  BY <1>2 DEF PlanStops, PlanFails, AwaitSettlement, PlanAttempt, Stop, Frontier, Reached
<1>3. ASSUME NEW b \in Backoffs, PlanThenSleep(b)
      PROVE  Frontier'
  BY <1>3 DEF PlanThenSleep, PlanAttempt, StartTry, Frontier, Reached, TypeOK
<1>4. ASSUME NEW s \in Slots, PostExecute(s)
      PROVE  Frontier'
  <2>1. /\ attempt' \in {attempt, attempt + 1} /\ phase = "execute"
        /\ attempt' = attempt => phase' # "plan"
        /\ attempt \in Int
    BY <1>4 DEF PostExecute, Current, Stop, TypeOK, AttemptNumbers
  <2>2. \A n \in AttemptNumbers : Reached(n) => Reached(n)'
    BY <2>1 DEF Reached, AttemptNumbers
  <2>3. \A r \in Slots : step'[r] # "idle" => step[r] # "idle"
    BY <1>4 DEF PostExecute, TypeOK
  <2> QED  BY <1>4, <2>2, <2>3 DEF PostExecute, Frontier, Slots, Keys
<1>5. CASE RetryActivity
  BY <1>5 DEF RetryActivity, StartTry, Stop, Frontier, Reached, TypeOK
<1>6. ASSUME NEW s \in Slots, Execute(s)
      PROVE  Frontier'
  <2>1. \A r \in Slots : step'[r] # "idle" => step[r] # "idle"
    BY <1>6, ExecuteFrame
  <2>2. ASSUME NEW k \in Keys, answer'[k] # answer[k]
        PROVE  Reached(k[2])
    <3>1. PICK r \in Slots : Charge(r) /\ k = <<cred[r], r[1]>>
      BY <2>2, AnswersStay
    <3>2. step[r] = "propose"
      BY <3>1 DEF Charge, At
    <3> QED  BY <3>1, <3>2 DEF Frontier
  <2> QED  BY <1>6, <2>1, <2>2, ExecuteFrame DEF Frontier, Reached
<1> QED  BY <1>1, <1>2, <1>3, <1>4, <1>5, <1>6 DEF Next, Workflow

-----------------------------------------------------------------------------
(* Earlier attempts failed on the original card, and were counted. *)

\* The counter of attempts never goes back.
LEMMA CounterGrows ==
  ASSUME TypeOK, [Next]_vars
  PROVE  /\ attempts["orig"] \in Nat /\ attempts'["orig"] \in Nat
         /\ attempts'["orig"] >= attempts["orig"]
<1> USE DEF storeVars, TypeOK, Credentials
<1>1. CASE UNCHANGED vars
  BY <1>1 DEF vars
<1>2. CASE Workflow
  BY <1>2 DEF Workflow, PlanStops, PlanThenSleep, PlanFails, PostExecute, AwaitSettlement, RetryActivity
<1>3. ASSUME NEW s \in Slots, Execute(s)
      PROVE  attempts'["orig"] \in {attempts["orig"], attempts["orig"] + 1}
  BY <1>3 DEF Execute, ReadWindow, Decide, EngineSuppress, SendComms, SeekFreshCredential,
              GuardrailSuppress, ShadowCharge, Charge, IncrementAttempts, RecordCharge, RecordRecovery
<1> QED  BY <1>1, <1>2, <1>3 DEF Next

\* Nothing another process does makes a try's knowledge false.
LEMMA KnowledgeStays ==
  ASSUME TypeOK, [Next]_vars, NEW s \in Slots, Knows(s), ledger \subseteq ledger',
         step'[s] = step[s] \/ step'[s] \in {"idle", "window", "done"},
         cred'[s] = cred[s], seen'[s] = seen[s], result'[s] = result[s]
  PROVE  Knows(s)'
<1>1. \A k \in Keys : answer[k] # "none" => answer'[k] = answer[k]
  BY AnswersStay
<1>2. /\ <<cred[s], s[1]>> \in Keys /\ <<"orig", s[1]>> \in Keys
      /\ s[1] \in Int
  BY DEF TypeOK, Keys, Slots, Credentials, AttemptNumbers
<1>3. step[s] \in {"count", "record", "recover"} => AnswerTo(s)' = AnswerTo(s)
  BY <1>1, <1>2 DEF Knows, AnswerTo, Outcomes
<1>4. HasFailed(s) => HasFailed(s)'
  BY <1>1, <1>2, CounterGrows DEF HasFailed
<1>5. AnswerTo(s) = "succeeded" => AnswerTo(s)' = "succeeded"
  BY <1>1, <1>2 DEF AnswerTo
<1> QED
  BY <1>2, <1>3, <1>4, <1>5, CounterGrows DEF Knows, Entry

\* After its own step a try knows what its program counter says it knows.
LEMMA ExecuteKnows ==
  ASSUME TypeOK, Frontier, EarlierFailed, NEW s \in Slots, Knows(s), Execute(s)
  PROVE  Knows(s)'
<1>1. /\ s[1] \in AttemptNumbers /\ cred[s] \in Credentials /\ result[s] \in Results
      /\ attempts["orig"] \in Nat /\ s[1] \in Int /\ attempt \in Int
      /\ <<cred[s], s[1]>> \in Keys
  BY DEF TypeOK, Slots, Keys, Credentials, AttemptNumbers
<1>2. attempts["orig"] >= s[1] - 1
  BY <1>1, ExecuteFrame DEF Frontier, Reached, EarlierFailed
<1> USE DEF At, Goto, TypeOK, AfterCharge
<1>3. CASE ReadWindow(s)
  <2>1. step'[s] = "decide" \/ step'[s] = "propose"
    BY <1>3 DEF ReadWindow
  <2>2. cred[s] = "orig" => seen'[s].count = attempts["orig"]
    BY <1>3 DEF ReadWindow
  <2> QED  BY <1>1, <1>2, <1>3, <2>1, <2>2 DEF ReadWindow, Knows, storeVars
<1>4. CASE Decide(s)
  <2>1. /\ step[s] = "decide" /\ UNCHANGED <<cred, seen>>
        /\ step'[s] \in {"propose", "suppress", "comms", "refresh"}
    BY <1>4 DEF Decide
  <2> QED  BY <2>1 DEF Knows
<1>5. CASE EngineSuppress(s)
  BY <1>5 DEF EngineSuppress, Knows
<1>6. CASE SendComms(s)
  BY <1>6 DEF SendComms, Knows
<1>7. CASE SeekFreshCredential(s)
  <2>1. step'[s] \in {"freshWindow", "backup", "comms"}
    BY <1>7 DEF SeekFreshCredential
  <2> QED  BY <2>1 DEF Knows
<1>8. CASE GuardrailSuppress(s)
  BY <1>8 DEF GuardrailSuppress, Knows
<1>9. CASE ShadowCharge(s)
  BY <1>9 DEF ShadowCharge, Knows
<1>10. CASE Charge(s)
  <2>1. step'[s] = "count" /\ UNCHANGED cred
    BY <1>10 DEF Charge
  <2>2. result'[s] \in Outcomes /\ result'[s] = answer'[<<cred[s], s[1]>>]
    BY <1>1, <1>10 DEF Charge
  <2> QED  BY <2>1, <2>2 DEF Knows, AnswerTo
<1>11. CASE IncrementAttempts(s)
  <2>1. /\ step[s] = "count" /\ step'[s] = "record" /\ UNCHANGED <<cred, result, answer>>
    BY <1>11 DEF IncrementAttempts
  <2>2. cred[s] = "orig" => attempts'["orig"] = attempts["orig"] + 1
    BY <1>11 DEF IncrementAttempts
  <2> QED  BY <1>1, <1>2, <2>1, <2>2 DEF Knows, AnswerTo
<1>12. CASE RecordCharge(s)
  <2>1. step[s] = "record" /\ UNCHANGED <<cred, answer, attempts>>
    BY <1>12 DEF RecordCharge, storeVars
  <2>2. CASE result[s] = "succeeded"
    BY <1>12, <2>1, <2>2 DEF RecordCharge, Knows, AnswerTo
  <2>3. CASE result[s] # "succeeded"
    <3>1. /\ result'[s] = result[s]
          /\ (step'[s] = "return" /\ cred[s] = "orig") \/ step'[s] \in {"backup", "comms"}
      BY <1>12, <2>3 DEF RecordCharge
    <3> QED  BY <2>1, <2>3, <3>1 DEF Knows, AnswerTo, HasFailed
  <2> QED  BY <2>2, <2>3
<1>13. CASE RecordRecovery(s)
  <2>1. /\ step[s] = "recover" /\ step'[s] = "return" /\ UNCHANGED <<cred, answer>>
        /\ result'[s] = "succeeded"
        /\ Entry("case.recovered", cred[s], s[1], s[2]) \in ledger'
    BY <1>13 DEF RecordRecovery, Append, storeVars
  <2> QED  BY <2>1 DEF Knows, AnswerTo, Entry
<1> QED
  BY <1>3, <1>4, <1>5, <1>6, <1>7, <1>8, <1>9, <1>10, <1>11, <1>12, <1>13 DEF Execute

\* The workflow changes a try only to start it or to take its result.
LEMMA WorkflowLeavesTries ==
  ASSUME TypeOK, Workflow
  PROVE  /\ UNCHANGED <<cred, seen, result, storeVars>> /\ ledger \subseteq ledger'
         /\ \A s \in Slots : step'[s] \in {step[s], "window", "done"}
<1> USE DEF TypeOK, tryVars
<1>1. CASE PlanStops \/ PlanFails \/ AwaitSettlement
  BY <1>1 DEF PlanStops, PlanFails, AwaitSettlement, PlanAttempt, Stop
<1>2. ASSUME NEW b \in Backoffs, PlanThenSleep(b)
      PROVE  /\ UNCHANGED <<cred, seen, result, storeVars>> /\ ledger \subseteq ledger'
             /\ \A s \in Slots : step'[s] \in {step[s], "window", "done"}
  BY <1>2 DEF PlanThenSleep, PlanAttempt, StartTry
<1>3. ASSUME NEW r \in Slots, PostExecute(r)
      PROVE  /\ UNCHANGED <<cred, seen, result, storeVars>> /\ ledger \subseteq ledger'
             /\ \A s \in Slots : step'[s] \in {step[s], "window", "done"}
  BY <1>3 DEF PostExecute
<1>4. CASE RetryActivity
  BY <1>4 DEF RetryActivity, StartTry
<1> QED  BY <1>1, <1>2, <1>3, <1>4 DEF Workflow

\* What every try knows survives every step.
LEMMA TryKnowsStep ==
  ASSUME TypeOK, Frontier, EarlierFailed, TryKnows, [Next]_vars
  PROVE  TryKnows'
<1>1. CASE UNCHANGED vars
  BY <1>1 DEF vars, tryVars, storeVars, TryKnows, Knows, AnswerTo, HasFailed
<1>2. CASE Workflow
  BY <1>2, WorkflowLeavesTries, KnowledgeStays DEF TryKnows
<1>3. ASSUME NEW s \in Slots, Execute(s), NEW r \in Slots
      PROVE  Knows(r)'
  <2>1. CASE r = s
    BY <1>3, <2>1, ExecuteKnows DEF TryKnows
  <2>2. CASE r # s
    BY <1>3, <2>2, ExecuteFrame, KnowledgeStays DEF TryKnows
  <2> QED  BY <2>1, <2>2
<1> QED  BY <1>1, <1>2, <1>3 DEF Next, TryKnows

\* The attempt number moves only past an attempt that failed.
LEMMA AttemptMoves ==
  ASSUME TypeOK, [Next]_vars
  PROVE  \/ attempt' = attempt
         \/ /\ attempt' = attempt + 1
            /\ \E s \in Slots : /\ step[s] = "return" /\ result[s] = "failed"
                                /\ s[1] = attempt
<1>1. CASE UNCHANGED vars
  BY <1>1 DEF vars, sagaVars
<1>2. ASSUME NEW s \in Slots, PostExecute(s)
      PROVE  \/ attempt' = attempt
             \/ /\ attempt' = attempt + 1
                /\ step[s] = "return" /\ result[s] = "failed" /\ s[1] = attempt
  BY <1>2 DEF PostExecute, Current, Stop
<1>3. CASE Workflow /\ ~ \E s \in Slots : PostExecute(s)
  BY <1>3 DEF Workflow, PlanStops, PlanThenSleep, PlanFails, AwaitSettlement, RetryActivity
<1>4. ASSUME NEW s \in Slots, Execute(s)
      PROVE  attempt' = attempt
  BY <1>4, ExecuteFrame DEF sagaVars
<1> QED  BY <1>1, <1>2, <1>3, <1>4 DEF Next

\* Every attempt before the current one stays failed on the original card.
LEMMA EarlierFailedStep ==
  ASSUME TypeOK, EarlierFailed, TryKnows, [Next]_vars
  PROVE  EarlierFailed'
<1>1. \A n \in AttemptNumbers : <<"orig", n>> \in Keys
  BY DEF Keys, Credentials
<1>2. \A n \in AttemptNumbers :
        answer[<<"orig", n>>] = "failed" => answer'[<<"orig", n>>] = "failed"
  BY <1>1, AnswersStay
<1>3. attempt \in Int /\ attempt \in AttemptNumbers
  BY DEF TypeOK, AttemptNumbers
<1>4. CASE attempt' = attempt
  BY <1>2, <1>3, <1>4, CounterGrows DEF EarlierFailed
<1>5. ASSUME attempt' = attempt + 1, NEW s \in Slots, step[s] = "return",
             result[s] = "failed", s[1] = attempt
      PROVE  EarlierFailed'
  <2>1. answer[<<"orig", attempt>>] = "failed" /\ attempts["orig"] >= attempt
    BY <1>5 DEF TryKnows, Knows, HasFailed
  <2>2. \A n \in AttemptNumbers : n < attempt + 1 => n < attempt \/ n = attempt
    BY <1>3 DEF AttemptNumbers
  <2>3. attempts'["orig"] >= attempt' - 1
    BY <1>3, <1>5, <2>1, CounterGrows
  <2>4. \A n \in AttemptNumbers : n < attempt + 1 => answer'[<<"orig", n>>] = "failed"
    BY <1>2, <2>1, <2>2 DEF EarlierFailed
  <2> QED  BY <1>5, <2>3, <2>4 DEF EarlierFailed
<1> QED  BY <1>4, <1>5, AttemptMoves

-----------------------------------------------------------------------------
(* The cap, the plan before the charge, and the default policy's one card. *)

\* What the guardrail has checked when it allows a charge.
LEMMA AllowedCharge ==
  ASSUME TypeOK, NEW s \in Slots, GuardrailAllows(s)
  PROVE  /\ seen[s].count < NetworkCap
         /\ cred[s] = "orig" => IsRetriable(Taxonomy(decline))
<1> DEFINE a == Proposed(s)
           cap == GuardrailPolicy.networkCaps["visa"]
<1>1. EvaluateCharge(a, GuardrailPolicy) = "allow"
  BY DEF GuardrailAllows, Allows, Evaluate, Proposed, ChargeKinds
<1>2. ~WindowFull(a, cap)
  BY <1>1 DEF EvaluateCharge, Proposed, GuardrailPolicy
<1>3. \A n \in InWindow(a) : ~(n >= NetworkCap)
  BY <1>2 DEF WindowFull, GuardrailPolicy
<1>4. seen[s].count \in InWindow(a)
  BY DEF InWindow, Proposed
<1>5. seen[s].count \in Nat /\ NetworkCap \in Nat
  BY BoundsAssumption DEF TypeOK
<1>6. cred[s] = "orig" => IsRetriable(Taxonomy(decline))
  BY DEF GuardrailAllows, Allows, Evaluate, Proposed
<1> QED  BY <1>3, <1>4, <1>5, <1>6

\* The keys used on the original card stay under the network cap.
LEMMA UnderCapStep ==
  ASSUME TypeOK, TryKnows, UnderCap, [Next]_vars
  PROVE  UnderCap'
<1> SUFFICES ASSUME NEW n \in AttemptNumbers, answer'[<<"orig", n>>] # "none"
             PROVE  n <= NetworkCap
  BY DEF UnderCap
<1>1. <<"orig", n>> \in Keys
  BY DEF Keys, Credentials
<1>2. CASE answer[<<"orig", n>>] # "none"
  BY <1>2 DEF UnderCap
<1>3. CASE answer[<<"orig", n>>] = "none"
  <2>1. PICK s \in Slots : Charge(s) /\ cred[s] = "orig" /\ s[1] = n
    BY <1>1, <1>3, AnswersStay
  <2>2. step[s] = "propose" /\ GuardrailAllows(s)
    BY <2>1 DEF Charge, At
  <2>3. seen[s].count >= n - 1 /\ seen[s].count < NetworkCap
    BY <2>1, <2>2, AllowedCharge DEF TryKnows, Knows
  <2>4. seen[s].count \in Nat /\ NetworkCap \in Nat /\ n \in Int
    BY BoundsAssumption DEF TypeOK, AttemptNumbers
  <2> QED  BY <2>3, <2>4
<1> QED  BY <1>2, <1>3

\* A saga that recovered has stopped, and stays so.
LEMMA TerminalStep ==
  ASSUME TypeOK, Terminal, [Next]_vars
  PROVE  Terminal'
<1> USE DEF caseVars, sagaVars
<1>1. CASE UNCHANGED vars
  BY <1>1 DEF vars, Terminal
<1>2. CASE Workflow
  BY <1>2 DEF Workflow, PlanStops, PlanThenSleep, PlanAttempt, PlanFails, PostExecute, Current,
              AwaitSettlement, RetryActivity, Stop, Terminal
<1>3. ASSUME NEW s \in Slots, Execute(s)
      PROVE  Terminal'
  BY <1>3, ExecuteFrame DEF Terminal
<1> QED  BY <1>1, <1>2, <1>3 DEF Next

\* A charged key stays preceded by its plan.
LEMMA PlannedFirstStep ==
  ASSUME TypeOK, PlannedFirst, [Next]_vars
  PROVE  PlannedFirst'
<1>1. CASE UNCHANGED vars
  BY <1>1 DEF vars, tryVars, PlannedFirst, Planned
<1>2. CASE Workflow
  BY <1>2, WorkflowLeavesTries DEF PlannedFirst, Planned, Entry
<1>3. ASSUME NEW s \in Slots, Execute(s), step'[s] \in {"freshWindow", "propose"}
      PROVE  Planned(cred[s], s[1], s[2])'
  <2> USE DEF At, Goto, TypeOK, AfterCharge, Append, Planned
  <2>1. CASE ReadWindow(s)
    BY <1>3, <2>1 DEF ReadWindow, PlannedFirst
  <2>2. CASE Decide(s)
    BY <2>2 DEF Decide, Entry
  <2>3. CASE SeekFreshCredential(s)
    <3>1. PICK c \in Credentials :
            /\ cred' = [cred EXCEPT ![s] = c]
            /\ ledger' = ledger \union {Entry("recovery.planned", c, s[1], s[2])}
      BY <1>3, <2>3 DEF SeekFreshCredential, Credentials
    <3> QED  BY <3>1 DEF Entry
  <2> QED
    BY <1>3, <2>1, <2>2, <2>3 DEF Execute, EngineSuppress, SendComms, GuardrailSuppress,
       ShadowCharge, Charge, IncrementAttempts, RecordCharge, RecordRecovery
<1>4. ASSUME NEW s \in Slots, Execute(s), NEW r \in Slots, r # s,
             step'[r] \in {"freshWindow", "propose"}
      PROVE  Planned(cred[r], r[1], r[2])'
  BY <1>4, ExecuteFrame DEF PlannedFirst, Planned, Entry
<1> QED  BY <1>1, <1>2, <1>3, <1>4 DEF Next, PlannedFirst

\* Every charge was planned, on a live case, for a decline the guardrail retries.
LEMMA LawfulStep ==
  ASSUME TypeOK, PlannedFirst, ChargeIsPlannedAndLawful, [Next]_vars
  PROVE  ChargeIsPlannedAndLawful'
<1>1. UNCHANGED <<shadow, decline>> /\ ledger \subseteq ledger'
  <2>1. CASE UNCHANGED vars
    BY <2>1 DEF vars, caseVars
  <2>2. CASE Workflow
    BY <2>2, WorkflowLeavesTries DEF Workflow, PlanStops, PlanThenSleep, PlanFails, PostExecute,
       AwaitSettlement, RetryActivity, caseVars
  <2> QED  BY <2>1, <2>2, ExecuteFrame DEF Next, caseVars
<1> SUFFICES ASSUME NEW k \in Keys, answer'[k] # "none"
             PROVE  /\ \E e \in ledger : /\ e.type = "recovery.planned" /\ e.try > 0
                                         /\ <<e.cred, e.n>> = k
                    /\ ~shadow
                    /\ k[1] = "orig" => IsRetriable(Taxonomy(decline))
  BY <1>1 DEF ChargeIsPlannedAndLawful, Taxonomy, IsRetriable
<1>2. CASE answer[k] # "none"
  BY <1>2 DEF ChargeIsPlannedAndLawful
<1>3. CASE answer[k] = "none"
  <2>1. PICK s \in Slots : Charge(s) /\ k = <<cred[s], s[1]>>
    BY <1>3, AnswersStay
  <2>2. step[s] = "propose" /\ GuardrailAllows(s) /\ ~shadow
    BY <2>1 DEF Charge, At
  <2>3. Entry("recovery.planned", cred[s], s[1], s[2]) \in ledger
    BY <2>2 DEF PlannedFirst, Planned
  <2>4. s[2] > 0
    BY BoundsAssumption DEF Slots
  <2> QED  BY <2>1, <2>2, <2>3, <2>4, AllowedCharge DEF Entry
<1> QED  BY <1>2, <1>3

\* A ledgered recovery stays backed by collected money.
LEMMA BackedStep ==
  ASSUME TypeOK, TryKnows, Terminal, RecoveredIsBacked, [Next]_vars
  PROVE  RecoveredIsBacked'
<1>1. \A k \in Keys : answer[k] = "succeeded" => answer'[k] = "succeeded"
  BY AnswersStay
<1>2. \A s \in Slots : <<cred[s], s[1]>> \in Keys /\ cred[s] \in Credentials
  BY DEF TypeOK, Slots, Keys
<1>3. \A e \in ledger : <<e.cred, e.n>> \in Keys
  BY DEF TypeOK, Entries, Keys
<1>4. \A c \in Credentials : <<c, attempt>> \in Keys
  BY DEF TypeOK, Keys
<1>5. CASE UNCHANGED vars
  BY <1>5 DEF vars, sagaVars, storeVars, RecoveredIsBacked
<1>6. CASE Workflow
  <2>1. UNCHANGED answer /\ ledger \subseteq ledger'
    BY <1>6, WorkflowLeavesTries DEF storeVars
  <2>2. \A e \in ledger' : e.type = "case.recovered" => e \in ledger
    BY <1>6 DEF Workflow, PlanStops, PlanThenSleep, PlanAttempt, PlanFails, PostExecute,
       AwaitSettlement, RetryActivity, Entry
  <2>3. CASE status' = "recovered" /\ status # "recovered"
    <3>1. PICK s \in Slots : PostExecute(s)
      BY <1>6, <2>3 DEF Workflow, PlanStops, PlanThenSleep, PlanFails, AwaitSettlement,
         RetryActivity, Stop
    <3>2. /\ step[s] = "return" /\ result[s] = "succeeded" /\ s = <<attempt, try>>
          /\ attempt' = attempt /\ try' = try
      BY <2>3, <3>1 DEF PostExecute, Current, Stop
    <3> QED  BY <1>2, <2>1, <2>2, <3>2 DEF RecoveredIsBacked, TryKnows, Knows, AnswerTo, Entry
  <2>4. CASE status' # "recovered"
    BY <2>1, <2>2, <2>4 DEF RecoveredIsBacked
  <2>5. CASE status' = "recovered" /\ status = "recovered"
    <3>1. attempt' = attempt /\ try' = try
      BY <1>6, <2>5 DEF Terminal, Workflow, PlanStops, PlanThenSleep, PlanAttempt, PlanFails,
         PostExecute, Current, AwaitSettlement, RetryActivity
    <3> QED  BY <2>1, <2>2, <2>5, <3>1 DEF RecoveredIsBacked, Entry
  <2> QED  BY <2>3, <2>4, <2>5
<1>7. ASSUME NEW s \in Slots, Execute(s)
      PROVE  RecoveredIsBacked'
  <2>1. UNCHANGED <<status, attempt, try>> /\ ledger \subseteq ledger'
    BY <1>7, ExecuteFrame DEF sagaVars
  <2>2. \A e \in ledger' : e.type = "case.recovered" /\ e \notin ledger =>
          answer[<<e.cred, e.n>>] = "succeeded" /\ <<e.cred, e.n>> \in Keys
    <3>1. CASE RecordRecovery(s)
      BY <1>2, <3>1 DEF RecordRecovery, Append, At, Entry, TryKnows, Knows, AnswerTo
    <3> QED
      BY <1>7, <3>1 DEF Execute, ReadWindow, Decide, EngineSuppress, SendComms,
         SeekFreshCredential, GuardrailSuppress, ShadowCharge, Charge, IncrementAttempts,
         RecordCharge, Append, Entry
  <2> QED  BY <1>1, <1>3, <1>4, <2>1, <2>2 DEF RecoveredIsBacked, Entry
<1> QED  BY <1>5, <1>6, <1>7 DEF Next

\* Under the default policy no credential but the original is ever tried.
LEMMA OnlyOriginalStep ==
  ASSUME TypeOK, OnlyOriginal, [Next]_vars
  PROVE  OnlyOriginal'
<1> USE DEF caseVars, sagaVars, tryVars, storeVars
<1>1. UNCHANGED <<decline, policy>> /\ DeadCredential' = DeadCredential
  <2>1. CASE UNCHANGED vars
    BY <2>1 DEF vars, DeadCredential, Taxonomy
  <2>2. CASE Workflow
    BY <2>2 DEF Workflow, PlanStops, PlanThenSleep, PlanFails, PostExecute, AwaitSettlement,
       RetryActivity, DeadCredential, Taxonomy
  <2> QED  BY <2>1, <2>2, ExecuteFrame DEF Next, DeadCredential, Taxonomy
<1> SUFFICES ASSUME policy = "cost_aware"
             PROVE  OnlyOriginal'
  BY <1>1 DEF OnlyOriginal
<1> HIDE DEF DeadCredential
<1>2. "retry" \in PolicyActions => ~DeadCredential
  BY DEF PolicyActions
<1>3. \A s \in Slots : step[s] # "idle" => ~DeadCredential /\ PolicyActions = {"retry", "suppress"}
  BY DEF OnlyOriginal, PolicyActions
<1>4. CASE UNCHANGED vars
  BY <1>1, <1>4 DEF vars, OnlyOriginal
<1>5. CASE Workflow
  <2>1. UNCHANGED <<cred, answer>> /\ \A s \in Slots : step'[s] \in {step[s], "window", "done"}
    BY <1>5, WorkflowLeavesTries
  <2>2. ASSUME DeadCredential
        PROVE  phase' \in {"plan", "stopped"} /\ UNCHANGED step
    BY <1>2, <1>5, <2>2 DEF Workflow, PlanStops, PlanThenSleep, PlanAttempt, PlanFails, PostExecute,
       Current, AwaitSettlement, RetryActivity, Stop, OnlyOriginal
  <2> QED  BY <1>1, <2>1, <2>2 DEF OnlyOriginal
<1>6. ASSUME NEW s \in Slots, Execute(s)
      PROVE  OnlyOriginal'
  <2>1. /\ step[s] \notin {"idle", "refresh", "backup", "freshWindow", "comms"}
        /\ cred[s] = "orig" /\ ~DeadCredential /\ PolicyActions = {"retry", "suppress"}
    BY <1>3, <1>6, ExecuteFrame DEF OnlyOriginal
  <2>2. /\ cred'[s] = "orig"
        /\ step'[s] \notin {"refresh", "backup", "freshWindow", "comms"}
    <3> USE <2>1 DEF At, Goto, AfterCharge, TypeOK
    <3>1. CASE Decide(s)
      <4>1. step'[s] \in {"propose", "suppress"} /\ UNCHANGED cred
        BY <3>1 DEF Decide
      <4> QED  BY <4>1
    <3> QED
      BY <1>6, <3>1 DEF Execute, ReadWindow, EngineSuppress, SendComms, SeekFreshCredential,
         GuardrailSuppress, ShadowCharge, Charge, IncrementAttempts, RecordCharge, RecordRecovery
  <2>3. \A k \in Keys : k[1] # "orig" => answer'[k] = "none"
    <3>1. \A k \in Keys : answer'[k] # answer[k] => k[1] = "orig"
      BY <1>6, AnswersStay DEF OnlyOriginal, Next
    <3> QED  BY <3>1 DEF OnlyOriginal
  <2> QED  BY <1>1, <1>6, <2>1, <2>2, <2>3, ExecuteFrame DEF OnlyOriginal
<1> QED  BY <1>4, <1>5, <1>6 DEF Next

-----------------------------------------------------------------------------
(* The theorems. *)

IInv ==
  /\ TypeOK
  /\ Frontier
  /\ TryKnows
  /\ EarlierFailed
  /\ UnderCap
  /\ Terminal
  /\ PlannedFirst
  /\ OnlyOriginal
  /\ RecoveredIsBacked
  /\ ChargeIsPlannedAndLawful

\* The initial state satisfies the invariant.
LEMMA InitInductive == Init => IInv
<1> SUFFICES ASSUME Init
             PROVE  IInv
  OBVIOUS
<1>1. TypeOK
  BY InitTyped
<1>2. /\ \A s \in Slots : step[s] = "idle" /\ cred[s] = "orig"
      /\ \A k \in Keys : answer[k] = "none"
      /\ \A n \in AttemptNumbers : <<"orig", n>> \in Keys
      /\ attempts["orig"] = 0
  BY DEF Init, Keys, Credentials
<1>3. Frontier /\ TryKnows /\ UnderCap /\ Terminal /\ PlannedFirst /\ ChargeIsPlannedAndLawful
  BY <1>2 DEF Init, Frontier, TryKnows, Knows, UnderCap, Terminal, PlannedFirst,
              ChargeIsPlannedAndLawful
<1>4. EarlierFailed /\ OnlyOriginal /\ RecoveredIsBacked
  BY <1>2 DEF Init, EarlierFailed, OnlyOriginal, RecoveredIsBacked, AttemptNumbers
<1> QED  BY <1>1, <1>3, <1>4 DEF IInv

\* The inductive invariant holds in every reachable state of the saga.
THEOREM Inductive == Spec => []IInv
<1>1. IInv /\ [Next]_vars => IInv'
  <2> SUFFICES ASSUME IInv, [Next]_vars
               PROVE  IInv'
    OBVIOUS
  <2>1. TypeOK'
    BY TypedStep DEF IInv
  <2> QED
    BY <2>1, FrontierStep, TryKnowsStep, EarlierFailedStep, UnderCapStep, TerminalStep,
       PlannedFirstStep, OnlyOriginalStep, BackedStep, LawfulStep DEF IInv
<1> QED  BY <1>1, InitInductive, PTL DEF Spec

\* Exactly-once charging under the default policy.
THEOREM ExactlyOnce == Spec => []ChargedOnce
<1>1. IInv => ChargedOnce
  <2> SUFFICES ASSUME IInv, policy = "cost_aware",
                      NEW k \in Keys, InFlightOrCollected(k)
               PROVE  k = <<"orig", attempt>>
    BY DEF ChargedOnce
  <2>1. k[1] = "orig"
    BY DEF IInv, OnlyOriginal, InFlightOrCollected
  <2>2. k = <<"orig", k[2]>> /\ k[2] \in AttemptNumbers
    BY <2>1 DEF Keys
  <2>3. ~(k[2] < attempt)
    BY <2>2 DEF IInv, EarlierFailed, InFlightOrCollected
  <2>4. Reached(k[2])
    BY DEF IInv, Frontier, InFlightOrCollected
  <2> QED  BY <2>2, <2>3, <2>4 DEF Reached
<1> QED  BY <1>1, Inductive, PTL

\* The network cap, although the counter is read before and bumped after the charge.
THEOREM CapHolds == Spec => []NetworkCapRespected
<1>1. IInv => NetworkCapRespected
  <2> SUFFICES ASSUME IInv
               PROVE  NetworkCapRespected
    OBVIOUS
  <2> DEFINE S == {n \in AttemptNumbers : answer[<<"orig", n>>] # "none"}
  <2>1. S \subseteq 1..NetworkCap
    BY BoundsAssumption DEF IInv, UnderCap, AttemptNumbers
  <2>2. IsFiniteSet(1..NetworkCap) /\ Cardinality(1..NetworkCap) = NetworkCap
    BY BoundsAssumption, FS_Interval
  <2>3. Cardinality(S) <= Cardinality(1..NetworkCap)
    BY <2>1, <2>2, FS_Subset
  <2> QED  BY <2>2, <2>3 DEF NetworkCapRespected
<1> QED  BY <1>1, Inductive, PTL

\* A recovered saga collected the money it reports, and only collected money is ledgered.
THEOREM RecoveredBacked == Spec => []RecoveredIsBacked
BY Inductive, PTL DEF IInv

\* Engine, ledger, guardrail, adapter: nothing is charged out of that order.
THEOREM PlannedAndLawful == Spec => []ChargeIsPlannedAndLawful
BY Inductive, PTL DEF IInv
=============================================================================

----------------------------- MODULE Onboarding -----------------------------
(***************************************************************************)
(* OnboardingService, for one merchant.  In shadow it notes which invoices *)
(* fail and which of them the merchant's own stack recovers; activation    *)
(* needs a complete window, enough failures and something the baseline     *)
(* missed.  All of it is in memory.  RecoveryCaseService feeds it.         *)
(***************************************************************************)
EXTENDS Naturals, FiniteSets

CONSTANTS Invoices, MinFailures

ASSUME OnboardingAssumption == MinFailures \in Nat

VARIABLES
  status,    \* none, shadow or active
  missed,    \* observed failures the baseline has not recovered
  baseline   \* observed failures with baselineRecovered

onboarding == <<status, missed, baseline>>

OnboardingInit ==
  status = "none" /\ missed = {} /\ baseline = {}

\* connect starts over whatever the merchant's state was.
Connect == status' = "shadow" /\ missed' = {} /\ baseline' = {}

\* The bug of a second observation beside the first.
RecordFailureBeside(i) ==
  IF status = "shadow"
  THEN missed' = missed \union {i} /\ UNCHANGED <<status, baseline>>
  ELSE UNCHANGED onboarding

\* A failure reported again is a new observation of the same invoice.
RecordFailure(i) ==
  IF status = "shadow"
  THEN /\ missed' = missed \union {i} /\ baseline' = baseline \ {i}
       /\ UNCHANGED status
  ELSE UNCHANGED onboarding

\* The bug of an observation that changes after the shadow phase.
RecordBaselineRecoveryAnytime(i) ==
  IF i \in missed
  THEN /\ missed' = missed \ {i} /\ baseline' = baseline \union {i}
       /\ UNCHANGED status
  ELSE UNCHANGED onboarding

RecordBaselineRecovery(i) ==
  IF status = "shadow" /\ i \in missed
  THEN /\ missed' = missed \ {i} /\ baseline' = baseline \union {i}
       /\ UNCHANGED status
  ELSE UNCHANGED onboarding

\* Enough was observed, and projectShadow is positive: the baseline missed something.
Ready ==
  /\ Cardinality(missed \union baseline) >= MinFailures
  /\ missed # {}

\* The shadow window is over at some time: there is no clock here.
Activate ==
  /\ status = "shadow" /\ Ready
  /\ status' = "active"
  /\ UNCHANGED <<missed, baseline>>

\* The process restarts: the merchant is unknown.
Forget == status' = "none" /\ missed' = {} /\ baseline' = {}

OnboardingTypeOK ==
  /\ status \in {"none", "shadow", "active"}
  /\ missed \subseteq Invoices /\ baseline \subseteq Invoices
  /\ missed \intersect baseline = {}

\* What a merchant was activated on stays what justified it: later webhooks, late
\* payments and redeliveries do not touch the measurement, and connecting again starts
\* an empty one.
ActivationIsMeasured == status = "active" => Ready
=============================================================================

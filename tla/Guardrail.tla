------------------------------ MODULE Guardrail ------------------------------
(***************************************************************************)
(* The compliance guardrail (packages/guardrail): the hard-constraint      *)
(* layer every proposed action passes before it executes.  It keeps no     *)
(* state; Evaluate returns "allow" or the reason of the first breached     *)
(* constraint.                                                             *)
(*                                                                         *)
(* An optional field of the code's ProposedAction is a set here: {} when   *)
(* it is undefined, {v} when it has the value v.                           *)
(***************************************************************************)
EXTENDS Integers

Families == {"soft", "gray", "hard"}

(***************************************************************************)
(* A decline is its family and whether its code is on the list of codes    *)
(* isRetriable refuses although they are gray (expired_card, fraudulent).  *)
(***************************************************************************)
Declines == [family : Families, blocked : BOOLEAN]

IsRetriable(d) == d.family # "hard" /\ ~d.blocked

(***************************************************************************)
(* The hour window [start, end), wrapping past midnight when start > end.  *)
(***************************************************************************)
InQuietHours(hour, w) ==
  IF w.start > w.end THEN hour >= w.start \/ hour < w.end
                     ELSE w.start <= hour /\ hour < w.end

ChargeKinds == {"charge_retry", "fresh_credential_charge"}

(***************************************************************************)
(* The network cap applies only if the policy has one for this network: a  *)
(* policy's networkCaps is a function whose domain may be empty.           *)
(***************************************************************************)
TooSoon(a, cap) == \E m \in a.minutesSinceLastAttempt : m < cap.minMinutesBetween

InWindow(a) == IF a.attemptsInWindow = {} THEN {a.attemptsSoFar} ELSE a.attemptsInWindow

\* A bug this development must catch: the cap compared with > instead of >=.
WindowOverfull(a, cap) == \E n \in InWindow(a) : n > cap.maxAttemptsPerWindow

WindowFull(a, cap) == \E n \in InWindow(a) : n >= cap.maxAttemptsPerWindow

EvaluateCharge(a, policy) ==
  IF a.attemptsSoFar >= policy.maxRetryAttempts THEN "retry_attempt_cap_reached"
  ELSE IF a.cardNetwork \notin DOMAIN policy.networkCaps THEN "allow"
  ELSE LET cap == policy.networkCaps[a.cardNetwork] IN
       IF TooSoon(a, cap) THEN "min_interval_not_elapsed"
       ELSE IF WindowFull(a, cap) THEN "network_window_cap_reached"
       ELSE "allow"

EvaluateComms(a, policy) ==
  IF ~a.hasConsent THEN "no_consent"
  ELSE IF InQuietHours(a.localHour, policy.quietHours) THEN "quiet_hours"
  ELSE "allow"

\* A bug this development must catch: only hard declines refused, not their codes.
EvaluateFamilyOnly(a, policy) ==
  IF a.globallyOptedOut THEN "global_opt_out"
  ELSE IF a.kind = "charge_retry" /\ a.decline.family = "hard" THEN "hard_decline_suppressed"
  ELSE IF a.kind \in ChargeKinds THEN EvaluateCharge(a, policy)
  ELSE IF a.kind = "comms" THEN EvaluateComms(a, policy)
  ELSE "unknown_action"

Evaluate(a, policy) ==
  IF a.globallyOptedOut THEN "global_opt_out"
  ELSE IF a.kind = "charge_retry" /\ a.decline.family = "hard" THEN "hard_decline_suppressed"
  ELSE IF a.kind = "charge_retry" /\ ~IsRetriable(a.decline) THEN "non_retriable_code"
  ELSE IF a.kind \in ChargeKinds THEN EvaluateCharge(a, policy)
  ELSE IF a.kind = "comms" THEN EvaluateComms(a, policy)
  ELSE "unknown_action"

Allows(a, policy) == Evaluate(a, policy) = "allow"
=============================================================================

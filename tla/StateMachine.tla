----------------------------- MODULE StateMachine -----------------------------
(***************************************************************************)
(* The tables of lifecycle/state-machine.ts and the decision on a          *)
(* lifecycle call: enforcePolicyDecision (lifecycle/policy.ts), then       *)
(* applyLifecycleTransition.                                               *)
(***************************************************************************)
CONSTANT RefusalEligible  \* the policy decision's refusalEligible (TRUE without one)

ASSUME DecisionAssumption == RefusalEligible \in BOOLEAN

-----------------------------------------------------------------------------
Statuses == {"captured", "verification_pending", "in_progress", "fulfilled",
             "refused", "closed"}

Transitions == [
  verification_request  |-> {"captured", "in_progress"},
  verification_approve  |-> {"verification_pending"},
  verification_reject   |-> {"verification_pending"},
  clarification_request |-> {"in_progress", "verification_pending"},
  clarification_receive |-> {"in_progress"},
  extension             |-> {"in_progress"},
  appeal_overturn       |-> {"refused"},
  fulfil                |-> {"in_progress"},
  refuse                |-> {"in_progress", "verification_pending"},
  close                 |-> {"fulfilled", "refused"}]

Actions == DOMAIN Transitions

(* A mutant: a rejected verification leaves the request waiting for it.    *)
StatusByActionRetrying == [a \in Actions |->
  CASE a \in {"verification_request", "verification_reject"} -> "verification_pending"
    [] a = "fulfil" -> "fulfilled" [] a = "refuse" -> "refused"
    [] a = "close"  -> "closed"    [] OTHER -> "in_progress"]

StatusByAction == [
  verification_request  |-> "verification_pending",
  verification_approve  |-> "in_progress",
  verification_reject   |-> "in_progress",
  clarification_request |-> "in_progress",
  clarification_receive |-> "in_progress",
  extension             |-> "in_progress",
  appeal_overturn       |-> "in_progress",
  fulfil                |-> "fulfilled",
  refuse                |-> "refused",
  close                 |-> "closed"]

(* enforcePolicyDecision, then applyLifecycleTransition (the routes have   *)
(* already refused an extension or refusal without a rationale).           *)
Permitted(action, from) ==
  /\ action = "refuse" => RefusalEligible
  /\ from \in Transitions[action]
=============================================================================

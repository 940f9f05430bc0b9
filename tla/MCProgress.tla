----------------------------- MODULE MCProgress -----------------------------
(***************************************************************************)
(* What a message with a plan goes through and has to get out of: planning *)
(* and execution.  A behaviour is one of one of them; the other stays as   *)
(* it starts, where its fairness asks for nothing.                         *)
(***************************************************************************)
EXTENDS Orchestration, PlanningShell

Dep(from, to, kind) == [from |-> from, to |-> to, kind |-> kind, outcome |-> "PASS"]

PlanOf(deps, approval, failure, join, slots) ==
  [deps |-> deps, approval |-> approval, failure |-> failure,
   join |-> [i \in Invocations |-> join], maxParallelism |-> slots]

Auto == [i \in Invocations |-> "AUTO"]

FailsPlan(i) == [j \in Invocations |-> IF j = i THEN "FAIL_PLAN" ELSE "CONTINUE"]

(* 1 and 2 compete for one slot.                                           *)
SlotPlan == PlanOf({}, Auto, FailsPlan(1), "ALL_REQUIRED", 1)

(* 2 follows 1, which needs an approval.                                   *)
ApprovalPlan ==
  PlanOf({Dep(1, 2, "ALWAYS")}, [Auto EXCEPT ![1] = "CONFIRM"], FailsPlan(2), "ALL_REQUIRED", 1)

RecoveryPlans == {SlotPlan, ApprovalPlan}

VARIABLE part

ProgressInit ==
  /\ part \in {"planning", "execution"}
  /\ PlanningInit
  /\ Init /\ (part = "execution" \/ def = SlotPlan)

ProgressNext ==
  /\ UNCHANGED part
  /\ \/ part = "planning" /\ PlanningNext /\ UNCHANGED vars
     \/ part = "execution" /\ Next /\ UNCHANGED planningVars

ProgressSpec ==
  /\ ProgressInit /\ [][ProgressNext]_<<vars, planningVars, part>>
  /\ PlanningFairness /\ Fairness
=============================================================================

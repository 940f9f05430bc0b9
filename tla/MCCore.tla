------------------------------- MODULE MCCore -------------------------------
(***************************************************************************)
(* The two components everything rests on: the accounts of one user, with  *)
(* two buckets, two request ids and two reserveUsage calls that can be     *)
(* open at once, which is enough for a split over a monthly and a top-up   *)
(* bucket, a duplicate request and a settlement above the estimate that    *)
(* another reservation competes with; and the execution of a plan with     *)
(* joins and branches.  Beside them the memory and the semantic index that *)
(* a plan draws on.  A behaviour is one of one of these; the others stay   *)
(* as they start.                                                          *)
(***************************************************************************)
EXTENDS UsageBilling, Orchestration, Memory, SemanticIndex, TLC

CONSTANTS b1, b2, r1, r2, c1, c2,
    w1, w2, w3     \* the workers of the semantic index

MCBuckets == {b1, b2}
MCRequests == {r1, r2}
MCCallers == {c1, c2}

(* Buckets are told apart by createdAt alone; requests and callers by       *)
(* nothing.                                                                *)
MCSymmetry == Permutations(MCBuckets) \cup Permutations(MCRequests) \cup Permutations(MCCallers)

Dep(from, to, kind) == [from |-> from, to |-> to, kind |-> kind, outcome |-> "PASS"]

PlanOf(deps, approval, failure, join, slots) ==
  [deps |-> deps, approval |-> approval, failure |-> failure,
   join |-> [i \in Invocations |-> join], maxParallelism |-> slots]

Auto == [i \in Invocations |-> "AUTO"]

FailsPlan(i) == [j \in Invocations |-> IF j = i THEN "FAIL_PLAN" ELSE "CONTINUE"]

(* 3 needs the data of 1, and the verdict of a human, 2, in any case.      *)
JoinPlan ==
  PlanOf({Dep(1, 3, "DATA"), Dep(2, 3, "ALWAYS")}, [Auto EXCEPT ![2] = "HUMAN"], FailsPlan(1), "ALL_REQUIRED", 1)

(* 1 runs after an approval; 2 on its success, 3 on its failure.           *)
BranchPlan ==
  PlanOf({Dep(1, 2, "ON_SUCCESS"), Dep(1, 3, "ON_FAILURE")}, [Auto EXCEPT ![1] = "CONFIRM"],
         FailsPlan(2), "ANY_REQUIRED", 2)

(* 2 follows a verdict, 3 follows whatever becomes of 1 and 2.             *)
EvaluatorPlan ==
  PlanOf({Dep(1, 2, "OUTCOME"), Dep(1, 3, "ALWAYS"), Dep(2, 3, "ALWAYS")},
         [[Auto EXCEPT ![1] = "HUMAN"] EXCEPT ![2] = "CONFIRM"],
         FailsPlan(3), "ALL_REQUIRED", 2)

GraphPlans == {JoinPlan, BranchPlan, EvaluatorPlan}

(* One worker of the new generation of embeddings, two of the old.         *)
MCGenerationOf == [w \in Indexers |-> IF w = w1 THEN 2 ELSE 1]

VARIABLE part

CoreInit ==
  /\ part \in {"accounts", "execution", "memory", "index"}
  /\ UsageInit /\ MemoryInit /\ SemanticInit
  /\ Init /\ (part = "execution" \/ def = JoinPlan)

CoreNext ==
  /\ UNCHANGED part
  /\ IF part = "accounts" THEN UsageNext ELSE UNCHANGED usageVars
  /\ IF part = "execution" THEN Next ELSE UNCHANGED vars
  /\ IF part = "memory" THEN MemoryNext ELSE UNCHANGED memoryVars
  /\ IF part = "index" THEN SemanticNext ELSE UNCHANGED indexVars

CoreSpec ==
  CoreInit /\ [][CoreNext]_<<usageVars, vars, memoryVars, indexVars, part>>
=============================================================================

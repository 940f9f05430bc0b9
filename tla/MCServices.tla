----------------------------- MODULE MCServices -----------------------------
(***************************************************************************)
(* Services that share no state with each other.  A behaviour is one of    *)
(* one of them; the others stay as they start.                             *)
(***************************************************************************)
EXTENDS LocalInference, Handles, Projects, Operator, Executors, Notifications, Compaction,
        Tariffs

VARIABLE part

(* A plan that is outgrown, and a larger one.                              *)
MCSmallPlan == [owned |-> 1, members |-> 2]
MCPlans == {MCSmallPlan, [owned |-> 2, members |-> 3]}

(* The user is told by email.                                              *)
MCWants == {[inApp |-> FALSE, email |-> TRUE, verified |-> TRUE]}

ServicesInit ==
  /\ part \in {"inference", "handles", "projects", "operator", "executors", "notices",
              "compaction", "tariffs"}
  /\ InferenceInit /\ HandlesInit /\ NoticeInit /\ CompactionInit
  /\ TariffsInit /\ (part = "tariffs" \/ table = "plan")
  /\ ProjectsInit /\ (part = "projects" \/ ownerPlan = MCSmallPlan)
  /\ OperatorInit /\ (part = "operator" \/ consent.direct)
  /\ ExecutorInit /\ (part = "executors" \/ contract = [kind |-> "EVALUATOR", mode |-> "DETERMINISTIC"])

(* The next step of the part that runs; the others keep their state.       *)
ServicesNext ==
  /\ UNCHANGED part
  /\ IF part = "inference" THEN InferenceNext ELSE UNCHANGED inferenceVars
  /\ IF part = "handles" THEN HandlesNext ELSE UNCHANGED handleVars
  /\ IF part = "projects" THEN ProjectsNext ELSE UNCHANGED projectVars
  /\ IF part = "operator" THEN OperatorNext ELSE UNCHANGED operatorVars
  /\ IF part = "executors" THEN ExecutorNext ELSE UNCHANGED executorVars
  /\ IF part = "notices" THEN NoticeNext ELSE UNCHANGED noticeVars
  /\ IF part = "compaction" THEN CompactionNext ELSE UNCHANGED compactionVars
  /\ IF part = "tariffs" THEN TariffsNext ELSE UNCHANGED tariffVars

ServicesSpec ==
  ServicesInit /\ [][ServicesNext]_<<inferenceVars, handleVars, projectVars, operatorVars,
                                     executorVars, noticeVars, compactionVars, tariffVars, part>>
=============================================================================

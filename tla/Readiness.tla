------------------------------- MODULE Readiness -------------------------------
(***************************************************************************)
(* When an invocation of an execution plan may run:                        *)
(* packages/orchestration/src/readiness.ts, and the statuses of states.ts. *)
(* A plan definition is a record                                           *)
(*   deps      set of [from, to, kind, outcome]                            *)
(*   approval  per invocation: AUTO, CONFIRM (the user approves it) or     *)
(*             HUMAN (an evaluator whose verdict the user gives)           *)
(*   failure   per invocation: FAIL_PLAN or CONTINUE                       *)
(*   join      per invocation: ALL_REQUIRED, ANY_REQUIRED, ALL_SETTLED     *)
(*   maxParallelism                                                        *)
(* and is frozen when the plan starts.                                     *)
(***************************************************************************)
EXTENDS Integers, FiniteSets

CONSTANTS Invocations,  \* numbered by their sequence
          Outcomes,     \* what a completed run can say; NoOutcome when nothing
          NoOutcome

ASSUME ReadinessAssumption ==
  /\ Invocations \subseteq Nat /\ IsFiniteSet(Invocations)
  /\ NoOutcome \notin Outcomes

(* What a plan definition is.                                              *)
WellFormed(d) ==
  /\ d.maxParallelism \in Nat \ {0}
  /\ d.join \in [Invocations -> {"ALL_REQUIRED", "ANY_REQUIRED", "ALL_SETTLED"}]
  /\ d.approval \in [Invocations -> {"AUTO", "CONFIRM", "HUMAN"}]
  /\ d.failure \in [Invocations -> {"FAIL_PLAN", "CONTINUE"}]
  /\ d.deps \subseteq
       [from : Invocations, to : Invocations, outcome : Outcomes,
        kind : {"DATA", "ON_SUCCESS", "ON_FAILURE", "ALWAYS", "OUTCOME"}]

UsageWaits == {"WAITING_FOR_USAGE_CAPACITY", "BLOCKED_INSUFFICIENT_USAGE"}

ActiveStatuses == {"PENDING", "READY", "RUNNING", "WAITING_APPROVAL"} \cup UsageWaits

TerminalStatuses == {"COMPLETED", "FAILED", "SKIPPED", "CANCELED"}

InvocationStatuses == ActiveStatuses \cup TerminalStatuses

isTerminalInvocationStatus(status) == status \in TerminalStatuses

(* The condition of dependency d when its source has this status and the   *)
(* latest run of the source this outcome.                                  *)
evaluateCondition(d, status, outcome) ==
  LET Met(holds) == IF holds THEN "SATISFIED" ELSE "IMPOSSIBLE"
  IN IF ~isTerminalInvocationStatus(status) THEN "WAITING"
     ELSE CASE d.kind = "ALWAYS" -> "SATISFIED"
            [] d.kind \in {"DATA", "ON_SUCCESS"} -> Met(status = "COMPLETED")
            [] d.kind = "ON_FAILURE" -> Met(status = "FAILED")
            [] d.kind = "OUTCOME" -> Met(status = "COMPLETED" /\ outcome = d.outcome)

(* evaluations: what the incoming dependencies evaluate to.                *)
decideJoin(policy, evaluations) ==
  CASE evaluations = {} -> "READY"
    [] evaluations # {} /\ policy = "ALL_SETTLED" ->
         IF "WAITING" \notin evaluations THEN "READY" ELSE "PENDING"
    [] evaluations # {} /\ policy = "ANY_REQUIRED" ->
         IF "SATISFIED" \in evaluations THEN "READY"
         ELSE IF evaluations = {"IMPOSSIBLE"} THEN "SKIPPED" ELSE "PENDING"
    [] evaluations # {} /\ policy = "ALL_REQUIRED" ->
         IF "IMPOSSIBLE" \in evaluations THEN "SKIPPED"
         ELSE IF evaluations = {"SATISFIED"} THEN "READY" ELSE "PENDING"

decideDependencyReadiness(def, i, status, outcome) ==
  decideJoin(def.join[i],
             {evaluateCondition(d, status[d.from], outcome[d.from]) :
                d \in {d \in def.deps : d.to = i}})

(* Fault: what needs an approval becomes READY like the rest.              *)
NextStatusUnapproved(def, i, decision) == decision

(* The status a PENDING invocation goes to.                                *)
NextStatus(def, i, decision) ==
  IF decision = "READY" /\ def.approval[i] # "AUTO" THEN "WAITING_APPROVAL" ELSE decision

(***************************************************************************)
(* The readiness loop of dispatchPlan repeats until nothing changes: a     *)
(* skipped invocation can decide the ones after it.  What it ends in is a   *)
(* table in which every invocation that was PENDING has the status that     *)
(* table itself decides; the graph has no cycle, so there is one.          *)
(* Loops compares this with the loop.                                      *)
(***************************************************************************)
SettledTables(def, status, outcome) ==
  LET Pending == {i \in Invocations : status[i] = "PENDING"}
      Table(u) == [i \in Invocations |-> IF i \in Pending THEN u[i] ELSE status[i]]
  IN {t \in {Table(u) : u \in [Pending -> {"PENDING", "READY", "WAITING_APPROVAL", "SKIPPED"}]} :
        \A i \in Pending :
          t[i] = NextStatus(def, i, decideDependencyReadiness(def, i, t, outcome))}

(* Every invocation that left PENDING, other than to be canceled, did so    *)
(* by a decision that the table still supports.                            *)
Justified(def, status, outcome) ==
  \A i \in Invocations :
    status[i] \notin {"PENDING", "CANCELED"} =>
      decideDependencyReadiness(def, i, status, outcome) =
        IF status[i] = "SKIPPED" THEN "SKIPPED" ELSE "READY"

===============================================================================

-------------------------- MODULE OrchestrationProofs --------------------------
(***************************************************************************)
(* Proofs about Orchestration for every plan graph, every number of        *)
(* invocations and attempts, and any number of crashes, and about          *)
(* PlanningShell for any number of requests to plan a message.             *)
(*                                                                         *)
(* OrchestrationInv adds to the properties two facts that they rest on:    *)
(* runs are numbered without gaps, so a claim never overwrites one, and an *)
(* invocation is CANCELED only with its plan, so a plan that is dispatched *)
(* has none.  JustifiedInv, further down, is why an invocation runs.       *)
(*                                                                         *)
(* About the readiness loop of Loops, for every plan whose dependencies    *)
(* run in no circle: every pass but the last decides an invocation, so the *)
(* bound on the passes is never reached; a decision of the loop stands,    *)
(* since it rests on what has finished; and two settled tables would       *)
(* differ first at a step whose dependencies they agree on.                *)
(***************************************************************************)
EXTENDS Orchestration, PlanningShell, Loops, FiniteSetTheorems, WellFoundedInduction, TLAPS

RunsAreNumbered ==
  \A i \in Invocations, a \in 1..MaxRuns : a > attempts[i] => runs[i][a].status = "NONE"

CanceledWithPlan ==
  \A i \in Invocations : inv[i] = "CANCELED" => plan \in {"FAILED", "CANCELED"}

PlannedIsPending ==
  plan = "PLANNED" => \A i \in Invocations : inv[i] = "PENDING"

OrchestrationInv ==
  /\ TypeOK
  /\ RunsAreNumbered
  /\ OneLiveRun
  /\ ClosedPlanIsQuiet
  /\ CanceledWithPlan
  /\ PlannedIsPending
  /\ VerdictAgrees
  /\ ParallelismBounded

LEMMA PlansFit ==
  \A d \in Plans :
    /\ WellFormed(d)
    /\ d.maxParallelism \in Nat \ {0}
    /\ d.join \in [Invocations -> {"ALL_REQUIRED", "ANY_REQUIRED", "ALL_SETTLED"}]
    /\ d.approval \in [Invocations -> {"AUTO", "CONFIRM", "HUMAN"}]
    /\ d.failure \in [Invocations -> {"FAIL_PLAN", "CONTINUE"}]
    /\ d.deps \subseteq
         [from : Invocations, to : Invocations, outcome : Outcomes,
          kind : {"DATA", "ON_SUCCESS", "ON_FAILURE", "ALWAYS", "OUTCOME"}]
BY OrchestrationAssumption DEF WellFormed

-------------------------------------------------------------------------------
(* decideDependencyReadiness answers one of three things.                  *)
LEMMA DecisionType ==
  ASSUME NEW d, WellFormed(d), NEW i \in Invocations, NEW status, NEW outcome
  PROVE  decideDependencyReadiness(d, i, status, outcome) \in {"PENDING", "READY", "SKIPPED"}
<1> DEFINE evaluations == {evaluateCondition(x, status[x.from], outcome[x.from]) :
                             x \in {x \in d.deps : x.to = i}}
<1>1. d.join[i] \in {"ALL_REQUIRED", "ANY_REQUIRED", "ALL_SETTLED"}
  BY DEF WellFormed
<1>2. decideJoin(d.join[i], evaluations) \in {"PENDING", "READY", "SKIPPED"}
  <2> HIDE DEF evaluations
  <2> QED BY <1>1 DEF decideJoin
<1> QED BY <1>2 DEF decideDependencyReadiness

(* The status start and dispatch give a PENDING invocation.                *)
LEMMA NextStatusType ==
  ASSUME NEW d, WellFormed(d), NEW i \in Invocations, NEW status, NEW outcome
  PROVE  NextStatus(d, i, decideDependencyReadiness(d, i, status, outcome))
           \in {"PENDING", "READY", "WAITING_APPROVAL", "SKIPPED"}
BY DecisionType DEF NextStatus

(* The readiness loop touches PENDING invocations only, and never starts   *)
(* or finishes one.                                                        *)
LEMMA SettledShape ==
  ASSUME NEW d \in Plans, NEW outcome,
         NEW status \in [Invocations -> InvocationStatuses],
         NEW t \in SettledTables(d, status, outcome)
  PROVE  /\ t \in [Invocations -> InvocationStatuses]
         /\ \A i \in Invocations :
              /\ status[i] # "PENDING" => t[i] = status[i]
              /\ status[i] = "PENDING" => t[i] \in {"PENDING", "READY", "WAITING_APPROVAL", "SKIPPED"}
<1> DEFINE Unsettled == {i \in Invocations : status[i] = "PENDING"}
           U == [Unsettled -> {"PENDING", "READY", "WAITING_APPROVAL", "SKIPPED"}]
<1>1. PICK u \in U : t = [i \in Invocations |-> IF i \in Unsettled THEN u[i] ELSE status[i]]
  BY DEF SettledTables
<1> QED BY <1>1 DEF InvocationStatuses, ActiveStatuses, TerminalStatuses

(* The running set only grows by a claim; anything else leaves a part of it. *)
LEMMA FewerRunning ==
  ASSUME NEW old, NEW new, NEW n \in Nat,
         Cardinality(Running(old)) <= n,
         \A i \in Invocations : new[i] = "RUNNING" => old[i] = "RUNNING"
  PROVE  Cardinality(Running(new)) <= n
<1>1. Running(new) \subseteq Running(old)
  BY DEF Running
<1>2. IsFiniteSet(Running(old))
  BY FS_Subset, ReadinessAssumption DEF Running
<1>3. Cardinality(Running(new)) <= Cardinality(Running(old))
      /\ Cardinality(Running(new)) \in Nat /\ Cardinality(Running(old)) \in Nat
  BY <1>1, <1>2, FS_Subset, FS_CardinalityType
<1> QED BY <1>3

LEMMA InitInv == Init => OrchestrationInv
<1> SUFFICES ASSUME Init PROVE OrchestrationInv
  OBVIOUS
<1>1. TypeOK
  BY OrchestrationAssumption, PlansFit
  DEF Init, TypeOK, PlanStatuses, InvocationStatuses, ActiveStatuses, RunRows, NoRun, JobStates
<1>2. RunsAreNumbered /\ OneLiveRun
  BY DEF Init, RunsAreNumbered, OneLiveRun, NoRun
<1>3. ClosedPlanIsQuiet /\ CanceledWithPlan /\ PlannedIsPending /\ VerdictAgrees
  BY DEF Init, ClosedPlanIsQuiet, CanceledWithPlan, PlannedIsPending, VerdictAgrees
<1>4. ParallelismBounded
  <2>1. Running(inv) = {}
    BY DEF Init, Running
  <2>2. def.maxParallelism \in Nat
    BY OrchestrationAssumption, PlansFit DEF Init
  <2> QED BY <2>1, <2>2, FS_EmptySet DEF ParallelismBounded
<1> QED BY <1>1, <1>2, <1>3, <1>4 DEF OrchestrationInv

-------------------------------------------------------------------------------
(* The rows after a step: what the transactions of Orchestration write.    *)
RowsTyped ==
  /\ def \in Plans
  /\ plan \in PlanStatuses
  /\ inv \in [Invocations -> InvocationStatuses]
  /\ runs \in [Invocations -> [1..MaxRuns -> RunRows]]
  /\ attempts \in [Invocations -> 0..MaxRuns]

RowsInv ==
  /\ RowsTyped
  /\ RunsAreNumbered
  /\ OneLiveRun
  /\ ClosedPlanIsQuiet
  /\ CanceledWithPlan
  /\ PlannedIsPending
  /\ VerdictAgrees
  /\ ParallelismBounded

(* A step that changes no row keeps what is said of the rows.              *)
LEMMA RowsUntouched ==
  ASSUME RowsInv, UNCHANGED <<def, durable>> PROVE RowsInv'
BY DEF RowsInv, RowsTyped, RunsAreNumbered, OneLiveRun, ClosedPlanIsQuiet, CanceledWithPlan,
       PlannedIsPending, VerdictAgrees, ParallelismBounded, Running, durable

(* stop, from any state of the plan.                                       *)
LEMMA StopKeepsRows ==
  ASSUME RowsInv, stop PROVE RowsInv'
<1> USE DEF RowsInv
<1>1. /\ def' = def /\ runs' = runs /\ attempts' = attempts
      /\ plan' = IF plan \in {"PLANNED", "RUNNING"} THEN "CANCELED" ELSE plan
      /\ inv' = [i \in Invocations |-> IF inv[i] \in ActiveStatuses THEN "CANCELED" ELSE inv[i]]
  BY DEF stop, CancelActive
<1>2. RowsTyped'
  BY <1>1 DEF RowsTyped, PlanStatuses, InvocationStatuses, TerminalStatuses
<1>3. RunsAreNumbered'
  BY <1>1 DEF RunsAreNumbered
<1>c. plan \notin {"PLANNED", "RUNNING"} => \A i \in Invocations : inv'[i] = inv[i]
  BY <1>1 DEF ClosedPlanIsQuiet, ActiveStatuses, TerminalStatuses, UsageWaits
<1>4. ClosedPlanIsQuiet' /\ CanceledWithPlan' /\ PlannedIsPending'
  <2>1. ClosedPlanIsQuiet'
    BY <1>1 DEF ClosedPlanIsQuiet, RowsTyped, InvocationStatuses, TerminalStatuses
  <2>2. CanceledWithPlan'
    BY <1>1, <1>c DEF CanceledWithPlan
  <2> QED BY <1>1, <2>1, <2>2 DEF PlannedIsPending
<1>5. OneLiveRun'
  <2>1. plan' # "RUNNING"
    BY <1>1
  <2>2. \A i \in Invocations : inv'[i] # "RUNNING"
    BY <1>1 DEF ActiveStatuses
  <2>3. \A i \in Invocations : inv[i] \in {"RUNNING", "CANCELED"} => inv'[i] = "CANCELED"
    BY <1>1 DEF ActiveStatuses
  <2> QED BY <1>1, <2>1, <2>2, <2>3 DEF OneLiveRun
<1>6. VerdictAgrees'
  <2>1. \A i \in Invocations : inv'[i] = "FAILED" <=> inv[i] = "FAILED"
    BY <1>1 DEF ActiveStatuses, UsageWaits
  <2> QED BY <1>1, <1>c, <2>1 DEF VerdictAgrees, PlannedIsPending
<1>7. ParallelismBounded'
  <2>1. \A i \in Invocations : inv'[i] = "RUNNING" => inv[i] = "RUNNING"
    BY <1>1
  <2>2. def.maxParallelism \in Nat
    BY OrchestrationAssumption, PlansFit DEF RowsTyped
  <2>3. Cardinality(Running(inv')) <= def.maxParallelism
    BY <2>1, <2>2, FewerRunning DEF ParallelismBounded
  <2> QED BY <1>1, <2>3 DEF ParallelismBounded, Running
<1> QED BY <1>1, <1>2, <1>3, <1>4, <1>5, <1>6, <1>7

(* start: every invocation was PENDING, none becomes RUNNING.              *)
LEMMA StartKeepsRows ==
  ASSUME RowsInv, start PROVE RowsInv'
<1> USE DEF RowsInv
<1>1. /\ def' = def /\ runs' = runs /\ attempts' = attempts
      /\ plan = "PLANNED" /\ plan' = "RUNNING"
      /\ inv' = [i \in Invocations |->
            NextStatus(def, i, decideDependencyReadiness(def, i, inv, latestOutcome))]
  BY DEF start
<1>2. \A i \in Invocations : inv'[i] \in {"PENDING", "READY", "WAITING_APPROVAL", "SKIPPED"}
  BY <1>1, NextStatusType, PlansFit DEF RowsTyped
<1>3. RowsTyped'
  BY <1>1, <1>2 DEF RowsTyped, PlanStatuses, InvocationStatuses, TerminalStatuses, ActiveStatuses
<1>4. RunsAreNumbered'
  BY <1>1 DEF RunsAreNumbered
<1>5. ClosedPlanIsQuiet' /\ CanceledWithPlan' /\ PlannedIsPending' /\ VerdictAgrees'
  BY <1>1, <1>2 DEF ClosedPlanIsQuiet, CanceledWithPlan, PlannedIsPending, VerdictAgrees
<1>6. OneLiveRun'
  BY <1>1, <1>2 DEF OneLiveRun, PlannedIsPending
<1>7. ParallelismBounded'
  <2>1. def.maxParallelism \in Nat
    BY OrchestrationAssumption, PlansFit DEF RowsTyped
  <2>2. Cardinality(Running(inv')) <= def.maxParallelism
    BY <1>2, <2>1, FewerRunning DEF ParallelismBounded
  <2> QED BY <1>1, <2>2 DEF ParallelismBounded, Running
<1> QED BY <1>3, <1>4, <1>5, <1>6, <1>7

(* approve: the write is a compare-and-set on WAITING_APPROVAL.            *)
LEMMA ApproveKeepsRows ==
  ASSUME RowsInv, NEW i \in Invocations, approve(i) PROVE RowsInv'
<1> USE DEF RowsInv
<1>1. /\ def' = def /\ runs' = runs /\ attempts' = attempts /\ plan' = plan
      /\ inv' = IF inv[i] = "WAITING_APPROVAL" THEN [inv EXCEPT ![i] = "READY"] ELSE inv
  BY DEF approve
<1>2. RowsTyped'
  BY <1>1 DEF RowsTyped, InvocationStatuses, ActiveStatuses
<1>3. RunsAreNumbered' /\ OneLiveRun'
  BY <1>1 DEF RunsAreNumbered, OneLiveRun, RowsTyped
<1>4. ClosedPlanIsQuiet' /\ CanceledWithPlan' /\ PlannedIsPending' /\ VerdictAgrees'
  BY <1>1 DEF ClosedPlanIsQuiet, CanceledWithPlan, PlannedIsPending, VerdictAgrees, RowsTyped,
              TerminalStatuses
<1>5. ParallelismBounded'
  <2>1. def.maxParallelism \in Nat
    BY OrchestrationAssumption, PlansFit DEF RowsTyped
  <2>2. \A j \in Invocations : inv'[j] = "RUNNING" => inv[j] = "RUNNING"
    BY <1>1 DEF RowsTyped
  <2>3. Cardinality(Running(inv')) <= def.maxParallelism
    BY <2>1, <2>2, FewerRunning DEF ParallelismBounded
  <2> QED BY <1>1, <2>3 DEF ParallelismBounded, Running
<1> QED BY <1>2, <1>3, <1>4, <1>5

(* resolveHumanEvaluation: a completed run of its own.                     *)
LEMMA EvaluationKeepsRows ==
  ASSUME RowsInv, NEW i \in Invocations, NEW outcome \in Outcomes,
         resolveHumanEvaluation(i, outcome)
  PROVE  RowsInv'
<1> USE DEF RowsInv
<1>1. CASE inv[i] # "WAITING_APPROVAL"
  <2>1. UNCHANGED <<def, durable>>
    BY <1>1 DEF resolveHumanEvaluation, durable
  <2> QED BY <2>1, RowsUntouched
<1>2. CASE inv[i] = "WAITING_APPROVAL"
  <2>1. /\ def' = def /\ plan' = plan
        /\ attempts[i] + 1 \in 1..MaxRuns
        /\ inv' = [inv EXCEPT ![i] = "COMPLETED"]
        /\ attempts' = [attempts EXCEPT ![i] = attempts[i] + 1]
        /\ runs' = [runs EXCEPT ![i] = [runs[i] EXCEPT ![attempts[i] + 1] =
                      [status |-> "COMPLETED", outcome |-> outcome]]]
    BY <1>2, OrchestrationAssumption, PlansFit DEF resolveHumanEvaluation, RowsTyped
  <2>2. RowsTyped'
    BY <2>1 DEF RowsTyped, RunRows, InvocationStatuses, TerminalStatuses
  <2>3. RunsAreNumbered'
    BY <2>1 DEF RunsAreNumbered, RowsTyped
  <2>4. OneLiveRun'
    BY <1>2, <2>1 DEF OneLiveRun, RowsTyped
  <2>5. ClosedPlanIsQuiet' /\ CanceledWithPlan' /\ PlannedIsPending' /\ VerdictAgrees'
    BY <1>2, <2>1 DEF ClosedPlanIsQuiet, CanceledWithPlan, PlannedIsPending, VerdictAgrees,
                      RowsTyped, TerminalStatuses
  <2>6. ParallelismBounded'
    <3>1. def.maxParallelism \in Nat
      BY OrchestrationAssumption, PlansFit DEF RowsTyped
    <3>2. \A j \in Invocations : inv'[j] = "RUNNING" => inv[j] = "RUNNING"
      BY <2>1 DEF RowsTyped
    <3>3. Cardinality(Running(inv')) <= def.maxParallelism
      BY <3>1, <3>2, FewerRunning DEF ParallelismBounded
    <3> QED BY <2>1, <3>3 DEF ParallelismBounded, Running
  <2> QED BY <2>2, <2>3, <2>4, <2>5, <2>6
<1> QED BY <1>1, <1>2

(* dispatchPlan writes what readiness settles in: no plan fails by it, as  *)
(* whoever fails an invocation that its plan needs fails the plan with it. *)
LEMMA DispatchWrites ==
  ASSUME RowsInv, NEW elapsed, dispatchPlan(elapsed), plan = "RUNNING"
  PROVE  \E status \in SettledTables(def, Resumed(elapsed), latestOutcome) :
           /\ inv' = status /\ plan' = Verdict(status)
           /\ plan' \in {"PARTIAL", "COMPLETED", "RUNNING"}
           /\ status \in [Invocations -> InvocationStatuses]
           /\ \A i \in Invocations :
                /\ status[i] = "RUNNING" <=> inv[i] = "RUNNING"
                /\ status[i] = "FAILED" <=> inv[i] = "FAILED"
                /\ status[i] # "CANCELED"
<1> USE DEF RowsInv
<1>1. PICK status \in SettledTables(def, Resumed(elapsed), latestOutcome) :
        /\ plan' = Verdict(status)
        /\ inv' = IF Verdict(status) = "FAILED" THEN CancelActive(status) ELSE status
  BY DEF dispatchPlan
<1>2. Resumed(elapsed) \in [Invocations -> InvocationStatuses]
  BY DEF Resumed, RowsTyped, InvocationStatuses, ActiveStatuses
<1>3. /\ status \in [Invocations -> InvocationStatuses]
      /\ \A i \in Invocations :
           /\ Resumed(elapsed)[i] # "PENDING" => status[i] = Resumed(elapsed)[i]
           /\ Resumed(elapsed)[i] = "PENDING" =>
                status[i] \in {"PENDING", "READY", "WAITING_APPROVAL", "SKIPPED"}
  BY <1>2, SettledShape DEF RowsTyped
<1>4. \A i \in Invocations :
        /\ status[i] = "RUNNING" <=> inv[i] = "RUNNING"
        /\ status[i] = "FAILED" <=> inv[i] = "FAILED"
        /\ status[i] # "CANCELED"
  BY <1>3 DEF Resumed, UsageWaits, CanceledWithPlan
<1>5. Verdict(status) # "FAILED"
  BY <1>4 DEF Verdict, VerdictAgrees
<1>6. inv' = status /\ plan' = Verdict(status) /\ plan' \in {"PARTIAL", "COMPLETED", "RUNNING"}
  BY <1>1, <1>5 DEF Verdict
<1> QED BY <1>3, <1>4, <1>6

(* dispatchPlan.                                                           *)
LEMMA DispatchKeepsRows ==
  ASSUME RowsInv, NEW elapsed, dispatchPlan(elapsed) PROVE RowsInv'
<1> USE DEF RowsInv
<1>1. CASE plan # "RUNNING"
  <2>1. UNCHANGED <<def, durable>>
    BY <1>1 DEF dispatchPlan, durable
  <2> QED BY <2>1, RowsUntouched
<1>2. CASE plan = "RUNNING"
  <2>1. PICK status \in SettledTables(def, Resumed(elapsed), latestOutcome) :
          /\ inv' = status /\ plan' = Verdict(status)
          /\ plan' \in {"PARTIAL", "COMPLETED", "RUNNING"}
          /\ status \in [Invocations -> InvocationStatuses]
          /\ \A i \in Invocations :
               /\ status[i] = "RUNNING" <=> inv[i] = "RUNNING"
               /\ status[i] = "FAILED" <=> inv[i] = "FAILED"
               /\ status[i] # "CANCELED"
    BY <1>2, DispatchWrites
  <2>2. def' = def /\ runs' = runs /\ attempts' = attempts
    BY DEF dispatchPlan
  <2>3. RowsTyped'
    BY <2>1, <2>2 DEF RowsTyped, PlanStatuses
  <2>4. RunsAreNumbered'
    BY <2>2 DEF RunsAreNumbered
  <2>5. OneLiveRun'
    <3>1. \A i \in Invocations : inv'[i] = "RUNNING" <=> inv[i] = "RUNNING"
      BY <2>1
    <3>2. \A i \in Invocations, a \in 1..MaxRuns :
            runs[i][a].status = "RUNNING" => a = attempts[i] /\ inv[i] = "RUNNING"
      BY <1>2 DEF OneLiveRun
    <3>3. \A i \in Invocations :
            inv[i] = "RUNNING" => attempts[i] > 0 /\ runs[i][attempts[i]].status = "RUNNING"
      BY DEF OneLiveRun
    <3> QED BY <2>2, <3>1, <3>2, <3>3 DEF OneLiveRun
  <2>6. ClosedPlanIsQuiet' /\ CanceledWithPlan' /\ PlannedIsPending'
    <3>1. Verdict(status) # "RUNNING" => \A i \in Invocations : status[i] \in TerminalStatuses
      BY <2>1 DEF Verdict, isTerminalInvocationStatus
    <3> QED BY <2>1, <3>1 DEF ClosedPlanIsQuiet, CanceledWithPlan, PlannedIsPending
  <2>7. VerdictAgrees'
    <3>1. ~ \E i \in Invocations : status[i] = "FAILED" /\ def.failure[i] = "FAIL_PLAN"
      BY <1>2, <2>1 DEF VerdictAgrees
    <3>2. Verdict(status) = "COMPLETED" =>
            \A i \in Invocations : status[i] \in {"COMPLETED", "SKIPPED"}
      BY <3>1 DEF Verdict, isTerminalInvocationStatus, TerminalStatuses
    <3>3. Verdict(status) = "PARTIAL" => \E i \in Invocations : status[i] = "FAILED"
      BY <2>1, <3>1 DEF Verdict
    <3> QED BY <2>1, <2>2, <3>1, <3>2, <3>3 DEF VerdictAgrees
  <2>8. ParallelismBounded'
    <3>1. def.maxParallelism \in Nat
      BY OrchestrationAssumption, PlansFit DEF RowsTyped
    <3>2. \A i \in Invocations : inv'[i] = "RUNNING" => inv[i] = "RUNNING"
      BY <2>1
    <3>3. Cardinality(Running(inv')) <= def.maxParallelism
      BY <3>1, <3>2, FewerRunning DEF ParallelismBounded
    <3> QED BY <2>2, <3>3 DEF ParallelismBounded, Running
  <2> QED BY <2>3, <2>4, <2>5, <2>6, <2>7, <2>8
<1> QED BY <1>1, <1>2

(* claimInvocation: the one step that adds to the running invocations.     *)
LEMMA ClaimKeepsRows ==
  ASSUME RowsInv, NEW i \in Invocations, claimInvocation(i) PROVE RowsInv'
<1> USE DEF RowsInv
<1>1. /\ def' = def /\ plan' = plan /\ plan = "RUNNING" /\ inv[i] = "READY"
      /\ Cardinality(Running(inv)) < def.maxParallelism
      /\ attempts[i] + 1 \in 1..MaxRuns
      /\ inv' = [inv EXCEPT ![i] = "RUNNING"]
      /\ attempts' = [attempts EXCEPT ![i] = attempts[i] + 1]
      /\ runs' = [runs EXCEPT ![i] = [runs[i] EXCEPT ![attempts[i] + 1] =
                    [status |-> "RUNNING", outcome |-> NoOutcome]]]
  BY OrchestrationAssumption, PlansFit DEF claimInvocation, CanClaim, RowsTyped
<1>2. RowsTyped'
  BY <1>1 DEF RowsTyped, RunRows, InvocationStatuses, ActiveStatuses
<1>3. RunsAreNumbered'
  BY <1>1 DEF RunsAreNumbered, RowsTyped
<1>4. OneLiveRun'
  <2>1. /\ inv'[i] = "RUNNING" /\ attempts'[i] = attempts[i] + 1
        /\ runs'[i][attempts[i] + 1].status = "RUNNING"
    BY <1>1 DEF RowsTyped
  <2>2. \A b \in 1..MaxRuns : b # attempts[i] + 1 => runs'[i][b].status # "RUNNING"
    BY <1>1 DEF RowsTyped, OneLiveRun
  <2>3. \A j \in Invocations :
          j # i => inv'[j] = inv[j] /\ attempts'[j] = attempts[j] /\ runs'[j] = runs[j]
    BY <1>1 DEF RowsTyped
  <2>4. attempts[i] + 1 > 0
    BY <1>1
  <2> QED BY <1>1, <2>1, <2>2, <2>3, <2>4 DEF OneLiveRun
<1>5. ClosedPlanIsQuiet' /\ CanceledWithPlan' /\ PlannedIsPending'
  BY <1>1 DEF ClosedPlanIsQuiet, CanceledWithPlan, PlannedIsPending, RowsTyped
<1>7. VerdictAgrees'
  <2>1. \A j \in Invocations : inv'[j] = "FAILED" => inv[j] = "FAILED"
    BY <1>1 DEF RowsTyped
  <2> QED BY <1>1, <2>1 DEF VerdictAgrees
<1>6. ParallelismBounded'
  <2>1. Running(inv') = Running(inv) \cup {i}
    BY <1>1 DEF Running, RowsTyped
  <2>2. IsFiniteSet(Running(inv))
    BY FS_Subset, ReadinessAssumption DEF Running
  <2>3. i \notin Running(inv)
    BY <1>1 DEF Running
  <2>4. Cardinality(Running(inv')) = Cardinality(Running(inv)) + 1
    BY <2>1, <2>2, <2>3, FS_AddElement
  <2>5. def.maxParallelism \in Nat /\ Cardinality(Running(inv)) \in Nat
    BY <2>2, FS_CardinalityType, OrchestrationAssumption, PlansFit DEF RowsTyped
  <2>6. Cardinality(Running(inv')) <= def.maxParallelism
    BY <1>1, <2>4, <2>5
  <2> QED BY <1>1, <2>6 DEF ParallelismBounded, Running
<1> QED BY <1>2, <1>3, <1>4, <1>5, <1>6, <1>7

(* The ways a run ends, shared by persistExecutionResult and               *)
(* recoverStaleRun.  First a run whose invocation is no longer running.    *)
LEMMA CancelRunKeepsRows ==
  ASSUME RowsInv, NEW i \in Invocations, NEW a \in 1..MaxRuns,
         plan # "RUNNING" \/ inv[i] # "RUNNING",
         FinishRun(i, a, "CANCELED", NoOutcome),
         UNCHANGED <<def, plan, inv, attempts>>,
         runs[i][a].status = "RUNNING"
  PROVE  RowsInv'
<1> USE DEF RowsInv
<1>1. runs' = [runs EXCEPT ![i] = [runs[i] EXCEPT ![a] =
                 [status |-> "CANCELED", outcome |-> NoOutcome]]]
  BY DEF FinishRun
<1>2. RowsTyped'
  BY <1>1 DEF RowsTyped, RunRows
<1>3. RunsAreNumbered'
  BY <1>1 DEF RunsAreNumbered, OneLiveRun, RowsTyped
<1>4. inv[i] # "RUNNING"
  BY DEF ClosedPlanIsQuiet, TerminalStatuses, PlannedIsPending
<1>5. OneLiveRun'
  BY <1>1, <1>4 DEF OneLiveRun, RowsTyped
<1>6. ClosedPlanIsQuiet' /\ CanceledWithPlan' /\ PlannedIsPending' /\ VerdictAgrees'
  BY DEF ClosedPlanIsQuiet, CanceledWithPlan, PlannedIsPending, VerdictAgrees
<1>7. ParallelismBounded'
  BY DEF ParallelismBounded, Running
<1> QED BY <1>2, <1>3, <1>5, <1>6, <1>7

(* A live run that ends without failing takes its invocation with it.      *)
LEMMA ResultKeepsRows ==
  ASSUME RowsInv, NEW i \in Invocations, NEW a \in 1..MaxRuns,
         NEW result \in {"COMPLETED"} \cup UsageWaits, NEW outcome \in Outcomes \cup {NoOutcome},
         runs[i][a].status = "RUNNING", plan = "RUNNING", inv[i] = "RUNNING",
         FinishRun(i, a, result, outcome),
         inv' = [inv EXCEPT ![i] = result],
         UNCHANGED <<def, plan, attempts>>
  PROVE  RowsInv'
<1> USE DEF RowsInv
<1>1. runs' = [runs EXCEPT ![i] = [runs[i] EXCEPT ![a] =
                 [status |-> result, outcome |-> outcome]]]
  BY DEF FinishRun
<1>2. result \notin {"RUNNING", "FAILED", "CANCELED", "PENDING"}
  BY DEF UsageWaits
<1>3. RowsTyped'
  BY <1>1 DEF RowsTyped, RunRows, InvocationStatuses, ActiveStatuses, TerminalStatuses
<1>4. RunsAreNumbered'
  BY <1>1 DEF RunsAreNumbered, OneLiveRun, RowsTyped
<1>5. OneLiveRun'
  BY <1>1, <1>2 DEF OneLiveRun, RowsTyped
<1>6. ClosedPlanIsQuiet' /\ CanceledWithPlan' /\ PlannedIsPending'
  BY <1>2 DEF ClosedPlanIsQuiet, CanceledWithPlan, PlannedIsPending, RowsTyped
<1>7. VerdictAgrees'
  <2>1. \A j \in Invocations : inv'[j] = "FAILED" => inv[j] = "FAILED"
    BY <1>2 DEF RowsTyped
  <2> QED BY <2>1 DEF VerdictAgrees
<1>8. ParallelismBounded'
  <2>1. def.maxParallelism \in Nat
    BY OrchestrationAssumption, PlansFit DEF RowsTyped
  <2>2. \A j \in Invocations : inv'[j] = "RUNNING" => inv[j] = "RUNNING"
    BY <1>2 DEF RowsTyped
  <2>3. Cardinality(Running(inv')) <= def.maxParallelism
    BY <2>1, <2>2, FewerRunning DEF ParallelismBounded
  <2> QED BY <2>3 DEF ParallelismBounded, Running
<1> QED BY <1>3, <1>4, <1>5, <1>6, <1>7, <1>8

(* A live run that fails is retried, or fails its invocation and perhaps   *)
(* its plan.                                                               *)
LEMMA FailureKeepsRows ==
  ASSUME RowsInv, NEW i \in Invocations, NEW a \in 1..MaxRuns, NEW retryable \in BOOLEAN,
         runs[i][a].status = "RUNNING", plan = "RUNNING", inv[i] = "RUNNING",
         FinishRun(i, a, "FAILED", NoOutcome),
         AfterFailure(i, a, retryable),
         UNCHANGED <<def, attempts>>
  PROVE  RowsInv'
<1> USE DEF RowsInv
<1> DEFINE status == IF retryable /\ a < MaxAttempts THEN "READY" ELSE "FAILED"
           fails == status = "FAILED" /\ def.failure[i] = "FAIL_PLAN"
           retried == [inv EXCEPT ![i] = status]
<1>1. runs' = [runs EXCEPT ![i] = [runs[i] EXCEPT ![a] =
                 [status |-> "FAILED", outcome |-> NoOutcome]]]
  BY DEF FinishRun
<1>2. /\ inv' = IF fails THEN CancelActive(retried) ELSE retried
      /\ plan' = IF fails THEN "FAILED" ELSE plan
  BY DEF AfterFailure
<1>3. status \in {"READY", "FAILED"}
  OBVIOUS
<1> HIDE DEF status
<1>4. retried \in [Invocations -> InvocationStatuses]
  BY <1>3 DEF RowsTyped, InvocationStatuses, ActiveStatuses, TerminalStatuses
<1>5. /\ retried[i] = status
      /\ \A j \in Invocations : j # i => retried[j] = inv[j]
  BY DEF RowsTyped
<1>6. CancelActive(retried) \in [Invocations -> TerminalStatuses]
  BY <1>4 DEF CancelActive, InvocationStatuses, TerminalStatuses
<1>7. \A j \in Invocations : CancelActive(retried)[j] = "FAILED" <=> retried[j] = "FAILED"
  BY <1>4 DEF CancelActive, ActiveStatuses, UsageWaits
<1> HIDE DEF retried
<1>8. RowsTyped'
  BY <1>1, <1>2, <1>4, <1>6 DEF RowsTyped, RunRows, PlanStatuses, InvocationStatuses
<1>9. RunsAreNumbered'
  BY <1>1 DEF RunsAreNumbered, OneLiveRun, RowsTyped
<1>10. \A j \in Invocations : inv'[j] = "RUNNING" => j # i /\ inv[j] = "RUNNING"
  BY <1>2, <1>3, <1>5, <1>6 DEF TerminalStatuses
<1>11. OneLiveRun'
  <2>1. \A j \in Invocations, b \in 1..MaxRuns :
          runs'[j][b].status = "RUNNING" => j # i /\ runs[j][b].status = "RUNNING"
    BY <1>1 DEF OneLiveRun, RowsTyped
  <2>2. \A j \in Invocations : j # i => runs'[j] = runs[j]
    BY <1>1 DEF RowsTyped
  <2>3. CASE ~fails
    <3>1. \A j \in Invocations : j # i => inv'[j] = inv[j]
      BY <1>2, <1>5, <2>3
    <3> QED BY <1>10, <2>1, <2>2, <3>1 DEF OneLiveRun
  <2>4. CASE fails
    <3>1. plan' = "FAILED"
      BY <1>2, <2>4
    <3>2. \A j \in Invocations : j # i /\ inv[j] = "RUNNING" => inv'[j] = "CANCELED"
      BY <1>2, <1>5, <2>4 DEF CancelActive, ActiveStatuses
    <3>3. \A j \in Invocations : inv'[j] # "RUNNING"
      BY <1>2, <1>6, <2>4 DEF TerminalStatuses
    <3> QED BY <2>1, <3>1, <3>2, <3>3 DEF OneLiveRun
  <2> QED BY <2>3, <2>4
<1>12. ClosedPlanIsQuiet' /\ CanceledWithPlan' /\ PlannedIsPending'
  BY <1>2, <1>3, <1>5, <1>6 DEF ClosedPlanIsQuiet, CanceledWithPlan, PlannedIsPending
<1>13. VerdictAgrees'
  BY <1>2, <1>3, <1>5, <1>7 DEF VerdictAgrees
<1>14. ParallelismBounded'
  <2>1. def.maxParallelism \in Nat
    BY OrchestrationAssumption, PlansFit DEF RowsTyped
  <2>2. Cardinality(Running(inv')) <= def.maxParallelism
    BY <1>10, <2>1, FewerRunning DEF ParallelismBounded
  <2> QED BY <2>2 DEF ParallelismBounded, Running
<1> QED BY <1>8, <1>9, <1>11, <1>12, <1>13, <1>14

(* persistExecutionResult, in each of its cases.                           *)
LEMMA PersistKeepsRows ==
  ASSUME RowsInv, NEW i \in Invocations, NEW a \in 1..MaxRuns, NEW result \in Results,
         NEW outcome \in Outcomes \cup {NoOutcome}, NEW retryable \in BOOLEAN,
         persistExecutionResult(i, a, result, outcome, retryable),
         UNCHANGED <<def, attempts>>
  PROVE  RowsInv'
<1>1. CASE runs[i][a].status # "RUNNING"
  <2>1. UNCHANGED <<def, durable>>
    BY <1>1 DEF persistExecutionResult, durable
  <2> QED BY <2>1, RowsUntouched
<1>2. CASE runs[i][a].status = "RUNNING" /\ (plan # "RUNNING" \/ inv[i] # "RUNNING")
  <2>1. FinishRun(i, a, "CANCELED", NoOutcome) /\ UNCHANGED <<plan, inv>>
    BY <1>2 DEF persistExecutionResult
  <2> QED BY <1>2, <2>1, CancelRunKeepsRows
<1>3. CASE runs[i][a].status = "RUNNING" /\ plan = "RUNNING" /\ inv[i] = "RUNNING"
  <2>1. CASE result # "FAILED"
    <3>1. result \in {"COMPLETED"} \cup UsageWaits
      BY <2>1, OrchestrationAssumption, PlansFit
    <3>2. /\ FinishRun(i, a, result, outcome)
          /\ inv' = [inv EXCEPT ![i] = result]
          /\ UNCHANGED plan
      BY <1>3, <2>1 DEF persistExecutionResult
    <3> QED BY <1>3, <3>1, <3>2, ResultKeepsRows
  <2>2. CASE result = "FAILED"
    <3>1. FinishRun(i, a, "FAILED", NoOutcome) /\ AfterFailure(i, a, retryable)
      BY <1>3, <2>2 DEF persistExecutionResult
    <3> QED BY <1>3, <3>1, FailureKeepsRows
  <2> QED BY <2>1, <2>2
<1> QED BY <1>1, <1>2, <1>3

(* recoverStaleRun, whether or not the executor of the run is alive.       *)
LEMMA RecoverKeepsRows ==
  ASSUME RowsInv, NEW i \in Invocations, NEW a \in 1..MaxRuns, recoverStaleRun(i, a)
  PROVE  RowsInv'
<1>1. UNCHANGED <<def, attempts>> /\ runs[i][a].status = "RUNNING"
  BY DEF recoverStaleRun
<1>2. CASE plan # "RUNNING" \/ inv[i] # "RUNNING"
  <2>1. FinishRun(i, a, "CANCELED", NoOutcome) /\ UNCHANGED <<plan, inv>>
    BY <1>2 DEF recoverStaleRun
  <2> QED BY <1>1, <1>2, <2>1, CancelRunKeepsRows
<1>3. CASE plan = "RUNNING" /\ inv[i] = "RUNNING"
  <2>1. FinishRun(i, a, "FAILED", NoOutcome) /\ AfterFailure(i, a, TRUE)
    BY <1>3 DEF recoverStaleRun
  <2> QED BY <1>1, <1>3, <2>1, FailureKeepsRows
<1> QED BY <1>2, <1>3

-------------------------------------------------------------------------------
(* Every step keeps the rows as they should be.                            *)
LEMMA NextKeepsRows ==
  ASSUME TypeOK, RowsInv, [Next]_vars PROVE RowsInv'
<1>1. CASE UNCHANGED vars
  BY <1>1, RowsUntouched DEF vars, durable
<1>2. CASE UserStep
  <2>1. CASE start BY <2>1, StartKeepsRows
  <2>2. CASE stop BY <2>2, StopKeepsRows
  <2>3. ASSUME NEW i \in Invocations, NEW kind, RequestReads(i, kind) PROVE RowsInv'
    BY <2>3, RowsUntouched DEF RequestReads, durable
  <2>4. ASSUME NEW i \in Invocations, approve(i) PROVE RowsInv'
    BY <2>4, ApproveKeepsRows
  <2>5. ASSUME NEW i \in Invocations, NEW outcome \in Outcomes, resolveHumanEvaluation(i, outcome)
        PROVE  RowsInv'
    BY <2>5, EvaluationKeepsRows
  <2> QED BY <1>2, <2>1, <2>2, <2>3, <2>4, <2>5 DEF UserStep
<1>3. CASE DispatchStep
  <2>1. ASSUME NEW elapsed, dispatchPlan(elapsed) PROVE RowsInv'
    BY <2>1, DispatchKeepsRows
  <2>2. CASE EnqueueInvocations
    BY <2>2, RowsUntouched DEF EnqueueInvocations, durable
  <2> QED BY <1>3, <2>1, <2>2 DEF DispatchStep
<1>4. ASSUME NEW i \in Invocations, JobStep(i) PROVE RowsInv'
  <2>1. CASE claimInvocation(i) BY <2>1, ClaimKeepsRows
  <2>2. CASE ClaimRefused(i) BY <2>2, RowsUntouched DEF ClaimRefused, durable
  <2>3. CASE enqueueDispatch(i) BY <2>3, RowsUntouched DEF enqueueDispatch, durable
  <2>4. CASE JobEnds(i) BY <2>4, RowsUntouched DEF JobEnds, durable
  <2> QED BY <1>4, <2>1, <2>2, <2>3, <2>4 DEF JobStep
<1>5. ASSUME NEW i \in Invocations, ExecutorStep(i) PROVE RowsInv'
  <2>1. PICK e \in executors, result \in Results, outcome \in Outcomes \cup {NoOutcome},
             retryable \in BOOLEAN : ExecutorAnswers(e, result, outcome, retryable)
    BY <1>5 DEF ExecutorStep
  <2>2. e.invocation \in Invocations /\ e.attempt \in 1..MaxRuns
    BY DEF TypeOK
  <2>3. persistExecutionResult(e.invocation, e.attempt, result, outcome, retryable)
        /\ UNCHANGED <<def, attempts>>
    BY <2>1 DEF ExecutorAnswers
  <2> QED BY <2>2, <2>3, PersistKeepsRows
<1>6. ASSUME NEW i \in Invocations, RecoverStep(i) PROVE RowsInv'
  BY <1>6, RecoverKeepsRows DEF RecoverStep
<1>7. CASE reconcile
  BY <1>7, RowsUntouched DEF reconcile, durable
<1>8. CASE FailureStep
  <2>1. UNCHANGED <<def, durable>>
    BY <1>8 DEF FailureStep, WorkerDies, JobStalls, DispatcherDies, QueueLost
  <2> QED BY <2>1, RowsUntouched
<1> QED BY <1>1, <1>2, <1>3, <1>4, <1>5, <1>6, <1>7, <1>8 DEF Next

(* The queues, the executions and the requests keep their types.           *)
LEMMA NextKeepsType ==
  ASSUME TypeOK, RowsInv, [Next]_vars PROVE TypeOK'
<1> DEFINE Executions == [invocation : Invocations, attempt : 1..MaxRuns, owns : BOOLEAN]
           Volatile == /\ requests \subseteq {"CONFIRM", "HUMAN"} \X Invocations
                       /\ executors \subseteq Executions
                       /\ execJob \in [Invocations -> JobStates]
                       /\ dispatchJob \in {"none", "waiting", "active"}
                       /\ toEnqueue \subseteq Invocations
                       /\ crashes \in 0..MaxCrashes
<1> SUFFICES Volatile'
  BY NextKeepsRows DEF TypeOK, RowsInv, RowsTyped
<1>0. Volatile
  BY DEF TypeOK
<1> USE <1>0 DEF JobStates, queues
<1>1. CASE UNCHANGED vars
  BY <1>1 DEF vars
<1>2. CASE UserStep
  <2>1. executors' = executors /\ execJob' = execJob /\ dispatchJob' = dispatchJob
        /\ toEnqueue' = toEnqueue /\ crashes' = crashes
    BY <1>2 DEF UserStep, start, stop, RequestReads, approve, resolveHumanEvaluation
  <2>2. ASSUME NEW i \in Invocations, NEW kind \in {"CONFIRM", "HUMAN"}, RequestReads(i, kind)
        PROVE  requests' \subseteq {"CONFIRM", "HUMAN"} \X Invocations
    BY <2>2 DEF RequestReads
  <2>3. requests' \subseteq {"CONFIRM", "HUMAN"} \X Invocations
    BY <1>2, <2>2 DEF UserStep, start, stop, approve, resolveHumanEvaluation
  <2> QED BY <2>1, <2>3
<1>3. CASE DispatchStep
  <2>1. ASSUME NEW elapsed, dispatchPlan(elapsed) PROVE Volatile'
    BY <2>1 DEF dispatchPlan, ReadyForSlots
  <2>2. CASE EnqueueInvocations
    BY <2>2 DEF EnqueueInvocations
  <2> QED BY <1>3, <2>1, <2>2 DEF DispatchStep
<1>4. ASSUME NEW i \in Invocations, JobStep(i) PROVE Volatile'
  <2>1. CASE claimInvocation(i)
    <3>1. attempts[i] + 1 \in 1..MaxRuns
      BY <2>1, OrchestrationAssumption, PlansFit DEF claimInvocation, TypeOK
    <3>2. [invocation |-> i, attempt |-> attempts[i] + 1, owns |-> TRUE] \in Executions
      BY <3>1
    <3>3. executors' \subseteq Executions
      BY <2>1, <3>2 DEF claimInvocation
    <3> QED BY <2>1, <3>3 DEF claimInvocation
  <2>2. CASE ClaimRefused(i) BY <2>2 DEF ClaimRefused
  <2>3. CASE enqueueDispatch(i) BY <2>3 DEF enqueueDispatch, EnqueuedDispatch
  <2>4. CASE JobEnds(i) BY <2>4 DEF JobEnds
  <2> QED BY <1>4, <2>1, <2>2, <2>3, <2>4 DEF JobStep
<1>5. ASSUME NEW i \in Invocations, ExecutorStep(i) PROVE Volatile'
  <2>1. PICK e \in executors, result \in Results, outcome \in Outcomes \cup {NoOutcome},
             retryable \in BOOLEAN : ExecutorAnswers(e, result, outcome, retryable)
    BY <1>5 DEF ExecutorStep
  <2> QED BY <2>1 DEF ExecutorAnswers, EnqueuedDispatch
<1>6. ASSUME NEW i \in Invocations, RecoverStep(i) PROVE Volatile'
  BY <1>6 DEF RecoverStep, recoverStaleRun
<1>7. CASE reconcile
  BY <1>7 DEF reconcile, EnqueuedDispatch
<1>8. CASE FailureStep
  <2> USE OrchestrationAssumption, PlansFit
  <2>1. ASSUME NEW i \in Invocations, WorkerDies(i) PROVE Volatile'
    BY <2>1 DEF WorkerDies, Fails
  <2>2. ASSUME NEW e \in executors, JobStalls(e) PROVE Volatile'
    <3>1. [e EXCEPT !.owns = FALSE] \in Executions
      OBVIOUS
    <3>2. executors' \subseteq Executions
      BY <2>2, <3>1 DEF JobStalls
    <3>3. crashes' \in 0..MaxCrashes
      BY <2>2 DEF JobStalls, Fails
    <3>4. execJob' \in [Invocations -> JobStates]
      BY <2>2 DEF JobStalls
    <3> QED BY <2>2, <3>2, <3>3, <3>4 DEF JobStalls
  <2>3. CASE DispatcherDies BY <2>3 DEF DispatcherDies, Fails
  <2>4. CASE QueueLost BY <2>4 DEF QueueLost, Fails
  <2> QED BY <1>8, <2>1, <2>2, <2>3, <2>4 DEF FailureStep
<1> QED BY <1>1, <1>2, <1>3, <1>4, <1>5, <1>6, <1>7, <1>8 DEF Next

(* The inductive step.                                                     *)
LEMMA NextInv == OrchestrationInv /\ [Next]_vars => OrchestrationInv'
<1> SUFFICES ASSUME OrchestrationInv, [Next]_vars PROVE OrchestrationInv'
  OBVIOUS
<1>1. TypeOK /\ RowsInv
  BY DEF OrchestrationInv, RowsInv, RowsTyped, TypeOK
<1>2. RowsInv' /\ TypeOK'
  BY <1>1, NextKeepsRows, NextKeepsType
<1> QED BY <1>2 DEF OrchestrationInv, RowsInv

LEMMA InvAlways == Spec => []OrchestrationInv
BY InitInv, NextInv, PTL DEF Spec

-------------------------------------------------------------------------------
(* Rows, jobs, executions and requests have their types in every state.    *)
THEOREM TypeCorrect == Spec => []TypeOK
<1>1. OrchestrationInv => TypeOK
  BY DEF OrchestrationInv
<1> QED BY <1>1, InvAlways, PTL

(* For every plan, queue loss, crash and stall, the running invocations    *)
(* never outnumber maxParallelism.                                         *)
THEOREM NeverTooManyRunning == Spec => []ParallelismBounded
<1>1. OrchestrationInv => ParallelismBounded
  BY DEF OrchestrationInv
<1> QED BY <1>1, InvAlways, PTL

(* However often a job is repeated or a live executor declared stale, an   *)
(* invocation has one live run, and it is its latest.                      *)
THEOREM OneLiveRunAlways == Spec => []OneLiveRun
<1>1. OrchestrationInv => OneLiveRun
  BY DEF OrchestrationInv
<1> QED BY <1>1, InvAlways, PTL

(* Nothing is left to run in a plan that is over.                          *)
THEOREM ClosedPlanStaysQuiet == Spec => []ClosedPlanIsQuiet
<1>1. OrchestrationInv => ClosedPlanIsQuiet
  BY DEF OrchestrationInv
<1> QED BY <1>1, InvAlways, PTL

(* The plan's status is the verdict its invocations call for.              *)
THEOREM VerdictAlwaysAgrees == Spec => []VerdictAgrees
<1>1. OrchestrationInv => VerdictAgrees
  BY DEF OrchestrationInv
<1> QED BY <1>1, InvAlways, PTL

-------------------------------------------------------------------------------
(* What a step may do to what is finished, action by action.               *)
Kept ==
  /\ \A i \in Invocations :
       /\ inv[i] \in TerminalStatuses => inv'[i] = inv[i]
       /\ \A a \in 1..MaxRuns :
            runs[i][a].status \notin {"NONE", "RUNNING"} => runs'[i][a] = runs[i][a]
  /\ plan \notin {"PLANNED", "RUNNING"} => plan' = plan

(* A table whose active entries are canceled keeps the finished ones.      *)
LEMMA CancelKeepsTerminal ==
  ASSUME NEW status, NEW i \in Invocations, status[i] \in TerminalStatuses
  PROVE  CancelActive(status)[i] = status[i]
BY DEF CancelActive, ActiveStatuses, TerminalStatuses, UsageWaits

(* A write to a run that is RUNNING leaves the finished ones.              *)
LEMMA FinishKeepsFinished ==
  ASSUME RowsInv, NEW i \in Invocations, NEW a \in 1..MaxRuns, NEW status, NEW outcome,
         runs[i][a].status = "RUNNING", FinishRun(i, a, status, outcome)
  PROVE  \A j \in Invocations, b \in 1..MaxRuns :
           runs[j][b].status \notin {"NONE", "RUNNING"} => runs'[j][b] = runs[j][b]
BY DEF FinishRun, RowsInv, RowsTyped

(* The end of a live run leaves finished runs and invocations alone.       *)
LEMMA FailureKeepsFinished ==
  ASSUME RowsInv, NEW i \in Invocations, NEW a \in 1..MaxRuns, NEW retryable \in BOOLEAN,
         runs[i][a].status = "RUNNING", plan = "RUNNING", inv[i] = "RUNNING",
         FinishRun(i, a, "FAILED", NoOutcome), AfterFailure(i, a, retryable)
  PROVE  Kept
<1> DEFINE status == IF retryable /\ a < MaxAttempts THEN "READY" ELSE "FAILED"
           retried == [inv EXCEPT ![i] = status]
<1>1. inv' = CancelActive(retried) \/ inv' = retried
  BY DEF AfterFailure
<1>2. \A j \in Invocations : inv[j] \in TerminalStatuses => retried[j] = inv[j]
  BY DEF RowsInv, RowsTyped, TerminalStatuses
<1> HIDE DEF retried
<1>3. \A j \in Invocations : inv[j] \in TerminalStatuses => inv'[j] = inv[j]
  BY <1>1, <1>2, CancelKeepsTerminal
<1>4. \A j \in Invocations, b \in 1..MaxRuns :
        runs[j][b].status \notin {"NONE", "RUNNING"} => runs'[j][b] = runs[j][b]
  BY FinishKeepsFinished
<1> QED BY <1>3, <1>4 DEF Kept

LEMMA PersistKeepsFinished ==
  ASSUME RowsInv, NEW i \in Invocations, NEW a \in 1..MaxRuns, NEW result \in Results,
         NEW outcome, NEW retryable \in BOOLEAN,
         persistExecutionResult(i, a, result, outcome, retryable)
  PROVE  Kept
<1>1. CASE runs[i][a].status # "RUNNING"
  BY <1>1 DEF persistExecutionResult, Kept
<1>2. CASE runs[i][a].status = "RUNNING" /\ (plan # "RUNNING" \/ inv[i] # "RUNNING")
  BY <1>2, FinishKeepsFinished DEF persistExecutionResult, Kept
<1>3. CASE runs[i][a].status = "RUNNING" /\ plan = "RUNNING" /\ inv[i] = "RUNNING"
  <2>1. CASE result # "FAILED"
    <3>1. FinishRun(i, a, result, outcome) /\ inv' = [inv EXCEPT ![i] = result]
      BY <1>3, <2>1 DEF persistExecutionResult
    <3>2. \A j \in Invocations : inv[j] \in TerminalStatuses => inv'[j] = inv[j]
      BY <1>3, <3>1 DEF RowsInv, RowsTyped, TerminalStatuses
    <3> QED BY <1>3, <3>1, <3>2, FinishKeepsFinished DEF Kept
  <2>2. CASE result = "FAILED"
    BY <1>3, <2>2, FailureKeepsFinished DEF persistExecutionResult
  <2> QED BY <2>1, <2>2
<1> QED BY <1>1, <1>2, <1>3

LEMMA DispatchKeepsFinished ==
  ASSUME RowsInv, NEW elapsed, dispatchPlan(elapsed) PROVE Kept
<1>1. runs' = runs
  BY DEF dispatchPlan
<1>2. CASE plan # "RUNNING"
  BY <1>1, <1>2 DEF dispatchPlan, Kept
<1>3. CASE plan = "RUNNING"
  <2>1. PICK status \in SettledTables(def, Resumed(elapsed), latestOutcome) :
          inv' = CancelActive(status) \/ inv' = status
    BY <1>3 DEF dispatchPlan
  <2>2. Resumed(elapsed) \in [Invocations -> InvocationStatuses]
    BY DEF Resumed, RowsInv, RowsTyped, InvocationStatuses, ActiveStatuses
  <2>3. \A i \in Invocations :
          Resumed(elapsed)[i] # "PENDING" => status[i] = Resumed(elapsed)[i]
    BY <2>2, SettledShape DEF RowsInv, RowsTyped
  <2>4. \A i \in Invocations : inv[i] \in TerminalStatuses => status[i] = inv[i]
    BY <2>3 DEF Resumed, TerminalStatuses, UsageWaits
  <2>5. \A i \in Invocations : inv[i] \in TerminalStatuses => inv'[i] = inv[i]
    BY <2>1, <2>4, CancelKeepsTerminal
  <2> QED BY <1>1, <1>3, <2>5 DEF Kept
<1> QED BY <1>2, <1>3

LEMMA StepKeepsFinished ==
  ASSUME OrchestrationInv, [Next]_vars PROVE Kept
<1>0. TypeOK /\ RowsInv
  BY DEF OrchestrationInv, RowsInv, RowsTyped, TypeOK
<1>1. CASE UNCHANGED durable
  BY <1>1 DEF durable, Kept
<1>2. CASE UserStep
  <2>1. CASE start
    BY <1>0, <2>1 DEF start, Kept, RowsInv, PlannedIsPending, TerminalStatuses
  <2>2. CASE stop
    BY <2>2, CancelKeepsTerminal DEF stop, Kept
  <2>3. ASSUME NEW i \in Invocations, NEW kind, RequestReads(i, kind) PROVE Kept
    BY <1>1, <2>3 DEF RequestReads
  <2>4. ASSUME NEW i \in Invocations, approve(i) PROVE Kept
    BY <1>0, <2>4 DEF approve, Kept, RowsInv, RowsTyped, TerminalStatuses
  <2>5. ASSUME NEW i \in Invocations, NEW outcome \in Outcomes, resolveHumanEvaluation(i, outcome)
        PROVE  Kept
    BY <1>0, <2>5, OrchestrationAssumption, PlansFit
    DEF resolveHumanEvaluation, Kept, RowsInv, RowsTyped, RunsAreNumbered, TerminalStatuses
  <2> QED BY <1>2, <2>1, <2>2, <2>3, <2>4, <2>5 DEF UserStep
<1>3. CASE DispatchStep
  BY <1>0, <1>1, <1>3, DispatchKeepsFinished DEF DispatchStep, EnqueueInvocations
<1>4. ASSUME NEW i \in Invocations, JobStep(i) PROVE Kept
  <2>1. CASE claimInvocation(i)
    BY <1>0, <2>1, OrchestrationAssumption, PlansFit
    DEF claimInvocation, CanClaim, Kept, RowsInv, RowsTyped, RunsAreNumbered, TerminalStatuses
  <2> QED BY <1>1, <1>4, <2>1 DEF JobStep, ClaimRefused, enqueueDispatch, JobEnds
<1>5. ASSUME NEW i \in Invocations, ExecutorStep(i) PROVE Kept
  <2>1. PICK e \in executors, result \in Results, outcome \in Outcomes \cup {NoOutcome},
             retryable \in BOOLEAN : ExecutorAnswers(e, result, outcome, retryable)
    BY <1>5 DEF ExecutorStep
  <2>2. e.invocation \in Invocations /\ e.attempt \in 1..MaxRuns
    BY <1>0 DEF TypeOK
  <2> QED BY <1>0, <2>1, <2>2, PersistKeepsFinished DEF ExecutorAnswers
<1>6. ASSUME NEW i \in Invocations, NEW a \in 1..MaxRuns, recoverStaleRun(i, a) PROVE Kept
  <2>1. CASE plan = "RUNNING" /\ inv[i] = "RUNNING"
    BY <1>0, <1>6, <2>1, FailureKeepsFinished DEF recoverStaleRun
  <2>2. CASE ~(plan = "RUNNING" /\ inv[i] = "RUNNING")
    BY <1>0, <1>6, <2>2, FinishKeepsFinished DEF recoverStaleRun, Kept
  <2> QED BY <2>1, <2>2
<1>7. CASE reconcile
  BY <1>1, <1>7 DEF reconcile
<1>8. CASE FailureStep
  BY <1>1, <1>8 DEF FailureStep, WorkerDies, JobStalls, DispatcherDies, QueueLost
<1>9. CASE UNCHANGED vars
  BY <1>1, <1>9 DEF vars
<1> QED BY <1>2, <1>3, <1>4, <1>5, <1>6, <1>7, <1>8, <1>9 DEF Next, RecoverStep

(* A late result, a second delivery, a late stop or approval, a restart:   *)
(* none changes a finished run, invocation or plan.                        *)
THEOREM FinishedStaysAlways == Spec => FinishedStays
<1>1. OrchestrationInv /\ [Next]_vars => [Kept]_vars
  BY StepKeepsFinished
<1>2. Spec => [][Kept]_vars
  BY <1>1, InvAlways, PTL DEF Spec
<1> QED BY <1>2 DEF FinishedStays, Kept

-------------------------------------------------------------------------------
(* Why an invocation runs.  What a dependency was decided on is finished,  *)
(* so the decision stands; a run fails for the last time only together     *)
(* with its invocation; a request is of the kind its invocation asks for.  *)

(* A table that came after another one and its outcomes: what is finished  *)
(* stays, and so does the outcome of what has completed.                   *)
Onward(old, earlier, new, after) ==
  \A j \in Invocations :
    old[j] \in TerminalStatuses =>
      new[j] = old[j] /\ (old[j] = "COMPLETED" => after[j] = earlier[j])

LEMMA ConditionStands ==
  ASSUME NEW d, WellFormed(d), NEW x \in d.deps, NEW old, NEW earlier, NEW new, NEW after,
         Onward(old, earlier, new, after),
         evaluateCondition(x, old[x.from], earlier[x.from]) # "WAITING"
  PROVE  evaluateCondition(x, new[x.from], after[x.from])
           = evaluateCondition(x, old[x.from], earlier[x.from])
<1>1. x.from \in Invocations /\ x.kind \in {"DATA", "ON_SUCCESS", "ON_FAILURE", "ALWAYS", "OUTCOME"}
  BY DEF WellFormed
<1>2. old[x.from] \in TerminalStatuses
  BY DEF evaluateCondition, isTerminalInvocationStatus
<1>3. /\ new[x.from] = old[x.from]
      /\ old[x.from] = "COMPLETED" => after[x.from] = earlier[x.from]
  BY <1>1, <1>2 DEF Onward
<1>4. CASE old[x.from] = "COMPLETED"
  BY <1>3, <1>4
<1>5. CASE old[x.from] # "COMPLETED"
  BY <1>1, <1>2, <1>3, <1>5 DEF evaluateCondition, isTerminalInvocationStatus
<1> QED BY <1>4, <1>5

(* Each of the three joins decides on conditions that no longer change:    *)
(* a known one stays known, and a new one takes the place of an open one.  *)
LEMMA JoinStands ==
  ASSUME NEW policy \in {"ALL_REQUIRED", "ANY_REQUIRED", "ALL_SETTLED"},
         NEW old \in SUBSET {"WAITING", "SATISFIED", "IMPOSSIBLE"}, NEW new,
         old \ {"WAITING"} \subseteq new,
         "WAITING" \notin old => new \subseteq old,
         old # {} => new # {},
         decideJoin(policy, old) # "PENDING"
  PROVE  decideJoin(policy, new) = decideJoin(policy, old)
<1>1. CASE "WAITING" \notin old
  <2>1. new = old
    BY <1>1
  <2> QED BY <2>1
<1>2. CASE "WAITING" \in old
  <2>1. old # {} /\ new # {}
    BY <1>2
  <2>2. CASE policy = "ALL_SETTLED"
    BY <1>2, <2>1, <2>2 DEF decideJoin
  <2>3. CASE policy = "ANY_REQUIRED"
    <3>1. "SATISFIED" \in old /\ "SATISFIED" \in new
      BY <1>2, <2>1, <2>3 DEF decideJoin
    <3> QED BY <2>1, <2>3, <3>1 DEF decideJoin
  <2>4. CASE policy = "ALL_REQUIRED"
    <3>1. "IMPOSSIBLE" \in old /\ "IMPOSSIBLE" \in new
      BY <1>2, <2>1, <2>4 DEF decideJoin
    <3> QED BY <2>1, <2>4, <3>1 DEF decideJoin
  <2> QED BY <2>2, <2>3, <2>4
<1> QED BY <1>1, <1>2

LEMMA DecisionStands ==
  ASSUME NEW d, WellFormed(d), NEW i \in Invocations, NEW old, NEW earlier, NEW new, NEW after,
         Onward(old, earlier, new, after),
         decideDependencyReadiness(d, i, old, earlier) # "PENDING"
  PROVE  decideDependencyReadiness(d, i, new, after) = decideDependencyReadiness(d, i, old, earlier)
<1> DEFINE D == {x \in d.deps : x.to = i}
           E == {evaluateCondition(x, old[x.from], earlier[x.from]) : x \in D}
           F == {evaluateCondition(x, new[x.from], after[x.from]) : x \in D}
<1>1. d.join[i] \in {"ALL_REQUIRED", "ANY_REQUIRED", "ALL_SETTLED"}
  BY DEF WellFormed
<1>2. E \in SUBSET {"WAITING", "SATISFIED", "IMPOSSIBLE"}
  <2> SUFFICES ASSUME NEW x \in D
               PROVE  evaluateCondition(x, old[x.from], earlier[x.from])
                        \in {"WAITING", "SATISFIED", "IMPOSSIBLE"}
    OBVIOUS
  <2>1. x.kind \in {"DATA", "ON_SUCCESS", "ON_FAILURE", "ALWAYS", "OUTCOME"}
    BY DEF WellFormed
  <2> QED BY <2>1 DEF evaluateCondition
<1>3. \A x \in D : evaluateCondition(x, old[x.from], earlier[x.from]) # "WAITING" =>
                     evaluateCondition(x, new[x.from], after[x.from])
                       = evaluateCondition(x, old[x.from], earlier[x.from])
  BY ConditionStands
<1>4. /\ E \ {"WAITING"} \subseteq F
      /\ "WAITING" \notin E => F \subseteq E
      /\ E # {} => F # {}
  BY <1>3
<1>5. /\ decideDependencyReadiness(d, i, old, earlier) = decideJoin(d.join[i], E)
      /\ decideDependencyReadiness(d, i, new, after) = decideJoin(d.join[i], F)
  BY DEF decideDependencyReadiness
<1> HIDE DEF E, F
<1> QED BY <1>1, <1>2, <1>4, <1>5, JoinStands

-------------------------------------------------------------------------------
(* RunsAreJustified, and what it rests on: a request is of the kind that   *)
(* its invocation's approval asks for, and an attempt that used up the     *)
(* ceiling failed together with its invocation.                            *)
RequestsFit == \A r \in requests : def.approval[r[2]] = r[1]

LastFailureIsFinal ==
  \A i \in Invocations, a \in 1..MaxRuns :
    runs[i][a].status = "FAILED" /\ a >= MaxAttempts => a = attempts[i] /\ inv[i] = "FAILED"

JustifiedInv ==
  /\ OrchestrationInv
  /\ Justified(def, inv, latestOutcome)
  /\ RequestsFit
  /\ LastFailureIsFinal

(* What each step does for one invocation i.  It comes to a status that a  *)
(* dependency decides about from one of its kind, or by a decision;        *)
Decided(i) ==
  inv'[i] \notin {"PENDING", "CANCELED"} =>
    \/ inv[i] \notin {"PENDING", "CANCELED"} /\ (inv'[i] = "SKIPPED" <=> inv[i] = "SKIPPED")
    \/ decideDependencyReadiness(def, i, inv', latestOutcome')
         = IF inv'[i] = "SKIPPED" THEN "SKIPPED" ELSE "READY"

(* once it has completed or failed its runs are written no more;           *)
RunsRest(i) ==
  inv[i] \in {"COMPLETED", "FAILED"} => runs'[i] = runs[i] /\ attempts'[i] = attempts[i]

(* the run that fails is its latest, and is the last at the ceiling;       *)
FailsAtLast(i) ==
  \A a \in 1..MaxRuns :
    runs'[i][a].status = "FAILED" /\ a >= MaxAttempts =>
      runs[i][a].status = "FAILED" \/ (a = attempts'[i] /\ inv'[i] = "FAILED")

(* and nothing but its user's request takes it past him.                   *)
Asked(i) ==
  def.approval[i] # "AUTO" /\ inv[i] \in {"PENDING", "WAITING_APPROVAL"}
    /\ inv'[i] \in {"READY", "RUNNING", "COMPLETED"} =>
       <<def.approval[i], i>> \in requests

Reasoned == \A i \in Invocations : Decided(i) /\ RunsRest(i) /\ FailsAtLast(i) /\ Asked(i)

(* An invocation that a step leaves as it is.                              *)
LEMMA LeftAlone ==
  ASSUME NEW i \in Invocations, runs'[i] = runs[i], attempts'[i] = attempts[i],
         inv'[i] = inv[i] \/ inv'[i] = "CANCELED"
  PROVE  Decided(i) /\ RunsRest(i) /\ FailsAtLast(i) /\ Asked(i)
BY DEF Decided, RunsRest, FailsAtLast, Asked

LEMMA NothingWritten ==
  ASSUME UNCHANGED durable PROVE Reasoned
BY LeftAlone DEF durable, Reasoned

LEMMA StartReasoned ==
  ASSUME JustifiedInv, Kept, start PROVE Reasoned
<1>0. RowsInv
  BY DEF JustifiedInv, OrchestrationInv, RowsInv, RowsTyped, TypeOK
<1>1. /\ runs' = runs /\ attempts' = attempts /\ \A i \in Invocations : inv[i] = "PENDING"
      /\ inv' = [i \in Invocations |->
            NextStatus(def, i, decideDependencyReadiness(def, i, inv, latestOutcome))]
  BY <1>0 DEF start, RowsInv, PlannedIsPending
<1>2. latestOutcome' = latestOutcome /\ def \in Plans
  BY <1>0, <1>1 DEF latestOutcome, RowsInv, RowsTyped
<1>3. Onward(inv, latestOutcome, inv', latestOutcome)
  BY <1>1 DEF Onward, TerminalStatuses
<1> SUFFICES ASSUME NEW i \in Invocations
             PROVE  Decided(i) /\ RunsRest(i) /\ FailsAtLast(i) /\ Asked(i)
  BY DEF Reasoned
<1> DEFINE decision == decideDependencyReadiness(def, i, inv, latestOutcome)
<1>4. decision \in {"PENDING", "READY", "SKIPPED"}
  BY <1>2, DecisionType, PlansFit
<1>5. decision # "PENDING" =>
        decideDependencyReadiness(def, i, inv', latestOutcome') = decision
  BY <1>2, <1>3, DecisionStands, PlansFit
<1>6. inv'[i] = NextStatus(def, i, decision)
  BY <1>1
<1> HIDE DEF decision
<1>7. Decided(i)
  BY <1>4, <1>5, <1>6 DEF Decided, NextStatus
<1>8. Asked(i)
  BY <1>4, <1>6 DEF Asked, NextStatus
<1> QED BY <1>1, <1>7, <1>8 DEF RunsRest, FailsAtLast

LEMMA StopReasoned ==
  ASSUME stop PROVE Reasoned
<1>1. \A i \in Invocations : inv'[i] = inv[i] \/ inv'[i] = "CANCELED"
  BY DEF stop, CancelActive
<1> QED BY <1>1, LeftAlone DEF stop, Reasoned

LEMMA ApproveReasoned ==
  ASSUME JustifiedInv, NEW i \in Invocations, approve(i) PROVE Reasoned
<1>0. /\ inv \in [Invocations -> InvocationStatuses]
      /\ <<"CONFIRM", i>> \in requests /\ def.approval[i] = "CONFIRM"
  BY DEF JustifiedInv, OrchestrationInv, TypeOK, RequestsFit, approve
<1>1. runs' = runs /\ attempts' = attempts
  BY DEF approve
<1>2. CASE inv[i] # "WAITING_APPROVAL"
  BY <1>1, <1>2, NothingWritten DEF approve, durable
<1>3. CASE inv[i] = "WAITING_APPROVAL"
  <2>1. inv'[i] = "READY" /\ \A j \in Invocations \ {i} : inv'[j] = inv[j]
    BY <1>0, <1>3 DEF approve
  <2>2. Decided(i) /\ RunsRest(i) /\ FailsAtLast(i) /\ Asked(i)
    BY <1>0, <1>1, <1>3, <2>1 DEF Decided, RunsRest, FailsAtLast, Asked
  <2> QED BY <1>1, <2>1, <2>2, LeftAlone DEF Reasoned
<1> QED BY <1>2, <1>3

LEMMA EvaluationReasoned ==
  ASSUME JustifiedInv, NEW i \in Invocations, NEW outcome \in Outcomes,
         resolveHumanEvaluation(i, outcome)
  PROVE  Reasoned
<1>0. TypeOK /\ <<"HUMAN", i>> \in requests /\ def.approval[i] = "HUMAN"
  BY DEF JustifiedInv, OrchestrationInv, RequestsFit, resolveHumanEvaluation
<1>1. CASE inv[i] # "WAITING_APPROVAL"
  BY <1>1, NothingWritten DEF resolveHumanEvaluation, durable
<1>2. CASE inv[i] = "WAITING_APPROVAL"
  <2>1. /\ inv'[i] = "COMPLETED"
        /\ \A j \in Invocations \ {i} :
             inv'[j] = inv[j] /\ runs'[j] = runs[j] /\ attempts'[j] = attempts[j]
    BY <1>0, <1>2 DEF resolveHumanEvaluation, TypeOK
  <2>3. \A a \in 1..MaxRuns : runs'[i][a].status # "FAILED" \/ runs'[i][a] = runs[i][a]
    <3>1. runs' = [runs EXCEPT ![i] = [runs[i] EXCEPT ![attempts[i] + 1] =
                     [status |-> "COMPLETED", outcome |-> outcome]]]
      BY <1>2 DEF resolveHumanEvaluation
    <3>2. runs'[i] = [runs[i] EXCEPT ![attempts[i] + 1] =
                     [status |-> "COMPLETED", outcome |-> outcome]]
      BY <1>0, <3>1 DEF TypeOK
    <3>3. runs[i] \in [1..MaxRuns -> RunRows]
      BY <1>0 DEF TypeOK
    <3> QED BY <3>2, <3>3
  <2>2. Decided(i) /\ RunsRest(i) /\ FailsAtLast(i) /\ Asked(i)
    BY <1>0, <1>2, <2>1, <2>3 DEF Decided, RunsRest, FailsAtLast, Asked
  <2> QED BY <2>1, <2>2, LeftAlone DEF Reasoned
<1> QED BY <1>1, <1>2

(* Dispatch decides by the table it writes.                                *)
LEMMA DispatchReasoned ==
  ASSUME JustifiedInv, NEW elapsed, dispatchPlan(elapsed) PROVE Reasoned
<1>0. RowsInv
  BY DEF JustifiedInv, OrchestrationInv, RowsInv, RowsTyped, TypeOK
<1>1. runs' = runs /\ attempts' = attempts
  BY DEF dispatchPlan
<1>2. CASE plan # "RUNNING"
  BY <1>1, <1>2, NothingWritten DEF dispatchPlan, durable
<1>3. CASE plan = "RUNNING"
  <2>1. PICK t \in SettledTables(def, Resumed(elapsed), latestOutcome) : inv' = t
    BY <1>0, <1>3, DispatchWrites
  <2>2. def \in Plans /\ latestOutcome' = latestOutcome
    BY <1>0, <1>1 DEF RowsInv, RowsTyped, latestOutcome
  <2> SUFFICES ASSUME NEW i \in Invocations
               PROVE  Decided(i) /\ RunsRest(i) /\ FailsAtLast(i) /\ Asked(i)
    BY DEF Reasoned
  <2>3. RunsRest(i) /\ FailsAtLast(i)
    BY <1>1 DEF RunsRest, FailsAtLast
  <2>4. CASE inv[i] # "PENDING"
    <3>1. Resumed(elapsed)[i] # "PENDING"
      BY <2>4 DEF Resumed
    <3>2. Resumed(elapsed) \in [Invocations -> InvocationStatuses]
      BY <1>0 DEF Resumed, RowsInv, RowsTyped, InvocationStatuses, ActiveStatuses
    <3>3. inv'[i] = Resumed(elapsed)[i]
      BY <2>1, <2>2, <3>1, <3>2, SettledShape
    <3>4. inv'[i] = inv[i] \/ (inv[i] \in UsageWaits /\ inv'[i] = "READY")
      BY <3>3 DEF Resumed
    <3> QED BY <2>3, <2>4, <3>4 DEF Decided, Asked, UsageWaits
  <2>5. CASE inv[i] = "PENDING"
    <3> DEFINE decision == decideDependencyReadiness(def, i, t, latestOutcome)
    <3>1. Resumed(elapsed)[i] = "PENDING"
      BY <2>5 DEF Resumed, UsageWaits
    <3>2. t[i] = NextStatus(def, i, decision)
      BY <3>1 DEF SettledTables
    <3>3. decision \in {"PENDING", "READY", "SKIPPED"}
      BY <2>2, DecisionType, PlansFit
    <3>4. decideDependencyReadiness(def, i, inv', latestOutcome') = decision
      BY <2>1, <2>2
    <3> HIDE DEF decision
    <3>5. Decided(i) /\ Asked(i)
      BY <2>1, <3>2, <3>3, <3>4 DEF Decided, Asked, NextStatus
    <3> QED BY <2>3, <3>5
  <2> QED BY <2>4, <2>5
<1> QED BY <1>2, <1>3

LEMMA ClaimReasoned ==
  ASSUME JustifiedInv, NEW i \in Invocations, claimInvocation(i) PROVE Reasoned
<1>0. TypeOK
  BY DEF JustifiedInv, OrchestrationInv
<1>1. /\ inv[i] = "READY" /\ inv'[i] = "RUNNING"
      /\ \A j \in Invocations \ {i} :
           inv'[j] = inv[j] /\ runs'[j] = runs[j] /\ attempts'[j] = attempts[j]
  BY <1>0 DEF claimInvocation, CanClaim, TypeOK
<1>2. \A a \in 1..MaxRuns : runs'[i][a].status # "FAILED" \/ runs'[i][a] = runs[i][a]
  <2>1. runs' = [runs EXCEPT ![i] = [runs[i] EXCEPT ![attempts[i] + 1] =
                   [status |-> "RUNNING", outcome |-> NoOutcome]]]
    BY DEF claimInvocation
  <2>2. runs'[i] = [runs[i] EXCEPT ![attempts[i] + 1] =
                   [status |-> "RUNNING", outcome |-> NoOutcome]]
    BY <1>0, <2>1 DEF TypeOK
  <2>3. runs[i] \in [1..MaxRuns -> RunRows]
    BY <1>0 DEF TypeOK
  <2> QED BY <2>2, <2>3
<1>3. Decided(i) /\ RunsRest(i) /\ FailsAtLast(i) /\ Asked(i)
  BY <1>1, <1>2 DEF Decided, RunsRest, FailsAtLast, Asked
<1> QED BY <1>1, <1>3, LeftAlone DEF Reasoned

(* The end of a run, whatever becomes of its invocation.                   *)
LEMMA FinishWrites ==
  ASSUME TypeOK, NEW i \in Invocations, NEW a \in 1..MaxRuns, NEW status, NEW outcome,
         FinishRun(i, a, status, outcome)
  PROVE  /\ \A j \in Invocations \ {i} : runs'[j] = runs[j]
         /\ \A b \in 1..MaxRuns \ {a} : runs'[i][b] = runs[i][b]
         /\ runs'[i][a].status = status
<1>1. runs' = [runs EXCEPT ![i] = [runs[i] EXCEPT ![a] = [status |-> status, outcome |-> outcome]]]
  BY DEF FinishRun
<1>2. runs'[i] = [runs[i] EXCEPT ![a] = [status |-> status, outcome |-> outcome]]
  BY <1>1 DEF TypeOK
<1>3. runs[i] \in [1..MaxRuns -> RunRows]
  BY DEF TypeOK
<1> QED BY <1>1, <1>2, <1>3 DEF TypeOK

LEMMA CancelRunReasoned ==
  ASSUME JustifiedInv, NEW i \in Invocations, NEW a \in 1..MaxRuns,
         runs[i][a].status = "RUNNING", plan # "RUNNING" \/ inv[i] # "RUNNING",
         FinishRun(i, a, "CANCELED", NoOutcome), UNCHANGED <<inv, attempts>>
  PROVE  Reasoned
<1>0. TypeOK /\ OneLiveRun
  BY DEF JustifiedInv, OrchestrationInv
<1>1. /\ \A j \in Invocations \ {i} : runs'[j] = runs[j]
      /\ \A b \in 1..MaxRuns \ {a} : runs'[i][b] = runs[i][b]
      /\ runs'[i][a].status = "CANCELED"
  BY <1>0, FinishWrites
<1>2. inv[i] \notin {"COMPLETED", "FAILED"}
  BY <1>0 DEF OneLiveRun
<1>3. Decided(i) /\ RunsRest(i) /\ FailsAtLast(i) /\ Asked(i)
  BY <1>1, <1>2 DEF Decided, RunsRest, FailsAtLast, Asked
<1> QED BY <1>1, <1>3, LeftAlone DEF Reasoned

LEMMA ResultReasoned ==
  ASSUME JustifiedInv, NEW i \in Invocations, NEW a \in 1..MaxRuns,
         NEW result \in {"COMPLETED"} \cup UsageWaits, NEW outcome,
         inv[i] = "RUNNING", FinishRun(i, a, result, outcome),
         inv' = [inv EXCEPT ![i] = result], UNCHANGED attempts
  PROVE  Reasoned
<1>0. TypeOK
  BY DEF JustifiedInv, OrchestrationInv
<1>1. /\ \A j \in Invocations \ {i} : runs'[j] = runs[j]
      /\ \A b \in 1..MaxRuns \ {a} : runs'[i][b] = runs[i][b]
      /\ runs'[i][a].status = result
  BY <1>0, FinishWrites
<1>2. inv'[i] = result /\ \A j \in Invocations \ {i} : inv'[j] = inv[j]
  BY <1>0 DEF TypeOK
<1>3. result \notin {"PENDING", "CANCELED", "SKIPPED", "FAILED"}
  BY DEF UsageWaits
<1>4. Decided(i) /\ RunsRest(i) /\ FailsAtLast(i) /\ Asked(i)
  BY <1>1, <1>2, <1>3 DEF Decided, RunsRest, FailsAtLast, Asked
<1> QED BY <1>1, <1>2, <1>4, LeftAlone DEF Reasoned

LEMMA FailureReasoned ==
  ASSUME JustifiedInv, NEW i \in Invocations, NEW a \in 1..MaxRuns, NEW retryable \in BOOLEAN,
         runs[i][a].status = "RUNNING", inv[i] = "RUNNING",
         FinishRun(i, a, "FAILED", NoOutcome), AfterFailure(i, a, retryable), UNCHANGED attempts
  PROVE  Reasoned
<1>0. TypeOK /\ OneLiveRun
  BY DEF JustifiedInv, OrchestrationInv
<1>1. /\ \A j \in Invocations \ {i} : runs'[j] = runs[j]
      /\ \A b \in 1..MaxRuns \ {a} : runs'[i][b] = runs[i][b]
      /\ a = attempts[i]
  BY <1>0, FinishWrites DEF OneLiveRun
<1> DEFINE status == IF retryable /\ a < MaxAttempts THEN "READY" ELSE "FAILED"
           retried == [inv EXCEPT ![i] = status]
<1>2. inv' = CancelActive(retried) \/ inv' = retried
  BY DEF AfterFailure
<1>3. status \in {"READY", "FAILED"} /\ (a >= MaxAttempts => status = "FAILED")
  BY OrchestrationAssumption, PlansFit
<1> HIDE DEF status
<1>4. retried[i] = status /\ \A j \in Invocations \ {i} : retried[j] = inv[j]
  BY <1>0 DEF TypeOK
<1> HIDE DEF retried
<1>5. \A j \in Invocations :
        inv'[j] = retried[j] \/ (inv'[j] = "CANCELED" /\ retried[j] \in ActiveStatuses)
  BY <1>2 DEF CancelActive
<1>6. Decided(i) /\ RunsRest(i) /\ FailsAtLast(i) /\ Asked(i)
  BY <1>1, <1>3, <1>4, <1>5 DEF Decided, RunsRest, FailsAtLast, Asked, ActiveStatuses, UsageWaits
<1>7. \A j \in Invocations \ {i} : inv'[j] = inv[j] \/ inv'[j] = "CANCELED"
  BY <1>4, <1>5
<1> QED BY <1>1, <1>6, <1>7, LeftAlone DEF Reasoned

LEMMA PersistReasoned ==
  ASSUME JustifiedInv, NEW i \in Invocations, NEW a \in 1..MaxRuns, NEW result \in Results,
         NEW outcome, NEW retryable \in BOOLEAN,
         persistExecutionResult(i, a, result, outcome, retryable), UNCHANGED attempts
  PROVE  Reasoned
<1>1. CASE runs[i][a].status # "RUNNING"
  BY <1>1, NothingWritten DEF persistExecutionResult, durable
<1>2. CASE runs[i][a].status = "RUNNING" /\ (plan # "RUNNING" \/ inv[i] # "RUNNING")
  BY <1>2, CancelRunReasoned DEF persistExecutionResult
<1>3. CASE runs[i][a].status = "RUNNING" /\ plan = "RUNNING" /\ inv[i] = "RUNNING"
  <2>1. CASE result # "FAILED"
    <3>1. result \in {"COMPLETED"} \cup UsageWaits
      BY <2>1, OrchestrationAssumption, PlansFit
    <3>2. FinishRun(i, a, result, outcome) /\ inv' = [inv EXCEPT ![i] = result]
      BY <1>3, <2>1 DEF persistExecutionResult
    <3> QED BY <1>3, <3>1, <3>2, ResultReasoned
  <2>2. CASE result = "FAILED"
    BY <1>3, <2>2, FailureReasoned DEF persistExecutionResult
  <2> QED BY <2>1, <2>2
<1> QED BY <1>1, <1>2, <1>3

LEMMA NextReasoned ==
  ASSUME JustifiedInv, [Next]_vars PROVE Reasoned
<1>0. OrchestrationInv /\ TypeOK
  BY DEF JustifiedInv, OrchestrationInv
<1>1. CASE UNCHANGED durable
  BY <1>1, NothingWritten
<1>2. CASE UserStep
  <2>1. CASE start
    BY <1>0, <2>1, StepKeepsFinished, StartReasoned
  <2>2. CASE stop
    BY <2>2, StopReasoned
  <2>3. ASSUME NEW i \in Invocations, NEW kind, RequestReads(i, kind) PROVE Reasoned
    BY <1>1, <2>3 DEF RequestReads
  <2>4. ASSUME NEW i \in Invocations, approve(i) PROVE Reasoned
    BY <2>4, ApproveReasoned
  <2>5. ASSUME NEW i \in Invocations, NEW outcome \in Outcomes, resolveHumanEvaluation(i, outcome)
        PROVE  Reasoned
    BY <2>5, EvaluationReasoned
  <2> QED BY <1>2, <2>1, <2>2, <2>3, <2>4, <2>5 DEF UserStep
<1>3. CASE DispatchStep
  BY <1>1, <1>3, DispatchReasoned DEF DispatchStep, EnqueueInvocations
<1>4. ASSUME NEW i \in Invocations, JobStep(i) PROVE Reasoned
  BY <1>1, <1>4, ClaimReasoned DEF JobStep, ClaimRefused, enqueueDispatch, JobEnds
<1>5. ASSUME NEW i \in Invocations, ExecutorStep(i) PROVE Reasoned
  <2>1. PICK e \in executors, result \in Results, outcome \in Outcomes \cup {NoOutcome},
             retryable \in BOOLEAN : ExecutorAnswers(e, result, outcome, retryable)
    BY <1>5 DEF ExecutorStep
  <2>2. e.invocation \in Invocations /\ e.attempt \in 1..MaxRuns
    BY <1>0 DEF TypeOK
  <2> QED BY <2>1, <2>2, PersistReasoned DEF ExecutorAnswers
<1>6. ASSUME NEW i \in Invocations, NEW a \in 1..MaxRuns, recoverStaleRun(i, a) PROVE Reasoned
  <2>1. CASE plan = "RUNNING" /\ inv[i] = "RUNNING"
    BY <1>6, <2>1, FailureReasoned DEF recoverStaleRun
  <2>2. CASE ~(plan = "RUNNING" /\ inv[i] = "RUNNING")
    BY <1>6, <2>2, CancelRunReasoned DEF recoverStaleRun
  <2> QED BY <2>1, <2>2
<1>7. CASE reconcile
  BY <1>1, <1>7 DEF reconcile
<1>8. CASE FailureStep
  BY <1>1, <1>8 DEF FailureStep, WorkerDies, JobStalls, DispatcherDies, QueueLost
<1>9. CASE UNCHANGED vars
  BY <1>1, <1>9 DEF vars
<1> QED BY <1>2, <1>3, <1>4, <1>5, <1>6, <1>7, <1>8, <1>9 DEF Next, RecoverStep

(* No step changes the plan's definition; requests are made of one kind.   *)
LEMMA RequestsStayFit ==
  ASSUME TypeOK, RequestsFit, [Next]_vars PROVE def' = def /\ RequestsFit'
<1>1. def' = def
  BY DEF vars, Next, UserStep, start, stop, RequestReads, approve, resolveHumanEvaluation,
         DispatchStep, dispatchPlan, EnqueueInvocations, JobStep, claimInvocation, ClaimRefused,
         enqueueDispatch, JobEnds, ExecutorStep, ExecutorAnswers, RecoverStep, recoverStaleRun,
         reconcile, FailureStep, WorkerDies, JobStalls, DispatcherDies, QueueLost
<1>2. CASE requests' \subseteq requests
  BY <1>1, <1>2 DEF RequestsFit
<1>3. ASSUME NEW i \in Invocations, NEW kind, RequestReads(i, kind) PROVE RequestsFit'
  BY <1>1, <1>3 DEF RequestReads, RequestsFit
<1>4. CASE UserStep
  <2>1. CASE start
    BY <1>2, <2>1 DEF start
  <2>4. CASE stop
    BY <1>2, <2>4 DEF stop
  <2>2. ASSUME NEW i \in Invocations, approve(i) PROVE RequestsFit'
    BY <1>2, <2>2 DEF approve
  <2>3. ASSUME NEW i \in Invocations, NEW outcome \in Outcomes, resolveHumanEvaluation(i, outcome)
        PROVE  RequestsFit'
    <3>1. requests' = requests \ {<<"HUMAN", i>>}
      BY <2>3 DEF resolveHumanEvaluation
    <3>2. requests' \subseteq requests
      BY <3>1
    <3> QED BY <1>2, <3>2
  <2> QED BY <1>1, <1>3, <1>4, <2>1, <2>2, <2>3, <2>4 DEF UserStep
<1>5. CASE ~UserStep
  <2>1. requests' = requests
    BY <1>5 DEF vars, Next, DispatchStep, dispatchPlan, EnqueueInvocations, JobStep,
         claimInvocation, ClaimRefused, enqueueDispatch, JobEnds, ExecutorStep, ExecutorAnswers,
         RecoverStep, recoverStaleRun, reconcile, FailureStep, WorkerDies, JobStalls,
         DispatcherDies, QueueLost
  <2> QED BY <1>2, <2>1
<1> QED BY <1>1, <1>4, <1>5

LEMMA JustifiedNext ==
  ASSUME JustifiedInv, [Next]_vars PROVE JustifiedInv'
<1>1. /\ OrchestrationInv /\ OrchestrationInv' /\ TypeOK
      /\ Kept /\ Reasoned /\ def' = def /\ RequestsFit' /\ def \in Plans
  BY NextInv, StepKeepsFinished, NextReasoned, RequestsStayFit
  DEF JustifiedInv, OrchestrationInv, TypeOK
<1>2. Onward(inv, latestOutcome, inv', latestOutcome')
  <2> SUFFICES ASSUME NEW j \in Invocations, inv[j] \in TerminalStatuses
               PROVE  /\ inv'[j] = inv[j]
                      /\ inv[j] = "COMPLETED" => latestOutcome'[j] = latestOutcome[j]
    BY DEF Onward
  <2>1. inv'[j] = inv[j]
    BY <1>1 DEF Kept
  <2>2. inv[j] = "COMPLETED" => runs'[j] = runs[j] /\ attempts'[j] = attempts[j]
    BY <1>1 DEF Reasoned, RunsRest
  <2> QED BY <2>1, <2>2 DEF latestOutcome
<1>3. Justified(def, inv, latestOutcome)'
  <2> SUFFICES ASSUME NEW i \in Invocations, inv'[i] \notin {"PENDING", "CANCELED"}
               PROVE  decideDependencyReadiness(def, i, inv', latestOutcome')
                        = IF inv'[i] = "SKIPPED" THEN "SKIPPED" ELSE "READY"
    BY <1>1 DEF Justified
  <2>1. CASE inv[i] \notin {"PENDING", "CANCELED"} /\ (inv'[i] = "SKIPPED" <=> inv[i] = "SKIPPED")
    <3>1. decideDependencyReadiness(def, i, inv, latestOutcome)
            = IF inv'[i] = "SKIPPED" THEN "SKIPPED" ELSE "READY"
      BY <2>1 DEF JustifiedInv, Justified
    <3>2. decideDependencyReadiness(def, i, inv, latestOutcome) # "PENDING"
      BY <3>1
    <3>3. decideDependencyReadiness(def, i, inv', latestOutcome')
            = decideDependencyReadiness(def, i, inv, latestOutcome)
      BY <1>1, <1>2, <3>2, DecisionStands, PlansFit
    <3> QED BY <3>1, <3>3
  <2>2. Decided(i)
    BY <1>1 DEF Reasoned
  <2> QED BY <2>1, <2>2 DEF Decided
<1>4. LastFailureIsFinal'
  <2> SUFFICES ASSUME NEW i \in Invocations, NEW a \in 1..MaxRuns,
                      runs'[i][a].status = "FAILED", a >= MaxAttempts
               PROVE  a = attempts'[i] /\ inv'[i] = "FAILED"
    BY DEF LastFailureIsFinal
  <2>1. CASE runs[i][a].status = "FAILED"
    <3>1. a = attempts[i] /\ inv[i] = "FAILED"
      BY <2>1 DEF JustifiedInv, LastFailureIsFinal
    <3>2. inv'[i] = inv[i] /\ attempts'[i] = attempts[i]
      BY <1>1, <3>1 DEF Kept, Reasoned, RunsRest, TerminalStatuses
    <3> QED BY <3>1, <3>2
  <2>2. CASE runs[i][a].status # "FAILED"
    BY <1>1, <2>2 DEF Reasoned, FailsAtLast
  <2> QED BY <2>1, <2>2
<1> QED BY <1>1, <1>3, <1>4 DEF JustifiedInv

LEMMA JustifiedInit == Init => JustifiedInv
<1> SUFFICES ASSUME Init PROVE JustifiedInv
  OBVIOUS
<1>1. OrchestrationInv
  BY InitInv
<1>2. Justified(def, inv, latestOutcome) /\ RequestsFit
  BY DEF Init, Justified, RequestsFit
<1>3. LastFailureIsFinal
  BY DEF Init, LastFailureIsFinal, NoRun
<1> QED BY <1>1, <1>2, <1>3 DEF JustifiedInv

(* Below the ceiling an attempt may fail and be repeated; at or above it   *)
(* only the latest one has failed.                                         *)
LEMMA FailuresBounded ==
  ASSUME TypeOK, LastFailureIsFinal, NEW i \in Invocations
  PROVE  Cardinality({a \in 1..MaxRuns : runs[i][a].status = "FAILED"}) <= MaxAttempts
<1> DEFINE F == {a \in 1..MaxRuns : runs[i][a].status = "FAILED"}
           Below == 1..(MaxAttempts - 1)
<1>0. MaxAttempts \in Nat \ {0}
  BY OrchestrationAssumption, PlansFit
<1>1. IsFiniteSet(Below) /\ Cardinality(Below) = MaxAttempts - 1
  <2>1. MaxAttempts - 1 \in Int /\ 1 \in Int
    BY <1>0
  <2>2. IsFiniteSet(Below)
        /\ Cardinality(Below) = IF 1 > MaxAttempts - 1 THEN 0 ELSE (MaxAttempts - 1) - 1 + 1
    BY <2>1, FS_Interval
  <2> QED BY <1>0, <2>2
<1>2. F \subseteq Below \cup {attempts[i]}
  BY <1>0, OrchestrationAssumption, PlansFit DEF LastFailureIsFinal
<1> HIDE DEF F, Below
<1>3. /\ IsFiniteSet(Below \cup {attempts[i]})
      /\ Cardinality(Below \cup {attempts[i]}) <= MaxAttempts
  <2>1. IsFiniteSet(Below \cup {attempts[i]})
        /\ Cardinality(Below \cup {attempts[i]})
             = IF attempts[i] \in Below THEN Cardinality(Below) ELSE Cardinality(Below) + 1
    BY <1>1, FS_AddElement
  <2> QED BY <1>0, <1>1, <2>1
<1>4. IsFiniteSet(F) /\ Cardinality(F) <= Cardinality(Below \cup {attempts[i]})
  BY <1>2, <1>3, FS_Subset
<1>5. Cardinality(F) \in Nat /\ Cardinality(Below \cup {attempts[i]}) \in Nat
  BY <1>3, <1>4, FS_CardinalityType
<1>6. Cardinality(F) <= MaxAttempts
  BY <1>0, <1>3, <1>4, <1>5
<1> QED BY <1>6 DEF F

(* For every graph of dependencies, join, approval and ceiling: what runs  *)
(* or is skipped was decided on what stands, fails at most MaxAttempts     *)
(* times, and passes its user at his request only.                         *)
THEOREM RunsStayJustified == Spec => RunsAreJustified
<1> DEFINE Reasons ==
             /\ Justified(def, inv, latestOutcome)
             /\ \A i \in Invocations :
                  Cardinality({a \in 1..MaxRuns : runs[i][a].status = "FAILED"}) <= MaxAttempts
           AllAsked == \A i \in Invocations : Asked(i)
<1>1. Spec => []JustifiedInv
  BY JustifiedInit, JustifiedNext, PTL DEF Spec
<1>2. JustifiedInv => Reasons
  BY FailuresBounded DEF JustifiedInv, OrchestrationInv
<1>3. JustifiedInv /\ [Next]_vars => [AllAsked]_vars
  BY NextReasoned DEF Reasoned
<1> HIDE DEF Reasons, AllAsked
<1>4. Spec => []Reasons
  BY <1>1, <1>2, PTL
<1>5. Spec => [][AllAsked]_vars
  BY <1>1, <1>3, PTL DEF Spec
<1> QED BY <1>4, <1>5, PTL DEF RunsAreJustified, Reasons, AllAsked, Asked

-------------------------------------------------------------------------------
(* Planning.  A row's hash says what its status rests on: nobody has one   *)
(* that is claimed by nobody or one request while the row is PLANNING, and *)
(* a PLANNED row has a plan.  So a plan is stored over a claim only, and   *)
(* what a request was told of a plan is told of the only one.              *)
Hashes == [kind : {"pending", "claim", "clarification", "plan"},
           by : {Nothing} \cup Planners \cup Contents]

ShellOK ==
  /\ DOMAIN shell = {"status", "hash", "age"}
  /\ shell.hash \in Hashes
  /\ shell.status = "NONE" => shell.hash = Pending
  /\ shell.status = "PLANNING" => shell.hash.kind \in {"pending", "claim"}
  /\ shell.status = "PLANNED" => shell.hash.kind = "plan"

PlannersOK ==
  /\ DOMAIN planner = Planners
  /\ \A r \in Planners : DOMAIN planner[r] = {"phase", "seen"}
  /\ DOMAIN answer = Planners
  /\ \A r \in Planners : DOMAIN answer[r] = {"kind", "content"}

ToldIsStored ==
  \A r \in Planners : answer[r].kind = "PLANNED" => shell.hash = Hash("plan", answer[r].content)

PlanningInv == ShellOK /\ PlannersOK /\ ToldIsStored

(* What a step may do: HolderDecides for one request and for the row.      *)
HolderEnds(r) ==
  Holds(r) /\ Thinking(r) /\ shell'.status # "PLANNING" =>
    \/ planner'[r].phase = "done"
    \/ shell'.status = "CANCELED"
    \/ shell.age = Abandoned

SettledStays ==
  shell.status \notin {"NONE", "PLANNING"} =>
    shell'.hash = shell.hash /\ shell'.status \in {shell.status, "CANCELED"}

PlanningStep == PlanningInv' /\ SettledStays /\ \A r \in Planners : HolderEnds(r)

LEMMA PlanningInitInv == PlanningInit => PlanningInv
<1> SUFFICES ASSUME PlanningInit PROVE PlanningInv
  OBVIOUS
<1>1. ShellOK
  BY DEF PlanningInit, ShellOK, NoShell, Pending, Hash, Hashes
<1>2. PlannersOK /\ ToldIsStored
  BY DEF PlanningInit, PlannersOK, ToldIsStored
<1> QED
  BY <1>1, <1>2 DEF PlanningInv

(* What a request was told: nothing new, or a plan only if it is stored.   *)
Tells(r) ==
  \/ answer' = answer /\ \/ planner' = planner
                         \/ \E step : planner' = [planner EXCEPT ![r].phase = step]
                         \/ \E seen : planner' = [planner EXCEPT ![r] = [phase |-> "stealing", seen |-> seen]]
  \/ \E kind, content : /\ Answer(r, kind, content)
                        /\ kind = "PLANNED" => shell'.hash = Hash("plan", content)

LEMMA TellsKeeps ==
  ASSUME PlanningInv, NEW r \in Planners, Tells(r),
         shell'.hash = shell.hash \/ shell.hash.kind \in {"pending", "claim"}
  PROVE  PlannersOK' /\ ToldIsStored'
<1>1. PlannersOK'
  BY DEF PlanningInv, PlannersOK, Tells, Answer, Phase
<1>2. ASSUME NEW q \in Planners, answer'[q].kind = "PLANNED", answer'[q] = answer[q]
      PROVE  shell'.hash = Hash("plan", answer'[q].content)
  <2>1. shell.hash = Hash("plan", answer[q].content)
    BY <1>2 DEF PlanningInv, ToldIsStored
  <2>2. shell.hash.kind = "plan"
    BY <2>1 DEF Hash
  <2> QED
    BY <1>2, <2>1, <2>2
<1>3. ASSUME answer' = answer PROVE ToldIsStored'
  BY <1>2, <1>3 DEF ToldIsStored
<1>4. ASSUME NEW kind, NEW content, Answer(r, kind, content),
             kind = "PLANNED" => shell'.hash = Hash("plan", content)
      PROVE  ToldIsStored'
  <2>1. /\ answer'[r].kind = kind /\ answer'[r].content = content
        /\ \A q \in Planners \ {r} : answer'[q] = answer[q]
    BY <1>4 DEF Answer, PlanningInv, PlannersOK
  <2> QED
    BY <1>2, <1>4, <2>1 DEF ToldIsStored
<1> QED
  BY <1>1, <1>3, <1>4 DEF Tells

(* Steps that leave the row as it is, but for its age.                     *)
LEMMA SameRow ==
  ASSUME PlanningInv, NEW r \in Planners, Tells(r),
         shell' = shell \/ \E age : shell' = [shell EXCEPT !.age = age]
  PROVE  PlanningStep
<1>1. shell'.status = shell.status /\ shell'.hash = shell.hash /\ ShellOK'
  BY DEF PlanningInv, ShellOK
<1>2. PlannersOK' /\ ToldIsStored'
  BY <1>1, TellsKeeps
<1> QED
  BY <1>1, <1>2 DEF PlanningInv, PlanningStep, SettledStays, HolderEnds, Holds

(* A row that nobody has settled yet gets a status and a hash that fit.    *)
Fits(status, hash) ==
  /\ hash \in Hashes
  /\ \/ status = "PLANNING" /\ hash.kind \in {"pending", "claim"}
     \/ status = "PLANNED" /\ hash.kind = "plan"
     \/ status \in {"FAILED", "NEEDS_CLARIFICATION"}

LEMMA RowWritten ==
  ASSUME PlanningInv, shell.status \in {"NONE", "PLANNING"},
         NEW status, NEW hash, Fits(status, hash), Write(status, hash), NEW r \in Planners, Tells(r),
         shell.status = "NONE" \/ status = "PLANNING" \/ shell.age = Abandoned
           \/ (Holds(r) /\ planner'[r].phase = "done")
  PROVE  PlanningStep
<1>1. shell'.status = status /\ shell'.hash = hash /\ ShellOK'
  BY DEF Write, ShellOK, Fits
<1>2. shell.hash.kind \in {"pending", "claim"}
  BY DEF PlanningInv, ShellOK, Pending, Hash
<1>3. PlannersOK' /\ ToldIsStored'
  BY <1>2, TellsKeeps
<1>4. ASSUME NEW q \in Planners PROVE HolderEnds(q)
  <2>1. Holds(q) /\ Holds(r) => q = r
    BY DEF Holds, Claim, Hash
  <2> QED
    BY <1>1, <2>1 DEF HolderEnds, Holds
<1> QED
  BY <1>1, <1>3, <1>4 DEF PlanningInv, PlanningStep, SettledStays

(* What a request is told about the row is true of it.                     *)
LEMMA AnswerTells ==
  ASSUME PlanningInv, NEW r \in Planners, AnswerFromShell(r), shell' = shell
  PROVE  Tells(r)
<1>1. CASE shell.status = "PLANNED"
  <2>1. Answer(r, "PLANNED", shell.hash.by)
    BY <1>1 DEF AnswerFromShell
  <2>2. shell.hash = Hash("plan", shell.hash.by)
    BY <1>1 DEF PlanningInv, ShellOK, Hashes, Hash
  <2> QED
    BY <2>1, <2>2 DEF Tells
<1>2. CASE shell.status # "PLANNED"
  <2>1. PICK kind : kind # "PLANNED" /\ Answer(r, kind, Nothing)
    BY <1>2 DEF AnswerFromShell
  <2> QED
    BY <2>1 DEF Tells
<1> QED
  BY <1>1, <1>2

LEMMA HashesFit ==
  /\ Pending \in Hashes /\ Pending.kind = "pending"
  /\ Hash("clarification", Nothing) \in Hashes
  /\ \A r \in Planners : Claim(r) \in Hashes /\ Claim(r).kind = "claim"
  /\ \A c \in Contents : Hash("plan", c) \in Hashes /\ Hash("plan", c).kind = "plan"
BY DEF Hashes, Hash, Pending, Claim

LEMMA ToldDone ==
  ASSUME PlanningInv, NEW r \in Planners, NEW kind, NEW content, Answer(r, kind, content)
  PROVE  planner'[r].phase = "done"
BY DEF Answer, Phase, PlanningInv, PlannersOK

(* An error is told; a claim that is still held fails with it.             *)
LEMMA ClaimFails ==
  ASSUME PlanningInv, NEW r \in Planners, failPlanningClaim(r), Answer(r, "ERROR", Nothing)
  PROVE  PlanningStep
<1>1. Tells(r)
  BY DEF Tells
<1>2. planner'[r].phase = "done"
  BY ToldDone
<1>3. CASE Holds(r)
  <2>1. Write("FAILED", shell.hash) /\ shell.status = "PLANNING"
    BY <1>3 DEF failPlanningClaim, Holds
  <2>2. Fits("FAILED", shell.hash)
    BY DEF PlanningInv, ShellOK, Fits
  <2> QED
    BY <1>1, <1>2, <1>3, <2>1, <2>2, RowWritten
<1>4. CASE ~Holds(r)
  BY <1>1, <1>4, SameRow DEF failPlanningClaim
<1> QED
  BY <1>3, <1>4

LEMMA RequestKeeps ==
  ASSUME PlanningInv, NEW r \in Planners, RequestStep(r)
  PROVE  PlanningStep
<1>0. PlannersOK /\ ShellOK
  BY DEF PlanningInv
<1>1. ASSUME NEW step, Phase(r, step), answer' = answer PROVE Tells(r)
  BY <1>1 DEF Tells, Phase
<1>2. ASSUME AnswerFromShell(r), shell' = shell PROVE PlanningStep
  BY <1>2, AnswerTells, SameRow
<1>3. CASE ensurePlanningShell(r)
  <2>1. CASE shell.status = "NONE"
    <3>1. Write("PLANNING", Pending) /\ Phase(r, "ensured") /\ answer' = answer
      BY <1>3, <2>1 DEF ensurePlanningShell
    <3>2. Fits("PLANNING", Pending)
      BY HashesFit DEF Fits
    <3> QED
      BY <1>1, <2>1, <3>1, <3>2, RowWritten
  <2>2. CASE shell.status = "PLANNING"
    <3>1. shell' = shell /\ Phase(r, "ensured") /\ answer' = answer
      BY <1>3, <2>2 DEF ensurePlanningShell
    <3> QED
      BY <1>1, <3>1, SameRow
  <2>3. CASE shell.status \notin {"NONE", "PLANNING"}
    BY <1>2, <1>3, <2>3 DEF ensurePlanningShell
  <2> QED
    BY <2>1, <2>2, <2>3
<1>4. ASSUME shell.status = "PLANNING", Write("PLANNING", Claim(r)), Phase(r, "planning"),
             answer' = answer
      PROVE  PlanningStep
  <2>1. Fits("PLANNING", Claim(r))
    BY HashesFit DEF Fits
  <2> QED
    BY <1>1, <1>4, <2>1, RowWritten
<1>5. CASE ClaimPending(r)
  BY <1>4, <1>5 DEF ClaimPending
<1>6. CASE SeeStaleClaim(r)
  <2>1. Tells(r) /\ shell' = shell
    BY <1>6 DEF SeeStaleClaim, Tells
  <2> QED
    BY <2>1, SameRow
<1>7. CASE TakeOver(r)
  <2>1. CASE shell.status = "PLANNING" /\ shell.hash = planner[r].seen
    BY <1>4, <1>7, <2>1 DEF TakeOver
  <2>2. CASE ~(shell.status = "PLANNING" /\ shell.hash = planner[r].seen)
    BY <1>2, <1>7, <2>2 DEF TakeOver
  <2> QED
    BY <2>1, <2>2
<1>8. CASE NotClaimed(r)
  BY <1>2, <1>8 DEF NotClaimed
<1>9. CASE Heartbeat(r)
  <2>1. Tells(r)
    BY <1>9 DEF Heartbeat, Tells, Phase
  <2>2. shell' = shell \/ \E age : shell' = [shell EXCEPT !.age = age]
    BY <1>9 DEF Heartbeat
  <2> QED
    BY <2>1, <2>2, SameRow
<1>10. CASE PlannerFails(r)
  BY <1>10, ClaimFails DEF PlannerFails
<1>11. CASE PlannerFindsPlan(r)
  BY <1>2, <1>11 DEF PlannerFindsPlan
<1>12. CASE persistClarification(r)
  <2>1. CASE Holds(r)
    <3>1. /\ Write("NEEDS_CLARIFICATION", Hash("clarification", Nothing))
          /\ Answer(r, "CLARIFICATION_REQUIRED", Nothing) /\ shell.status = "PLANNING"
      BY <1>12, <2>1 DEF persistClarification, Holds
    <3>2. Tells(r) /\ planner'[r].phase = "done"
      BY <3>1, ToldDone DEF Tells
    <3>3. Fits("NEEDS_CLARIFICATION", Hash("clarification", Nothing))
      BY HashesFit DEF Fits
    <3> QED
      BY <2>1, <3>1, <3>2, <3>3, RowWritten
  <2>2. CASE ~Holds(r)
    <3>1. PICK kind : kind # "PLANNED" /\ Answer(r, kind, Nothing)
      BY <1>12, <2>2 DEF persistClarification
    <3>2. Tells(r) /\ shell' = shell
      BY <1>12, <2>2, <3>1 DEF Tells, persistClarification
    <3> QED
      BY <3>2, SameRow
  <2> QED
    BY <2>1, <2>2
<1>13. ASSUME NEW c \in Contents, finalizePlanningShell(r, c) PROVE PlanningStep
  <2>1. CASE Holds(r)
    <3>1. /\ Write("PLANNED", Hash("plan", c)) /\ Answer(r, "PLANNED", c)
          /\ shell.status = "PLANNING"
      BY <1>13, <2>1 DEF finalizePlanningShell, Holds
    <3>2. Tells(r) /\ planner'[r].phase = "done"
      BY <3>1, ToldDone DEF Tells, Write
    <3>3. Fits("PLANNED", Hash("plan", c))
      BY HashesFit DEF Fits
    <3> QED
      BY <2>1, <3>1, <3>2, <3>3, RowWritten
  <2>2. CASE ~Holds(r) /\ shell.hash = Hash("plan", c)
    <3>1. Answer(r, "PLANNED", c) /\ shell' = shell
      BY <1>13, <2>2 DEF finalizePlanningShell
    <3>2. Tells(r)
      BY <2>2, <3>1 DEF Tells
    <3> QED
      BY <3>1, <3>2, SameRow
  <2>3. CASE ~Holds(r) /\ shell.hash # Hash("plan", c) /\ shell.status # "PLANNING"
    BY <1>2, <1>13, <2>3 DEF finalizePlanningShell
  <2>4. CASE ~Holds(r) /\ shell.hash # Hash("plan", c) /\ shell.status = "PLANNING"
    BY <1>13, <2>4, ClaimFails DEF finalizePlanningShell
  <2> QED
    BY <2>1, <2>2, <2>3, <2>4
<1>14. CASE RequestDies(r)
  <2>1. Phase(r, "done") /\ shell' = shell /\ answer' = answer
    BY <1>14 DEF RequestDies
  <2> QED
    BY <1>1, <2>1, SameRow
<1> QED
  BY <1>3, <1>5, <1>6, <1>7, <1>8, <1>9, <1>10, <1>11, <1>12, <1>13, <1>14
     DEF RequestStep, PlannerEnds

(* Steps of nobody's request: the user's, the recovery's and time's.       *)
LEMMA OthersKeep ==
  ASSUME PlanningInv, UNCHANGED <<planner, answer>>,
         \/ \E c \in Contents : create(c)
         \/ recoverStalePlanningShells \/ stopPlanning \/ TimePasses \/ shell' = shell
  PROVE  PlanningStep
<1>0. ShellOK /\ PlannersOK /\ ToldIsStored
  BY DEF PlanningInv
<1>1. CASE TimePasses \/ shell' = shell
  <2>1. shell'.status = shell.status /\ shell'.hash = shell.hash /\ ShellOK'
    BY <1>0, <1>1 DEF TimePasses, ShellOK
  <2> QED
    BY <1>0, <2>1 DEF PlanningInv, PlanningStep, PlannersOK, ToldIsStored, SettledStays,
                      HolderEnds, Holds
<1>2. CASE recoverStalePlanningShells \/ stopPlanning
  <2>1. /\ shell'.hash = shell.hash /\ ShellOK'
        /\ \/ shell'.status = "CANCELED"
           \/ shell'.status = "FAILED" /\ shell.status = "PLANNING" /\ shell.age = Abandoned
    BY <1>0, <1>2 DEF recoverStalePlanningShells, stopPlanning, Write, ShellOK
  <2> QED
    BY <1>0, <2>1 DEF PlanningInv, PlanningStep, PlannersOK, ToldIsStored, SettledStays, HolderEnds
<1>3. ASSUME NEW c \in Contents, create(c) PROVE PlanningStep
  <2>1. /\ shell.status = "NONE" /\ shell.hash.kind = "pending"
        /\ shell'.status = "PLANNED" /\ shell'.hash = Hash("plan", c) /\ ShellOK'
    BY <1>0, <1>3, HashesFit DEF create, Write, ShellOK
  <2>2. ASSUME NEW r \in Planners PROVE answer[r].kind # "PLANNED"
    <3>1. Hash("plan", answer[r].content).kind = "plan"
      BY DEF Hash
    <3> QED
      BY <1>0, <2>1, <3>1 DEF ToldIsStored
  <2> QED
    BY <1>0, <2>1, <2>2 DEF PlanningInv, PlanningStep, PlannersOK, ToldIsStored, SettledStays,
                            HolderEnds, Holds
<1> QED
  BY <1>1, <1>2, <1>3

(* Whatever is claimed, taken over, aborted, recovered or stopped: a claim *)
(* that lives is ended by its holder or the user, a settled row keeps its  *)
(* plan, and a request is told of a plan only if that plan is stored.      *)
THEOREM HolderAlwaysDecides == PlanningSpec => HolderDecides
<1>1. PlanningInv /\ [PlanningNext]_planningVars => PlanningStep
  <2> SUFFICES ASSUME PlanningInv, [PlanningNext]_planningVars PROVE PlanningStep
    OBVIOUS
  <2>1. CASE UNCHANGED planningVars
    BY <2>1, OthersKeep DEF planningVars
  <2>2. CASE \E r \in Planners : RequestStep(r)
    BY <2>2, RequestKeeps
  <2>3. CASE \/ \E c \in Contents : create(c)
             \/ recoverStalePlanningShells \/ stopPlanning \/ TimePasses
    <3>1. UNCHANGED <<planner, answer>>
      BY <2>3 DEF create, recoverStalePlanningShells, stopPlanning, TimePasses
    <3> QED
      BY <2>3, <3>1, OthersKeep
  <2> QED
    BY <2>1, <2>2, <2>3 DEF PlanningNext
<1>2. PlanningInv => ToldIsStored
  BY DEF PlanningInv
<1>3. PlanningInv /\ [PlanningNext]_planningVars => PlanningInv'
  BY <1>1 DEF PlanningStep
<1>4. PlanningSpec => []PlanningInv
  BY PlanningInitInv, <1>3, PTL DEF PlanningSpec
<1>5. PlanningSpec => []ToldIsStored
  BY <1>2, <1>4, PTL
<1> DEFINE A == /\ \A r \in Planners : HolderEnds(r)
                /\ SettledStays
<1>6. PlanningInv /\ [PlanningNext]_planningVars => [A]_planningVars
  BY <1>1 DEF PlanningStep
<1>7. PlanningSpec => [][A]_planningVars
  <2> HIDE DEF A
  <2> QED
    BY <1>4, <1>6, PTL DEF PlanningSpec
<1> QED
  BY <1>5, <1>7 DEF HolderDecides, ToldIsStored, HolderEnds, SettledStays

-------------------------------------------------------------------------------
(* The readiness loop of dispatchPlan.  Every pass that changes something  *)
(* settles an invocation, and what it settles stays settled; a pass that   *)
(* changes nothing has seen that nothing is left to settle.                *)

decided(i) == decideDependencyReadiness(loopDef, i, stateById, outcomes)

(* The invocations the loop has decided.                                   *)
Moved == {i \in Invocations : stateById[i] # before[i]}

LoopTyped ==
  /\ loopDef \in Definitions
  /\ before \in [Invocations -> InvocationStatuses]
  /\ stateById \in [Invocations -> InvocationStatuses]
  /\ pass \in Nat /\ index \in 1..Cardinality(Invocations) + 1
  /\ changed \in BOOLEAN /\ done \in BOOLEAN

OnlyPendingMoves ==
  \A i \in Invocations :
    /\ before[i] # "PENDING" => stateById[i] = before[i]
    /\ before[i] = "PENDING" =>
         \/ stateById[i] = "PENDING"
         \/ decided(i) # "PENDING" /\ stateById[i] = NextStatus(loopDef, i, decided(i))

EveryPassMoves ==
  ~done => Cardinality(Moved) >= pass + (IF changed THEN 1 ELSE 0)

(* A quiet pass, as far as it got.                                         *)
NothingLeft ==
  \A i \in Invocations :
    (done \/ (~changed /\ i < index)) /\ stateById[i] = "PENDING" => decided(i) = "PENDING"

LoopInv == LoopTyped /\ OnlyPendingMoves /\ EveryPassMoves /\ NothingLeft

LEMMA InvocationCount ==
  /\ IsFiniteSet(Invocations) /\ Cardinality(Invocations) \in Nat
  /\ \A S \in SUBSET Invocations :
       IsFiniteSet(S) /\ Cardinality(S) \in Nat /\ Cardinality(S) <= Cardinality(Invocations)
BY ReadinessAssumption, FS_CardinalityType, FS_Subset

LEMMA LoopInitInv == ReadinessInit => LoopInv
<1> SUFFICES ASSUME ReadinessInit PROVE LoopInv
  OBVIOUS
<1>1. /\ loopDef \in Definitions /\ before \in [Invocations -> InvocationStatuses]
      /\ stateById = before /\ pass = 0 /\ index = 1 /\ changed = FALSE /\ done = FALSE
  BY ReadinessLoopAssumption DEF ReadinessInit
<1>2. LoopTyped
  <2>1. index \in 1..Cardinality(Invocations) + 1 /\ pass \in Nat
    BY <1>1, InvocationCount
  <2> QED BY <1>1, <2>1 DEF LoopTyped
<1>3. Moved = {} /\ Cardinality(Moved) = 0
  <2>1. Moved = {}
    BY <1>1 DEF Moved
  <2> QED BY <2>1, FS_EmptySet
<1>4. EveryPassMoves
  BY <1>1, <1>3 DEF EveryPassMoves
<1>5. OnlyPendingMoves
  BY <1>1 DEF OnlyPendingMoves
<1>6. NothingLeft
  <2>1. \A i \in Invocations : ~(i < index)
    BY <1>1, ReadinessLoopAssumption, InvocationCount
  <2> QED BY <1>1, <2>1 DEF NothingLeft
<1> QED BY <1>2, <1>4, <1>5, <1>6 DEF LoopInv

LEMMA LoopDefinition ==
  ASSUME LoopTyped PROVE WellFormed(loopDef) /\ Acyclic(loopDef)
BY ReadinessLoopAssumption DEF LoopTyped

(* A decision moves an invocation to one of three statuses.                *)
LEMMA DecidedTypes ==
  ASSUME LoopTyped, NEW i \in Invocations, decided(i) # "PENDING"
  PROVE  NextStatus(loopDef, i, decided(i)) \in {"READY", "WAITING_APPROVAL", "SKIPPED"}
<1>1. decided(i) \in {"PENDING", "READY", "SKIPPED"}
  BY LoopDefinition, DecisionType DEF decided
<1> QED BY <1>1 DEF NextStatus

LEMMA DecideOneKeeps ==
  ASSUME LoopInv, DecideOne PROVE LoopInv'
<1>1. /\ LoopTyped /\ ~done /\ index \in Invocations /\ index' = index + 1
      /\ loopDef' = loopDef /\ before' = before /\ outcomes' = outcomes
      /\ pass' = pass /\ done' = done /\ pass \in Nat
  BY DEF LoopInv, LoopTyped, DecideOne
<1>2. index \in 1..Cardinality(Invocations) /\ Cardinality(Invocations) \in Nat
  BY <1>1, ReadinessLoopAssumption, InvocationCount
<1>3. index' \in 1..Cardinality(Invocations) + 1
  BY <1>1, <1>2
<1>4. WellFormed(loopDef)
  BY <1>1, LoopDefinition
<1>5. CASE stateById[index] = "PENDING" /\ decided(index) # "PENDING"
  <2>1. /\ stateById' = [stateById EXCEPT ![index] = NextStatus(loopDef, index, decided(index))]
        /\ changed' = TRUE
    BY <1>5 DEF DecideOne, decided
  <2> DEFINE next == NextStatus(loopDef, index, decided(index))
  <2>2. next \in {"READY", "WAITING_APPROVAL", "SKIPPED"}
    BY <1>1, <1>5, DecidedTypes
  <2> HIDE DEF next
  <2>3. /\ stateById \in [Invocations -> InvocationStatuses]
        /\ stateById'[index] = next
        /\ \A j \in Invocations \ {index} : stateById'[j] = stateById[j]
    BY <1>1, <2>1 DEF LoopTyped, next
  <2>4. LoopTyped'
    <3>1. next \in InvocationStatuses
      BY <2>2 DEF InvocationStatuses, ActiveStatuses, TerminalStatuses
    <3>2. stateById' \in [Invocations -> InvocationStatuses]
      BY <2>1, <2>3, <3>1 DEF next
    <3> QED BY <1>1, <1>3, <2>1, <3>2 DEF LoopTyped
  <2>5. \A j \in Invocations : decided(j) # "PENDING" => decided(j)' = decided(j)
    <3> SUFFICES ASSUME NEW j \in Invocations, decided(j) # "PENDING"
                 PROVE  decided(j)' = decided(j)
      OBVIOUS
    <3>1. Onward(stateById, outcomes, stateById', outcomes)
      BY <1>5, <2>3 DEF Onward, TerminalStatuses
    <3> QED BY <1>1, <1>4, <3>1, DecisionStands DEF decided
  <2>6. OnlyPendingMoves'
    <3> SUFFICES ASSUME NEW i \in Invocations
                 PROVE  /\ before[i] # "PENDING" => stateById'[i] = before[i]
                        /\ before[i] = "PENDING" =>
                             \/ stateById'[i] = "PENDING"
                             \/ decided(i)' # "PENDING" /\ stateById'[i] = NextStatus(loopDef, i, decided(i)')
      BY <1>1 DEF OnlyPendingMoves
    <3>1. CASE i = index
      <4>1. before[i] = "PENDING"
        BY <1>5, <3>1 DEF LoopInv, OnlyPendingMoves
      <4>2. decided(i)' = decided(i)
        BY <1>5, <2>5, <3>1
      <4> QED BY <1>5, <2>3, <3>1, <4>1, <4>2 DEF next
    <3>2. CASE i # index
      <4>1. stateById'[i] = stateById[i]
        BY <2>3, <3>2
      <4> QED BY <2>5, <4>1 DEF LoopInv, OnlyPendingMoves
    <3> QED BY <3>1, <3>2
  <2>7. EveryPassMoves'
    <3>1. before[index] = "PENDING"
      BY <1>1, <1>5 DEF LoopInv, OnlyPendingMoves
    <3>2. Moved' = Moved \cup {index} /\ index \notin Moved
      BY <1>1, <1>5, <2>2, <2>3, <3>1 DEF Moved
    <3>3. Moved \in SUBSET Invocations
      BY DEF Moved
    <3>4. Cardinality(Moved') = Cardinality(Moved) + 1 /\ Cardinality(Moved) \in Nat
      BY <3>2, <3>3, InvocationCount, FS_AddElement
    <3>5. Cardinality(Moved) >= pass
      BY <1>1, <3>4 DEF LoopInv, EveryPassMoves
    <3> QED BY <1>1, <2>1, <3>4, <3>5 DEF EveryPassMoves
  <2>8. NothingLeft'
    BY <1>1, <2>1 DEF NothingLeft
  <2> QED BY <2>4, <2>6, <2>7, <2>8 DEF LoopInv
<1>6. CASE ~(stateById[index] = "PENDING" /\ decided(index) # "PENDING")
  <2>1. stateById' = stateById /\ changed' = changed
    BY <1>6 DEF DecideOne, decided
  <2>2. \A i \in Invocations : decided(i)' = decided(i)
    BY <1>1, <2>1 DEF decided
  <2>3. LoopTyped' /\ OnlyPendingMoves' /\ EveryPassMoves'
    BY <1>1, <1>3, <2>1, <2>2 DEF LoopInv, LoopTyped, OnlyPendingMoves, EveryPassMoves, Moved
  <2>4. NothingLeft'
    <3> SUFFICES ASSUME NEW i \in Invocations, ~changed, i < index + 1, stateById[i] = "PENDING"
                 PROVE  decided(i) = "PENDING"
      BY <1>1, <2>1, <2>2 DEF NothingLeft
    <3>1. i < index \/ i = index
      BY <1>2, ReadinessAssumption
    <3> QED BY <1>6, <3>1 DEF LoopInv, NothingLeft
  <2> QED BY <2>3, <2>4 DEF LoopInv
<1> QED BY <1>5, <1>6

LEMMA EndPassKeeps ==
  ASSUME LoopInv, EndPass PROVE LoopInv'
<1>1. /\ LoopTyped /\ ~done /\ index \notin Invocations
      /\ loopDef' = loopDef /\ before' = before /\ outcomes' = outcomes /\ stateById' = stateById
      /\ pass' = pass + 1 /\ index' = 1 /\ changed' = FALSE
      /\ done' = (~changed \/ pass = LastPass) /\ pass \in Nat
  BY DEF LoopInv, LoopTyped, EndPass
<1>2. index = Cardinality(Invocations) + 1 /\ Cardinality(Invocations) \in Nat
  BY <1>1, ReadinessLoopAssumption, InvocationCount DEF LoopTyped
<1>3. /\ Moved' = Moved /\ Cardinality(Moved) \in Nat
      /\ Cardinality(Moved) <= Cardinality(Invocations)
      /\ \A i \in Invocations : decided(i)' = decided(i)
  <2>1. Moved \in SUBSET Invocations
    BY DEF Moved
  <2>2. Moved' = Moved
    BY <1>1 DEF Moved
  <2>3. \A i \in Invocations : decided(i)' = decided(i)
    BY <1>1 DEF decided
  <2> QED BY <2>1, <2>2, <2>3, InvocationCount
<1>4. Cardinality(Moved) >= pass + (IF changed THEN 1 ELSE 0)
  BY <1>1 DEF LoopInv, EveryPassMoves
<1>5. done' => ~changed
  <2>1. changed => pass # LastPass
    BY <1>1, <1>2, <1>3, <1>4 DEF LastPass
  <2> QED BY <1>1, <2>1
<1>6. LoopTyped'
  <2>1. index' \in 1..Cardinality(Invocations) + 1 /\ pass' \in Nat
    BY <1>1, <1>2
  <2>2. done' \in BOOLEAN
    BY <1>1
  <2> QED BY <1>1, <2>1, <2>2 DEF LoopTyped
<1>7. OnlyPendingMoves'
  BY <1>1, <1>3 DEF LoopInv, OnlyPendingMoves
<1>8. EveryPassMoves'
  <2>1. ~done' => changed
    BY <1>1
  <2> QED BY <1>1, <1>3, <1>4, <2>1 DEF EveryPassMoves
<1>9. NothingLeft'
  <2>1. \A i \in Invocations : i < index /\ ~(i < 1)
    BY <1>2, ReadinessLoopAssumption
  <2>2. NothingLeft
    BY DEF LoopInv
  <2> QED BY <1>1, <1>3, <1>5, <2>1, <2>2 DEF NothingLeft
<1> QED BY <1>6, <1>7, <1>8, <1>9 DEF LoopInv

LEMMA LoopNextInv == LoopInv /\ [ReadinessNext]_readinessVars => LoopInv'
<1> SUFFICES ASSUME LoopInv, [ReadinessNext]_readinessVars PROVE LoopInv'
  OBVIOUS
<1>1. CASE UNCHANGED readinessVars
  BY <1>1 DEF readinessVars, LoopInv, LoopTyped, OnlyPendingMoves, EveryPassMoves, NothingLeft,
    decided, Moved
<1> QED BY <1>1, DecideOneKeeps, EndPassKeeps DEF ReadinessNext

(* Where two settled tables differ first, in the order the dependencies    *)
(* fix, they agree on everything that decides.                             *)
LEMMA OneSettledTable ==
  ASSUME NEW d, WellFormed(d), Acyclic(d), NEW status, NEW outcome,
         NEW t \in SettledTables(d, status, outcome), NEW u \in SettledTables(d, status, outcome)
  PROVE  t = u
<1>1. PICK rank \in [Invocations -> Invocations] : \A x \in d.deps : rank[x.from] < rank[x.to]
  BY DEF Acyclic
<1> DEFINE Open == {i \in Invocations : status[i] = "PENDING"}
           decision(v, i) == decideDependencyReadiness(d, i, v, outcome)
<1>2. ASSUME NEW v \in SettledTables(d, status, outcome)
      PROVE  /\ v = [i \in Invocations |-> v[i]]
             /\ \A i \in Open : v[i] = NextStatus(d, i, decision(v, i))
             /\ \A i \in Invocations \ Open : v[i] = status[i]
  <2>1. PICK w \in [Open -> {"PENDING", "READY", "WAITING_APPROVAL", "SKIPPED"}] :
          v = [i \in Invocations |-> IF i \in Open THEN w[i] ELSE status[i]]
    BY DEF SettledTables
  <2>2. \A i \in Open : v[i] = NextStatus(d, i, decision(v, i))
    BY DEF SettledTables
  <2> QED BY <2>1, <2>2
<1> DEFINE Apart == {i \in Invocations : t[i] # u[i]}
<1>3. SUFFICES ASSUME Apart # {} PROVE FALSE
  BY <1>2
<1>4. PICK less : less = {p \in Nat \X Nat : p[1] < p[2]}
  OBVIOUS
<1>5. IsWellFoundedOn(less, Nat)
  BY <1>4, NatLessThanWellFounded DEF OpToRel
<1>6. {rank[i] : i \in Apart} \subseteq Nat /\ {rank[i] : i \in Apart} # {}
  BY <1>1, <1>3, ReadinessAssumption
<1>7. PICK least \in {rank[i] : i \in Apart} : \A y \in {rank[i] : i \in Apart} : <<y, least>> \notin less
  BY <1>5, <1>6, WFMin
<1>8. PICK i \in Apart : least = rank[i]
  BY <1>7
<1>9. ASSUME NEW x \in d.deps, x.to = i PROVE t[x.from] = u[x.from]
  <2>1. x.from \in Invocations
    BY DEF WellFormed
  <2>2. rank[x.from] < rank[i] /\ rank[x.from] \in Nat /\ rank[i] \in Nat
    BY <1>1, <1>8, <1>9, <2>1, ReadinessAssumption
  <2>3. <<rank[x.from], rank[i]>> \in less
    BY <1>4, <2>2
  <2>4. x.from \notin Apart
    BY <1>7, <1>8, <2>3
  <2> QED BY <2>1, <2>4
<1>10. decision(t, i) = decision(u, i)
  <2>1. {evaluateCondition(x, t[x.from], outcome[x.from]) : x \in {x \in d.deps : x.to = i}}
          = {evaluateCondition(x, u[x.from], outcome[x.from]) : x \in {x \in d.deps : x.to = i}}
    BY <1>9
  <2> QED BY <2>1 DEF decideDependencyReadiness
<1> HIDE DEF decision
<1>11. t[i] = u[i]
  BY <1>2, <1>8, <1>10
<1> QED BY <1>8, <1>11

LEMMA LoopEndsSettled ==
  ASSUME LoopInv, done PROVE stateById \in SettledTables(loopDef, before, outcomes)
<1> DEFINE Open == {i \in Invocations : before[i] = "PENDING"}
           U == [Open -> {"PENDING", "READY", "WAITING_APPROVAL", "SKIPPED"}]
           u == [i \in Open |-> stateById[i]]
<1>1. LoopTyped /\ OnlyPendingMoves /\ NothingLeft
  BY DEF LoopInv
<1>2. stateById = [i \in Invocations |-> IF i \in Open THEN u[i] ELSE before[i]]
  BY <1>1 DEF LoopTyped, OnlyPendingMoves
<1>3. u \in U
  <2> SUFFICES ASSUME NEW i \in Open
               PROVE  stateById[i] \in {"PENDING", "READY", "WAITING_APPROVAL", "SKIPPED"}
    OBVIOUS
  <2> QED BY <1>1, DecidedTypes DEF OnlyPendingMoves
<1>4. \A i \in Open : stateById[i] = NextStatus(loopDef, i, decided(i))
  <2> SUFFICES ASSUME NEW i \in Open PROVE stateById[i] = NextStatus(loopDef, i, decided(i))
    OBVIOUS
  <2>1. CASE stateById[i] = "PENDING"
    <3>1. decided(i) = "PENDING"
      BY <1>1, <2>1 DEF NothingLeft
    <3> QED BY <2>1, <3>1 DEF NextStatus
  <2>2. CASE stateById[i] # "PENDING"
    BY <1>1, <2>2 DEF OnlyPendingMoves
  <2> QED BY <2>1, <2>2
<1>5. \E w \in U : stateById = [i \in Invocations |-> IF i \in Open THEN w[i] ELSE before[i]]
  BY <1>2, <1>3
<1> HIDE DEF u
<1> QED BY <1>4, <1>5 DEF SettledTables, decided

(* LoopSettles, for every plan whose dependencies run in no circle: the    *)
(* loop of dispatchPlan ends in the one settled table, and its bound on    *)
(* the passes never cuts it short.                                         *)
THEOREM LoopAlwaysSettles == ReadinessSpec => []LoopSettles
<1>1. LoopInv => LoopSettles
  <2> SUFFICES ASSUME LoopInv, done
               PROVE  SettledTables(loopDef, before, outcomes) = {stateById}
    BY DEF LoopSettles
  <2>1. stateById \in SettledTables(loopDef, before, outcomes)
    BY LoopEndsSettled
  <2>2. WellFormed(loopDef) /\ Acyclic(loopDef)
    BY LoopDefinition DEF LoopInv
  <2> QED BY <2>1, <2>2, OneSettledTable
<1> QED BY <1>1, LoopInitInv, LoopNextInv, PTL DEF ReadinessSpec
===============================================================================

----------------------------- MODULE Orchestration -----------------------------
(***************************************************************************)
(* The execution of one plan: OrchestrationRuntime                         *)
(* (apps/worker/src/orchestration.ts) and the start, stop, approve and     *)
(* resolveHumanEvaluation requests of OrchestrationService                 *)
(* (apps/api/src/orchestration/orchestration.service.ts).                  *)
(*                                                                         *)
(* Every worker transaction locks the plan's row first, and start and stop *)
(* begin by updating it, so each is one step.  approve and                 *)
(* resolveHumanEvaluation read the plan without a lock and write later.    *)
(* The two BullMQ queues are external: at most one job per job id, an add  *)
(* while the job waits or runs is ignored, and jobs may be lost.  A run    *)
(* counts as stale after staleAfterMs whether or not its executor lives;   *)
(* when that happens is left open.                                         *)
(***************************************************************************)
EXTENDS Readiness

CONSTANTS Plans,        \* the plan definitions a run starts from
          Results,      \* the statuses an executor can answer with
          MaxAttempts,  \* maxAttempts
          MaxRuns,      \* bound: runs of one invocation
          MaxCrashes    \* bound: crashes, stalls and queue losses

ASSUME OrchestrationAssumption ==
  /\ MaxAttempts \in Nat \ {0} /\ MaxRuns \in Nat /\ MaxCrashes \in Nat
  /\ Results \subseteq {"COMPLETED", "FAILED"} \cup UsageWaits
  /\ \A d \in Plans : WellFormed(d)

VARIABLES def,         \* the frozen definition
          plan,        \* execution_plan.status
          inv,         \* invocation.status
          runs,        \* invocation_run by attempt: status and outcome
          attempts,    \* the latest attempt of each invocation
          requests,    \* approvals that have read the plan: <<kind, invocation>>
          executors,   \* executions in progress in some worker process
          execJob,     \* the execution queue's job of each invocation
          dispatchJob, \* the dispatch queue's job of the plan
          toEnqueue,   \* what a committed dispatch has yet to enqueue
          crashes

durable == <<plan, inv, runs, attempts>>

queues == <<execJob, dispatchJob, toEnqueue>>

vars == <<def, durable, requests, executors, queues, crashes>>

PlanStatuses == {"PLANNED", "RUNNING", "PARTIAL", "COMPLETED", "FAILED", "CANCELED"}

RunRows == [status : {"NONE", "RUNNING", "COMPLETED", "FAILED", "CANCELED"} \cup UsageWaits,
            outcome : Outcomes \cup {NoOutcome}]

NoRun == [status |-> "NONE", outcome |-> NoOutcome]

(* "executing" to "ending": the job is active, so an add is ignored.       *)
JobStates == {"none", "waiting", "executing", "persisted", "ending"}

Init ==
  /\ def \in Plans
  /\ plan = "PLANNED"
  /\ inv = [i \in Invocations |-> "PENDING"]
  /\ runs = [i \in Invocations |-> [a \in 1..MaxRuns |-> NoRun]]
  /\ attempts = [i \in Invocations |-> 0]
  /\ requests = {}
  /\ executors = {}
  /\ execJob = [i \in Invocations |-> "none"]
  /\ dispatchJob = "none"
  /\ toEnqueue = {}
  /\ crashes = 0

-------------------------------------------------------------------------------
latestOutcome ==
  [i \in Invocations |-> IF attempts[i] = 0 THEN NoOutcome ELSE runs[i][attempts[i]].outcome]

CancelActive(status) ==
  [i \in Invocations |-> IF status[i] \in ActiveStatuses THEN "CANCELED" ELSE status[i]]

Running(status) == {i \in Invocations : status[i] = "RUNNING"}

EnqueuedDispatch == IF dispatchJob = "none" THEN "waiting" ELSE dispatchJob

-------------------------------------------------------------------------------
(* The user's requests.                                                    *)

start ==
  /\ plan = "PLANNED"
  /\ plan' = "RUNNING"
  /\ inv' = [i \in Invocations |->
        NextStatus(def, i, decideDependencyReadiness(def, i, inv, latestOutcome))]
  /\ UNCHANGED <<def, runs, attempts, requests, executors, queues, crashes>>

(* stop reads the plan before it writes, so it may write to a plan that    *)
(* has meanwhile finished; the first write has its own condition.          *)
stop ==
  /\ plan' = IF plan \in {"PLANNED", "RUNNING"} THEN "CANCELED" ELSE plan
  /\ inv' = CancelActive(inv)
  /\ UNCHANGED <<def, runs, attempts, requests, executors, queues, crashes>>

(* approve and resolveHumanEvaluation up to their checks.                  *)
RequestReads(i, kind) ==
  /\ plan = "RUNNING"
  /\ inv[i] = "WAITING_APPROVAL"
  /\ def.approval[i] = kind
  /\ requests' = requests \cup {<<kind, i>>}
  /\ UNCHANGED <<def, durable, executors, queues, crashes>>

(* Fault: the write trusts what was read.                                  *)
ApproveUnchecked(i) ==
  /\ <<"CONFIRM", i>> \in requests
  /\ inv' = [inv EXCEPT ![i] = "READY"]
  /\ requests' = requests \ {<<"CONFIRM", i>>}
  /\ UNCHANGED <<def, plan, runs, attempts, executors, queues, crashes>>

approve(i) ==
  /\ <<"CONFIRM", i>> \in requests
  /\ inv' = IF inv[i] = "WAITING_APPROVAL" THEN [inv EXCEPT ![i] = "READY"] ELSE inv
  /\ requests' = requests \ {<<"CONFIRM", i>>}
  /\ UNCHANGED <<def, plan, runs, attempts, executors, queues, crashes>>

(* The verdict is a completed run of its own; a lost race is a conflict.   *)
resolveHumanEvaluation(i, outcome) ==
  /\ <<"HUMAN", i>> \in requests
  /\ attempts[i] < MaxRuns
  /\ IF inv[i] = "WAITING_APPROVAL"
     THEN /\ inv' = [inv EXCEPT ![i] = "COMPLETED"]
          /\ attempts' = [attempts EXCEPT ![i] = @ + 1]
          /\ runs' = [runs EXCEPT ![i][attempts[i] + 1] =
                        [status |-> "COMPLETED", outcome |-> outcome]]
     ELSE UNCHANGED <<inv, attempts, runs>>
  /\ requests' = requests \ {<<"HUMAN", i>>}
  /\ UNCHANGED <<def, plan, executors, queues, crashes>>

-------------------------------------------------------------------------------
(* dispatchPlan: usage waits whose backoff is over become READY, readiness *)
(* is settled, and the plan fails, finishes or names what to enqueue.      *)

Resumed(elapsed) ==
  [i \in Invocations |-> IF i \in elapsed /\ inv[i] \in UsageWaits THEN "READY" ELSE inv[i]]

Verdict(status) ==
  LET PlanFails == \E i \in Invocations : status[i] = "FAILED" /\ def.failure[i] = "FAIL_PLAN"
      Settled == \A i \in Invocations : isTerminalInvocationStatus(status[i])
      Flawed == \E i \in Invocations : status[i] \in {"FAILED", "CANCELED"}
  IN CASE PlanFails -> "FAILED"
       [] ~PlanFails /\ ~Settled -> "RUNNING"
       [] ~PlanFails /\ Settled /\ Flawed -> "PARTIAL"
       [] ~PlanFails /\ Settled /\ ~Flawed -> "COMPLETED"

ReadyForSlots(status) ==
  LET Ready == {i \in Invocations : status[i] = "READY"}
      slots == def.maxParallelism - Cardinality(Running(status))
  IN {i \in Ready : Cardinality({j \in Ready : j < i}) < slots}

dispatchPlan(elapsed) ==
  /\ dispatchJob = "waiting"
  /\ dispatchJob' = "active"
  /\ IF plan # "RUNNING"
     THEN /\ toEnqueue' = {}
          /\ UNCHANGED <<plan, inv>>
     ELSE \E status \in SettledTables(def, Resumed(elapsed), latestOutcome) :
            /\ plan' = Verdict(status)
            /\ inv' = IF Verdict(status) = "FAILED" THEN CancelActive(status) ELSE status
            /\ toEnqueue' = IF Verdict(status) = "RUNNING" THEN ReadyForSlots(status) ELSE {}
  /\ UNCHANGED <<def, runs, attempts, requests, executors, execJob, crashes>>

(* The adds that follow the commit, and the end of the dispatch job.       *)
EnqueueInvocations ==
  /\ dispatchJob = "active"
  /\ execJob' = [i \in Invocations |->
        IF i \in toEnqueue /\ execJob[i] = "none" THEN "waiting" ELSE execJob[i]]
  /\ dispatchJob' = "none"
  /\ toEnqueue' = {}
  /\ UNCHANGED <<def, durable, requests, executors, crashes>>

-------------------------------------------------------------------------------
(* processInvocation.                                                      *)

(* Fault: a second delivery of the job claims a RUNNING invocation again.   *)
CanClaimAgain(i) ==
  /\ plan = "RUNNING"
  /\ inv[i] \in {"READY", "RUNNING"}
  /\ Cardinality(Running(inv) \ {i}) < def.maxParallelism

CanClaim(i) ==
  /\ plan = "RUNNING"
  /\ inv[i] = "READY"
  /\ Cardinality(Running(inv)) < def.maxParallelism

claimInvocation(i) ==
  LET a == attempts[i] + 1
  IN /\ execJob[i] = "waiting"
     /\ CanClaim(i)
     /\ a <= MaxRuns
     /\ inv' = [inv EXCEPT ![i] = "RUNNING"]
     /\ attempts' = [attempts EXCEPT ![i] = a]
     /\ runs' = [runs EXCEPT ![i][a] = [status |-> "RUNNING", outcome |-> NoOutcome]]
     /\ executors' = executors \cup {[invocation |-> i, attempt |-> a, owns |-> TRUE]}
     /\ execJob' = [execJob EXCEPT ![i] = "executing"]
     /\ UNCHANGED <<def, plan, requests, dispatchJob, toEnqueue, crashes>>

ClaimRefused(i) ==
  /\ execJob[i] = "waiting"
  /\ ~CanClaim(i)
  /\ execJob' = [execJob EXCEPT ![i] = "persisted"]
  /\ UNCHANGED <<def, durable, requests, executors, dispatchJob, toEnqueue, crashes>>

(* Fault: the plan is left for the next dispatch to fail.                  *)
AfterFailurePlanLater(i, a, retryable) ==
  /\ inv' = [inv EXCEPT ![i] = IF retryable /\ a < MaxAttempts THEN "READY" ELSE "FAILED"]
  /\ UNCHANGED plan

(* What becomes of an invocation whose run a failed, and of the plan.      *)
AfterFailure(i, a, retryable) ==
  LET status == IF retryable /\ a < MaxAttempts THEN "READY" ELSE "FAILED"
      fails == status = "FAILED" /\ def.failure[i] = "FAIL_PLAN"
      changed == [inv EXCEPT ![i] = status]
  IN /\ inv' = IF fails THEN CancelActive(changed) ELSE changed
     /\ plan' = IF fails THEN "FAILED" ELSE plan

FinishRun(i, a, status, outcome) ==
  runs' = [runs EXCEPT ![i][a] = [status |-> status, outcome |-> outcome]]

(* persistExecutionResult: the result of a run that is no longer RUNNING   *)
(* is dropped; one whose invocation or plan moved on is a canceled run.    *)
persistExecutionResult(i, a, result, outcome, retryable) ==
  \/ /\ runs[i][a].status # "RUNNING"
     /\ UNCHANGED <<plan, inv, runs>>
  \/ /\ runs[i][a].status = "RUNNING"
     /\ plan # "RUNNING" \/ inv[i] # "RUNNING"
     /\ FinishRun(i, a, "CANCELED", NoOutcome)
     /\ UNCHANGED <<plan, inv>>
  \/ /\ runs[i][a].status = "RUNNING" /\ plan = "RUNNING" /\ inv[i] = "RUNNING"
     /\ result # "FAILED"
     /\ FinishRun(i, a, result, outcome)
     /\ inv' = [inv EXCEPT ![i] = result]
     /\ UNCHANGED plan
  \/ /\ runs[i][a].status = "RUNNING" /\ plan = "RUNNING" /\ inv[i] = "RUNNING"
     /\ result = "FAILED"
     /\ FinishRun(i, a, "FAILED", NoOutcome)
     /\ AfterFailure(i, a, retryable)

(* The executor answers.  One that lost its job to a stall still writes,   *)
(* and may still ask for a dispatch.                                       *)
ExecutorAnswers(e, result, outcome, retryable) ==
  /\ e \in executors
  /\ result = "COMPLETED" \/ outcome = NoOutcome
  /\ persistExecutionResult(e.invocation, e.attempt, result, outcome, retryable)
  /\ executors' = executors \ {e}
  /\ IF e.owns
     THEN /\ execJob' = [execJob EXCEPT ![e.invocation] = "persisted"]
          /\ UNCHANGED dispatchJob
     ELSE /\ dispatchJob' \in {dispatchJob, EnqueuedDispatch}
          /\ UNCHANGED execJob
  /\ UNCHANGED <<def, attempts, requests, toEnqueue, crashes>>

enqueueDispatch(i) ==
  /\ execJob[i] = "persisted"
  /\ dispatchJob' = EnqueuedDispatch
  /\ execJob' = [execJob EXCEPT ![i] = "ending"]
  /\ UNCHANGED <<def, durable, requests, executors, toEnqueue, crashes>>

JobEnds(i) ==
  /\ execJob[i] = "ending"
  /\ execJob' = [execJob EXCEPT ![i] = "none"]
  /\ UNCHANGED <<def, durable, requests, executors, dispatchJob, toEnqueue, crashes>>

-------------------------------------------------------------------------------
(* reconcile, on a timer: stale runs, then a dispatch of a RUNNING plan.   *)

recoverStaleRun(i, a) ==
  /\ runs[i][a].status = "RUNNING"
  /\ IF plan # "RUNNING" \/ inv[i] # "RUNNING"
     THEN /\ FinishRun(i, a, "CANCELED", NoOutcome)
          /\ UNCHANGED <<plan, inv>>
     ELSE /\ FinishRun(i, a, "FAILED", NoOutcome)
          /\ AfterFailure(i, a, TRUE)
  /\ UNCHANGED <<def, attempts, requests, executors, queues, crashes>>

(* Fault: only plans with nothing running are looked at.                   *)
ReconcileIdlePlans ==
  /\ plan = "RUNNING" /\ attempts = [i \in Invocations |-> 0]
  /\ dispatchJob = "none"
  /\ dispatchJob' = EnqueuedDispatch
  /\ UNCHANGED <<def, durable, requests, executors, execJob, toEnqueue, crashes>>

reconcile ==
  /\ plan = "RUNNING"
  /\ dispatchJob = "none"
  /\ dispatchJob' = EnqueuedDispatch
  /\ UNCHANGED <<def, durable, requests, executors, execJob, toEnqueue, crashes>>

-------------------------------------------------------------------------------
(* Failures of the processes and of the queue.                             *)

Fails == crashes < MaxCrashes /\ crashes' = crashes + 1

(* The worker of a job dies with it: the job is retried or dropped.        *)
WorkerDies(i) ==
  /\ Fails
  /\ execJob[i] \in {"executing", "persisted", "ending"}
  /\ \E next \in {"waiting", "none"} : execJob' = [execJob EXCEPT ![i] = next]
  /\ executors' = {e \in executors : ~(e.invocation = i /\ e.owns)}
  /\ UNCHANGED <<def, durable, requests, dispatchJob, toEnqueue>>

(* The job's lock is not renewed in time: another worker gets the job while *)
(* the executor goes on.                                                   *)
JobStalls(e) ==
  /\ Fails
  /\ e \in executors /\ e.owns
  /\ executors' = (executors \ {e}) \cup {[e EXCEPT !.owns = FALSE]}
  /\ execJob' = [execJob EXCEPT ![e.invocation] = "waiting"]
  /\ UNCHANGED <<def, durable, requests, dispatchJob, toEnqueue>>

(* Between the commit of a dispatch and its adds.                          *)
DispatcherDies ==
  /\ Fails
  /\ dispatchJob = "active"
  /\ dispatchJob' \in {"waiting", "none"}
  /\ toEnqueue' = {}
  /\ UNCHANGED <<def, durable, requests, executors, execJob>>

QueueLost ==
  /\ Fails
  /\ dispatchJob' = IF dispatchJob = "waiting" THEN "none" ELSE dispatchJob
  /\ execJob' = [i \in Invocations |-> IF execJob[i] = "waiting" THEN "none" ELSE execJob[i]]
  /\ UNCHANGED <<def, durable, requests, executors, toEnqueue>>

-------------------------------------------------------------------------------
UserStep ==
  \/ start
  \/ stop
  \/ \E i \in Invocations :
       \/ \E kind \in {"CONFIRM", "HUMAN"} : RequestReads(i, kind)
       \/ approve(i)
       \/ \E outcome \in Outcomes : resolveHumanEvaluation(i, outcome)

DispatchStep ==
  \/ \E elapsed \in SUBSET {i \in Invocations : inv[i] \in UsageWaits} : dispatchPlan(elapsed)
  \/ EnqueueInvocations

JobStep(i) == claimInvocation(i) \/ ClaimRefused(i) \/ enqueueDispatch(i) \/ JobEnds(i)

ExecutorStep(i) ==
  \E e \in executors, result \in Results, outcome \in Outcomes \cup {NoOutcome},
     retryable \in BOOLEAN :
       e.invocation = i /\ ExecutorAnswers(e, result, outcome, retryable)

RecoverStep(i) == \E a \in 1..MaxRuns : recoverStaleRun(i, a)

FailureStep ==
  \/ \E i \in Invocations : WorkerDies(i)
  \/ \E e \in executors : JobStalls(e)
  \/ DispatcherDies
  \/ QueueLost

Next ==
  \/ UserStep
  \/ DispatchStep
  \/ \E i \in Invocations : JobStep(i) \/ ExecutorStep(i) \/ RecoverStep(i)
  \/ reconcile
  \/ FailureStep

Spec == Init /\ [][Next]_vars

(* Workers take the jobs they are given, the reconcile timer runs and an   *)
(* executor that does not die answers, since every provider call has a     *)
(* timeout.  Users may never act.                                          *)
Fairness ==
  /\ WF_vars(DispatchStep)
  /\ WF_vars(reconcile)
  /\ \A i \in Invocations :
       WF_vars(JobStep(i)) /\ WF_vars(ExecutorStep(i)) /\ WF_vars(RecoverStep(i))

FairSpec == Spec /\ Fairness

-------------------------------------------------------------------------------
(* The rows, jobs and executions have their types.                         *)
TypeOK ==
  /\ def \in Plans
  /\ plan \in PlanStatuses
  /\ inv \in [Invocations -> InvocationStatuses]
  /\ runs \in [Invocations -> [1..MaxRuns -> RunRows]]
  /\ attempts \in [Invocations -> 0..MaxRuns]
  /\ requests \subseteq {"CONFIRM", "HUMAN"} \X Invocations
  /\ executors \subseteq [invocation : Invocations, attempt : 1..MaxRuns, owns : BOOLEAN]
  /\ execJob \in [Invocations -> JobStates]
  /\ dispatchJob \in {"none", "waiting", "active"}
  /\ toEnqueue \subseteq Invocations
  /\ crashes \in 0..MaxCrashes

(* No more invocations run than the plan allows, although dispatch counts  *)
(* the free slots long before the jobs it enqueues are claimed.            *)
ParallelismBounded == Cardinality(Running(inv)) <= def.maxParallelism

(* An invocation is RUNNING exactly while its latest run is and its plan   *)
(* has not been closed, and no earlier run of it is left RUNNING: a        *)
(* recovered or repeated job never gives an invocation two live runs.      *)
OneLiveRun ==
  \A i \in Invocations :
    /\ inv[i] = "RUNNING" => attempts[i] > 0 /\ runs[i][attempts[i]].status = "RUNNING"
    /\ \A a \in 1..MaxRuns :
         runs[i][a].status = "RUNNING" =>
           a = attempts[i] /\ (inv[i] = "RUNNING" \/ (plan # "RUNNING" /\ inv[i] = "CANCELED"))

(* Nothing of a plan that is over can still start: no approval, retry,     *)
(* usage recheck or job that was under way brings an invocation back.      *)
ClosedPlanIsQuiet ==
  plan \notin {"PLANNED", "RUNNING"} =>
    \A i \in Invocations : inv[i] \in TerminalStatuses

(* The verdict on the plan agrees with its invocations, whichever of       *)
(* persist, stale recovery, dispatch and stop closed it.                   *)
VerdictAgrees ==
  /\ plan = "FAILED" <=> \E i \in Invocations : inv[i] = "FAILED" /\ def.failure[i] = "FAIL_PLAN"
  /\ plan = "COMPLETED" => \A i \in Invocations : inv[i] \in {"COMPLETED", "SKIPPED"}
  /\ plan = "PARTIAL" => \E i \in Invocations : inv[i] = "FAILED"

(* What is finished stays as it is: a late result, a second delivery or a  *)
(* late stop changes no finished run, invocation or plan.                  *)
FinishedStays ==
  [][/\ \A i \in Invocations :
          /\ inv[i] \in TerminalStatuses => inv'[i] = inv[i]
          /\ \A a \in 1..MaxRuns :
               runs[i][a].status \notin {"NONE", "RUNNING"} => runs'[i][a] = runs[i][a]
     /\ plan \notin {"PLANNED", "RUNNING"} => plan' = plan]_vars

(* Nothing runs without its reasons.  An invocation runs, or is skipped,   *)
(* only because its dependencies say so, and they still say so later: what *)
(* it was decided on never changes.  Its failures stay within the attempt  *)
(* ceiling, interrupted runs included.  And one that needs its user never  *)
(* gets past waiting for him without his own request for it: not by start, *)
(* not by dispatch, and a human evaluator not by an approval.              *)
RunsAreJustified ==
  /\ [](/\ Justified(def, inv, latestOutcome)
        /\ \A i \in Invocations :
             Cardinality({a \in 1..MaxRuns : runs[i][a].status = "FAILED"}) <= MaxAttempts)
  /\ [][\A i \in Invocations :
         def.approval[i] # "AUTO" /\ inv[i] \in {"PENDING", "WAITING_APPROVAL"}
           /\ inv'[i] \in {"READY", "RUNNING", "COMPLETED"} =>
              <<def.approval[i], i>> \in requests]_vars

(* A running plan finishes or comes to wait for its user, although queue   *)
(* jobs are lost, adds are ignored, workers die and executors are slow;    *)
(* and no run stays RUNNING for ever, also when its plan was stopped.      *)
PlanFinishes ==
  /\ plan = "RUNNING" ~>
       (plan # "RUNNING" \/ \E i \in Invocations : inv[i] = "WAITING_APPROVAL")
  /\ \A i \in Invocations, a \in 1..MaxRuns :
       runs[i][a].status = "RUNNING" ~> runs[i][a].status # "RUNNING"

===============================================================================

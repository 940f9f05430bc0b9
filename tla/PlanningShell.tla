----------------------------- MODULE PlanningShell -----------------------------
(***************************************************************************)
(* How a message gets its execution plan: planMessage and create of        *)
(* OrchestrationService (apps/api/src/orchestration/orchestration.service.ts) *)
(* and recoverStalePlanningShells of the worker                            *)
(* (apps/worker/src/orchestration.ts).                                     *)
(*                                                                         *)
(* One message, so one execution_plan row.  Requests to plan it race: one  *)
(* claims the row by writing its claim hash, keeps the claim alive by a    *)
(* heartbeat while the planner model thinks, and stores the plan if the    *)
(* row still carries its hash.  Every write is a single conditional UPDATE. *)
(* The age of the row's updatedAt is what the two timeouts look at.        *)
(***************************************************************************)
EXTENDS Integers, FiniteSets

CONSTANTS Planners,  \* requests to plan the message
          Contents   \* what a planner, or the user by hand, can come up with

ASSUME PlanningAssumption == Planners \cap Contents = {}

VARIABLES shell,     \* execution_plan: status, planHash and age
          planner,   \* where each request is
          answer     \* what each request was told

planningVars == <<shell, planner, answer>>

Fresh == 0
LeaseOver == 1  \* older than planningLeaseMs
Abandoned == 2  \* older than planningStaleAfterMs, which is longer

(* planHash: planning:pending, planning:claimed:<request>, clarification:, *)
(* or the hash of a plan.  by is not used by the first and the third.      *)
Nothing == "-"

Hash(kind, by) == [kind |-> kind, by |-> by]

Pending == Hash("pending", Nothing)

Claim(r) == Hash("claim", r)

NoShell == [status |-> "NONE", hash |-> Pending, age |-> Fresh]

PlanningInit ==
  /\ shell = NoShell
  /\ planner = [r \in Planners |-> [phase |-> "idle", seen |-> Pending]]
  /\ answer = [r \in Planners |-> [kind |-> "none", content |-> Nothing]]

-------------------------------------------------------------------------------
Phase(r, phase) == planner' = [planner EXCEPT ![r].phase = phase]

Answer(r, kind, content) ==
  /\ answer' = [answer EXCEPT ![r] = [kind |-> kind, content |-> content]]
  /\ Phase(r, "done")

(* What a request is told about a row that somebody else holds or settled: *)
(* existingSemanticPlanResult, and PLANNING.                               *)
AnswerFromShell(r) ==
  CASE shell.status = "NEEDS_CLARIFICATION" -> Answer(r, "CLARIFICATION_REQUIRED", Nothing)
    [] shell.status = "PLANNING" -> Answer(r, "PLANNING", Nothing)
    [] shell.status = "PLANNED" -> Answer(r, "PLANNED", shell.hash.by)
    [] OTHER -> Answer(r, "EXISTING_PLAN", Nothing)

Holds(r) == shell.status = "PLANNING" /\ shell.hash = Claim(r)

Write(status, hash) == shell' = [status |-> status, hash |-> hash, age |-> Fresh]

-------------------------------------------------------------------------------
(* create: a plan made by hand is a PLANNED row at once, if there is none. *)
create(c) ==
  /\ shell.status = "NONE"
  /\ Write("PLANNED", Hash("plan", c))
  /\ UNCHANGED <<planner, answer>>

(* ensurePlanningShell: the unique messageId admits one row.               *)
ensurePlanningShell(r) ==
  /\ planner[r].phase = "idle"
  /\ IF shell.status = "NONE" THEN Write("PLANNING", Pending) ELSE UNCHANGED shell
  /\ IF shell.status \in {"NONE", "PLANNING"}
     THEN Phase(r, "ensured") /\ UNCHANGED answer
     ELSE AnswerFromShell(r)

(* claimPlanningShell: an unclaimed row is claimed; a claim past its lease *)
(* is read, and taken over if the row still carries it.                    *)
ClaimPending(r) ==
  /\ planner[r].phase = "ensured"
  /\ shell.status = "PLANNING" /\ shell.hash = Pending
  /\ Write("PLANNING", Claim(r))
  /\ Phase(r, "planning")
  /\ UNCHANGED answer

SeeStaleClaim(r) ==
  /\ planner[r].phase = "ensured"
  /\ shell.status = "PLANNING" /\ shell.hash.kind = "claim" /\ shell.age >= LeaseOver
  /\ planner' = [planner EXCEPT ![r] = [phase |-> "stealing", seen |-> shell.hash]]
  /\ UNCHANGED <<shell, answer>>

TakeOver(r) ==
  /\ planner[r].phase = "stealing"
  /\ IF shell.status = "PLANNING" /\ shell.hash = planner[r].seen
     THEN /\ Write("PLANNING", Claim(r))
          /\ Phase(r, "planning")
          /\ UNCHANGED answer
     ELSE AnswerFromShell(r) /\ UNCHANGED shell

NotClaimed(r) ==
  /\ planner[r].phase = "ensured"
  /\ shell.status # "PLANNING" \/ (shell.hash.kind = "claim" /\ shell.age < LeaseOver)
  /\ AnswerFromShell(r)
  /\ UNCHANGED shell

-------------------------------------------------------------------------------
(* The planner model is at work, or has answered and the answer is being   *)
(* stored; aborted: its heartbeat gave up, of which it may not know yet.   *)
Thinking(r) == planner[r].phase \in {"planning", "aborted"}

(* startPlanningHeartbeat: refreshes the row, or aborts the planner when    *)
(* the claim is lost or the database does not answer.                      *)
Heartbeat(r) ==
  /\ planner[r].phase = "planning"
  /\ \/ /\ Holds(r)
        /\ shell' = [shell EXCEPT !.age = Fresh]
        /\ UNCHANGED planner
     \/ Phase(r, "aborted") /\ UNCHANGED shell
  /\ UNCHANGED answer

failPlanningClaim(r) ==
  IF Holds(r) THEN Write("FAILED", shell.hash) ELSE UNCHANGED shell

(* The context, the model or the validation of its plan fails.             *)
PlannerFails(r) ==
  /\ Thinking(r)
  /\ failPlanningClaim(r)
  /\ Answer(r, "ERROR", Nothing)

(* An aborted planner, or one refused its context, finds the row settled.  *)
PlannerFindsPlan(r) ==
  /\ Thinking(r)
  /\ shell.status # "PLANNING"
  /\ AnswerFromShell(r)
  /\ UNCHANGED shell

(* persistClarification.                                                   *)
persistClarification(r) ==
  /\ Thinking(r)
  /\ IF Holds(r)
     THEN /\ Write("NEEDS_CLARIFICATION", Hash("clarification", Nothing))
          /\ Answer(r, "CLARIFICATION_REQUIRED", Nothing)
     ELSE /\ Answer(r, IF shell.status = "NEEDS_CLARIFICATION"
                       THEN "CLARIFICATION_REQUIRED" ELSE "ERROR", Nothing)
          /\ UNCHANGED shell

(* Fault: only the status is compared, not the claim.                      *)
FinalizeUnfenced(r, c) ==
  /\ Thinking(r)
  /\ Write("PLANNED", Hash("plan", c))
  /\ Answer(r, "PLANNED", c)

(* finalizePlanningShell, with what planMessage makes of a lost claim: the *)
(* plan that won, if it is settled, and otherwise an error.                *)
finalizePlanningShell(r, c) ==
  /\ Thinking(r)
  /\ IF Holds(r)
     THEN Write("PLANNED", Hash("plan", c)) /\ Answer(r, "PLANNED", c)
     ELSE IF shell.hash = Hash("plan", c)
          THEN Answer(r, "PLANNED", c) /\ UNCHANGED shell
          ELSE IF shell.status # "PLANNING"
               THEN AnswerFromShell(r) /\ UNCHANGED shell
               ELSE failPlanningClaim(r) /\ Answer(r, "ERROR", Nothing)

(* The API process of a request dies.                                      *)
RequestDies(r) ==
  /\ planner[r].phase \notin {"idle", "done"}
  /\ Phase(r, "done")
  /\ UNCHANGED <<shell, answer>>

-------------------------------------------------------------------------------
(* Fault: only rows that were never claimed are recovered.                 *)
RecoverPendingOnly ==
  /\ shell.status = "PLANNING" /\ shell.hash = Pending
  /\ shell.age = Abandoned
  /\ Write("FAILED", shell.hash)
  /\ UNCHANGED <<planner, answer>>

(* The row is read and written under a condition on updatedAt, which every *)
(* write and heartbeat moves: one step.                                    *)
recoverStalePlanningShells ==
  /\ shell.status = "PLANNING" /\ shell.hash.kind \in {"pending", "claim"}
  /\ shell.age = Abandoned
  /\ Write("FAILED", shell.hash)
  /\ UNCHANGED <<planner, answer>>

stopPlanning ==
  /\ shell.status \in {"PLANNING", "PLANNED"}
  /\ Write("CANCELED", shell.hash)
  /\ UNCHANGED <<planner, answer>>

TimePasses ==
  /\ shell.status = "PLANNING" /\ shell.age < Abandoned
  /\ shell' = [shell EXCEPT !.age = @ + 1]
  /\ UNCHANGED <<planner, answer>>

-------------------------------------------------------------------------------
PlannerEnds(r) ==
  \/ PlannerFails(r)
  \/ PlannerFindsPlan(r)
  \/ persistClarification(r)
  \/ \E c \in Contents : finalizePlanningShell(r, c)

RequestStep(r) ==
  \/ ensurePlanningShell(r)
  \/ ClaimPending(r)
  \/ SeeStaleClaim(r)
  \/ TakeOver(r)
  \/ NotClaimed(r)
  \/ Heartbeat(r)
  \/ PlannerEnds(r)
  \/ RequestDies(r)

PlanningNext ==
  \/ \E c \in Contents : create(c)
  \/ \E r \in Planners : RequestStep(r)
  \/ recoverStalePlanningShells
  \/ stopPlanning
  \/ TimePasses

PlanningSpec == PlanningInit /\ [][PlanningNext]_planningVars

(* Time passes, the worker's timer runs and a planner call has a timeout.  *)
PlanningFairness ==
  /\ WF_planningVars(TimePasses)
  /\ WF_planningVars(recoverStalePlanningShells)
  /\ \A r \in Planners : WF_planningVars(PlannerEnds(r))

PlanningFairSpec == PlanningSpec /\ PlanningFairness

-------------------------------------------------------------------------------
(* Planning under a live claim is ended by its holder, the user or the     *)
(* recovery of an abandoned row, never by a request that lost the claim; a *)
(* settled row keeps its plan: a takeover, a heartbeat or a recovery that  *)
(* was decided earlier changes nothing but to cancel it; and a request     *)
(* that was told its plan is stored finds that plan stored, also when it   *)
(* lost its claim to another while it was thinking.                        *)
HolderDecides ==
  /\ [](\A r \in Planners :
          answer[r].kind = "PLANNED" => shell.hash = Hash("plan", answer[r].content))
  /\ [][/\ \A r \in Planners :
             Holds(r) /\ Thinking(r) /\ shell'.status # "PLANNING" =>
               \/ planner'[r].phase = "done"
               \/ shell'.status = "CANCELED"
               \/ shell.age = Abandoned
        /\ shell.status \notin {"NONE", "PLANNING"} =>
             shell'.hash = shell.hash /\ shell'.status \in {shell.status, "CANCELED"}]_planningVars

(* No message stays in PLANNING, although requests die.                    *)
PlanningEnds == shell.status = "PLANNING" ~> shell.status # "PLANNING"

===============================================================================

------------------------------ MODULE Operator ------------------------------
(***************************************************************************)
(* A run of the Vimla operator (apps/api/src/operator/operator.service.ts, *)
(* packages/operator/src/executor.ts): planned once, confirmed where a     *)
(* tool asks for it, executed step by step, each step in a transaction of  *)
(* its own that holds the lock of the run.                                 *)
(*                                                                         *)
(* A client that got no answer sends its request again, so several         *)
(* handlers work on one run, each from what it has read; any of them may   *)
(* die.  A run started in a direct chat needs the consent of both members. *)
(***************************************************************************)
EXTENDS Naturals, Sequences, FiniteSets

CONSTANTS
    OpHandlers,     \* requests being served
    MaxRounds,      \* bound: how often the user clarifies, plus one
    MaxTokens,      \* bound: confirmation tokens given out
    MaxConsents     \* bound: changes of consent

ASSUME OperatorAssumption == MaxRounds \in Nat \ {0}

(* What the planner may propose: to ask back, to answer, nothing that can  *)
(* be parsed, or tools: two plain ones, or the second to be confirmed.     *)
Outputs == {"clarify", "answer", "invalid", "tools", "toolsConfirmed"}

confirmationRequired(o) == o = "toolsConfirmed"

Tools == 1..2

Terminal == {"SUCCEEDED", "PARTIAL", "FAILED", "CANCELED"}

Unfinished == {"PENDING", "NEEDS_CONFIRMATION", "CONFIRMED"}

VARIABLES
    run,        \* OperatorRun: status, plannerOutput, round, confirmation token
    tool,       \* OperatorRunStep, by sequence; << >> while there are none
    consent,    \* invocationScope = DIRECT_CHAT, its members agree, and changes so far
    op,         \* what a handler has read, and where it is
    effect,     \* history: how often a tool took effect, by round and sequence
    accepted,   \* history: the rounds whose confirmation was accepted
    crossed     \* history: a question of an earlier round was put in a later one

operatorVars == <<run, tool, consent, op, effect, accepted, crossed>>

HistorySame == UNCHANGED <<effect, accepted, crossed>>

(* Of the rows a handler has read it keeps what tells their round.         *)
OpIdle == [pc |-> "idle", output |-> "none", round |-> 0, at |-> 0, done |-> 0, failed |-> 0]

OperatorInit ==
    /\ run = [status |-> "none", output |-> "none", round |-> 1, token |-> 0, given |-> 0]
    /\ tool = <<>>
    /\ consent \in [direct : BOOLEAN, on : {TRUE}, changes : {0}]
    /\ op = [h \in OpHandlers |-> OpIdle]
    /\ effect = [x \in (1..MaxRounds) \X Tools |-> 0]
    /\ accepted = {}
    /\ crossed = FALSE

OpAt(h, pc) == op[h].pc = pc

OpBecomes(h, o) == op' = [op EXCEPT ![h] = o]

OpTo(h, pc) == OpBecomes(h, [op[h] EXCEPT !.pc = pc])

OpDone(h) == OpBecomes(h, OpIdle)

Executing(h) == OpBecomes(h, [OpIdle EXCEPT !.pc = "list"])

(* The frozen context of the run may still be used: checked before a       *)
(* request goes on, and again within every transaction with an effect.     *)
validateOperatorContextDisclosure == consent.on

loadFrozenDirectChatContext == consent.direct => validateOperatorContextDisclosure

resolveDirectChatScope == consent.direct => validateOperatorContextDisclosure

assertDirectChatDisclosureConsentTx == consent.on

assertDirectChatRunEpochTx == consent.direct => assertDirectChatDisclosureConsentTx

ContextRevoked == ~loadFrozenDirectChatContext

-----------------------------------------------------------------------------
(* failDirectChatContextRevoked: what took effect stays, the rest fails.   *)
TakenBack == [k \in DOMAIN tool |-> IF tool[k] \in Unfinished THEN "FAILED" ELSE tool[k]]

failDirectChatContextRevoked ==
    IF run.status \in Terminal
    THEN UNCHANGED <<run, tool>>
    ELSE /\ tool' = TakenBack
         /\ run' = [run EXCEPT
                !.token = 0,
                !.status =
                   IF run.status = "EXECUTING" /\ \E k \in DOMAIN tool : tool[k] = "EXECUTED"
                   THEN IF \E k \in DOMAIN TakenBack : TakenBack[k] = "FAILED"
                        THEN "PARTIAL" ELSE "SUCCEEDED"
                   ELSE "FAILED"]

rotateConfirmationToken ==
    /\ run.given < MaxTokens
    /\ run' = [run EXCEPT !.given = @ + 1, !.token = run.given + 1]

(* resumeExisting, from the run as it is read now.                         *)
resumeExisting(h) ==
    \/ /\ run.status = "PLANNING"
       /\ OpBecomes(h, [OpIdle EXCEPT !.pc = "plan", !.output = run.output, !.round = run.round])
       /\ UNCHANGED run
    \/ /\ run.status \in {"EXECUTING", "AWAITING_CONFIRMATION"}
       /\ OpBecomes(h, [OpIdle EXCEPT
                    !.pc = IF run.status = "EXECUTING" THEN "mayStep" ELSE "mayConfirm"])
       /\ UNCHANGED run
    \/ /\ run.status \notin {"PLANNING", "EXECUTING", "AWAITING_CONFIRMATION"}
       /\ OpDone(h) /\ UNCHANGED run

-----------------------------------------------------------------------------
(* Requests.                                                               *)

(* The first request with a client request id creates the run; the same    *)
(* id again resumes it.                                                    *)
createRun(h) ==
    /\ OpAt(h, "idle")
    /\ IF run.status = "none"
       THEN /\ resolveDirectChatScope
            /\ consent.direct => assertDirectChatDisclosureConsentTx
            /\ run' = [run EXCEPT !.status = "PLANNING"]
            /\ OpBecomes(h, [OpIdle EXCEPT !.pc = "plan", !.round = run.round])
       ELSE resumeExisting(h)
    /\ UNCHANGED <<tool, consent>> /\ HistorySame

getRun(h) ==
    /\ OpAt(h, "idle") /\ run.status = "AWAITING_CONFIRMATION"
    /\ OpTo(h, "mayConfirm")
    /\ UNCHANGED <<run, tool, consent>> /\ HistorySame

(* A run that waits is shown with a new token, unless consent is gone.     *)
ShowToken(h) ==
    /\ OpAt(h, "mayConfirm")
    /\ IF ContextRevoked THEN failDirectChatContextRevoked
       ELSE /\ UNCHANGED tool
            /\ IF run.status = "AWAITING_CONFIRMATION" THEN rotateConfirmationToken
               ELSE UNCHANGED run
    /\ OpDone(h)
    /\ UNCHANGED consent /\ HistorySame

confirmRun(h) ==
    /\ OpAt(h, "idle")
    /\ run.status \in {"AWAITING_CONFIRMATION", "EXECUTING"}
    /\ IF ContextRevoked
       THEN failDirectChatContextRevoked /\ OpDone(h)
       ELSE OpTo(h, "accept") /\ UNCHANGED <<run, tool>>
    /\ UNCHANGED consent /\ HistorySame

(* Under the lock: the current token, presented in time.                   *)
acceptConfirmation(h, t) ==
    /\ OpAt(h, "accept")
    /\ \/ /\ run.status = "AWAITING_CONFIRMATION" /\ run.token # 0 /\ t = run.token
          /\ tool' = [k \in DOMAIN tool |->
                        IF tool[k] = "NEEDS_CONFIRMATION" THEN "CONFIRMED" ELSE tool[k]]
          /\ accepted' = accepted \cup {run.round}
          /\ run' = [run EXCEPT !.status = "EXECUTING", !.token = 0]
          /\ OpTo(h, "mayStep")
       \/ /\ run.status = "AWAITING_CONFIRMATION" /\ (run.token = 0 \/ t # run.token)
          /\ OpDone(h)
          /\ UNCHANGED <<run, tool, accepted>>
       \/ /\ run.status = "EXECUTING"
          /\ OpTo(h, "mayStep")
          /\ UNCHANGED <<run, tool, accepted>>
       \/ /\ run.status \notin {"AWAITING_CONFIRMATION", "EXECUTING"}
          /\ OpDone(h)
          /\ UNCHANGED <<run, tool, accepted>>
    /\ UNCHANGED <<consent, effect, crossed>>

(* Another round, with the steps of the earlier one gone.                  *)
continueRun(h) ==
    /\ OpAt(h, "idle") /\ ~consent.direct
    /\ run.status = "AWAITING_CLARIFICATION" /\ run.round < MaxRounds
    /\ run' = [run EXCEPT !.status = "PLANNING", !.output = "none", !.round = @ + 1]
    /\ tool' = <<>>
    /\ OpBecomes(h, [OpIdle EXCEPT !.pc = "plan", !.round = run.round + 1])
    /\ UNCHANGED consent /\ HistorySame

Cancelable == run.status = "AWAITING_CONFIRMATION"

cancelRun(h) ==
    /\ OpAt(h, "idle") /\ Cancelable
    /\ tool' = [k \in DOMAIN tool |-> IF tool[k] \in Unfinished THEN "SKIPPED" ELSE tool[k]]
    /\ run' = [run EXCEPT !.status = "CANCELED", !.token = 0]
    /\ UNCHANGED <<consent, op>> /\ HistorySame

-----------------------------------------------------------------------------
(* planAndMaybeExecute.                                                    *)

AskPlanner(h, o) ==
    /\ OpAt(h, "plan")
    /\ IF ContextRevoked
       THEN failDirectChatContextRevoked /\ OpDone(h)
       ELSE /\ IF op[h].output = "none"
               THEN OpBecomes(h, [op[h] EXCEPT !.pc = "publish", !.output = o])
               ELSE OpTo(h, "planned")
            /\ UNCHANGED <<run, tool>>
    /\ UNCHANGED consent /\ HistorySame

(* The first output that is published is the plan, for every handler.      *)
PublishPlan(h) ==
    /\ OpAt(h, "publish")
    /\ IF run.status = "PLANNING" /\ run.output = "none"
       THEN /\ run' = [run EXCEPT !.output = op[h].output]
            /\ OpBecomes(h, [op[h] EXCEPT !.pc = "planned", !.round = run.round])
       ELSE /\ UNCHANGED run
            /\ IF run.output = "none" THEN OpDone(h)
               ELSE OpBecomes(h, [op[h] EXCEPT !.pc = "planned", !.output = run.output,
                                               !.round = run.round])
    /\ UNCHANGED <<tool, consent>> /\ HistorySame

(* A status is written only over the statuses it may follow.               *)
Settle(from, to) ==
    run' = IF run.status \in from THEN [run EXCEPT !.status = to, !.token = 0] ELSE run

(* Nothing tells that the question is of an earlier round: one that comes  *)
(* late takes the later round back to waiting.                             *)
awaitClarification(h) ==
    /\ OpAt(h, "clarify") \/ (OpAt(h, "planned") /\ op[h].output = "clarify")
    /\ Settle({"EXECUTING", "PLANNING"}, "AWAITING_CLARIFICATION")
    /\ crossed' = (crossed \/ op[h].round # run.round)
    /\ OpDone(h)
    /\ UNCHANGED <<tool, consent, effect, accepted>>

succeedWithoutTools(h) ==
    /\ OpAt(h, "planned") /\ op[h].output = "answer"
    /\ Settle({"PLANNING"}, "SUCCEEDED")
    /\ OpDone(h)
    /\ UNCHANGED <<tool, consent>> /\ HistorySame

failRun(h) ==
    /\ OpAt(h, "planned") /\ op[h].output = "invalid"
    /\ Settle({"PLANNING"}, "FAILED")
    /\ OpDone(h)
    /\ UNCHANGED <<tool, consent>> /\ HistorySame

prepareSteps(o) ==
    [k \in Tools |-> IF confirmationRequired(o) /\ k = 2 THEN "NEEDS_CONFIRMATION" ELSE "PENDING"]

(* Steps that exist are kept (skipDuplicates).                             *)
replaceSteps(h) ==
    /\ OpAt(h, "planned") /\ op[h].output \in {"tools", "toolsConfirmed"}
    /\ IF run.status = "PLANNING"
       THEN /\ tool' = IF tool = <<>> THEN prepareSteps(op[h].output) ELSE tool
            /\ OpTo(h, "begin") /\ UNCHANGED run
       ELSE resumeExisting(h) /\ UNCHANGED tool
    /\ UNCHANGED consent /\ HistorySame

BeginExecution(h) ==
    /\ OpAt(h, "begin")
    /\ IF run.status # "PLANNING"
       THEN IF run.status = "EXECUTING" /\ ~confirmationRequired(op[h].output)
            THEN Executing(h) /\ UNCHANGED run
            ELSE resumeExisting(h)
       ELSE IF confirmationRequired(op[h].output)
       THEN /\ run.given < MaxTokens
            /\ run' = [run EXCEPT !.status = "AWAITING_CONFIRMATION", !.given = @ + 1,
                                  !.token = run.given + 1]
            /\ OpDone(h)
       ELSE run' = [run EXCEPT !.status = "EXECUTING"] /\ Executing(h)
    /\ UNCHANGED <<tool, consent>> /\ HistorySame

-----------------------------------------------------------------------------
(* executePersistedSteps.                                                  *)

BeforeSteps(h) ==
    /\ OpAt(h, "mayStep")
    /\ IF ContextRevoked
       THEN failDirectChatContextRevoked /\ OpDone(h)
       ELSE Executing(h) /\ UNCHANGED <<run, tool>>
    /\ UNCHANGED consent /\ HistorySame

(* The steps are listed once: one that is deleted later stays on the list. *)
ListSteps(h) ==
    /\ OpAt(h, "list")
    /\ OpBecomes(h, [OpIdle EXCEPT !.pc = IF tool = <<>> THEN "finish" ELSE "step",
                                   !.round = run.round, !.at = 1])
    /\ UNCHANGED <<run, tool, consent>> /\ HistorySame

Counted(h, done, failed) ==
    OpBecomes(h, [op[h] EXCEPT !.pc = IF op[h].at + 1 \in Tools THEN "step" ELSE "finish",
                               !.at = @ + 1, !.done = @ + done, !.failed = @ + failed])

(* The step a handler is at still exists: continueRun deletes them.        *)
StepThere(h) == op[h].round = run.round /\ op[h].at \in DOMAIN tool

StepIs(h, statuses) ==
    run.status = "EXECUTING" /\ StepThere(h) /\ tool[op[h].at] \in statuses

(* Fault: a step is executed whatever became of it meanwhile. *)
StepOpenAnyway(h) == run.status = "EXECUTING" /\ StepThere(h)

StepOpen(h) == StepIs(h, {"PENDING", "CONFIRMED"})

(* A step that is not open is counted for what it is; one that is gone,    *)
(* or whose run is no longer EXECUTING, is skipped.                        *)
PassStep(h) ==
    /\ OpAt(h, "step") /\ ~StepOpen(h)
    /\ Counted(h, IF StepIs(h, {"EXECUTED"}) THEN 1 ELSE 0,
                  IF StepIs(h, {"FAILED", "NEEDS_CONFIRMATION"}) THEN 1 ELSE 0)
    /\ UNCHANGED <<run, tool, consent>> /\ HistorySame

(* The handler of a tool writes its object.                                *)
dispatch(k) == effect' = [effect EXCEPT ![<<run.round, k>>] = @ + 1]

(* Whom a task is for: in a direct chat it may have to be asked back.      *)
resolveTaskOwner == IF consent.direct /\ ~ContextRevoked THEN {"deny", "clarify"} ELSE {"deny"}

(* dispatch and the record of the step commit together.                    *)
executeStep(h) ==
    /\ OpAt(h, "step") /\ StepOpen(h)
    /\ assertDirectChatRunEpochTx
    /\ tool' = [tool EXCEPT ![op[h].at] = "EXECUTED"]
    /\ dispatch(op[h].at)
    /\ Counted(h, 1, 0)
    /\ UNCHANGED <<run, consent, accepted, crossed>>

(* The tool, or the check of consent, throws; a task for someone who is    *)
(* not clearly named asks back.                                            *)
StepThrows(h) ==
    /\ OpAt(h, "step") /\ StepOpen(h)
    /\ \E owner \in resolveTaskOwner :
          OpTo(h, IF owner = "clarify" THEN "clarify" ELSE "stepFailed")
    /\ UNCHANGED <<run, tool, consent>> /\ HistorySame

(* Another handler may have executed the step since.                       *)
markStepFailed(h) ==
    /\ OpAt(h, "stepFailed")
    /\ \/ /\ StepThere(h) /\ tool[op[h].at] = "EXECUTED"
          /\ Counted(h, 1, 0) /\ UNCHANGED tool
       \/ /\ StepThere(h) => tool[op[h].at] # "EXECUTED"
          /\ tool' = IF StepThere(h) /\ run.status = "EXECUTING"
                     THEN [tool EXCEPT ![op[h].at] = "FAILED"] ELSE tool
          /\ Counted(h, 0, 1)
    /\ UNCHANGED <<run, consent>> /\ HistorySame

finishRun(h) ==
    /\ OpAt(h, "finish")
    /\ Settle({"EXECUTING"}, IF op[h].failed = 0 THEN "SUCCEEDED"
                             ELSE IF op[h].done = 0 THEN "FAILED" ELSE "PARTIAL")
    /\ OpDone(h)
    /\ UNCHANGED <<tool, consent>> /\ HistorySame

-----------------------------------------------------------------------------
ConsentChanges ==
    /\ consent.direct /\ consent.changes < MaxConsents
    /\ consent' = [consent EXCEPT !.on = ~@, !.changes = @ + 1]
    /\ UNCHANGED <<run, tool, op>> /\ HistorySame

TokenExpires ==
    /\ run.token # 0
    /\ run' = [run EXCEPT !.token = 0]
    /\ UNCHANGED <<tool, consent, op>> /\ HistorySame

HandlerDies(h) ==
    /\ ~OpAt(h, "idle")
    /\ OpDone(h)
    /\ UNCHANGED <<run, tool, consent>> /\ HistorySame

OperatorNext ==
    \/ \E h \in OpHandlers :
          \/ createRun(h) \/ getRun(h) \/ ShowToken(h) \/ confirmRun(h) \/ continueRun(h)
          \/ cancelRun(h) \/ PublishPlan(h) \/ awaitClarification(h) \/ succeedWithoutTools(h)
          \/ failRun(h) \/ replaceSteps(h) \/ BeginExecution(h) \/ BeforeSteps(h)
          \/ ListSteps(h) \/ PassStep(h) \/ executeStep(h) \/ StepThrows(h) \/ markStepFailed(h)
          \/ finishRun(h) \/ HandlerDies(h)
          \/ \E t \in 1..MaxTokens : acceptConfirmation(h, t)
          \/ \E o \in Outputs : AskPlanner(h, o)
    \/ ConsentChanges \/ TokenExpires

-----------------------------------------------------------------------------
Took == {k \in Tools : effect[<<run.round, k>>] > 0}

ConfirmedBeforeActing == run.output = "toolsConfirmed" /\ 2 \in Took => run.round \in accepted

SucceededIsWhole == run.status = "SUCCEEDED" => \A k \in DOMAIN tool : tool[k] = "EXECUTED"

CanceledIsNothing == run.status = "CANCELED" => Took = {}

FailedIsNothing == run.status = "FAILED" /\ consent.changes = 0 => Took = {}

PartialIsSome == run.status = "PARTIAL" => Took # {} /\ Took # DOMAIN tool

(* A tool takes effect at most once however often its request is repeated, *)
(* and a tool to be confirmed only after a confirmation.  The status of a  *)
(* run that is over tells what happened: SUCCEEDED, nothing was left out;  *)
(* CANCELED or FAILED, nothing took effect; PARTIAL, some of both.         *)
(*                                                                         *)
(* Two cases are not among them.  A run that failed because its consent    *)
(* was revoked: a handler that had read it as EXECUTING may rewrite one    *)
(* that has acted.  And a run in which the question of an earlier round,   *)
(* put by a request that was repeated, has taken a later round back:       *)
(* handlers of the round that was cut off then act on the next one.        *)
RunTellsTruth ==
    /\ \A x \in (1..MaxRounds) \X Tools : effect[x] <= 1
    /\ ~crossed => /\ ConfirmedBeforeActing /\ SucceededIsWhole /\ CanceledIsNothing
                  /\ FailedIsNothing /\ PartialIsSome
=============================================================================

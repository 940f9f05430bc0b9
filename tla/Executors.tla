----------------------------- MODULE Executors -----------------------------
(***************************************************************************)
(* The two in-process executors of the worker and the artifact store they  *)
(* write to.  One invocation is followed through its attempts: an          *)
(* EVALUATOR judges the newest version of the artifact bound to it and     *)
(* leaves its verdict as an evaluation row of the attempt and as the       *)
(* outcome artifact of the invocation; a VIMLA invocation asks the planner *)
(* for one tool and runs it at most once.  An attempt whose lease is lost  *)
(* keeps executing while the next one runs, which is what the replay       *)
(* checks of both executors are for.                                       *)
(* Contents are small integers: two artifacts are equal exactly if their   *)
(* contents are, which is what fingerprintArtifactContent decides.         *)
(***************************************************************************)
EXTENDS Naturals, Sequences, FiniteSets, SequencesExt

CONSTANTS Kinds,        \* executors considered: {"EVALUATOR", "VIMLA"}
          Modes,        \* single modes of the acceptance criteria
          MaxRuns,      \* attempts of the invocation
          MaxVersions   \* versions of the bound artifact

ASSUME ExecutorsAssumption ==
    /\ Kinds \subseteq {"EVALUATOR", "VIMLA"}
    /\ Modes \subseteq {"DETERMINISTIC", "AI_EVALUATOR", "HUMAN_APPROVAL"}
    /\ MaxRuns \in Nat \ {0} /\ MaxVersions \in Nat \ {0}

VARIABLES
    contract,     \* [kind, mode]: what the invocation asks for
    versions,     \* contents of the versions of the bound artifact, oldest first
    evaluation,   \* run -> evaluation row, in order of creation
    outcome,      \* contents of the versions of the outcome artifact
    toolRow,      \* tool recorded COMPLETED under the invocation's key, or NoTool
    effects,      \* tools whose effect is committed, in order
    attempt,      \* the attempt that holds the lease
    exec          \* run -> what its executor is doing

executorVars == <<contract, versions, evaluation, outcome, toolRow,
                  effects, attempt, exec>>

Attempts == 1..MaxRuns
Verdicts == {"PASS", "FAIL"}
NoTool == "none"
ExecTools == {"createTask", "createNote"}
NotStarted ==
  [at |-> "idle", input |-> 0, result |-> [outcome |-> "PASS", text |-> 0],
   tool |-> NoTool, answer |-> "none"]

\* An AI evaluator may word the same verdict differently; a deterministic one
\* reads its verdict off the content.
Results == [outcome : Verdicts, text : 0..1]
evaluateDeterministically(c) ==
    [outcome |-> IF c = 1 THEN "PASS" ELSE "FAIL", text |-> 0]
Evaluations(mode, c) ==
    IF mode = "DETERMINISTIC" THEN {evaluateDeterministically(c)} ELSE Results

ExecutorInit ==
    /\ contract \in [kind : Kinds, mode : Modes]
    /\ versions = <<>>
    /\ evaluation = <<>>
    /\ outcome = <<>>
    /\ toolRow = NoTool
    /\ effects = <<>>
    /\ attempt = 1
    /\ exec = [r \in Attempts |-> NotStarted]

----------------------------------------------------------------------------
(* The artifact store. *)

AnyVersion(held, c) == held /= <<>>

\* createArtifactInTransaction on an existing artifact: the version with this
\* content is returned, anything else is a conflict.
matchingVersion(held, c) == \E i \in DOMAIN held : held[i] = c
createArtifact(held, c) == IF held = <<>> THEN <<c>> ELSE held
Accepted(held, c) == held = <<>> \/ matchingVersion(held, c)

\* The producing invocation completes and stores its output.
Produce(c) ==
    /\ versions = <<>>
    /\ versions' = createArtifact(versions, c)
    /\ UNCHANGED <<contract, evaluation, outcome, toolRow, effects, attempt, exec>>

\* A caller that last saw version "expected" writes a new one; a call that lost
\* a race changes nothing.  The package offers it, no handler calls it yet.
createVersion(expected, c) ==
    /\ versions /= <<>>
    /\ expected \in DOMAIN versions
    /\ expected = Len(versions) /\ Last(versions) /= c
    /\ Len(versions) < MaxVersions
    /\ versions' = Append(versions, c)
    /\ UNCHANGED <<contract, evaluation, outcome, toolRow, effects, attempt, exec>>

----------------------------------------------------------------------------
(* Attempts.  The worker drops what an attempt without the lease reports;   *)
(* a retryable failure or a lost lease hands the invocation to the next.    *)

Goto(r, e) == exec' = [exec EXCEPT ![r] = e]
Answer(r, a) == Goto(r, [exec[r] EXCEPT !.at = "done", !.answer = a])

\* The outcomes that leave the invocation to another attempt.
Retries == {"RETRY"}

NextAttempt ==
    /\ attempt < MaxRuns
    /\ exec[attempt].at /= "idle"
    /\ exec[attempt].at = "done" => exec[attempt].answer \in Retries
    /\ attempt' = attempt + 1
    /\ UNCHANGED <<contract, versions, evaluation, outcome, toolRow, effects, exec>>

\* A database or provider error at any point: the executor answers that the
\* attempt may be repeated.
ExecutionFails(r) ==
    /\ exec[r].at \notin {"idle", "done"}
    /\ Answer(r, "RETRY")
    /\ UNCHANGED <<contract, versions, evaluation, outcome, toolRow, effects, attempt>>

----------------------------------------------------------------------------
(* EvaluatorInvocationExecutor.execute *)

\* The newest version of the artifact a DATA dependency binds; the plan's user
\* owns it, so it is always readable.
resolveInputBindings == Len(versions)
readVersion(v) == versions[v]
resolveArtifacts == readVersion(resolveInputBindings)
buildDependencyContext == readVersion(resolveInputBindings)

\* The criteria of an invocation are decided in one mode.
singleMode == contract.mode

\* Contract checks, then resolveArtifacts: the newest version of the artifact.
\* A criterion a human decides is never judged here, and a missing input ends
\* the invocation.
StartEvaluation(r) ==
    /\ contract.kind = "EVALUATOR" /\ r = attempt /\ exec[r].at = "idle"
    /\ IF singleMode = "HUMAN_APPROVAL" \/ versions = <<>>
       THEN Answer(r, "TERMINAL")
       ELSE Goto(r, [NotStarted EXCEPT !.at = "resolved", !.input = resolveArtifacts])
    /\ UNCHANGED <<contract, versions, evaluation, outcome, toolRow, effects, attempt>>

\* Places of evaluation rows, in order of creation.
OwnRows(r) == {i \in DOMAIN evaluation : evaluation[i].run = r}
OtherRows(r) == {i \in DOMAIN evaluation : evaluation[i].run /= r}
\* The evaluation this attempt must repeat: its own, else the newest of another.
previousEvaluation(r) == IF OwnRows(r) /= {} THEN OwnRows(r) ELSE OtherRows(r)
evaluationFromStored(rows) == evaluation[Max(rows)]

\* A verdict was recorded before: it is replayed if the input is the same.
Replay(r) ==
    LET prior == previousEvaluation(r) IN
    /\ exec[r].at = "resolved" /\ prior /= {}
    /\ IF evaluationFromStored(prior).input /= exec[r].input
       THEN Answer(r, "TERMINAL")
       ELSE Goto(r, [exec[r] EXCEPT !.at = "evaluated", !.result = evaluationFromStored(prior).result])
    /\ UNCHANGED <<contract, versions, evaluation, outcome, toolRow, effects, attempt>>

\* No verdict yet: the criteria are decided, or the model is asked, which may
\* answer something that is no evaluation of these criteria.
Evaluate(r) ==
    /\ exec[r].at = "resolved" /\ previousEvaluation(r) = {}
    /\ \/ \E v \in Evaluations(singleMode, exec[r].input) :
            Goto(r, [exec[r] EXCEPT !.at = "evaluated", !.result = v])
       \/ /\ singleMode = "AI_EVALUATOR"
          /\ Answer(r, "TERMINAL")
    /\ UNCHANGED <<contract, versions, evaluation, outcome, toolRow, effects, attempt>>

RowOf(r) == [run |-> r, input |-> exec[r].input, result |-> exec[r].result]

\* persistResult: one row per run; a row already there must say the same.
persistResult(r) ==
    /\ exec[r].at = "evaluated"
    /\ IF OwnRows(r) = {}
       THEN evaluation' = Append(evaluation, RowOf(r))
            /\ Goto(r, [exec[r] EXCEPT !.at = "persisted"])
       ELSE UNCHANGED evaluation
            /\ IF \A i \in OwnRows(r) : evaluation[i] = RowOf(r)
               THEN Goto(r, [exec[r] EXCEPT !.at = "persisted"])
               ELSE Answer(r, "TERMINAL")
    /\ UNCHANGED <<contract, versions, outcome, toolRow, effects, attempt>>

\* ensureOutcomeArtifact, then the answer to the worker.
ensureOutcomeArtifact(r) ==
    /\ exec[r].at = "persisted"
    /\ outcome' = createArtifact(outcome, exec[r].result)
    /\ Answer(r, IF Accepted(outcome, exec[r].result)
                 THEN exec[r].result.outcome ELSE "TERMINAL")
    /\ UNCHANGED <<contract, versions, evaluation, toolRow, effects, attempt>>

----------------------------------------------------------------------------
(* VimlaInvocationExecutor.execute *)

\* A completed tool is not repeated; otherwise the planner is asked, with the
\* dependencies' artifacts in its context.
StartTool(r) ==
    /\ contract.kind = "VIMLA" /\ r = attempt /\ exec[r].at = "idle"
    /\ IF toolRow /= NoTool THEN Answer(r, "REPLAYED")
       ELSE IF versions = <<>> THEN Answer(r, "TERMINAL")
       ELSE Goto(r, [NotStarted EXCEPT !.at = "planning", !.input = buildDependencyContext])
    /\ UNCHANGED <<contract, versions, evaluation, outcome, toolRow, effects, attempt>>

\* The planner's answer: one tool; an answer, which is enough for a read-only
\* invocation; or a question, a refusal, several tools or one that needs
\* a confirmation, which end it.
Planned(r) ==
    /\ exec[r].at = "planning"
    /\ \/ \E t \in ExecTools : Goto(r, [exec[r] EXCEPT !.at = "chosen", !.tool = t])
       \/ Answer(r, "NO_ACTION")
       \/ Answer(r, "TERMINAL")
    /\ UNCHANGED <<contract, versions, evaluation, outcome, toolRow, effects, attempt>>

\* executeToolExactlyOnce is one transaction: the row, the tool's effect and
\* COMPLETED become visible together, and a row found, or met through the
\* unique key, means the tool has run.
executeToolExactlyOnce(r) ==
    /\ exec[r].at = "chosen"
    /\ IF toolRow = NoTool
       THEN toolRow' = exec[r].tool /\ effects' = Append(effects, exec[r].tool)
       ELSE UNCHANGED <<toolRow, effects>>
    /\ Answer(r, "PASS")
    /\ UNCHANGED <<contract, versions, evaluation, outcome, attempt>>

----------------------------------------------------------------------------
ExecutorNext ==
    \/ \E c \in 1..2 : Produce(c)
    \/ \E e \in 1..MaxVersions, c \in 1..2 : createVersion(e, c)
    \/ NextAttempt
    \/ \E r \in Attempts :
        \/ ExecutionFails(r) \/ StartEvaluation(r) \/ Replay(r) \/ Evaluate(r)
        \/ persistResult(r) \/ ensureOutcomeArtifact(r)
        \/ StartTool(r) \/ Planned(r) \/ executeToolExactlyOnce(r)

\* Whatever order an attempt and the zombie of an earlier one finish in, all
\* attempts that report a verdict report the one of the outcome artifact, which
\* is the evaluation recorded for them and was given on the input they
\* resolved; and a Vimla invocation that reports success has run exactly one
\* tool, the one on record.
AttemptsAgree ==
    \A r \in Attempts :
        LET e == exec[r] IN
        /\ contract.kind = "EVALUATOR" /\ e.answer \in Verdicts =>
             /\ outcome = <<e.result>> /\ e.answer = e.result.outcome
             /\ \E i \in DOMAIN evaluation : OwnRows(r) = {i} /\ evaluation[i] = RowOf(r)
        /\ contract.kind = "VIMLA" /\ e.answer \in {"PASS", "REPLAYED"} =>
             effects = <<toolRow>>
=============================================================================

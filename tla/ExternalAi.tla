----------------------------- MODULE ExternalAi -----------------------------
(***************************************************************************)
(* The paid turns of a plan's invocations: ExternalAiInvocationExecutor    *)
(* and AiArtifactRecovery (apps/worker/src), every transaction a step of   *)
(* its own.  A worker executes one run of an invocation; the orchestrator  *)
(* (module Orchestration) starts another run after a crash, after a        *)
(* retryable failure or a wait for allowance, and, when a run has stalled, *)
(* while its executor still lives.                                         *)
(***************************************************************************)
EXTENDS AiLedger

CONSTANTS
    Invs,               \* the plan's invocations of external models
    MaxTurns,           \* maxProviderTurnsPerInvocation
    MaxPaid,            \* maxPaidInvocationsPerPlan
    MaxSettled,         \* maxSettledCostMicroRubPerPlan
    MaxCommitted,       \* maxCommittedCostMicroRubPerPlan
    Workers,
    MaxStarts,          \* bound: runs of one invocation
    MaxDeaths           \* bound: crashes of workers

ASSUME ExternalAiAssumption ==
    /\ MaxTurns \in Nat \ {0} /\ MaxPaid \in Nat \ {0}
    /\ MaxSettled \in Nat \ {0} /\ MaxCommitted \in Nat \ {0}
    /\ MaxStarts \in Nat /\ MaxDeaths \in Nat
    /\ Invs \X (0..MaxTurns - 1) \subseteq Requests

VARIABLES
    exec,       \* what each worker executes
    funds,      \* what each worker read last of the user's capacity
    running,    \* invocations whose status and plan are RUNNING
    starts,     \* runs started so far
    overlap,    \* invocations that two workers have executed at a time
    artifact,   \* the turn whose text is the invocation's artifact, or NoArtifact
    paidCalls,  \* how often the provider was asked for a turn
    deaths

turnVars == <<exec, funds, running, starts, overlap, artifact, paidCalls, deaths>>

NoArtifact == MaxTurns

Free == [pc |-> "idle", inv |-> "none", idx |-> 0, seen |-> <<>>,
         res |-> [kind |-> "none", cost |-> 0]]

TurnsInit ==
    /\ exec = [w \in Workers |-> Free]
    /\ funds = [w \in Workers |-> 0]
    /\ running \in SUBSET Invs
    /\ starts = [i \in Invs |-> 0]
    /\ overlap = {}
    /\ artifact = [i \in Invs |-> NoArtifact]
    /\ paidCalls = [r \in Requests |-> 0]
    /\ deaths = 0

ExecAt(w, pc) == exec[w].pc = pc

Row(w) == <<exec[w].inv, exec[w].idx>>

Executing(r) == \E w \in Workers : ~ExecAt(w, "idle") /\ exec[w].inv = r[1]

Goto(w, pc) == exec' = [exec EXCEPT ![w].pc = pc]

\* The run returns.  A final result ends the invocation.
Return(w, final) ==
    /\ exec' = [exec EXCEPT ![w] = Free]
    /\ running' = IF final THEN running \ {exec[w].inv} ELSE running

TurnRest == UNCHANGED <<busy, rec, stalls, starts, overlap, deaths, funds>>

\* Row and turn in one transaction.
Both(r, row, trn) == req' = [req EXCEPT ![r] = row] /\ turn' = [turn EXCEPT ![r] = trn]

-----------------------------------------------------------------------------
(* A run begins with what earlier runs left: loadTurnHistory, read once.   *)

Paid(r) == req[r].fin = "SETTLED"

HistoryVerdict(r) ==
    CASE req[r].status = "NONE" -> "admit"
      [] req[r].status = "RECONCILIATION_REQUIRED" \/ turn[r].status = "RECONCILIATION_REQUIRED"
           -> "final"
      [] req[r].status = "SUCCEEDED" /\ turn[r].calls -> "tools"
      [] req[r].status = "SUCCEEDED" /\ ~turn[r].calls -> "emit"
      [] turn[r].bad /\ Paid(r) -> "final"
      [] req[r].status = "CREATED" /\ req[r].fin = "NONE" -> "admit"
      [] req[r].status \in InProgress -> "retry"
      [] OTHER -> "final"

\* execute: a stalled run may be followed by another while it still executes, or
\* while the reconciler is at its turn.
execute(w, i) ==
    /\ ExecAt(w, "idle") /\ i \in running /\ starts[i] < MaxStarts
    /\ LET alive == \E v \in Workers : exec[v].inv = i
           meets == alive \/ (rec.pc # "idle" /\ rec.r[1] = i)
       IN /\ meets => stalls < MaxStalls
          /\ stalls' = IF meets THEN stalls + 1 ELSE stalls
          /\ overlap' = IF alive THEN overlap \cup {i} ELSE overlap
    /\ starts' = [starts EXCEPT ![i] = @ + 1]
    /\ exec' = [exec EXCEPT ![w] =
           [Free EXCEPT !.pc = "history", !.inv = i,
                        !.seen = [k \in 0..MaxTurns - 1 |-> HistoryVerdict(<<i, k>>)]]]
    /\ UNCHANGED <<req, turn, resv, busy, rec, running, artifact, paidCalls, deaths, funds>>

WalkHistory(w) ==
    /\ ExecAt(w, "history")
    /\ CASE exec[w].seen[exec[w].idx] = "admit" -> Goto(w, "begin") /\ running' = running
         [] exec[w].seen[exec[w].idx] = "emit" -> Goto(w, "emit") /\ running' = running
         [] exec[w].seen[exec[w].idx] = "tools" -> Goto(w, "tools") /\ running' = running
         [] exec[w].seen[exec[w].idx] = "retry" -> Return(w, FALSE)
         [] OTHER -> Return(w, TRUE)
    /\ UNCHANGED <<req, turn, resv, artifact, paidCalls>> /\ TurnRest

\* loadInvocation, listTools or buildMessages fails before the history is
\* walked: a contract of the plan is broken (final), or it may be tried again.
LoadFails(w) ==
    /\ ExecAt(w, "history") /\ exec[w].idx = 0
    /\ \E final \in BOOLEAN : Return(w, final)
    /\ UNCHANGED <<req, turn, resv, artifact, paidCalls>> /\ TurnRest

\* The model is gone, unpriced, unbounded or not what the plan was made with.
ModelUnresolved(w) ==
    /\ ExecAt(w, "begin")
    /\ \E final \in BOOLEAN : Return(w, final)
    /\ UNCHANGED <<req, turn, resv, artifact, paidCalls>> /\ TurnRest

-----------------------------------------------------------------------------
(* Admission of a turn, under the lock of the plan's row.                  *)

Turns == Invs \X (0..MaxTurns - 1)

Existing == {r \in Turns : turn[r].status # "NONE"}

\* getPlanSpendState: reservations by the request's link, and the estimate of
\* a turn that is admitted but has no reservation yet.
Settled(r) == IF req[r].linked /\ resv[r].status = "SETTLED" THEN resv[r].amount ELSE 0

Admitted(r) == turn[r].status = "CREATED" /\ req[r].status = "CREATED" /\ req[r].fin = "NONE"

Open(r) == IF req[r].linked /\ resv[r].status = "ACTIVE" THEN resv[r].est
           ELSE IF ~req[r].linked /\ Admitted(r) THEN req[r].est ELSE 0

PlanSettled == MapThenSumSet(Settled, Existing)

PlanCommitted(without) == PlanSettled + MapThenSumSet(Open, Existing \ without)

PaidInvs == {r[1] : r \in Existing}

WithinPlan(est, without) ==
    PlanSettled + est <= MaxSettled /\ PlanCommitted(without) + est <= MaxCommitted

Left(cap, used) == IF used < cap THEN cap - used ELSE 0

PlanAvailable == Min({Left(MaxSettled, PlanSettled), Left(MaxCommitted, PlanCommitted({}))})

\* existingProviderTurnOutcome, where it is not the history's verdict.
ExistingOutcome(r) ==
    IF Admitted(r) \/ (req[r].status = "CREATED" /\ req[r].fin = "NONE")
    THEN IF WithinPlan(req[r].est, IF Admitted(r) THEN {r} ELSE {})
            /\ Cardinality(PaidInvs) <= MaxPaid
         THEN "new" ELSE "final"
    ELSE HistoryVerdict(r)

NewOutcome(i, available) ==
    IF (i \notin PaidInvs /\ Cardinality(PaidInvs) >= MaxPaid) \/ PlanAvailable = 0
    THEN "final"
    ELSE IF Funded(Min({available, PlanAvailable})) # 0 THEN "create"
    ELSE IF Funded(available) # 0 THEN "final"
    ELSE "wait"

\* getSpendableUsageState is read before the plan is locked.
ReadCapacity(w) ==
    /\ ExecAt(w, "begin")
    /\ funds' = [funds EXCEPT ![w] = Available]
    /\ Goto(w, "admit")
    /\ UNCHANGED <<ledgerVars, running, starts, overlap, artifact, paidCalls, deaths>>

beginOrReuseTurn(w) ==
    /\ ExecAt(w, "admit")
    /\ LET r == Row(w)
           outcome == IF turn[r].status # "NONE" THEN ExistingOutcome(r)
                      ELSE NewOutcome(exec[w].inv, funds[w])
       IN /\ CASE outcome = "new" -> Goto(w, "resume") /\ running' = running
               [] outcome = "create" -> Goto(w, "reserve") /\ running' = running
               [] outcome \in {"emit", "tools"} -> Goto(w, outcome) /\ running' = running
               [] outcome \in {"wait", "retry"} -> Return(w, FALSE)
               [] OTHER -> Return(w, TRUE)
          /\ IF outcome = "create"
             THEN Both(r, [NoRow EXCEPT !.status = "CREATED",
                                        !.est = Funded(Min({funds[w], PlanAvailable}))],
                       [NoTurn EXCEPT !.status = "CREATED"])
             ELSE UNCHANGED <<req, turn>>
    /\ UNCHANGED <<resv, artifact, paidCalls>> /\ TurnRest

\* The request is too large for its context window or its cost limit.
AdmissionFails(w) ==
    /\ ExecAt(w, "begin") \/ ExecAt(w, "admit")
    /\ Return(w, TRUE)
    /\ UNCHANGED <<req, turn, resv, artifact, paidCalls>> /\ TurnRest

\* A turn that waited is created again, after the lock is gone.
ResumeTurn(w) ==
    /\ ExecAt(w, "resume")
    /\ turn' = [turn EXCEPT ![Row(w)].status = IF @ \in UsageWaiting THEN "CREATED" ELSE @]
    /\ Goto(w, "reserve")
    /\ UNCHANGED <<req, resv, running, artifact, paidCalls>> /\ TurnRest

-----------------------------------------------------------------------------
(* The turn.                                                               *)

ReserveForTurn(w) ==
    /\ ExecAt(w, "reserve")
    /\ LET r == Row(w) IN
       IF Reservable(r, req[r].est)
       THEN reserveUsage(r, req[r].est) /\ Goto(w, "link") /\ UNCHANGED <<req, turn, running>>
       ELSE IF resv[r].status = "NONE"
       THEN /\ turn' = [turn EXCEPT ![r].status =
                          IF ActiveReserved THEN "WAITING_FOR_USAGE_CAPACITY"
                          ELSE "BLOCKED_INSUFFICIENT_USAGE"]
            /\ Return(w, FALSE) /\ UNCHANGED <<req, resv>>
       ELSE /\ Both(r, [req[r] EXCEPT !.status = "FAILED", !.fin = "NONE"],     \* a conflict
                    [turn[r] EXCEPT !.status = "FAILED_PRE_PROVIDER"])
            /\ Return(w, TRUE) /\ resv' = resv
    /\ UNCHANGED <<artifact, paidCalls>> /\ TurnRest

\* markPreProviderFailure: reserving fails otherwise, with nothing reserved.
ReservationFails(w) ==
    /\ ExecAt(w, "reserve") /\ resv[Row(w)].status = "NONE"
    /\ Both(Row(w), [req[Row(w)] EXCEPT !.status = "FAILED", !.fin = "NONE"],
            [turn[Row(w)] EXCEPT !.status = "FAILED_PRE_PROVIDER"])
    /\ Return(w, FALSE)
    /\ UNCHANGED <<resv, artifact, paidCalls>> /\ TurnRest

MarkTurn(w, from, to, row, trn) ==
    /\ ExecAt(w, from)
    /\ Both(Row(w), row, [turn[Row(w)] EXCEPT !.status = trn])
    /\ Goto(w, to)
    /\ UNCHANGED <<resv, running, artifact>> /\ TurnRest

LinkReservation(w) ==
    /\ MarkTurn(w, "link", "check", [req[Row(w)] EXCEPT !.status = "RESERVED",
                                        !.fin = "RESERVED", !.linked = TRUE], "RESERVED")
    /\ UNCHANGED paidCalls

\* isInvocationRunning decides between the provider and giving back.
isInvocationRunning(i) == i \in running

CheckRunning(w) ==
    /\ ExecAt(w, "check")
    /\ Goto(w, IF isInvocationRunning(exec[w].inv) THEN "start" ELSE "giveBack")
    /\ UNCHANGED <<req, turn, resv, running, artifact, paidCalls>> /\ TurnRest

callProvider(w) ==
    /\ MarkTurn(w, "start", "asked", [req[Row(w)] EXCEPT !.status = "PROVIDER_STARTED"],
                "PROVIDER_STARTING")
    /\ paidCalls' = [paidCalls EXCEPT ![Row(w)] = @ + 1]

TurnStreams(w) ==
    /\ MarkTurn(w, "asked", "streams", [req[Row(w)] EXCEPT !.status = "STREAMING"],
                "PROVIDER_IN_FLIGHT")
    /\ UNCHANGED paidCalls

\* The configured provider is another one, or the provider certainly refused.
TurnRejected(w) ==
    /\ exec[w].pc \in {"start", "asked", "streams"}
    /\ Goto(w, "giveBack")
    /\ UNCHANGED <<req, turn, resv, running, artifact, paidCalls>> /\ TurnRest

HeldTurn(row, cost) ==
    [row EXCEPT !.status = "RECONCILIATION_REQUIRED", !.fin = "HOLD", !.text = TRUE,
                !.cost = IF cost = 0 THEN @ ELSE cost]

\* markReconciliation and a final result.
HoldTurn(w, cost) ==
    /\ Both(Row(w), HeldTurn(req[Row(w)], cost),
            [turn[Row(w)] EXCEPT !.status = "RECONCILIATION_REQUIRED"])
    /\ Return(w, TRUE)

releaseReservationAfterSafeFailure(w) ==
    /\ ExecAt(w, "giveBack")
    /\ IF Releasable(Row(w))
       THEN releaseUsage(Row(w)) /\ Goto(w, "givenBack") /\ UNCHANGED <<req, turn, running>>
       ELSE resv' = resv /\ HoldTurn(w, 0)
    /\ UNCHANGED <<artifact, paidCalls>> /\ TurnRest

MarkGivenBack(w) ==
    /\ ExecAt(w, "givenBack")
    /\ Both(Row(w), [req[Row(w)] EXCEPT !.status = "FAILED", !.fin = "RELEASED"],
            [turn[Row(w)] EXCEPT !.status = "FAILED_SAFE_PROVIDER"])
    /\ Return(w, TRUE)
    /\ UNCHANGED <<resv, artifact, paidCalls>> /\ TurnRest

\* Aborted, ambiguous, without usage, above the token caps or without a price:
\* held with no cost.
TurnUnknown(w) ==
    /\ exec[w].pc \in {"asked", "streams"}
    /\ HoldTurn(w, 0)
    /\ UNCHANGED <<resv, artifact, paidCalls>> /\ TurnRest

\* The answer has usage: a final text, tool calls, unreadable tool calls, or a
\* text that was cut off.
TurnAnswers(w) ==
    /\ ExecAt(w, "streams")
    /\ \E kind \in {"text", "calls", "bad"}, cost \in 1..req[Row(w)].est + 1 :
           exec' = [exec EXCEPT ![w].res = [kind |-> kind, cost |-> cost],
                                ![w].pc = "answered"]
    /\ UNCHANGED <<req, turn, resv, running, artifact, paidCalls>> /\ TurnRest

\* A cost above the estimate is held; otherwise usage and answer are stored.
StoreUsage(w) ==
    /\ ExecAt(w, "answered")
    /\ IF exec[w].res.cost > req[Row(w)].est
       THEN HoldTurn(w, exec[w].res.cost)
       ELSE /\ Both(Row(w), [req[Row(w)] EXCEPT !.cost = exec[w].res.cost, !.text = TRUE],
                    [turn[Row(w)] EXCEPT !.status = "USAGE_DURABLE",
                         !.calls = exec[w].res.kind = "calls",
                         !.bad = exec[w].res.kind = "bad"])
            /\ Goto(w, "durable") /\ running' = running
    /\ UNCHANGED <<resv, artifact, paidCalls>> /\ TurnRest

MarkSettling(w) ==
    /\ MarkTurn(w, "durable", "settle", req[Row(w)], "SETTLING")
    /\ UNCHANGED paidCalls

SettleTurn(w) ==
    /\ ExecAt(w, "settle")
    /\ IF Settleable(Row(w), exec[w].res.cost)
       THEN settleUsage(Row(w), exec[w].res.cost) /\ Goto(w, "finish")
            /\ UNCHANGED <<req, turn, running>>
       ELSE resv' = resv /\ HoldTurn(w, exec[w].res.cost)
    /\ UNCHANGED <<artifact, paidCalls>> /\ TurnRest

FinishTurn(w) ==
    /\ ExecAt(w, "finish")
    /\ Both(Row(w), [req[Row(w)] EXCEPT
                       !.status = IF exec[w].res.kind = "bad" THEN "FAILED" ELSE "SUCCEEDED",
                       !.fin = "SETTLED"],
            [turn[Row(w)] EXCEPT !.status = "SUCCEEDED"])
    /\ IF exec[w].res.kind = "bad" \/ ~isInvocationRunning(exec[w].inv)
       THEN Return(w, TRUE)
       ELSE Goto(w, IF exec[w].res.kind = "text" THEN "emit" ELSE "tools") /\ running' = running
    /\ UNCHANGED <<resv, artifact, paidCalls>> /\ TurnRest

\* ensureToolResults, and on to the next turn or past the last.
ensureToolResults(w) ==
    /\ ExecAt(w, "tools")
    /\ IF ~turn[Row(w)].results /\ ~isInvocationRunning(exec[w].inv)
       THEN Return(w, TRUE) /\ turn' = turn
       ELSE /\ turn' = [turn EXCEPT ![Row(w)].results = TRUE]
            /\ IF exec[w].idx + 1 = MaxTurns
               THEN Return(w, TRUE)
               ELSE /\ exec' = [exec EXCEPT ![w].idx = @ + 1,
                                 ![w].pc = IF exec[w].seen[exec[w].idx] = "tools"
                                           THEN "history" ELSE "begin"]
                    /\ running' = running
    /\ UNCHANGED <<req, resv, artifact, paidCalls>> /\ TurnRest

\* createArtifact: the same text is accepted again, another is a conflict.
emitArtifact(w) ==
    /\ ExecAt(w, "emit")
    /\ artifact' = [artifact EXCEPT ![exec[w].inv] = IF @ = NoArtifact THEN exec[w].idx ELSE @]
    /\ Return(w, TRUE)
    /\ UNCHANGED <<req, turn, resv, paidCalls>> /\ TurnRest

-----------------------------------------------------------------------------
(* Fault: recovery takes the latest turn that has a text, finished or not. *)
RecoverAnyText(i) ==
    LET final == {k \in 0..MaxTurns - 1 : req[<<i, k>>].text /\ ~turn[<<i, k>>].calls}
    IN /\ artifact[i] = NoArtifact /\ final # {}
       /\ artifact' = [artifact EXCEPT ![i] = Max(final)]
       /\ UNCHANGED <<req, turn, resv, exec, running, paidCalls>> /\ TurnRest

\* AiArtifactRecovery: the latest successful turn without tool calls.
recover(i) ==
    LET final == {k \in 0..MaxTurns - 1 :
                    /\ req[<<i, k>>].status = "SUCCEEDED" /\ req[<<i, k>>].text
                    /\ ~turn[<<i, k>>].calls /\ ~turn[<<i, k>>].bad}
    IN /\ artifact[i] = NoArtifact /\ final # {}
       /\ artifact' = [artifact EXCEPT ![i] = Max(final)]
       /\ UNCHANGED <<req, turn, resv, exec, running, paidCalls>> /\ TurnRest

StopInvocation(i) ==
    /\ i \in running
    /\ running' = running \ {i}
    /\ UNCHANGED <<req, turn, resv, exec, artifact, paidCalls>> /\ TurnRest

WorkerDies(w) ==
    /\ ~ExecAt(w, "idle") /\ deaths < MaxDeaths
    /\ deaths' = deaths + 1
    /\ exec' = [exec EXCEPT ![w] = Free]
    /\ UNCHANGED <<ledgerVars, funds, running, starts, overlap, artifact, paidCalls>>

ExecStep(w) ==
    \/ WalkHistory(w) \/ LoadFails(w) \/ ModelUnresolved(w) \/ ReadCapacity(w)
    \/ beginOrReuseTurn(w) \/ AdmissionFails(w)
    \/ ResumeTurn(w) \/ ReserveForTurn(w) \/ ReservationFails(w) \/ LinkReservation(w)
    \/ CheckRunning(w) \/ callProvider(w) \/ TurnStreams(w) \/ TurnRejected(w)
    \/ releaseReservationAfterSafeFailure(w) \/ MarkGivenBack(w) \/ TurnUnknown(w)
    \/ TurnAnswers(w) \/ StoreUsage(w) \/ MarkSettling(w) \/ SettleTurn(w)
    \/ FinishTurn(w) \/ ensureToolResults(w) \/ emitArtifact(w)

TurnsReconcile ==
    \/ \E r \in Turns : reconcile(r, Executing(r))
    \/ ReconcilerStep

TurnsNext ==
    \/ \E w \in Workers : (\E i \in Invs : execute(w, i)) \/ ExecStep(w) \/ WorkerDies(w)
    \/ \E i \in Invs : recover(i) \/ StopInvocation(i)
    \/ (TurnsReconcile \/ OthersSpend) /\ UNCHANGED turnVars

-----------------------------------------------------------------------------
\* As long as one worker at a time executes an invocation, no retry, crash or
\* reconciliation makes it ask the provider twice for one turn, and its
\* artifact is the text of a turn that asked for no tool and was paid.
TurnsArePaidOnce ==
    \A i \in Invs \ overlap :
        /\ \A k \in 0..MaxTurns - 1 : paidCalls[<<i, k>>] <= 1
        /\ artifact[i] # NoArtifact =>
               /\ resv[<<i, artifact[i]>>].status = "SETTLED"
               /\ ~turn[<<i, artifact[i]>>].calls

\* "The plan row lock below is the authority for plan-level spend admission":
\* what a plan has spent and reserved stays within its committed limit.
PlanSpendBounded == MapThenSumSet(Spent, Turns) <= MaxCommitted
=============================================================================

------------------------------ MODULE AiLedger ------------------------------
(***************************************************************************)
(* The rows every paid AI request is made of, and the job that finishes    *)
(* what a dead process left behind: ai_request, ai_provider_turn and       *)
(* usage_reservation, and AiRequestReconciler (packages/ai).               *)
(*                                                                         *)
(* The billing engine is modelled in UsageBilling; here it is what its     *)
(* callers see: one reservation per request, reserved, settled and         *)
(* released at most once.  Costs are in units of the cheapest useful       *)
(* answer.  A request without a turn is a message of a chat.               *)
(***************************************************************************)
EXTENDS Naturals, FiniteSets, FiniteSetsExt

CONSTANTS
    Requests,       \* request ids: <<chat or invocation, turn index>>
    Allowance,      \* what the user may still spend
    MinCost,        \* estimate of the minimum useful answer
    PrefCost,       \* estimate of the preferred answer
    MaxStalls       \* bound: how often two processes work on one request

ASSUME LedgerAssumption ==
    /\ Allowance \in Nat /\ MaxStalls \in Nat
    /\ MinCost \in Nat \ {0} /\ PrefCost \in Nat /\ MinCost <= PrefCost

VARIABLES
    req,        \* ai_request
    turn,       \* ai_provider_turn
    resv,       \* usage_reservation
    busy,       \* other requests of the user hold all that is left
    rec,        \* the reconciler at work on one request
    stalls

ledgerVars == <<req, turn, resv, busy, rec, stalls>>

NoRow == [status |-> "NONE", fin |-> "NONE", est |-> 0, cost |-> 0, text |-> FALSE,
          linked |-> FALSE]

NoTurn == [status |-> "NONE", calls |-> FALSE, results |-> FALSE, bad |-> FALSE]

NoReservation == [status |-> "NONE", est |-> 0, amount |-> 0]

InProgress == {"CREATED", "RESERVED", "PROVIDER_STARTED", "STREAMING"}

Idle == [pc |-> "idle"]

LedgerInit ==
    /\ req = [r \in Requests |-> NoRow]
    /\ turn = [r \in Requests |-> NoTurn]
    /\ resv = [r \in Requests |-> NoReservation]
    /\ busy \in BOOLEAN
    /\ rec = Idle
    /\ stalls = 0

-----------------------------------------------------------------------------
(* The billing engine, as its callers see it.                              *)

Spent(r) == IF resv[r].status = "ACTIVE" THEN resv[r].est ELSE resv[r].amount

\* getSpendableUsageState
Available == IF busy THEN 0
             ELSE LET spent == MapThenSumSet(Spent, Requests)
                  IN IF spent > Allowance THEN 0 ELSE Allowance - spent

ActiveReserved == busy \/ \E r \in Requests : resv[r].status = "ACTIVE"

\* A second call finds the reservation; one that is no longer active, or of
\* another amount, is a conflict.
Reservable(r, est) ==
    IF resv[r].status = "NONE" THEN est <= Available
    ELSE resv[r].status = "ACTIVE" /\ resv[r].est = est

reserveUsage(r, est) ==
    IF resv[r].status = "NONE"
    THEN resv' = [resv EXCEPT ![r] = [status |-> "ACTIVE", est |-> est, amount |-> 0]]
    ELSE resv' = resv

Settleable(r, cost) ==
    \/ resv[r].status = "ACTIVE"
    \/ resv[r].status = "SETTLED" /\ resv[r].amount = cost

settleUsage(r, cost) == resv' = [resv EXCEPT ![r].status = "SETTLED", ![r].amount = cost]

Releasable(r) == resv[r].status \in {"ACTIVE", "RELEASED"}

releaseUsage(r) == resv' = [resv EXCEPT ![r].status = "RELEASED"]

\* resolveAiExecutionBudget: the largest estimate up to the preferred one that
\* is affordable, or 0 (INSUFFICIENT_USAGE).
Funded(available) ==
    IF MinCost <= available THEN Max({est \in MinCost..PrefCost : est <= available}) ELSE 0

\* The user's other requests reserve and settle.
OthersSpend ==
    /\ busy' = ~busy
    /\ UNCHANGED <<req, turn, resv, rec, stalls>>

-----------------------------------------------------------------------------
(* AiRequestReconciler.  It reads a batch of old rows, looks for each      *)
(* one's reservation, and writes what it decided without looking again.    *)
(* The batch is large enough for all that is old.                          *)

(* Fault: a request that died before it was funded is not looked for. *)
PreProviderFunded == {"RESERVED"}

PreProvider == {"CREATED", "RESERVED"}

PostProvider == {"PROVIDER_STARTING", "PROVIDER_IN_FLIGHT", "USAGE_DURABLE", "SETTLING",
                 "PROVIDER_STARTED", "STREAMING", "RECONCILIATION_REQUIRED"}

\* A turn is found by its own status, a request without one by the request's.
StatusOf(row, trn) == IF trn.status = "NONE" THEN row.status ELSE trn.status

\* Only a row older than the cutoff is read; a row of a living process gets
\* that old when the process stalls.
reconcile(r, alive) ==
    /\ rec.pc = "idle"
    /\ StatusOf(req[r], turn[r]) \in PreProvider \cup PostProvider
    /\ alive => stalls < MaxStalls
    /\ stalls' = IF alive THEN stalls + 1 ELSE stalls
    /\ rec' = [pc |-> "found", r |-> r, row |-> req[r], trn |-> turn[r]]
    /\ UNCHANGED <<req, turn, resv, busy>>

\* reconcileProviderTurn and reconcileLegacyRequest
Remedy(row, trn, rv) ==
    CASE row.cost # 0 /\ row.cost <= rv.est /\ rv.status = "ACTIVE" -> "settle"
      [] row.cost # 0 /\ row.cost <= rv.est /\ rv.status = "SETTLED" -> "finish"
      [] row.cost = 0 /\ StatusOf(row, trn) \in PreProvider /\ rv.status = "ACTIVE" -> "release"
      [] row.cost = 0 /\ StatusOf(row, trn) \in PreProvider
           /\ rv.status \in {"RELEASED", "NONE"} -> "fail"
      [] OTHER -> "hold"

findReservation ==
    /\ rec.pc = "found"
    /\ rec' = [pc |-> "decided", r |-> rec.r, row |-> rec.row, trn |-> rec.trn,
               rv |-> resv[rec.r], do |-> Remedy(rec.row, rec.trn, resv[rec.r])]
    /\ UNCHANGED <<req, turn, resv, busy, stalls>>

Decided(do) == rec.pc = "decided" /\ rec.do = do

\* A refused call is counted as an error: the next scan tries again.
reconcileDurableUsage ==
    /\ Decided("settle")
    /\ IF Settleable(rec.r, rec.row.cost)
       THEN settleUsage(rec.r, rec.row.cost) /\ rec' = [rec EXCEPT !.do = "finish"]
       ELSE resv' = resv /\ rec' = Idle
    /\ UNCHANGED <<req, turn, busy, stalls>>

(* Fault: a release that the engine refuses is taken for one that is done. *)
ReleasesRegardless ==
    /\ Decided("release")
    /\ IF Releasable(rec.r) THEN releaseUsage(rec.r) ELSE resv' = resv
    /\ rec' = [rec EXCEPT !.do = "fail", !.rv.status = "RELEASED"]
    /\ UNCHANGED <<req, turn, busy, stalls>>

failBeforeProvider ==
    /\ Decided("release")
    /\ IF Releasable(rec.r)
       THEN releaseUsage(rec.r) /\ rec' = [rec EXCEPT !.do = "fail", !.rv.status = "RELEASED"]
       ELSE resv' = resv /\ rec' = Idle
    /\ UNCHANGED <<req, turn, busy, stalls>>

Write(r, row, trn) ==
    /\ req' = [req EXCEPT ![r] = row]
    /\ turn' = [turn EXCEPT ![r].status = IF @ = "NONE" THEN @ ELSE trn]

Finalize ==
    /\ Decided("finish")
    /\ Write(rec.r,
             [req[rec.r] EXCEPT
                !.status = IF rec.row.text /\ ~rec.trn.bad THEN "SUCCEEDED" ELSE "FAILED",
                !.fin = "SETTLED", !.linked = TRUE], "SUCCEEDED")
    /\ rec' = Idle
    /\ UNCHANGED <<resv, busy, stalls>>

MarkFailed ==
    /\ Decided("fail")
    /\ Write(rec.r, [req[rec.r] EXCEPT !.status = "FAILED", !.fin = rec.rv.status,
                                      !.linked = rec.rv.status # "NONE"],
             "FAILED_PRE_PROVIDER")
    /\ rec' = Idle
    /\ UNCHANGED <<resv, busy, stalls>>

holdAmbiguous ==
    /\ Decided("hold")
    /\ Write(rec.r, [req[rec.r] EXCEPT !.status = "RECONCILIATION_REQUIRED", !.fin = "HOLD",
                                      !.linked = rec.rv.status # "NONE"],
             "RECONCILIATION_REQUIRED")
    /\ rec' = Idle
    /\ UNCHANGED <<resv, busy, stalls>>

ReconcilerStep ==
    \/ findReservation \/ reconcileDurableUsage \/ failBeforeProvider
    \/ Finalize \/ MarkFailed \/ holdAmbiguous

-----------------------------------------------------------------------------
\* What a request's row says of money is what the engine did: settled and
\* released are never claimed of a reservation that is not, whatever stale
\* rows the reconciler works on and whoever writes after it; what was settled
\* never exceeds what was reserved; and no answer is free: a request that
\* succeeded has its text and has been paid.
LedgerAgrees ==
    \A r \in Requests :
        /\ req[r].fin \in {"SETTLED", "RELEASED"} => resv[r].status = req[r].fin
        /\ resv[r].amount <= resv[r].est
        /\ req[r].status = "SUCCEEDED" => resv[r].status = "SETTLED" /\ req[r].text

UsageWaiting == {"WAITING_FOR_USAGE_CAPACITY", "BLOCKED_INSUFFICIENT_USAGE"}

\* Every request is decided some time: whatever step its process died at, the
\* reconciler finishes, fails or holds what is left.  A turn that waits for
\* allowance is left alone.  And no allowance stays reserved unnoticed: a
\* reservation is settled or released, or its request says it is held, unless
\* the reconciler was at work on the request of a living process.
RequestsEnd ==
    \A r \in Requests :
        /\ req[r].status \in InProgress ~>
              (req[r].status \notin InProgress \/ turn[r].status \in UsageWaiting)
        /\ (resv[r].status = "ACTIVE" /\ stalls = 0) ~>
              (resv[r].status # "ACTIVE" \/ req[r].fin = "HOLD" \/ stalls > 0)
=============================================================================

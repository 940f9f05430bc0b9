------------------------------ MODULE TextChat ------------------------------
(***************************************************************************)
(* A message of an AI chat: TextChatService.streamMessage                  *)
(* (apps/api/src/ai/text-chat.service.ts) from the client's request to the *)
(* stored answer, every database write a step of its own.  Streams are the *)
(* HTTP requests: a client sends a message again, under the same           *)
(* clientRequestId, while it does not know what became of the first.       *)
(***************************************************************************)
EXTENDS AiLedger

CONSTANTS
    Streams,            \* HTTP requests
    ChatRequests,       \* the messages' clientRequestIds
    Targets,            \* models a client may name
    MaxConcurrent,      \* aiMaxConcurrentTextRequestsPerUser
    MaxCrashes          \* bound: crashes of the API process under a stream

ASSUME ChatAssumption ==
    /\ ChatRequests \subseteq Requests
    /\ MaxConcurrent \in Nat /\ MaxCrashes \in Nat

VARIABLES
    flow,       \* the streams: program counter, request, model, provider's result
    target,     \* the conversation's default target, or NoTarget
    answered,   \* messages with a stored assistant message
    inFlight,   \* the user's concurrency counter
    crashed

chatVars == <<flow, target, answered, inFlight, crashed>>

NoTarget == "none"

NoResult == [kind |-> "none", cost |-> 0]

NoFlow == [pc |-> "idle", r |-> <<>>, model |-> NoTarget, res |-> NoResult]

ChatInit ==
    /\ flow = [s \in Streams |-> NoFlow]
    /\ target = NoTarget
    /\ answered = {}
    /\ inFlight = 0
    /\ crashed = 0

FlowAt(s, pc) == flow[s].pc = pc

\* Has the stream's process not died?
Serving(r) == \E s \in Streams : flow[s].r = r /\ ~FlowAt(s, "idle")

To(s, pc) == flow' = [flow EXCEPT ![s].pc = pc]

End(s) == flow' = [flow EXCEPT ![s] = NoFlow]

\* The slot is given back in the finally block.
Leave(s) == End(s) /\ inFlight' = IF inFlight = 0 THEN 0 ELSE inFlight - 1

ChatRow(r, row) == req' = [req EXCEPT ![r] = row]

ChatRest == UNCHANGED <<turn, busy, rec, stalls, crashed>>

-----------------------------------------------------------------------------
\* A message that is known is replayed or refused without a step; a new one
\* goes on to its model.
streamMessage(s, r, model) ==
    /\ FlowAt(s, "idle") /\ req[r].status = "NONE"
    /\ flow' = [flow EXCEPT ![s] = [NoFlow EXCEPT !.pc = "received", !.r = r, !.model = model]]
    /\ UNCHANGED <<req, resv, target, answered, inFlight>> /\ ChatRest

\* The first message of a conversation without a target fixes it, and a
\* message that lost that race uses the winner's.
resolveThreadModel(s) ==
    /\ FlowAt(s, "received")
    /\ target' = IF target = NoTarget THEN flow[s].model ELSE target
    /\ flow' = [flow EXCEPT ![s].model = target', ![s].pc = "routed"]
    /\ UNCHANGED <<req, resv, answered, inFlight>> /\ ChatRest

\* The chosen or every automatic model is gone, unpriced or unbounded.
resolveModelFails(s) ==
    /\ FlowAt(s, "received")
    /\ End(s)
    /\ UNCHANGED <<req, resv, target, answered, inFlight>> /\ ChatRest

\* The user chooses a target for the conversation.
setConversationDefaultTarget(m) ==
    /\ target' = m
    /\ UNCHANGED <<req, resv, flow, answered, inFlight>> /\ ChatRest

\* The row and the user's message in one transaction; the unique key lets one
\* stream through, and the others replay or are refused.
beginOrReuseRequest(s) ==
    /\ FlowAt(s, "routed")
    /\ IF req[flow[s].r].status = "NONE"
       THEN /\ ChatRow(flow[s].r, [NoRow EXCEPT !.status = "CREATED"])
            /\ To(s, "created")
       ELSE End(s) /\ req' = req
    /\ UNCHANGED <<resv, target, answered, inFlight>> /\ ChatRest

\* Too many streams: the row stays behind as it is.
acquire(s) ==
    /\ FlowAt(s, "created")
    /\ IF inFlight < MaxConcurrent
       THEN inFlight' = inFlight + 1 /\ To(s, "admitted")
       ELSE inFlight' = inFlight /\ End(s)
    /\ UNCHANGED <<req, resv, target, answered>> /\ ChatRest

\* The context is too large, the estimate above the cap, or nothing is left.
NotFunded(s) ==
    /\ FlowAt(s, "admitted")
    /\ ChatRow(flow[s].r, [req[flow[s].r] EXCEPT !.status = "FAILED"])
    /\ Leave(s)
    /\ UNCHANGED <<resv, target, answered>> /\ ChatRest

FundRequest(s) ==
    /\ FlowAt(s, "admitted") /\ Funded(Available) # 0
    /\ ChatRow(flow[s].r, [req[flow[s].r] EXCEPT !.est = Funded(Available)])
    /\ To(s, "funded")
    /\ UNCHANGED <<resv, target, answered, inFlight>> /\ ChatRest

ReserveForMessage(s) ==
    /\ FlowAt(s, "funded")
    /\ LET r == flow[s].r IN
       IF Reservable(r, req[r].est)
       THEN reserveUsage(r, req[r].est) /\ To(s, "reserved") /\ UNCHANGED <<req, inFlight>>
       ELSE /\ ChatRow(r, [req[r] EXCEPT !.status = "FAILED"])
            /\ Leave(s) /\ resv' = resv
    /\ UNCHANGED <<target, answered>> /\ ChatRest

\* The plain updates on the way: status and what goes with it.
Mark(s, from, to, row) ==
    /\ FlowAt(s, from)
    /\ ChatRow(flow[s].r, row)
    /\ To(s, to)
    /\ UNCHANGED <<resv, target, answered, inFlight>> /\ ChatRest

MarkReserved(s) ==
    Mark(s, "reserved", "linked",
         [req[flow[s].r] EXCEPT !.status = "RESERVED", !.fin = "RESERVED", !.linked = TRUE])

MarkStarted(s) ==
    Mark(s, "linked", "started", [req[flow[s].r] EXCEPT !.status = "PROVIDER_STARTED"])

MarkStreaming(s) ==
    Mark(s, "started", "streaming", [req[flow[s].r] EXCEPT !.status = "STREAMING"])

\* What the provider's stream can end in: with usage of some cost, complete
\* ("done") or cut off after it ("cut"), above the token caps or not; without
\* usage; or with usage that has no price.
Answers(est) ==
    [kind : {"done", "cut", "doneOver", "cutOver"}, cost : 1..est + 1]
        \cup {[kind |-> "unpriced", cost |-> 0], [kind |-> "missing", cost |-> 0]}

StreamEnds(s) ==
    /\ FlowAt(s, "streaming")
    /\ \E a \in Answers(req[flow[s].r].est) :
           flow' = [flow EXCEPT ![s].res = a,
                                ![s].pc = IF a.cost = 0 THEN "unknown" ELSE "metered"]
    /\ UNCHANGED <<req, resv, target, answered, inFlight>> /\ ChatRest

\* handleProviderFailure: the provider certainly did nothing.
ProviderRejects(s) ==
    /\ flow[s].pc \in {"started", "streaming"}
    /\ IF Releasable(flow[s].r)
       THEN releaseUsage(flow[s].r) /\ To(s, "released") /\ UNCHANGED inFlight
       ELSE resv' = resv /\ Leave(s)
    /\ UNCHANGED <<req, target, answered>> /\ ChatRest

MarkRejected(s) ==
    /\ FlowAt(s, "released")
    /\ ChatRow(flow[s].r, [req[flow[s].r] EXCEPT !.status = "FAILED", !.fin = "RELEASED"])
    /\ Leave(s)
    /\ UNCHANGED <<resv, target, answered>> /\ ChatRest

Held(row) == [row EXCEPT !.status = "RECONCILIATION_REQUIRED", !.fin = "HOLD"]

\* Nobody knows what the provider did or what it cost: the text that arrived
\* is kept as the answer, and the reservation is left as it is.
markReconciliation(s) ==
    /\ flow[s].pc \in {"started", "streaming", "unknown"}
    /\ ChatRow(flow[s].r, Held(req[flow[s].r]))
    /\ answered' \in {answered} \cup
           (IF FlowAt(s, "unknown") THEN {answered \cup {flow[s].r}} ELSE {})
    /\ Leave(s)
    /\ UNCHANGED <<resv, target>> /\ ChatRest

\* The cost is stored before anything is settled; the text with it, if it is whole.
persistDurableUsage(s) ==
    Mark(s, "metered", "durable",
         [req[flow[s].r] EXCEPT !.cost = flow[s].res.cost,
                                !.text = flow[s].res.kind \in {"done", "doneOver"}])

Over(s) == flow[s].res.kind \in {"doneOver", "cutOver"} \/ flow[s].res.cost > req[flow[s].r].est

markFundedBoundViolation(s) ==
    /\ FlowAt(s, "durable") /\ Over(s)
    /\ ChatRow(flow[s].r, Held(req[flow[s].r]))
    /\ Leave(s)
    /\ UNCHANGED <<resv, target, answered>> /\ ChatRest

SettleMessage(s) ==
    /\ FlowAt(s, "durable") /\ ~Over(s)
    /\ IF Settleable(flow[s].r, flow[s].res.cost)
       THEN settleUsage(flow[s].r, flow[s].res.cost) /\ To(s, "settled")
       ELSE resv' = resv /\ To(s, "refused")
    /\ UNCHANGED <<req, target, answered, inFlight>> /\ ChatRest

\* The engine refuses: the row is held, and a whole text is still delivered.
SettlementFailed(s) ==
    /\ FlowAt(s, "refused")
    /\ ChatRow(flow[s].r, Held(req[flow[s].r]))
    /\ answered' = IF flow[s].res.kind = "done" THEN answered \cup {flow[s].r} ELSE answered
    /\ Leave(s)
    /\ UNCHANGED <<resv, target>> /\ ChatRest

StoreAnswer(s) ==
    /\ FlowAt(s, "settled") /\ flow[s].res.kind = "done"
    /\ answered' = answered \cup {flow[s].r}
    /\ To(s, "stored")
    /\ UNCHANGED <<req, resv, target, inFlight>> /\ ChatRest

FinishMessage(s) ==
    /\ FlowAt(s, "stored") \/ (FlowAt(s, "settled") /\ flow[s].res.kind = "cut")
    /\ ChatRow(flow[s].r, [req[flow[s].r] EXCEPT
                             !.status = IF FlowAt(s, "stored") THEN "SUCCEEDED" ELSE "FAILED",
                             !.fin = "SETTLED"])
    /\ Leave(s)
    /\ UNCHANGED <<resv, target, answered>> /\ ChatRest

\* The process dies: rows stay as they are, and the slot with them until its
\* key expires.
ApiCrash(s) ==
    /\ ~FlowAt(s, "idle") /\ crashed < MaxCrashes
    /\ crashed' = crashed + 1
    /\ End(s)
    /\ UNCHANGED <<req, resv, turn, busy, rec, stalls, target, answered, inFlight>>

SlotsExpire ==
    /\ inFlight > 0
    /\ \A s \in Streams : FlowAt(s, "idle")
    /\ inFlight' = 0
    /\ UNCHANGED <<req, resv, flow, target, answered>> /\ ChatRest

FlowStep(s) ==
    \/ resolveThreadModel(s) \/ resolveModelFails(s) \/ beginOrReuseRequest(s) \/ acquire(s)
    \/ NotFunded(s) \/ FundRequest(s) \/ ReserveForMessage(s) \/ MarkReserved(s)
    \/ MarkStarted(s) \/ MarkStreaming(s) \/ StreamEnds(s) \/ ProviderRejects(s)
    \/ MarkRejected(s) \/ markReconciliation(s) \/ persistDurableUsage(s)
    \/ markFundedBoundViolation(s) \/ SettleMessage(s) \/ SettlementFailed(s)
    \/ StoreAnswer(s) \/ FinishMessage(s)

ChatReconciles ==
    \/ \E r \in ChatRequests : reconcile(r, Serving(r))
    \/ ReconcilerStep

ChatNext ==
    \/ \E s \in Streams :
           \/ \E r \in ChatRequests, m \in Targets : streamMessage(s, r, m)
           \/ FlowStep(s) \/ ApiCrash(s)
    \/ SlotsExpire
    \/ \E m \in Targets : setConversationDefaultTarget(m)
    \/ (ChatReconciles \/ OthersSpend) /\ UNCHANGED chatVars
=============================================================================

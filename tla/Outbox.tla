------------------------------- MODULE Outbox -------------------------------
(***************************************************************************)
(* The durable events of one user's stream and the worker's dispatchers    *)
(* that publish a hint of each on Redis (apps/worker/src/realtime-outbox.ts*)
(* and packages/direct-chats/src/durable-events.ts).                       *)
(*                                                                         *)
(* A claim's random token is modelled by the dispatcher that made it.  A   *)
(* run that dies leaves its rows under a token that nobody has ("orphan"). *)
(* Times are flags: due is nextAttemptAt <= now, live is                   *)
(* processingUntil >= now.                                                 *)
(***************************************************************************)
EXTENDS Naturals, Sequences, FiniteSets, FiniteSetsExt, SequencesExt

CONSTANTS
    Dispatchers,
    NoRecipients,   \* events whose recipients were deleted with their account
    BatchSize,
    MaxEvents,      \* bound on the number of events
    MaxFaults       \* bound on failed publications, overrun leases and deaths

ASSUME OutboxAssumption ==
    /\ BatchSize \in Nat \ {0} /\ MaxEvents \in Nat /\ MaxFaults \in Nat
    /\ NoRecipients \subseteq 1..MaxEvents

VARIABLES
    head,       \* user_sync_state.lastPosition: events 1..head are committed
    outbox,     \* realtime_outbox, by event
    runs,       \* the runOnce of each dispatcher
    sent,       \* events published on Redis at least once
    faults

outboxVars == <<outbox, runs, sent, faults>>

Events == 1..MaxEvents

NoRow == [status |-> "NONE", token |-> "none", due |-> FALSE, live |-> FALSE]
NewRow == [NoRow EXCEPT !.status = "PENDING", !.due = TRUE]

IdleRun == [pc |-> "idle", todo |-> <<>>]

OutboxInit ==
    /\ head = 0
    /\ outbox = [e \in Events |-> NoRow]
    /\ runs = [d \in Dispatchers |-> IdleRun]
    /\ sent = {}
    /\ faults = 0

\* directMessageCreated and directReadUpdated, inside the transaction of the
\* change: the next position, the event and its outbox row.
AppendEvent ==
    /\ head < MaxEvents
    /\ head' = head + 1
    /\ outbox' = [outbox EXCEPT ![head + 1] = NewRow]
    /\ UNCHANGED <<runs, sent, faults>>

-----------------------------------------------------------------------------
(* Fault: an abandoned claim is never taken again. *)
ClaimablePendingOnly(e) == outbox[e].status = "PENDING" /\ outbox[e].due

Claimable(e) ==
    \/ outbox[e].status = "PENDING" /\ outbox[e].due
    \/ outbox[e].status = "PROCESSING" /\ ~outbox[e].live

Candidates == {e \in Events : Claimable(e)}

\* The first BatchSize candidates by sequence.
Batch == {e \in Candidates : Cardinality({f \in Candidates : f < e}) < BatchSize}

claim(d) ==
    /\ runs[d].pc = "idle"
    /\ Candidates # {}
    /\ outbox' = [e \in Events |->
           IF e \in Batch
           THEN [status |-> "PROCESSING", token |-> d, due |-> FALSE, live |-> TRUE]
           ELSE outbox[e]]
    /\ runs' = [runs EXCEPT ![d] = [pc |-> "renew", todo |-> SetToSortSeq(Batch, <)]]
    /\ UNCHANGED <<head, sent, faults>>

Holds(d, e) == outbox[e].status = "PROCESSING" /\ outbox[e].token = d

\* The run goes on with the next event, or ends.
NextEvent(run) ==
    IF Len(run.todo) = 1 THEN IdleRun
    ELSE [pc |-> "renew", todo |-> Tail(run.todo)]

Current(d) == Head(runs[d].todo)

renewLease(d) ==
    /\ runs[d].pc = "renew"
    /\ IF Holds(d, Current(d))
       THEN /\ outbox' = [outbox EXCEPT ![Current(d)].live = TRUE]
            /\ runs' = [runs EXCEPT ![d].pc =
                   IF Current(d) \in NoRecipients THEN "mark" ELSE "publish"]
       ELSE /\ runs' = [runs EXCEPT ![d] = NextEvent(@)]
            /\ UNCHANGED outbox
    /\ UNCHANGED <<head, sent, faults>>

publish(d) ==
    /\ runs[d].pc = "publish"
    /\ sent' = sent \cup {Current(d)}
    /\ runs' = [runs EXCEPT ![d].pc = "mark"]
    /\ UNCHANGED <<head, outbox, faults>>

\* Redis is down, the event does not decode, or the publication timed out; a
\* publication that timed out may have been made all the same.
PublishFails(d) ==
    /\ runs[d].pc = "publish"
    /\ faults < MaxFaults
    /\ faults' = faults + 1
    /\ sent' \in {sent, sent \cup {Current(d)}}
    /\ runs' = [runs EXCEPT ![d].pc = "retry"]
    /\ UNCHANGED <<head, outbox>>

markPublished(d) ==
    /\ runs[d].pc = "mark"
    /\ outbox' = IF Holds(d, Current(d))
                 THEN [outbox EXCEPT ![Current(d)] = [NoRow EXCEPT !.status = "PUBLISHED"]]
                 ELSE outbox
    /\ runs' = [runs EXCEPT ![d] = NextEvent(@)]
    /\ UNCHANGED <<head, sent, faults>>

scheduleRetry(d) ==
    /\ runs[d].pc = "retry"
    /\ outbox' = IF Holds(d, Current(d))
                 THEN [outbox EXCEPT ![Current(d)] = [NoRow EXCEPT !.status = "PENDING"]]
                 ELSE outbox
    /\ runs' = [runs EXCEPT ![d] = NextEvent(@)]
    /\ UNCHANGED <<head, sent, faults>>

\* retryBackoffMs has passed.
BackoffElapses(e) ==
    /\ outbox[e].status = "PENDING" /\ ~outbox[e].due
    /\ outbox' = [outbox EXCEPT ![e].due = TRUE]
    /\ UNCHANGED <<head, runs, sent, faults>>

\* Time passes over a lease that nobody renews any more ...
OrphanExpires(e) ==
    /\ outbox[e].status = "PROCESSING" /\ outbox[e].live /\ outbox[e].token = "orphan"
    /\ outbox' = [outbox EXCEPT ![e].live = FALSE]
    /\ UNCHANGED <<head, runs, sent, faults>>

\* ... or over one whose holder is slow.
LeaseOverrun(e) ==
    /\ outbox[e].status = "PROCESSING" /\ outbox[e].live /\ outbox[e].token # "orphan"
    /\ faults < MaxFaults
    /\ faults' = faults + 1
    /\ outbox' = [outbox EXCEPT ![e].live = FALSE]
    /\ UNCHANGED <<head, runs, sent>>

\* The process dies, or a query of runOnce throws.
DispatcherDies(d) ==
    /\ runs[d].pc # "idle"
    /\ faults < MaxFaults
    /\ faults' = faults + 1
    /\ outbox' = [e \in Events |->
           IF Holds(d, e) THEN [outbox[e] EXCEPT !.token = "orphan"] ELSE outbox[e]]
    /\ runs' = [runs EXCEPT ![d] = IdleRun]
    /\ UNCHANGED <<head, sent>>

\* Every run ends with the deletion of the rows past their retention.
compactPublished(d) ==
    /\ runs[d].pc = "idle"
    /\ \E old \in SUBSET {e \in Events : outbox[e].status = "PUBLISHED"} :
           /\ old # {}
           /\ outbox' = [e \in Events |-> IF e \in old THEN NoRow ELSE outbox[e]]
    /\ UNCHANGED <<head, runs, sent, faults>>

DispatcherStep(d) ==
    claim(d) \/ renewLease(d) \/ publish(d) \/ markPublished(d) \/ scheduleRetry(d)

DispatchStep ==
    \/ \E d \in Dispatchers :
           DispatcherStep(d) \/ PublishFails(d) \/ DispatcherDies(d) \/ compactPublished(d)
    \/ \E e \in Events : BackoffElapses(e) \/ OrphanExpires(e) \/ LeaseOverrun(e)

=============================================================================

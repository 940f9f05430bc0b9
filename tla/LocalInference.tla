--------------------------- MODULE LocalInference ---------------------------
(***************************************************************************)
(* The adapter of the self-hosted model: LocalInferenceProvider            *)
(* (packages/ai/src/local-inference-provider.ts).  One process, many       *)
(* streamChat calls: a circuit breaker and a pool of slots with a bounded  *)
(* queue, every piece of code between two awaits a step.                   *)
(***************************************************************************)
EXTENDS Naturals, Sequences, FiniteSets, SequencesExt

CONSTANTS
    Calls,
    MaxSlots,           \* maxConcurrentRequests
    MaxQueue,           \* maxQueueDepth
    Threshold,          \* circuitBreakerFailureThreshold
    MaxGeneration       \* bound: how often the circuit opens and closes

ASSUME LocalInferenceAssumption ==
    /\ MaxSlots \in Nat \ {0} /\ MaxQueue \in Nat
    /\ Threshold \in Nat \ {0} /\ MaxGeneration \in Nat

VARIABLES
    circuit,    \* generation, openUntilMs (0, ahead, passed), halfOpenInFlight, failures
    active,     \* activeRequests
    waiters,    \* the queue
    call        \* the calls: program counter, permit, slot, abort, generation when sent

inferenceVars == <<circuit, active, waiters, call>>

NoCall == [pc |-> "idle", gen |-> 0, half |-> FALSE, slot |-> FALSE, aborted |-> "no",
           sent |-> 0]

InferenceInit ==
    /\ circuit = [gen |-> 0, open |-> "closed", probing |-> FALSE, failures |-> 0]
    /\ active = 0
    /\ waiters = <<>>
    /\ call = [c \in Calls |-> NoCall]

CallAt(c, pc) == call[c].pc = pc

-----------------------------------------------------------------------------
(* The circuit, as functions of its state and a call's permit.             *)

claimRefused(k) == k.open = "open" \/ (k.open = "elapsed" /\ k.probing)

claimCircuitPermission(k) == [k EXCEPT !.probing = @ \/ k.open = "elapsed"]

openCircuit(k) == [k EXCEPT !.open = "open", !.probing = FALSE, !.gen = @ + 1]

recordSuccess(k, p) ==
    IF p.gen # k.gen THEN k
    ELSE IF p.half THEN [gen |-> k.gen + 1, open |-> "closed", probing |-> FALSE, failures |-> 0]
    ELSE [k EXCEPT !.failures = IF k.open = "closed" THEN 0 ELSE @]

recordFailure(k, p) ==
    IF p.gen # k.gen THEN k
    ELSE IF p.half THEN openCircuit(k)
    ELSE LET n == k.failures + 1
         IN IF n >= Threshold THEN openCircuit([k EXCEPT !.failures = n])
            ELSE [k EXCEPT !.failures = n]

releaseHalfOpenPermit(k, p) ==
    IF p.half /\ p.gen = k.gen /\ k.open # "closed" THEN [k EXCEPT !.probing = FALSE] ELSE k

-----------------------------------------------------------------------------
(* The slots.                                                              *)

(* Fault: the slot is given back once by the abort and once by the reader. *)
ReleaseSlotAgain(c, next) ==
    /\ active' = IF waiters = <<>> THEN (IF active = 0 THEN 0 ELSE active - 1) ELSE active
    /\ waiters' = IF waiters = <<>> THEN <<>> ELSE Tail(waiters)
    /\ call' = [d \in Calls |->
           IF d = c THEN next
           ELSE IF waiters # <<>> /\ d = Head(waiters)
           THEN [call[d] EXCEPT !.pc = "granted", !.slot = TRUE] ELSE call[d]]

\* releaseSlotOnce: the slot goes straight to the head of the queue.  The call
\* itself becomes next.
releaseSlotOnce(c, next) ==
    IF call[c].slot
    THEN /\ active' = IF waiters = <<>> THEN active - 1 ELSE active
         /\ waiters' = IF waiters = <<>> THEN <<>> ELSE Tail(waiters)
         /\ call' = [d \in Calls |->
                IF d = c THEN next
                ELSE IF waiters # <<>> /\ d = Head(waiters)
                THEN [call[d] EXCEPT !.pc = "granted", !.slot = TRUE] ELSE call[d]]
    ELSE call' = [call EXCEPT ![c] = next] /\ UNCHANGED <<active, waiters>>

\* streamChat up to its first await.  Refused: circuit open or the queue full.
streamChat(c) ==
    /\ CallAt(c, "idle") /\ ~claimRefused(circuit)
    /\ LET k == claimCircuitPermission(circuit)
           called == [NoCall EXCEPT !.gen = k.gen, !.half = circuit.open = "elapsed"]
       IN \/ /\ active < MaxSlots
             /\ active' = active + 1
             /\ call' = [call EXCEPT ![c] = [called EXCEPT !.pc = "granted", !.slot = TRUE]]
             /\ circuit' = k
             /\ UNCHANGED waiters
          \/ /\ active >= MaxSlots /\ Len(waiters) < MaxQueue
             /\ waiters' = Append(waiters, c)
             /\ call' = [call EXCEPT ![c] = [called EXCEPT !.pc = "queued"]]
             /\ circuit' = k
             /\ UNCHANGED active

\* The caller aborts, or the deadline passes, while the call is queued.
abortQueued(c) ==
    /\ CallAt(c, "queued")
    /\ \E k \in DOMAIN waiters : waiters[k] = c /\ waiters' = RemoveAt(waiters, k)
    /\ circuit' = releaseHalfOpenPermit(circuit, call[c])
    /\ call' = [call EXCEPT ![c] = NoCall]
    /\ UNCHANGED active

\* A call that waited while the circuit changed asks it again.
refreshCircuitPermit(c) ==
    /\ CallAt(c, "granted")
    /\ IF call[c].gen = circuit.gen
       THEN /\ call' = [call EXCEPT ![c].pc = "sent", ![c].sent = circuit.gen]
            /\ UNCHANGED <<circuit, active, waiters>>
       ELSE IF claimRefused(circuit)
       THEN releaseSlotOnce(c, NoCall) /\ circuit' = circuit
       ELSE /\ circuit' = claimCircuitPermission(circuit)
            /\ call' = [call EXCEPT ![c].pc = "sent", ![c].sent = circuit.gen,
                            ![c].gen = circuit.gen, ![c].half = circuit.open = "elapsed"]
            /\ UNCHANGED <<active, waiters>>

\* fetch fails or times out, a retryable status or a missing body.
FetchFails(c) ==
    /\ CallAt(c, "sent")
    /\ circuit' = recordFailure(circuit, call[c])
    /\ releaseSlotOnce(c, NoCall)

\* The caller cancels while fetch is under way.
FetchCanceled(c) ==
    /\ CallAt(c, "sent")
    /\ circuit' = releaseHalfOpenPermit(circuit, call[c])
    /\ releaseSlotOnce(c, NoCall)

\* The server answers, and refuses the request for good.
FetchRejected(c) ==
    /\ CallAt(c, "sent")
    /\ circuit' = recordSuccess(circuit, call[c])
    /\ releaseSlotOnce(c, NoCall)

FetchAnswers(c) ==
    /\ CallAt(c, "sent")
    /\ call' = [call EXCEPT ![c].pc = "streaming"]
    /\ UNCHANGED <<circuit, active, waiters>>

\* releaseOnAbort, the listener: the reader has not noticed yet.
releaseOnAbort(c, why) ==
    /\ call[c].pc \in {"streaming", "closing"} /\ call[c].aborted = "no"
    /\ circuit' = releaseHalfOpenPermit(circuit, call[c])
    /\ releaseSlotOnce(c, [call[c] EXCEPT !.aborted = why, !.slot = FALSE])

\* The last event: done, or the end of a body that had events.
ReadTerminal(c) ==
    /\ CallAt(c, "streaming") /\ call[c].aborted = "no"
    /\ circuit' = recordSuccess(circuit, call[c])
    /\ call' = [call EXCEPT ![c].pc = "closing"]
    /\ UNCHANGED <<active, waiters>>

\* The finally block, after the events are consumed or the stream is dropped.
ReadEnds(c) ==
    /\ call[c].pc \in {"streaming", "closing"}
    /\ circuit' = releaseHalfOpenPermit(circuit, call[c])
    /\ releaseSlotOnce(c, NoCall)

\* The body breaks, is too long, empty or unreadable, or the deadline passed.
ReadFails(c) ==
    /\ CallAt(c, "streaming") /\ call[c].aborted \in {"no", "timeout"}
    /\ circuit' = releaseHalfOpenPermit(recordFailure(circuit, call[c]), call[c])
    /\ releaseSlotOnce(c, NoCall)

\* circuitBreakerResetMs have passed.
CircuitElapses ==
    /\ circuit.open = "open"
    /\ circuit' = [circuit EXCEPT !.open = "elapsed"]
    /\ UNCHANGED <<active, waiters, call>>

InferenceNext ==
    \/ circuit.gen < MaxGeneration /\ \E c \in Calls : streamChat(c)
    \/ \E c \in Calls :
           \/ abortQueued(c) \/ refreshCircuitPermit(c) \/ FetchFails(c) \/ FetchCanceled(c)
           \/ FetchRejected(c) \/ FetchAnswers(c) \/ ReadTerminal(c) \/ ReadEnds(c)
           \/ ReadFails(c) \/ \E why \in {"canceled", "timeout"} : releaseOnAbort(c, why)
    \/ CircuitElapses

-----------------------------------------------------------------------------
\* The pool is exact: activeRequests is the number of calls that hold a slot,
\* never above the limit, although abort listener, reader and error paths all
\* give slots back; and nobody waits while a slot is free.  The circuit is
\* obeyed: no call is sent while it is open, not even one that was queued when
\* it opened, and only a call sent since it last changed closes it.
SlotsAreExact ==
    /\ [](/\ active = Cardinality({c \in Calls : call[c].slot})
          /\ active <= MaxSlots
          /\ waiters # <<>> => active = MaxSlots)
    /\ [][/\ \A c \in Calls :
               ~CallAt(c, "sent") /\ call'[c].pc = "sent" => circuit.open # "open"
          /\ circuit.open # "closed" /\ circuit'.open = "closed" =>
               \E c \in Calls : call[c].pc \in {"sent", "streaming"} /\ call[c].sent = circuit.gen
         ]_inferenceVars
=============================================================================

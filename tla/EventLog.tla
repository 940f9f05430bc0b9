------------------------------ MODULE EventLog ------------------------------
(***************************************************************************)
(* What the durable sync promises to one client: the events of its user    *)
(* reach it in order, none is skipped, and while the client may read,      *)
(* every event arrives.                                                    *)
(***************************************************************************)
EXTENDS Naturals

VARIABLES
    length,     \* number of events of the user's stream
    seen,       \* the events the client has applied
    entitled    \* the client runs and may read

logVars == <<length, seen, entitled>>

LogInit == length = 0 /\ seen = {} /\ entitled \in BOOLEAN

LogAppend ==
    /\ length' = length + 1
    /\ UNCHANGED <<seen, entitled>>

LogDeliver ==
    /\ \E k \in 1..length :
           /\ k \notin seen
           /\ seen \subseteq 1..k
           /\ seen' = 1..k
    /\ UNCHANGED <<length, entitled>>

LogRevoke ==
    /\ entitled' = FALSE
    /\ UNCHANGED <<length, seen>>

LogNext == LogAppend \/ LogDeliver \/ LogRevoke

LogSpec == LogInit /\ [][LogNext]_logVars /\ WF_logVars(entitled /\ LogDeliver)
=============================================================================

-------------------------------- MODULE MCAi --------------------------------
(***************************************************************************)
(* Paid AI requests: the two kinds on one ledger, a chat's message and an  *)
(* invocation's turns.  A behaviour exercises one of them, with the        *)
(* reconciler beside it.                                                   *)
(***************************************************************************)
EXTENDS TextChat, ExternalAi

VARIABLE part

aiVars == <<ledgerVars, chatVars, turnVars, part>>

AllRequests == ChatRequests \cup Turns

MCChatRequests == {<<"chat", 0>>}

AiInit ==
    /\ LedgerInit /\ ChatInit /\ TurnsInit
    /\ part \in {"chat", "turns"}
    /\ part = "chat" => running = {}

AiNext ==
    \/ part = "chat" /\ ChatNext /\ UNCHANGED <<turnVars, part>>
    \/ part = "turns" /\ TurnsNext /\ UNCHANGED <<chatVars, part>>

\* Streams, workers and the reconciler go on with what they began; a row
\* whose process is gone is scanned when nothing else keeps the job.
AiFairness ==
    /\ \A s \in Streams : WF_aiVars(part = "chat" /\ FlowStep(s) /\ UNCHANGED <<turnVars, part>>)
    /\ \A w \in Workers : WF_aiVars(part = "turns" /\ ExecStep(w) /\ UNCHANGED <<chatVars, part>>)
    /\ WF_aiVars(ReconcilerStep /\ UNCHANGED <<chatVars, turnVars, part>>)
    /\ \A r \in AllRequests :
           SF_aiVars(/\ reconcile(r, FALSE)
                     /\ r \in ChatRequests => part = "chat" /\ ~Serving(r)
                     /\ r \in Turns => part = "turns" /\ ~Executing(r)
                     /\ UNCHANGED <<chatVars, turnVars, part>>)

AiSpec == AiInit /\ [][AiNext]_aiVars /\ AiFairness
=============================================================================

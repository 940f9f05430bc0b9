---------------------------- MODULE DirectOutbox ----------------------------
(***************************************************************************)
(* The sender's browser: tabs that share one IndexedDB (crypto-store.ts)   *)
(* with the outbox of pending sends, the ratchets and the plaintexts, and  *)
(* the program each tab runs (session.ts and DirectChatWorkspace.tsx):     *)
(* recover what is pending, prepare, encrypt and stage, send, finalize.    *)
(*                                                                         *)
(* A tab works on snapshots it read before an await.  A request goes on    *)
(* after its tab has gone.  The lock of a recovery is a lease: it may run  *)
(* out under its holder.                                                   *)
(***************************************************************************)
EXTENDS DirectChat

CONSTANTS
    Tabs,
    Invokes,        \* Ids that invoke the operator
    OutputOf,       \* the id of an invocation's output message
    Incoming,       \* messages of the peer's first device
    Wishes,         \* the sets of messages the user may write in one behaviour
    MaxVersion,     \* bound on the commits of a ratchet
    MaxRev,         \* bound on the revisions that polls and reconciliations add
    MaxMishaps      \* bound on dead tabs, lost answers and lost leases

ASSUME DirectOutboxAssumption ==
    /\ Invokes \subseteq Ids /\ OutputOf \in [Invokes -> Ids \ Invokes]
    /\ IsInjective(OutputOf)
    /\ Wishes \subseteq SUBSET (Ids \ Range(OutputOf))
    /\ MaxRev \in Nat /\ MaxVersion \in Nat /\ MaxMishaps \in Nat /\ MaxEpoch \in Nat

VARIABLES
    wishes,     \* messages the user has still to write
    rows,       \* pendingSends, by clientMessageId
    plaintexts, \* messages whose plaintext is stored
    ratchets,   \* stateVersion, by epoch and device
    tabs,
    lock,       \* the tab that holds the lease of recovery and of operator, or "none"
    latched,    \* the local device was revoked and its data cleared
    mishaps,
    discarded,  \* history: ids whose row was given up as never sent
    sealed      \* history: every ratchet state that a commit advanced

localVars == <<wishes, rows, plaintexts, ratchets, tabs, lock, latched, mishaps, discarded, sealed>>
chatVars == <<serverVars, localVars>>

Outputs == Range(OutputOf)
ParentOf(id) == CHOOSE i \in Invokes : OutputOf[i] = id

NoRow == [epoch |-> 0, env |-> <<>>, rev |-> 0, cancelled |-> FALSE,
          committed |-> FALSE, delivery |-> "none"]
Pending(id) == rows[id] # NoRow

NoRows == [id \in Ids |-> NoRow]
IdleTab == [pc |-> "idle", id |-> "none", then |-> "none", recovering |-> FALSE, again |-> FALSE,
            snap |-> NoRows, epoch |-> 0, vers |-> <<>>, reply |-> "none"]

OutboxInitial ==
    /\ wishes \in Wishes /\ rows = NoRows /\ plaintexts = {}
    /\ ratchets = [e \in 0..MaxEpoch |-> [d \in AllDevices |-> 0]]
    /\ tabs = [t \in Tabs |-> IdleTab]
    /\ lock = [k \in {"recovery", "operator"} |-> "none"] /\ latched = FALSE /\ mishaps = 0
    /\ discarded = {} /\ sealed = {}

Tab(t, new) == tabs' = [tabs EXCEPT ![t] = new]

Release(t) == [k \in DOMAIN lock |-> IF lock[k] = t THEN "none" ELSE lock[k]]

\* The program of the tab throws or ends, and gives its leases back.
EndTab(t) ==
    /\ Tab(t, IdleTab)
    /\ lock' = Release(t)

withPendingSendRecoveryLock(t) ==
    /\ lock["recovery"] = "none"
    /\ lock' = [lock EXCEPT !["recovery"] = t]

withPendingOperatorIntentLock(t) == lock' = [lock EXCEPT !["operator"] = t]

\* The recovery goes on with the rest of its snapshot.
NextRow(t) ==
    IF tabs[t].recovering
    THEN /\ Tab(t, [tabs[t] EXCEPT !.pc = "recover", !.snap[tabs[t].id] = NoRow,
                                   !.id = "none", !.reply = "none", !.epoch = 0,
                                   !.vers = <<>>, !.again = FALSE])
         /\ UNCHANGED lock
    ELSE EndTab(t)

-----------------------------------------------------------------------------
(* crypto-store.ts: each of these is one IndexedDB transaction.            *)

\* The invocation an id belongs to, with everything staged for it.
Family(id) ==
    IF id \in Invokes THEN {id, OutputOf[id]}
    ELSE IF id \in Outputs THEN {id, ParentOf(id)} ELSE {id}

discardPendingSend(id) ==
    /\ rows' = [i \in Ids |-> IF i \in Family(id) THEN NoRow ELSE rows[i]]
    /\ discarded' = discarded \cup
           {i \in Family(id) : Pending(i) /\ messages[i] = NoMessage}

cancelPendingSendsForTrust ==
    rows' = [id \in Ids |-> IF Pending(id) /\ ~rows[id].cancelled
                            THEN [rows[id] EXCEPT !.cancelled = TRUE, !.rev = @ + 1]
                            ELSE rows[id]]

\* The row of an invocation after its message is committed, and after a
\* change of its delivery.
Committed(old, rev) ==
    [old EXCEPT !.committed = TRUE, !.rev = 1 + IF @ > rev THEN @ ELSE rev]
Delivery(old, status) == [old EXCEPT !.delivery = status, !.rev = @ + 1]

\* An invocation keeps its row until its output is delivered; an output is
\* checked off at its parent.
completePendingSend(id, row) ==
    /\ plaintexts' = plaintexts \cup {id}
    /\ rows' = CASE id \in Invokes ->
                     IF Pending(id)
                     THEN [rows EXCEPT ![id] = Committed(@, row.rev)]
                     ELSE rows
                 [] id \in Outputs ->
                     IF Pending(ParentOf(id)) /\ rows[ParentOf(id)].delivery = "staged"
                     THEN [rows EXCEPT ![id] = NoRow,
                               ![ParentOf(id)] = Delivery(@, "delivered")]
                     ELSE [rows EXCEPT ![id] = NoRow]
                 [] OTHER -> [rows EXCEPT ![id] = NoRow]

\* The newest state of the run wins; a terminal one is never undone.
stagePendingOperatorDelivery(i, status) ==
    rows' = IF rows[i].delivery \in {"staged", "delivered"} THEN rows
            ELSE [rows EXCEPT ![i] = Delivery(@, status)]

\* Only a row that is exactly as it was reconciled goes, and an invocation
\* only after its output.
pruneReconciled(id, expected) ==
    IF /\ Pending(id) /\ rows[id] = expected
       /\ id \in Invokes => ~Pending(OutputOf[id])
    THEN /\ rows' = [rows EXCEPT ![id] = NoRow]
         /\ discarded' = IF messages[id] = NoMessage THEN discarded \cup {id} ELSE discarded
    ELSE UNCHANGED <<rows, discarded>>

\* The message was decrypted before.
loadPlaintext(m) == m \in plaintexts

commitRatchet(e, vers) ==
    ratchets' = [ratchets EXCEPT ![e] =
        [d \in AllDevices |-> IF d \in DOMAIN vers THEN vers[d] + 1 ELSE @[d]]]

(* Fault: the commit does not compare the versions it read. *)
StaleVersionsCommit(e, vers) == TRUE

(* What an encryption or a decryption starts from. *)
loadRatchet(e, devs) == [d \in devs |-> ratchets[e][d]]

assertRatchetVersion(e, vers) == \A d \in DOMAIN vers : ratchets[e][d] = vers[d]

\* The delivered output and its run are finished: the row of the invocation
\* goes.
completePendingOperatorIntent(i) ==
    rows' = IF rows[i].delivery = "delivered" THEN [rows EXCEPT ![i] = NoRow] ELSE rows
=============================================================================

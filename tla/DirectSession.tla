---------------------------- MODULE DirectSession ---------------------------
(***************************************************************************)
(* The programs of the tabs over the shared store and the server, their    *)
(* interleavings, and what must hold of them.                              *)
(***************************************************************************)
EXTENDS DirectOutbox

ServerSame == UNCHANGED serverVars
StoreSame == UNCHANGED <<wishes, rows, plaintexts, ratchets, latched, discarded, sealed>>

At(t, pc) == tabs[t].pc = pc /\ ~latched

\* clearLocalDataAfterDeviceRevocation: the latch stops every tab.
ClearLocal(t) ==
    /\ latched' = TRUE /\ rows' = NoRows /\ plaintexts' = {}
    /\ EndTab(t)
    /\ UNCHANGED <<wishes, ratchets, mishaps, discarded, sealed>>

-----------------------------------------------------------------------------
(* recoverPendingSends, alone or before a new send.                        *)

\* The composer is emptied; a recovery alone sends nothing new.
onSend(then) ==
    /\ then \in wishes \cup {"none"}
    /\ wishes' = wishes \ {then}

\* The snapshot of the outbox is read once the lease is held.
recoverPendingSends(t, then) ==
    /\ At(t, "idle")
    /\ then = "none" => \E id \in Ids : Pending(id)
    /\ onSend(then)
    /\ withPendingSendRecoveryLock(t)
    /\ Tab(t, [IdleTab EXCEPT !.pc = "recover", !.then = then, !.recovering = TRUE,
                              !.snap = rows])
    /\ UNCHANGED <<rows, plaintexts, ratchets, latched, mishaps, discarded, sealed>>
    /\ ServerSame

\* Rows that a block has quarantined, and invocations already sent.
Skipped(id, row) == row.cancelled \/ (id \in Invokes /\ row.committed)

Post(t, id, row) ==
    /\ requests' = requests \cup
           {[id |-> id, epoch |-> row.epoch, env |-> row.env, tab |-> t, stage |-> "posted"]}
    /\ UNCHANGED <<blockers, epoch, devices, messages>>

sendPendingDirectMessage(t, id) ==
    /\ At(t, "recover")
    /\ tabs[t].snap[id] # NoRow /\ ~Skipped(id, tabs[t].snap[id])
    /\ \A i \in Ids : ~tabs[t].snap[i].cancelled
    /\ \A r \in requests : r.tab # t
    /\ Post(t, id, tabs[t].snap[id])
    /\ Tab(t, [tabs[t] EXCEPT !.pc = "waiting", !.id = id])
    /\ UNCHANGED <<lock, mishaps>> /\ StoreSame

\* A row that is skipped because it is cancelled is first reconciled with the
\* server, once it is old enough and its epoch is over; a read that fails
\* leaves it.
reconcileTrustCancelled(t, id) ==
    /\ At(t, "recover")
    /\ tabs[t].snap[id] # NoRow /\ Skipped(id, tabs[t].snap[id])
    /\ LET row == tabs[t].snap[id]
           found == lookupOwnMessage(id)
       IN  \/ /\ Tab(t, [tabs[t] EXCEPT !.snap[id] = NoRow])
              /\ UNCHANGED <<lock, mishaps>> /\ StoreSame
           \/ /\ row.cancelled /\ epoch > row.epoch /\ found = "revoked"
              /\ ClearLocal(t)
           \/ /\ row.cancelled /\ epoch > row.epoch /\ found # "revoked" /\ row.rev < MaxRev
              /\ Tab(t, [tabs[t] EXCEPT !.pc = "reconciled", !.id = id, !.reply = found])
              /\ UNCHANGED <<lock, mishaps>> /\ StoreSame
    /\ ServerSame

\* What was never committed is pruned.  What was is finished, and then an
\* invocation's row is pruned too.
Reconciled(t) ==
    /\ At(t, "reconciled")
    /\ LET id == tabs[t].id
           row == tabs[t].snap[id]
       IN  IF tabs[t].reply = "not_found" \/ tabs[t].reply = "finished"
           THEN pruneReconciled(id, row) /\ NextRow(t) /\ UNCHANGED plaintexts
           ELSE IF messages[id] = [epoch |-> row.epoch, env |-> row.env]
           THEN /\ completePendingSend(id, row)
                /\ IF rows'[id].cancelled
                   THEN /\ Tab(t, [tabs[t] EXCEPT !.snap[id] = rows'[id], !.reply = "finished"])
                        /\ UNCHANGED lock
                   ELSE NextRow(t)
                /\ UNCHANGED discarded
           ELSE NextRow(t) /\ UNCHANGED <<rows, plaintexts, discarded>>
    /\ UNCHANGED <<wishes, ratchets, latched, mishaps, sealed>> /\ ServerSame

\* The snapshot is done: the lease is given back, and the send begins.
RecoveryEnds(t) ==
    /\ At(t, "recover") /\ tabs[t].snap = NoRows
    /\ lock' = Release(t)
    /\ Tab(t, IF tabs[t].then = "none" THEN IdleTab
              ELSE [IdleTab EXCEPT !.pc = "prepare", !.id = tabs[t].then])
    /\ UNCHANGED mishaps /\ StoreSame /\ ServerSame

-----------------------------------------------------------------------------
(* The server works on the requests.                                       *)

Answer(r, reply) ==
    /\ requests' = requests \ {r}
    /\ IF tabs[r.tab].pc = "waiting" /\ tabs[r.tab].id = r.id
       THEN Tab(r.tab, [tabs[r.tab] EXCEPT !.pc = "answered", !.reply = reply])
       ELSE UNCHANGED tabs

Server == UNCHANGED <<lock, mishaps>> /\ StoreSame

SendChecked(r) ==
    /\ r.stage = "posted"
    /\ IF Precheck(r) = "pass"
       THEN /\ requests' = (requests \ {r}) \cup {[r EXCEPT !.stage = "checked"]}
            /\ UNCHANGED tabs
       ELSE Answer(r, Precheck(r))
    /\ UNCHANGED <<blockers, epoch, devices, messages>> /\ Server

sendWithStatus(r) ==
    /\ r.stage = "checked"
    /\ messages' = IF Decide(r) = "created"
                   THEN [messages EXCEPT ![r.id] = [epoch |-> r.epoch, env |-> r.env]]
                   ELSE messages
    /\ Answer(r, IF Decide(r) = "created" THEN "ok" ELSE Decide(r))
    /\ UNCHANGED <<blockers, epoch, devices>> /\ Server

-----------------------------------------------------------------------------
(* The answer.                                                             *)

Answered(t, replies) == At(t, "answered") /\ tabs[t].reply \in replies

\* A refused row is dropped; after a second attempt the recovery also ends.
Refused(t) == IF tabs[t].again THEN EndTab(t) ELSE NextRow(t)

\* finalizePendingSend; an invocation's output then closes the invocation.
finalizePendingSend(t) ==
    /\ Answered(t, {"ok"})
    /\ completePendingSend(tabs[t].id, tabs[t].snap[tabs[t].id])
    /\ IF tabs[t].id \in Outputs /\ ~tabs[t].recovering
       THEN /\ Tab(t, [IdleTab EXCEPT !.pc = "closing", !.id = ParentOf(tabs[t].id)])
            /\ UNCHANGED lock
       ELSE NextRow(t)
    /\ UNCHANGED <<wishes, ratchets, latched, mishaps, discarded, sealed>> /\ ServerSame

\* A final refusal removes the row, "Do not let a later unblock resurrect it".
SendForbidden(t) ==
    /\ Answered(t, {"forbidden"})
    /\ discardPendingSend(tabs[t].id)
    /\ Refused(t)
    /\ UNCHANGED <<wishes, plaintexts, ratchets, latched, mishaps, sealed>> /\ ServerSame

\* assertPendingInteractionCurrent: only an epoch that has passed is final.
SendConflicts(t) ==
    /\ Answered(t, {"conflict"})
    /\ IF prepareSend = "forbidden" \/ (prepareSend = "ok" /\ epoch # tabs[t].snap[tabs[t].id].epoch)
       THEN discardPendingSend(tabs[t].id) /\ Refused(t)
       ELSE UNCHANGED <<rows, discarded>> /\ EndTab(t)
    /\ UNCHANGED <<wishes, plaintexts, ratchets, latched, mishaps, sealed>> /\ ServerSame

\* Anything else ends a plain send, and a replay that differs ends both.
SendFails(t) ==
    /\ \/ Answered(t, {"tampered"})
       \/ /\ Answered(t, {"revoked", "validation", "recipient_missing"})
          /\ ~tabs[t].recovering \/ tabs[t].again
    /\ EndTab(t)
    /\ UNCHANGED mishaps /\ StoreSame /\ ServerSame

RecoveryRevoked(t) ==
    /\ Answered(t, {"revoked"}) /\ tabs[t].recovering /\ ~tabs[t].again
    /\ ClearLocal(t) /\ ServerSame

\* The set of devices has changed: the recovery reads it and, if the
\* interaction is still the row's, encrypts again for the new set.
DevicesChanged(t) ==
    /\ Answered(t, {"validation", "recipient_missing"})
    /\ tabs[t].recovering /\ ~tabs[t].again
    /\ LET row == tabs[t].snap[tabs[t].id] IN
       IF Active = DOMAIN row.env
       THEN EndTab(t) /\ StoreSame /\ UNCHANGED mishaps
       ELSE IF Mine \notin Active THEN ClearLocal(t)
       ELSE IF Active = {Mine} THEN NextRow(t) /\ StoreSame /\ UNCHANGED mishaps
       ELSE /\ Tab(t, [tabs[t] EXCEPT !.pc = "prepare", !.again = TRUE,
                                       !.vers = [d \in Active |-> 0]])
            /\ UNCHANGED <<lock, mishaps>> /\ StoreSame
    /\ ServerSame

-----------------------------------------------------------------------------
(* Preparing, encrypting and staging.                                      *)

\* The epoch is fixed here; an output and a recovered row must still be in
\* theirs.  The device list of a new send is read after it.
Prepare(t) ==
    /\ At(t, "prepare")
    /\ LET id == tabs[t].id
           due == IF tabs[t].recovering THEN tabs[t].snap[id].epoch
                  ELSE IF id \in Outputs THEN tabs[t].epoch ELSE epoch
       IN  IF prepareSend = "ok" /\ epoch = due
           THEN /\ Tab(t, [tabs[t] EXCEPT !.pc = "load", !.epoch = epoch])
                /\ UNCHANGED <<rows, discarded, lock>>
           ELSE IF (tabs[t].recovering \/ id \in Outputs) /\ prepareSend # "revoked"
           THEN discardPendingSend(id) /\ NextRow(t)
           ELSE EndTab(t) /\ UNCHANGED <<rows, discarded>>
    /\ UNCHANGED <<wishes, plaintexts, ratchets, latched, mishaps, sealed>> /\ ServerSame

\* encryptForDevices reads the ratchets it will use, one per device.
loadRatchets(t) ==
    /\ At(t, "load")
    /\ LET devs == IF tabs[t].recovering THEN DOMAIN tabs[t].vers ELSE Active
       IN  Tab(t, [tabs[t] EXCEPT !.pc = "encrypt",
                                  !.vers = loadRatchet(tabs[t].epoch, devs)])
    /\ UNCHANGED <<lock, mishaps>> /\ StoreSame /\ ServerSame

\* The row as the tab left it in the store, or must not find there.
ExpectedRow(t) ==
    IF tabs[t].recovering
    THEN Pending(tabs[t].id) /\ rows[tabs[t].id].rev = tabs[t].snap[tabs[t].id].rev
    ELSE ~Pending(tabs[t].id)

ParentWaits(id) ==
    id \in Outputs => Pending(ParentOf(id)) /\ rows[ParentOf(id)].delivery = "staged"

\* The new row: an invocation keeps what its intent says of the delivery.
Staged(t) ==
    LET old == tabs[t].snap[tabs[t].id] IN
    [NoRow EXCEPT !.epoch = tabs[t].epoch, !.env = tabs[t].vers, !.rev = old.rev + 1,
                  !.delivery = old.delivery]

Advances(t, by, rev) ==
    {[by |-> by, rev |-> rev, epoch |-> tabs[t].epoch, dev |-> d, ver |-> tabs[t].vers[d]] :
         d \in DOMAIN tabs[t].vers}

\* commitOutboundRatchets: the ratchets and the row, or nothing.
commitOutboundRatchets(t) ==
    /\ At(t, "encrypt") /\ ExpectedRow(t) /\ ParentWaits(tabs[t].id)
    /\ assertRatchetVersion(tabs[t].epoch, tabs[t].vers)
    /\ \A d \in DOMAIN tabs[t].vers : tabs[t].vers[d] < MaxVersion
    /\ \A r \in requests : r.tab # t
    /\ LET id == tabs[t].id IN
       /\ rows' = [rows EXCEPT ![id] = Staged(t)]
       /\ commitRatchet(tabs[t].epoch, tabs[t].vers)
       /\ sealed' = sealed \cup Advances(t, id, Staged(t).rev)
       /\ Post(t, id, Staged(t))
       /\ Tab(t, [tabs[t] EXCEPT !.pc = "waiting", !.snap[id] = Staged(t),
                                  !.epoch = 0, !.vers = <<>>])
    /\ UNCHANGED <<wishes, plaintexts, latched, lock, mishaps, discarded>>

\* RatchetStateConflictError: up to three attempts.
RatchetConflict(t) ==
    /\ At(t, "encrypt") /\ ExpectedRow(t) /\ ParentWaits(tabs[t].id)
    /\ ~assertRatchetVersion(tabs[t].epoch, tabs[t].vers)
    /\ \/ Tab(t, [tabs[t] EXCEPT !.pc = "load"]) /\ UNCHANGED lock
       \/ EndTab(t)
    /\ UNCHANGED mishaps /\ StoreSame /\ ServerSame

\* PendingSendConflictError: the row another tab has written is sent instead,
\* if it is the same message; a recovered row may also be gone.
PendingConflict(t) ==
    /\ At(t, "encrypt") /\ ~ExpectedRow(t)
    /\ \A r \in requests : r.tab # t
    /\ LET id == tabs[t].id IN
       IF Pending(id) /\ rows[id].epoch = tabs[t].epoch
       THEN /\ Post(t, id, rows[id])
            /\ Tab(t, [tabs[t] EXCEPT !.pc = "waiting", !.snap[id] = rows[id],
                                       !.epoch = 0, !.vers = <<>>])
            /\ UNCHANGED lock
       ELSE /\ IF Pending(id) THEN EndTab(t) ELSE NextRow(t)
            /\ ServerSame
    /\ UNCHANGED mishaps /\ StoreSame

OperatorGone(t) ==
    /\ At(t, "encrypt") /\ ExpectedRow(t) /\ ~ParentWaits(tabs[t].id)
    /\ EndTab(t)
    /\ UNCHANGED mishaps /\ StoreSame /\ ServerSame

\* decryptMessageWithStatus of a message of the peer's device: the advanced
\* ratchet and the plaintext are one commit, against the version it read.
BeginDecrypt(t, m) ==
    /\ At(t, "idle") /\ ~loadPlaintext(m)
    /\ \E d \in Peers \cap Active :
           Tab(t, [IdleTab EXCEPT !.pc = "decrypt", !.then = m, !.epoch = epoch,
                                  !.vers = loadRatchet(epoch, {d})])
    /\ UNCHANGED <<lock, mishaps>> /\ StoreSame /\ ServerSame

commitDecryptedRatchet(t) ==
    /\ At(t, "decrypt")
    /\ IF assertRatchetVersion(tabs[t].epoch, tabs[t].vers) /\ ~loadPlaintext(tabs[t].then)
          /\ \A d \in DOMAIN tabs[t].vers : tabs[t].vers[d] < MaxVersion
       THEN /\ plaintexts' = plaintexts \cup {tabs[t].then}
            /\ commitRatchet(tabs[t].epoch, tabs[t].vers)
            /\ sealed' = sealed \cup Advances(t, tabs[t].then, 0)
       ELSE UNCHANGED <<plaintexts, ratchets, sealed>>
    /\ EndTab(t)
    /\ UNCHANGED <<wishes, rows, latched, mishaps, discarded>> /\ ServerSame

-----------------------------------------------------------------------------
(* resumeDirectOperatorInvocation.                                         *)

Current(i) == epoch = rows[i].epoch

\* The run of the operator is created or read while the interaction lasts.
ResumeOperator(t, i) ==
    /\ At(t, "idle") /\ lock["operator"] = "none"
    /\ Pending(i) /\ rows[i].committed /\ ~rows[i].cancelled
    /\ ~Pending(OutputOf[i]) /\ prepareSend # "revoked"
    /\ IF prepareSend = "ok" /\ Current(i)
       THEN /\ Tab(t, [IdleTab EXCEPT !.pc = "run", !.id = i, !.epoch = rows[i].epoch])
            /\ withPendingOperatorIntentLock(t)
            /\ UNCHANGED <<rows, discarded>>
       ELSE /\ discardPendingSend(i)
            /\ UNCHANGED <<tabs, lock>>
    /\ UNCHANGED <<wishes, plaintexts, ratchets, latched, mishaps, sealed>> /\ ServerSame

\* The newest state of the run is staged; a row that is gone or whose
\* interaction is over ends the delivery.
StageDelivery(t) ==
    /\ At(t, "run")
    /\ LET i == tabs[t].id IN
       IF prepareSend = "revoked" \/ ~Pending(i) \/ ~rows[i].committed
       THEN EndTab(t) /\ UNCHANGED <<rows, discarded>>
       ELSE IF prepareSend = "forbidden" \/ ~Current(i)
       THEN EndTab(t) /\ discardPendingSend(i)
       ELSE \E status \in {"open", "staged"} :
               /\ status = "open" => rows[i].rev < MaxRev
               /\ stagePendingOperatorDelivery(i, status)
               /\ UNCHANGED discarded
               /\ IF rows'[i].delivery = "open" \/ rows[i].cancelled THEN EndTab(t)
                  ELSE /\ UNCHANGED lock
                       /\ Tab(t, IF rows'[i].delivery = "staged"
                                 THEN [tabs[t] EXCEPT !.pc = "prepare", !.id = OutputOf[i]]
                                 ELSE [tabs[t] EXCEPT !.pc = "closing"])
    /\ UNCHANGED <<wishes, plaintexts, ratchets, latched, mishaps, sealed>> /\ ServerSame

CloseOperator(t) ==
    /\ At(t, "closing")
    /\ completePendingOperatorIntent(tabs[t].id)
    /\ EndTab(t)
    /\ UNCHANGED <<wishes, plaintexts, ratchets, latched, mishaps, discarded, sealed>> /\ ServerSame

-----------------------------------------------------------------------------
(* The user and the world.                                                 *)

\* After the user's own block the outbox is quarantined, at once or when the
\* chat is opened again.
confirmBlock ==
    /\ "me" \in blockers /\ ~latched
    /\ \E id \in Ids : Pending(id) /\ ~rows[id].cancelled
    /\ cancelPendingSendsForTrust
    /\ UNCHANGED <<wishes, plaintexts, ratchets, tabs, lock, latched, mishaps, discarded, sealed>>
    /\ ServerSame

Mishap == mishaps < MaxMishaps /\ mishaps' = mishaps + 1

\* A tab is closed or its request fails; what it posted is still under way.
TabDies(t) ==
    /\ tabs[t].pc # "idle" /\ Mishap
    /\ EndTab(t) /\ StoreSame /\ ServerSame

LeaseLost ==
    /\ \E k \in DOMAIN lock : lock[k] # "none" /\ lock' = [lock EXCEPT ![k] = "none"]
    /\ Mishap
    /\ UNCHANGED tabs /\ StoreSame /\ ServerSame

TrustStep == \E u \in Members : blockUser(u) \/ unblockUser(u)

DeviceStep == (\E d \in Peers : register(d)) \/ (\E d \in AllDevices : revoke(d))

SessionStep(t) ==
    \/ \E then \in Ids \cup {"none"} : recoverPendingSends(t, then)
    \/ \E id \in Ids : sendPendingDirectMessage(t, id) \/ reconcileTrustCancelled(t, id)
    \/ Reconciled(t) \/ RecoveryEnds(t)
    \/ finalizePendingSend(t) \/ SendForbidden(t) \/ SendConflicts(t) \/ SendFails(t)
    \/ RecoveryRevoked(t) \/ DevicesChanged(t)
    \/ Prepare(t) \/ loadRatchets(t) \/ commitOutboundRatchets(t) \/ RatchetConflict(t)
    \/ PendingConflict(t) \/ OperatorGone(t)
    \/ (\E m \in Incoming : BeginDecrypt(t, m)) \/ commitDecryptedRatchet(t)
    \/ (\E i \in Invokes : ResumeOperator(t, i)) \/ StageDelivery(t) \/ CloseOperator(t)
    \/ TabDies(t)

DirectNext ==
    \/ \E t \in Tabs : SessionStep(t)
    \/ \E r \in requests : SendChecked(r) \/ sendWithStatus(r)
    \/ confirmBlock
    \/ LeaseLost
    \/ (TrustStep \/ DeviceStep) /\ UNCHANGED localVars

DirectInit == DirectChatInit /\ OutboxInitial

DirectSpec == DirectInit /\ [][DirectNext]_chatVars

-----------------------------------------------------------------------------
\* What the client has given up as refused or cancelled never appears in the
\* conversation afterwards, although requests outlive their tabs and a block
\* may be lifted.
DiscardedStaysOut == \A id \in discarded : messages[id] = NoMessage

\* No state of a ratchet is advanced twice, by two encryptions or by an
\* encryption and a decryption, whatever tabs work at the same time and
\* whichever lease is lost: a key used twice, or a received message's key
\* forgotten, would be a fork of the ratchet.
NoRatchetFork ==
    \A x, y \in sealed : x.dev = y.dev /\ x.epoch = y.epoch /\ x.ver = y.ver => x = y
=============================================================================

----------------------------- MODULE ClientSync -----------------------------
(***************************************************************************)
(* One browser tab that follows its user's stream: the SyncEngine of       *)
(* packages/client-core, its web adapter and cursor store, GET /v1/sync,   *)
(* and the web socket whose frames only wake the engine.                   *)
(*                                                                         *)
(* A cursor is a position, the head of the snapshot it belongs to and the  *)
(* secret that signed it.  A frame of the socket is lost with it or        *)
(* arrives in order.  A behaviour follows either the tab or, without one,  *)
(* the dispatchers: towards the tab their only effect is that a hint may   *)
(* arrive at any time (HintArrives).                                       *)
(***************************************************************************)
EXTENDS Outbox

CONSTANTS
    Ineligible,         \* events of chats the user is no member of when read
    PageLimit,          \* deltas of a page; a page scans at most 4 * PageLimit
    MaxConnections,     \* realtimeMaxConnectionsPerInstallation
    MaxLeaks,           \* bound on upgrades that lose their slot
    MaxSecrets          \* bound on changes of the signing secret

ASSUME SyncAssumption ==
    /\ PageLimit \in Nat \ {0} /\ MaxConnections \in Nat \ {0}
    /\ MaxLeaks \in 0..(MaxConnections - 1) /\ MaxSecrets \in Nat
    /\ Ineligible \subseteq 1..MaxEvents

VARIABLES
    cursor,     \* the stored cursor, or NoCursor
    applied,    \* positions whose delta the sink has applied
    engine,     \* the SyncEngine
    socket,     \* the tab's connection, both ends
    slots,      \* installationConnections beside the tab's own connection
    secret,     \* the server's current signing secret
    authorized, \* session, handle and installation are valid
    tab         \* a tab is open; without one only the dispatchers move

clientVars == <<cursor, applied, engine, socket, slots, secret, authorized>>
syncVars == <<head, outboxVars, clientVars, tab>>

NoCursor == [pos |-> 0, snap |-> 0, key |-> 0]
NoPage == [deltas |-> {}, next |-> NoCursor, more |-> FALSE]

IdleEngine ==
    [pc |-> "none", queued |-> FALSE, retry |-> FALSE, terminal |-> FALSE,
     reset |-> FALSE, cur |-> NoCursor, page |-> NoPage]

\* The engine's run begins a syncSnapshot: it reads the store and asks.
Begin(eng, cur) ==
    [eng EXCEPT !.pc = "reading", !.queued = FALSE, !.reset = FALSE, !.cur = cur, !.page = NoPage]

requestSync(eng) ==
    IF eng.terminal THEN eng
    ELSE IF eng.retry \/ eng.pc # "none" THEN [eng EXCEPT !.queued = TRUE]
    ELSE Begin(eng, cursor)

NoSocket == [status |-> "down", expected |-> 0, last |-> 1, checking |-> FALSE,
             toClient |-> <<>>, toServer |-> <<>>]

\* subscribeWebSync starts the engine and the socket.
ClientInit ==
    /\ cursor = NoCursor
    /\ applied = {}
    /\ engine = Begin(IdleEngine, NoCursor)
    /\ socket = NoSocket
    /\ slots = [zombies |-> 0, leaked |-> 0]
    /\ secret = 1
    /\ authorized = TRUE
    /\ tab \in BOOLEAN

-----------------------------------------------------------------------------
(* GET /v1/sync.                                                           *)

\* decode: a cursor under another secret is invalid, one ahead of the
\* stream is stale; minRetainedPosition is always 0.
CursorRefused(cur) ==
    cur # NoCursor /\ (cur.key # secret \/ cur.pos > head \/ cur.snap > head)

SnapshotHead(cur) == IF cur.pos = cur.snap THEN head ELSE cur.snap

\* The first `limit` eligible candidates, and the last candidate looked at.
PageOf(cur, snap) ==
    LET scanned == {p \in cur.pos + 1..snap : p <= cur.pos + 4 * PageLimit}
        eligible == scanned \ Ineligible
        deltas == {p \in eligible : Cardinality({q \in eligible : q <= p}) <= PageLimit}
        last == IF Cardinality(deltas) = PageLimit THEN Max(deltas)
                ELSE IF scanned = {} THEN cur.pos ELSE Max(scanned)
    IN  [deltas |-> deltas,
         next |-> [pos |-> last, snap |-> snap, key |-> secret],
         more |-> last < snap]

(* Fault: a page resumes behind the snapshot's head instead of the last
   candidate it looked at. *)
PageToSnapshot(cur) ==
    LET p == PageOf(cur, SnapshotHead(cur))
    IN  [p EXCEPT !.next.pos = SnapshotHead(cur), !.more = FALSE]

SyncPage(cur) == PageOf(cur, SnapshotHead(cur))

-----------------------------------------------------------------------------
(* The engine.                                                             *)

Client(c, a, e) == cursor' = c /\ applied' = a /\ engine' = e

RestUnchanged == UNCHANGED <<head, outboxVars, socket, slots, secret, authorized>>

\* drain goes round again while somebody asked meanwhile.
EndOfSnapshot(eng, cur) ==
    IF eng.queued THEN Begin(eng, cur) ELSE [eng EXCEPT !.pc = "none", !.page = NoPage,
                                                        !.cur = NoCursor, !.reset = FALSE]

\* The page is applied: its cursor is stored, and the next page asked for.
AfterPage(eng, page) ==
    IF page.more
    THEN [eng EXCEPT !.pc = "reading", !.cur = page.next, !.page = NoPage]
    ELSE EndOfSnapshot(eng, page.next)

handleFailure(eng) ==
    [eng EXCEPT !.pc = "none", !.queued = TRUE, !.retry = TRUE, !.page = NoPage,
                !.cur = NoCursor, !.reset = FALSE]

ReadPage ==
    /\ engine.pc = "reading" /\ authorized /\ ~CursorRefused(engine.cur)
    /\ LET page == SyncPage(engine.cur) IN
       IF page.deltas = {}
       THEN Client(page.next, applied, AfterPage(engine, page))
       ELSE Client(cursor, applied, [engine EXCEPT !.pc = "applying", !.page = page])
    /\ RestUnchanged

\* CURSOR_STALE: the cursor is cleared and the stream read from its start; a
\* second refusal in the same round waits for the retry timer.
ReadStale ==
    /\ engine.pc = "reading" /\ authorized /\ CursorRefused(engine.cur)
    /\ IF engine.reset
       THEN Client(cursor, applied, handleFailure(engine))
       ELSE Client(NoCursor, applied, [engine EXCEPT !.cur = NoCursor, !.reset = TRUE])
    /\ RestUnchanged

\* AuthRequiredError is terminal for the session.
ReadUnauthorized ==
    /\ engine.pc = "reading" /\ ~authorized
    /\ Client(cursor, applied, [IdleEngine EXCEPT !.terminal = TRUE])
    /\ RestUnchanged

ApplyDeltas ==
    /\ engine.pc = "applying"
    /\ Client(engine.page.next, applied \cup engine.page.deltas,
              AfterPage(engine, engine.page))
    /\ RestUnchanged

\* The request or the sink fails: nothing is stored, and the timer is set.
SyncFails ==
    /\ engine.pc # "none"
    /\ faults < MaxFaults
    /\ faults' = faults + 1
    /\ Client(cursor, applied, handleFailure(engine))
    /\ UNCHANGED <<head, outbox, runs, sent, socket, slots, secret, authorized>>

RetryFires ==
    /\ engine.retry
    /\ Client(cursor, applied, requestSync([engine EXCEPT !.retry = FALSE]))
    /\ RestUnchanged

\* stop() and a new engine on the same tab: what was in flight is dropped, and
\* without session storage the cursor is gone.
Remount ==
    /\ faults < MaxFaults /\ ~engine.terminal
    /\ faults' = faults + 1
    /\ \E kept \in {cursor, NoCursor} : Client(kept, applied, Begin(IdleEngine, kept))
    /\ socket' = NoSocket
    /\ slots' = IF socket.status = "open" THEN [slots EXCEPT !.zombies = @ + 1] ELSE slots
    /\ slots'.zombies <= MaxConnections
    /\ UNCHANGED <<head, outbox, runs, sent, secret, authorized>>

-----------------------------------------------------------------------------
(* The socket: web/src/shared/realtime and the API's gateway.              *)

UsedSlots == slots.zombies + slots.leaked + (IF socket.status = "open" THEN 1 ELSE 0)

SocketStep(s, e) == socket' = s /\ engine' = e

SocketFrame == UNCHANGED <<head, outboxVars, cursor, applied, slots, secret, authorized>>

\* Session, verified handle and active installation; the handshakes' rate
\* limits only delay an attempt.
authorizeUpgrade == authorized

reserveInstallationConnection == UsedSlots < MaxConnections

\* HELLO goes out and the heartbeat timer is set.
acceptConnection == [NoSocket EXCEPT !.status = "open"]

\* HELLO wakes the engine.
connect ==
    /\ socket.status = "down" /\ authorizeUpgrade /\ reserveInstallationConnection
    /\ SocketStep(acceptConnection, requestSync(engine))
    /\ SocketFrame

\* The client has gone while the upgrade was being authorized: the library
\* destroys the socket without calling back, and the slot is never released.
UpgradeAborted ==
    /\ socket.status = "down" /\ authorizeUpgrade /\ reserveInstallationConnection
    /\ slots.leaked < MaxLeaks
    /\ slots' = [slots EXCEPT !.leaked = @ + 1]
    /\ UNCHANGED <<head, outboxVars, cursor, applied, engine, socket, secret, authorized>>

\* Without authorization the bootstrap or the upgrade is refused for good.
ConnectRefused ==
    /\ socket.status = "down" /\ ~authorizeUpgrade
    /\ SocketStep([NoSocket EXCEPT !.status = "ended"], engine)
    /\ SocketFrame

\* The network breaks: the client knows, the gateway does not yet.
ConnectionBreaks ==
    /\ socket.status = "open" /\ faults < MaxFaults
    /\ faults' = faults + 1
    /\ socket' = NoSocket
    /\ slots' = [slots EXCEPT !.zombies = @ + 1]
    /\ UNCHANGED <<head, outbox, runs, sent, cursor, applied, engine, secret, authorized>>

\* The heartbeat timeout closes a connection whose client is gone.
ReapConnection ==
    /\ slots.zombies > 0
    /\ slots' = [slots EXCEPT !.zombies = @ - 1]
    /\ UNCHANGED <<head, outboxVars, cursor, applied, engine, socket, secret, authorized>>

\* The gateway closes on a late PONG (4001) or when it cannot revalidate
\* (1013); the client reconnects.
GatewayCloses ==
    /\ socket.status = "open"
    /\ socket.expected # 0 \/ socket.checking
    /\ faults < MaxFaults
    /\ faults' = faults + 1
    /\ socket' = NoSocket
    /\ UNCHANGED <<head, outbox, runs, sent, cursor, applied, engine, slots, secret, authorized>>

\* The timer fires; revalidateConnection begins.
heartbeat ==
    /\ socket.status = "open" /\ ~socket.checking
    /\ SocketStep([socket EXCEPT !.checking = TRUE], engine)
    /\ SocketFrame

\* The next identifier: two tell a PONG from the one before it.
FreshId == 3 - socket.last

SendHeartbeat(s) ==
    [s EXCEPT !.checking = FALSE, !.expected = FreshId, !.last = FreshId,
              !.toClient = Append(@, FreshId)]

(* Fault: a heartbeat is sent while another is unanswered. *)
RevalidatedSendsAlways ==
    /\ socket.status = "open" /\ socket.checking /\ Len(socket.toClient) < 2
    /\ SocketStep(IF authorized THEN SendHeartbeat(socket)
                  ELSE [NoSocket EXCEPT !.status = "ended"], engine)
    /\ SocketFrame

\* The session, the handle and the installation, read again.
revalidateConnection == authorized

\* Revalidation has answered: the connection ends (4002, 4003), or a heartbeat
\* goes out unless one is unanswered.
Revalidated ==
    /\ socket.status = "open" /\ socket.checking /\ Len(socket.toClient) < 2
    /\ SocketStep(IF ~revalidateConnection THEN [NoSocket EXCEPT !.status = "ended"]
                  ELSE IF socket.expected = 0 THEN SendHeartbeat(socket)
                  ELSE [socket EXCEPT !.checking = FALSE], engine)
    /\ SocketFrame

\* The client answers a heartbeat with its PONG and syncs.
ClientFrame ==
    /\ socket.status = "open" /\ socket.toClient # <<>>
    /\ SocketStep([socket EXCEPT !.toClient = Tail(@),
                                 !.toServer = Append(@, Head(socket.toClient))],
                  requestSync(engine))
    /\ SocketFrame

\* A PONG that is not the expected one closes the connection for good (4004).
handleClientMessage ==
    /\ socket.status = "open" /\ socket.toServer # <<>>
    /\ SocketStep(IF Head(socket.toServer) = socket.expected
                  THEN [socket EXCEPT !.toServer = Tail(@), !.expected = 0]
                  ELSE [NoSocket EXCEPT !.status = "ended"], engine)
    /\ SocketFrame

\* online, pageshow and visibilitychange.
WokenByBrowser ==
    /\ engine.pc = "none" /\ faults < MaxFaults
    /\ faults' = faults + 1
    /\ engine' = requestSync(engine)
    /\ UNCHANGED <<head, outbox, runs, sent, cursor, applied, socket, slots, secret, authorized>>

-----------------------------------------------------------------------------
(* The environment.                                                        *)

RevokeAccess ==
    /\ authorized
    /\ authorized' = FALSE
    /\ UNCHANGED <<head, outboxVars, cursor, applied, engine, socket, slots, secret>>

ChangeSecret ==
    /\ secret <= MaxSecrets
    /\ secret' = secret + 1
    /\ UNCHANGED <<head, outboxVars, cursor, applied, engine, socket, slots, authorized>>

\* A hint that a dispatcher published arrives, once more or late.
HintArrives ==
    /\ socket.status = "open" /\ head > 0
    /\ SocketStep(socket, requestSync(engine))
    /\ SocketFrame

TabStep ==
    \/ ReadPage \/ ReadStale \/ ReadUnauthorized \/ ApplyDeltas \/ SyncFails \/ RetryFires
    \/ Remount \/ WokenByBrowser \/ HintArrives
    \/ connect \/ UpgradeAborted \/ ConnectRefused \/ ConnectionBreaks \/ ReapConnection
    \/ GatewayCloses \/ heartbeat \/ Revalidated \/ ClientFrame \/ handleClientMessage
    \/ RevokeAccess \/ ChangeSecret

SyncNext ==
    /\ UNCHANGED tab
    /\ \/ AppendEvent /\ UNCHANGED clientVars
       \/ ~tab /\ DispatchStep /\ UNCHANGED clientVars
       \/ tab /\ TabStep

SyncInit == OutboxInit /\ ClientInit

SyncSpec == SyncInit /\ [][SyncNext]_syncVars

\* The worker's timer runs runOnce; leases and backoffs run out; requests are
\* answered or time out; the socket's timers fire.
SyncFairness ==
    /\ \A d \in Dispatchers :
           WF_syncVars(~tab /\ DispatcherStep(d) /\ UNCHANGED <<clientVars, tab>>)
    /\ \A e \in Events :
           WF_syncVars(/\ ~tab /\ (BackoffElapses(e) \/ OrphanExpires(e))
                       /\ UNCHANGED <<clientVars, tab>>)
    /\ WF_syncVars(/\ tab /\ UNCHANGED tab
                   /\ ReadPage \/ ReadStale \/ ReadUnauthorized \/ ApplyDeltas)
    /\ WF_syncVars(tab /\ RetryFires /\ UNCHANGED tab)
    /\ WF_syncVars(tab /\ connect /\ UNCHANGED tab)
    /\ WF_syncVars(tab /\ ReapConnection /\ UNCHANGED tab)
    /\ WF_syncVars(tab /\ (heartbeat \/ Revalidated) /\ UNCHANGED tab)
    /\ WF_syncVars(tab /\ ClientFrame /\ UNCHANGED tab)
    /\ WF_syncVars(tab /\ handleClientMessage /\ UNCHANGED tab)

FairSyncSpec == SyncSpec /\ SyncFairness

-----------------------------------------------------------------------------
\* The events the user may read, by their rank among these.
Rank(p) == Cardinality((1..p) \ Ineligible)

Log == INSTANCE EventLog WITH
    length <- Rank(head),
    seen <- {Rank(p) : p \in applied},
    entitled <- tab /\ authorized

\* The client's replica is always a prefix of the user's stream, and while
\* access lasts every event gets there, although hints are lost, sockets
\* break, requests fail and cursors become invalid.
ImplementsEventLog == Log!LogSpec

\* A tab whose session and installation are valid and that answers every
\* heartbeat is never disconnected for good.
HonestClientKept == authorized => socket.status # "ended"

\* "There is no terminal transport-failure state that can permanently hide a
\* committed event": every event with recipients is published some time,
\* whatever the dispatchers that died or lost their leases under it; and once
\* its publication is recorded it is never pending again, since a dispatcher
\* that lost its lease must not undo its successor's work.
EveryEventPublished ==
    /\ \A e \in Events \ NoRecipients :
          (~tab /\ e <= head /\ outbox[e].status # "NONE") ~> (e \in sent)
    /\ [][\A e \in Events : outbox[e].status = "PUBLISHED" =>
             outbox'[e].status \in {"PUBLISHED", "NONE"}]_syncVars
=============================================================================

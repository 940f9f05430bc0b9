------------------------------ MODULE Handles ------------------------------
(***************************************************************************)
(* The registry of public handles and the messages that mention them.  An  *)
(* account reserves one handle until its address is verified; a            *)
(* reservation that lapsed may be taken over by another account.  A        *)
(* message names handles; their resolution is frozen in its mention rows   *)
(* and decides whether it is answered in the chat or planned by            *)
(* orchestration.  A submission may be repeated under its clientRequestId. *)
(***************************************************************************)
EXTENDS Integers, Sequences, FiniteSets

CONSTANTS Accounts,      \* users
          Authors,       \* bound: users that write messages
          HandleNames,   \* normalised handles
          Claimers,      \* concurrent calls of claim, activateVerified, persist
          MaxHandles     \* handle rows ever created

ASSUME HandlesAssumption == Authors \subseteq Accounts

VARIABLES
    handleRow,    \* id -> handle row; rows deleted are taken out of the domain
    handleIds,    \* number of rows created
    verified,     \* accounts whose address is verified
    profileOf,    \* account -> handle id of its public profile, or 0
    claim,        \* call -> what it is doing and what it has read
    posted        \* author -> route -> mentions of the message stored under the
                  \*   client's request id, or NotPosted

handleVars == <<handleRow, handleIds, verified, profileOf, claim, posted>>

NoHandleClaim == [at |-> "idle", user |-> "none", name |-> "none", id |-> 0, status |-> "none",
                  ids |-> {}, route |-> "none"]
Routes == {"CHAT", "ORCHESTRATION"}
NotPosted == {-1}

HandlesInit ==
    /\ handleRow = <<>>
    /\ handleIds = 0
    /\ verified = {}
    /\ profileOf = [u \in Accounts |-> 0]
    /\ claim = [c \in Claimers |-> NoHandleClaim]
    /\ posted = [u \in Accounts |-> [t \in Routes |-> NotPosted]]

----------------------------------------------------------------------------
Named(n) == {i \in DOMAIN handleRow : handleRow[i].name = n}
readForUser(u) == {i \in DOMAIN handleRow : handleRow[i].user = u}
Without(f, ids) == [i \in DOMAIN f \ ids |-> f[i]]
\* The foreign key of public_profile cascades when its handle is deleted.
Cascade(ids) == [u \in Accounts |-> IF profileOf[u] \in ids THEN 0 ELSE profileOf[u]]
SetClaim(c, v) == claim' = [claim EXCEPT ![c] = v]
StatusOf(u) == IF u \in verified THEN "ACTIVE" ELSE "PENDING"
\* The row in this status, its reservation no longer running out.  reset is
\* for the properties: a handle that was ACTIVE is written PENDING again.
Confirmed(row, status) ==
    [row EXCEPT !.status = status, !.lapsed = FALSE, !.reset = (status = "PENDING")]
Lapsed(i) == handleRow[i].status = "PENDING" /\ handleRow[i].lapsed

\* ensurePublicProfile, of an account whose handle is written in this status:
\* a profile that exists must belong to this handle.
ensurePublicProfile(u, i, status, profiles) ==
    IF status = "ACTIVE" /\ profiles[u] = 0 THEN [profiles EXCEPT ![u] = i] ELSE profiles

VerifyEmail(u) ==
    /\ u \notin verified
    /\ verified' = verified \cup {u}
    /\ UNCHANGED <<handleRow, handleIds, profileOf, claim, posted>>

\* A day passes without the reservation being confirmed.
ReservationLapses(i) ==
    /\ handleRow[i].status = "PENDING" /\ ~handleRow[i].lapsed
    /\ handleRow' = [handleRow EXCEPT ![i].lapsed = TRUE]
    /\ UNCHANGED <<handleIds, verified, profileOf, claim, posted>>

\* availability: a lapsed reservation of the name is deleted on the way, by
\* one conditional statement.
cleanupExpiredPending(n) ==
    LET gone == {i \in Named(n) : Lapsed(i)} IN
    /\ gone /= {}
    /\ handleRow' = Without(handleRow, gone)
    /\ profileOf' = Cascade(gone)
    /\ UNCHANGED <<handleIds, verified, claim, posted>>

\* claim: the account is read first, and whether its address is verified
\* decides what every later statement of the transaction writes.
claimHandle(c, u, n) ==
    /\ claim[c] = NoHandleClaim
    /\ SetClaim(c, [NoHandleClaim EXCEPT !.at = "claiming", !.user = u, !.name = n,
                                         !.status = StatusOf(u)])
    /\ UNCHANGED <<handleRow, handleIds, verified, profileOf, posted>>

\* Then its own handle: one of another name ends the claim, this one is
\* written if its status is not the one the account's read calls for.
readOwned(c) ==
    LET own == readForUser(claim[c].user) IN
    /\ claim[c].at = "claiming"
    /\ \/ /\ own = {}
          /\ SetClaim(c, [claim[c] EXCEPT !.at = "releasing"])
       \/ \E i \in own :
             SetClaim(c, IF handleRow[i].name /= claim[c].name THEN NoHandleClaim
                         ELSE [claim[c] EXCEPT !.id = i,
                                  !.at = IF handleRow[i].status = claim[c].status
                                         THEN "confirming" ELSE "rewriting"])
    /\ UNCHANGED <<handleRow, handleIds, verified, profileOf, posted>>

\* The write is by account, of whatever row it has now; the profile is for the
\* row that was read.  Either fails the transaction if its row is gone.
writeOwned(c) ==
    LET u == claim[c].user
        i == claim[c].id
        status == claim[c].status
        rewrites == claim[c].at = "rewriting" IN
    /\ claim[c].at \in {"rewriting", "confirming"}
    /\ SetClaim(c, NoHandleClaim)
    /\ IF /\ rewrites => readForUser(u) /= {}
          /\ status = "ACTIVE" => i \in DOMAIN handleRow /\ profileOf[u] \in {0, i}
       THEN /\ handleRow' = [k \in DOMAIN handleRow |->
                  IF rewrites /\ k \in readForUser(u) THEN Confirmed(handleRow[k], status)
                                                     ELSE handleRow[k]]
            /\ profileOf' = ensurePublicProfile(u, i, status, profileOf)
       ELSE UNCHANGED <<handleRow, profileOf>>
    /\ UNCHANGED <<handleIds, verified, posted>>

\* An account without a handle: the row that holds the name is looked up, and
\* must be a lapsed reservation of another account.
readNamed(c) ==
    LET taken == Named(claim[c].name) IN
    /\ claim[c].at = "releasing"
    /\ \/ /\ taken = {}
          /\ SetClaim(c, [claim[c] EXCEPT !.at = "creating"])
       \/ \E i \in taken :
             SetClaim(c, IF Lapsed(i) /\ handleRow[i].user /= claim[c].user
                         THEN [claim[c] EXCEPT !.at = "creating", !.id = i] ELSE NoHandleClaim)
    /\ UNCHANGED <<handleRow, handleIds, verified, profileOf, posted>>

\* releaseExpiredExactHandle deletes the row that was seen lapsed, whatever
\* became of it since; a row that is gone fails the transaction.
releaseExpiredExactHandle(i) == Without(handleRow, {i})

\* claim, last part: the old row goes and the new one is created, unless the
\* name or the account got one in the meantime (the unique keys).
CreateHandle(c) ==
    LET u == claim[c].user
        n == claim[c].name
        status == claim[c].status
        old == claim[c].id
        i == handleIds + 1
        kept == releaseExpiredExactHandle(old) IN
    /\ claim[c].at = "creating"
    /\ SetClaim(c, NoHandleClaim)
    /\ IF /\ old = 0 \/ old \in DOMAIN handleRow
          /\ Named(n) \subseteq {old} /\ readForUser(u) = {}
          /\ handleIds < MaxHandles
       THEN /\ handleRow' = [k \in DOMAIN kept \cup {i} |->
                  IF k = i THEN [name |-> n, user |-> u, status |-> status, lapsed |-> FALSE,
                                 reset |-> FALSE]
                           ELSE kept[k]]
            /\ handleIds' = i
            /\ profileOf' = ensurePublicProfile(u, i, status, Cascade({old} \ {0}))
       ELSE UNCHANGED <<handleRow, handleIds, profileOf>>
    /\ UNCHANGED <<verified, posted>>

\* activateVerified reads the handle and, in a transaction of its own, makes
\* it active if it is still this account's reservation.
activateVerified(c, u) ==
    /\ claim[c] = NoHandleClaim /\ u \in verified
    /\ \E i \in readForUser(u) :
         /\ handleRow[i].status = "PENDING"
         /\ SetClaim(c, [NoHandleClaim EXCEPT !.at = "activating", !.user = u, !.id = i])
    /\ UNCHANGED <<handleRow, handleIds, verified, profileOf, posted>>

AsReadBefore(i) == TRUE
StillReserved(i) ==
    i \in DOMAIN handleRow /\ handleRow[i].status = "PENDING"

Activate(c) ==
    LET i == claim[c].id IN
    /\ claim[c].at = "activating"
    /\ SetClaim(c, NoHandleClaim)
    /\ IF StillReserved(i)
       THEN /\ handleRow' = [handleRow EXCEPT ![i] = Confirmed(@, "ACTIVE")]
            /\ profileOf' = ensurePublicProfile(claim[c].user, i, "ACTIVE", profileOf)
       ELSE UNCHANGED <<handleRow, profileOf>>
    /\ UNCHANGED <<handleIds, verified, posted>>

----------------------------------------------------------------------------
(* ChatMentionRoutingService *)

\* resolveMentions: every handle named is active under the name written, and
\* a user may only mention the author.  VIMLA stands for the handles of the
\* system agent and the models, which are always active here.
Vimla == 0
resolveMentions(u, ids) ==
    \A i \in ids \ {Vimla} :
        i \in DOMAIN handleRow /\ handleRow[i].status = "ACTIVE" /\ handleRow[i].user = u

routeFor(ids) == IF Vimla \in ids THEN "ORCHESTRATION" ELSE "CHAT"

\* sendMessage resolves and routes before it stores anything.
SendMessage(c, u, ids) ==
    /\ claim[c] = NoHandleClaim
    /\ resolveMentions(u, ids)
    /\ SetClaim(c, [NoHandleClaim EXCEPT !.at = "sending", !.user = u, !.ids = ids,
                                   !.route = routeFor(ids)])
    /\ UNCHANGED <<handleRow, handleIds, verified, profileOf, posted>>

\* The message of this author stored by this route has these mentions.
Post(u, route, ids) == posted' = [posted EXCEPT ![u] = [posted[u] EXCEPT ![route] = ids]]

\* CHAT: streamMessage stores the message and answers it (TextChat); only then
\* are its mentions attached, rows already there being skipped.
StreamMessage(c) ==
    LET u == claim[c].user IN
    /\ claim[c].at = "sending" /\ claim[c].route = "CHAT"
    /\ IF posted[u].CHAT = NotPosted THEN Post(u, "CHAT", {}) ELSE UNCHANGED posted
    /\ SetClaim(c, [claim[c] EXCEPT !.at = "streamed"])
    /\ UNCHANGED <<handleRow, handleIds, verified, profileOf>>

attachToAiRequest(c) ==
    /\ claim[c].at = "streamed"
    /\ Post(claim[c].user, "CHAT", posted[claim[c].user].CHAT \cup claim[c].ids)
    /\ SetClaim(c, NoHandleClaim)
    /\ UNCHANGED <<handleRow, handleIds, verified, profileOf>>

sameResolvedMentions(stored, ids) == stored = ids

\* ORCHESTRATION: persist stores message, mentions and submission in one
\* transaction; a repeated request is answered from what is stored, and only
\* if it says the same.
persist(c) ==
    LET u == claim[c].user
        stored == posted[u].ORCHESTRATION IN
    /\ claim[c].at = "sending" /\ claim[c].route = "ORCHESTRATION"
    /\ IF stored = NotPosted THEN Post(u, "ORCHESTRATION", claim[c].ids) ELSE UNCHANGED posted
    /\ SetClaim(c, IF stored = NotPosted \/ sameResolvedMentions(stored, claim[c].ids)
                   THEN [claim[c] EXCEPT !.at = "accepted"] ELSE NoHandleClaim)
    /\ UNCHANGED <<handleRow, handleIds, verified, profileOf>>

\* The route event has been written and the message is planned, or the
\* connection is gone; either way the call ends.
CallEnds(c) ==
    /\ claim[c].at \in {"accepted", "streamed", "sending"}
    /\ SetClaim(c, NoHandleClaim)
    /\ UNCHANGED <<handleRow, handleIds, verified, profileOf, posted>>

HandlesNext ==
    \/ \E u \in Accounts : VerifyEmail(u)
    \/ \E i \in DOMAIN handleRow : ReservationLapses(i)
    \/ \E n \in HandleNames : cleanupExpiredPending(n)
    \/ \E c \in Claimers :
        \/ \E u \in Accounts, n \in HandleNames : claimHandle(c, u, n)
        \/ readOwned(c) \/ writeOwned(c) \/ readNamed(c) \/ CreateHandle(c)
        \/ \E u \in Accounts : activateVerified(c, u)
        \/ Activate(c)
        \/ \E u \in Authors : \E ids \in SUBSET ({Vimla} \cup readForUser(u)) \ {{}} :
              SendMessage(c, u, ids)
        \/ StreamMessage(c) \/ attachToAiRequest(c) \/ persist(c) \/ CallEnds(c)

\* However claims, takeovers, confirmations and retries interleave: an active
\* handle is the handle of its account's public profile; a profile is that of a
\* verified account and of its own handle, which is active unless a claim that
\* had read the address before it was verified made it a reservation again; no
\* name and no account has two rows; and every accepted repetition of a request
\* names the mentions stored with the message that was planned.
ProfilesMatchHandles ==
    /\ \A u \in Accounts : profileOf[u] /= 0 =>
          /\ u \in verified /\ profileOf[u] \in DOMAIN handleRow
          /\ handleRow[profileOf[u]].user = u
          /\ handleRow[profileOf[u]].status = "ACTIVE" \/ handleRow[profileOf[u]].reset
    /\ \A i, j \in DOMAIN handleRow :
          /\ handleRow[i].status = "ACTIVE" => profileOf[handleRow[i].user] = i
          /\ handleRow[i].name = handleRow[j].name \/ handleRow[i].user = handleRow[j].user => i = j
    /\ \A c \in Claimers : claim[c].at = "accepted" =>
          posted[claim[c].user].ORCHESTRATION = claim[c].ids
=============================================================================

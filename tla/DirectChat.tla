----------------------------- MODULE DirectChat -----------------------------
(***************************************************************************)
(* The server's side of one direct conversation: blocks and the            *)
(* interaction epoch, the members' devices, and the two stages of a send   *)
(* (packages/direct-chats and packages/trust).  A message is known by its  *)
(* clientMessageId; its envelopes are the ratchet version that encrypted   *)
(* it for each device, since equal versions mean equal keys and texts.     *)
(***************************************************************************)
EXTENDS Naturals, FiniteSets, Sequences, SequencesExt, Functions

CONSTANTS
    Ids,            \* clientMessageIds of the sender's browser
    Peers,          \* the peer's devices
    MaxEpoch,       \* bound on blocks and unblocks
    MaxRevoked      \* bound on revoked devices

Mine == "mine"      \* the sender's device
Members == {"me", "peer"}

VARIABLES
    blockers,   \* members that block the other one
    epoch,      \* directConversation.interactionEpoch
    devices,    \* userCryptoDevice, by device
    messages,   \* directMessage, by clientMessageId
    requests    \* sends the server has not answered

serverVars == <<blockers, epoch, devices, messages, requests>>

AllDevices == Peers \cup {Mine}

NoMessage == [epoch |-> MaxEpoch + 1, env |-> <<>>]

\* The conversation exists and each member has registered a device.
DirectChatInit ==
    /\ blockers = {} /\ epoch = 0
    /\ devices \in [AllDevices -> {"absent", "active", "revoked"}]
    /\ devices[Mine] = "active"
    /\ Cardinality({d \in Peers : devices[d] = "active"}) = 1
    /\ messages = [id \in Ids |-> NoMessage]
    /\ requests = {}

Active == {d \in AllDevices : devices[d] = "active"}

canInteract == blockers = {}

-----------------------------------------------------------------------------
(* Trust and devices.                                                      *)

\* The first block of a member and every unblock end the interaction epoch.
bumpDirectInteractionEpoch == epoch < MaxEpoch /\ epoch' = epoch + 1

blockUser(u) ==
    /\ u \notin blockers
    /\ blockers' = blockers \cup {u}
    /\ bumpDirectInteractionEpoch
    /\ UNCHANGED <<devices, messages, requests>>

(* Fault: the unblock restores the interaction that the block ended. *)
UnblockKeepsEpoch(u) ==
    /\ u \in blockers /\ epoch < MaxEpoch
    /\ blockers' = blockers \ {u}
    /\ epoch' = IF blockers' = {} THEN epoch - 1 ELSE epoch
    /\ UNCHANGED <<devices, messages, requests>>

unblockUser(u) ==
    /\ u \in blockers
    /\ blockers' = blockers \ {u}
    /\ bumpDirectInteractionEpoch
    /\ UNCHANGED <<devices, messages, requests>>

register(d) ==
    /\ devices[d] = "absent"
    /\ devices' = [devices EXCEPT ![d] = "active"]
    /\ UNCHANGED <<blockers, epoch, messages, requests>>

revoke(d) ==
    /\ devices[d] = "active"
    /\ Cardinality({x \in AllDevices : devices[x] = "revoked"}) < MaxRevoked
    /\ devices' = [devices EXCEPT ![d] = "revoked"]
    /\ UNCHANGED <<blockers, epoch, messages, requests>>

-----------------------------------------------------------------------------
(* Sending.  The answers are the API's error codes.                        *)

\* prepareSend, under the pair's lock.
prepareSend ==
    CASE devices[Mine] # "active" -> "revoked"
      [] devices[Mine] = "active" /\ ~canInteract -> "forbidden"
      [] OTHER -> "ok"

\* The message is already there: the same envelopes, or a refusal.
findExactReplay(r) ==
    IF messages[r.id] = NoMessage THEN "none"
    ELSE IF messages[r.id] = [epoch |-> r.epoch, env |-> r.env] THEN "ok" ELSE "tampered"

\* What sendWithStatus checks before its transaction.
Precheck(r) ==
    CASE findExactReplay(r) # "none" -> findExactReplay(r)
      [] findExactReplay(r) = "none" /\ devices[Mine] # "active" -> "revoked"
      [] OTHER -> IF Active \subseteq {Mine} THEN "recipient_missing"
                  ELSE IF DOMAIN r.env # Active THEN "validation" ELSE "pass"

\* What it decides inside, under the lock that blocks and unblocks take.
Decide(r) ==
    CASE findExactReplay(r) # "none" -> findExactReplay(r)
      [] findExactReplay(r) = "none" /\ ~canInteract -> "forbidden"
      [] OTHER -> IF epoch # r.epoch THEN "conflict" ELSE "created"

\* lookupOwnMessage.
lookupOwnMessage(id) ==
    IF devices[Mine] # "active" THEN "revoked"
    ELSE IF messages[id] = NoMessage THEN "not_found" ELSE "committed"
=============================================================================

----------------------------- MODULE LocalDevice ----------------------------
(***************************************************************************)
(* The cryptographic identity of one browser: ensureLocalDevice in several *)
(* tabs under an expiring lease, the key its secrets are wrapped with and  *)
(* the migration of a row from before there was one, the wipe of the local *)
(* data, and on the server the device with its one-time prekeys            *)
(* (session.ts, crypto-store.ts, local-protection.ts, local-data.ts,       *)
(* packages/direct-chats device-service).                                  *)
(***************************************************************************)
EXTENDS Naturals, FiniteSets

CONSTANTS
    BootTabs,
    DeviceIds,      \* identities that the browser may generate
    Otks,           \* one-time prekey ids, numbers
    Readers,        \* prekeyBundles transactions that may be open at once
    MaxLeases,      \* bound on acquired leases
    MaxWipes        \* bound on wipes of the local data

(* What is there when there is no device is not an id. *)
ASSUME LocalDeviceAssumption == "none" \notin DeviceIds /\ Otks \subseteq Nat

VARIABLES
    stored,     \* the "local" row of the device store; key 0 is unprotected
    keyring,    \* the wrapping key in the keyring, 0 if none, and how many were made
    lease,      \* the row of ratchetLocks
    boots,      \* ensureLocalDevice, per tab
    latch,      \* the revocation latch in localStorage
    posts,      \* registrations the server has not worked on
    registry,   \* userCryptoDevice
    otks,       \* direct_one_time_prekey, by device and key
    rotating,   \* the device whose rotation has deleted and not yet created
    claims,     \* the row that an open transaction has locked, by reader
    given,      \* history: how often a key was handed out
    lost,       \* history: identities whose material was cleared
    overlapped, \* history: two tabs were clearing at once
    leases,
    wipes

deviceVars == <<stored, keyring, lease, boots, latch, posts, registry, otks, rotating, claims,
                given, lost, overlapped, leases, wipes>>

NoDevice == [id |-> "none", state |-> "none", key |-> 0]
FreeLease == [owner |-> 0, live |-> FALSE]
IdleBoot == [pc |-> "idle", id |-> "none", state |-> "none", owner |-> 0, key |-> 0,
             for |-> "ensure"]
NoClaim == [id |-> "none", key |-> 0]

\* The upgrade of the database marks the row of an earlier version, which
\* says nothing of its registration.
LegacyDevice(d) == [id |-> d, state |-> "unmarked", key |-> 0]

\* A new browser, or one that was used with an earlier version.
LocalDeviceInit ==
    /\ \/ stored = NoDevice /\ registry = [d \in DeviceIds |-> "absent"]
       \/ \E d \in DeviceIds :
             /\ stored = LegacyDevice(d)
             /\ registry = [x \in DeviceIds |-> IF x = d THEN "active" ELSE "absent"]
    /\ keyring = [now |-> 0, made |-> 0] /\ overlapped = FALSE
    /\ lease = FreeLease /\ latch = FALSE
    /\ boots = [t \in BootTabs |-> IdleBoot] /\ posts = {}
    /\ otks = [d \in DeviceIds |-> [k \in Otks |-> "none"]]
    /\ given = [d \in DeviceIds |-> [k \in Otks |-> 0]]
    /\ rotating = "none" /\ claims = [r \in Readers |-> NoClaim]
    /\ lost = {} /\ leases = 0 /\ wipes = 0

LocalSame == UNCHANGED <<stored, keyring, lease, latch, lost, overlapped, leases, wipes>>
RemoteSame == UNCHANGED <<posts, registry, otks, rotating, claims, given>>
Boot(t, new) == boots' = [boots EXCEPT ![t] = new]

-----------------------------------------------------------------------------
(* The lease: an owner is new for each acquisition.                        *)

\* One transaction reads the record, decides and puts the next one.
mutateRatchetLease(next) == lease' = next

acquireRatchetLeaseRecord(t) ==
    /\ ~lease.live /\ leases < MaxLeases
    /\ leases' = leases + 1
    /\ mutateRatchetLease([owner |-> leases + 1, live |-> TRUE])

\* The heartbeat came too late, or the longest time of holding is over.
LeaseExpires ==
    /\ lease.live
    /\ lease' = [lease EXCEPT !.live = FALSE]
    /\ UNCHANGED <<stored, keyring, boots, latch, lost, overlapped, leases, wipes>> /\ RemoteSame

assertActiveCoordinationLease(t) == lease.live /\ lease.owner = boots[t].owner

releaseRatchetLease(t) ==
    lease' = IF lease.owner = boots[t].owner THEN [lease EXCEPT !.live = FALSE] ELSE lease

\* ensureLocalDevice ends, with a device or with an error.
BootEnds(t) ==
    /\ releaseRatchetLease(t)
    /\ Boot(t, IdleBoot)

-----------------------------------------------------------------------------
(* Protection at rest.                                                     *)

\* The key that is there, or a new one.
localWrappingKey ==
    IF keyring.now # 0 THEN keyring ELSE [now |-> keyring.made + 1, made |-> keyring.made + 1]

deviceMaterialNeedsProtection(row) == row.key = 0

unprotectDeviceMaterial(row) == localWrappingKey.now = row.key

-----------------------------------------------------------------------------
(* ensureLocalDevice.                                                      *)

BeginEnsure(t) ==
    /\ boots[t].pc = "idle" /\ ~latch
    /\ stored.state = "registered" => deviceMaterialNeedsProtection(stored)
    /\ acquireRatchetLeaseRecord(t)
    /\ Boot(t, [IdleBoot EXCEPT !.pc = "load", !.owner = leases + 1])
    /\ UNCHANGED <<stored, keyring, latch, lost, overlapped, wipes>> /\ RemoteSame

\* The device that was loaded: a wipe wants its id, ensureLocalDevice goes on
\* with it or makes a new identity.
DeviceLoaded(t, row) ==
    \/ /\ boots[t].for = "wipe"
       /\ Boot(t, [boots[t] EXCEPT !.pc = "freeze", !.id = row.id, !.state = row.state, !.key = 0])
       /\ UNCHANGED lease
    \/ /\ boots[t].for # "wipe" /\ (latch \/ row.state \in {"registered", "unmarked"})
       /\ BootEnds(t)
    \/ /\ boots[t].for # "wipe" /\ ~latch /\ row.state = "pending"
       /\ Boot(t, [boots[t] EXCEPT !.pc = "register", !.id = row.id, !.key = 0])
       /\ UNCHANGED lease
    \/ /\ boots[t].for # "wipe" /\ ~latch /\ row.state \notin {"registered", "unmarked", "pending"}
       /\ \E d \in DeviceIds :
             /\ d \notin lost \cup posts \cup {boots[u].id : u \in BootTabs}
             /\ registry[d] = "absent"
             /\ Boot(t, [boots[t] EXCEPT !.pc = "save", !.id = d])
       /\ UNCHANGED lease

\* A wipe does without the device.
LoadFails(t) == IF boots[t].for = "wipe" THEN DeviceLoaded(t, NoDevice) ELSE BootEnds(t)

loadDeviceMaterial(t) ==
    /\ boots[t].pc = "load"
    /\ \/ latch /\ LoadFails(t) /\ UNCHANGED keyring
       \/ ~latch /\ stored = NoDevice /\ DeviceLoaded(t, NoDevice) /\ UNCHANGED keyring
       \/ /\ ~latch /\ stored # NoDevice /\ deviceMaterialNeedsProtection(stored)
          /\ Boot(t, [boots[t] EXCEPT !.pc = "migrate", !.id = stored.id, !.state = stored.state])
          /\ UNCHANGED <<lease, keyring>>
       \/ /\ ~latch /\ ~deviceMaterialNeedsProtection(stored)
          /\ keyring' = localWrappingKey
          /\ IF unprotectDeviceMaterial(stored) THEN DeviceLoaded(t, stored) ELSE LoadFails(t)
    /\ UNCHANGED <<stored, latch, lost, overlapped, leases, wipes>> /\ RemoteSame

\* The secrets are encrypted before the transaction that stores them begins.
protectDeviceMaterial(t) ==
    /\ boots[t].pc \in {"migrate", "save", "registered"} /\ boots[t].key = 0
    /\ IF latch THEN LoadFails(t) /\ UNCHANGED keyring
       ELSE /\ keyring' = localWrappingKey
            /\ Boot(t, [boots[t] EXCEPT !.key = localWrappingKey.now])
            /\ UNCHANGED lease
    /\ UNCHANGED <<stored, latch, lost, overlapped, leases, wipes>> /\ RemoteSame

\* Only a row that is exactly as it was read is replaced.
migrateDeviceMaterial(t) ==
    /\ boots[t].pc = "migrate" /\ boots[t].key # 0
    /\ LET read == [id |-> boots[t].id, state |-> boots[t].state, key |-> 0] IN
       \/ latch /\ LoadFails(t) /\ UNCHANGED stored
       \/ /\ stored' = IF stored = read THEN [read EXCEPT !.key = boots[t].key] ELSE stored
          /\ DeviceLoaded(t, read)
    /\ UNCHANGED <<keyring, latch, lost, overlapped, leases, wipes>> /\ RemoteSame

(* Fault: the row is put without looking at the lease or the stored id. *)
SaveBlindly(t) == TRUE

\* saveDeviceMaterial compares the lease and the stored id in its transaction.
SaveAllowed(t) ==
    /\ assertActiveCoordinationLease(t)
    /\ stored = NoDevice \/ stored.id = boots[t].id

\* The latch keeps a connection from being opened, not one that is open from
\* its transaction.
saveDeviceMaterial(t) ==
    /\ boots[t].pc \in {"save", "registered"} /\ boots[t].key # 0
    /\ \/ (latch \/ ~SaveAllowed(t)) /\ BootEnds(t) /\ UNCHANGED stored
       \/ /\ SaveAllowed(t)
          /\ stored' = [id |-> boots[t].id, key |-> boots[t].key,
                        state |-> IF boots[t].pc = "save" THEN "pending" ELSE "registered"]
          /\ IF boots[t].pc = "save"
             THEN Boot(t, [boots[t] EXCEPT !.pc = "register", !.key = 0]) /\ UNCHANGED lease
             ELSE BootEnds(t)
    /\ UNCHANGED <<keyring, latch, lost, overlapped, leases, wipes>> /\ RemoteSame

\* The lease and the latch are read once more before the request goes out.
registerStoredDevice(t) ==
    /\ boots[t].pc = "register"
    /\ IF latch \/ ~assertActiveCoordinationLease(t)
       THEN BootEnds(t) /\ UNCHANGED posts
       ELSE /\ posts' = posts \cup {boots[t].id}
            /\ Boot(t, [boots[t] EXCEPT !.pc = "posted"]) /\ UNCHANGED lease
    /\ UNCHANGED <<stored, keyring, latch, lost, overlapped, leases, wipes>>
    /\ UNCHANGED <<registry, otks, rotating, claims, given>>

Clearing == {u \in BootTabs : boots[u].pc \in {"revoke", "clear", "clearKey"}}

\* The answer to the registration.  A request may also fail or be lost.
RegisterAnswered(t) ==
    /\ boots[t].pc = "posted"
    /\ \/ /\ boots[t].id \notin posts /\ registry[boots[t].id] = "active"
          /\ Boot(t, [boots[t] EXCEPT !.pc = "registered"])
          /\ UNCHANGED <<lease, latch, overlapped>>
       \/ /\ boots[t].id \notin posts /\ registry[boots[t].id] = "revoked"
          /\ latch' = TRUE /\ overlapped' = (overlapped \/ Clearing # {})
          /\ Boot(t, [boots[t] EXCEPT !.pc = "clear", !.for = "revoked"])
          /\ UNCHANGED lease
       \/ BootEnds(t) /\ UNCHANGED <<latch, overlapped>>
    /\ UNCHANGED <<stored, keyring, lost, leases, wipes>> /\ RemoteSame

-----------------------------------------------------------------------------
(* clearLocalDirectChatData: freeze every tab, revoke, clear, unfreeze.    *)

WipeBegins(t) ==
    /\ boots[t].pc = "idle" /\ wipes < MaxWipes
    /\ wipes' = wipes + 1
    /\ Boot(t, [IdleBoot EXCEPT !.pc = "load", !.for = "wipe"])
    /\ UNCHANGED <<stored, keyring, lease, latch, lost, overlapped, leases>> /\ RemoteSame

WipeFreezes(t) ==
    /\ boots[t].pc = "freeze"
    /\ latch' = TRUE /\ overlapped' = (overlapped \/ Clearing # {})
    /\ Boot(t, [boots[t] EXCEPT !.pc = IF boots[t].state = "registered"
                                      THEN "revoke" ELSE "clear"])
    /\ UNCHANGED <<stored, keyring, lease, lost, leases, wipes>> /\ RemoteSame

\* The revocation is best effort.
WipeRevokes(t) ==
    /\ boots[t].pc = "revoke"
    /\ \/ registry' = [registry EXCEPT ![boots[t].id] = "revoked"]
       \/ UNCHANGED registry
    /\ Boot(t, [boots[t] EXCEPT !.pc = "clear"])
    /\ LocalSame /\ UNCHANGED <<posts, otks, rotating, claims, given>>

\* The database goes first, with its leases.
clearLocalE2eeData(t) ==
    /\ boots[t].pc = "clear"
    /\ lost' = lost \cup ({stored.id} \ {"none"})
    /\ stored' = NoDevice /\ lease' = FreeLease
    /\ Boot(t, [boots[t] EXCEPT !.pc = "clearKey"])
    /\ UNCHANGED <<keyring, latch, overlapped, leases, wipes>> /\ RemoteSame

\* Then the wrapping key; after a wipe the tabs may go on.
clearLocalProtectionKey(t) ==
    /\ boots[t].pc = "clearKey"
    /\ keyring' = [keyring EXCEPT !.now = 0]
    /\ latch' = (latch /\ boots[t].for = "revoked")
    /\ Boot(t, IdleBoot)
    /\ UNCHANGED <<stored, lease, lost, overlapped, leases, wipes>> /\ RemoteSame

-----------------------------------------------------------------------------
(* The server: one transaction per registration, under the id's lock.      *)

\* Unused keys are deleted and the given ones created; a used one stays.
replaceUnusedPrekeys(d) ==
    [otks EXCEPT ![d] = [k \in Otks |-> IF @[k] = "used" THEN "used" ELSE "free"]]

Locked(d) == {claims[r].key : r \in {x \in Readers : claims[x].id = d}}

registerDevice(d) ==
    /\ d \in posts /\ Locked(d) = {}
    /\ posts' = posts \ {d}
    /\ IF registry[d] = "revoked" THEN UNCHANGED <<registry, otks>>
       ELSE /\ registry' = [registry EXCEPT ![d] = "active"]
            /\ otks' = replaceUnusedPrekeys(d)
    /\ LocalSame /\ UNCHANGED <<boots, rotating, claims, given>>

revokeDevice(d) ==
    /\ registry[d] = "active"
    /\ registry' = [registry EXCEPT ![d] = "revoked"]
    /\ LocalSame /\ UNCHANGED <<boots, posts, otks, rotating, claims, given>>

\* rotate is not one transaction: others run between its deletion and its
\* creation of keys.
RotateDeletes(d) ==
    /\ registry[d] = "active" /\ rotating = "none" /\ Locked(d) = {}
    /\ otks' = [otks EXCEPT ![d] = [k \in Otks |-> IF @[k] = "used" THEN "used" ELSE "none"]]
    /\ rotating' = d
    /\ LocalSame /\ UNCHANGED <<boots, posts, registry, claims, given>>

RotateCreates ==
    /\ rotating # "none"
    /\ otks' = replaceUnusedPrekeys(rotating)
    /\ rotating' = "none"
    /\ LocalSame /\ UNCHANGED <<boots, posts, registry, claims, given>>

\* The lowest unused key that nobody has locked, until the transaction ends.
consumePrekeyBundles(r, d) ==
    /\ claims[r] = NoClaim /\ registry[d] = "active"
    /\ LET free == {k \in Otks : otks[d][k] = "free"} \ Locked(d)
       IN  /\ free # {}
           /\ claims' = [claims EXCEPT ![r] = [id |-> d,
                  key |-> CHOOSE k \in free : \A j \in free : k <= j]]
    /\ LocalSame /\ UNCHANGED <<boots, posts, registry, otks, rotating, given>>

BundleCommits(r) ==
    /\ claims[r] # NoClaim
    /\ LET c == claims[r] IN
       \/ /\ otks' = [otks EXCEPT ![c.id] = [@ EXCEPT ![c.key] = "used"]]
          /\ given' = [given EXCEPT ![c.id] = [@ EXCEPT ![c.key] = given[c.id][c.key] + 1]]
       \/ UNCHANGED <<otks, given>>
    /\ claims' = [claims EXCEPT ![r] = NoClaim]
    /\ LocalSame /\ UNCHANGED <<boots, posts, registry, rotating>>

BootStep(t) ==
    \/ BeginEnsure(t) \/ loadDeviceMaterial(t) \/ protectDeviceMaterial(t)
    \/ migrateDeviceMaterial(t) \/ saveDeviceMaterial(t)
    \/ registerStoredDevice(t) \/ RegisterAnswered(t)
    \/ WipeBegins(t) \/ WipeFreezes(t) \/ WipeRevokes(t)
    \/ clearLocalE2eeData(t) \/ clearLocalProtectionKey(t)

LocalDeviceNext ==
    \/ \E t \in BootTabs : BootStep(t)
    \/ LeaseExpires \/ RotateCreates
    \/ \E d \in DeviceIds : registerDevice(d) \/ revokeDevice(d) \/ RotateDeletes(d)
    \/ \E r \in Readers : BundleCommits(r) \/ \E d \in DeviceIds : consumePrekeyBundles(r, d)

LocalDeviceSpec == LocalDeviceInit /\ [][LocalDeviceNext]_deviceVars

-----------------------------------------------------------------------------
\* Two tabs that start together, lose their leases, and retry a registration
\* whose answer was lost never leave the server with a device whose secret
\* keys this browser has not kept: only a wipe separates the two.  What was
\* wiped does not come back, not by a save nor by a migration that was under
\* way; and what is stored can be decrypted with the key in the keyring,
\* unless two tabs cleared the data at the same time.  A one-time prekey is
\* handed out once, across concurrent readers, repeated registrations and
\* rotations.
DeviceKeysHold ==
    /\ stored.id \notin lost
    /\ stored.key \in {0, keyring.now} \/ overlapped
    /\ \A d \in DeviceIds :
        /\ registry[d] = "active" \/ d \in posts => stored.id = d \/ d \in lost
        /\ \A k \in Otks : given[d][k] <= 1
=============================================================================

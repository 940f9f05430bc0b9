------------------------------- MODULE Memory -------------------------------
(***************************************************************************)
(* The durable memory of a user (packages/context/src/memory.ts).          *)
(*                                                                         *)
(* A memory item belongs to a slot of a scope; a slot has a current item,  *)
(* which later ones supersede.  Users write, correct and delete items, and *)
(* the extraction of chat messages (module Maintenance) puts what the      *)
(* model found into the same slots, at any time and any number of times.   *)
(* A transaction is one step; what a correction reads in one transaction   *)
(* and uses in the next is kept in editor.                                 *)
(***************************************************************************)
EXTENDS Naturals, Sequences, FiniteSets, SequencesExt

CONSTANTS
    Messages,       \* chat messages of the user
    Disclosed,      \* direct messages, of which a fact may be promoted
    PersonalSlots,  \* slots of the user's own scope
    ProjectSlots,   \* slots of a project the user is a member of
    Facts,
    MaxActive,      \* maxActivePersonalItems
    MaxItems,       \* bound: rows ever written
    MaxVersion      \* bound: edits of a message

ASSUME MemoryAssumption ==
    /\ MaxActive \in Nat /\ MaxVersion \in Nat \ {0}
    /\ Messages \cap Disclosed = {}

VARIABLES
    source,     \* the messages: there or gone, and their version (updatedAt)
    item,       \* MemoryItem, in the order of creation
    member,     \* the user is still a member of the project, with write access
    editor      \* the row a correction has read, 0 when none is under way

memoryVars == <<source, item, member, editor>>

Slots == PersonalSlots \cup ProjectSlots

UserOrigins == {"USER_EXPLICIT", "USER_CORRECTION", "E2EE_USER_DISCLOSURE"}

MemoryInit ==
    /\ source = [m \in Messages \cup Disclosed |-> [is |-> "there", ver |-> 1]]
    /\ item = <<>>
    /\ member = TRUE
    /\ editor = 0

-----------------------------------------------------------------------------
(* Evidence.                                                               *)

assertSourceRefValid(ref) == source[ref[1]].is = "there" /\ source[ref[1]].ver = ref[2]

sourceRefCurrent(ref) == source[ref[1]].is = "there" /\ source[ref[1]].ver = ref[2]

(* A fact the model found holds while one of its messages does; what a     *)
(* user disclosed holds while all of its sources do; what a user wrote has *)
(* no source but the user.                                                 *)
EvidenceCurrent(row) ==
    IF row.origin = "AUTO_EXTRACTION"
    THEN \E ref \in row.refs : sourceRefCurrent(ref)
    ELSE \A ref \in row.refs : sourceRefCurrent(ref)

ensureMemoryCurrent(row) == row.state = "ACTIVE" /\ ~row.expired /\ EvidenceCurrent(row)

invalidateIfActive(i) == [item EXCEPT ![i].state = "INVALIDATED"]

ActiveIn(slot) == {i \in DOMAIN item : item[i].slot = slot /\ item[i].state = "ACTIVE"}

-----------------------------------------------------------------------------
(* The one transaction that writes an item: ingestCandidate.               *)

Row(slot, fact, origin, refs, parent) ==
    [slot |-> slot, fact |-> fact, origin |-> origin, refs |-> refs, state |-> "ACTIVE",
     parent |-> parent, expired |-> FALSE, deleted |-> FALSE]

assertScopeWritable(slot) == slot \in PersonalSlots \/ member

memoryScopeReadable(slot) == slot \in PersonalSlots \/ member

ScopeOf(slot) == IF slot \in PersonalSlots THEN PersonalSlots ELSE ProjectSlots

StorageLimit(slot) ==
    Cardinality({i \in DOMAIN item : /\ item[i].slot \in ScopeOf(slot)
                                     /\ item[i].state = "ACTIVE" /\ ~item[i].expired}) >= MaxActive

(* Fault: a fact the model found replaces whatever holds the slot. *)
ReplacesAnything(old, origin, fact) == FALSE

KeptAgainst(old, origin, fact) ==
    origin = "AUTO_EXTRACTION" /\ old.origin \in UserOrigins

(* The items after a candidate: the same fact found again only adds to the *)
(* evidence; a row of the user's outlives what the model finds; an expired *)
(* row is closed and stays the parent; any other row is superseded.  An    *)
(* older finding may lose to a newer one (validFrom), which here is either *)
(* outcome.                                                                *)
Superseding(old, slot, fact, origin, refs) ==
    Append([item EXCEPT ![old].state =
                IF item[old].expired THEN "INVALIDATED" ELSE "SUPERSEDED"],
           Row(slot, fact, origin, refs, old))

ingestCandidate(slot, fact, origin, refs) ==
    /\ assertScopeWritable(slot)
    /\ \A ref \in refs : assertSourceRefValid(ref)
    /\ \/ /\ ActiveIn(slot) = {}
          /\ ~StorageLimit(slot)
          /\ item' = Append(item, Row(slot, fact, origin, refs, 0))
       \/ \E old \in ActiveIn(slot) :
            \/ /\ item[old].expired
               /\ ~StorageLimit(slot)
               /\ item' = Superseding(old, slot, fact, origin, refs)
            \/ /\ ~item[old].expired
               /\ origin = "AUTO_EXTRACTION" /\ item[old].origin = "AUTO_EXTRACTION"
               /\ item[old].fact = fact
               /\ item' = [item EXCEPT ![old].refs =
                             {ref \in @ : ref[1] \notin {new[1] : new \in refs}} \cup refs]
            \/ /\ ~item[old].expired
               /\ KeptAgainst(item[old], origin, fact)
               /\ UNCHANGED item
            \/ /\ ~item[old].expired
               /\ origin = "AUTO_EXTRACTION" /\ item[old].origin = "AUTO_EXTRACTION"
               /\ item[old].fact # fact
               /\ UNCHANGED item
            \/ /\ ~item[old].expired
               /\ ~KeptAgainst(item[old], origin, fact)
               /\ ~(/\ origin = "AUTO_EXTRACTION" /\ item[old].origin = "AUTO_EXTRACTION"
                    /\ item[old].fact = fact)
               /\ item' = Superseding(old, slot, fact, origin, refs)

Room == Len(item) < MaxItems

-----------------------------------------------------------------------------
(* What users do.                                                          *)

rememberPersonal(slot, fact) ==
    /\ Room /\ slot \in PersonalSlots
    /\ ingestCandidate(slot, fact, "USER_EXPLICIT", {})
    /\ UNCHANGED <<source, member, editor>>

rememberProject(slot, fact) ==
    /\ Room /\ slot \in ProjectSlots
    /\ ingestCandidate(slot, fact, "USER_EXPLICIT", {})
    /\ UNCHANGED <<source, member, editor>>

promoteE2eeDisclosure(slot, fact, m) ==
    /\ Room
    /\ ingestCandidate(slot, fact, "E2EE_USER_DISCLOSURE", {<<m, source[m].ver>>})
    /\ UNCHANGED <<source, member, editor>>

(* A correction reads the current row, which may close it, ...             *)
correctPersonal(i) ==
    /\ editor = 0
    /\ item[i].state = "ACTIVE" /\ item[i].slot \in PersonalSlots
    /\ IF ensureMemoryCurrent(item[i])
       THEN editor' = i /\ UNCHANGED item
       ELSE item' = invalidateIfActive(i) /\ UNCHANGED editor
    /\ UNCHANGED <<source, member>>

ExpectedIsCurrent(slot) == ActiveIn(slot) = {editor} /\ ~item[editor].expired

(* ... and then writes, if that row is still the slot's current one.       *)
CorrectionCommits(slot, fact) ==
    /\ editor # 0 /\ Room
    /\ item[editor].slot = slot
    /\ IF ExpectedIsCurrent(slot)
       THEN ingestCandidate(slot, fact, "USER_CORRECTION", {})
       ELSE UNCHANGED item
    /\ editor' = 0
    /\ UNCHANGED <<source, member>>

CorrectionConflicts ==
    /\ editor # 0
    /\ item[editor].slot \notin Slots
    /\ editor' = 0
    /\ UNCHANGED <<source, item, member>>

(* The row and the rows it descends from.                                  *)
Lineage(i) ==
    LET up[j \in 0..Len(item)] == IF j = 0 THEN {} ELSE {j} \cup up[item[j].parent] IN up[i]

BlankedWith(i) == Lineage(i)

invalidatePersonal(i) ==
    /\ item[i].state = "ACTIVE" /\ item[i].slot \in PersonalSlots
    /\ item' = [j \in DOMAIN item |->
                  IF j \notin BlankedWith(i) THEN item[j]
                  ELSE [item[j] EXCEPT !.fact = "", !.slot = "deleted",
                                       !.state = IF j = i THEN "INVALIDATED" ELSE @,
                                       !.deleted = j = i]]
    /\ UNCHANGED <<source, member, editor>>

(* Reading, by the user or for a context, closes a row whose evidence is gone. *)
canReadMemoryItem(i) ==
    /\ item[i].state = "ACTIVE" /\ memoryScopeReadable(item[i].slot)
    /\ ~ensureMemoryCurrent(item[i])
    /\ item' = invalidateIfActive(i)

getPersonal(i) ==
    /\ item[i].slot \in PersonalSlots /\ canReadMemoryItem(i)
    /\ UNCHANGED <<source, member, editor>>

(* A page of the user's memory: rows go, one after the other.              *)
listPersonal(page) ==
    /\ LET stale == {i \in page : item[i].state = "ACTIVE" /\ ~ensureMemoryCurrent(item[i])}
       IN  /\ stale # {} /\ \A i \in stale : item[i].slot \in PersonalSlots
           /\ item' = [i \in DOMAIN item |->
                          IF i \in stale THEN [item[i] EXCEPT !.state = "INVALIDATED"]
                          ELSE item[i]]
    /\ UNCHANGED <<source, member, editor>>

(* For a context: only rows that have not expired are looked at.           *)
retrieveMemory(i) ==
    /\ ~item[i].expired /\ canReadMemoryItem(i)
    /\ UNCHANGED <<source, member, editor>>

ExpiryPasses(i) ==
    /\ item[i].state = "ACTIVE" /\ item[i].origin \in UserOrigins /\ ~item[i].expired
    /\ item' = [item EXCEPT ![i].expired = TRUE]
    /\ UNCHANGED <<source, member, editor>>

(* Housekeeping: expired rows are closed, and of rows no longer current    *)
(* those past the retention are blanked.                                   *)
redactExpiredDerivedAuditContent(past) ==
    /\ past \subseteq {i \in DOMAIN item : item[i].state # "ACTIVE" /\ item[i].slot \in Slots}
    /\ item' = [i \in DOMAIN item |->
                  IF i \in past THEN [item[i] EXCEPT !.fact = "", !.slot = "redacted"]
                  ELSE IF item[i].state = "ACTIVE" /\ item[i].expired
                       THEN [item[i] EXCEPT !.state = "INVALIDATED"]
                  ELSE item[i]]
    /\ item' # item
    /\ UNCHANGED <<source, member, editor>>

-----------------------------------------------------------------------------
(* extractMessage, of a worker of any age: the candidate carries the        *)
(* version of the message that the worker has read, and the transaction    *)
(* refuses one that is no longer current.                                  *)
extractMessage(slot, fact, m) ==
    /\ Room /\ slot \in PersonalSlots
    /\ ingestCandidate(slot, fact, "AUTO_EXTRACTION", {<<m, source[m].ver>>})
    /\ UNCHANGED <<source, member, editor>>

EditMessage(m) ==
    /\ source[m].is = "there" /\ source[m].ver < MaxVersion
    /\ source' = [source EXCEPT ![m].ver = @ + 1]
    /\ UNCHANGED <<item, member, editor>>

RemoveMessage(m) ==
    /\ source[m].is = "there"
    /\ source' = [source EXCEPT ![m].is = "gone"]
    /\ UNCHANGED <<item, member, editor>>

MembershipEnds ==
    /\ member /\ ProjectSlots # {}
    /\ member' = FALSE
    /\ UNCHANGED <<source, item, editor>>

-----------------------------------------------------------------------------
MemoryNext ==
    \/ \E slot \in Slots, fact \in Facts :
          \/ rememberPersonal(slot, fact) \/ rememberProject(slot, fact)
          \/ CorrectionCommits(slot, fact)
          \/ \E m \in Disclosed : promoteE2eeDisclosure(slot, fact, m)
          \/ \E m \in Messages : extractMessage(slot, fact, m)
    \/ CorrectionConflicts \/ MembershipEnds
    \/ \E i \in DOMAIN item :
          \/ correctPersonal(i) \/ invalidatePersonal(i) \/ getPersonal(i)
          \/ retrieveMemory(i)
          \/ ExpiryPasses(i)
    \/ \E past \in SUBSET DOMAIN item :
          redactExpiredDerivedAuditContent(past) \/ listPersonal(past)
    \/ \E m \in Messages : EditMessage(m)
    \/ \E m \in Messages \cup Disclosed : RemoveMessage(m)

-----------------------------------------------------------------------------
(* What a user wrote, corrected or disclosed leaves the current state only *)
(* by the user's own act, by its expiry, or because a disclosed source is  *)
(* gone: never because a worker, however late, found something in a        *)
(* message; and a correction replaces the row its author had read, not one *)
(* that took its place in between.  What a user deleted is in none of the  *)
(* rows the deleted row descends from, whatever is written, corrected or   *)
(* expires before and after; no current row descends from it, and a slot   *)
(* has one current row.                                                    *)
UserWordStands ==
    /\ [](\A i \in DOMAIN item :
            /\ item[i].deleted => \A j \in Lineage(i) : item[j].fact = ""
            /\ item[i].state = "ACTIVE" => \A j \in Lineage(i) : ~item[j].deleted
            /\ \A j \in DOMAIN item :
                  i # j /\ item[i].state = "ACTIVE" /\ item[j].state = "ACTIVE"
                    => item[i].slot # item[j].slot)
    /\ [][/\ \A i \in DOMAIN item :
               item[i].state = "ACTIVE" /\ item[i].origin \in UserOrigins
                 /\ item'[i].state # "ACTIVE" =>
                   \/ item[i].expired
                   \/ item'[i].deleted
                   \/ ~EvidenceCurrent(item[i])
                   \/ \E j \in DOMAIN item' : item'[j].parent = i /\ item'[j].origin \in UserOrigins
          /\ \A j \in DOMAIN item' \ DOMAIN item :
               item'[j].origin = "USER_CORRECTION" => item'[j].parent = editor
         ]_memoryVars
=============================================================================

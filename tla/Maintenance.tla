----------------------------- MODULE Maintenance -----------------------------
(***************************************************************************)
(* The background maintenance of a user's memory                           *)
(* (apps/api/src/memory/memory-maintenance.service.ts and its reconciler): *)
(* a receipt is written with every chat message, and workers claim         *)
(* receipts, extract facts, compact the conversation, and close them.      *)
(* Several workers run, stop anywhere, and overtake each other.            *)
(***************************************************************************)
EXTENDS Naturals, FiniteSets

CONSTANTS
    ChatMessages,
    Maintainers,    \* workers that run the reconciler
    MaxReceiptAttempts,    \* MAX_RECEIPT_ATTEMPTS
    MaxChatEdits        \* bound: versions of a message

ASSUME MaintenanceAssumption == MaxReceiptAttempts \in Nat \ {0} /\ MaxChatEdits \in Nat \ {0}

VARIABLES
    chat,       \* the messages: unsent, there or gone, and their version
    receipt,    \* MemoryExtractionReceipt, by message and version
    maintainer  \* what a worker under way has read

maintenanceVars == <<chat, receipt, maintainer>>

Receipts == ChatMessages \X (1..MaxChatEdits)

NoReceipt == [status |-> "NONE", attempts |-> 0, extracted |-> FALSE, compacted |-> FALSE,
              old |-> FALSE]

Resting == [pc |-> "idle"]

MaintenanceInit ==
    /\ chat = [m \in ChatMessages |-> [is |-> "unsent", ver |-> 1]]
    /\ receipt = [r \in Receipts |-> NoReceipt]
    /\ maintainer = [w \in Maintainers |-> Resting]

ReceiptCurrent(r) == chat[r[1]].is = "there" /\ chat[r[1]].ver = r[2]

-----------------------------------------------------------------------------
(* Messages, written with a queued receipt; edits and removals.            *)

SendMessage(m) ==
    /\ chat[m].is = "unsent"
    /\ chat' = [chat EXCEPT ![m].is = "there"]
    /\ receipt' = [receipt EXCEPT ![<<m, 1>>].status = "QUEUED"]
    /\ UNCHANGED maintainer

EditSent(m) ==
    /\ chat[m].is = "there" /\ chat[m].ver < MaxChatEdits
    /\ chat' = [chat EXCEPT ![m].ver = @ + 1]
    /\ UNCHANGED <<receipt, maintainer>>

RemoveSent(m) ==
    /\ chat[m].is = "there"
    /\ chat' = [chat EXCEPT ![m].is = "gone"]
    /\ UNCHANGED <<receipt, maintainer>>

-----------------------------------------------------------------------------
(* A maintenance worker.                                                   *)

MaintainerAt(w, pc) == maintainer[w].pc = pc

ReceiptClaimable(r) ==
    \/ receipt[r].status = "QUEUED"
    \/ /\ receipt[r].status \in {"PENDING", "FAILED"} /\ receipt[r].old
       /\ receipt[r].attempts < MaxReceiptAttempts

(* Fault: a receipt whose worker stopped is not looked at again. *)
ReconcilableUnclaimed(r) ==
    \/ receipt[r].status = "QUEUED"
    \/ receipt[r].status = "FAILED" /\ receipt[r].old /\ receipt[r].attempts < MaxReceiptAttempts

Reconcilable(r) ==
    \/ receipt[r].status = "QUEUED"
    \/ receipt[r].status = "PENDING" /\ receipt[r].old
    \/ receipt[r].status = "FAILED" /\ receipt[r].old /\ receipt[r].attempts < MaxReceiptAttempts

(* reconcilePending for a receipt: given up, overtaken by an edit, or      *)
(* handed to observeConversationMessage, which claims it.                  *)
GiveUp(r) ==
    /\ Reconcilable(r) /\ receipt[r].status = "PENDING" /\ receipt[r].attempts >= MaxReceiptAttempts
    /\ receipt' = [receipt EXCEPT ![r].status = "FAILED"]
    /\ UNCHANGED <<chat, maintainer>>

\* The row and its message are read before the write, whose one condition is
\* that the row is not completed.  The message may have changed since it was
\* read; a version overtaken once stays overtaken.
SkipStale(r) ==
    /\ receipt[r].status \in {"QUEUED", "PENDING", "FAILED"} /\ ~ReceiptCurrent(r)
    /\ \/ /\ chat[r[1]].is = "gone"
          /\ receipt' = [receipt EXCEPT ![r].status = "SKIPPED"]
       \/ \E read \in (r[2] + 1)..chat[r[1]].ver :
             receipt' = [receipt EXCEPT ![r].status = "SKIPPED",
                                        ![<<r[1], read>>].status = IF @ = "NONE" THEN "QUEUED" ELSE @]
    /\ UNCHANGED <<chat, maintainer>>

claimExtractionReceipt(w, r) ==
    /\ MaintainerAt(w, "idle")
    /\ Reconcilable(r) /\ ReceiptCurrent(r) /\ ReceiptClaimable(r)
    /\ receipt' = [receipt EXCEPT ![r].status = "PENDING", ![r].old = FALSE,
                                  ![r].attempts = @ + 1]
    /\ maintainer' = [maintainer EXCEPT ![w] =
          [pc |-> IF receipt[r].extracted THEN "compact" ELSE "extract",
           r |-> r, extracted |-> receipt[r].extracted, compacted |-> receipt[r].compacted]]
    /\ UNCHANGED chat

MaintainerTo(w, pc) == maintainer' = [maintainer EXCEPT ![w].pc = pc]

(* extractMessage asks the model and puts what it names into the memory     *)
(* (module Memory); the call or the transaction may fail.                  *)
ExtractFacts(w) ==
    /\ MaintainerAt(w, "extract")
    /\ MaintainerTo(w, "extracted") \/ MaintainerTo(w, "compact")
    /\ UNCHANGED <<chat, receipt>>

MarkExtracted(w) ==
    /\ MaintainerAt(w, "extracted")
    /\ LET r == maintainer[w].r
           marks == receipt[r].status = "PENDING" /\ ~receipt[r].extracted
       IN  /\ receipt' = IF marks THEN [receipt EXCEPT ![r].extracted = TRUE, ![r].old = FALSE]
                         ELSE receipt
           /\ maintainer' = [maintainer EXCEPT ![w].extracted = marks, ![w].pc = "compact"]
    /\ UNCHANGED chat

(* compactConversation writes its own state (module Compaction); here it   *)
(* succeeds or fails.                                                      *)
CompactStage(w) ==
    /\ MaintainerAt(w, "compact")
    /\ MaintainerTo(w, IF maintainer[w].compacted THEN "finish" ELSE "compacted")
         \/ (~maintainer[w].compacted /\ MaintainerTo(w, "finish"))
    /\ UNCHANGED <<chat, receipt>>

MarkCompacted(w) ==
    /\ MaintainerAt(w, "compacted")
    /\ LET r == maintainer[w].r
           marks == receipt[r].status = "PENDING" /\ ~receipt[r].compacted
       IN  /\ receipt' = IF marks THEN [receipt EXCEPT ![r].compacted = TRUE, ![r].old = FALSE]
                         ELSE receipt
           /\ maintainer' = [maintainer EXCEPT ![w].compacted = marks, ![w].pc = "finish"]
    /\ UNCHANGED chat

(* The receipt is closed only while it is still pending.                   *)
FinishReceipt(w) ==
    /\ MaintainerAt(w, "finish")
    /\ LET r == maintainer[w].r
           both == maintainer[w].extracted /\ maintainer[w].compacted
       IN  receipt' = IF receipt[r].status # "PENDING" THEN receipt
                      ELSE [receipt EXCEPT ![r].status = IF both THEN "COMPLETED" ELSE "FAILED",
                                           ![r].old = FALSE]
    /\ maintainer' = [maintainer EXCEPT ![w] = Resting]
    /\ UNCHANGED chat

(* A process stops; RECEIPT_RECLAIM_MS pass over a receipt; receipts no    *)
(* longer needed are deleted after RECEIPT_RETENTION_MS.                   *)
MaintainerStops(w) ==
    /\ ~MaintainerAt(w, "idle")
    /\ maintainer' = [maintainer EXCEPT ![w] = Resting]
    /\ UNCHANGED <<chat, receipt>>

ReceiptAges(r) ==
    /\ receipt[r].status \in {"PENDING", "FAILED"} /\ ~receipt[r].old
    /\ receipt' = [receipt EXCEPT ![r].old = TRUE]
    /\ UNCHANGED <<chat, maintainer>>

PurgeReceipt(r) ==
    /\ receipt[r].status \in {"COMPLETED", "SKIPPED", "FAILED"}
    /\ \A w \in {v \in Maintainers : ~MaintainerAt(v, "idle")} : maintainer[w].r # r
    /\ receipt' = [receipt EXCEPT ![r] = NoReceipt]
    /\ UNCHANGED <<chat, maintainer>>

-----------------------------------------------------------------------------
MaintenanceStep(w) ==
    \/ ExtractFacts(w) \/ MarkExtracted(w) \/ CompactStage(w) \/ MarkCompacted(w)
    \/ FinishReceipt(w)

ReconcileReceipt(r) ==
    \/ GiveUp(r)
    \/ Reconcilable(r) /\ SkipStale(r)
    \/ \E w \in Maintainers : claimExtractionReceipt(w, r)

MaintenanceNext ==
    \/ \E m \in ChatMessages : SendMessage(m) \/ EditSent(m) \/ RemoveSent(m)
    \/ \E r \in Receipts : ReconcileReceipt(r) \/ SkipStale(r) \/ ReceiptAges(r) \/ PurgeReceipt(r)
    \/ \E w \in Maintainers : MaintenanceStep(w) \/ MaintainerStops(w)

\* A worker that goes on finishes its step, the reconciler and the queue come
\* back to every receipt, and time passes.
MaintenanceFairness ==
    /\ \A w \in Maintainers : WF_maintenanceVars(MaintenanceStep(w))
    /\ \A r \in Receipts : WF_maintenanceVars(ReconcileReceipt(r)) /\ WF_maintenanceVars(ReceiptAges(r))

-----------------------------------------------------------------------------
(* Every receipt is closed for good in the end: completed, skipped, failed *)
(* in its last attempt, or deleted after that, though workers stop,        *)
(* overtake each other and find their stage recorded by another.           *)
ReceiptsClose ==
    \A r \in Receipts :
        receipt[r].status \in {"QUEUED", "PENDING", "FAILED"}
          ~> \/ receipt[r].status \in {"COMPLETED", "SKIPPED", "NONE"}
             \/ receipt[r].status = "FAILED" /\ receipt[r].attempts >= MaxReceiptAttempts
=============================================================================

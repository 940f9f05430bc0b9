----------------------------- MODULE MCSettling -----------------------------
(***************************************************************************)
(* Rows that are handed to workers and must come to rest: the receipts of  *)
(* a chat's maintenance and the reminders of a task.  A behaviour is one   *)
(* of one of them; the other stays as it starts.                           *)
(***************************************************************************)
EXTENDS Maintenance, Notifications

VARIABLE part

(* In-app only, email only, and a reminder nobody is told of.              *)
MCInApp == [inApp |-> TRUE, email |-> FALSE, verified |-> FALSE]
MCWants ==
  {MCInApp, [inApp |-> FALSE, email |-> TRUE, verified |-> TRUE],
   [inApp |-> FALSE, email |-> FALSE, verified |-> TRUE]}

SettlingInit ==
  /\ part \in {"maintenance", "notices"}
  /\ MaintenanceInit
  /\ NoticeInit /\ (part = "notices" \/ wanted = MCInApp)

InMaintenance(A) == part = "maintenance" /\ A /\ UNCHANGED <<noticeVars, part>>

InNotices(A) == part = "notices" /\ A /\ UNCHANGED <<maintenanceVars, part>>

(* MaintenanceFairness and NoticeFairness, each asked of the behaviours in *)
(* which that part runs.                                                   *)
SettlingFairness ==
  /\ \A w \in Maintainers : WF_maintenanceVars(InMaintenance(MaintenanceStep(w)))
  /\ \A r \in Receipts : /\ WF_maintenanceVars(InMaintenance(ReconcileReceipt(r)))
                          /\ WF_maintenanceVars(InMaintenance(ReceiptAges(r)))
  /\ WF_noticeVars(InNotices(Reconcile))
  /\ WF_noticeVars(InNotices(RequeueExecutable))
  /\ \A w \in Senders : WF_noticeVars(InNotices(SenderStep(w)))
  /\ \A d \in DeliveryIds :
       /\ SF_noticeVars(InNotices(\E w \in Senders : ProcessDelivery(w, d)))
       /\ WF_noticeVars(InNotices(BackoffPasses(d)))
       /\ WF_noticeVars(InNotices(DeliveryLapses(d)))
  /\ \A o \in Occurrences : WF_noticeVars(InNotices(OccurrenceAges(o)))

SettlingSpec ==
  /\ SettlingInit
  /\ [][InMaintenance(MaintenanceNext) \/ InNotices(NoticeNext)]_<<maintenanceVars, noticeVars, part>>
  /\ SettlingFairness
=============================================================================

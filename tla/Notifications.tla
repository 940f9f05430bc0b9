---------------------------- MODULE Notifications ----------------------------
(***************************************************************************)
(* Delivery of a personal reminder: the reminder's own row and its edits,  *)
(* the reconciler that creates one delivery per occurrence and channel,    *)
(* the workers that claim a delivery, check that it is still wanted and    *)
(* send it, the once-only guard around an email, and the inbox.            *)
(*                                                                         *)
(* An occurrence is an instant the reminder was scheduled for.  Time is    *)
(* the age of each occurrence: ahead, due, or past the maximum lateness.   *)
(* The clock a worker read when it started is the set of occurrences that  *)
(* had come by then.  A worker may stop at any step (its lease then lapses)*)
(* or be slow (its lease lapses and it goes on): nothing it writes later   *)
(* is conditional on the lease.                                            *)
(***************************************************************************)
EXTENDS Integers, FiniteSets

CONSTANTS
    Occurrences,   \* instants the reminder may be scheduled for
    Senders,       \* jobs the notification worker runs at once
    MaxTries,      \* NOTIFY_DELIVERY_MAX_ATTEMPTS
    Wants,         \* bound: the preferences users have
    MaxEdits,      \* bound: edits of the reminder and its preferences
    MaxStops       \* bound: processes that stop half way and losses of Redis keys

ASSUME NotificationsAssumption ==
    /\ MaxTries \in Nat \ {0}
    /\ \A p \in Wants : p.email => p.verified
    /\ IsFiniteSet(Senders)

Channels == {"IN_APP", "EMAIL"}
DeliveryIds == Occurrences \X Channels

VARIABLES
    reminder,      \* the workspace reminder
    age,           \* how far each occurrence is in time
    wanted,        \* the user's channels, and whether the address is verified
    edit,          \* an update of the reminder between its read and its write
    pass,          \* a due reminder the reconciler has read and not finished yet
    delivery,      \* notification_delivery, one row per occurrence and channel
    jobs,          \* deliveries in the queue, which may lose them
    sender,        \* the workers
    sentKey,       \* notify:idemp:<delivery>, the once-only guard of an email
    mailed,        \* emails the provider acknowledged
    keyLost,       \* how often the guard was lost while the email could be sent
    inbox,         \* user_notification
    edits,         \* edits so far (for the bound)
    stops          \* stops and losses so far (for the bound)

noticeVars == <<reminder, age, wanted, edit, pass, delivery, jobs, sender,
                sentKey, mailed, keyLost, inbox, edits, stops>>

Settled == {"DELIVERED", "FAILED", "SKIPPED"}
NoDelivery == [status |-> "NONE"]
DeliveryRow(status) == [status |-> status, attempts |-> 0, lapsed |-> FALSE,
                        ready |-> TRUE]
SenderIdle == [step |-> "IDLE"]
Came == {o \in Occurrences : age[o] # "AHEAD"}

-----------------------------------------------------------------------------
(* The reminder and its preferences                                        *)

LiveReminder == ~reminder.deleted

EditedReminder ==
    /\ edits < MaxEdits
    /\ edits' = edits + 1

\* ReminderService.update, its read: the values the edit does not name are
\* written back as they were read.
LoadReminder ==
    /\ LiveReminder /\ edit.step = "IDLE" /\ EditedReminder
    /\ edit' = [step |-> "LOADED", was |-> reminder]
    /\ UNCHANGED <<reminder, age, wanted, pass, delivery, jobs, sender, sentKey, mailed,
                   keyLost, inbox, stops>>

StatusAfter(was, to) ==
    IF to = "CANCELED" \/ (to = "PENDING" /\ was \notin {"DELIVERED", "FAILED"})
    THEN to ELSE was

\* ReminderService.update, its write: a delivered or failed reminder cannot be
\* reopened, but the status that decides so is the one that was read.
updateReminder(to, at, archived) ==
    /\ edit.step = "LOADED"
    /\ ~(to = "PENDING" /\ edit.was.status \in {"DELIVERED", "FAILED"})
    /\ reminder' = [reminder EXCEPT !.status = StatusAfter(edit.was.status, to),
                                    !.at = at, !.archived = archived]
    /\ edit' = [step |-> "IDLE"]
    /\ UNCHANGED <<age, wanted, pass, delivery, jobs, sender, sentKey, mailed, keyLost, inbox,
                   edits, stops>>

\* What an update may ask for: another instant, a new status, the archive, or
\* nothing but the text.
UpdateReminder ==
    /\ edit.step = "LOADED"
    /\ \/ \E o \in Occurrences : updateReminder("SAME", o, edit.was.archived)
       \/ \E s \in {"CANCELED", "PENDING"} : updateReminder(s, edit.was.at, edit.was.archived)
       \/ updateReminder("SAME", edit.was.at, ~edit.was.archived)

\* ReminderService.delete
DeleteReminder ==
    /\ LiveReminder /\ EditedReminder
    /\ reminder' = [reminder EXCEPT !.deleted = TRUE]
    /\ UNCHANGED <<age, wanted, edit, pass, delivery, jobs, sender, sentKey, mailed, keyLost,
                   inbox, stops>>

\* NotificationPreferenceService.update: email only to a verified address.
UpdatePreferences(inApp, email) ==
    /\ EditedReminder
    /\ email /\ ~wanted.email => wanted.verified
    /\ wanted' = [wanted EXCEPT !.inApp = inApp, !.email = email]
    /\ wanted' \in Wants
    /\ UNCHANGED <<reminder, age, edit, pass, delivery, jobs, sender, sentKey, mailed, keyLost,
                   inbox, stops>>

\* An occurrence comes, and later passes the maximum lateness.
OccurrenceAges(o) ==
    /\ age[o] # "LATE"
    /\ age' = [age EXCEPT ![o] = IF @ = "AHEAD" THEN "DUE" ELSE "LATE"]
    /\ UNCHANGED <<reminder, wanted, edit, pass, delivery, jobs, sender, sentKey, mailed,
                   keyLost, inbox, edits, stops>>

-----------------------------------------------------------------------------
(* The reconciler                                                          *)

\* desiredReminderChannels over the resolved preferences
desiredReminderChannels == {c \in Channels : IF c = "EMAIL" THEN wanted.email
                                                            ELSE wanted.inApp}

\* createDueDeliveries, the batch: due reminders that are still pending.
ReadDue ==
    /\ pass.step = "IDLE"
    /\ reminder.status = "PENDING" /\ LiveReminder /\ ~reminder.archived
    /\ reminder.at \in Came
    /\ pass' = [step |-> "READ", at |-> reminder.at, late |-> age[reminder.at] = "LATE"]
    /\ UNCHANGED <<reminder, age, wanted, edit, delivery, jobs, sender, sentKey, mailed,
                   keyLost, inbox, edits, stops>>

\* Then their owners: the channels a delivery is created for, one by one.  A
\* reminder that is too late gets one that is skipped for every channel.
ReadOwners ==
    /\ pass.step = "READ"
    /\ pass' = [step |-> IF pass.late THEN "LATE" ELSE "CREATE", at |-> pass.at,
                late |-> pass.late,
                channels |-> IF pass.late THEN Channels ELSE desiredReminderChannels]
    /\ UNCHANGED <<reminder, age, wanted, edit, delivery, jobs, sender, sentKey, mailed,
                   keyLost, inbox, edits, stops>>

\* A reminder that is too late fails first, by a write of its own.
FailLateReminder ==
    /\ pass.step = "LATE"
    /\ reminder' = IF reminder.status = "PENDING"
                   THEN [reminder EXCEPT !.status = "FAILED"] ELSE reminder
    /\ pass' = [pass EXCEPT !.step = "CREATE"]
    /\ UNCHANGED <<age, wanted, edit, delivery, jobs, sender, sentKey, mailed, keyLost, inbox,
                   edits, stops>>

\* ensureDelivery: a row that exists already stays as it is.
ensureDelivery(d, status) ==
    delivery' = [delivery EXCEPT ![d] = IF @.status = "NONE" THEN DeliveryRow(status) ELSE @]

\* createDueDeliveries, the writes: one delivery per channel, nothing holding
\* them together.
createDueDeliveries ==
    /\ pass.step = "CREATE"
    /\ IF pass.channels = {}
       THEN /\ pass' = [step |-> "IDLE"]
            /\ UNCHANGED delivery
       ELSE LET c == IF "IN_APP" \in pass.channels THEN "IN_APP" ELSE "EMAIL"
            IN  /\ ensureDelivery(<<pass.at, c>>, IF pass.late THEN "SKIPPED" ELSE "PENDING")
                /\ pass' = [pass EXCEPT !.channels = @ \ {c}]
    /\ UNCHANGED <<reminder, age, wanted, edit, jobs, sender, sentKey, mailed, keyLost, inbox,
                   edits, stops>>

\* The reconciler stops between two of these statements; the next pass reads
\* the reminder again if it is still pending.
ReconcilerStops ==
    /\ pass.step # "IDLE" /\ stops < MaxStops
    /\ pass' = [step |-> "IDLE"]
    /\ stops' = stops + 1
    /\ UNCHANGED <<reminder, age, wanted, edit, delivery, jobs, sender, sentKey, mailed,
                   keyLost, inbox, edits>>

\* Fault: a delivery whose lease lapsed is not taken up again.
ExecutablePendingOnly == {"PENDING"}

Executable == {"PENDING", "RETRYABLE"}

\* requeueExecutable: lapsed leases are given up and everything that is due is
\* put in the queue.
RequeueExecutable ==
    LET lapsed == {d \in DeliveryIds : delivery[d].status = "PROCESSING" /\ delivery[d].lapsed}
        given == [d \in DeliveryIds |-> IF d \in lapsed
                                  THEN [delivery[d] EXCEPT !.status = "RETRYABLE",
                                                           !.ready = TRUE, !.lapsed = FALSE]
                                  ELSE delivery[d]]
        due == {d \in DeliveryIds : given[d].status \in Executable /\ given[d].ready}
    IN  /\ lapsed # {} \/ ~(due \subseteq jobs)
        /\ delivery' = given
        /\ jobs' = jobs \cup due
        /\ UNCHANGED <<reminder, age, wanted, edit, pass, sender, sentKey, mailed, keyLost,
                       inbox, edits, stops>>

\* The guards of these occurrences are gone while an email could be sent.
LosesKeys(os) ==
    /\ stops < MaxStops /\ stops' = stops + 1
    /\ keyLost' = [o \in Occurrences |-> IF o \in os THEN keyLost[o] + 1 ELSE keyLost[o]]

\* Redis is lost, the queue with the once-only keys in it; reconciliation puts
\* the jobs back.
DeliveryQueueLost ==
    /\ jobs # {} \/ \E o \in Occurrences : sentKey[o]
    /\ jobs' = {}
    /\ sentKey' = [o \in Occurrences |-> FALSE]
    /\ LosesKeys({o \in Occurrences : sentKey[o]})
    /\ UNCHANGED <<reminder, age, wanted, edit, pass, delivery, sender, mailed, inbox, edits>>

\* A retry's backoff passes.
BackoffPasses(d) ==
    /\ delivery[d].status = "RETRYABLE" /\ ~delivery[d].ready
    /\ delivery' = [delivery EXCEPT ![d].ready = TRUE]
    /\ UNCHANGED <<reminder, age, wanted, edit, pass, jobs, sender, sentKey, mailed, keyLost,
                   inbox, edits, stops>>

\* The lease of a delivery in processing runs out.
DeliveryLapses(d) ==
    /\ delivery[d].status = "PROCESSING" /\ ~delivery[d].lapsed
    /\ delivery' = [delivery EXCEPT ![d].lapsed = TRUE]
    /\ UNCHANGED <<reminder, age, wanted, edit, pass, jobs, sender, sentKey, mailed, keyLost,
                   inbox, edits, stops>>

-----------------------------------------------------------------------------
(* A worker                                                                *)

\* claim: pending, retryable or lapsed
Claims(d) == \/ delivery[d].status \in Executable
             \/ delivery[d].status = "PROCESSING" /\ delivery[d].lapsed

\* evaluateReminderDelivery: is the delivery still wanted?
StillWanted(d) ==
    /\ LiveReminder /\ ~reminder.archived
    /\ reminder.status \in {"PENDING", "DELIVERED"}
    /\ reminder.at = d[1]
    /\ age[d[1]] # "LATE"
    /\ d[2] \in desiredReminderChannels
    /\ d[2] = "EMAIL" => wanted.verified

\* process, up to the decision: the claim, and the reads after it.  Attempts
\* beyond the limit are not told apart.
ProcessDelivery(w, d) ==
    /\ sender[w].step = "IDLE" /\ d \in jobs
    /\ jobs' = jobs \ {d}
    /\ IF Claims(d)
       THEN LET n == IF delivery[d].attempts < MaxTries
                     THEN delivery[d].attempts + 1 ELSE MaxTries
            IN  /\ delivery' = [delivery EXCEPT ![d] = [status |-> "PROCESSING", attempts |-> n,
                                                        lapsed |-> FALSE, ready |-> FALSE]]
                /\ sender' = [sender EXCEPT ![w] =
                                 [step |-> IF StillWanted(d) THEN d[2] ELSE "SKIP",
                                  of |-> d, now |-> Came, tries |-> n, error |-> "NONE"]]
       ELSE UNCHANGED <<delivery, sender>>
    /\ UNCHANGED <<reminder, age, wanted, edit, pass, sentKey, mailed, keyLost, inbox, edits,
                   stops>>

\* The writes of markDelivered, markSkipped and of a failed send are by id.
Marked(d, status) ==
    delivery' = [delivery EXCEPT ![d].status = status, ![d].lapsed = FALSE,
                                 ![d].ready = FALSE]

SenderTo(w, step) == sender' = [sender EXCEPT ![w] = [sender[w] EXCEPT !.step = step]]

\* The send fails with an error of this class.
SenderFails(w, class) ==
    sender' = [sender EXCEPT ![w] = [sender[w] EXCEPT !.step = "ERROR", !.error = class]]

\* markSkipped
SkipDelivery(w) ==
    /\ sender[w].step = "SKIP"
    /\ Marked(sender[w].of, "SKIPPED")
    /\ sender' = [sender EXCEPT ![w] = SenderIdle]
    /\ UNCHANGED <<reminder, age, wanted, edit, pass, jobs, sentKey, mailed, keyLost, inbox,
                   edits, stops>>

\* deliverInApp: one row per occurrence, found again by a later attempt
DeliverInApp(w) ==
    /\ sender[w].step = "IN_APP"
    /\ LET o == sender[w].of[1]
       IN  inbox' = [inbox EXCEPT ![o] = IF @ = "NONE" THEN "UNREAD" ELSE @]
    /\ SenderTo(w, "SENT")
    /\ UNCHANGED <<reminder, age, wanted, edit, pass, delivery, jobs, sentKey, mailed, keyLost,
                   edits, stops>>

\* Fault: the key is set and its earlier value not looked at.
KeyIgnored(d) == FALSE

\* claimDispatch: SET NX finds the key
KeyHeld(d) == sentKey[d[1]]

\* consumeBudget: every email the service sends counts against the address,
\* the caller and the minute, so the answer is open here.
BudgetExhausted(w) ==
    /\ sender[w].step = "EMAIL"
    /\ SenderFails(w, "retryable")
    /\ UNCHANGED <<reminder, age, wanted, edit, pass, delivery, jobs, sentKey, mailed, keyLost,
                   inbox, edits, stops>>

\* sendEmailOnce within the budget, before the provider: whoever finds the key
\* set reports a duplicate, which counts as sent.
ClaimDispatch(w) ==
    /\ sender[w].step = "EMAIL"
    /\ LET d == sender[w].of
       IN  /\ SenderTo(w, IF KeyHeld(d) THEN "SENT" ELSE "SENDING")
           /\ sentKey' = [sentKey EXCEPT ![d[1]] = TRUE]
    /\ UNCHANGED <<reminder, age, wanted, edit, pass, delivery, jobs, mailed, keyLost, inbox,
                   edits, stops>>

\* sendEmailOnce, the provider: acknowledged, or an error that gives the key
\* back.
ProviderAnswers(w) ==
    /\ sender[w].step = "SENDING"
    /\ LET d == sender[w].of
       IN  \/ /\ mailed' = [mailed EXCEPT ![d[1]] = @ + 1]
              /\ SenderTo(w, "SENT")
              /\ UNCHANGED sentKey
           \/ /\ \E class \in {"retryable", "final", "ambiguous"} : SenderFails(w, class)
              /\ sentKey' = [sentKey EXCEPT ![d[1]] = FALSE]
              /\ UNCHANGED mailed
    /\ UNCHANGED <<reminder, age, wanted, edit, pass, delivery, jobs, keyLost, inbox, edits,
                   stops>>

\* markDelivered
MarkDelivered(w) ==
    /\ sender[w].step = "SENT"
    /\ Marked(sender[w].of, "DELIVERED")
    /\ SenderTo(w, "DONE")
    /\ UNCHANGED <<reminder, age, wanted, edit, pass, jobs, sentKey, mailed, keyLost, inbox,
                   edits, stops>>

\* markReminderDelivered: pending, and scheduled before the worker's clock
MarkReminderDelivered(w) ==
    /\ sender[w].step = "DONE"
    /\ reminder' = IF reminder.status = "PENDING" /\ reminder.at \in sender[w].now
                   THEN [reminder EXCEPT !.status = "DELIVERED"] ELSE reminder
    /\ sender' = [sender EXCEPT ![w] = SenderIdle]
    /\ UNCHANGED <<age, wanted, edit, pass, delivery, jobs, sentKey, mailed, keyLost, inbox,
                   edits, stops>>

\* shouldRetry
shouldRetry(w) == sender[w].error = "retryable" /\ sender[w].tries < MaxTries

\* process, a send that failed
RecordError(w) ==
    /\ sender[w].step = "ERROR"
    /\ Marked(sender[w].of, IF shouldRetry(w) THEN "RETRYABLE" ELSE "FAILED")
    /\ sender' = [sender EXCEPT ![w] = SenderIdle]
    /\ UNCHANGED <<reminder, age, wanted, edit, pass, jobs, sentKey, mailed, keyLost, inbox,
                   edits, stops>>

\* A worker stops: its lease lapses later.
SenderStops(w) ==
    /\ sender[w].step # "IDLE" /\ stops < MaxStops
    /\ sender' = [sender EXCEPT ![w] = SenderIdle]
    /\ stops' = stops + 1
    /\ UNCHANGED <<reminder, age, wanted, edit, pass, delivery, jobs, sentKey, mailed, keyLost,
                   inbox, edits>>

\* The key lives for a day from the send.  A worker not taking a day over a
\* send, nobody who claimed it earlier is left.  Where the maximum lateness is
\* a day or less its occurrence is too late by then; where more is configured
\* (up to a week) the email can still be sent.
KeyExpires(o) ==
    /\ sentKey[o]
    /\ \A w \in Senders : sender[w].step # "IDLE" => sender[w].of[1] # o
    /\ sentKey' = [sentKey EXCEPT ![o] = FALSE]
    /\ IF age[o] = "LATE" THEN UNCHANGED <<keyLost, stops>> ELSE LosesKeys({o})
    /\ UNCHANGED <<reminder, age, wanted, edit, pass, delivery, jobs, sender, mailed, inbox,
                   edits>>

-----------------------------------------------------------------------------
(* The inbox                                                               *)

\* markRead of one notification, markAllRead of all
MarkRead(os) ==
    /\ os # {} /\ \A o \in os : inbox[o] = "UNREAD"
    /\ inbox' = [o \in Occurrences |-> IF o \in os THEN "READ" ELSE inbox[o]]
    /\ UNCHANGED <<reminder, age, wanted, edit, pass, delivery, jobs, sender, sentKey, mailed,
                   keyLost, edits, stops>>

Unread == {o \in Occurrences : inbox[o] = "UNREAD"}

-----------------------------------------------------------------------------
SenderStep(w) ==
    \/ SkipDelivery(w)
    \/ DeliverInApp(w)
    \/ BudgetExhausted(w)
    \/ ClaimDispatch(w)
    \/ ProviderAnswers(w)
    \/ MarkDelivered(w)
    \/ MarkReminderDelivered(w)
    \/ RecordError(w)

SenderTakes(w) == \E d \in DeliveryIds : ProcessDelivery(w, d)

Reconcile == ReadDue \/ ReadOwners \/ FailLateReminder \/ createDueDeliveries

NoticeInit ==
    /\ reminder = [status |-> "PENDING", at |-> CHOOSE o \in Occurrences : TRUE,
                   archived |-> FALSE, deleted |-> FALSE]
    /\ age = [o \in Occurrences |-> "AHEAD"]
    /\ wanted \in Wants
    /\ edit = [step |-> "IDLE"]
    /\ pass = [step |-> "IDLE"]
    /\ delivery = [d \in DeliveryIds |-> NoDelivery]
    /\ jobs = {}
    /\ sender = [w \in Senders |-> SenderIdle]
    /\ sentKey = [o \in Occurrences |-> FALSE]
    /\ mailed = [o \in Occurrences |-> 0]
    /\ keyLost = [o \in Occurrences |-> 0]
    /\ inbox = [o \in Occurrences |-> "NONE"]
    /\ edits = 0
    /\ stops = 0

NoticeNext ==
    \/ LoadReminder
    \/ UpdateReminder
    \/ DeleteReminder
    \/ \E inApp, email \in BOOLEAN : UpdatePreferences(inApp, email)
    \/ \E o \in Occurrences : OccurrenceAges(o) \/ KeyExpires(o)
    \/ Reconcile
    \/ ReconcilerStops
    \/ RequeueExecutable
    \/ DeliveryQueueLost
    \/ \E d \in DeliveryIds : BackoffPasses(d) \/ DeliveryLapses(d)
    \/ \E w \in Senders : SenderTakes(w) \/ SenderStep(w) \/ SenderStops(w)
    \/ \E o \in Occurrences : MarkRead({o})
    \/ MarkRead(Unread)

\* Time passes, the scheduler keeps calling the reconciler, and a process that
\* took something on either goes on or is replaced (stops are bounded).
NoticeFairness ==
    /\ WF_noticeVars(Reconcile)
    /\ WF_noticeVars(RequeueExecutable)
    /\ \A w \in Senders : WF_noticeVars(SenderStep(w))
    /\ \A d \in DeliveryIds : /\ SF_noticeVars(\E w \in Senders : ProcessDelivery(w, d))
                        /\ WF_noticeVars(BackoffPasses(d))
                        /\ WF_noticeVars(DeliveryLapses(d))
    /\ \A o \in Occurrences : WF_noticeVars(OccurrenceAges(o))

-----------------------------------------------------------------------------
\* The provider acknowledges one email per occurrence, and one more only for
\* every time Redis lost the once-only key while the email could still be
\* sent, whatever workers stop, lose their lease, retry or give back the key of
\* another: sendEmailOnce takes the key before the send.
EmailedOnce == \A o \in Occurrences : mailed[o] <= 1 + keyLost[o]

\* Every delivery the reconciler creates comes to rest as delivered, failed or
\* skipped, and a reminder that is due does not stay pending unless it is
\* moved, archived or deleted.
NotificationsSettle ==
    /\ \A d \in DeliveryIds : (delivery[d].status # "NONE") ~> [](delivery[d].status \in Settled)
    /\ \A o \in Occurrences :
          [](reminder.status = "PENDING" /\ reminder.at = o /\ age[o] # "AHEAD"
             => <>(\/ reminder.status # "PENDING" \/ reminder.at # o
                   \/ reminder.archived \/ reminder.deleted))
=============================================================================

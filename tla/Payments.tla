------------------------------- MODULE Payments -------------------------------
(***************************************************************************)
(* Checkout, provider events, reconciliation, grants and refunds:          *)
(* packages/billing/src/payment-service.ts and the payment half of         *)
(* packages/billing/src/billing-engine.ts, composed with UsageBilling,     *)
(* whose buckets a grant creates and a refund takes from.                  *)
(*                                                                         *)
(* One user.  A payment stands for one idempotency key, and the bucket it  *)
(* grants has the payment's identity (grantedBucketId).  The acquirer is   *)
(* external: it keeps its own status of each order and sends a signed      *)
(* notification of each change, which may be lost, repeated or overtaken.  *)
(***************************************************************************)
EXTENDS UsageBilling

CONSTANTS Kinds,    \* what the user buys: "SUBSCRIPTION", "TOPUP"
          Gross,    \* customerPaymentAmountMicroRub of the checkout snapshot
          Grant,    \* providerBudgetGrantMicroRub of the checkout snapshot
          OrderSteps, \* the statuses orders reach at the acquirer in this instance
          Redelivery  \* whether a notification can come again once processed

ASSUME PaymentAssumption ==
  /\ Kinds \subseteq {"SUBSCRIPTION", "TOPUP"}
  /\ Gross \in Nat \ {0} /\ Grant \in Nat /\ Grant <= Gross
  /\ Redelivery \in BOOLEAN
  /\ OrderSteps \subseteq {"AUTHORIZED", "CONFIRMED", "REJECTED", "CANCELED", "REFUNDED",
                         "PARTIAL_REFUNDED"}

VARIABLES payments,      \* payment
          subscriptions, \* subscription, by the payment that granted it
          economics,     \* payment_economics: the refunded amount, or None
          recorded,      \* payment_event: the providerEventIds seen
          checkout,      \* how far a checkout request of the payment has got
          acquirer,      \* the order's status at the acquirer
          inflight       \* events on their way to processPaymentEvent

payVars == <<payments, subscriptions, economics, recorded, checkout, acquirer, inflight>>

vars == <<usageVars, payVars>>

None == -1

Open == {"CREATED", "PENDING"}

AcquirerStatus == {"NEW", "AUTHORIZED", "CONFIRMED", "REJECTED", "CANCELED", "REFUNDED", "PARTIAL_REFUNDED"}

(* matches: the event's amount and provider payment id are those stored.   *)
Events == [source : {"webhook", "reconcile", "refund"}, payment : Buckets,
           status : AcquirerStatus, matches : BOOLEAN]

(* tbankNotificationFingerprint, reconcile:<id>:<status>, refund:<id>:...  *)
providerEventId(e) == e

classifyTBankStatus(status) ==
  CASE status = "CONFIRMED" -> "confirmed"
    [] status \in {"NEW", "AUTHORIZED"} -> "pending"
    [] status = "REJECTED" -> "failed"
    [] status = "CANCELED" -> "canceled"
    [] status = "REFUNDED" -> "refunded"
    [] status = "PARTIAL_REFUNDED" -> "partially_refunded"

PaymentInit ==
  /\ UsageInit
  /\ payments = [p \in Buckets |-> [status |-> "NONE", kind |-> "TOPUP", url |-> FALSE]]
  /\ subscriptions = [p \in Buckets |-> [status |-> "NONE", periodEnd |-> 0]]
  /\ economics = [p \in Buckets |-> None]
  /\ recorded = {}
  /\ checkout = [p \in Buckets |-> "idle"]
  /\ acquirer = [p \in Buckets |-> "NONE"]
  /\ inflight = {}

-------------------------------------------------------------------------------
(* Checkout.                                                               *)

getActiveSubscription == {p \in Buckets : /\ subscriptions[p].status = "ACTIVE"
                                          /\ subscriptions[p].periodEnd > now}

(* A subscription checkout is refused while one is active or another is    *)
(* open; both are read before the payment row is written.                  *)
CheckoutAllowed(p, kind) ==
  kind = "SUBSCRIPTION" =>
    /\ getActiveSubscription = {}
    /\ \A q \in Buckets \ {p} :
         ~(payments[q].kind = "SUBSCRIPTION" /\ payments[q].status \in Open)

(* checkoutSubscription, checkoutTopup: up to the checks.  The same key     *)
(* finds its payment again and goes on to the hosted checkout.             *)
CheckoutStart(p, kind) ==
  /\ checkout[p] = "idle"
  /\ CheckoutAllowed(p, kind)
  /\ payments[p].status # "NONE" => payments[p].kind = kind
  /\ checkout' = [checkout EXCEPT ![p] =
        IF payments[p].status # "NONE" THEN "created" ELSE kind]
  /\ UNCHANGED <<usageVars, payments, subscriptions, economics, recorded, acquirer, inflight>>

createPendingPayment(p) ==
  /\ checkout[p] \in Kinds
  /\ payments' = [payments EXCEPT ![p] =
        [status |-> "CREATED", kind |-> checkout[p], url |-> FALSE]]
  /\ checkout' = [checkout EXCEPT ![p] = "created"]
  /\ UNCHANGED <<usageVars, subscriptions, economics, recorded, acquirer, inflight>>

(* Fault: the stored URL is not looked at again under the lock.            *)
InitAtAcquirerAlways(p) ==
  /\ checkout[p] = "created"
  /\ checkout' = [checkout EXCEPT ![p] = "initialized"]
  /\ acquirer' = [acquirer EXCEPT ![p] = IF @ = "NONE" THEN "NEW" ELSE @]
  /\ UNCHANGED <<usageVars, payments, subscriptions, economics, recorded, inflight>>

(* initializeHostedCheckout under its advisory lock: a payment that has a  *)
(* URL is answered with it; otherwise the order is opened at the acquirer, *)
(* or found there, before the row is written.                              *)
InitAtAcquirer(p) ==
  /\ checkout[p] = "created"
  /\ IF payments[p].url
     THEN /\ checkout' = [checkout EXCEPT ![p] = "idle"]
          /\ UNCHANGED acquirer
     ELSE /\ checkout' = [checkout EXCEPT ![p] = "initialized"]
          /\ acquirer' = [acquirer EXCEPT ![p] = IF @ = "NONE" THEN "NEW" ELSE @]
  /\ UNCHANGED <<usageVars, payments, subscriptions, economics, recorded, inflight>>

CommitHostedCheckout(p) ==
  /\ checkout[p] = "initialized"
  /\ payments' = [payments EXCEPT ![p] =
        [status |-> "PENDING", kind |-> @.kind, url |-> TRUE]]
  /\ checkout' = [checkout EXCEPT ![p] = "idle"]
  /\ UNCHANGED <<usageVars, subscriptions, economics, recorded, acquirer, inflight>>

(* The request dies: nothing is written beyond what was committed.         *)
CheckoutLost(p) ==
  /\ checkout[p] # "idle"
  /\ checkout' = [checkout EXCEPT ![p] = "idle"]
  /\ UNCHANGED <<usageVars, payments, subscriptions, economics, recorded, acquirer, inflight>>

-------------------------------------------------------------------------------
(* The acquirer (external).  The customer can pay only on the hosted page, *)
(* whose URL leaves the API once it is stored.                             *)

AcquirerMoves(from, to, paid) ==
  \/ from = "NEW" /\ to = "AUTHORIZED" /\ paid
  \/ from = "AUTHORIZED" /\ to = "CONFIRMED"
  \/ from \in {"NEW", "AUTHORIZED"} /\ to \in {"REJECTED", "CANCELED"}
  \/ from = "CONFIRMED" /\ to \in {"REFUNDED", "PARTIAL_REFUNDED"}
  \/ from = "PARTIAL_REFUNDED" /\ to = "REFUNDED"

(* Every change is notified; a partial refund may be notified with its own *)
(* amount instead of the order's.                                          *)
AcquirerStep(p, to) ==
  /\ AcquirerMoves(acquirer[p], to, payments[p].url)
  /\ acquirer' = [acquirer EXCEPT ![p] = to]
  /\ \E matches \in (IF to = "PARTIAL_REFUNDED" THEN BOOLEAN ELSE {TRUE}) :
       inflight' = inflight \cup
         {[source |-> "webhook", payment |-> p, status |-> to, matches |-> matches]}
  /\ UNCHANGED <<usageVars, payments, subscriptions, economics, recorded, checkout>>

(* Fault: the reconciler looks only at payments with no hosted page.       *)
ReconcileFetchCreated(p) ==
  /\ payments[p].status = "CREATED"
  /\ acquirer[p] \notin {"NONE", "NEW", "AUTHORIZED"}
  /\ inflight' = inflight \cup
       {[source |-> "reconcile", payment |-> p, status |-> acquirer[p], matches |-> TRUE]}
  /\ UNCHANGED <<usageVars, payments, subscriptions, economics, recorded, checkout, acquirer>>

(* reconcileRecord up to the provider's answer, which may be old when it   *)
(* is processed.                                                           *)
ReconcileFetch(p) ==
  /\ payments[p].status \in Open
  /\ acquirer[p] \notin {"NONE", "NEW", "AUTHORIZED"}
  /\ inflight' = inflight \cup
       {[source |-> "reconcile", payment |-> p, status |-> acquirer[p], matches |-> TRUE]}
  /\ UNCHANGED <<usageVars, payments, subscriptions, economics, recorded, checkout, acquirer>>

(* refundOwnedPayment up to the provider's answer: Cancel moves the order, *)
(* which the acquirer also notifies.                                       *)
RefundAtAcquirer(p, to) ==
  /\ payments[p].url
  /\ to \in {"CANCELED", "REFUNDED", "PARTIAL_REFUNDED"}
  /\ AcquirerMoves(acquirer[p], to, TRUE)
  /\ acquirer' = [acquirer EXCEPT ![p] = to]
  /\ inflight' = inflight \cup
       {[source |-> s, payment |-> p, status |-> to, matches |-> TRUE] : s \in {"webhook", "refund"}}
  /\ UNCHANGED <<usageVars, payments, subscriptions, economics, recorded, checkout>>

-------------------------------------------------------------------------------
(* processPaymentEvent, one transaction under the payment's row lock.      *)

SetStatus(p, status) == payments' = [payments EXCEPT ![p].status = status]

MarkReconciliationRequired(p) ==
  /\ SetStatus(p, "RECONCILIATION_REQUIRED")
  /\ UNCHANGED <<buckets, ledger, subscriptions, economics>>

(* Fault: only a subscription whose period still runs is looked for.       *)
GrantRefusedWhileCurrent(p) ==
  payments[p].kind = "SUBSCRIPTION" /\ getActiveSubscription # {}

(* grantFromSucceededPayment refuses a subscription while any row of the   *)
(* user is ACTIVE, whatever its period.                                    *)
GrantRefused(p) ==
  /\ payments[p].kind = "SUBSCRIPTION"
  /\ \E q \in Buckets : subscriptions[q].status = "ACTIVE"

grantFromSucceededPayment(p) ==
  /\ ~GrantRefused(p)
  /\ IF payments[p].kind = "SUBSCRIPTION"
     THEN /\ subscriptions' = [subscriptions EXCEPT ![p] =
                [status |-> "ACTIVE", periodEnd |-> now + Period]]
          /\ GrantMonthly(p, Grant)
     ELSE /\ GrantTopup(p, Grant)
          /\ UNCHANGED subscriptions
  /\ SetStatus(p, "SUCCEEDED")
  /\ economics' = [economics EXCEPT ![p] = IF @ = None THEN 0 ELSE @]

(* A confirmed event grants an open payment, is ignored by a paid one and  *)
(* throws otherwise.                                                       *)
ConfirmedThrows(p) ==
  \/ payments[p].status \in {"FAILED", "CANCELED", "RECONCILIATION_REQUIRED"}
  \/ payments[p].status \in Open /\ GrantRefused(p)

ApplyConfirmed(p) ==
  /\ ~ConfirmedThrows(p)
  /\ IF payments[p].status \in Open
     THEN grantFromSucceededPayment(p)
     ELSE UNCHANGED <<buckets, ledger, payments, subscriptions, economics>>

(* addRefundToEconomics: the sum of what was refunded, when there is a row. *)
AddRefund(p, amount) ==
  economics' = [economics EXCEPT ![p] = IF @ = None THEN None ELSE @ + amount]

(* applyRefundAccounting.  A partial refund carries an amount only when the *)
(* operator asked for it; the grant taken back for it is the floor of its   *)
(* share, and all of the grant when there is no amount.                    *)
applyRefundAccounting(p, full, refundAmount) ==
  LET revokeGrant == IF full \/ refundAmount = None THEN Grant
                     ELSE (refundAmount * Grant) \div Gross
  IN IF ~full /\ payments[p].kind = "SUBSCRIPTION"
     THEN MarkReconciliationRequired(p)
     ELSE /\ IF Exists(p) THEN RevokeUnused(p, revokeGrant) ELSE UNCHANGED <<buckets, ledger>>
          /\ subscriptions' =
               IF full /\ subscriptions[p].status = "ACTIVE"
               THEN [subscriptions EXCEPT ![p].status = "CANCELED"] ELSE subscriptions
          /\ SetStatus(p, IF full THEN "REFUNDED" ELSE "PARTIALLY_REFUNDED")
          /\ AddRefund(p, IF full THEN Gross ELSE IF refundAmount = None THEN 0 ELSE refundAmount)

(* Fault: a late pending notification reopens the payment.                 *)
PendingAlwaysPending(current, event) ==
  CASE event = "pending" -> "PENDING"
    [] event = "failed" -> IF current \in Open THEN "FAILED" ELSE current
    [] event = "canceled" -> IF current \in Open THEN "CANCELED" ELSE current

(* nextDomainStatus for the events that only move the status.              *)
nextDomainStatus(current, event) ==
  CASE event = "pending" -> IF current = "CREATED" THEN "PENDING" ELSE current
    [] event = "failed" ->
         IF current \in Open \cup {"FAILED"} THEN "FAILED" ELSE current
    [] event = "canceled" ->
         IF current \in Open \cup {"CANCELED", "RECONCILIATION_REQUIRED"}
         THEN "CANCELED" ELSE current

(* What an event that is not a duplicate does.                             *)
ApplyEvent(e) ==
  LET p == e.payment
      event == classifyTBankStatus(e.status)
  IN IF ~e.matches THEN MarkReconciliationRequired(p)
     ELSE \/ event = "confirmed" /\ ApplyConfirmed(p)
          \/ event = "refunded" /\ applyRefundAccounting(p, TRUE, None)
          \/ event = "partially_refunded" /\ e.source # "refund"
               /\ applyRefundAccounting(p, FALSE, None)
          \/ event = "partially_refunded" /\ e.source = "refund"
               /\ \E refundAmount \in 1..(Gross - 1) : applyRefundAccounting(p, FALSE, refundAmount)
          \/ /\ event \in {"pending", "failed", "canceled"}
             /\ SetStatus(p, nextDomainStatus(payments[p].status, event))
             /\ UNCHANGED <<buckets, ledger, subscriptions, economics>>

EventThrows(e) ==
  e.matches /\ classifyTBankStatus(e.status) = "confirmed" /\ ConfirmedThrows(e.payment)

(* A processed notification may come again, the answer to our own call not. *)
Consumed(e) == IF e.source = "webhook" /\ Redelivery THEN inflight ELSE inflight \ {e}

processPaymentEvent(e) ==
  /\ e \in inflight
  /\ payments[e.payment].status # "NONE"
  /\ providerEventId(e) \notin recorded
  /\ ~EventThrows(e)
  /\ ApplyEvent(e)
  /\ recorded' = recorded \cup {providerEventId(e)}
  /\ inflight' = Consumed(e)
  /\ UNCHANGED <<now, reservations, calls, checkout, acquirer>>

(* A duplicate, or an exception: nothing is written, not even the event.   *)
DropEvent(e) ==
  /\ e \in inflight
  /\ e.source # "webhook"
  /\ providerEventId(e) \in recorded \/ EventThrows(e)
  /\ inflight' = Consumed(e)
  /\ UNCHANGED <<usageVars, payments, subscriptions, economics, recorded, checkout, acquirer>>

-------------------------------------------------------------------------------
CheckoutNext ==
  \E p \in Buckets :
    \/ \E kind \in Kinds : CheckoutStart(p, kind)
    \/ createPendingPayment(p)
    \/ InitAtAcquirer(p)
    \/ CommitHostedCheckout(p)
    \/ CheckoutLost(p)

AcquirerNext ==
  \E p \in Buckets :
    \/ \E to \in OrderSteps : AcquirerStep(p, to) \/ RefundAtAcquirer(p, to)
    \/ ReconcileFetch(p)

EventNext == \E e \in inflight : processPaymentEvent(e) \/ DropEvent(e)

UsageOnly == (ReserveStep \/ FinishStep \/ Tick) /\ UNCHANGED payVars

Next == CheckoutNext \/ AcquirerNext \/ EventNext \/ UsageOnly

(* The worker's timer asks the acquirer about every open payment and       *)
(* processes the answer; notifications promise nothing.                    *)
HandleReconciled(p) ==
  \E e \in inflight : /\ e.payment = p /\ e.source = "reconcile"
                      /\ processPaymentEvent(e) \/ DropEvent(e)

PaymentFairness ==
  \A p \in Buckets : WF_vars(ReconcileFetch(p)) /\ WF_vars(HandleReconciled(p))

Spec == PaymentInit /\ [][Next]_vars

FairSpec == Spec /\ PaymentFairness

-------------------------------------------------------------------------------
(* Usage is granted for money the acquirer took and nothing else: not for  *)
(* an authorization, not for an order that was rejected or canceled, in    *)
(* whatever order its notifications come in.  A payment shown as open,     *)
(* failed or canceled has granted nothing, and one shown as succeeded has: *)
(* the grant and the status commit together, and neither a late            *)
(* notification nor a late checkout commit separates them.                 *)
GrantIffPaid ==
  \A p \in Buckets :
    /\ Exists(p) => acquirer[p] \in {"CONFIRMED", "PARTIAL_REFUNDED", "REFUNDED"}
    /\ payments[p].status \in Open \cup {"FAILED", "CANCELED"} => ~Exists(p)
    /\ payments[p].status = "SUCCEEDED" => Exists(p)

(* Two checkouts that race past the check never leave two ACTIVE           *)
(* subscriptions.                                                          *)
OneActiveSubscription ==
  Cardinality({p \in Buckets : subscriptions[p].status = "ACTIVE"}) <= 1

(* A full refund leaves nothing to spend on the grant: what was unused is   *)
(* taken back at that step, and only what a running request holds stays.   *)
(* A refund or a mismatch is the only way on for a paid payment, and a     *)
(* refund is never undone by a late confirmation.                          *)
RefundTakesAllUnheld ==
  [][\A p \in Buckets :
       /\ payments'[p].status = "REFUNDED" /\ payments[p].status # "REFUNDED" /\ Exists(p) =>
            availableMicroRub(buckets'[p]) = 0
       /\ payments[p].status = "SUCCEEDED" =>
            payments'[p].status \in {"SUCCEEDED", "REFUNDED", "PARTIALLY_REFUNDED",
                                     "RECONCILIATION_REQUIRED"}
       /\ payments[p].status = "REFUNDED" => payments'[p].status # "SUCCEEDED"]_vars

(* A payment the acquirer confirmed does not stay open, even when every    *)
(* notification is lost.                                                   *)
ConfirmedIsFulfilled ==
  \A p \in Buckets :
    (payments[p].status \in Open /\ acquirer[p] = "CONFIRMED")
      ~> payments[p].status \notin Open

===============================================================================

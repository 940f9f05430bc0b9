----------------------------- MODULE UsageBilling -----------------------------
(***************************************************************************)
(* The usage half of BillingEngine (packages/billing/src/billing-engine.ts) *)
(* for one user: buckets of provider budget, reservations against them,    *)
(* settlement and release.  Every row the engine reads or writes is keyed  *)
(* by userId, so users do not interact and one is enough.                  *)
(*                                                                         *)
(* Each operation is one PostgreSQL transaction.  settleUsage and          *)
(* releaseUsage lock the reservation row before they read it, so they are  *)
(* one step.  reserveUsage looks for an existing reservation before it     *)
(* takes any lock, so it is two: another transaction may commit between.   *)
(***************************************************************************)
EXTENDS Allocation

CONSTANTS Buckets,     \* the ids a usage_bucket row can have
          Requests,    \* the requestIds the user's clients send
          Callers,     \* reserveUsage transactions that can be open at once
          Nobody,      \* a caller with no open transaction holds this request
          MaxAmount,   \* the largest amount of microRUB in a call
          MaxTime,     \* the clock stops here
          Period       \* subscriptionPeriodDays

ASSUME UsageAssumption ==
  /\ MaxAmount \in Nat /\ MaxTime \in Nat /\ Period \in Nat \ {0}
  /\ Nobody \notin Requests
  /\ IsFiniteSet(Buckets) /\ IsFiniteSet(Requests)

VARIABLES now,          \* new Date(), to the grain that expiry needs
          buckets,      \* usage_bucket
          reservations, \* usage_reservation with its allocations
          ledger,       \* per bucket, the sum of amountMicroRub over its entries
          calls         \* open reserveUsage transactions that saw no reservation

usageVars == <<now, buckets, reservations, ledger, calls>>

Amounts == 0..MaxAmount

NoExpiry == MaxTime + Period + 1

ReservationRows ==
  [status : {"NONE", "ACTIVE", "SETTLED", "RELEASED", "ANOMALY"},
   estimated : Int, settled : Int,
   held : [Buckets -> Int],      \* UsageReservationAllocation.reservedMicroRub
   charged : [Buckets -> Int]]   \* UsageReservationAllocation.settledMicroRub

NoAmounts == [b \in Buckets |-> 0]

NoReservation == [status |-> "NONE", estimated |-> 0, settled |-> 0,
                  held |-> NoAmounts, charged |-> NoAmounts]

Idle == [request |-> Nobody, estimated |-> 0]

UsageInit ==
  /\ now = 0
  /\ buckets = [b \in Buckets |-> NoBucket]
  /\ reservations = [r \in Requests |-> NoReservation]
  /\ ledger = [b \in Buckets |-> 0]
  /\ calls = [c \in Callers |-> Idle]

-------------------------------------------------------------------------------
(* What the engine reads under the bucket locks.                           *)

Exists(b) == buckets[b].type # "NONE"

Spendable(b) == Exists(b) /\ buckets[b].expiresAt > now

(* The budget planReservationAllocations may take from each bucket: buckets *)
(* with nothing available are skipped, expired ones are not in the list.   *)
SpendableCap ==
  [b \in Buckets |-> IF Spendable(b) /\ availableMicroRub(buckets[b]) > 0
                     THEN availableMicroRub(buckets[b]) ELSE 0]

planReservationAllocations(amount) == GreedySplits(buckets, SpendableCap, amount)

-------------------------------------------------------------------------------
(* reserveUsage: an existing reservation is returned or refused at once,   *)
(* and changes nothing; otherwise the transaction goes on.                 *)
ReserveLookup(c, r, estimated) ==
  /\ calls[c] = Idle
  /\ estimated > 0
  /\ reservations[r].status = "NONE"
  /\ calls' = [calls EXCEPT ![c] = [request |-> r, estimated |-> estimated]]
  /\ UNCHANGED <<now, buckets, reservations, ledger>>

(* Fault: no unique key, so the second of two racing inserts overwrites.   *)
ReserveCommitNoKey(c) ==
  LET r == calls[c].request
      estimated == calls[c].estimated
  IN /\ r # Nobody
     /\ \E plan \in planReservationAllocations(estimated) :
          /\ reservations' = [reservations EXCEPT ![r] =
                [status |-> "ACTIVE", estimated |-> estimated, settled |-> 0,
                 held |-> plan, charged |-> NoAmounts]]
          /\ buckets' = [b \in Buckets |->
                [buckets[b] EXCEPT !.reserved = @ + plan[b]]]
     /\ calls' = [calls EXCEPT ![c] = Idle]
     /\ UNCHANGED <<now, ledger>>

(* With the buckets locked it plans and inserts; the unique key on          *)
(* (userId, requestId) admits the insert only while there is no such row.  *)
ReserveCommit(c) ==
  LET r == calls[c].request
      estimated == calls[c].estimated
  IN /\ r # Nobody
     /\ reservations[r].status = "NONE"
     /\ \E plan \in planReservationAllocations(estimated) :
          /\ reservations' = [reservations EXCEPT ![r] =
                [status |-> "ACTIVE", estimated |-> estimated, settled |-> 0,
                 held |-> plan, charged |-> NoAmounts]]
          /\ buckets' = [b \in Buckets |->
                [buckets[b] EXCEPT !.reserved = @ + plan[b]]]
     /\ calls' = [calls EXCEPT ![c] = Idle]
     /\ UNCHANGED <<now, ledger>>

(* INSUFFICIENT_USAGE, the unique key, a timeout, a deadlock past the last *)
(* retry or the end of the process: the transaction rolls back.            *)
ReserveRollback(c) ==
  /\ calls[c] # Idle
  /\ calls' = [calls EXCEPT ![c] = Idle]
  /\ UNCHANGED <<now, buckets, reservations, ledger>>

-------------------------------------------------------------------------------
(* settleUsage, common tail: the whole hold leaves every bucket and what is *)
(* charged is spent, with a USAGE_SETTLED entry.                           *)
SettleAllocations(r, status, estimated, actual, held, charged) ==
  /\ reservations' = [reservations EXCEPT ![r] =
        [status |-> status, estimated |-> estimated, settled |-> actual,
         held |-> held, charged |-> charged]]
  /\ buckets' = [b \in Buckets |->
        [buckets[b] EXCEPT !.reserved = @ - reservations[r].held[b],
                           !.spent = @ + charged[b]]]
  /\ ledger' = [b \in Buckets |-> ledger[b] - charged[b]]
  /\ UNCHANGED <<now, calls>>

(* The cost fits the reservation: it is charged in bucket order, the rest  *)
(* is released.                                                            *)
SettleWithin(r, actual) ==
  /\ reservations[r].status = "ACTIVE"
  /\ actual <= reservations[r].estimated
  /\ \E charged \in GreedySplits(buckets, reservations[r].held, actual) :
       SettleAllocations(r, "SETTLED", reservations[r].estimated, actual,
                         reservations[r].held, charged)

(* The cost exceeds it and the difference can still be held.               *)
SettleWithExtra(r, actual) ==
  /\ reservations[r].status = "ACTIVE"
  /\ actual > reservations[r].estimated
  /\ \E extra \in planReservationAllocations(actual - reservations[r].estimated) :
       LET held == [b \in Buckets |-> reservations[r].held[b] + extra[b]]
       IN SettleAllocations(r, "SETTLED", actual, actual, held, held)

(* The cost exceeds it and the difference cannot be held: the reserved     *)
(* amount is charged and the reservation is an ANOMALY.                    *)
SettleAnomaly(r, actual) ==
  /\ reservations[r].status = "ACTIVE"
  /\ actual > reservations[r].estimated
  /\ planReservationAllocations(actual - reservations[r].estimated) = {}
  /\ SettleAllocations(r, "ANOMALY", reservations[r].estimated,
                       reservations[r].estimated, reservations[r].held,
                       reservations[r].held)

settleUsage(r, actual) ==
  \/ SettleWithin(r, actual)
  \/ SettleWithExtra(r, actual)
  \/ SettleAnomaly(r, actual)

releaseUsage(r) ==
  /\ reservations[r].status = "ACTIVE"
  /\ buckets' = [b \in Buckets |->
        [buckets[b] EXCEPT !.reserved = @ - reservations[r].held[b]]]
  /\ reservations' = [reservations EXCEPT ![r] =
        [status |-> "RELEASED", estimated |-> @.estimated, settled |-> 0,
         held |-> @.held, charged |-> NoAmounts]]
  /\ UNCHANGED <<now, ledger, calls>>

-------------------------------------------------------------------------------
(* What processing a payment does to the buckets; Payments says when.      *)

GrantBucket(b, type, amount, expiresAt) ==
  /\ ~Exists(b)
  /\ buckets' = [buckets EXCEPT ![b] =
        [type |-> type, total |-> amount, spent |-> 0, reserved |-> 0,
         expiresAt |-> expiresAt,
         createdAt |-> Cardinality({c \in Buckets : Exists(c)})]]
  /\ ledger' = [ledger EXCEPT ![b] = @ + amount]

GrantMonthly(b, amount) == GrantBucket(b, "MONTHLY", amount, now + Period)

GrantTopup(b, amount) == GrantBucket(b, "TOPUP", amount, NoExpiry)

(* A refund takes back what is neither spent nor held, up to the grant.    *)
RevokeUnused(b, revokeGrant) ==
  LET unused == availableMicroRub(buckets[b])
      revoke == IF unused < revokeGrant THEN unused ELSE revokeGrant
  IN /\ Exists(b)
     /\ IF revoke > 0
        THEN /\ buckets' = [buckets EXCEPT ![b].total = @ - revoke]
             /\ ledger' = [ledger EXCEPT ![b] = @ - revoke]
        ELSE UNCHANGED <<buckets, ledger>>

Tick ==
  /\ now < MaxTime
  /\ now' = now + 1
  /\ UNCHANGED <<buckets, reservations, ledger, calls>>

-------------------------------------------------------------------------------
ReserveStep ==
  \E c \in Callers :
    \/ \E r \in Requests, estimated \in Amounts : ReserveLookup(c, r, estimated)
    \/ ReserveCommit(c)
    \/ ReserveRollback(c)

FinishStep ==
  \E r \in Requests :
    \/ \E actual \in Amounts : settleUsage(r, actual)
    \/ releaseUsage(r)

PaymentEffect ==
  /\ \E b \in Buckets, amount \in Amounts :
       GrantMonthly(b, amount) \/ GrantTopup(b, amount) \/ RevokeUnused(b, amount)
  /\ UNCHANGED <<now, reservations, calls>>

UsageNext == ReserveStep \/ FinishStep \/ PaymentEffect \/ Tick

UsageSpec == UsageInit /\ [][UsageNext]_usageVars

-------------------------------------------------------------------------------
(* The rows have the columns' types, and open transactions name a request. *)
UsageTypeOK ==
  /\ now \in 0..MaxTime
  /\ buckets \in [Buckets -> BucketRows]
  /\ reservations \in [Requests -> ReservationRows]
  /\ ledger \in [Buckets -> Int]
  /\ calls \in [Callers -> [request : Requests \cup {Nobody}, estimated : Int]]

(* What has been spent and what is held never exceed a bucket's total,     *)
(* whatever order reservations, settlements above the estimate, releases   *)
(* and refunds commit in.                                                  *)
Solvent == \A b \in Buckets : buckets[b].spent + buckets[b].reserved <= buckets[b].total

BucketsBalance ==
  \A b \in Buckets :
    /\ buckets[b].reserved = Total([r \in Requests |->
         IF reservations[r].status = "ACTIVE" THEN reservations[r].held[b] ELSE 0])
    /\ buckets[b].spent = Total([r \in Requests |-> reservations[r].charged[b]])
    /\ ledger[b] = buckets[b].total - buckets[b].spent

ChargesAddUp == \A r \in Requests : reservations[r].settled = Total(reservations[r].charged)

BooksBalance == BucketsBalance /\ ChargesAddUp

ExpiredOnlyDrain ==
  \A b \in Buckets :
    Exists(b) /\ buckets[b].expiresAt <= now =>
      /\ buckets'[b].reserved <= buckets[b].reserved
      /\ buckets'[b].spent - buckets[b].spent <= buckets[b].reserved - buckets'[b].reserved

(* The books agree with each other after every commit.  A bucket holds     *)
(* exactly what its ACTIVE reservations hold on it, so nothing stays held  *)
(* for nobody and no hold is returned twice; every microRUB it has spent   *)
(* is charged to a reservation, whose settledMicroRub is what it charges;  *)
(* and its signed ledger entries add up to what is left of its grant.  An  *)
(* expired bucket only drains: nothing is spent on it that was not held    *)
(* before it expired, although settlement locks it.                        *)
BooksAgree == [](BucketsBalance /\ ChargesAddUp) /\ [][ExpiredOnlyDrain]_usageVars

(* A settled, released or anomalous reservation never changes again, so a  *)
(* repeated or late settle or release moves no money.                      *)
FinishedIsFinal ==
  [][\A r \in Requests :
       reservations[r].status \in {"SETTLED", "RELEASED", "ANOMALY"} =>
         reservations'[r] = reservations[r]]_usageVars


===============================================================================

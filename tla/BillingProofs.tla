---------------------------- MODULE BillingProofs ----------------------------
(***************************************************************************)
(* Proofs about money, for every set of buckets, requests, callers and     *)
(* payments, every price and every bound.                                  *)
(*                                                                         *)
(* UsageBilling: type correctness, solvency, finality and the agreement of *)
(* the books.  Solvency needs no statement about sums: a reservation takes *)
(* from each bucket at most what is available on it, a settlement charges  *)
(* each bucket at most what it holds there plus what was still available.  *)
(* It needs, besides the types, that no hold of a reservation is negative. *)
(* The books do: Total adds amounts one by one, which comes to counting    *)
(* them, and counts are compared with the theorems on finite sets.  They   *)
(* agree because each row adds its own charges up, holds what it estimates *)
(* while it is ACTIVE and charges nothing before it is settled.            *)
(*                                                                         *)
(* Payments: usage is granted exactly for money taken, there is one active *)
(* subscription, and the account that checkouts, notifications and refunds *)
(* work on stays solvent and keeps its books.  GrantIffPaid is not         *)
(* inductive: that a late checkout commit or a late notification cannot    *)
(* separate a grant from its status rests on what is under way.  A         *)
(* checkout at the acquirer has no URL yet and without a URL no customer   *)
(* pays; a notification tells a state that the order has reached, and of   *)
(* the states a grant rests on there is no way back.                       *)
(*                                                                         *)
(* Loops: the loops over buckets compute the one greedy split, and the     *)
(* search for the budget of an answer the longest that is paid for.  The   *)
(* first says, for each bucket that is passed, that it is used up while    *)
(* something remains; the buckets come in an order that exists because a   *)
(* bucket's rank is how many are before it.  The second says that what is  *)
(* above the upper bound is too dear, because costs grow with the tokens.  *)
(***************************************************************************)
EXTENDS Payments, Loops, FiniteSetTheorems, WellFoundedInduction, TLAPS

-----------------------------------------------------------------------------
(* Usage.                                                                  *)

(* Holds and charges are amounts, never debts.                             *)
HoldsNonNegative ==
  \A r \in Requests, b \in Buckets : reservations[r].held[b] >= 0

UsageInv == UsageTypeOK /\ HoldsNonNegative /\ Solvent

(* What planReservationAllocations and the settle loop return: an amount   *)
(* for each bucket, at most its cap.                                       *)
LEMMA SplitBounded ==
  ASSUME NEW table, NEW cap, NEW sum, sum \in Int,
         DOMAIN table = Buckets, NEW split \in GreedySplits(table, cap, sum)
  PROVE  /\ split \in [Buckets -> Int]
         /\ \A b \in Buckets : split[b] >= 0 /\ split[b] <= cap[b]
BY DEF GreedySplits

(* A plan fits the available budget of a solvent user.                     *)
LEMMA PlanFits ==
  ASSUME UsageInv, NEW sum \in Int, NEW plan \in planReservationAllocations(sum)
  PROVE  /\ plan \in [Buckets -> Int]
         /\ \A b \in Buckets :
              /\ plan[b] >= 0
              /\ plan[b] <= buckets[b].total - buckets[b].spent - buckets[b].reserved
<1>1. DOMAIN buckets = Buckets
  BY DEF UsageInv, UsageTypeOK
<1>2. /\ plan \in [Buckets -> Int]
      /\ \A b \in Buckets : plan[b] >= 0 /\ plan[b] <= SpendableCap[b]
  BY <1>1, SplitBounded DEF planReservationAllocations
<1>3. ASSUME NEW b \in Buckets
      PROVE  SpendableCap[b] <= buckets[b].total - buckets[b].spent - buckets[b].reserved
            /\ SpendableCap[b] \in Int
  <2>1. buckets[b] \in BucketRows /\ buckets[b].spent + buckets[b].reserved <= buckets[b].total
    BY DEF UsageInv, UsageTypeOK, Solvent
  <2> QED
    BY <2>1 DEF SpendableCap, availableMicroRub, BucketRows
<1>4. ASSUME NEW b \in Buckets
      PROVE  plan[b] <= buckets[b].total - buckets[b].spent - buckets[b].reserved
  <2>1. buckets[b].total \in Int /\ buckets[b].spent \in Int /\ buckets[b].reserved \in Int
    BY DEF UsageInv, UsageTypeOK, BucketRows
  <2> QED
    BY <1>2, <1>3, <2>1
<1> QED
  BY <1>2, <1>4

(* The tail of settleUsage keeps the invariant when each bucket is charged *)
(* at most what is held on it plus what is still available on it.          *)
LEMMA SettleKeepsInv ==
  ASSUME UsageInv,
         NEW r \in Requests, NEW status \in {"SETTLED", "ANOMALY"},
         NEW estimated \in Int, NEW actual \in Int,
         NEW held \in [Buckets -> Int], NEW charged \in [Buckets -> Int],
         \A b \in Buckets :
           /\ held[b] >= 0
           /\ charged[b] <= reservations[r].held[b] + buckets[b].total
                              - buckets[b].spent - buckets[b].reserved,
         SettleAllocations(r, status, estimated, actual, held, charged)
  PROVE  UsageInv'
<1> USE DEF UsageInv
<1>1. /\ reservations' = [reservations EXCEPT ![r] =
            [status |-> status, estimated |-> estimated, settled |-> actual,
             held |-> held, charged |-> charged]]
      /\ buckets' = [b \in Buckets |->
            [buckets[b] EXCEPT !.reserved = @ - reservations[r].held[b],
                               !.spent = @ + charged[b]]]
      /\ ledger' = [b \in Buckets |-> ledger[b] - charged[b]]
      /\ now' = now /\ calls' = calls
  BY DEF SettleAllocations
<1>2. /\ reservations[r] \in ReservationRows
      /\ reservations[r].held \in [Buckets -> Int]
  BY DEF UsageTypeOK, ReservationRows
<1>3. ASSUME NEW b \in Buckets
      PROVE  /\ buckets'[b] \in BucketRows
             /\ buckets'[b].spent + buckets'[b].reserved <= buckets'[b].total
  <2>1. buckets[b] \in BucketRows /\ charged[b] \in Int /\ reservations[r].held[b] \in Int
    BY <1>2 DEF UsageTypeOK
  <2>2. buckets'[b] = [buckets[b] EXCEPT !.reserved = @ - reservations[r].held[b],
                                         !.spent = @ + charged[b]]
    BY <1>1
  <2>3. /\ buckets'[b].total = buckets[b].total
        /\ buckets'[b].spent = buckets[b].spent + charged[b]
        /\ buckets'[b].reserved = buckets[b].reserved - reservations[r].held[b]
        /\ buckets'[b] \in BucketRows
    <3>1. buckets'[b].total = buckets[b].total
      BY <2>1, <2>2 DEF BucketRows
    <3>2. buckets'[b].spent = buckets[b].spent + charged[b]
      BY <2>1, <2>2 DEF BucketRows
    <3>3. buckets'[b].reserved = buckets[b].reserved - reservations[r].held[b]
      BY <2>1, <2>2 DEF BucketRows
    <3>4. /\ buckets'[b] = [buckets[b] EXCEPT !.reserved = buckets'[b].reserved,
                                             !.spent = buckets'[b].spent]
          /\ buckets'[b].reserved \in Int /\ buckets'[b].spent \in Int
      BY <2>1, <2>2, <3>2, <3>3 DEF BucketRows
    <3> QED
      BY <2>1, <3>1, <3>2, <3>3, <3>4 DEF BucketRows
  <2>4. buckets[b].spent + buckets[b].reserved <= buckets[b].total
    BY DEF Solvent
  <2>5. buckets[b].total \in Int /\ buckets[b].spent \in Int /\ buckets[b].reserved \in Int
    BY <2>1 DEF BucketRows
  <2> QED
    BY <2>1, <2>3, <2>4, <2>5
<1>4. reservations' \in [Requests -> ReservationRows]
  BY <1>1 DEF UsageTypeOK, ReservationRows
<1>5. ledger' \in [Buckets -> Int]
  <2>1. ledger \in [Buckets -> Int]
    BY DEF UsageTypeOK
  <2>2. ASSUME NEW b \in Buckets PROVE ledger[b] - charged[b] \in Int
    BY <2>1
  <2> QED
    BY <1>1, <2>2
<1>6. UsageTypeOK'
  BY <1>1, <1>3, <1>4, <1>5 DEF UsageTypeOK
<1>7. HoldsNonNegative'
  BY <1>1 DEF HoldsNonNegative, UsageTypeOK, ReservationRows
<1>8. Solvent'
  BY <1>3 DEF Solvent
<1> QED
  BY <1>6, <1>7, <1>8

(* No bucket, no reservation: an empty account is solvent.                 *)
LEMMA InitInv == UsageInit => UsageInv
<1> SUFFICES ASSUME UsageInit PROVE UsageInv
  OBVIOUS
<1>1. NoBucket \in BucketRows
  BY DEF NoBucket, BucketRows
<1>2. NoReservation \in ReservationRows /\ NoReservation.held = [b \in Buckets |-> 0]
  BY DEF NoReservation, ReservationRows, NoAmounts
<1>3. UsageTypeOK
  BY <1>1, <1>2, UsageAssumption DEF UsageInit, UsageTypeOK, Idle
<1>4. HoldsNonNegative
  BY <1>2 DEF UsageInit, HoldsNonNegative
<1>5. Solvent
  BY DEF UsageInit, Solvent, NoBucket
<1> QED
  BY <1>3, <1>4, <1>5 DEF UsageInv

(* A new bucket is empty of holds and spending, whatever is granted.      *)
LEMMA GrantKeepsInv ==
  ASSUME UsageInv, NEW b \in Buckets, NEW sum \in Nat,
         GrantMonthly(b, sum) \/ GrantTopup(b, sum),
         UNCHANGED <<now, reservations, calls>>
  PROVE  UsageInv'
<1>a. /\ UsageTypeOK /\ HoldsNonNegative /\ Solvent
  BY DEF UsageInv
<1>b. now' = now /\ reservations' = reservations /\ calls' = calls
  OBVIOUS
<1>1. PICK type \in {"MONTHLY", "TOPUP"}, expiresAt \in Int :
        GrantBucket(b, type, sum, expiresAt)
  BY <1>a, UsageAssumption DEF GrantMonthly, GrantTopup, NoExpiry, UsageTypeOK
<1>2. Cardinality({c \in Buckets : Exists(c)}) \in Int
  BY UsageAssumption, FS_Subset, FS_CardinalityType
<1> DEFINE row == [type |-> type, total |-> sum, spent |-> 0, reserved |-> 0,
                   expiresAt |-> expiresAt,
                   createdAt |-> Cardinality({c \in Buckets : Exists(c)})]
<1>3. /\ buckets' = [buckets EXCEPT ![b] = row]
      /\ ledger' = [ledger EXCEPT ![b] = @ + sum]
  BY <1>1 DEF GrantBucket
<1>4. row \in BucketRows
  BY <1>2 DEF BucketRows
<1>5. row.spent = 0 /\ row.reserved = 0 /\ row.total = sum
  OBVIOUS
<1> HIDE DEF row
<1>6. UsageTypeOK'
  BY <1>a, <1>b, <1>3, <1>4 DEF UsageTypeOK
<1>7. Solvent'
  BY <1>a, <1>3, <1>5 DEF Solvent, UsageTypeOK
<1> QED
  BY <1>a, <1>b, <1>6, <1>7 DEF UsageInv, HoldsNonNegative

(* A refund takes at most what is neither spent nor held.                 *)
LEMMA RevokeKeepsInv ==
  ASSUME UsageInv, NEW b \in Buckets, NEW sum \in Nat,
         RevokeUnused(b, sum),
         UNCHANGED <<now, reservations, calls>>
  PROVE  UsageInv'
<1>a. /\ UsageTypeOK /\ HoldsNonNegative /\ Solvent
  BY DEF UsageInv
<1>b. now' = now /\ reservations' = reservations /\ calls' = calls
  OBVIOUS
<1> DEFINE unused == availableMicroRub(buckets[b])
           revoke == IF unused < sum THEN unused ELSE sum
<1>0. /\ buckets[b] \in BucketRows
      /\ buckets[b].total \in Int /\ buckets[b].spent \in Int /\ buckets[b].reserved \in Int
  BY <1>a DEF UsageTypeOK, BucketRows
<1>1. unused \in Int /\ unused = buckets[b].total - buckets[b].spent - buckets[b].reserved
  BY <1>0 DEF availableMicroRub
<1>2. revoke \in Int /\ revoke <= unused
  BY <1>1
<1>3. CASE revoke > 0
  <2>1. /\ buckets' = [buckets EXCEPT ![b].total = @ - revoke]
        /\ ledger' = [ledger EXCEPT ![b] = @ - revoke]
    BY <1>3 DEF RevokeUnused
  <2> HIDE DEF revoke
  <2>2. /\ buckets'[b] \in BucketRows
        /\ buckets'[b].total = buckets[b].total - revoke
        /\ buckets'[b].spent = buckets[b].spent
        /\ buckets'[b].reserved = buckets[b].reserved
    BY <1>a, <1>0, <1>2, <2>1 DEF UsageTypeOK, BucketRows
  <2>3. buckets'[b].spent + buckets'[b].reserved <= buckets'[b].total
    BY <1>0, <1>1, <1>2, <2>2
  <2>4. \A c \in Buckets \ {b} : buckets'[c] = buckets[c]
    BY <1>a, <2>1 DEF UsageTypeOK
  <2>5. buckets' \in [Buckets -> BucketRows]
    BY <1>a, <2>1, <2>2, <2>4 DEF UsageTypeOK
  <2>6. ledger' \in [Buckets -> Int]
    BY <1>a, <1>2, <2>1 DEF UsageTypeOK
  <2>7. Solvent'
    BY <1>a, <2>3, <2>4 DEF Solvent
  <2> QED
    BY <1>a, <1>b, <2>5, <2>6, <2>7 DEF UsageInv, UsageTypeOK, HoldsNonNegative
<1>4. CASE ~(revoke > 0)
  <2>1. buckets' = buckets /\ ledger' = ledger
    BY <1>4 DEF RevokeUnused
  <2> QED
    BY <1>a, <1>b, <2>1 DEF UsageInv, UsageTypeOK, HoldsNonNegative, Solvent
<1> QED
  BY <1>3, <1>4

(* Every step of every operation keeps the invariant.                      *)
LEMMA NextInv == UsageInv /\ [UsageNext]_usageVars => UsageInv'
<1> SUFFICES ASSUME UsageInv, [UsageNext]_usageVars PROVE UsageInv'
  OBVIOUS
<1>0. /\ UsageTypeOK /\ HoldsNonNegative /\ Solvent
  BY DEF UsageInv
<1>1. CASE UNCHANGED usageVars
  BY <1>0, <1>1 DEF UsageInv, UsageTypeOK, HoldsNonNegative, Solvent, usageVars
<1>2. ASSUME NEW c \in Callers, NEW r \in Requests, NEW estimated \in Amounts,
             ReserveLookup(c, r, estimated)
      PROVE  UsageInv'
  BY <1>0, <1>2, UsageAssumption
     DEF ReserveLookup, UsageInv, UsageTypeOK, HoldsNonNegative, Solvent, Amounts
<1>3. ASSUME NEW c \in Callers, ReserveCommit(c)
      PROVE  UsageInv'
  <2> DEFINE r == calls[c].request
             estimated == calls[c].estimated
  <2>1. /\ r # Nobody
        /\ calls' = [calls EXCEPT ![c] = Idle]
        /\ now' = now /\ ledger' = ledger
    BY <1>3 DEF ReserveCommit
  <2>2. r \in Requests /\ estimated \in Int
    BY <1>0, <2>1 DEF UsageTypeOK
  <2>3. PICK plan \in planReservationAllocations(estimated) :
          /\ reservations' = [reservations EXCEPT ![r] =
                [status |-> "ACTIVE", estimated |-> estimated, settled |-> 0,
                 held |-> plan, charged |-> NoAmounts]]
          /\ buckets' = [b \in Buckets |-> [buckets[b] EXCEPT !.reserved = @ + plan[b]]]
    BY <1>3 DEF ReserveCommit
  <2> HIDE DEF r, estimated
  <2>4. /\ plan \in [Buckets -> Int]
        /\ \A b \in Buckets :
             /\ plan[b] >= 0
             /\ plan[b] <= buckets[b].total - buckets[b].spent - buckets[b].reserved
    BY <2>2, <2>3, PlanFits
  <2>5. ASSUME NEW b \in Buckets
        PROVE  /\ buckets'[b] \in BucketRows
               /\ buckets'[b].spent + buckets'[b].reserved <= buckets'[b].total
    <3>1. buckets[b] \in BucketRows /\ plan[b] \in Int
      BY <1>0, <2>4 DEF UsageTypeOK
    <3>2. /\ buckets'[b].total = buckets[b].total
          /\ buckets'[b].spent = buckets[b].spent
          /\ buckets'[b].reserved = buckets[b].reserved + plan[b]
          /\ buckets'[b] \in BucketRows
      BY <2>3, <3>1 DEF BucketRows
    <3>3. buckets[b].total \in Int /\ buckets[b].spent \in Int /\ buckets[b].reserved \in Int
      BY <3>1 DEF BucketRows
    <3> QED
      BY <2>4, <3>1, <3>2, <3>3
  <2>6. reservations' \in [Requests -> ReservationRows]
    BY <1>0, <2>2, <2>3, <2>4 DEF UsageTypeOK, ReservationRows, NoAmounts
  <2>7. UsageTypeOK'
    <3>1. Idle \in [request : Requests \cup {Nobody}, estimated : Int]
      BY DEF Idle
    <3> QED
      BY <1>0, <2>1, <2>3, <2>5, <2>6, <3>1 DEF UsageTypeOK
  <2>8. HoldsNonNegative'
    BY <1>0, <2>2, <2>3, <2>4 DEF HoldsNonNegative, UsageTypeOK, ReservationRows
  <2> QED
    BY <2>5, <2>7, <2>8 DEF UsageInv, Solvent
<1>4. ASSUME NEW c \in Callers, ReserveRollback(c)
      PROVE  UsageInv'
  BY <1>0, <1>4 DEF ReserveRollback, UsageInv, UsageTypeOK, HoldsNonNegative, Solvent, Idle
<1>5. ASSUME NEW r \in Requests, NEW actual \in Amounts, settleUsage(r, actual)
      PROVE  UsageInv'
  <2>0. /\ actual \in Int
        /\ reservations[r] \in ReservationRows
        /\ reservations[r].estimated \in Int
        /\ reservations[r].held \in [Buckets -> Int]
        /\ \A b \in Buckets : reservations[r].held[b] >= 0
        /\ DOMAIN buckets = Buckets
    BY <1>0, UsageAssumption DEF UsageTypeOK, ReservationRows, HoldsNonNegative, Amounts
  <2>b. ASSUME NEW b \in Buckets
        PROVE  /\ buckets[b].total \in Int /\ buckets[b].spent \in Int /\ buckets[b].reserved \in Int
               /\ buckets[b].spent + buckets[b].reserved <= buckets[b].total
    BY <1>0 DEF UsageTypeOK, BucketRows, Solvent
  <2>1. CASE SettleWithin(r, actual)
    <3>1. PICK charged \in GreedySplits(buckets, reservations[r].held, actual) :
            SettleAllocations(r, "SETTLED", reservations[r].estimated, actual,
                              reservations[r].held, charged)
      BY <2>1 DEF SettleWithin
    <3>2. /\ charged \in [Buckets -> Int]
          /\ \A b \in Buckets : charged[b] <= reservations[r].held[b]
      BY <2>0, <3>1, SplitBounded
    <3>3. \A b \in Buckets :
            charged[b] <= reservations[r].held[b] + buckets[b].total
                            - buckets[b].spent - buckets[b].reserved
      BY <2>0, <2>b, <3>2
    <3> QED
      BY <2>0, <3>1, <3>2, <3>3, SettleKeepsInv
  <2>2. CASE SettleWithExtra(r, actual)
    <3>1. PICK extra \in planReservationAllocations(actual - reservations[r].estimated) :
            LET held == [b \in Buckets |-> reservations[r].held[b] + extra[b]]
            IN SettleAllocations(r, "SETTLED", actual, actual, held, held)
      BY <2>2 DEF SettleWithExtra
    <3> DEFINE held == [b \in Buckets |-> reservations[r].held[b] + extra[b]]
    <3>2. /\ extra \in [Buckets -> Int]
          /\ \A b \in Buckets :
               /\ extra[b] >= 0
               /\ extra[b] <= buckets[b].total - buckets[b].spent - buckets[b].reserved
      BY <2>0, <3>1, PlanFits
    <3>3. /\ held \in [Buckets -> Int]
          /\ \A b \in Buckets :
               /\ held[b] >= 0
               /\ held[b] <= reservations[r].held[b] + buckets[b].total
                               - buckets[b].spent - buckets[b].reserved
      BY <2>0, <2>b, <3>2
    <3>4. SettleAllocations(r, "SETTLED", actual, actual, held, held)
      BY <3>1
    <3> QED
      BY <2>0, <3>3, <3>4, SettleKeepsInv
  <2>3. CASE SettleAnomaly(r, actual)
    <3>1. SettleAllocations(r, "ANOMALY", reservations[r].estimated,
                            reservations[r].estimated, reservations[r].held,
                            reservations[r].held)
      BY <2>3 DEF SettleAnomaly
    <3>2. \A b \in Buckets :
            reservations[r].held[b] <= reservations[r].held[b] + buckets[b].total
                                         - buckets[b].spent - buckets[b].reserved
      BY <2>0, <2>b
    <3> QED
      BY <2>0, <3>1, <3>2, SettleKeepsInv
  <2> QED
    BY <1>5, <2>1, <2>2, <2>3 DEF settleUsage
<1>6. ASSUME NEW r \in Requests, releaseUsage(r)
      PROVE  UsageInv'
  <2>1. /\ buckets' = [b \in Buckets |->
              [buckets[b] EXCEPT !.reserved = @ - reservations[r].held[b]]]
        /\ reservations' = [reservations EXCEPT ![r] =
              [status |-> "RELEASED", estimated |-> reservations[r].estimated,
               settled |-> 0, held |-> reservations[r].held, charged |-> NoAmounts]]
        /\ now' = now /\ ledger' = ledger /\ calls' = calls
    BY <1>6 DEF releaseUsage
  <2>2. ASSUME NEW b \in Buckets
        PROVE  /\ buckets'[b] \in BucketRows
               /\ buckets'[b].spent + buckets'[b].reserved <= buckets'[b].total
    <3>1. /\ buckets[b] \in BucketRows
          /\ reservations[r].held[b] \in Int
          /\ reservations[r].held[b] >= 0
          /\ buckets[b].spent + buckets[b].reserved <= buckets[b].total
      BY <1>0 DEF UsageTypeOK, ReservationRows, HoldsNonNegative, Solvent
    <3>2. /\ buckets'[b].total = buckets[b].total
          /\ buckets'[b].spent = buckets[b].spent
          /\ buckets'[b].reserved = buckets[b].reserved - reservations[r].held[b]
          /\ buckets'[b] \in BucketRows
      BY <2>1, <3>1 DEF BucketRows
    <3>3. buckets[b].total \in Int /\ buckets[b].spent \in Int /\ buckets[b].reserved \in Int
      BY <3>1 DEF BucketRows
    <3> QED
      BY <3>1, <3>2, <3>3
  <2>3. /\ reservations' \in [Requests -> ReservationRows]
        /\ \A q \in Requests : reservations'[q].held = reservations[q].held
    <3>1. NoAmounts \in [Buckets -> Int]
      BY DEF NoAmounts
    <3>2. reservations \in [Requests -> ReservationRows]
      BY <1>0 DEF UsageTypeOK
    <3> QED
      BY <2>1, <3>1, <3>2 DEF ReservationRows
  <2>4. UsageTypeOK'
    BY <1>0, <2>1, <2>2, <2>3 DEF UsageTypeOK
  <2> QED
    BY <1>0, <2>2, <2>3, <2>4 DEF UsageInv, HoldsNonNegative, Solvent
<1>7. ASSUME PaymentEffect
      PROVE  UsageInv'
  <2>1. /\ now' = now /\ reservations' = reservations /\ calls' = calls
    BY <1>7 DEF PaymentEffect
  <2>2. PICK b \in Buckets, sum \in Amounts :
          GrantMonthly(b, sum) \/ GrantTopup(b, sum) \/ RevokeUnused(b, sum)
    BY <1>7 DEF PaymentEffect
  <2>3. sum \in Int /\ sum >= 0
    BY UsageAssumption DEF Amounts
  <2>4. CASE GrantMonthly(b, sum) \/ GrantTopup(b, sum)
    BY <2>1, <2>3, <2>4, GrantKeepsInv
  <2>5. CASE RevokeUnused(b, sum)
    BY <2>1, <2>3, <2>5, RevokeKeepsInv
  <2> QED
    BY <2>2, <2>4, <2>5
<1>8. ASSUME Tick
      PROVE  UsageInv'
  BY <1>0, <1>8, UsageAssumption DEF Tick, UsageInv, UsageTypeOK, HoldsNonNegative, Solvent
<1> QED
  BY <1>1, <1>2, <1>3, <1>4, <1>5, <1>6, <1>7, <1>8
     DEF UsageNext, ReserveStep, FinishStep

(* Whatever the buckets, requests and bounds, and however reservations,    *)
(* settlements, releases, grants and refunds interleave, every reachable   *)
(* state has the types of the tables.                                      *)
THEOREM TypeCorrect == UsageSpec => []UsageTypeOK
<1>1. UsageInv => UsageTypeOK
  BY DEF UsageInv
<1> QED
  BY InitInv, NextInv, <1>1, PTL DEF UsageSpec

(* No bucket is ever spent or held beyond its total.                       *)
THEOREM NeverOverspent == UsageSpec => []Solvent
<1>1. UsageInv => Solvent
  BY DEF UsageInv
<1> QED
  BY InitInv, NextInv, <1>1, PTL DEF UsageSpec

(* A reservation that is settled, released or an anomaly keeps its row for  *)
(* ever: a settle or release that is repeated, late or races another one   *)
(* cannot charge or free it a second time.                                 *)
THEOREM FinishedStaysFinished == UsageSpec => FinishedIsFinal
<1> DEFINE Final == \A r \in Requests :
             reservations[r].status \in {"SETTLED", "RELEASED", "ANOMALY"} =>
               reservations'[r] = reservations[r]
<1>1. UsageInv /\ [UsageNext]_usageVars => [Final]_usageVars
  <2> SUFFICES ASSUME UsageInv, UsageNext PROVE Final
    OBVIOUS
  <2>0. reservations \in [Requests -> ReservationRows]
    BY DEF UsageInv, UsageTypeOK
  <2>1. CASE ReserveStep
    BY <2>0, <2>1 DEF ReserveStep, ReserveLookup, ReserveCommit, ReserveRollback
  <2>2. CASE FinishStep
    <3>1. PICK r \in Requests : (\E actual \in Amounts : settleUsage(r, actual)) \/ releaseUsage(r)
      BY <2>2 DEF FinishStep
    <3>2. reservations[r].status = "ACTIVE"
      BY <3>1 DEF settleUsage, SettleWithin, SettleWithExtra, SettleAnomaly, releaseUsage
    <3>3. \E row : reservations' = [reservations EXCEPT ![r] = row]
      BY <3>1 DEF settleUsage, SettleWithin, SettleWithExtra, SettleAnomaly,
                  SettleAllocations, releaseUsage
    <3> QED
      BY <2>0, <3>2, <3>3
  <2>3. CASE PaymentEffect
    BY <2>3 DEF PaymentEffect
  <2>4. CASE Tick
    BY <2>4 DEF Tick
  <2> QED
    BY <2>1, <2>2, <2>3, <2>4 DEF UsageNext
<1> QED
  BY InitInv, NextInv, <1>1, PTL DEF UsageSpec, FinishedIsFinal

-------------------------------------------------------------------------------
(* What a total is.                                                        *)

(* Among some subsets of a finite set one has none of them inside it. *)
LEMMA SmallestSet ==
  ASSUME NEW S, IsFiniteSet(S), NEW X \in SUBSET (SUBSET S), X # {}
  PROVE  \E T \in X : \A U \in X : U \subseteq T => U = T
  <1>1. IsWellFoundedOn(StrictSubsetOrdering(S), SUBSET S)
    BY FS_StrictSubsetOrderingWellFounded, FS_FiniteSubsetsOfFinite
  <1>2. PICK T \in X : \A U \in X : <<U, T>> \notin StrictSubsetOrdering(S)
    BY <1>1, WFMin
  <1>3. ASSUME NEW U \in X, U \subseteq T PROVE U = T
    BY <1>2, <1>3 DEF StrictSubsetOrdering
  <1> QED BY <1>3

(* The microRUB of the amounts on the buckets S, one by one. *)
Units(f, S) == UNION {{b} \X (1..f[b]) : b \in S}

Counted(f, S) == Cardinality(Units(f, S))

Own(f, x) == {x} \X (1..f[x])

LEMMA UnitsStep ==
  ASSUME NEW S, NEW f, NEW x \in S, f[x] \in Nat
  PROVE  /\ Units(f, S) = Units(f, S \ {x}) \cup Own(f, x)
         /\ Units(f, S \ {x}) \cap Own(f, x) = {}
         /\ IsFiniteSet(Own(f, x)) /\ Cardinality(Own(f, x)) = f[x]
  <1>1. IsFiniteSet(1..f[x]) /\ Cardinality(1..f[x]) = f[x]
    <2>1. PICK n \in Nat : n = f[x]
      OBVIOUS
    <2>2. IsFiniteSet(1..n) /\ Cardinality(1..n) = IF 1 > n THEN 0 ELSE n - 1 + 1
      BY FS_Interval
    <2>3. IF 1 > n THEN n = 0 ELSE n - 1 + 1 = n
      OBVIOUS
    <2> QED
      BY <2>1, <2>2, <2>3
  <1>2. IsFiniteSet({x}) /\ Cardinality({x}) = 1
    BY FS_Singleton
  <1>3. IsFiniteSet(Own(f, x)) /\ Cardinality(Own(f, x)) = 1 * f[x]
    BY <1>1, <1>2, FS_Product DEF Own
  <1>4. Cardinality(Own(f, x)) = f[x]
    <2>1. 1 * f[x] = f[x]
      OBVIOUS
    <2> QED BY <1>3, <2>1
  <1>5. \A y : y \in S <=> y \in S \ {x} \/ y = x
    OBVIOUS
  <1>6. Units(f, S) = Units(f, S \ {x}) \cup Own(f, x)
    BY <1>5 DEF Units, Own
  <1>7. Units(f, S \ {x}) \cap Own(f, x) = {}
    BY DEF Units, Own
  <1> QED BY <1>3, <1>4, <1>6, <1>7

LEMMA UnitsFinite ==
  ASSUME NEW S, IsFiniteSet(S), NEW f, \A b \in S : f[b] \in Nat
  PROVE  IsFiniteSet(Units(f, S)) /\ Counted(f, S) \in Nat
  <1>1. PICK X : X = {T \in SUBSET S : ~IsFiniteSet(Units(f, T))}
    OBVIOUS
  <1>2. ASSUME X # {} PROVE FALSE
    <2>1. PICK T \in X : \A U \in X : U \subseteq T => U = T
      BY <1>1, <1>2, SmallestSet
    <2>2. T \in SUBSET S /\ ~IsFiniteSet(Units(f, T))
      BY <1>1
    <2>3. T # {}
      <3>1. Units(f, {}) = {}
        BY DEF Units
      <3> QED BY <2>2, <3>1, FS_EmptySet
    <2>4. PICK x \in T : TRUE
      BY <2>3
    <2>5. IsFiniteSet(Units(f, T \ {x}))
      BY <1>1, <2>1, <2>2, <2>4
    <2>6. /\ Units(f, T) = Units(f, T \ {x}) \cup Own(f, x)
          /\ IsFiniteSet(Own(f, x))
      BY <2>2, <2>4, UnitsStep
    <2> QED BY <2>2, <2>5, <2>6, FS_Union
  <1>3. IsFiniteSet(Units(f, S))
    BY <1>1, <1>2
  <1> QED BY <1>3, FS_CardinalityType DEF Counted

LEMMA CountedStep ==
  ASSUME NEW S, IsFiniteSet(S), NEW f, \A b \in S : f[b] \in Nat, NEW x \in S
  PROVE  Counted(f, S) = f[x] + Counted(f, S \ {x}) /\ Counted(f, S \ {x}) \in Nat
  <1>1. IsFiniteSet(S \ {x}) /\ \A b \in S \ {x} : f[b] \in Nat
    BY FS_RemoveElement
  <1>2. IsFiniteSet(Units(f, S \ {x})) /\ Counted(f, S \ {x}) \in Nat
    BY <1>1, UnitsFinite
  <1>3. PICK A : A = Units(f, S \ {x})
    OBVIOUS
  <1>4. PICK B : B = Own(f, x)
    OBVIOUS
  <1>5. /\ Units(f, S) = A \cup B /\ A \cap B = {} /\ IsFiniteSet(A) /\ IsFiniteSet(B)
        /\ Cardinality(B) = f[x] /\ f[x] \in Nat
    BY <1>2, <1>3, <1>4, UnitsStep
  <1>6. Cardinality(A \cup B) = Cardinality(A) + Cardinality(B) - Cardinality(A \cap B)
    BY <1>5, FS_Union
  <1>7. Cardinality(A \cap B) = 0
    BY <1>5, FS_EmptySet
  <1> QED BY <1>2, <1>3, <1>5, <1>6, <1>7 DEF Counted

LEMMA CountedEmpty == \A f : Counted(f, {}) = 0
  <1>1. \A f : Units(f, {}) = {}
    BY DEF Units
  <1> QED BY <1>1, FS_EmptySet DEF Counted

(* Total adds the amounts up, one after the other, in the order of CHOOSE. *)
OneByOne(g, f, S) ==
    g = [s \in SUBSET S |->
           IF s = {} THEN 0
           ELSE LET x == CHOOSE x \in s : TRUE IN f[x] + g[s \ {x}]]

LEMMA OneByOneStep ==
  ASSUME NEW S, NEW f, NEW g, OneByOne(g, f, S), NEW T \in SUBSET S, T # {}
  PROVE  \E x \in T : g[T] = f[x] + g[T \ {x}]
  <1>1. PICK x : x = CHOOSE y \in T : TRUE
    OBVIOUS
  <1>2. x \in T
    BY <1>1
  <1>3. g[T] = f[x] + g[T \ {x}]
    BY <1>1 DEF OneByOne
  <1> QED BY <1>2, <1>3

LEMMA OneByOneCounts ==
  ASSUME NEW S, IsFiniteSet(S), NEW f, \A b \in S : f[b] \in Nat, NEW g, OneByOne(g, f, S)
  PROVE  g[S] = Counted(f, S)
  <1>1. PICK X : X = {T \in SUBSET S : g[T] # Counted(f, T)}
    OBVIOUS
  <1>2. ASSUME X # {} PROVE FALSE
    <2>1. PICK T \in X : \A U \in X : U \subseteq T => U = T
      BY <1>1, <1>2, SmallestSet
    <2>2. T \in SUBSET S /\ g[T] # Counted(f, T)
      BY <1>1
    <2>3. T # {}
      <3>1. g[{}] = 0
        BY DEF OneByOne
      <3> QED BY <2>2, <3>1, CountedEmpty
    <2>4. PICK x \in T : g[T] = f[x] + g[T \ {x}]
      BY <2>2, <2>3, OneByOneStep
    <2>5. g[T \ {x}] = Counted(f, T \ {x})
      BY <1>1, <2>1, <2>2, <2>4
    <2>6. IsFiniteSet(T) /\ \A b \in T : f[b] \in Nat
      BY <2>2, FS_Subset
    <2>7. Counted(f, T) = f[x] + Counted(f, T \ {x})
      BY <2>6, CountedStep
    <2> QED BY <2>2, <2>4, <2>5, <2>7
  <1> QED BY <1>1, <1>2

LEMMA OneByOneExists ==
  ASSUME NEW S, IsFiniteSet(S), NEW f, \A b \in S : f[b] \in Nat
  PROVE  \E g : OneByOne(g, f, S)
  <1>1. PICK g : g = [s \in SUBSET S |-> Counted(f, s)]
    OBVIOUS
  <1>2. ASSUME NEW s \in SUBSET S
        PROVE  g[s] = IF s = {} THEN 0
                      ELSE LET x == CHOOSE x \in s : TRUE IN f[x] + g[s \ {x}]
    <2>1. CASE s = {}
      BY <1>1, <2>1, CountedEmpty
    <2>2. CASE s # {}
      <3>1. PICK x : x = CHOOSE y \in s : TRUE
        OBVIOUS
      <3>2. x \in s
        BY <2>2, <3>1
      <3>3. IsFiniteSet(s) /\ \A b \in s : f[b] \in Nat
        BY FS_Subset
      <3>4. Counted(f, s) = f[x] + Counted(f, s \ {x})
        BY <3>2, <3>3, CountedStep
      <3>5. g[s] = f[x] + g[s \ {x}]
        BY <1>1, <3>4
      <3> QED BY <2>2, <3>1, <3>5
    <2> QED BY <2>1, <2>2
  <1>3. OneByOne(g, f, S)
    BY <1>1, <1>2 DEF OneByOne
  <1> QED BY <1>3

LEMMA TotalOneByOne ==
  ASSUME NEW S, NEW f, DOMAIN f = S
  PROVE  Total(f) = (CHOOSE g : OneByOne(g, f, S))[S]
  BY DEF Total, MapThenSumSet, MapThenFoldSet, OneByOne

LEMMA TotalCounts ==
  ASSUME NEW S, IsFiniteSet(S), NEW f \in [S -> Nat]
  PROVE  Total(f) = Counted(f, S)
  <1>1. PICK h : h = CHOOSE g : OneByOne(g, f, S)
    OBVIOUS
  <1>2. OneByOne(h, f, S)
    BY <1>1, OneByOneExists
  <1>3. Total(f) = h[S]
    BY <1>1, TotalOneByOne
  <1> QED BY <1>2, <1>3, OneByOneCounts

(* What the totals of the accounts are computed with. *)
LEMMA TotalType ==
  ASSUME NEW S, IsFiniteSet(S), NEW f \in [S -> Nat]
  PROVE  Total(f) \in Nat /\ \A x \in S : f[x] <= Total(f)
  <1>1. Total(f) \in Nat
    BY TotalCounts, UnitsFinite
  <1>2. ASSUME NEW x \in S PROVE f[x] <= Total(f)
    <2>1. Total(f) = f[x] + Counted(f, S \ {x}) /\ Counted(f, S \ {x}) \in Nat
      BY TotalCounts, CountedStep
    <2>2. f[x] \in Nat
      OBVIOUS
    <2> QED BY <2>1, <2>2
  <1> QED BY <1>1, <1>2

LEMMA SameUnits ==
  ASSUME NEW S, NEW f, NEW g, \A b \in S : f[b] = g[b]
  PROVE  Counted(f, S) = Counted(g, S)
  <1>1. Units(f, S) = Units(g, S)
    BY DEF Units
  <1> QED BY <1>1 DEF Counted

LEMMA TotalChanges ==
  ASSUME NEW S, IsFiniteSet(S), NEW f \in [S -> Nat], NEW g \in [S -> Nat],
         NEW x \in S, \A b \in S \ {x} : f[b] = g[b]
  PROVE  Total(g) = Total(f) - f[x] + g[x]
  <1>1. /\ Total(f) = f[x] + Counted(f, S \ {x}) /\ Counted(f, S \ {x}) \in Nat
        /\ Total(g) = g[x] + Counted(g, S \ {x})
    BY TotalCounts, CountedStep
  <1>2. Counted(f, S \ {x}) = Counted(g, S \ {x})
    BY SameUnits
  <1>3. f[x] \in Nat /\ g[x] \in Nat
    OBVIOUS
  <1> QED BY <1>1, <1>2, <1>3

LEMMA TotalNothing ==
  ASSUME NEW S, IsFiniteSet(S)
  PROVE  Total([x \in S |-> 0]) = 0
  <1>1. PICK f : f = [x \in S |-> 0]
    OBVIOUS
  <1>2. f \in [S -> Nat] /\ \A b \in S : f[b] = 0
    BY <1>1
  <1>3. Units(f, S) = {}
    BY <1>2 DEF Units
  <1>4. Counted(f, S) = 0
    BY <1>3, FS_EmptySet DEF Counted
  <1> QED BY <1>1, <1>2, <1>4, TotalCounts

LEMMA CountedAdds ==
  ASSUME NEW S, IsFiniteSet(S), NEW f \in [S -> Nat], NEW g \in [S -> Nat],
         NEW h \in [S -> Nat], \A b \in S : h[b] = f[b] + g[b]
  PROVE  Counted(h, S) = Counted(f, S) + Counted(g, S)
  <1>1. PICK X : X = {T \in SUBSET S : Counted(h, T) # Counted(f, T) + Counted(g, T)}
    OBVIOUS
  <1>2. ASSUME X # {} PROVE FALSE
    <2>1. PICK T \in X : \A U \in X : U \subseteq T => U = T
      BY <1>1, <1>2, SmallestSet
    <2>2. T \in SUBSET S /\ Counted(h, T) # Counted(f, T) + Counted(g, T)
      BY <1>1
    <2>3. T # {}
      <3>1. Counted(h, {}) = 0 /\ Counted(f, {}) = 0 /\ Counted(g, {}) = 0
        BY CountedEmpty
      <3> QED BY <2>2, <3>1
    <2>4. PICK x \in T : TRUE
      BY <2>3
    <2>5. T \ {x} \notin X
      BY <2>1, <2>4
    <2>6. Counted(h, T \ {x}) = Counted(f, T \ {x}) + Counted(g, T \ {x})
      BY <1>1, <2>2, <2>5
    <2>7. IsFiniteSet(T) /\ \A b \in T : f[b] \in Nat /\ g[b] \in Nat /\ h[b] \in Nat
      BY <2>2, FS_Subset
    <2>8. /\ Counted(f, T) = f[x] + Counted(f, T \ {x}) /\ Counted(f, T \ {x}) \in Nat
          /\ Counted(g, T) = g[x] + Counted(g, T \ {x}) /\ Counted(g, T \ {x}) \in Nat
          /\ Counted(h, T) = h[x] + Counted(h, T \ {x}) /\ Counted(h, T \ {x}) \in Nat
      BY <2>4, <2>7, CountedStep
    <2>9. h[x] = f[x] + g[x] /\ f[x] \in Nat /\ g[x] \in Nat
      BY <2>2, <2>4
    <2> QED BY <2>2, <2>6, <2>8, <2>9
  <1> QED BY <1>1, <1>2

LEMMA TotalAdds ==
  ASSUME NEW S, IsFiniteSet(S), NEW f \in [S -> Nat], NEW g \in [S -> Nat],
         NEW h \in [S -> Nat], \A b \in S : h[b] = f[b] + g[b]
  PROVE  Total(h) = Total(f) + Total(g)
  BY TotalCounts, CountedAdds

-----------------------------------------------------------------------------
(* The books.                                                              *)

HeldOn(row, b) == IF row.status = "ACTIVE" THEN row.held[b] ELSE 0

(* A row holds and charges amounts, adds its charges up, holds what it     *)
(* estimates while it is ACTIVE and charges nothing until it is settled.   *)
RowOK(row) ==
  /\ row \in ReservationRows
  /\ row.held \in [Buckets -> Nat] /\ row.charged \in [Buckets -> Nat]
  /\ row.settled = Total(row.charged)
  /\ row.status = "ACTIVE" => row.estimated = Total(row.held)
  /\ row.status \notin {"SETTLED", "ANOMALY"} => \A b \in Buckets : row.charged[b] = 0

(* A bucket that has not been granted yet has nothing.                     *)
UngrantedIsEmpty ==
  \A b \in Buckets :
    ~Exists(b) => buckets[b].total = 0 /\ buckets[b].spent = 0 /\ buckets[b].reserved = 0

BooksInv ==
  /\ UsageInv
  /\ \A r \in Requests : RowOK(reservations[r])
  /\ UngrantedIsEmpty
  /\ BooksBalance

(* What one row holds or charges on a bucket is part of what the bucket    *)
(* holds or has spent, and changing the row changes the bucket by as much. *)
LEMMA HoldsAddUp ==
  ASSUME BooksInv, NEW b \in Buckets, NEW r \in Requests
  PROVE  /\ HeldOn(reservations[r], b) \in Nat /\ reservations[r].charged[b] \in Nat
         /\ HeldOn(reservations[r], b) <= buckets[b].reserved
         /\ reservations[r].charged[b] <= buckets[b].spent
         /\ buckets[b].reserved \in Int /\ buckets[b].spent \in Int /\ buckets[b].total \in Int
         /\ ledger[b] \in Int
  <1>0. IsFiniteSet(Requests)
    BY UsageAssumption
  <1>1. PICK f : f = [q \in Requests |->
                        IF reservations[q].status = "ACTIVE" THEN reservations[q].held[b] ELSE 0]
    OBVIOUS
  <1>2. PICK g : g = [q \in Requests |-> reservations[q].charged[b]]
    OBVIOUS
  <1>3. \A q \in Requests : reservations[q].held[b] \in Nat /\ reservations[q].charged[b] \in Nat
    BY DEF BooksInv, RowOK
  <1>4. f \in [Requests -> Nat] /\ g \in [Requests -> Nat]
    BY <1>1, <1>2, <1>3
  <1>5. f[r] <= Total(f) /\ g[r] <= Total(g)
    BY <1>0, <1>4, TotalType
  <1>6. buckets[b].reserved = Total(f) /\ buckets[b].spent = Total(g)
    BY <1>1, <1>2 DEF BooksInv, BooksBalance, BucketsBalance, ChargesAddUp
  <1>7. f[r] = HeldOn(reservations[r], b) /\ g[r] = reservations[r].charged[b]
    BY <1>1, <1>2 DEF HeldOn
  <1>8. /\ buckets[b].reserved \in Int /\ buckets[b].spent \in Int /\ buckets[b].total \in Int
        /\ ledger[b] \in Int
    BY DEF BooksInv, UsageInv, UsageTypeOK, BucketRows
  <1> QED BY <1>4, <1>5, <1>6, <1>7, <1>8

(* The bookings of a step that changes one row.                            *)
Booked(old, row) ==
  \A b \in Buckets :
    /\ Exists(b)' = Exists(b) /\ buckets'[b].total = buckets[b].total
    /\ buckets'[b].reserved = buckets[b].reserved - HeldOn(old, b) + HeldOn(row, b)
    /\ buckets'[b].spent = buckets[b].spent - old.charged[b] + row.charged[b]
    /\ ledger'[b] = ledger[b] + old.charged[b] - row.charged[b]
    /\ ~Exists(b) => HeldOn(row, b) = 0 /\ row.charged[b] = 0

LEMMA RowChanges ==
  ASSUME BooksInv, UsageInv', NEW r \in Requests, NEW row, RowOK(row),
         reservations' = [reservations EXCEPT ![r] = row], Booked(reservations[r], row)
  PROVE  BooksInv'
  <1>0. IsFiniteSet(Requests)
    BY UsageAssumption
  <1>1. /\ \A q \in Requests : RowOK(reservations[q])
        /\ DOMAIN reservations = Requests
    BY DEF BooksInv, UsageInv, UsageTypeOK
  <1>2. /\ \A q \in Requests \ {r} : reservations'[q] = reservations[q]
        /\ reservations'[r] = row
    BY <1>1
  <1>3. ASSUME NEW q \in Requests PROVE RowOK(reservations'[q])
    BY <1>1, <1>2
  <1>4. ASSUME NEW b \in Buckets
        PROVE  /\ buckets'[b].reserved = Total([q \in Requests |->
                    IF reservations'[q].status = "ACTIVE" THEN reservations'[q].held[b] ELSE 0])
               /\ buckets'[b].spent = Total([q \in Requests |-> reservations'[q].charged[b]])
    <2>1. PICK f : f = [q \in Requests |->
                          IF reservations[q].status = "ACTIVE" THEN reservations[q].held[b] ELSE 0]
      OBVIOUS
    <2>2. PICK g : g = [q \in Requests |->
                          IF reservations'[q].status = "ACTIVE" THEN reservations'[q].held[b] ELSE 0]
      OBVIOUS
    <2>3. PICK c : c = [q \in Requests |-> reservations[q].charged[b]]
      OBVIOUS
    <2>4. PICK d : d = [q \in Requests |-> reservations'[q].charged[b]]
      OBVIOUS
    <2>5. \A q \in Requests :
            /\ reservations[q].held[b] \in Nat /\ reservations[q].charged[b] \in Nat
            /\ reservations'[q].held[b] \in Nat /\ reservations'[q].charged[b] \in Nat
      BY <1>1, <1>3 DEF RowOK
    <2>6. /\ f \in [Requests -> Nat] /\ g \in [Requests -> Nat]
          /\ c \in [Requests -> Nat] /\ d \in [Requests -> Nat]
      BY <2>1, <2>2, <2>3, <2>4, <2>5
    <2>7. \A q \in Requests \ {r} : f[q] = g[q] /\ c[q] = d[q]
      BY <1>2, <2>1, <2>2, <2>3, <2>4
    <2>8. Total(g) = Total(f) - f[r] + g[r] /\ Total(d) = Total(c) - c[r] + d[r]
      BY <1>0, <2>6, <2>7, TotalChanges
    <2>9. /\ f[r] = HeldOn(reservations[r], b) /\ g[r] = HeldOn(row, b)
          /\ c[r] = reservations[r].charged[b] /\ d[r] = row.charged[b]
      BY <1>2, <2>1, <2>2, <2>3, <2>4 DEF HeldOn
    <2>10. buckets[b].reserved = Total(f) /\ buckets[b].spent = Total(c)
      BY <2>1, <2>3 DEF BooksInv, BooksBalance, BucketsBalance, ChargesAddUp
    <2>11. buckets'[b].reserved = Total(g) /\ buckets'[b].spent = Total(d)
      BY <2>8, <2>9, <2>10 DEF Booked
    <2> QED BY <2>2, <2>4, <2>11
  <1>5. ASSUME NEW b \in Buckets
        PROVE  ledger'[b] = buckets'[b].total - buckets'[b].spent
    <2>1. row.charged[b] \in Int
      BY DEF RowOK
    <2>2. ledger[b] = buckets[b].total - buckets[b].spent
      BY DEF BooksInv, BooksBalance, BucketsBalance, ChargesAddUp
    <2> QED BY <2>1, <2>2, HoldsAddUp DEF Booked
  <1>6. ASSUME NEW b \in Buckets, ~Exists(b)'
        PROVE  buckets'[b].total = 0 /\ buckets'[b].spent = 0 /\ buckets'[b].reserved = 0
    <2>1. ~Exists(b)
      BY <1>6 DEF Booked
    <2>2. buckets[b].total = 0 /\ buckets[b].spent = 0 /\ buckets[b].reserved = 0
      BY <2>1 DEF BooksInv, UngrantedIsEmpty
    <2>3. HeldOn(reservations[r], b) = 0 /\ reservations[r].charged[b] = 0
      BY <2>2, HoldsAddUp
    <2> QED BY <2>1, <2>2, <2>3 DEF Booked
  <1>7. \A q \in Requests : reservations'[q].settled = Total(reservations'[q].charged)
    BY <1>3 DEF RowOK
  <1>8. BooksBalance'
    BY <1>4, <1>5, <1>7 DEF BooksBalance, BucketsBalance, ChargesAddUp
  <1>9. UngrantedIsEmpty'
    BY <1>6 DEF UngrantedIsEmpty
  <1> QED BY <1>3, <1>8, <1>9 DEF BooksInv

(* The amounts of a plan add up to what was asked for, and a bucket that    *)
(* cannot be spent gives nothing.                                          *)
LEMMA PlanAddsUp ==
  ASSUME UsageInv, NEW sum \in Int, NEW plan \in planReservationAllocations(sum)
  PROVE  /\ plan \in [Buckets -> Nat] /\ Total(plan) = sum
         /\ \A b \in Buckets : ~Spendable(b) => plan[b] = 0
  <1>1. DOMAIN buckets = Buckets
    BY DEF UsageInv, UsageTypeOK
  <1>2. /\ plan \in [Buckets -> Int]
        /\ \A b \in Buckets : plan[b] >= 0 /\ plan[b] <= SpendableCap[b]
    BY <1>1, SplitBounded DEF planReservationAllocations
  <1>3. Total(plan) = sum
    BY DEF planReservationAllocations, GreedySplits
  <1>4. \A b \in Buckets : ~Spendable(b) => SpendableCap[b] = 0
    BY DEF SpendableCap
  <1>5. plan \in [Buckets -> Nat]
    BY <1>2
  <1>6. ASSUME NEW b \in Buckets, ~Spendable(b) PROVE plan[b] = 0
    BY <1>2, <1>4, <1>6
  <1> QED BY <1>3, <1>5, <1>6

LEMMA SplitAddsUp ==
  ASSUME NEW table, NEW cap, NEW sum \in Int, DOMAIN table = Buckets,
         NEW split \in GreedySplits(table, cap, sum)
  PROVE  /\ split \in [Buckets -> Nat] /\ Total(split) = sum
         /\ \A b \in Buckets : split[b] <= cap[b]
  <1>1. /\ split \in [Buckets -> Int]
        /\ \A b \in Buckets : split[b] >= 0 /\ split[b] <= cap[b]
    BY SplitBounded
  <1>2. Total(split) = sum
    BY DEF GreedySplits
  <1> QED BY <1>1, <1>2

LEMMA NoAmountsAddUp == NoAmounts \in [Buckets -> Nat] /\ Total(NoAmounts) = 0
  BY UsageAssumption, TotalNothing DEF NoAmounts

(* What an expired bucket may do in a step.                                *)
OnlyDrains(b) ==
  /\ buckets'[b].reserved <= buckets[b].reserved
  /\ buckets'[b].spent - buckets[b].spent <= buckets[b].reserved - buckets'[b].reserved

LEMMA CommitBooks ==
  ASSUME BooksInv, UsageInv', NEW c \in Callers, ReserveCommit(c)
  PROVE  BooksInv' /\ ExpiredOnlyDrain
  <1>1. PICK r, estimated : r = calls[c].request /\ estimated = calls[c].estimated
    OBVIOUS
  <1>2. /\ UsageInv /\ UsageTypeOK
        /\ r # Nobody /\ reservations[r].status = "NONE" /\ ledger' = ledger
    BY <1>1 DEF ReserveCommit, BooksInv, UsageInv
  <1>3. r \in Requests /\ estimated \in Int
    BY <1>1, <1>2 DEF UsageTypeOK
  <1>4. PICK plan \in planReservationAllocations(estimated) :
          /\ reservations' = [reservations EXCEPT ![r] =
                [status |-> "ACTIVE", estimated |-> estimated, settled |-> 0,
                 held |-> plan, charged |-> NoAmounts]]
          /\ buckets' = [b \in Buckets |-> [buckets[b] EXCEPT !.reserved = @ + plan[b]]]
    BY <1>1 DEF ReserveCommit
  <1>5. /\ plan \in [Buckets -> Nat] /\ Total(plan) = estimated
        /\ \A b \in Buckets : ~Spendable(b) => plan[b] = 0
    BY <1>2, <1>3, PlanAddsUp
  <1>6. PICK row : row = [status |-> "ACTIVE", estimated |-> estimated, settled |-> 0,
                          held |-> plan, charged |-> NoAmounts]
    OBVIOUS
  <1>7. /\ row.status = "ACTIVE" /\ row.estimated = estimated /\ row.settled = 0
        /\ row.held = plan /\ row.charged = NoAmounts
    BY <1>6
  <1>8. RowOK(row)
    <2>1. row \in ReservationRows
      BY <1>3, <1>5, <1>6, NoAmountsAddUp DEF ReservationRows
    <2>2. \A b \in Buckets : row.charged[b] = 0
      BY <1>7 DEF NoAmounts
    <2> QED BY <1>5, <1>7, <2>1, <2>2, NoAmountsAddUp DEF RowOK
  <1>9. ASSUME NEW b \in Buckets
        PROVE  /\ buckets'[b].type = buckets[b].type /\ buckets'[b].total = buckets[b].total
               /\ buckets'[b].spent = buckets[b].spent
               /\ buckets'[b].reserved = buckets[b].reserved + plan[b]
    <2>1. buckets[b] \in BucketRows
      BY <1>2 DEF UsageTypeOK
    <2> QED BY <1>4, <2>1 DEF BucketRows
  <1>10. ASSUME NEW b \in Buckets
         PROVE  /\ HeldOn(reservations[r], b) = 0 /\ reservations[r].charged[b] = 0
                /\ HeldOn(row, b) = plan[b] /\ row.charged[b] = 0 /\ plan[b] \in Nat
                /\ buckets[b].reserved \in Int /\ buckets[b].spent \in Int /\ ledger[b] \in Int
    <2>1. RowOK(reservations[r])
      BY <1>3 DEF BooksInv
    <2> QED BY <1>2, <1>3, <1>5, <1>7, <2>1, HoldsAddUp DEF HeldOn, RowOK, NoAmounts
  <1>11. Booked(reservations[r], row)
    <2>1. ASSUME NEW b \in Buckets, ~Exists(b) PROVE plan[b] = 0
      BY <1>5, <2>1 DEF Spendable
    <2> QED BY <1>2, <1>9, <1>10, <2>1 DEF Booked, Exists
  <1>12. BooksInv'
    BY <1>3, <1>4, <1>6, <1>8, <1>11, RowChanges
  <1>13. ASSUME NEW b \in Buckets, Exists(b), buckets[b].expiresAt <= now PROVE OnlyDrains(b)
    <2>1. buckets[b].expiresAt \in Int /\ now \in Int
      BY <1>2, UsageAssumption DEF UsageTypeOK, BucketRows
    <2>2. plan[b] = 0
      BY <1>5, <1>13, <2>1 DEF Spendable
    <2> QED BY <1>9, <1>10, <2>2 DEF OnlyDrains
  <1> QED BY <1>12, <1>13 DEF ExpiredOnlyDrain, OnlyDrains

LEMMA SettleBooks ==
  ASSUME BooksInv, UsageInv', NEW r \in Requests, NEW status \in {"SETTLED", "ANOMALY"},
         NEW estimated \in Int, NEW actual \in Int, reservations[r].status = "ACTIVE",
         NEW held \in [Buckets -> Nat], NEW charged \in [Buckets -> Nat], Total(charged) = actual,
         \A b \in Buckets : ~Spendable(b) => charged[b] <= reservations[r].held[b],
         SettleAllocations(r, status, estimated, actual, held, charged)
  PROVE  BooksInv' /\ ExpiredOnlyDrain
  <1>1. PICK row : row = [status |-> status, estimated |-> estimated, settled |-> actual,
                          held |-> held, charged |-> charged]
    OBVIOUS
  <1>2. /\ reservations' = [reservations EXCEPT ![r] = row]
        /\ buckets' = [b \in Buckets |->
              [buckets[b] EXCEPT !.reserved = @ - reservations[r].held[b],
                                 !.spent = @ + charged[b]]]
        /\ ledger' = [b \in Buckets |-> ledger[b] - charged[b]]
    BY <1>1 DEF SettleAllocations
  <1>3. /\ row.status \in {"SETTLED", "ANOMALY"} /\ row.estimated = estimated
        /\ row.settled = actual /\ row.held = held /\ row.charged = charged
    BY <1>1
  <1>4. RowOK(row)
    <2>1. row \in ReservationRows
      BY <1>1 DEF ReservationRows
    <2> QED BY <1>3, <2>1 DEF RowOK
  <1>5. ASSUME NEW b \in Buckets
        PROVE  /\ buckets'[b].type = buckets[b].type /\ buckets'[b].total = buckets[b].total
               /\ buckets'[b].spent = buckets[b].spent + charged[b]
               /\ buckets'[b].reserved = buckets[b].reserved - reservations[r].held[b]
               /\ ledger'[b] = ledger[b] - charged[b]
    <2>1. buckets[b] \in BucketRows
      BY DEF BooksInv, UsageInv, UsageTypeOK
    <2>2. buckets'[b] = [buckets[b] EXCEPT !.reserved = @ - reservations[r].held[b],
                                           !.spent = @ + charged[b]]
      BY <1>2
    <2>3. ledger'[b] = ledger[b] - charged[b]
      BY <1>2
    <2> QED BY <2>1, <2>2, <2>3 DEF BucketRows
  <1>6. ASSUME NEW b \in Buckets
        PROVE  /\ HeldOn(reservations[r], b) = reservations[r].held[b]
               /\ reservations[r].charged[b] = 0 /\ reservations[r].held[b] \in Nat
               /\ reservations[r].held[b] <= buckets[b].reserved
               /\ HeldOn(row, b) = 0 /\ row.charged[b] = charged[b] /\ charged[b] \in Nat
               /\ buckets[b].reserved \in Int /\ buckets[b].spent \in Int /\ ledger[b] \in Int
    <2>1. RowOK(reservations[r])
      BY DEF BooksInv
    <2> QED BY <1>3, <2>1, HoldsAddUp DEF HeldOn, RowOK
  <1>7. ASSUME NEW b \in Buckets, ~Exists(b) PROVE charged[b] = 0
    <2>1. buckets[b].reserved = 0
      BY <1>7 DEF BooksInv, UngrantedIsEmpty
    <2>2. charged[b] <= reservations[r].held[b]
      BY <1>7 DEF Spendable
    <2> QED BY <1>6, <2>1, <2>2
  <1>8. Booked(reservations[r], row)
    BY <1>5, <1>6, <1>7 DEF Booked, Exists
  <1>9. BooksInv'
    BY <1>2, <1>4, <1>8, RowChanges
  <1>10. ASSUME NEW b \in Buckets, Exists(b), buckets[b].expiresAt <= now PROVE OnlyDrains(b)
    <2>1. buckets[b].expiresAt \in Int /\ now \in Int
      BY UsageAssumption DEF BooksInv, UsageInv, UsageTypeOK, BucketRows
    <2>2. charged[b] <= reservations[r].held[b]
      BY <1>10, <2>1 DEF Spendable
    <2> QED BY <1>5, <1>6, <2>2 DEF OnlyDrains
  <1> QED BY <1>9, <1>10 DEF ExpiredOnlyDrain, OnlyDrains

LEMMA SettlementBooks ==
  ASSUME BooksInv, UsageInv', NEW r \in Requests, NEW actual \in Amounts, settleUsage(r, actual)
  PROVE  BooksInv' /\ ExpiredOnlyDrain
  <1>0. /\ actual \in Int /\ RowOK(reservations[r]) /\ reservations[r].estimated \in Int
        /\ reservations[r].status = "ACTIVE" /\ UsageInv /\ DOMAIN buckets = Buckets
        /\ IsFiniteSet(Buckets)
    BY UsageAssumption DEF Amounts, BooksInv, UsageInv, UsageTypeOK, RowOK, ReservationRows,
       settleUsage, SettleWithin, SettleWithExtra, SettleAnomaly
  <1>1. PICK hold, estimated : hold = reservations[r].held /\ estimated = reservations[r].estimated
    OBVIOUS
  <1>2. hold \in [Buckets -> Nat] /\ estimated = Total(hold) /\ estimated \in Int
    BY <1>0, <1>1 DEF RowOK
  <1>3. CASE SettleWithin(r, actual)
    <2>1. PICK charged \in GreedySplits(buckets, hold, actual) :
            SettleAllocations(r, "SETTLED", estimated, actual, hold, charged)
      BY <1>1, <1>3 DEF SettleWithin
    <2>2. /\ charged \in [Buckets -> Nat] /\ Total(charged) = actual
          /\ \A b \in Buckets : charged[b] <= hold[b]
      BY <1>0, <2>1, SplitAddsUp
    <2> QED BY <1>0, <1>1, <1>2, <2>1, <2>2, SettleBooks
  <1>4. CASE SettleWithExtra(r, actual)
    <2>1. PICK extra \in planReservationAllocations(actual - estimated) :
            \E held : /\ held = [b \in Buckets |-> hold[b] + extra[b]]
                      /\ SettleAllocations(r, "SETTLED", actual, actual, held, held)
      BY <1>1, <1>4 DEF SettleWithExtra
    <2>2. PICK held : /\ held = [b \in Buckets |-> hold[b] + extra[b]]
                      /\ SettleAllocations(r, "SETTLED", actual, actual, held, held)
      BY <2>1
    <2>3. /\ extra \in [Buckets -> Nat] /\ Total(extra) = actual - estimated
          /\ \A b \in Buckets : ~Spendable(b) => extra[b] = 0
      BY <1>0, <1>2, <2>1, PlanAddsUp
    <2>4. held \in [Buckets -> Nat] /\ \A b \in Buckets : held[b] = hold[b] + extra[b]
      BY <1>2, <2>2, <2>3
    <2>5. Total(held) = Total(hold) + Total(extra)
      BY <1>0, <1>2, <2>3, <2>4, TotalAdds
    <2>6. Total(held) = actual
      BY <1>0, <1>2, <2>3, <2>5
    <2>7. \A b \in Buckets : ~Spendable(b) => held[b] <= hold[b]
      BY <1>2, <2>3, <2>4
    <2> QED BY <1>0, <1>1, <2>2, <2>4, <2>6, <2>7, SettleBooks
  <1>5. CASE SettleAnomaly(r, actual)
    <2>1. SettleAllocations(r, "ANOMALY", estimated, estimated, hold, hold)
      BY <1>1, <1>5 DEF SettleAnomaly
    <2>2. \A b \in Buckets : hold[b] <= hold[b]
      BY <1>2
    <2> QED BY <1>0, <1>1, <1>2, <2>1, <2>2, SettleBooks
  <1> QED BY <1>3, <1>4, <1>5 DEF settleUsage

LEMMA ReleaseBooks ==
  ASSUME BooksInv, UsageInv', NEW r \in Requests, releaseUsage(r)
  PROVE  BooksInv' /\ ExpiredOnlyDrain
  <1>0. RowOK(reservations[r]) /\ reservations[r].status = "ACTIVE" /\ ledger' = ledger
    BY DEF BooksInv, releaseUsage
  <1>1. PICK row : row = [status |-> "RELEASED", estimated |-> reservations[r].estimated,
                          settled |-> 0, held |-> reservations[r].held, charged |-> NoAmounts]
    OBVIOUS
  <1>2. /\ reservations' = [reservations EXCEPT ![r] = row]
        /\ buckets' = [b \in Buckets |->
              [buckets[b] EXCEPT !.reserved = @ - reservations[r].held[b]]]
    <2>1. r \in DOMAIN reservations
      BY DEF BooksInv, UsageInv, UsageTypeOK
    <2> QED BY <1>1, <2>1 DEF releaseUsage
  <1>3. /\ row.status = "RELEASED" /\ row.settled = 0
        /\ row.held = reservations[r].held /\ row.charged = NoAmounts
    BY <1>1
  <1>4. RowOK(row)
    <2>1. row \in ReservationRows
      BY <1>0, <1>1, NoAmountsAddUp DEF RowOK, ReservationRows
    <2>2. \A b \in Buckets : row.charged[b] = 0
      BY <1>3 DEF NoAmounts
    <2> QED BY <1>0, <1>3, <2>1, <2>2, NoAmountsAddUp DEF RowOK
  <1>5. ASSUME NEW b \in Buckets
        PROVE  /\ buckets'[b].type = buckets[b].type /\ buckets'[b].total = buckets[b].total
               /\ buckets'[b].spent = buckets[b].spent
               /\ buckets'[b].reserved = buckets[b].reserved - reservations[r].held[b]
    <2>1. buckets[b] \in BucketRows
      BY DEF BooksInv, UsageInv, UsageTypeOK
    <2> QED BY <1>2, <2>1 DEF BucketRows
  <1>6. ASSUME NEW b \in Buckets
        PROVE  /\ HeldOn(reservations[r], b) = reservations[r].held[b]
               /\ reservations[r].charged[b] = 0 /\ reservations[r].held[b] \in Nat
               /\ HeldOn(row, b) = 0 /\ row.charged[b] = 0
               /\ buckets[b].reserved \in Int /\ buckets[b].spent \in Int /\ ledger[b] \in Int
    BY <1>0, <1>3, HoldsAddUp DEF HeldOn, RowOK, NoAmounts
  <1>7. Booked(reservations[r], row)
    BY <1>0, <1>5, <1>6 DEF Booked, Exists
  <1>8. BooksInv'
    BY <1>2, <1>4, <1>7, RowChanges
  <1>9. \A b \in Buckets : OnlyDrains(b)
    BY <1>5, <1>6 DEF OnlyDrains
  <1> QED BY <1>8, <1>9 DEF ExpiredOnlyDrain, OnlyDrains

(* Steps that leave the reservations alone, and what a bucket holds and has *)
(* spent.                                                                  *)
LEMMA SameHolds ==
  ASSUME BooksInv, UsageInv', reservations' = reservations,
         \A b \in Buckets :
           /\ buckets'[b].reserved = buckets[b].reserved
           /\ buckets'[b].spent = buckets[b].spent
           /\ ledger'[b] - buckets'[b].total = ledger[b] - buckets[b].total
           /\ Exists(b) => Exists(b)'
           /\ ~Exists(b)' => buckets'[b].total = buckets[b].total
  PROVE  BooksInv' /\ ExpiredOnlyDrain
  <1>1. \A r \in Requests : RowOK(reservations'[r])
    BY DEF BooksInv
  <1>2. ASSUME NEW b \in Buckets
        PROVE  /\ buckets'[b].reserved = Total([q \in Requests |->
                    IF reservations'[q].status = "ACTIVE" THEN reservations'[q].held[b] ELSE 0])
               /\ buckets'[b].spent = Total([q \in Requests |-> reservations'[q].charged[b]])
    BY DEF BooksInv, BooksBalance, BucketsBalance, ChargesAddUp
  <1>3. ASSUME NEW b \in Buckets
        PROVE  /\ buckets[b].reserved \in Int /\ buckets[b].spent \in Int
               /\ buckets[b].total \in Int /\ ledger[b] \in Int
               /\ buckets'[b].total \in Int /\ ledger'[b] \in Int
    BY DEF BooksInv, UsageInv, UsageTypeOK, BucketRows
  <1>4. ASSUME NEW b \in Buckets PROVE ledger'[b] = buckets'[b].total - buckets'[b].spent
    <2>1. ledger[b] = buckets[b].total - buckets[b].spent
      BY DEF BooksInv, BooksBalance, BucketsBalance, ChargesAddUp
    <2> QED BY <1>3, <2>1
  <1>5. \A r \in Requests : reservations'[r].settled = Total(reservations'[r].charged)
    BY <1>1 DEF RowOK
  <1>6. BooksBalance'
    BY <1>2, <1>4, <1>5 DEF BooksBalance, BucketsBalance, ChargesAddUp
  <1>7. UngrantedIsEmpty'
    BY DEF BooksInv, UngrantedIsEmpty
  <1>8. \A b \in Buckets : OnlyDrains(b)
    BY <1>3 DEF OnlyDrains
  <1> QED BY <1>1, <1>6, <1>7, <1>8 DEF BooksInv, ExpiredOnlyDrain, OnlyDrains

LEMMA GrantBooks ==
  ASSUME BooksInv, UsageInv', NEW b \in Buckets, NEW sum \in Nat,
         GrantMonthly(b, sum) \/ GrantTopup(b, sum), reservations' = reservations
  PROVE  BooksInv' /\ ExpiredOnlyDrain
  <1>a. reservations' = reservations /\ UsageTypeOK /\ UngrantedIsEmpty
    BY DEF BooksInv, UsageInv
  <1>b. /\ DOMAIN buckets = Buckets /\ DOMAIN ledger = Buckets
        /\ \A c \in Buckets : /\ buckets[c].total \in Int /\ ledger[c] \in Int
                              /\ buckets[c].spent \in Int /\ buckets[c].reserved \in Int
                              /\ buckets[c] \in BucketRows
    BY <1>a DEF UsageTypeOK, BucketRows
  <1>1. PICK type, expiresAt : /\ type \in {"MONTHLY", "TOPUP"}
                               /\ GrantBucket(b, type, sum, expiresAt)
    BY DEF GrantMonthly, GrantTopup
  <1>2. PICK row : row = [type |-> type, total |-> sum, spent |-> 0, reserved |-> 0,
                          expiresAt |-> expiresAt,
                          createdAt |-> Cardinality({c \in Buckets : Exists(c)})]
    OBVIOUS
  <1>3. /\ buckets' = [buckets EXCEPT ![b] = row] /\ ~Exists(b)
        /\ ledger' = [ledger EXCEPT ![b] = @ + sum]
    BY <1>1, <1>2 DEF GrantBucket
  <1>4. row.type # "NONE" /\ row.total = sum /\ row.spent = 0 /\ row.reserved = 0
    BY <1>1, <1>2
  <1>5. buckets[b].total = 0 /\ buckets[b].spent = 0 /\ buckets[b].reserved = 0
    BY <1>a, <1>3 DEF UngrantedIsEmpty
  <1>6. /\ buckets'[b] = row /\ ledger'[b] = ledger[b] + sum
        /\ \A c \in Buckets \ {b} : buckets'[c] = buckets[c] /\ ledger'[c] = ledger[c]
    BY <1>b, <1>3
  <1>7. ASSUME NEW c \in Buckets
        PROVE  /\ buckets'[c].reserved = buckets[c].reserved
               /\ buckets'[c].spent = buckets[c].spent
               /\ ledger'[c] - buckets'[c].total = ledger[c] - buckets[c].total
               /\ Exists(c) => Exists(c)'
               /\ ~Exists(c)' => buckets'[c].total = buckets[c].total
    <2>1. CASE c = b
      BY <1>b, <1>3, <1>4, <1>5, <1>6, <2>1 DEF Exists
    <2>2. CASE c # b
      BY <1>6, <2>2 DEF Exists
    <2> QED BY <2>1, <2>2
  <1> QED BY <1>a, <1>7, SameHolds

LEMMA RevokeBooks ==
  ASSUME BooksInv, UsageInv', NEW b \in Buckets, NEW sum \in Nat,
         RevokeUnused(b, sum), reservations' = reservations
  PROVE  BooksInv' /\ ExpiredOnlyDrain
  <1>a. reservations' = reservations /\ UsageTypeOK /\ UngrantedIsEmpty
    BY DEF BooksInv, UsageInv
  <1>b. /\ DOMAIN buckets = Buckets /\ DOMAIN ledger = Buckets
        /\ \A c \in Buckets : /\ buckets[c].total \in Int /\ ledger[c] \in Int
                              /\ buckets[c].spent \in Int /\ buckets[c].reserved \in Int
                              /\ buckets[c] \in BucketRows
    BY <1>a DEF UsageTypeOK, BucketRows
  <1>1. PICK revoke : revoke = IF availableMicroRub(buckets[b]) < sum
                               THEN availableMicroRub(buckets[b]) ELSE sum
    OBVIOUS
  <1>2. revoke \in Int
    BY <1>b, <1>1 DEF availableMicroRub
  <1>3. /\ Exists(b)
        /\ \/ /\ buckets' = [buckets EXCEPT ![b].total = @ - revoke]
              /\ ledger' = [ledger EXCEPT ![b] = @ - revoke]
           \/ buckets' = buckets /\ ledger' = ledger
    BY <1>1 DEF RevokeUnused
  <1>4. CASE buckets' = buckets /\ ledger' = ledger
    BY <1>a, <1>4, SameHolds DEF Exists
  <1>5. CASE /\ buckets' = [buckets EXCEPT ![b].total = @ - revoke]
             /\ ledger' = [ledger EXCEPT ![b] = @ - revoke]
    <2>1. /\ buckets'[b] = [buckets[b] EXCEPT !.total = @ - revoke]
          /\ ledger'[b] = ledger[b] - revoke
          /\ \A c \in Buckets \ {b} : buckets'[c] = buckets[c] /\ ledger'[c] = ledger[c]
      BY <1>b, <1>5
    <2>2. /\ buckets'[b].total = buckets[b].total - revoke
          /\ buckets'[b].spent = buckets[b].spent
          /\ buckets'[b].reserved = buckets[b].reserved
          /\ buckets'[b].type = buckets[b].type
      BY <1>b, <2>1 DEF BucketRows
    <2>3. ASSUME NEW c \in Buckets
          PROVE  /\ buckets'[c].reserved = buckets[c].reserved
                 /\ buckets'[c].spent = buckets[c].spent
                 /\ ledger'[c] - buckets'[c].total = ledger[c] - buckets[c].total
                 /\ Exists(c) => Exists(c)'
                 /\ ~Exists(c)' => buckets'[c].total = buckets[c].total
      <3>1. CASE c = b
        <4>1. /\ buckets'[b].total \in Int /\ ledger'[b] \in Int
              /\ ledger'[b] - buckets'[b].total = ledger[b] - buckets[b].total
          <5>1. ledger[b] \in Int /\ buckets[b].total \in Int
            BY <1>b
          <5>2. buckets'[b].total = buckets[b].total - revoke /\ ledger'[b] = ledger[b] - revoke
            BY <2>1, <2>2
          <5> QED BY <1>2, <5>1, <5>2
        <4>2. Exists(b)'
          BY <1>3, <2>2 DEF Exists
        <4> QED BY <2>2, <3>1, <4>1, <4>2
      <3>2. CASE c # b
        BY <2>1, <3>2 DEF Exists
      <3> QED BY <3>1, <3>2
    <2> QED BY <1>a, <2>3, SameHolds
  <1> QED BY <1>3, <1>4, <1>5

LEMMA PaymentBooks ==
  ASSUME BooksInv, UsageInv', PaymentEffect
  PROVE  BooksInv' /\ ExpiredOnlyDrain
  <1>1. Amounts \subseteq Nat
    BY UsageAssumption DEF Amounts
  <1> QED BY <1>1, GrantBooks, RevokeBooks DEF PaymentEffect

LEMMA QuietBooks ==
  ASSUME BooksInv, UsageInv', UNCHANGED <<buckets, reservations, ledger>>
  PROVE  BooksInv' /\ ExpiredOnlyDrain
  BY SameHolds DEF Exists

LEMMA BooksNext ==
  BooksInv /\ [UsageNext]_usageVars => BooksInv' /\ [ExpiredOnlyDrain]_usageVars
  <1> SUFFICES ASSUME BooksInv, [UsageNext]_usageVars PROVE BooksInv' /\ ExpiredOnlyDrain
    OBVIOUS
  <1>0. UsageInv'
    BY NextInv DEF BooksInv
  <1>1. CASE UNCHANGED usageVars \/ Tick
    BY <1>0, <1>1, QuietBooks DEF usageVars, Tick
  <1>2. CASE ReserveStep
    <2>1. PICK c \in Callers : \/ \E r \in Requests, e \in Amounts : ReserveLookup(c, r, e)
                               \/ ReserveCommit(c)
                               \/ ReserveRollback(c)
      BY <1>2 DEF ReserveStep
    <2>2. CASE ReserveCommit(c)
      BY <1>0, <2>2, CommitBooks
    <2>3. CASE ReserveRollback(c) \/ \E r \in Requests, e \in Amounts : ReserveLookup(c, r, e)
      BY <1>0, <2>3, QuietBooks DEF ReserveLookup, ReserveRollback
    <2> QED BY <2>1, <2>2, <2>3
  <1>3. CASE FinishStep
    BY <1>0, <1>3, SettlementBooks, ReleaseBooks DEF FinishStep
  <1>4. CASE PaymentEffect
    BY <1>0, <1>4, PaymentBooks
  <1> QED BY <1>1, <1>2, <1>3, <1>4 DEF UsageNext

LEMMA BooksInit == UsageInit => BooksInv
  <1> SUFFICES ASSUME UsageInit PROVE BooksInv
    OBVIOUS
  <1>1. UsageInv
    BY InitInv
  <1>2. /\ buckets = [b \in Buckets |-> NoBucket] /\ ledger = [b \in Buckets |-> 0]
        /\ reservations = [r \in Requests |-> NoReservation]
    BY DEF UsageInit
  <1>3. /\ NoReservation \in ReservationRows /\ NoReservation.status = "NONE"
        /\ NoReservation.held = NoAmounts /\ NoReservation.charged = NoAmounts
        /\ NoReservation.settled = 0
    BY DEF NoReservation, ReservationRows, NoAmounts
  <1>4. RowOK(NoReservation)
    BY <1>3, NoAmountsAddUp DEF RowOK, NoAmounts
  <1>5. \A b \in Buckets : /\ buckets[b].total = 0 /\ buckets[b].spent = 0
                           /\ buckets[b].reserved = 0 /\ ledger[b] = 0
    BY <1>2 DEF NoBucket
  <1>6. ASSUME NEW b \in Buckets
        PROVE  /\ buckets[b].reserved = Total([r \in Requests |->
                    IF reservations[r].status = "ACTIVE" THEN reservations[r].held[b] ELSE 0])
               /\ buckets[b].spent = Total([r \in Requests |-> reservations[r].charged[b]])
    <2>1. [r \in Requests |-> IF reservations[r].status = "ACTIVE"
                              THEN reservations[r].held[b] ELSE 0] = [r \in Requests |-> 0]
      BY <1>2, <1>3
    <2>2. [r \in Requests |-> reservations[r].charged[b]] = [r \in Requests |-> 0]
      BY <1>2, <1>3 DEF NoAmounts
    <2>3. Total([r \in Requests |-> 0]) = 0
      BY UsageAssumption, TotalNothing
    <2> QED BY <1>5, <2>1, <2>2, <2>3
  <1>7. \A r \in Requests : reservations[r].settled = Total(reservations[r].charged)
    BY <1>2, <1>4 DEF RowOK
  <1>8. BooksBalance
    BY <1>5, <1>6, <1>7 DEF BooksBalance, BucketsBalance, ChargesAddUp
  <1> QED BY <1>1, <1>2, <1>4, <1>5, <1>8 DEF BooksInv, UngrantedIsEmpty

(* Whatever the buckets, requests, callers and bounds: what a bucket holds *)
(* is what its ACTIVE reservations hold on it, what it has spent is what   *)
(* reservations were charged, its ledger adds up to what is left of the    *)
(* grant, a reservation is charged what it settled, and an expired bucket  *)
(* only drains.                                                            *)
THEOREM BooksAlwaysAgree == UsageSpec => BooksAgree
  <1>1. BooksInv => BooksBalance
    BY DEF BooksInv
  <1> QED BY <1>1, BooksInit, BooksNext, PTL DEF UsageSpec, BooksAgree, BooksBalance

-----------------------------------------------------------------------------
(* Payments.                                                               *)

PaymentStatus == {"NONE", "CREATED", "PENDING", "SUCCEEDED", "FAILED", "CANCELED", "REFUNDED",
                  "PARTIALLY_REFUNDED", "RECONCILIATION_REQUIRED"}

(* The rows and the requests under way have their types.                   *)
PaymentTypeOK ==
  /\ payments \in [Buckets -> [status : PaymentStatus, kind : {"SUBSCRIPTION", "TOPUP"},
                               url : BOOLEAN]]
  /\ subscriptions \in [Buckets -> [status : {"NONE", "ACTIVE", "CANCELED"}, periodEnd : Int]]
  /\ checkout \in [Buckets -> {"idle", "created", "initialized"} \cup Kinds]
  /\ acquirer \in [Buckets -> AcquirerStatus \cup {"NONE"}]
  /\ inflight \subseteq Events

Paid == {"CONFIRMED", "PARTIAL_REFUNDED", "REFUNDED"}

(* A checkout under way creates a payment that is not there yet, or gets   *)
(* the URL of one that has none; who has no URL cannot have paid.          *)
CheckoutsFit ==
  \A p \in Buckets :
    /\ checkout[p] \in Kinds => payments[p].status = "NONE"
    /\ payments[p].status = "NONE" => ~payments[p].url
    /\ checkout[p] = "initialized" => ~payments[p].url
    /\ ~payments[p].url => acquirer[p] \notin Paid \cup {"AUTHORIZED"}

(* What an event reports has happened at the acquirer, and a rejected or   *)
(* canceled order stays so.                                                *)
EventsFit ==
  \A e \in inflight :
    /\ e.status = "CONFIRMED" => acquirer[e.payment] \in Paid
    /\ e.status \in {"REJECTED", "CANCELED"} => acquirer[e.payment] = e.status

(* Two payments do not both have an active subscription.                   *)
ActiveAgree ==
  \A p, q \in Buckets :
    subscriptions[p].status = "ACTIVE" /\ subscriptions[q].status = "ACTIVE" => p = q

(* A payment that does not exist has granted nothing.                      *)
GrantsFit ==
  GrantIffPaid /\ \A p \in Buckets : payments[p].status = "NONE" => ~Exists(p)

PaymentInv ==
  UsageInv /\ PaymentTypeOK /\ CheckoutsFit /\ EventsFit /\ ActiveAgree /\ GrantsFit

-------------------------------------------------------------------------------
(* Nothing is bought, nothing is under way.                                *)
LEMMA PaymentInitInv == PaymentInit => PaymentInv
<1> SUFFICES ASSUME PaymentInit PROVE PaymentInv
  OBVIOUS
<1>1. UsageInv
  BY InitInv DEF PaymentInit
<1>2. PaymentTypeOK
  BY DEF PaymentInit, PaymentTypeOK, PaymentStatus
<1>3. CheckoutsFit /\ EventsFit /\ ActiveAgree
  BY PaymentAssumption DEF PaymentInit, CheckoutsFit, EventsFit, ActiveAgree, Paid
<1>4. \A p \in Buckets : ~Exists(p)
  BY DEF PaymentInit, UsageInit, Exists, NoBucket
<1>5. GrantsFit
  BY <1>4 DEF PaymentInit, GrantsFit, GrantIffPaid, Open
<1> QED
  BY <1>1, <1>2, <1>3, <1>5 DEF PaymentInv

(* Reserving, settling, releasing and the clock create no bucket, remove   *)
(* none and change no grant.                                               *)
LEMMA UsageKeepsBuckets ==
  ASSUME UsageInv, ReserveStep \/ FinishStep \/ Tick
  PROVE  \A b \in Buckets : /\ buckets'[b].type = buckets[b].type
                            /\ buckets'[b].total = buckets[b].total
<1>0. \A b \in Buckets : buckets[b] \in BucketRows
  BY DEF UsageInv, UsageTypeOK
<1>1. CASE ReserveStep
  <2>1. \/ buckets' = buckets
        \/ \E plan : buckets' = [b \in Buckets |->
                                   [buckets[b] EXCEPT !.reserved = @ + plan[b]]]
    BY <1>1 DEF ReserveStep, ReserveLookup, ReserveCommit, ReserveRollback
  <2> QED
    BY <1>0, <2>1 DEF BucketRows
<1>2. CASE FinishStep
  <2>1. PICK r \in Requests : (\E actual \in Amounts : settleUsage(r, actual)) \/ releaseUsage(r)
    BY <1>2 DEF FinishStep
  <2>2. CASE releaseUsage(r)
    BY <1>0, <2>2 DEF releaseUsage, BucketRows
  <2>3. CASE \E actual \in Amounts : settleUsage(r, actual)
    <3>1. \E charged : buckets' = [b \in Buckets |->
            [buckets[b] EXCEPT !.reserved = @ - reservations[r].held[b],
                               !.spent = @ + charged[b]]]
      BY <2>3 DEF settleUsage, SettleWithin, SettleWithExtra, SettleAnomaly, SettleAllocations
    <3> QED
      BY <1>0, <3>1 DEF BucketRows
  <2> QED
    BY <2>1, <2>2, <2>3
<1>3. CASE Tick
  BY <1>3 DEF Tick
<1> QED
  BY <1>1, <1>2, <1>3

LEMMA UsageOnlyKeeps ==
  ASSUME PaymentInv, UsageOnly
  PROVE  PaymentInv'
<1>1. /\ payments' = payments /\ subscriptions' = subscriptions /\ checkout' = checkout
      /\ acquirer' = acquirer /\ inflight' = inflight
      /\ ReserveStep \/ FinishStep \/ Tick
  BY DEF UsageOnly, payVars
<1>2. UsageInv'
  BY <1>1, NextInv DEF UsageNext, PaymentInv
<1>3. \A b \in Buckets : Exists(b)' <=> Exists(b)
  BY <1>1, UsageKeepsBuckets DEF PaymentInv, Exists
<1>4. PaymentTypeOK' /\ CheckoutsFit' /\ EventsFit' /\ ActiveAgree'
  BY <1>1 DEF PaymentInv, PaymentTypeOK, CheckoutsFit, EventsFit, ActiveAgree
<1>5. GrantsFit'
  BY <1>1, <1>3 DEF PaymentInv, GrantsFit, GrantIffPaid
<1> QED
  BY <1>2, <1>4, <1>5 DEF PaymentInv

-------------------------------------------------------------------------------
(* Checkouts and the acquirer leave buckets and subscriptions alone, so of *)
(* the invariant they can only disturb what is said of payments and orders.*)
LEMMA RowsKept ==
  ASSUME PaymentInv, UNCHANGED <<usageVars, subscriptions>>
  PROVE  UsageInv' /\ ActiveAgree' /\ \A p \in Buckets : Exists(p)' <=> Exists(p)
<1>1. UsageInv'
  BY NextInv DEF PaymentInv, usageVars
<1>2. ActiveAgree'
  BY DEF PaymentInv, ActiveAgree
<1>3. \A p \in Buckets : Exists(p)' <=> Exists(p)
  BY DEF usageVars, Exists
<1> QED
  BY <1>1, <1>2, <1>3

LEMMA CheckoutKeeps ==
  ASSUME PaymentInv, CheckoutNext
  PROVE  PaymentInv'
<1> USE PaymentAssumption
<1>0. PICK p \in Buckets :
        \/ \E kind \in Kinds : CheckoutStart(p, kind)
        \/ createPendingPayment(p) \/ InitAtAcquirer(p) \/ CommitHostedCheckout(p)
        \/ CheckoutLost(p)
  BY DEF CheckoutNext
<1>1. /\ UNCHANGED <<usageVars, subscriptions>> /\ inflight' = inflight
      /\ subscriptions' = subscriptions
  BY <1>0 DEF CheckoutStart, createPendingPayment, InitAtAcquirer, CommitHostedCheckout,
              CheckoutLost
<1>2. UsageInv' /\ ActiveAgree' /\ \A q \in Buckets : Exists(q)' <=> Exists(q)
  BY <1>1, RowsKept
<1>3. PaymentTypeOK /\ CheckoutsFit /\ EventsFit /\ GrantsFit
  BY DEF PaymentInv
<1>4. CASE \E kind \in Kinds : CheckoutStart(p, kind)
  <2>1. PaymentTypeOK'
    BY <1>1, <1>3, <1>4 DEF CheckoutStart, PaymentTypeOK
  <2>2. CheckoutsFit' /\ EventsFit'
    BY <1>1, <1>3, <1>4 DEF CheckoutStart, CheckoutsFit, EventsFit, PaymentTypeOK
  <2>3. GrantsFit'
    BY <1>2, <1>3, <1>4 DEF CheckoutStart, GrantsFit, GrantIffPaid
  <2> QED
    BY <1>2, <2>1, <2>2, <2>3 DEF PaymentInv
<1>5. CASE createPendingPayment(p)
  <2>1. PaymentTypeOK'
    BY <1>1, <1>3, <1>5 DEF createPendingPayment, PaymentTypeOK, PaymentStatus
  <2>2. CheckoutsFit' /\ EventsFit'
    BY <1>1, <1>3, <1>5 DEF createPendingPayment, CheckoutsFit, EventsFit, PaymentTypeOK
  <2>3. GrantsFit'
    BY <1>2, <1>3, <1>5
       DEF createPendingPayment, GrantsFit, GrantIffPaid, CheckoutsFit, PaymentTypeOK, Open
  <2> QED
    BY <1>2, <2>1, <2>2, <2>3 DEF PaymentInv
<1>6. CASE InitAtAcquirer(p)
  <2>1. PaymentTypeOK'
    BY <1>1, <1>3, <1>6 DEF InitAtAcquirer, PaymentTypeOK, AcquirerStatus
  <2>2. /\ payments' = payments
        /\ \A q \in Buckets : acquirer'[q] = acquirer[q] \/ (acquirer[q] = "NONE" /\ acquirer'[q] = "NEW")
        /\ \A q \in Buckets : checkout'[q] = checkout[q] \/ checkout'[q] = "idle"
                              \/ (checkout'[q] = "initialized" /\ ~payments[q].url)
    BY <1>3, <1>6 DEF InitAtAcquirer, PaymentTypeOK
  <2>3. CheckoutsFit'
    BY <1>3, <2>2 DEF CheckoutsFit, Paid
  <2>4. EventsFit'
    BY <1>1, <1>3, <2>2 DEF EventsFit, Paid, PaymentTypeOK, Events
  <2>5. GrantsFit'
    BY <1>2, <1>3, <2>2 DEF GrantsFit, GrantIffPaid
  <2> QED
    BY <1>2, <2>1, <2>3, <2>4, <2>5 DEF PaymentInv
<1>7. CASE CommitHostedCheckout(p)
  <2>1. PaymentTypeOK'
    BY <1>1, <1>3, <1>7 DEF CommitHostedCheckout, PaymentTypeOK, PaymentStatus
  <2>2. CheckoutsFit' /\ EventsFit'
    BY <1>1, <1>3, <1>7 DEF CommitHostedCheckout, CheckoutsFit, EventsFit, PaymentTypeOK
  <2>3. ~Exists(p)
    BY <1>3, <1>7 DEF CommitHostedCheckout, CheckoutsFit, GrantsFit, GrantIffPaid, Paid
  <2>4. GrantsFit'
    BY <1>2, <1>3, <1>7, <2>3
       DEF CommitHostedCheckout, GrantsFit, GrantIffPaid, PaymentTypeOK, Open
  <2> QED
    BY <1>2, <2>1, <2>2, <2>4 DEF PaymentInv
<1>8. CASE CheckoutLost(p)
  <2>1. PaymentTypeOK'
    BY <1>1, <1>3, <1>8 DEF CheckoutLost, PaymentTypeOK
  <2>2. CheckoutsFit' /\ EventsFit'
    BY <1>1, <1>3, <1>8 DEF CheckoutLost, CheckoutsFit, EventsFit, PaymentTypeOK
  <2>3. GrantsFit'
    BY <1>2, <1>3, <1>8 DEF CheckoutLost, GrantsFit, GrantIffPaid
  <2> QED
    BY <1>2, <2>1, <2>2, <2>3 DEF PaymentInv
<1> QED
  BY <1>0, <1>4, <1>5, <1>6, <1>7, <1>8

-------------------------------------------------------------------------------
(* An order that was paid stays among the paid ones, a rejected or         *)
(* canceled one moves no more, and nobody pays without the hosted page.    *)
LEMMA MovesFit ==
  ASSUME NEW from, NEW to, NEW paid \in BOOLEAN, AcquirerMoves(from, to, paid)
  PROVE  /\ from \in Paid => to \in Paid
         /\ from \notin {"REJECTED", "CANCELED"}
         /\ ~paid /\ from \notin Paid \cup {"AUTHORIZED"} => to \notin Paid \cup {"AUTHORIZED"}
BY DEF AcquirerMoves, Paid

(* The order moves, and every event that was or is sent fits it.           *)
LEMMA OrderMoves ==
  ASSUME PaymentInv, NEW p \in Buckets, NEW to \in AcquirerStatus, NEW paid \in BOOLEAN,
         AcquirerMoves(acquirer[p], to, paid), paid => payments[p].url,
         acquirer' = [acquirer EXCEPT ![p] = to],
         inflight' \subseteq Events,
         \A e \in inflight' \ inflight : e.payment = p /\ e.status = to,
         UNCHANGED <<usageVars, payments, subscriptions, checkout>>
  PROVE  PaymentInv'
<1>0. PaymentTypeOK /\ CheckoutsFit /\ EventsFit /\ GrantsFit
  BY DEF PaymentInv
<1>1. /\ acquirer[p] \in Paid => to \in Paid
      /\ acquirer[p] \notin {"REJECTED", "CANCELED"}
      /\ ~paid /\ acquirer[p] \notin Paid \cup {"AUTHORIZED"} => to \notin Paid \cup {"AUTHORIZED"}
  BY MovesFit
<1>2. /\ acquirer'[p] = to
      /\ \A q \in Buckets \ {p} : acquirer'[q] = acquirer[q]
  BY <1>0 DEF PaymentTypeOK
<1>3. UsageInv' /\ ActiveAgree' /\ \A q \in Buckets : Exists(q)' <=> Exists(q)
  BY RowsKept
<1>4. PaymentTypeOK'
  BY <1>0 DEF PaymentTypeOK
<1>5. CheckoutsFit'
  <2>1. ~payments[p].url => to \notin Paid \cup {"AUTHORIZED"}
    BY <1>0, <1>1 DEF CheckoutsFit
  <2> QED
    BY <1>0, <1>2, <2>1 DEF CheckoutsFit
<1>6. EventsFit'
  <2> SUFFICES ASSUME NEW e \in inflight'
               PROVE  /\ e.status = "CONFIRMED" => acquirer'[e.payment] \in Paid
                      /\ e.status \in {"REJECTED", "CANCELED"} => acquirer'[e.payment] = e.status
    BY DEF EventsFit
  <2>1. e.payment \in Buckets
    BY DEF Events
  <2>2. CASE e \in inflight
    BY <1>0, <1>1, <1>2, <2>1, <2>2 DEF EventsFit
  <2>3. CASE e \notin inflight
    BY <1>2, <2>3 DEF Paid
  <2> QED
    BY <2>2, <2>3
<1>7. GrantsFit'
  BY <1>0, <1>1, <1>2, <1>3 DEF GrantsFit, GrantIffPaid, Paid
<1> QED
  BY <1>3, <1>4, <1>5, <1>6, <1>7 DEF PaymentInv

LEMMA AcquirerKeeps ==
  ASSUME PaymentInv, AcquirerNext
  PROVE  PaymentInv'
<1>0. PICK p \in Buckets : \/ \E to \in OrderSteps : AcquirerStep(p, to) \/ RefundAtAcquirer(p, to)
                           \/ ReconcileFetch(p)
  BY DEF AcquirerNext
<1>1. inflight \subseteq Events /\ payments[p].url \in BOOLEAN
  BY DEF PaymentInv, PaymentTypeOK
<1>2. ASSUME NEW to \in OrderSteps, AcquirerStep(p, to)
      PROVE  PaymentInv'
  <2>1. to \in AcquirerStatus
    BY PaymentAssumption DEF AcquirerStatus
  <2>2. PICK matches \in BOOLEAN :
          inflight' = inflight \cup
            {[source |-> "webhook", payment |-> p, status |-> to, matches |-> matches]}
    BY <1>2 DEF AcquirerStep
  <2>3. /\ inflight' \subseteq Events
        /\ \A e \in inflight' \ inflight : e.payment = p /\ e.status = to
    BY <1>1, <2>1, <2>2 DEF Events
  <2>4. /\ AcquirerMoves(acquirer[p], to, payments[p].url)
        /\ acquirer' = [acquirer EXCEPT ![p] = to]
        /\ UNCHANGED <<usageVars, payments, subscriptions, checkout>>
    BY <1>2 DEF AcquirerStep
  <2> QED
    BY <1>1, <2>1, <2>3, <2>4, OrderMoves
<1>3. ASSUME NEW to \in OrderSteps, RefundAtAcquirer(p, to)
      PROVE  PaymentInv'
  <2>1. to \in AcquirerStatus
    BY PaymentAssumption DEF AcquirerStatus
  <2>2. /\ payments[p].url
        /\ AcquirerMoves(acquirer[p], to, TRUE)
        /\ acquirer' = [acquirer EXCEPT ![p] = to]
        /\ inflight' = inflight \cup
             {[source |-> s, payment |-> p, status |-> to, matches |-> TRUE] : s \in {"webhook", "refund"}}
        /\ UNCHANGED <<usageVars, payments, subscriptions, checkout>>
    BY <1>3 DEF RefundAtAcquirer
  <2>3. \A s \in {"webhook", "refund"} :
          [source |-> s, payment |-> p, status |-> to, matches |-> TRUE] \in Events
    BY <2>1, Zenon DEF Events
  <2>4. /\ inflight' \subseteq Events
        /\ \A e \in inflight' \ inflight : e.payment = p /\ e.status = to
    <3>1. ASSUME NEW e \in inflight', e \notin inflight
          PROVE  e \in Events /\ e.payment = p /\ e.status = to
      <4>1. PICK s \in {"webhook", "refund"} :
              e = [source |-> s, payment |-> p, status |-> to, matches |-> TRUE]
        BY <2>2, <3>1
      <4>2. e \in Events
        BY <2>3, <4>1
      <4> QED
        BY <4>1, <4>2
    <3> QED
      BY <1>1, <3>1
  <2> QED
    BY <2>1, <2>2, <2>4, OrderMoves
<1>4. CASE ReconcileFetch(p)
  <2>1. /\ inflight' = inflight \cup
             {[source |-> "reconcile", payment |-> p, status |-> acquirer[p], matches |-> TRUE]}
        /\ acquirer[p] \notin {"NONE", "NEW", "AUTHORIZED"}
        /\ UNCHANGED <<usageVars, subscriptions>>
        /\ payments' = payments /\ subscriptions' = subscriptions /\ checkout' = checkout
        /\ acquirer' = acquirer
    BY <1>4 DEF ReconcileFetch
  <2>2. UsageInv' /\ ActiveAgree' /\ \A q \in Buckets : Exists(q)' <=> Exists(q)
    BY <2>1, RowsKept
  <2>3. PaymentTypeOK'
    <3>1. acquirer[p] \in AcquirerStatus
      BY <2>1 DEF PaymentInv, PaymentTypeOK
    <3>2. [source |-> "reconcile", payment |-> p, status |-> acquirer[p], matches |-> TRUE] \in Events
      BY <3>1, Zenon DEF Events
    <3>3. inflight' \subseteq Events
      BY <1>1, <2>1, <3>2
    <3> QED
      BY <2>1, <3>3 DEF PaymentInv, PaymentTypeOK
  <2>4. CheckoutsFit' /\ GrantsFit'
    BY <2>1, <2>2 DEF PaymentInv, CheckoutsFit, GrantsFit, GrantIffPaid
  <2>5. EventsFit'
    BY <2>1 DEF PaymentInv, EventsFit, Paid
  <2> QED
    BY <2>2, <2>3, <2>4, <2>5 DEF PaymentInv
<1> QED
  BY <1>0, <1>2, <1>3, <1>4

-------------------------------------------------------------------------------
(* Processing an event sets the status of a payment that exists; nothing   *)
(* under way depends on the status.                                        *)
LEMMA StatusMoves ==
  ASSUME PaymentInv, NEW p \in Buckets, NEW status \in PaymentStatus \ {"NONE"},
         payments[p].status # "NONE", SetStatus(p, status),
         subscriptions' \in [Buckets -> [status : {"NONE", "ACTIVE", "CANCELED"}, periodEnd : Int]],
         inflight' \subseteq inflight, UNCHANGED <<checkout, acquirer>>
  PROVE  /\ PaymentTypeOK' /\ CheckoutsFit' /\ EventsFit'
         /\ payments'[p].status = status
         /\ \A q \in Buckets \ {p} : payments'[q].status = payments[q].status
<1>0. PaymentTypeOK /\ CheckoutsFit /\ EventsFit
  BY DEF PaymentInv
<1>1. payments' = [payments EXCEPT ![p].status = status]
  BY DEF SetStatus
<1>2. PaymentTypeOK'
  BY <1>0, <1>1, ZenonT(60) DEF PaymentTypeOK
<1>3. /\ payments'[p].status = status
      /\ \A q \in Buckets \ {p} : payments'[q].status = payments[q].status
      /\ \A q \in Buckets : payments'[q].url = payments[q].url
  BY <1>0, <1>1 DEF PaymentTypeOK
<1>4. CheckoutsFit'
  BY <1>0, <1>3 DEF CheckoutsFit
<1>5. EventsFit'
  BY <1>0 DEF EventsFit
<1> QED
  BY <1>2, <1>3, <1>4, <1>5

(* An event that grants nothing: a bucket is there exactly if it was, and  *)
(* the new status fits it.                                                 *)
LEMMA StatusKeeps ==
  ASSUME PaymentInv, UsageInv', NEW p \in Buckets, NEW status \in PaymentStatus \ {"NONE", "SUCCEEDED"},
         payments[p].status # "NONE", SetStatus(p, status),
         status \in Open \cup {"FAILED", "CANCELED"} => ~Exists(p),
         \A q \in Buckets : Exists(q)' <=> Exists(q),
         \/ subscriptions' = subscriptions
         \/ subscriptions' = [subscriptions EXCEPT ![p].status = "CANCELED"],
         inflight' \subseteq inflight, UNCHANGED <<checkout, acquirer>>
  PROVE  PaymentInv'
<1>0. PaymentTypeOK /\ ActiveAgree /\ GrantsFit
  BY DEF PaymentInv
<1>1. subscriptions' \in [Buckets -> [status : {"NONE", "ACTIVE", "CANCELED"}, periodEnd : Int]]
  BY <1>0 DEF PaymentTypeOK
<1>2. /\ PaymentTypeOK' /\ CheckoutsFit' /\ EventsFit'
      /\ payments'[p].status = status
      /\ \A q \in Buckets \ {p} : payments'[q].status = payments[q].status
  BY <1>1, StatusMoves
<1>3. ActiveAgree'
  <2>1. \A q \in Buckets : subscriptions'[q].status = "ACTIVE" => subscriptions[q].status = "ACTIVE"
    BY <1>0 DEF PaymentTypeOK
  <2> QED
    BY <1>0, <2>1 DEF ActiveAgree
<1>4. GrantsFit'
  <2> SUFFICES ASSUME NEW q \in Buckets
               PROVE  /\ Exists(q)' => acquirer'[q] \in {"CONFIRMED", "PARTIAL_REFUNDED", "REFUNDED"}
                      /\ payments'[q].status \in Open \cup {"FAILED", "CANCELED", "NONE"} => ~Exists(q)'
                      /\ payments'[q].status = "SUCCEEDED" => Exists(q)'
    BY DEF GrantsFit, GrantIffPaid, Open
  <2>1. CASE q = p
    BY <1>0, <1>2, <2>1 DEF GrantsFit, GrantIffPaid
  <2>2. CASE q # p
    BY <1>0, <1>2, <2>2 DEF GrantsFit, GrantIffPaid
  <2> QED
    BY <2>1, <2>2
<1> QED
  BY <1>2, <1>3, <1>4 DEF PaymentInv

(* A grant: the bucket, the subscription and the status commit together.   *)
LEMMA GrantKeeps ==
  ASSUME PaymentInv, NEW p \in Buckets, payments[p].status \in Open, acquirer[p] \in Paid,
         grantFromSucceededPayment(p),
         inflight' \subseteq inflight, UNCHANGED <<now, reservations, calls, checkout, acquirer>>
  PROVE  PaymentInv'
<1>0. UsageInv /\ PaymentTypeOK /\ ActiveAgree /\ GrantsFit
  BY DEF PaymentInv
<1>1. GrantMonthly(p, Grant) \/ GrantTopup(p, Grant)
  BY DEF grantFromSucceededPayment
<1>2. UsageInv'
  BY <1>0, <1>1, GrantKeepsInv, PaymentAssumption
<1>3. /\ Exists(p)'
      /\ \A q \in Buckets \ {p} : Exists(q)' <=> Exists(q)
  <2>1. buckets \in [Buckets -> BucketRows]
    BY <1>0 DEF UsageInv, UsageTypeOK
  <2>2. PICK type, expiresAt : /\ type \in {"MONTHLY", "TOPUP"}
                               /\ GrantBucket(p, type, Grant, expiresAt)
    BY <1>1 DEF GrantMonthly, GrantTopup
  <2>3. PICK createdAt : buckets' = [buckets EXCEPT ![p] =
          [type |-> type, total |-> Grant, spent |-> 0, reserved |-> 0,
           expiresAt |-> expiresAt, createdAt |-> createdAt]]
    BY <2>2 DEF GrantBucket
  <2> QED
    BY <2>1, <2>2, <2>3 DEF Exists
<1>4. \/ subscriptions' = subscriptions
      \/ /\ subscriptions' = [subscriptions EXCEPT ![p] =
                                [status |-> "ACTIVE", periodEnd |-> now + Period]]
         /\ \A q \in Buckets : subscriptions[q].status # "ACTIVE"
  BY DEF grantFromSucceededPayment, GrantRefused
<1>5. subscriptions' \in [Buckets -> [status : {"NONE", "ACTIVE", "CANCELED"}, periodEnd : Int]]
  <2>1. now + Period \in Int
    BY <1>0, UsageAssumption DEF UsageInv, UsageTypeOK
  <2> QED
    BY <1>0, <1>4, <2>1 DEF PaymentTypeOK
<1>6. ActiveAgree'
  BY <1>0, <1>4 DEF ActiveAgree, PaymentTypeOK
<1>7. /\ PaymentTypeOK' /\ CheckoutsFit' /\ EventsFit'
      /\ payments'[p].status = "SUCCEEDED"
      /\ \A q \in Buckets \ {p} : payments'[q].status = payments[q].status
  <2>1. SetStatus(p, "SUCCEEDED")
    BY DEF grantFromSucceededPayment
  <2>2. payments[p].status # "NONE" /\ "SUCCEEDED" \in PaymentStatus \ {"NONE"}
    BY DEF Open, PaymentStatus
  <2> QED
    BY <1>5, <2>1, <2>2, StatusMoves
<1>8. GrantsFit'
  <2> SUFFICES ASSUME NEW q \in Buckets
               PROVE  /\ Exists(q)' => acquirer'[q] \in {"CONFIRMED", "PARTIAL_REFUNDED", "REFUNDED"}
                      /\ payments'[q].status \in Open \cup {"FAILED", "CANCELED", "NONE"} => ~Exists(q)'
                      /\ payments'[q].status = "SUCCEEDED" => Exists(q)'
    BY DEF GrantsFit, GrantIffPaid, Open
  <2>1. CASE q = p
    BY <1>3, <1>7, <2>1 DEF Paid, Open
  <2>2. CASE q # p
    BY <1>0, <1>3, <1>7, <2>2 DEF GrantsFit, GrantIffPaid
  <2> QED
    BY <2>1, <2>2
<1> QED
  BY <1>2, <1>6, <1>7, <1>8 DEF PaymentInv

(* A refund removes no bucket, ends no other subscription, and leaves the  *)
(* payment as refunded or to be looked into.                               *)
LEMMA RefundKeeps ==
  ASSUME PaymentInv, NEW p \in Buckets, payments[p].status # "NONE",
         NEW full \in BOOLEAN, NEW refundAmount \in {None} \cup 1..(Gross - 1),
         applyRefundAccounting(p, full, refundAmount),
         inflight' \subseteq inflight, UNCHANGED <<now, reservations, calls, checkout, acquirer>>
  PROVE  PaymentInv'
<1>0. UsageInv /\ PaymentTypeOK
  BY DEF PaymentInv
<1> DEFINE revokeGrant == IF full \/ refundAmount = None THEN Grant
                          ELSE (refundAmount * Grant) \div Gross
<1>1. CASE ~full /\ payments[p].kind = "SUBSCRIPTION"
  <2>1. /\ SetStatus(p, "RECONCILIATION_REQUIRED")
        /\ UNCHANGED <<buckets, ledger, subscriptions>>
    BY <1>1 DEF applyRefundAccounting, MarkReconciliationRequired
  <2>2. UsageInv' /\ \A q \in Buckets : Exists(q)' <=> Exists(q)
    BY <1>0, <2>1, NextInv DEF usageVars, Exists
  <2>3. /\ "RECONCILIATION_REQUIRED" \in PaymentStatus \ {"NONE", "SUCCEEDED"}
        /\ "RECONCILIATION_REQUIRED" \notin Open \cup {"FAILED", "CANCELED"}
    BY DEF PaymentStatus, Open
  <2> QED
    BY <2>1, <2>2, <2>3, StatusKeeps
<1>2. CASE ~(~full /\ payments[p].kind = "SUBSCRIPTION")
  <2>1. revokeGrant \in Nat
    <3>1. Grant \in Nat /\ Gross \in Nat \ {0}
      BY PaymentAssumption
    <3>2. CASE full \/ refundAmount = None
      BY <3>1, <3>2
    <3>3. CASE ~(full \/ refundAmount = None)
      <4>1. refundAmount \in Nat
        BY <3>1, <3>3
      <4>2. refundAmount * Grant \in Nat
        BY <3>1, <4>1
      <4>3. (refundAmount * Grant) \div Gross \in Nat
        BY <3>1, <4>2
      <4> QED
        BY <3>3, <4>3
    <3> QED
      BY <3>2, <3>3
  <2>2. /\ IF Exists(p) THEN RevokeUnused(p, revokeGrant) ELSE UNCHANGED <<buckets, ledger>>
        /\ subscriptions' = subscriptions
             \/ subscriptions' = [subscriptions EXCEPT ![p].status = "CANCELED"]
        /\ SetStatus(p, IF full THEN "REFUNDED" ELSE "PARTIALLY_REFUNDED")
    BY <1>2 DEF applyRefundAccounting
  <2> HIDE DEF revokeGrant
  <2>3. UsageInv'
    BY <1>0, <2>1, <2>2, NextInv, RevokeKeepsInv DEF usageVars
  <2>4. \A q \in Buckets : Exists(q)' <=> Exists(q)
    <3>1. buckets \in [Buckets -> BucketRows]
      BY <1>0 DEF UsageInv, UsageTypeOK
    <3>2. \/ buckets' = buckets
          \/ \E total : buckets' = [buckets EXCEPT ![p].total = total]
      BY <2>2 DEF RevokeUnused
    <3> QED
      BY <3>1, <3>2 DEF Exists, BucketRows
  <2>5. \A status \in {"REFUNDED", "PARTIALLY_REFUNDED"} :
          /\ status \in PaymentStatus \ {"NONE", "SUCCEEDED"}
          /\ status \notin Open \cup {"FAILED", "CANCELED"}
    BY DEF PaymentStatus, Open
  <2> QED
    BY <2>2, <2>3, <2>4, <2>5, StatusKeeps
<1> QED
  BY <1>1, <1>2

(* An event of the acquirer, applied once or dropped.                      *)
LEMMA EventKeeps ==
  ASSUME PaymentInv, EventNext
  PROVE  PaymentInv'
<1>0. PICK e \in inflight : processPaymentEvent(e) \/ DropEvent(e)
  BY DEF EventNext
<1>1. inflight' \subseteq inflight
  BY <1>0 DEF processPaymentEvent, DropEvent, Consumed
<1> DEFINE p == e.payment
           event == classifyTBankStatus(e.status)
<1>2. p \in Buckets /\ e.status \in AcquirerStatus
  BY DEF PaymentInv, PaymentTypeOK, Events
<1>3. CASE DropEvent(e)
  <2>1. /\ UNCHANGED <<usageVars, subscriptions>>
        /\ payments' = payments /\ subscriptions' = subscriptions /\ checkout' = checkout
        /\ acquirer' = acquirer
    BY <1>3 DEF DropEvent
  <2>2. UsageInv' /\ ActiveAgree' /\ \A q \in Buckets : Exists(q)' <=> Exists(q)
    BY <2>1, RowsKept
  <2>3. PaymentTypeOK' /\ CheckoutsFit' /\ EventsFit' /\ GrantsFit'
    BY <1>1, <2>1, <2>2 DEF PaymentInv, PaymentTypeOK, CheckoutsFit, EventsFit, GrantsFit,
                            GrantIffPaid
  <2> QED
    BY <2>2, <2>3 DEF PaymentInv
<1>4. CASE processPaymentEvent(e)
  <2>1. /\ payments[p].status # "NONE" /\ ~EventThrows(e) /\ ApplyEvent(e)
        /\ UNCHANGED <<now, reservations, calls, checkout, acquirer>>
    BY <1>4 DEF processPaymentEvent
  <2>2. ASSUME UNCHANGED <<buckets, ledger>>
        PROVE  UsageInv' /\ \A q \in Buckets : Exists(q)' <=> Exists(q)
    BY <2>1, <2>2, NextInv DEF PaymentInv, usageVars, Exists
  <2>3. CASE ~e.matches
    <3>1. /\ SetStatus(p, "RECONCILIATION_REQUIRED")
          /\ UNCHANGED <<buckets, ledger, subscriptions>>
      BY <2>1, <2>3 DEF ApplyEvent, MarkReconciliationRequired
    <3>2. /\ "RECONCILIATION_REQUIRED" \in PaymentStatus \ {"NONE", "SUCCEEDED"}
          /\ "RECONCILIATION_REQUIRED" \notin Open \cup {"FAILED", "CANCELED"}
      BY DEF PaymentStatus, Open
    <3> QED
      BY <1>1, <1>2, <2>1, <2>2, <3>1, <3>2, StatusKeeps
  <2>4. CASE e.matches /\ event = "confirmed" /\ ApplyConfirmed(p)
    <3>1. e.status = "CONFIRMED"
      BY <1>2, <2>4 DEF classifyTBankStatus, AcquirerStatus
    <3>2. acquirer[p] \in Paid
      BY <3>1 DEF PaymentInv, EventsFit
    <3>3. CASE payments[p].status \in Open
      BY <1>1, <1>2, <2>1, <2>4, <3>2, <3>3, GrantKeeps DEF ApplyConfirmed
    <3>4. CASE payments[p].status \notin Open
      <4>1. UNCHANGED <<buckets, ledger, payments, subscriptions>>
        BY <2>4, <3>4 DEF ApplyConfirmed
      <4>2. PaymentTypeOK' /\ CheckoutsFit' /\ EventsFit' /\ GrantsFit' /\ ActiveAgree'
        BY <1>1, <2>1, <2>2, <4>1 DEF PaymentInv, PaymentTypeOK, CheckoutsFit, EventsFit, GrantsFit,
                                GrantIffPaid, ActiveAgree
      <4> QED
        BY <2>2, <4>1, <4>2 DEF PaymentInv
    <3> QED
      BY <3>3, <3>4
  <2>5. CASE \/ applyRefundAccounting(p, TRUE, None)
             \/ applyRefundAccounting(p, FALSE, None)
             \/ \E refundAmount \in 1..(Gross - 1) : applyRefundAccounting(p, FALSE, refundAmount)
    BY <1>1, <1>2, <2>1, <2>5, RefundKeeps
  <2>6. CASE /\ event \in {"pending", "failed", "canceled"}
             /\ SetStatus(p, nextDomainStatus(payments[p].status, event))
             /\ UNCHANGED <<buckets, ledger, subscriptions, economics>>
    <3> DEFINE current == payments[p].status
               status == nextDomainStatus(current, event)
    <3>1. current \in PaymentStatus \ {"NONE"}
      BY <1>2, <2>1 DEF PaymentInv, PaymentTypeOK
    <3>2. /\ event = "pending" => status = IF current = "CREATED" THEN "PENDING" ELSE current
          /\ event = "failed" => status = IF current \in Open \cup {"FAILED"} THEN "FAILED" ELSE current
          /\ event = "canceled" => status = IF current \in Open \cup {"CANCELED", "RECONCILIATION_REQUIRED"}
                                            THEN "CANCELED" ELSE current
      BY DEF nextDomainStatus
    <3>3. event = "canceled" => e.status = "CANCELED"
      BY <1>2 DEF classifyTBankStatus, AcquirerStatus
    <3>4. event = "canceled" => ~Exists(p)
      BY <1>2, <3>3 DEF PaymentInv, EventsFit, GrantsFit, GrantIffPaid
    <3>5. SetStatus(p, status) /\ UNCHANGED <<buckets, ledger, subscriptions>>
      BY <2>6
    <3> HIDE DEF status, event
    <3>6. status \in PaymentStatus \ {"NONE"}
      BY <2>6, <3>1, <3>2 DEF PaymentStatus, Open
    <3>7. status \in Open \cup {"FAILED", "CANCELED"} => ~Exists(p)
      <4>1. current \in Open \cup {"FAILED", "CANCELED"} => ~Exists(p)
        BY <1>2 DEF PaymentInv, GrantsFit, GrantIffPaid
      <4> QED
        BY <2>6, <3>2, <3>4, <4>1 DEF Open
    <3>8. CASE status # "SUCCEEDED"
      BY <1>1, <1>2, <2>1, <2>2, <3>5, <3>6, <3>7, <3>8, StatusKeeps
    <3>9. CASE status = "SUCCEEDED"
      <4>1. current = "SUCCEEDED"
        BY <2>6, <3>2, <3>9
      <4>2. payments' = payments
        BY <1>2, <3>5, <3>9, <4>1 DEF SetStatus, PaymentInv, PaymentTypeOK
      <4>3. PaymentTypeOK' /\ CheckoutsFit' /\ EventsFit' /\ GrantsFit' /\ ActiveAgree'
        BY <1>1, <2>1, <2>2, <3>5, <4>2 DEF PaymentInv, PaymentTypeOK, CheckoutsFit, EventsFit,
                                GrantsFit, GrantIffPaid, ActiveAgree
      <4> QED
        BY <2>2, <3>5, <4>3 DEF PaymentInv
    <3> QED
      BY <3>8, <3>9
  <2> QED
    BY <2>1, <2>3, <2>4, <2>5, <2>6 DEF ApplyEvent
<1> QED
  BY <1>0, <1>3, <1>4

LEMMA PaymentNextInv == PaymentInv /\ [Next]_vars => PaymentInv'
<1> SUFFICES ASSUME PaymentInv, [Next]_vars PROVE PaymentInv'
  OBVIOUS
<1>1. CASE UNCHANGED vars
  <2>1. /\ UNCHANGED <<usageVars, subscriptions>>
        /\ payments' = payments /\ subscriptions' = subscriptions /\ checkout' = checkout
        /\ acquirer' = acquirer /\ inflight' = inflight
    BY <1>1 DEF vars, payVars
  <2>2. UsageInv' /\ ActiveAgree' /\ \A q \in Buckets : Exists(q)' <=> Exists(q)
    BY <2>1, RowsKept
  <2>3. PaymentTypeOK' /\ CheckoutsFit' /\ EventsFit' /\ GrantsFit'
    BY <2>1, <2>2 DEF PaymentInv, PaymentTypeOK, CheckoutsFit, EventsFit, GrantsFit,
                      GrantIffPaid
  <2> QED
    BY <2>2, <2>3 DEF PaymentInv
<1> QED
  BY <1>1, CheckoutKeeps, AcquirerKeeps, EventKeeps, UsageOnlyKeeps DEF Next

-------------------------------------------------------------------------------
(* The rows have their types whatever is paid, repeated, lost or refunded. *)
THEOREM PaymentTypesHold == Spec => []PaymentTypeOK
<1>1. PaymentInv => PaymentTypeOK
  BY DEF PaymentInv
<1> QED
  BY PaymentInitInv, PaymentNextInv, <1>1, PTL DEF Spec

(* Usage is granted for money the acquirer took and nothing else, and the  *)
(* status of a payment says whether it was: processPaymentEvent and        *)
(* initializeHostedCheckout commit in any order.                           *)
THEOREM GrantedIffPaid == Spec => []GrantIffPaid
<1>1. PaymentInv => GrantIffPaid
  BY DEF PaymentInv, GrantsFit
<1> QED
  BY PaymentInitInv, PaymentNextInv, <1>1, PTL DEF Spec

(* However many subscription checkouts pass their check at once, at most   *)
(* one subscription is ACTIVE.                                             *)
THEOREM AtMostOneActive == Spec => []OneActiveSubscription
<1> DEFINE A == {p \in Buckets : subscriptions[p].status = "ACTIVE"}
<1>1. ASSUME PaymentInv PROVE Cardinality(A) <= 1
  <2>1. \A a, b \in A : a = b
    BY <1>1 DEF PaymentInv, ActiveAgree
  <2> HIDE DEF A
  <2>2. CASE A = {}
    BY <2>2, FS_EmptySet
  <2>3. CASE A # {}
    <3>1. PICK a : A = {a}
      BY <2>1, <2>3
    <3>2. Cardinality({a}) = 1
      BY FS_Singleton
    <3> QED
      BY <3>1, <3>2
  <2> QED
    BY <2>2, <2>3
<1>2. PaymentInv => OneActiveSubscription
  BY <1>1 DEF OneActiveSubscription
<1> QED
  BY PaymentInitInv, PaymentNextInv, <1>2, PTL DEF Spec

(* Grants and refunds of any size keep every bucket solvent, whatever      *)
(* requests hold and settle between them.                                  *)
THEOREM PaymentsStaySolvent == Spec => []Solvent
<1>1. PaymentInv => Solvent
  BY DEF PaymentInv, UsageInv
<1> QED
  BY PaymentInitInv, PaymentNextInv, <1>1, PTL DEF Spec

(* A paid payment moves on only to a refund or to be looked into, and a    *)
(* late confirmation does not undo a refund.                               *)
PaidMovesOn ==
  \A p \in Buckets :
    /\ payments[p].status = "SUCCEEDED" =>
         payments'[p].status \in {"SUCCEEDED", "REFUNDED", "PARTIALLY_REFUNDED",
                                  "RECONCILIATION_REQUIRED"}
    /\ payments[p].status = "REFUNDED" => payments'[p].status # "SUCCEEDED"

(* What RefundTakesAllUnheld says of statuses: after the grant neither a   *)
(* late checkout commit nor a late notification reopens a payment.         *)
THEOREM PaidPaymentsMoveOn == Spec => [][PaidMovesOn]_vars
<1>1. PaymentInv /\ [Next]_vars => [PaidMovesOn]_vars
  <2> SUFFICES ASSUME PaymentInv, Next PROVE PaidMovesOn
    OBVIOUS
  <2>0. /\ \A p \in Buckets : payments[p] \in [status : PaymentStatus, kind : {"SUBSCRIPTION", "TOPUP"},
                                               url : BOOLEAN]
        /\ payments \in [Buckets -> [status : PaymentStatus, kind : {"SUBSCRIPTION", "TOPUP"},
                                               url : BOOLEAN]]
    BY DEF PaymentInv, PaymentTypeOK
  <2>1. CASE payments' = payments
    BY <2>1 DEF PaidMovesOn
  <2>2. ASSUME NEW p \in Buckets, createPendingPayment(p) \/ CommitHostedCheckout(p)
        PROVE  PaidMovesOn
    <3>1. payments[p].status \notin {"SUCCEEDED"}
      BY <2>2 DEF PaymentInv, CheckoutsFit, GrantsFit, GrantIffPaid, Paid, createPendingPayment,
                  CommitHostedCheckout
    <3>2. ASSUME NEW status, NEW kind, NEW url, status # "SUCCEEDED",
                 payments' = [payments EXCEPT ![p] = [status |-> status, kind |-> kind, url |-> url]]
          PROVE  PaidMovesOn
      BY <2>0, <3>1, <3>2 DEF PaidMovesOn
    <3>3. CASE createPendingPayment(p)
      BY <3>2, <3>3 DEF createPendingPayment
    <3>4. CASE CommitHostedCheckout(p)
      BY <3>2, <3>4 DEF CommitHostedCheckout
    <3> QED
      BY <2>2, <3>3, <3>4
  <2>3. ASSUME NEW e \in inflight, processPaymentEvent(e)
        PROVE  PaidMovesOn
    <3>1. e.payment \in Buckets /\ e.status \in AcquirerStatus
      BY DEF PaymentInv, PaymentTypeOK, Events
    <3>2. CASE payments' = payments
      BY <3>2 DEF PaidMovesOn
    <3>3. ASSUME NEW status, SetStatus(e.payment, status),
                 payments[e.payment].status = "SUCCEEDED" =>
                   status \in {"SUCCEEDED", "REFUNDED", "PARTIALLY_REFUNDED",
                               "RECONCILIATION_REQUIRED"},
                 payments[e.payment].status = "REFUNDED" => status # "SUCCEEDED"
          PROVE  PaidMovesOn
      BY <2>0, <3>1, <3>3 DEF PaidMovesOn, SetStatus
    <3>4. CASE e.matches /\ classifyTBankStatus(e.status) = "confirmed" /\ ApplyConfirmed(e.payment)
      BY <3>2, <3>3, <3>4 DEF ApplyConfirmed, grantFromSucceededPayment, Open
    <3>5. CASE ~e.matches
      BY <2>3, <3>3, <3>5 DEF processPaymentEvent, ApplyEvent, MarkReconciliationRequired
    <3>6. ASSUME NEW full \in BOOLEAN, NEW sum, applyRefundAccounting(e.payment, full, sum)
          PROVE  PaidMovesOn
      BY <3>3, <3>6 DEF applyRefundAccounting, MarkReconciliationRequired
    <3>7. ASSUME NEW event \in {"pending", "failed", "canceled"},
                 SetStatus(e.payment, nextDomainStatus(payments[e.payment].status, event))
          PROVE  PaidMovesOn
      BY <3>3, <3>7 DEF nextDomainStatus, Open
    <3> QED
      BY <2>3, <3>4, <3>5, <3>6, <3>7 DEF processPaymentEvent, ApplyEvent
  <2>4. CASE CheckoutNext
    BY <2>1, <2>2, <2>4 DEF CheckoutNext, CheckoutStart, InitAtAcquirer, CheckoutLost
  <2>5. CASE AcquirerNext
    BY <2>1, <2>5 DEF AcquirerNext, AcquirerStep, RefundAtAcquirer, ReconcileFetch
  <2>6. CASE EventNext
    BY <2>1, <2>3, <2>6 DEF EventNext, DropEvent
  <2>7. CASE UsageOnly
    BY <2>1, <2>7 DEF UsageOnly, payVars
  <2> QED
    BY <2>4, <2>5, <2>6, <2>7 DEF Next
<1> QED
  BY PaymentInitInv, PaymentNextInv, <1>1, PTL DEF Spec

-------------------------------------------------------------------------------
(* The account.  A full refund asks for the whole grant back and takes what *)
(* is unused: that this is all of it rests on the books.  A bucket never   *)
(* grows past its grant, and what it has spent and holds are sums of       *)
(* amounts, so what is unused is at most what is asked for.                *)
GrantsWithin == \A b \in Buckets : buckets[b].total <= Grant

AccountInv == PaymentInv /\ BooksInv /\ GrantsWithin

(* The first conjunct of RefundTakesAllUnheld.                             *)
RefundTakes ==
  \A p \in Buckets :
    payments'[p].status = "REFUNDED" /\ payments[p].status # "REFUNDED" /\ Exists(p) =>
      availableMicroRub(buckets'[p]) = 0

(* What a step may do to the account.                                      *)
AccountStep == BooksInv' /\ ExpiredOnlyDrain /\ GrantsWithin'

LEMMA AccountInitInv == PaymentInit => AccountInv
<1> SUFFICES ASSUME PaymentInit PROVE AccountInv
  OBVIOUS
<1>1. BooksInv
  BY BooksInit DEF PaymentInit
<1>2. GrantsWithin
  BY PaymentAssumption DEF PaymentInit, UsageInit, NoBucket, GrantsWithin
<1> QED
  BY <1>1, <1>2, PaymentInitInv DEF AccountInv

LEMMA BucketAmounts ==
  ASSUME BooksInv, NEW b \in Buckets
  PROVE  /\ buckets[b] \in BucketRows
         /\ buckets[b].reserved \in Nat /\ buckets[b].spent \in Nat /\ buckets[b].total \in Int
<1>1. PICK f : f = [r \in Requests |->
                      IF reservations[r].status = "ACTIVE" THEN reservations[r].held[b] ELSE 0]
  OBVIOUS
<1>2. PICK g : g = [r \in Requests |-> reservations[r].charged[b]]
  OBVIOUS
<1>3. \A r \in Requests : reservations[r].held[b] \in Nat /\ reservations[r].charged[b] \in Nat
  BY DEF BooksInv, RowOK
<1>4. f \in [Requests -> Nat] /\ g \in [Requests -> Nat]
  BY <1>1, <1>2, <1>3
<1>5. Total(f) \in Nat /\ Total(g) \in Nat
  BY <1>4, TotalType, UsageAssumption
<1>6. buckets[b].reserved = Total(f) /\ buckets[b].spent = Total(g)
  BY <1>1, <1>2 DEF BooksInv, BooksBalance, BucketsBalance, ChargesAddUp
<1>7. buckets[b] \in BucketRows
  BY DEF BooksInv, UsageInv, UsageTypeOK
<1> QED
  BY <1>5, <1>6, <1>7 DEF BucketRows

(* Nothing is granted, refunded, reserved or settled.                      *)
LEMMA QuietAccount ==
  ASSUME AccountInv, UsageInv', UNCHANGED <<buckets, reservations, ledger>>
  PROVE  AccountStep
<1>1. BooksInv' /\ ExpiredOnlyDrain
  BY QuietBooks DEF AccountInv
<1> QED
  BY <1>1 DEF AccountInv, AccountStep, GrantsWithin

LEMMA UsageAccount ==
  ASSUME AccountInv, UsageOnly
  PROVE  AccountStep
<1>1. ReserveStep \/ FinishStep \/ Tick
  BY DEF UsageOnly
<1>2. BooksInv' /\ [ExpiredOnlyDrain]_usageVars
  BY <1>1, BooksNext DEF AccountInv, UsageNext
<1>3. UsageInv'
  BY <1>2 DEF BooksInv
<1>4. BooksInv' /\ ExpiredOnlyDrain
  <2>1. CASE UNCHANGED usageVars
    BY <1>3, <2>1, QuietBooks DEF AccountInv, usageVars
  <2> QED
    BY <1>2, <2>1
<1>5. \A b \in Buckets : buckets'[b].total = buckets[b].total
  BY <1>1, UsageKeepsBuckets DEF AccountInv, PaymentInv
<1> QED
  BY <1>4, <1>5 DEF AccountInv, AccountStep, GrantsWithin

(* A grant creates a bucket of exactly the grant.                          *)
LEMMA GrantAccount ==
  ASSUME AccountInv, UsageInv', NEW p \in Buckets, grantFromSucceededPayment(p),
         reservations' = reservations
  PROVE  AccountStep
<1>1. GrantMonthly(p, Grant) \/ GrantTopup(p, Grant)
  BY DEF grantFromSucceededPayment
<1>2. Grant \in Nat
  BY PaymentAssumption
<1>3. BooksInv' /\ ExpiredOnlyDrain
  BY <1>1, <1>2, GrantBooks DEF AccountInv
<1>4. PICK row : row.total = Grant /\ buckets' = [buckets EXCEPT ![p] = row]
  <2>1. PICK type, expiresAt : GrantBucket(p, type, Grant, expiresAt)
    BY <1>1 DEF GrantMonthly, GrantTopup
  <2>2. PICK row : row = [type |-> type, total |-> Grant, spent |-> 0, reserved |-> 0,
                          expiresAt |-> expiresAt,
                          createdAt |-> Cardinality({c \in Buckets : Exists(c)})]
    OBVIOUS
  <2> QED
    BY <2>1, <2>2 DEF GrantBucket
<1>5. DOMAIN buckets = Buckets
  BY DEF AccountInv, PaymentInv, UsageInv, UsageTypeOK
<1>6. GrantsWithin'
  <2> SUFFICES ASSUME NEW b \in Buckets PROVE buckets'[b].total <= Grant
    BY DEF GrantsWithin
  <2>1. CASE b = p
    BY <1>2, <1>4, <1>5, <2>1
  <2>2. CASE b # p
    BY <1>4, <1>5, <2>2 DEF AccountInv, GrantsWithin
  <2> QED
    BY <2>1, <2>2
<1> QED
  BY <1>3, <1>6 DEF AccountStep

(* A refund of any size lowers the grant by at most what is unused; one    *)
(* that asks for the whole grant leaves nothing unused.                    *)
LEMMA RevokeAccount ==
  ASSUME AccountInv, UsageInv', NEW p \in Buckets, NEW sum \in Nat, RevokeUnused(p, sum),
         reservations' = reservations
  PROVE  AccountStep /\ (sum = Grant => availableMicroRub(buckets'[p]) = 0)
<1>1. BooksInv' /\ ExpiredOnlyDrain
  BY RevokeBooks DEF AccountInv
<1>2. /\ buckets[p] \in BucketRows /\ DOMAIN buckets = Buckets
      /\ buckets[p].reserved \in Nat /\ buckets[p].spent \in Nat /\ buckets[p].total \in Int
  BY BucketAmounts DEF AccountInv, PaymentInv, UsageInv, UsageTypeOK
<1>3. /\ buckets[p].total <= Grant /\ Grant \in Nat
      /\ buckets[p].spent + buckets[p].reserved <= buckets[p].total
  BY PaymentAssumption DEF AccountInv, GrantsWithin, PaymentInv, UsageInv, Solvent
<1>4. PICK unused : unused = buckets[p].total - buckets[p].spent - buckets[p].reserved
  OBVIOUS
<1>5. unused \in Nat /\ unused <= Grant
  BY <1>2, <1>3, <1>4
<1>6. PICK revoke : revoke = IF unused < sum THEN unused ELSE sum
  OBVIOUS
<1>7. revoke \in Nat /\ (sum = Grant => revoke = unused)
  BY <1>3, <1>5, <1>6
<1>8. IF revoke > 0 THEN buckets' = [buckets EXCEPT ![p].total = @ - revoke]
                    ELSE buckets' = buckets
  BY <1>4, <1>6 DEF RevokeUnused, availableMicroRub
<1>9. /\ buckets'[p].total = buckets[p].total - revoke
      /\ buckets'[p].spent = buckets[p].spent /\ buckets'[p].reserved = buckets[p].reserved
      /\ \A b \in Buckets \ {p} : buckets'[b] = buckets[b]
  <2>1. CASE revoke > 0
    <3>1. /\ buckets'[p] = [buckets[p] EXCEPT !.total = @ - revoke]
          /\ \A b \in Buckets \ {p} : buckets'[b] = buckets[b]
      BY <1>2, <1>8, <2>1
    <3> QED
      BY <1>2, <3>1 DEF BucketRows
  <2>2. CASE ~(revoke > 0)
    <3>1. revoke = 0
      BY <1>7, <2>2
    <3> QED
      BY <1>2, <1>8, <2>2, <3>1
  <2> QED
    BY <2>1, <2>2
<1>10. GrantsWithin'
  <2> SUFFICES ASSUME NEW b \in Buckets PROVE buckets'[b].total <= Grant
    BY DEF GrantsWithin
  <2>1. CASE b = p
    BY <1>2, <1>3, <1>7, <1>9, <2>1
  <2>2. CASE b # p
    BY <1>9, <2>2 DEF AccountInv, GrantsWithin
  <2> QED
    BY <2>1, <2>2
<1>11. ASSUME sum = Grant PROVE availableMicroRub(buckets'[p]) = 0
  <2>1. revoke = unused
    BY <1>7, <1>11
  <2> QED
    BY <1>2, <1>4, <1>9, <2>1 DEF availableMicroRub
<1> QED
  BY <1>1, <1>10, <1>11 DEF AccountStep

LEMMA RefundAccount ==
  ASSUME AccountInv, UsageInv', NEW p \in Buckets, NEW full \in BOOLEAN,
         NEW refundAmount \in {None} \cup 1..(Gross - 1),
         applyRefundAccounting(p, full, refundAmount), reservations' = reservations
  PROVE  AccountStep /\ RefundTakes
<1> DEFINE revokeGrant == IF full \/ refundAmount = None THEN Grant
                          ELSE (refundAmount * Grant) \div Gross
<1>0. payments \in [Buckets -> [status : PaymentStatus, kind : {"SUBSCRIPTION", "TOPUP"},
                                url : BOOLEAN]]
  BY DEF AccountInv, PaymentInv, PaymentTypeOK
<1>1. ASSUME NEW status, SetStatus(p, status)
      PROVE  /\ payments'[p].status = status
             /\ \A q \in Buckets \ {p} : payments'[q].status = payments[q].status
  BY <1>0, <1>1 DEF SetStatus
<1>2. CASE ~full /\ payments[p].kind = "SUBSCRIPTION"
  <2>1. /\ SetStatus(p, "RECONCILIATION_REQUIRED")
        /\ UNCHANGED <<buckets, ledger>>
    BY <1>2 DEF applyRefundAccounting, MarkReconciliationRequired
  <2>2. AccountStep
    BY <2>1, QuietAccount
  <2>3. RefundTakes
    BY <1>1, <2>1 DEF RefundTakes
  <2> QED
    BY <2>2, <2>3
<1>3. CASE ~(~full /\ payments[p].kind = "SUBSCRIPTION")
  <2>1. revokeGrant \in Nat
    <3>1. Grant \in Nat /\ Gross \in Nat \ {0}
      BY PaymentAssumption
    <3>2. CASE full \/ refundAmount = None
      BY <3>1, <3>2
    <3>3. CASE ~(full \/ refundAmount = None)
      <4>1. refundAmount \in Nat
        BY <3>1, <3>3
      <4>2. refundAmount * Grant \in Nat
        BY <3>1, <4>1
      <4>3. (refundAmount * Grant) \div Gross \in Nat
        BY <3>1, <4>2
      <4> QED
        BY <3>3, <4>3
    <3> QED
      BY <3>2, <3>3
  <2>2. /\ IF Exists(p) THEN RevokeUnused(p, revokeGrant) ELSE UNCHANGED <<buckets, ledger>>
        /\ SetStatus(p, IF full THEN "REFUNDED" ELSE "PARTIALLY_REFUNDED")
    BY <1>3 DEF applyRefundAccounting
  <2>3. full => revokeGrant = Grant
    OBVIOUS
  <2> HIDE DEF revokeGrant
  <2>4. AccountStep
    BY <2>1, <2>2, QuietAccount, RevokeAccount
  <2>5. full /\ Exists(p) => availableMicroRub(buckets'[p]) = 0
    BY <2>1, <2>2, <2>3, RevokeAccount
  <2>6. RefundTakes
    BY <1>1, <2>2, <2>5 DEF RefundTakes
  <2> QED
    BY <2>4, <2>6
<1> QED
  BY <1>2, <1>3

(* An event of the acquirer grants, refunds, or leaves the account alone.  *)
LEMMA EventAccount ==
  ASSUME AccountInv, UsageInv', NEW e \in inflight, processPaymentEvent(e)
  PROVE  AccountStep /\ RefundTakes
<1> DEFINE p == e.payment
           event == classifyTBankStatus(e.status)
<1>1. p \in Buckets /\ reservations' = reservations /\ ApplyEvent(e)
  BY DEF AccountInv, PaymentInv, PaymentTypeOK, Events, processPaymentEvent
<1>2. payments \in [Buckets -> [status : PaymentStatus, kind : {"SUBSCRIPTION", "TOPUP"},
                                url : BOOLEAN]]
  BY DEF AccountInv, PaymentInv, PaymentTypeOK
<1>3. ASSUME NEW status, SetStatus(p, status), status = "REFUNDED" => payments[p].status = "REFUNDED"
      PROVE  RefundTakes
  <2>1. /\ payments'[p].status = status
        /\ \A q \in Buckets \ {p} : payments'[q].status = payments[q].status
    BY <1>1, <1>2, <1>3 DEF SetStatus
  <2> QED
    BY <1>3, <2>1 DEF RefundTakes
<1>4. CASE ~e.matches
  <2>1. SetStatus(p, "RECONCILIATION_REQUIRED") /\ UNCHANGED <<buckets, ledger>>
    BY <1>1, <1>4 DEF ApplyEvent, MarkReconciliationRequired
  <2> QED
    BY <1>1, <1>3, <2>1, QuietAccount
<1>5. CASE e.matches /\ ApplyConfirmed(p)
  <2>1. CASE payments[p].status \in Open
    <3>1. grantFromSucceededPayment(p)
      BY <1>5, <2>1 DEF ApplyConfirmed
    <3>2. SetStatus(p, "SUCCEEDED")
      BY <3>1 DEF grantFromSucceededPayment
    <3> QED
      BY <1>1, <1>3, <3>1, <3>2, GrantAccount
  <2>2. CASE payments[p].status \notin Open
    <3>1. UNCHANGED <<buckets, ledger, payments>>
      BY <1>5, <2>2 DEF ApplyConfirmed
    <3> QED
      BY <1>1, <3>1, QuietAccount DEF RefundTakes
  <2> QED
    BY <2>1, <2>2
<1>6. CASE \/ applyRefundAccounting(p, TRUE, None)
           \/ applyRefundAccounting(p, FALSE, None)
           \/ \E refundAmount \in 1..(Gross - 1) : applyRefundAccounting(p, FALSE, refundAmount)
  BY <1>1, <1>6, RefundAccount
<1>7. CASE /\ event \in {"pending", "failed", "canceled"}
           /\ SetStatus(p, nextDomainStatus(payments[p].status, event))
           /\ UNCHANGED <<buckets, ledger>>
  <2>1. nextDomainStatus(payments[p].status, event) = "REFUNDED" => payments[p].status = "REFUNDED"
    BY <1>7 DEF nextDomainStatus, Open
  <2> QED
    BY <1>1, <1>3, <1>7, <2>1, QuietAccount
<1> QED
  BY <1>1, <1>4, <1>5, <1>6, <1>7 DEF ApplyEvent

LEMMA AccountNextInv ==
  AccountInv /\ [Next]_vars => /\ AccountInv' /\ [RefundTakes]_vars
                              /\ [ExpiredOnlyDrain]_usageVars
<1> SUFFICES ASSUME AccountInv, [Next]_vars
             PROVE  AccountStep /\ [RefundTakes]_vars
  BY PaymentNextInv DEF AccountInv, AccountStep
<1>1. UsageInv' /\ PaymentInv
  BY PaymentNextInv DEF AccountInv, PaymentInv
<1>2. CASE UNCHANGED vars
  BY <1>1, <1>2, QuietAccount DEF vars, usageVars
<1>3. CASE CheckoutNext
  <2>1. UNCHANGED usageVars
    BY <1>3 DEF CheckoutNext, CheckoutStart, createPendingPayment, InitAtAcquirer,
                CommitHostedCheckout, CheckoutLost
  <2>2. PICK p \in Buckets : \/ payments' = payments
                            \/ createPendingPayment(p)
                            \/ CommitHostedCheckout(p)
    BY <1>3 DEF CheckoutNext, CheckoutStart, InitAtAcquirer, CheckoutLost
  <2>3. RefundTakes
    <3>1. CASE payments' = payments
      BY <3>1 DEF RefundTakes
    <3>2. CASE payments' # payments
      <4>1. PICK row : row.status # "REFUNDED" /\ payments' = [payments EXCEPT ![p] = row]
        <5>1. CASE createPendingPayment(p)
          <6>1. PICK row : row = [status |-> "CREATED", kind |-> checkout[p], url |-> FALSE]
            OBVIOUS
          <6> QED
            BY <5>1, <6>1 DEF createPendingPayment
        <5>2. CASE CommitHostedCheckout(p)
          <6>1. PICK row : row = [status |-> "PENDING", kind |-> payments[p].kind, url |-> TRUE]
            OBVIOUS
          <6>2. p \in DOMAIN payments
            BY <1>1 DEF PaymentInv, PaymentTypeOK
          <6> QED
            BY <5>2, <6>1, <6>2 DEF CommitHostedCheckout
        <5> QED
          BY <2>2, <3>2, <5>1, <5>2
      <4> QED
        BY <1>1, <4>1 DEF RefundTakes, PaymentInv, PaymentTypeOK
    <3> QED
      BY <3>1, <3>2
  <2> QED
    BY <1>1, <2>1, <2>3, QuietAccount DEF usageVars
<1>4. CASE AcquirerNext
  <2>1. UNCHANGED usageVars /\ payments' = payments
    BY <1>4 DEF AcquirerNext, AcquirerStep, RefundAtAcquirer, ReconcileFetch
  <2> QED
    BY <1>1, <2>1, QuietAccount DEF usageVars, RefundTakes
<1>5. CASE EventNext
  <2>1. PICK e \in inflight : processPaymentEvent(e) \/ DropEvent(e)
    BY <1>5 DEF EventNext
  <2>2. CASE processPaymentEvent(e)
    BY <1>1, <2>2, EventAccount
  <2>3. CASE DropEvent(e)
    BY <1>1, <2>3, QuietAccount DEF DropEvent, usageVars, RefundTakes
  <2> QED
    BY <2>1, <2>2, <2>3
<1>6. CASE UsageOnly
  BY <1>6, UsageAccount DEF UsageOnly, payVars, RefundTakes
<1> QED
  BY <1>2, <1>3, <1>4, <1>5, <1>6 DEF Next

(* A full refund leaves nothing to spend on the grant, whatever was spent, *)
(* held and refunded before it; a paid payment moves on only to a refund   *)
(* or to be looked into, and no late confirmation undoes a refund.         *)
THEOREM RefundsTakeAllUnheld == Spec => RefundTakesAllUnheld
<1>1. RefundTakes /\ PaidMovesOn =>
        \A p \in Buckets :
          /\ payments'[p].status = "REFUNDED" /\ payments[p].status # "REFUNDED" /\ Exists(p) =>
               availableMicroRub(buckets'[p]) = 0
          /\ payments[p].status = "SUCCEEDED" =>
               payments'[p].status \in {"SUCCEEDED", "REFUNDED", "PARTIALLY_REFUNDED",
                                        "RECONCILIATION_REQUIRED"}
          /\ payments[p].status = "REFUNDED" => payments'[p].status # "SUCCEEDED"
  BY DEF RefundTakes, PaidMovesOn
<1> QED
  BY <1>1, AccountInitInv, AccountNextInv, PaidPaymentsMoveOn, PTL DEF Spec, RefundTakesAllUnheld

(* The account's books agree under checkouts, notifications and refunds of *)
(* any size in any order, as they do in UsageBilling by itself.            *)
THEOREM PaymentsKeepBooks == Spec => BooksAgree
<1>1. AccountInv => BooksBalance
  BY DEF AccountInv, BooksInv
<1> QED
  BY <1>1, AccountInitInv, AccountNextInv, PTL DEF Spec, BooksAgree, BooksBalance

-----------------------------------------------------------------------------
(* The loops over the buckets.                                             *)

(* A table of which the buckets S come one after the other.                *)
Ranked(table, S) ==
  /\ IsFiniteSet(S) /\ DOMAIN table = Ids /\ S \subseteq Ids
  /\ \A b \in Ids : table[b] \in BucketRows
  /\ \A b, c \in Ids : b # c => ComesBefore(table[b], table[c]) \/ ComesBefore(table[c], table[b])

LEMMA OrderOfRows ==
  ASSUME NEW r \in BucketRows, NEW s \in BucketRows
  PROVE  /\ ComesBefore(r, s) => ~ComesBefore(s, r)
         /\ \A t \in BucketRows : ComesBefore(r, s) /\ ComesBefore(s, t) => ComesBefore(r, t)
  <1>1. \A t \in BucketRows :
          bucketTypeRank(t) \in {0, 1} /\ t.expiresAt \in Int /\ t.createdAt \in Int
    BY DEF bucketTypeRank, BucketRows
  <1> QED BY <1>1 DEF ComesBefore

(* The rank of a bucket is how many come before it, itself included.       *)
LEMMA SortedExists ==
  ASSUME NEW table, NEW S, Ranked(table, S)
  PROVE  \E q \in [1..Cardinality(S) -> S] :
           \A i, j \in DOMAIN q : i < j => ComesBefore(table[q[i]], table[q[j]])
  <1> DEFINE n == Cardinality(S)
             UpTo(b) == {c \in S : c = b \/ ComesBefore(table[c], table[b])}
  <1>1. IsFiniteSet(S) /\ n \in Nat /\ IsFiniteSet(1..n) /\ Cardinality(1..n) = n
    <2>1. IsFiniteSet(S) /\ n \in Nat
      BY FS_CardinalityType DEF Ranked
    <2>2. IsFiniteSet(1..n) /\ Cardinality(1..n) = IF 1 > n THEN 0 ELSE n - 1 + 1
      BY <2>1, FS_Interval
    <2>3. (IF 1 > n THEN 0 ELSE n - 1 + 1) = n
      BY <2>1
    <2> QED BY <2>1, <2>2, <2>3
  <1> HIDE DEF n
  <1>2. ASSUME NEW b \in S
        PROVE  /\ UpTo(b) \in SUBSET S /\ b \in UpTo(b) /\ IsFiniteSet(UpTo(b))
               /\ Cardinality(UpTo(b)) \in 1..n
    <2>1. UpTo(b) \in SUBSET S /\ b \in UpTo(b)
      OBVIOUS
    <2> HIDE DEF UpTo
    <2>2. IsFiniteSet(UpTo(b)) /\ Cardinality(UpTo(b)) <= n
      BY <1>1, <2>1, FS_Subset DEF n
    <2>3. Cardinality(UpTo(b)) \in Nat /\ Cardinality(UpTo(b)) # 0
      BY <2>1, <2>2, FS_CardinalityType, FS_EmptySet
    <2> QED BY <1>1, <2>1, <2>2, <2>3
  <1>3. ASSUME NEW b \in S, NEW c \in S, ComesBefore(table[b], table[c])
        PROVE  Cardinality(UpTo(b)) < Cardinality(UpTo(c))
    <2>1. b \in Ids /\ c \in Ids /\ table[b] \in BucketRows /\ table[c] \in BucketRows
      BY DEF Ranked
    <2>2. UpTo(b) \subseteq UpTo(c)
      <3> SUFFICES ASSUME NEW d \in S, ComesBefore(table[d], table[b])
                   PROVE  ComesBefore(table[d], table[c])
        BY <1>3
      <3>1. table[d] \in BucketRows
        BY DEF Ranked
      <3> QED BY <1>3, <2>1, <3>1, OrderOfRows
    <2>3. c \notin UpTo(b)
      BY <1>3, <2>1, OrderOfRows
    <2>4. /\ c \in UpTo(c) /\ IsFiniteSet(UpTo(c)) /\ Cardinality(UpTo(c)) \in Nat
          /\ Cardinality(UpTo(b)) \in Nat
      BY <1>2
    <2> HIDE DEF UpTo
    <2>5. UpTo(b) # UpTo(c)
      BY <2>3, <2>4
    <2>6. Cardinality(UpTo(b)) <= Cardinality(UpTo(c))
          /\ (Cardinality(UpTo(c)) = Cardinality(UpTo(b)) => UpTo(c) = UpTo(b))
      BY <2>2, <2>4, FS_Subset
    <2> QED BY <2>4, <2>5, <2>6
  <1>4. PICK rank : rank = [b \in S |-> Cardinality(UpTo(b))]
    OBVIOUS
  <1>5. rank \in [S -> 1..n]
    BY <1>2, <1>4
  <1>6. \A b, c \in S : ComesBefore(table[b], table[c]) => rank[b] < rank[c]
    BY <1>3, <1>4
  <1> HIDE DEF UpTo
  <1>7. \A b, c \in S : rank[b] \in Nat /\ (b # c => rank[b] < rank[c] \/ rank[c] < rank[b])
    BY <1>5, <1>6 DEF Ranked
  <1>8. rank \in Injection(S, 1..n)
    BY <1>5, <1>7 DEF Injection, IsInjective
  <1>9. rank \in Surjection(S, 1..n)
    BY <1>1, <1>8, FS_Injection DEF n
  <1>10. \A k \in 1..n : \E b \in S : rank[b] = k
    BY <1>9 DEF Surjection
  <1>11. PICK q : q = [k \in 1..n |-> CHOOSE b \in S : rank[b] = k]
    OBVIOUS
  <1>12. \A k \in 1..n : q[k] \in S /\ rank[q[k]] = k
    BY <1>10, <1>11
  <1>13. q \in [1..n -> S]
    BY <1>11, <1>12
  <1>14. ASSUME NEW i \in 1..n, NEW j \in 1..n, i < j
         PROVE  ComesBefore(table[q[i]], table[q[j]])
    <2>1. q[i] # q[j]
      BY <1>12, <1>14
    <2>2. ~ComesBefore(table[q[j]], table[q[i]])
      BY <1>6, <1>12, <1>14
    <2> QED BY <1>12, <2>1, <2>2 DEF Ranked
  <1>15. DOMAIN q = 1..n
    BY <1>11
  <1> QED BY <1>13, <1>14, <1>15 DEF n

Left(q) == {q[i] : i \in 1..Len(q)}

InOrder(table, q) ==
  /\ q \in Seq(Ids)
  /\ \A i, j \in 1..Len(q) : i < j => ComesBefore(table[q[i]], table[q[j]])

LEMMA OrderedLists ==
  ASSUME NEW S, Ranked(rows, S)
  PROVE  InOrder(rows, Ordered(S)) /\ Left(Ordered(S)) = S
  <1> DEFINE n == Cardinality(S)
  <1>1. PICK q : q = Ordered(S)
    OBVIOUS
  <1>2. q \in [1..n -> S] /\ \A i, j \in 1..n : i < j => ComesBefore(rows[q[i]], rows[q[j]])
    BY <1>1, SortedExists DEF Ordered
  <1>3. IsFiniteSet(S) /\ n \in Nat /\ IsFiniteSet(1..n) /\ Cardinality(1..n) = n
    <2>1. IsFiniteSet(S) /\ n \in Nat
      BY FS_CardinalityType DEF Ranked
    <2>2. IsFiniteSet(1..n) /\ Cardinality(1..n) = IF 1 > n THEN 0 ELSE n - 1 + 1
      BY <2>1, FS_Interval
    <2>3. (IF 1 > n THEN 0 ELSE n - 1 + 1) = n
      BY <2>1
    <2> QED BY <2>1, <2>2, <2>3
  <1> HIDE DEF n
  <1>4. \A b \in S : b \in Ids /\ rows[b] \in BucketRows /\ ~ComesBefore(rows[b], rows[b])
    BY OrderOfRows DEF Ranked
  <1>5. q \in Injection(1..n, S)
    <2> SUFFICES ASSUME NEW i \in 1..n, NEW j \in 1..n, q[i] = q[j] PROVE i = j
      BY <1>2 DEF Injection, IsInjective
    <2>1. q[i] \in S
      BY <1>2
    <2>2. ~(i < j) /\ ~(j < i)
      BY <1>2, <1>4, <2>1
    <2>3. i \in Nat /\ j \in Nat
      BY <1>3
    <2> QED BY <2>2, <2>3
  <1>6. q \in Surjection(1..n, S)
    BY <1>3, <1>5, FS_Injection DEF n
  <1>7. Len(q) = n /\ q \in Seq(Ids)
    BY <1>2, <1>3, <1>4
  <1>8. Left(q) = S
    BY <1>2, <1>6, <1>7 DEF Left, Surjection
  <1> QED BY <1>1, <1>2, <1>7, <1>8 DEF InOrder

LEMMA TailInOrder ==
  ASSUME NEW table, Ranked(table, Ids), NEW q, InOrder(table, q), q # <<>>
  PROVE  /\ Head(q) \in Ids /\ Head(q) \in Left(q) /\ InOrder(table, Tail(q))
         /\ Left(Tail(q)) = Left(q) \ {Head(q)}
         /\ \A c \in Left(Tail(q)) : ComesBefore(table[Head(q)], table[c])
  <1>1. q \in Seq(Ids) /\ Len(q) \in Nat /\ Len(q) >= 1 /\ Head(q) = q[1] /\ q[1] \in Ids
    BY DEF InOrder
  <1>2. /\ Tail(q) \in Seq(Ids) /\ Len(Tail(q)) = Len(q) - 1
        /\ \A i \in 1..Len(q) - 1 : Tail(q)[i] = q[i + 1]
    BY <1>1
  <1>3. InOrder(table, Tail(q))
    BY <1>1, <1>2 DEF InOrder
  <1>4. ASSUME NEW c \in Left(Tail(q))
        PROVE  c \in Left(q) /\ ComesBefore(table[q[1]], table[c])
    <2>1. PICK i \in 1..Len(Tail(q)) : c = Tail(q)[i]
      BY DEF Left
    <2>2. i + 1 \in 1..Len(q) /\ 1 \in 1..Len(q) /\ 1 < i + 1 /\ c = q[i + 1]
      BY <1>1, <1>2, <2>1
    <2> QED BY <2>2 DEF InOrder, Left
  <1>5. ASSUME NEW c \in Left(q), c # q[1] PROVE c \in Left(Tail(q))
    <2>1. PICK i \in 1..Len(q) : c = q[i]
      BY DEF Left
    <2>2. i # 1
      BY <1>5, <2>1
    <2>3. i - 1 \in 1..Len(Tail(q)) /\ Tail(q)[i - 1] = q[(i - 1) + 1] /\ (i - 1) + 1 = i
      BY <1>1, <1>2, <2>2
    <2> QED BY <2>1, <2>3 DEF Left
  <1>6. ~ComesBefore(table[q[1]], table[q[1]])
    BY <1>1, OrderOfRows DEF Ranked
  <1>7. q[1] \in Left(q)
    BY <1>1 DEF Left
  <1> QED BY <1>1, <1>3, <1>4, <1>5, <1>6, <1>7

(* Taken so far, in order: a bucket that is passed is used up for as long  *)
(* as something remains, one still to visit is untouched.                  *)
Spreading(table, cap, sum, q, rem, split) ==
  /\ cap \in [Ids -> Nat] /\ split \in [Ids -> Nat] /\ sum \in Nat /\ rem \in Nat
  /\ InOrder(table, q)
  /\ rem + Total(split) = sum
  /\ \A b \in Ids : split[b] <= cap[b]
  /\ \A b \in Left(q) : split[b] = 0
  /\ rem # 0 => \A b \in Ids \ Left(q) : split[b] = cap[b]
  /\ \A b \in Ids \ Left(q), c \in Left(q) : cap[b] = 0 \/ ComesBefore(table[b], table[c])
  /\ \A b, c \in Ids : ComesBefore(table[c], table[b]) /\ split[b] > 0 => split[c] = cap[c]

LEMMA SpreadStarts ==
  ASSUME NEW table, Ranked(table, Ids), NEW cap \in [Ids -> Nat], NEW sum \in Nat,
         NEW q, InOrder(table, q), \A b \in Ids \ Left(q) : cap[b] = 0
  PROVE  Spreading(table, cap, sum, q, sum, [b \in Ids |-> 0])
  <1>1. Total([b \in Ids |-> 0]) = 0
    BY AllocationLoopAssumption, TotalNothing
  <1>2. PICK split : split = [b \in Ids |-> 0]
    OBVIOUS
  <1>3. Total(split) = 0 /\ split \in [Ids -> Nat] /\ \A b \in Ids : split[b] = 0 /\ cap[b] \in Nat
    BY <1>1, <1>2
  <1>4. /\ sum + Total(split) = sum
        /\ \A b \in Ids : split[b] <= cap[b] /\ ~(split[b] > 0)
    BY <1>3
  <1>5. \A b \in Left(q) : b \in Ids
    BY DEF InOrder, Left
  <1>6. Spreading(table, cap, sum, q, sum, split)
    BY <1>3, <1>4, <1>5 DEF Spreading
  <1> QED BY <1>2, <1>6

LEMMA SpreadStep ==
  ASSUME NEW table, Ranked(table, Ids), NEW cap, NEW sum, NEW q, NEW rem, NEW split,
         Spreading(table, cap, sum, q, rem, split), q # <<>>,
         NEW b, b = Head(q), NEW give, give = IF cap[b] < rem THEN cap[b] ELSE rem
  PROVE  Spreading(table, cap, sum, Tail(q), rem - give, [split EXCEPT ![b] = give])
  <1>1. /\ b \in Ids /\ b \in Left(q) /\ InOrder(table, Tail(q))
        /\ Left(Tail(q)) = Left(q) \ {b}
        /\ \A c \in Left(Tail(q)) : ComesBefore(table[b], table[c])
    BY TailInOrder DEF Spreading
  <1>2. /\ cap \in [Ids -> Nat] /\ split \in [Ids -> Nat] /\ sum \in Nat /\ rem \in Nat
        /\ cap[b] \in Nat /\ give \in Nat /\ give <= rem /\ give <= cap[b]
        /\ (rem - give # 0 => rem # 0 /\ give = cap[b]) /\ (give > 0 => rem # 0)
        /\ split[b] = 0
    BY <1>1 DEF Spreading
  <1>3. PICK next : next = [split EXCEPT ![b] = give]
    OBVIOUS
  <1>4. next \in [Ids -> Nat] /\ next[b] = give /\ \A c \in Ids \ {b} : next[c] = split[c]
    BY <1>1, <1>2, <1>3
  <1>5. Total(next) = Total(split) - split[b] + next[b] /\ Total(split) \in Nat
    <2>1. IsFiniteSet(Ids)
      BY AllocationLoopAssumption
    <2>2. \A c \in Ids \ {b} : split[c] = next[c]
      BY <1>4
    <2>3. Total(split) \in Nat
      BY <1>2, <2>1, TotalType
    <2>4. Total(next) = Total(split) - split[b] + next[b]
      BY <1>1, <1>2, <1>4, <2>1, <2>2, TotalChanges
    <2> QED BY <2>3, <2>4
  <1>6. (rem - give) + Total(next) = sum
    BY <1>2, <1>4, <1>5 DEF Spreading
  <1>7. \A c \in Ids : next[c] <= cap[c]
    BY <1>2, <1>4 DEF Spreading
  <1>8. \A c \in Left(Tail(q)) : next[c] = 0
    <2>1. Left(q) \subseteq Ids
      BY DEF Spreading, InOrder, Left
    <2> QED BY <1>1, <1>4, <2>1 DEF Spreading
  <1>9. rem - give # 0 => \A c \in Ids \ Left(Tail(q)) : next[c] = cap[c]
    BY <1>1, <1>2, <1>4 DEF Spreading
  <1>10. \A c \in Ids \ Left(Tail(q)), d \in Left(Tail(q)) :
           cap[c] = 0 \/ ComesBefore(table[c], table[d])
    BY <1>1 DEF Spreading
  <1>11. ASSUME NEW x \in Ids, NEW c \in Ids, ComesBefore(table[c], table[x]), next[x] > 0
         PROVE  next[c] = cap[c]
    <2>0. table[c] \in BucketRows /\ table[x] \in BucketRows /\ ~ComesBefore(table[x], table[c])
      BY <1>11, OrderOfRows DEF Ranked
    <2>1. CASE x = b
      <3>1. rem # 0 /\ c # b
        BY <1>2, <1>4, <1>11, <2>0, <2>1
      <3>2. c \notin Left(q)
        BY <1>1, <2>0, <2>1, <3>1
      <3>3. split[c] = cap[c]
        BY <3>1, <3>2 DEF Spreading
      <3> QED BY <1>4, <3>1, <3>3
    <2>2. CASE x # b
      <3>1. split[x] > 0
        BY <1>4, <1>11, <2>2
      <3>2. x \notin Left(q) /\ cap[x] # 0
        BY <1>2, <3>1 DEF Spreading
      <3>3. c # b
        BY <1>1, <2>0, <3>2 DEF Spreading
      <3>4. split[c] = cap[c]
        BY <1>11, <3>1 DEF Spreading
      <3> QED BY <1>4, <3>3, <3>4
    <2> QED BY <2>1, <2>2
  <1>12. rem - give \in Nat
    BY <1>2
  <1>13. Spreading(table, cap, sum, Tail(q), rem - give, next)
    BY <1>1, <1>2, <1>4, <1>6, <1>7, <1>8, <1>9, <1>10, <1>11, <1>12 DEF Spreading
  <1> QED BY <1>3, <1>13

(* Amounts that are nowhere above others add up to no more.                *)
LEMMA TotalMonotone ==
  ASSUME NEW f \in [Ids -> Nat], NEW g \in [Ids -> Nat], \A b \in Ids : f[b] <= g[b]
  PROVE  /\ Total(f) \in Nat /\ Total(g) \in Nat /\ Total(f) <= Total(g)
         /\ Total(f) = Total(g) => f = g
  <1>1. PICK h : h = [b \in Ids |-> g[b] - f[b]]
    OBVIOUS
  <1>2. h \in [Ids -> Nat] /\ \A b \in Ids : g[b] = f[b] + h[b]
    BY <1>1
  <1>3. Total(g) = Total(f) + Total(h)
    BY <1>2, TotalAdds, AllocationLoopAssumption
  <1>4. /\ Total(f) \in Nat /\ Total(g) \in Nat /\ Total(h) \in Nat
        /\ \A b \in Ids : h[b] <= Total(h)
    BY <1>2, TotalType, AllocationLoopAssumption
  <1>5. ASSUME Total(f) = Total(g) PROVE f = g
    <2>1. Total(h) = 0
      BY <1>3, <1>4, <1>5
    <2>2. \A b \in Ids : h[b] = 0
      BY <1>2, <1>4, <2>1
    <2>3. \A b \in Ids : f[b] = g[b]
      BY <1>2, <2>2
    <2> QED BY <2>3
  <1> QED BY <1>3, <1>4, <1>5

(* Of two greedy splits over the same caps one is nowhere above the other. *)
LEMMA OneGreedySplit ==
  ASSUME NEW table, Ranked(table, Ids), NEW cap \in [Ids -> Nat], NEW sum \in Nat,
         NEW s \in GreedySplits(table, cap, sum), NEW t \in GreedySplits(table, cap, sum)
  PROVE  s = t
  <1>1. /\ s \in [Ids -> Nat] /\ t \in [Ids -> Nat] /\ Total(s) = sum /\ Total(t) = sum
        /\ \A b \in Ids : s[b] <= cap[b] /\ t[b] <= cap[b]
        /\ \A b, c \in Ids : ComesBefore(table[c], table[b]) =>
             (s[b] > 0 => s[c] = cap[c]) /\ (t[b] > 0 => t[c] = cap[c])
    BY DEF GreedySplits, Ranked
  <1>2. (\A b \in Ids : s[b] <= t[b]) \/ (\A b \in Ids : t[b] <= s[b])
    <2> SUFFICES ASSUME NEW b \in Ids, NEW c \in Ids, s[b] > t[b], t[c] > s[c] PROVE FALSE
      BY <1>1
    <2>1. s[b] > 0 /\ t[c] > 0 /\ b # c /\ s[c] # cap[c] /\ t[b] # cap[b]
      BY <1>1
    <2> QED BY <1>1, <2>1 DEF Ranked
  <1> QED BY <1>1, <1>2, TotalMonotone

LEMMA SpreadEnds ==
  ASSUME NEW table, Ranked(table, Ids), NEW cap, NEW sum, NEW q, NEW rem, NEW split,
         Spreading(table, cap, sum, q, rem, split)
  PROVE  /\ rem = 0 => GreedySplits(table, cap, sum) = {split} /\ Total(split) = sum
         /\ rem > 0 /\ q = <<>> => GreedySplits(table, cap, sum) = {} /\ Total(cap) < sum
  <1>1. /\ cap \in [Ids -> Nat] /\ split \in [Ids -> Nat] /\ sum \in Nat /\ rem \in Nat
        /\ rem + Total(split) = sum
    BY DEF Spreading
  <1>2. Total(split) \in Nat /\ \A b \in Ids : split[b] <= Total(split)
    BY <1>1, TotalType, AllocationLoopAssumption
  <1>3. ASSUME rem = 0 PROVE GreedySplits(table, cap, sum) = {split} /\ Total(split) = sum
    <2>1. Total(split) = sum
      BY <1>1, <1>2, <1>3
    <2>2. split \in [Ids -> 0..sum]
      BY <1>1, <1>2, <2>1
    <2>3. split \in GreedySplits(table, cap, sum)
      BY <2>1, <2>2 DEF Spreading, GreedySplits, Ranked
    <2> QED BY <1>1, <2>1, <2>3, OneGreedySplit
  <1>4. ASSUME rem > 0, q = <<>>
        PROVE  GreedySplits(table, cap, sum) = {} /\ Total(cap) < sum
    <2>1. Left(q) = {}
      BY <1>4 DEF Left
    <2>2. split = cap
      <3>1. \A b \in Ids : split[b] = cap[b]
        BY <1>4, <2>1 DEF Spreading
      <3> QED BY <1>1, <3>1
    <2>3. Total(cap) < sum
      BY <1>1, <1>2, <1>4, <2>2
    <2>4. ASSUME NEW t \in GreedySplits(table, cap, sum) PROVE FALSE
      <3>1. t \in [Ids -> Nat] /\ Total(t) = sum /\ \A b \in Ids : t[b] <= cap[b]
        BY <1>1 DEF GreedySplits, Ranked
      <3>2. Total(t) <= Total(cap) /\ Total(cap) \in Nat
        BY <1>1, <3>1, TotalMonotone
      <3> QED BY <1>1, <2>3, <3>1, <3>2
    <2> QED BY <2>3, <2>4
  <1> QED BY <1>3, <1>4

(* What the plan loop has done, and what the settle loop has.              *)
Nothing == [b \in Ids |-> 0]

LoopsInv ==
  /\ rows \in BucketTables /\ amount \in Nat /\ taken \in [Ids -> Nat]
  /\ phase \in {"planning", "planned", "refused", "settling", "settled"}
  /\ phase = "planning" =>
       /\ Spreading(rows, LoopCap, amount, queue, remaining, taken)
       /\ settled = Nothing
  /\ phase = "planned" =>
       /\ GreedySplits(rows, LoopCap, amount) = {taken} /\ Total(taken) = amount
       /\ settled = Nothing
  /\ phase = "refused" => GreedySplits(rows, LoopCap, amount) = {}
  /\ phase = "settling" =>
       /\ amount <= Total(taken)
       /\ Spreading(rows, taken, amount, queue, remaining, settled)
  /\ phase = "settled" => GreedySplits(rows, taken, amount) = {settled}

LEMMA TablesRanked ==
  ASSUME NEW table \in BucketTables
  PROVE  /\ Ranked(table, Ids)
         /\ \A S \in SUBSET Ids : Ranked(table, S)
  <1>1. /\ IsFiniteSet(Ids) /\ table \in [Ids -> BucketRows]
        /\ \A b, c \in Ids : b # c =>
             ComesBefore(table[b], table[c]) \/ ComesBefore(table[c], table[b])
    BY AllocationLoopAssumption
  <1>2. DOMAIN table = Ids /\ \A b \in Ids : table[b] \in BucketRows
    BY <1>1
  <1>3. ASSUME NEW S \in SUBSET Ids PROVE Ranked(table, S)
    <2>1. IsFiniteSet(S)
      BY <1>1, FS_Subset
    <2> QED BY <1>1, <1>2, <2>1 DEF Ranked
  <1> QED BY <1>3

LEMMA CapsAreAmounts ==
  ASSUME rows \in BucketTables
  PROVE  /\ LoopCap \in [Ids -> Nat]
         /\ \A b \in Ids : /\ availableMicroRub(rows[b]) \in Int
                           /\ availableMicroRub(rows[b]) <= 0 => LoopCap[b] = 0
                           /\ availableMicroRub(rows[b]) > 0 =>
                                LoopCap[b] = availableMicroRub(rows[b])
  <1>1. \A b \in Ids : rows[b] \in BucketRows
    BY TablesRanked DEF Ranked
  <1>2. \A b \in Ids : availableMicroRub(rows[b]) \in Int
    BY <1>1 DEF availableMicroRub, BucketRows
  <1>3. LoopCap = [b \in Ids |-> IF availableMicroRub(rows[b]) > 0
                                 THEN availableMicroRub(rows[b]) ELSE 0]
    BY DEF LoopCap
  <1> QED BY <1>2, <1>3

LEMMA LoopsInitInv ==
  ASSUME AllocationInit PROVE LoopsInv
  <1>1. rows \in BucketTables /\ amount \in Nat /\ phase = "planning"
    BY AllocationLoopAssumption DEF AllocationInit
  <1>2. taken = Nothing /\ settled = Nothing /\ Nothing \in [Ids -> Nat]
    BY DEF AllocationInit, Nothing
  <1>3. Ranked(rows, Ids) /\ InOrder(rows, queue) /\ Left(queue) = Ids
    BY <1>1, TablesRanked, OrderedLists DEF AllocationInit
  <1>4. Spreading(rows, LoopCap, amount, queue, amount, Nothing)
    BY <1>1, <1>3, CapsAreAmounts, SpreadStarts DEF Nothing
  <1>5. remaining = amount
    BY DEF AllocationInit
  <1> QED BY <1>1, <1>2, <1>4, <1>5 DEF LoopsInv

LEMMA LoopsNextInv ==
  ASSUME LoopsInv, [AllocationNext]_allocationVars PROVE LoopsInv'
  <1>1. /\ rows \in BucketTables /\ amount \in Nat /\ taken \in [Ids -> Nat]
        /\ Ranked(rows, Ids) /\ IsFiniteSet(Ids)
    BY TablesRanked DEF LoopsInv, Ranked
  <1>2. CASE PlanBucket
    <2>1. PICK b : b = Head(queue)
      OBVIOUS
    <2>2. PICK give : give = IF LoopCap[b] < remaining THEN LoopCap[b] ELSE remaining
      OBVIOUS
    <2>3. Spreading(rows, LoopCap, amount, queue, remaining, taken) /\ queue # <<>>
          /\ settled = Nothing
      BY <1>2 DEF PlanBucket, LoopsInv
    <2>4. Spreading(rows, LoopCap, amount, Tail(queue), remaining - give,
                    [taken EXCEPT ![b] = give])
      BY <1>1, <2>1, <2>2, <2>3, SpreadStep
    <2>5. b \in Ids /\ taken[b] = 0 /\ LoopCap[b] \in Nat /\ remaining \in Nat
      BY <1>1, <2>1, <2>3, TailInOrder DEF Spreading
    <2>6. taken' = [taken EXCEPT ![b] = give] /\ remaining' = remaining - give
      <3>1. CASE availableMicroRub(rows[b]) <= 0
        <4>1. give = 0
          BY <1>1, <2>2, <2>5, <3>1, CapsAreAmounts
        <4>2. [taken EXCEPT ![b] = give] = taken
          BY <1>1, <2>5, <4>1
        <4>3. taken' = taken /\ remaining' = remaining
          BY <1>2, <2>1, <3>1 DEF PlanBucket
        <4> QED BY <2>5, <4>1, <4>2, <4>3
      <3>2. CASE ~(availableMicroRub(rows[b]) <= 0)
        <4>1. availableMicroRub(rows[b]) \in Int
          BY <1>1, <2>5, CapsAreAmounts
        <4>2. LoopCap[b] = availableMicroRub(rows[b])
          BY <1>1, <2>5, <3>2, <4>1, CapsAreAmounts
        <4>3. give = Take(b)
          BY <2>2, <4>2 DEF Take
        <4> QED BY <1>2, <2>1, <3>2, <4>3 DEF PlanBucket
      <3> QED BY <3>1, <3>2
    <2>7. queue' = Tail(queue) /\ rows' = rows /\ amount' = amount /\ phase' = "planning"
          /\ settled' = Nothing
      BY <1>2, <2>3 DEF PlanBucket
    <2>8. LoopCap' = LoopCap
      BY <2>7 DEF LoopCap
    <2>9. Spreading(rows, LoopCap, amount, queue, remaining, taken)'
      BY <2>4, <2>6, <2>7, <2>8 DEF Spreading, InOrder, Left
    <2>10. taken' \in [Ids -> Nat]
      BY <2>4, <2>6 DEF Spreading
    <2> QED BY <1>1, <2>7, <2>9, <2>10 DEF LoopsInv, Nothing
  <1>3. CASE PlanEnds
    <2>1. /\ Spreading(rows, LoopCap, amount, queue, remaining, taken)
          /\ settled = Nothing /\ (queue = <<>> \/ remaining = 0)
          /\ UNCHANGED <<rows, amount, queue, remaining, taken, settled>>
          /\ phase' = IF remaining > 0 THEN "refused" ELSE "planned"
      BY <1>3 DEF PlanEnds, LoopsInv
    <2>2. remaining \in Nat
      BY <2>1 DEF Spreading
    <2>3. LoopCap' = LoopCap /\ GreedySplits(rows, LoopCap, amount)' = GreedySplits(rows, LoopCap, amount)
          /\ Total(taken)' = Total(taken)
      BY <2>1 DEF LoopCap
    <2>4. CASE remaining > 0
      <3>1. GreedySplits(rows, LoopCap, amount) = {}
        BY <1>1, <2>1, <2>4, SpreadEnds
      <3> QED BY <1>1, <2>1, <2>3, <2>4, <3>1 DEF LoopsInv
    <2>5. CASE ~(remaining > 0)
      <3>1. remaining = 0
        BY <2>2, <2>5
      <3>2. GreedySplits(rows, LoopCap, amount) = {taken} /\ Total(taken) = amount
        BY <1>1, <2>1, <3>1, SpreadEnds
      <3> QED BY <1>1, <2>1, <2>3, <2>5, <3>2 DEF LoopsInv, Nothing
    <2> QED BY <2>4, <2>5
  <1>4. ASSUME NEW actual \in 0..LargestPlan, SettleBegins(actual) PROVE LoopsInv'
    <2>1. /\ phase = "planned" /\ actual <= amount /\ phase' = "settling"
          /\ amount' = actual /\ remaining' = actual
          /\ queue' = Ordered({b \in Ids : taken[b] > 0})
          /\ rows' = rows /\ taken' = taken /\ settled' = settled
      BY <1>4 DEF SettleBegins
    <2>2. settled = Nothing /\ Total(taken) = amount /\ actual \in Nat
      BY <2>1, AllocationLoopAssumption DEF LoopsInv
    <2>3. PICK S : S = {b \in Ids : taken[b] > 0}
      OBVIOUS
    <2>4. Ranked(rows, S)
      BY <1>1, <2>3, TablesRanked
    <2>5. PICK q : q = Ordered(S)
      OBVIOUS
    <2>6. InOrder(rows, q) /\ Left(q) = S
      BY <2>4, <2>5, OrderedLists
    <2>7. \A b \in Ids \ Left(q) : taken[b] = 0
      BY <1>1, <2>3, <2>6
    <2>8. Spreading(rows, taken, actual, q, actual, Nothing)
      BY <1>1, <2>2, <2>6, <2>7, SpreadStarts DEF Nothing
    <2>9. queue' = q /\ settled' = Nothing
      BY <2>1, <2>2, <2>3, <2>5
    <2>10. Spreading(rows, taken, amount, queue, remaining, settled)'
      <3>1. PICK none : none = Nothing
        OBVIOUS
      <3>2. /\ rows' = rows /\ taken' = taken /\ amount' = actual /\ queue' = q
            /\ remaining' = actual /\ settled' = none
        BY <2>1, <2>9, <3>1
      <3>3. Spreading(rows, taken, actual, q, actual, none)
        BY <2>8, <3>1
      <3>4. InOrder(rows, queue)' /\ Left(queue)' = Left(q)
        BY <3>2, <3>3 DEF Spreading, InOrder, Left
      <3> QED BY <3>2, <3>3, <3>4 DEF Spreading
    <2>11. (amount <= Total(taken))'
      BY <2>1, <2>2
    <2>12. (rows \in BucketTables /\ amount \in Nat /\ taken \in [Ids -> Nat])'
      BY <1>1, <2>1, <2>2
    <2> QED BY <2>1, <2>10, <2>11, <2>12 DEF LoopsInv
  <1>5. CASE SettleBucket
    <2>1. PICK b : b = Head(queue)
      OBVIOUS
    <2>2. Spreading(rows, taken, amount, queue, remaining, settled) /\ queue # <<>>
          /\ amount <= Total(taken)
      BY <1>5 DEF SettleBucket, LoopsInv
    <2>3. b \in Ids /\ taken[b] \in Nat /\ remaining \in Nat
      BY <1>1, <2>1, <2>2, TailInOrder DEF Spreading
    <2>4. PICK give : give = SettleAmount(b)
      OBVIOUS
    <2>5. give = IF taken[b] < remaining THEN taken[b] ELSE remaining
      BY <2>3, <2>4 DEF SettleAmount
    <2>6. Spreading(rows, taken, amount, Tail(queue), remaining - give,
                    [settled EXCEPT ![b] = give])
      BY <1>1, <2>1, <2>2, <2>5, SpreadStep
    <2>7. /\ settled' = [settled EXCEPT ![b] = give] /\ remaining' = remaining - give
          /\ queue' = Tail(queue) /\ rows' = rows /\ amount' = amount /\ taken' = taken
          /\ phase' = "settling"
      BY <1>5, <2>1, <2>4 DEF SettleBucket
    <2>8. Spreading(rows, taken, amount, queue, remaining, settled)'
      BY <2>6, <2>7 DEF Spreading, InOrder, Left
    <2> QED BY <1>1, <2>2, <2>7, <2>8 DEF LoopsInv
  <1>6. CASE SettleEnds
    <2>1. /\ Spreading(rows, taken, amount, queue, remaining, settled) /\ queue = <<>>
          /\ amount <= Total(taken)
          /\ UNCHANGED <<rows, amount, queue, remaining, taken, settled>>
          /\ phase' = "settled"
      BY <1>6 DEF SettleEnds, LoopsInv
    <2>2. remaining \in Nat /\ Total(taken) \in Nat
      BY <1>1, <2>1, TotalType DEF Spreading
    <2>3. ~(remaining > 0)
      BY <1>1, <2>1, <2>2, SpreadEnds
    <2>4. GreedySplits(rows, taken, amount) = {settled}
      BY <1>1, <2>1, <2>2, <2>3, SpreadEnds
    <2> QED BY <1>1, <2>1, <2>4 DEF LoopsInv
  <1>7. CASE UNCHANGED allocationVars
    <2>1. UNCHANGED <<rows, amount, queue, remaining, taken, settled, phase>>
      BY <1>7 DEF allocationVars
    <2>2. LoopCap' = LoopCap
      BY <2>1 DEF LoopCap
    <2>3. /\ Spreading(rows, LoopCap, amount, queue, remaining, taken)' =
               Spreading(rows, LoopCap, amount, queue, remaining, taken)
          /\ Spreading(rows, taken, amount, queue, remaining, settled)' =
               Spreading(rows, taken, amount, queue, remaining, settled)
      BY <2>1, <2>2 DEF Spreading, InOrder, Left
    <2>4. /\ GreedySplits(rows, LoopCap, amount)' = GreedySplits(rows, LoopCap, amount)
          /\ GreedySplits(rows, taken, amount)' = GreedySplits(rows, taken, amount)
          /\ Total(taken)' = Total(taken)
      BY <2>1, <2>2
    <2> QED BY <2>1, <2>3, <2>4 DEF LoopsInv, Nothing
  <1> QED BY <1>2, <1>3, <1>4, <1>5, <1>6, <1>7 DEF AllocationNext

(* The plan loop returns the one greedy split, or null exactly when the    *)
(* buckets together do not have the amount; the settle loop charges the    *)
(* greedy split of the actual cost over what is held.                      *)
THEOREM LoopsSplitGreedily == AllocationSpec => []LoopsAreGreedy
  <1>1. LoopsInv => LoopsAreGreedy
    BY DEF LoopsInv, LoopsAreGreedy
  <1> QED BY <1>1, LoopsInitInv, LoopsNextInv, PTL DEF AllocationSpec

-----------------------------------------------------------------------------
(* The budget of an answer.                                                *)

LEMMA CeilingBounds ==
  ASSUME NEW n \in Nat, NEW d \in Nat \ {0}
  PROVE  /\ Ceiling(n, d) \in Nat
         /\ n <= Ceiling(n, d) * d
         /\ Ceiling(n, d) * d < n + d
<1> DEFINE x == n + d - 1
<1>1. x \in Nat
  OBVIOUS
<1>2. x \div d \in Int /\ (x \div d) * d <= x /\ x < (x \div d) * d + d
  BY <1>1, Z3
<1>3. x \div d >= 0
  BY <1>1, Z3
<1>4. (x \div d) * d \in Int
  BY <1>2
<1> QED
  BY <1>1, <1>2, <1>3, <1>4 DEF Ceiling

LEMMA ProductGrows ==
  ASSUME NEW a \in Nat, NEW b \in Nat, NEW c \in Nat, a <= b
  PROVE  a * c <= b * c /\ c * a <= c * b /\ a * c \in Nat /\ b * c \in Nat
<1> DEFINE k == b - a
<1>1. k \in Nat /\ b = a + k
  OBVIOUS
<1>2. a * c \in Nat /\ k * c \in Nat
  BY <1>1, Z3
<1> HIDE DEF k
<1>3. b * c = a * c + k * c
  BY <1>1, Z3
<1>4. c * a = a * c /\ c * b = b * c
  BY Z3
<1> QED
  BY <1>2, <1>3, <1>4

\* A quotient of at least q.
LEMMA CeilingAbove ==
  ASSUME NEW n \in Nat, NEW d \in Nat \ {0}, NEW q \in Int, q * d < n + d
  PROVE  q <= Ceiling(n, d)
<1> DEFINE c == Ceiling(n, d)
<1>1. c \in Nat /\ n <= c * d
  BY CeilingBounds
<1> HIDE DEF c
<1>2. SUFFICES ASSUME c + 1 <= q PROVE FALSE
  BY <1>1 DEF c
<1>3. (c + 1) * d <= q * d
  BY <1>1, <1>2, ProductGrows
<1>4. (c + 1) * d = c * d + d
  BY <1>1, SMTT(20)
<1>5. c * d \in Nat /\ q * d \in Int
  BY <1>1, SMTT(20)
<1> QED
  BY <1>1, <1>2, <1>3, <1>4, <1>5

LEMMA CeilingMonotone ==
  ASSUME NEW m \in Nat, NEW n \in Nat, m <= n, NEW d \in Nat \ {0}
  PROVE  Ceiling(m, d) <= Ceiling(n, d)
<1>1. Ceiling(m, d) \in Nat /\ Ceiling(m, d) * d < m + d
  BY CeilingBounds
<1>2. Ceiling(m, d) * d \in Int
  BY <1>1
<1>3. Ceiling(m, d) * d < n + d
  BY <1>1, <1>2
<1> QED
  BY <1>1, <1>3, CeilingAbove

\* Three costs rounded one by one are at most two above their sum's.
LEMMA CeilingSum ==
  ASSUME NEW a \in Nat, NEW b \in Nat, NEW c \in Nat, NEW d \in Nat \ {0}
  PROVE  Ceiling(a, d) + Ceiling(b, d) + Ceiling(c, d) <= Ceiling(a + b + c, d) + 2
<1> DEFINE p == Ceiling(a, d)
           q == Ceiling(b, d)
           r == Ceiling(c, d)
<1>1. p \in Nat /\ q \in Nat /\ r \in Nat /\ p * d < a + d /\ q * d < b + d /\ r * d < c + d
  BY CeilingBounds
<1>2. a + b + c \in Nat /\ Ceiling(a + b + c, d) \in Nat
  <2>1. a + b + c \in Nat
    OBVIOUS
  <2> QED
    BY <2>1, CeilingBounds
<1> HIDE DEF p, q, r
<1>3. (p + q + r - 2) * d = p * d + q * d + r * d - 2 * d
  BY <1>1, Z3
<1>4. p * d \in Int /\ q * d \in Int /\ r * d \in Int
  BY <1>1
<1>5. (p + q + r - 2) * d < (a + b + c) + d
  BY <1>1, <1>3, <1>4
<1>6. p + q + r - 2 <= Ceiling(a + b + c, d)
  <2>1. p + q + r - 2 \in Int
    BY <1>1
  <2> QED
    BY <1>2, <1>5, <2>1, CeilingAbove
<1> QED
  BY <1>1, <1>2, <1>6 DEF p, q, r

LEMMA CeilingExact ==
  ASSUME NEW k \in Nat, NEW d \in Nat \ {0}
  PROVE  Ceiling(k * d, d) = k
<1>1. k * d \in Nat
  BY ProductGrows
<1>2. k <= Ceiling(k * d, d)
  BY <1>1, CeilingAbove
<1> DEFINE c == Ceiling(k * d, d)
<1>3. c \in Nat /\ c * d < k * d + d
  BY <1>1, CeilingBounds
<1> HIDE DEF c
<1>4. SUFFICES ASSUME k + 1 <= c PROVE FALSE
  BY <1>2, <1>3 DEF c
<1>5. (k + 1) * d <= c * d
  BY <1>3, <1>4, ProductGrows
<1>6. (k + 1) * d = k * d + d
  BY Z3
<1>7. c * d \in Int
  BY <1>3
<1> QED
  BY <1>1, <1>3, <1>5, <1>6, <1>7

LEMMA TokenCosts ==
  ASSUME NEW m \in Nat, NEW n \in Nat, m <= n, NEW price \in Nat
  PROVE  /\ m * price \in Nat /\ n * price \in Nat /\ m * price <= n * price
         /\ tokenCostMicroRub(m, price) \in Nat /\ tokenCostMicroRub(n, price) \in Nat
         /\ tokenCostMicroRub(m, price) <= tokenCostMicroRub(n, price)
<1>1. m * price \in Nat /\ n * price \in Nat /\ m * price <= n * price
  BY ProductGrows
<1> QED
  BY <1>1, CeilingBounds, CeilingMonotone, BudgetAssumption DEF tokenCostMicroRub

\* The safety margin raises a cost, and a larger one at least as high.
LEMMA MarginRaises ==
  ASSUME NEW m \in Nat, NEW n \in Nat, m <= n, NEW safety \in Nat
  PROVE  /\ applySafetyMargin(m, safety) \in Nat
         /\ m <= applySafetyMargin(m, safety)
         /\ applySafetyMargin(m, safety) <= applySafetyMargin(n, safety)
<1> DEFINE whole == PerWhole + safety
<1>1. PerWhole \in Nat \ {0} /\ whole \in Nat /\ PerWhole <= whole
  BY BudgetAssumption
<1> HIDE DEF whole
<1>2. m * whole \in Nat /\ n * whole \in Nat /\ m * whole <= n * whole
  BY <1>1, ProductGrows
<1>3. m * PerWhole \in Nat /\ m * PerWhole <= m * whole
  BY <1>1, ProductGrows
<1>4. m * PerWhole < m * whole + PerWhole
  BY <1>1, <1>2, <1>3
<1>5. m <= Ceiling(m * whole, PerWhole)
  BY <1>1, <1>2, <1>4, CeilingAbove
<1>6. /\ Ceiling(m * whole, PerWhole) \in Nat
      /\ Ceiling(m * whole, PerWhole) <= Ceiling(n * whole, PerWhole)
  BY <1>1, <1>2, CeilingBounds, CeilingMonotone
<1> QED
  BY <1>5, <1>6 DEF applySafetyMargin, whole

BudgetInput ==
  [preferred : Nat \ {0}, minimum : Nat \ {0}, modelMax : Nat \ {0}, tokens : Nat,
   available : Int, maxReservation : Int, price : Prices, safety : Nat]

\* The dearest a token of input can be.
InputPrice == Larger(ask.price.input, ask.price.read) + ask.price.write

LEMMA PricesAreNat ==
  ASSUME ask \in BudgetInput
  PROVE  /\ ask.tokens \in Nat /\ ask.safety \in Nat
         /\ DOMAIN ask.price = {"input", "output", "read", "write"}
         /\ ask.price.input \in Nat /\ ask.price.output \in Nat
         /\ ask.price.read \in Nat /\ ask.price.write \in Nat
         /\ InputPrice \in Nat
         /\ ask.price.input + ask.price.write <= InputPrice
         /\ ask.price.read + ask.price.write <= InputPrice
BY DEF BudgetInput, Prices, InputPrice, Larger

\* A longer answer is estimated at least as high, and never below its tokens.
LEMMA CostGrows ==
  ASSUME ask \in BudgetInput, NEW m \in Nat, NEW n \in Nat, m <= n
  PROVE  /\ Cost(m) \in Nat /\ Cost(n) \in Nat /\ 1 <= Cost(m) /\ Cost(m) <= Cost(n)
         /\ tokenCostMicroRub(ask.tokens, InputPrice)
              + tokenCostMicroRub(m, ask.price.output) <= Cost(m)
<1>1. /\ ask.tokens \in Nat /\ ask.safety \in Nat /\ InputPrice \in Nat
      /\ ask.price.output \in Nat
  BY PricesAreNat
<1> DEFINE in == tokenCostMicroRub(ask.tokens, InputPrice)
           shorter == in + tokenCostMicroRub(m, ask.price.output)
           longer == in + tokenCostMicroRub(n, ask.price.output)
<1>2. in \in Nat
  <2>1. ask.tokens <= ask.tokens
    BY <1>1
  <2> QED
    BY <1>1, <2>1, TokenCosts
<1>3. /\ tokenCostMicroRub(m, ask.price.output) \in Nat
      /\ tokenCostMicroRub(n, ask.price.output) \in Nat
      /\ tokenCostMicroRub(m, ask.price.output) <= tokenCostMicroRub(n, ask.price.output)
  BY <1>1, TokenCosts
<1>4. shorter \in Nat /\ longer \in Nat /\ shorter <= longer
  BY <1>2, <1>3
<1>5. /\ Cost(m) = Larger(1, applySafetyMargin(shorter, ask.safety))
      /\ Cost(n) = Larger(1, applySafetyMargin(longer, ask.safety))
  BY DEF Cost, estimateReservationMicroRub, InputPrice
<1> HIDE DEF shorter, longer
<1>6. /\ applySafetyMargin(shorter, ask.safety) \in Nat
      /\ shorter <= applySafetyMargin(shorter, ask.safety)
      /\ applySafetyMargin(shorter, ask.safety) <= applySafetyMargin(longer, ask.safety)
  BY <1>1, <1>4, MarginRaises
<1>7. applySafetyMargin(longer, ask.safety) \in Nat
  <2>1. longer <= longer
    BY <1>4
  <2> QED
    BY <1>1, <1>4, <2>1, MarginRaises
<1>8. /\ Cost(m) \in Nat /\ Cost(n) \in Nat /\ 1 <= Cost(m) /\ Cost(m) <= Cost(n)
      /\ shorter <= Cost(m)
  BY <1>4, <1>5, <1>6, <1>7 DEF Larger
<1> QED
  BY <1>8 DEF shorter

\* Cached or not, read or written, the input used is within the one estimated.
LEMMA InputWithinEstimate ==
  ASSUME NEW pi \in Nat, NEW pr \in Nat, NEW pw \in Nat, NEW top \in Nat,
         pi + pw <= top, pr + pw <= top, NEW tokens \in Nat,
         NEW input \in 0..tokens, NEW read \in 0..input, NEW write \in 0..input
  PROVE  /\ (input - read) * pi \in Nat /\ read * pr \in Nat /\ write * pw \in Nat
         /\ tokens * top \in Nat
         /\ (input - read) * pi + read * pr + write * pw <= tokens * top
<1> DEFINE fresh == input - read
           base == top - pw
<1>1. /\ fresh \in Nat /\ base \in Nat /\ pi <= base /\ pr <= base
      /\ input = fresh + read /\ top = base + pw /\ read \in Nat /\ write \in Nat
      /\ input \in Nat /\ write <= input /\ input <= tokens
  OBVIOUS
<1> HIDE DEF base, fresh
<1>2. /\ fresh * pi \in Nat /\ fresh * base \in Nat /\ fresh * pi <= fresh * base
      /\ read * pr \in Nat /\ read * base \in Nat /\ read * pr <= read * base
  <2>1. fresh * pi <= fresh * base /\ read * pr <= read * base
    BY <1>1, ProductGrows
  <2>2. fresh * pi \in Nat /\ fresh * base \in Nat /\ read * pr \in Nat /\ read * base \in Nat
    BY <1>1, Z3
  <2> QED
    BY <2>1, <2>2
<1>3. write * pw \in Nat /\ input * pw \in Nat /\ write * pw <= input * pw
  BY <1>1, ProductGrows
<1>4. input * base = fresh * base + read * base
  BY <1>1, Z3
<1>5. input * top = input * base + input * pw
  BY <1>1, Z3
<1>6. input * top \in Nat /\ tokens * top \in Nat /\ input * top <= tokens * top
  BY <1>1, ProductGrows
<1>7. fresh * pi + read * pr + write * pw <= tokens * top
  BY <1>2, <1>3, <1>4, <1>5, <1>6
<1> QED
  BY <1>2, <1>3, <1>6, <1>7 DEF fresh

\* At whole prices nothing is rounded.
LEMMA WholePrices ==
  ASSUME NEW x \in Nat, NEW price \in Nat, NEW d \in Nat \ {0}, price % d = 0
  PROVE  \E k \in Nat : x * price = k * d
<1>1. PICK q \in Int : price = q * d
  BY Z3
<1>2. q >= 0
  <2>1. SUFFICES ASSUME q <= -1 PROVE FALSE
    BY <1>1
  <2>2. q * d <= -d
    BY <2>1, <1>1, Z3
  <2> QED
    BY <1>1, <2>2
<1>3. x * q \in Nat /\ x * price = (x * q) * d
  BY <1>1, <1>2, Z3
<1> QED
  BY <1>3

LEMMA WholeSum ==
  ASSUME NEW i \in Nat, NEW j \in Nat, NEW k \in Nat, NEW d \in Nat \ {0}
  PROVE  Ceiling(i * d, d) + Ceiling(j * d, d) + Ceiling(k * d, d)
           = Ceiling(i * d + j * d + k * d, d)
<1>1. Ceiling(i * d, d) = i /\ Ceiling(j * d, d) = j /\ Ceiling(k * d, d) = k
  BY CeilingExact
<1>2. i * d + j * d + k * d = (i + j + k) * d
  BY Z3
<1>3. i + j + k \in Nat
  OBVIOUS
<1>4. Ceiling((i + j + k) * d, d) = i + j + k
  BY <1>3, CeilingExact
<1> QED
  BY <1>1, <1>2, <1>4

WholePrice == \A k \in DOMAIN ask.price : ask.price[k] % PerMillion = 0

\* What is billed within the funded tokens is within what was reserved for them.
LEMMA BillWithinEstimate ==
  ASSUME ask \in BudgetInput, NEW most \in Nat, NEW input \in 0..ask.tokens,
         NEW output \in 0..most, NEW read \in 0..input, NEW write \in 0..input
  PROVE  /\ providerCostFromUsage(input, output, read, write) \in Nat
         /\ providerCostFromUsage(input, output, read, write) <= Cost(most) + 2
         /\ WholePrice => providerCostFromUsage(input, output, read, write) <= Cost(most)
<1> DEFINE a == (input - read) * ask.price.input
           b == read * ask.price.read
           c == write * ask.price.write
           t == ask.tokens * InputPrice
           d == PerMillion
           answer == tokenCostMicroRub(output, ask.price.output)
           longest == tokenCostMicroRub(most, ask.price.output)
<1>1. d \in Nat \ {0}
  BY BudgetAssumption
<1>2. a \in Nat /\ b \in Nat /\ c \in Nat /\ t \in Nat /\ a + b + c <= t
  BY PricesAreNat, InputWithinEstimate
<1>3. answer \in Nat /\ longest \in Nat /\ answer <= longest
  <2>1. output \in Nat /\ output <= most
    OBVIOUS
  <2> QED
    BY <2>1, PricesAreNat, TokenCosts
<1>4. providerCostFromUsage(input, output, read, write)
        = Ceiling(a, d) + Ceiling(b, d) + Ceiling(c, d) + answer
  <2>1. Ceiling(a, d) \in Nat /\ Ceiling(b, d) \in Nat /\ Ceiling(c, d) \in Nat
    BY <1>1, <1>2, CeilingBounds
  <2>2. providerCostFromUsage(input, output, read, write)
          = Ceiling(a, d) + answer + Ceiling(b, d) + Ceiling(c, d)
    BY DEF providerCostFromUsage, tokenCostMicroRub
  <2> QED
    BY <1>3, <2>1, <2>2
<1>5. Ceiling(t, d) + longest <= Cost(most) /\ Cost(most) \in Nat
  <2>1. most <= most
    OBVIOUS
  <2> QED
    BY <2>1, CostGrows DEF tokenCostMicroRub
<1>6. WholePrice => Ceiling(a, d) + Ceiling(b, d) + Ceiling(c, d) = Ceiling(a + b + c, d)
  <2>1. SUFFICES ASSUME WholePrice
                 PROVE  Ceiling(a, d) + Ceiling(b, d) + Ceiling(c, d) = Ceiling(a + b + c, d)
    OBVIOUS
  <2>2. /\ ask.price.input % d = 0 /\ ask.price.read % d = 0 /\ ask.price.write % d = 0
    BY <2>1, PricesAreNat DEF WholePrice
  <2>3. input - read \in Nat /\ read \in Nat /\ write \in Nat
    BY PricesAreNat
  <2> HIDE DEF d
  <2>4. PICK i \in Nat : a = i * d
    <3>1. ask.price.input \in Nat
      BY PricesAreNat
    <3> QED
      BY <1>1, <2>2, <2>3, <3>1, WholePrices, ZenonT(30)
  <2>5. PICK j \in Nat : b = j * d
    <3>1. ask.price.read \in Nat
      BY PricesAreNat
    <3> QED
      BY <1>1, <2>2, <2>3, <3>1, WholePrices, ZenonT(30)
  <2>6. PICK k \in Nat : c = k * d
    <3>1. ask.price.write \in Nat
      BY PricesAreNat
    <3> QED
      BY <1>1, <2>2, <2>3, <3>1, WholePrices, ZenonT(30)
  <2> HIDE DEF a, b, c, d
  <2>7. Ceiling(i * d, d) + Ceiling(j * d, d) + Ceiling(k * d, d)
          = Ceiling(i * d + j * d + k * d, d)
    BY <1>1, WholeSum
  <2> QED
    BY <2>4, <2>5, <2>6, <2>7
<1> HIDE DEF a, b, c, t, d, answer, longest
<1>7. /\ Ceiling(a, d) \in Nat /\ Ceiling(b, d) \in Nat /\ Ceiling(c, d) \in Nat
      /\ Ceiling(a, d) + Ceiling(b, d) + Ceiling(c, d) <= Ceiling(a + b + c, d) + 2
  BY <1>1, <1>2, CeilingBounds, CeilingSum
<1>8. a + b + c \in Nat
  BY <1>2
<1>9. /\ Ceiling(a + b + c, d) \in Nat /\ Ceiling(t, d) \in Nat
      /\ Ceiling(a + b + c, d) <= Ceiling(t, d)
  BY <1>1, <1>2, <1>8, CeilingBounds, CeilingMonotone
<1> QED
  BY <1>3, <1>4, <1>5, <1>6, <1>7, <1>9

\* The bounds of the search: everything above high is too dear, and what is
\* chosen is affordable and the last one below low.
BudgetInv ==
  /\ ask \in BudgetInput
  /\ verdict \in {"asked", "searching", "FUNDED", "INSUFFICIENT_USAGE", "REQUEST_COST_LIMIT"}
  /\ low \in Nat /\ high \in Int /\ chosen \in Nat /\ billed \in Int
  /\ verdict = "asked" =>
       /\ low = minimumOutputTokens /\ high = preferredOutputTokens
       /\ chosen = minimumOutputTokens
  /\ verdict = "searching" =>
       /\ minimumOutputTokens <= low /\ high <= preferredOutputTokens
       /\ chosen \in Affordable /\ low <= chosen + 1
       /\ \A n \in Affordable : n <= high
  /\ verdict = "FUNDED" => chosen \in Affordable /\ \A n \in Affordable : n <= chosen
  /\ verdict \in {"INSUFFICIENT_USAGE", "REQUEST_COST_LIMIT"} => Affordable = {}
  /\ verdict # "FUNDED" => billed = -1
  /\ billed <= Cost(chosen) + (IF WholePrice THEN 0 ELSE 2)

LEMMA LimitsOrdered ==
  ASSUME ask \in BudgetInput
  PROVE  /\ minimumOutputTokens \in Nat /\ preferredOutputTokens \in Nat
         /\ minimumOutputTokens <= preferredOutputTokens
         /\ spendCeiling \in Int
         /\ spendCeiling <= ask.available /\ spendCeiling <= ask.maxReservation
         /\ spendCeiling = ask.available \/ spendCeiling = ask.maxReservation
         /\ ask.available \in Int /\ ask.maxReservation \in Int
BY DEF BudgetInput, minimumOutputTokens, preferredOutputTokens, spendCeiling, Smaller

\* When an answer is too dear, so is every longer one.
LEMMA DearerStaysOut ==
  ASSUME ask \in BudgetInput, NEW m \in Nat, Cost(m) > spendCeiling
  PROVE  \A n \in Affordable : n < m
<1> SUFFICES ASSUME NEW n \in Affordable, m <= n PROVE FALSE
  BY LimitsOrdered DEF Affordable
<1>1. n \in Nat /\ Cost(n) <= spendCeiling
  BY LimitsOrdered DEF Affordable
<1>2. Cost(m) \in Nat /\ Cost(n) \in Nat /\ Cost(m) <= Cost(n)
  BY <1>1, CostGrows
<1> QED
  BY <1>1, <1>2, LimitsOrdered

\* Nothing was billed yet, and every estimate is positive.
LEMMA NothingBilled ==
  ASSUME ask \in BudgetInput, NEW n \in Nat
  PROVE  -1 <= Cost(n) + (IF WholePrice THEN 0 ELSE 2)
<1>1. Cost(n) \in Nat
  <2>1. n <= n
    OBVIOUS
  <2> QED
    BY <2>1, CostGrows
<1> QED
  BY <1>1

LEMMA BudgetInitInv == BudgetInit => BudgetInv
<1> SUFFICES ASSUME BudgetInit PROVE BudgetInv
  OBVIOUS
<1>1. ask \in BudgetInput
  BY BudgetAssumption DEF BudgetInit, BudgetInput
<1>2. low \in Nat /\ high \in Int /\ chosen \in Nat
  BY <1>1, LimitsOrdered DEF BudgetInit
<1>3. billed <= Cost(chosen) + (IF WholePrice THEN 0 ELSE 2)
  BY <1>1, <1>2, NothingBilled DEF BudgetInit
<1> QED
  BY <1>1, <1>2, <1>3 DEF BudgetInit, BudgetInv

LEMMA ResolveKeeps ==
  ASSUME BudgetInv, resolveAiExecutionBudget PROVE BudgetInv'
<1>1. ask \in BudgetInput /\ ask' = ask /\ low' = low /\ high' = high /\ billed' = billed
      /\ billed = -1 /\ low = minimumOutputTokens /\ high = preferredOutputTokens
      /\ chosen = minimumOutputTokens
      /\ low \in Nat /\ high \in Int /\ chosen \in Nat
  BY DEF BudgetInv, resolveAiExecutionBudget
<1>2. /\ Affordable' = Affordable /\ minimumOutputTokens' = minimumOutputTokens
      /\ preferredOutputTokens' = preferredOutputTokens /\ WholePrice' = WholePrice
  BY <1>1 DEF Affordable, Cost, spendCeiling, minimumOutputTokens, preferredOutputTokens, WholePrice
<1> DEFINE least == minimumOutputTokens
           most == preferredOutputTokens
<1>3. least \in Nat /\ most \in Nat /\ least <= most
  BY <1>1, LimitsOrdered
<1>4. Cost(least) \in Nat /\ 1 <= Cost(least)
  BY <1>1, <1>3, CostGrows
<1>5. spendCeiling \in Int /\ \A n \in Affordable : n \in least..most
  BY <1>1, LimitsOrdered DEF Affordable
<1> HIDE DEF least, most
<1>6. Cost(least) > spendCeiling => Affordable = {}
  <2>1. SUFFICES ASSUME Cost(least) > spendCeiling, NEW n \in Affordable PROVE FALSE
    OBVIOUS
  <2>2. n < least
    BY <1>1, <1>3, <2>1, DearerStaysOut
  <2> QED
    BY <1>3, <1>5, <2>2
<1>7. CASE verdict' \in {"INSUFFICIENT_USAGE", "REQUEST_COST_LIMIT"}
  <2>1. chosen' = chosen
    BY <1>7 DEF resolveAiExecutionBudget
  <2>2. \/ ask.maxReservation <= 0 \/ ask.available <= 0
        \/ Cost(least) > ask.maxReservation \/ Cost(least) > ask.available
    BY <1>7 DEF resolveAiExecutionBudget, least
  <2>3. Cost(least) > spendCeiling
    BY <1>1, <1>4, <2>2, LimitsOrdered
  <2>4. (billed <= Cost(chosen) + (IF WholePrice THEN 0 ELSE 2))'
    BY <1>1, <1>2, <2>1, NothingBilled DEF Cost
  <2> QED
    BY <1>1, <1>2, <1>6, <1>7, <2>1, <2>3, <2>4 DEF BudgetInv
<1>8. CASE verdict' \in {"FUNDED", "searching"}
  <2>1. /\ ~(ask.maxReservation <= 0) /\ ~(ask.available <= 0)
        /\ ~(Cost(least) > ask.maxReservation) /\ ~(Cost(least) > ask.available)
        /\ verdict' = IF Cost(most) <= spendCeiling THEN "FUNDED" ELSE "searching"
    BY <1>1, <1>8, LimitsOrdered DEF resolveAiExecutionBudget, least, most
  <2>2. least \in Affordable
    BY <1>1, <1>3, <1>4, <2>1, LimitsOrdered DEF Affordable, least, most
  <2>3. CASE verdict' = "FUNDED"
    <3>1. chosen' = most /\ Cost(most) <= spendCeiling
      BY <2>1, <2>3 DEF resolveAiExecutionBudget, most
    <3>2. most \in Affordable
      BY <1>3, <3>1 DEF Affordable, least, most
    <3>3. (billed <= Cost(chosen) + (IF WholePrice THEN 0 ELSE 2))'
      BY <1>1, <1>2, <1>3, <3>1, NothingBilled DEF Cost
    <3> QED
      BY <1>1, <1>2, <1>3, <1>5, <2>3, <3>1, <3>2, <3>3 DEF BudgetInv
  <2>4. CASE verdict' = "searching"
    <3>1. chosen' = chosen /\ chosen = least /\ low = least /\ high = most
      BY <1>1, <2>4 DEF resolveAiExecutionBudget, least, most
    <3>3. (billed <= Cost(chosen) + (IF WholePrice THEN 0 ELSE 2))'
      BY <1>1, <1>2, <3>1, NothingBilled DEF Cost
    <3> QED
      BY <1>1, <1>2, <1>3, <1>5, <2>2, <2>4, <3>1, <3>3 DEF BudgetInv, least, most
  <2> QED
    BY <1>8, <2>3, <2>4
<1> QED
  BY <1>7, <1>8 DEF resolveAiExecutionBudget

LEMMA SearchKeeps ==
  ASSUME BudgetInv, SearchBudget PROVE BudgetInv'
<1>1. /\ ask \in BudgetInput /\ ask' = ask /\ billed' = billed /\ billed = -1
      /\ verdict = "searching" /\ low \in Nat /\ high \in Int /\ chosen \in Nat
      /\ minimumOutputTokens <= low /\ high <= preferredOutputTokens
      /\ chosen \in Affordable /\ low <= chosen + 1
      /\ \A n \in Affordable : n <= high
  BY DEF BudgetInv, SearchBudget
<1>2. /\ Affordable' = Affordable /\ minimumOutputTokens' = minimumOutputTokens
      /\ preferredOutputTokens' = preferredOutputTokens /\ WholePrice' = WholePrice
  BY <1>1 DEF Affordable, Cost, spendCeiling, minimumOutputTokens, preferredOutputTokens, WholePrice
<1>3. /\ minimumOutputTokens \in Nat /\ preferredOutputTokens \in Nat
      /\ Affordable \subseteq Nat
  BY <1>1, LimitsOrdered DEF Affordable
<1>4. CASE low > high
  <2>1. verdict' = "FUNDED" /\ low' = low /\ high' = high /\ chosen' = chosen
    BY <1>4 DEF SearchBudget
  <2>2. \A n \in Affordable : n <= chosen
    BY <1>1, <1>3, <1>4
  <2>3. (billed <= Cost(chosen) + (IF WholePrice THEN 0 ELSE 2))'
    BY <1>1, <1>2, <2>1, NothingBilled DEF Cost
  <2> QED
    BY <1>1, <1>2, <2>1, <2>2, <2>3 DEF BudgetInv
<1>5. CASE ~(low > high)
  <2> DEFINE candidate == Candidate
  <2>1. candidate \in Nat /\ low <= candidate /\ candidate <= high
    BY <1>1, <1>5 DEF Candidate
  <2>2. verdict' = verdict
    BY <1>5 DEF SearchBudget
  <2>3. CASE Cost(candidate) <= spendCeiling
    <3>1. chosen' = candidate /\ low' = candidate + 1 /\ high' = high
      BY <1>5, <2>3 DEF SearchBudget
    <3> HIDE DEF candidate
    <3>2. candidate \in Affordable
      BY <1>1, <1>3, <2>1, <2>3 DEF Affordable
    <3>3. (billed <= Cost(chosen) + (IF WholePrice THEN 0 ELSE 2))'
      BY <1>1, <1>2, <2>1, <3>1, NothingBilled DEF Cost
    <3>4. minimumOutputTokens <= candidate + 1
      BY <1>1, <1>3, <2>1
    <3> QED
      BY <1>1, <1>2, <2>1, <2>2, <3>1, <3>2, <3>3, <3>4 DEF BudgetInv
  <2>4. CASE ~(Cost(candidate) <= spendCeiling)
    <3>1. chosen' = chosen /\ low' = low /\ high' = candidate - 1
      BY <1>5, <2>4 DEF SearchBudget
    <3> HIDE DEF candidate
    <3>2. Cost(candidate) \in Nat /\ spendCeiling \in Int
      <4>1. candidate <= candidate
        BY <2>1
      <4> QED
        BY <1>1, <2>1, <4>1, CostGrows, LimitsOrdered
    <3>3. \A n \in Affordable : n < candidate
      BY <1>1, <2>1, <2>4, <3>2, DearerStaysOut
    <3>4. (\A n \in Affordable : n <= high)'
      BY <1>2, <1>3, <2>1, <3>1, <3>3
    <3>5. (billed <= Cost(chosen) + (IF WholePrice THEN 0 ELSE 2))'
      BY <1>1, <1>2, <3>1, NothingBilled DEF Cost
    <3>6. candidate - 1 <= preferredOutputTokens /\ candidate - 1 \in Int
      BY <1>1, <1>3, <2>1
    <3> QED
      BY <1>1, <1>2, <2>2, <3>1, <3>4, <3>5, <3>6 DEF BudgetInv
  <2> QED
    BY <2>3, <2>4
<1> QED
  BY <1>4, <1>5

LEMMA BillKeeps ==
  ASSUME BudgetInv, ProviderBills PROVE BudgetInv'
<1>1. /\ ask \in BudgetInput /\ ask' = ask /\ low' = low /\ high' = high
      /\ chosen' = chosen /\ verdict' = verdict /\ verdict = "FUNDED" /\ chosen \in Nat
  BY DEF BudgetInv, ProviderBills
<1>2. /\ Affordable' = Affordable /\ minimumOutputTokens' = minimumOutputTokens
      /\ preferredOutputTokens' = preferredOutputTokens /\ WholePrice' = WholePrice
      /\ Cost(chosen)' = Cost(chosen)
  BY <1>1 DEF Affordable, Cost, spendCeiling, minimumOutputTokens, preferredOutputTokens, WholePrice
<1>3. PICK input \in 0..ask.tokens, output \in 0..chosen :
        \E read \in 0..input, write \in 0..input :
          billed' = providerCostFromUsage(input, output, read, write)
  BY DEF ProviderBills
<1>7. PICK read \in 0..input, write \in 0..input :
        billed' = providerCostFromUsage(input, output, read, write)
  BY <1>3
<1>4. /\ providerCostFromUsage(input, output, read, write) \in Nat
      /\ providerCostFromUsage(input, output, read, write) <= Cost(chosen) + 2
      /\ WholePrice => providerCostFromUsage(input, output, read, write) <= Cost(chosen)
  BY <1>1, BillWithinEstimate
<1>5. Cost(chosen) \in Nat
  <2>1. chosen <= chosen
    BY <1>1
  <2> QED
    BY <1>1, <2>1, CostGrows
<1>6. billed' \in Int /\ billed' <= Cost(chosen)' + (IF WholePrice' THEN 0 ELSE 2)
  BY <1>2, <1>7, <1>4, <1>5
<1> QED
  BY <1>1, <1>2, <1>6 DEF BudgetInv

LEMMA BudgetNextInv == BudgetInv /\ [BudgetNext]_budgetVars => BudgetInv'
<1> SUFFICES ASSUME BudgetInv, [BudgetNext]_budgetVars PROVE BudgetInv'
  OBVIOUS
<1>1. CASE UNCHANGED budgetVars
  BY <1>1 DEF BudgetInv, budgetVars, Affordable, Cost, spendCeiling, WholePrice,
    minimumOutputTokens, preferredOutputTokens
<1> QED
  BY <1>1, ResolveKeeps, SearchKeeps, BillKeeps DEF BudgetNext

(* The search of resolveAiExecutionBudget ends at the longest answer that  *)
(* allowance and limit pay for, it refuses exactly when the minimum is not *)
(* paid for, and no bill for an answer within it exceeds the reservation   *)
(* by more than the roundings of three of its four parts can add: nothing  *)
(* at whole prices, two microRUB at others.                                *)
THEOREM BudgetsAreGreatest == BudgetSpec => []BudgetIsGreatest
<1>1. BudgetInv => BudgetIsGreatest
  BY DEF BudgetInv, BudgetIsGreatest, WholePrice
<1> QED
  BY <1>1, BudgetInitInv, BudgetNextInv, PTL DEF BudgetSpec
=============================================================================

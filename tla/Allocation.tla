------------------------------ MODULE Allocation ------------------------------
(***************************************************************************)
(* How an amount of microRUB is spread over usage buckets: the reference   *)
(* definitions behind packages/billing/src/allocation.ts and the settle    *)
(* loop of packages/billing/src/billing-engine.ts.  Loops has the loops     *)
(* themselves; UsageBilling uses the definitions of this module.           *)
(***************************************************************************)
EXTENDS Integers, FiniteSets, FiniteSetsExt

(***************************************************************************)
(* A usage_bucket row, as far as money goes.  A bucket with no expiresAt   *)
(* (every TOPUP bucket) has an expiresAt beyond every reachable time, which *)
(* is what "NULLS LAST" and "never expires" both mean.  createdAt is the   *)
(* order of creation.  type NONE: no such row.                             *)
(***************************************************************************)
BucketRows == [type : {"NONE", "MONTHLY", "TOPUP"}, total : Int, spent : Int,
               reserved : Int, expiresAt : Int, createdAt : Int]

NoBucket == [type |-> "NONE", total |-> 0, spent |-> 0, reserved |-> 0,
             expiresAt |-> 0, createdAt |-> 0]

(* Fault: what is held by others counts as available.                      *)
AvailableIgnoringHolds(row) == row.total - row.spent

availableMicroRub(row) == row.total - row.spent - row.reserved

bucketTypeRank(row) == IF row.type = "MONTHLY" THEN 0 ELSE 1

(***************************************************************************)
(* MONTHLY before TOPUP, then the earlier expiry, then the older row.  The  *)
(* ORDER BY of lockUserBuckets states the same order.                      *)
(***************************************************************************)
ComesBefore(left, right) ==
  \/ bucketTypeRank(left) < bucketTypeRank(right)
  \/ /\ bucketTypeRank(left) = bucketTypeRank(right)
     /\ \/ left.expiresAt < right.expiresAt
        \/ /\ left.expiresAt = right.expiresAt
           /\ left.createdAt < right.createdAt

Total(amounts) == MapThenSumSet(LAMBDA b : amounts[b], DOMAIN amounts)

(***************************************************************************)
(* The ways to spread amount over the buckets of rows, at most cap[b] on   *)
(* bucket b, that leave a bucket before it is full only when nothing       *)
(* remains.  There is one when the caps suffice and none when they do not. *)
(***************************************************************************)
GreedySplits(rows, cap, amount) ==
  {split \in [DOMAIN rows -> 0..amount] :
     /\ \A b \in DOMAIN rows : split[b] <= cap[b]
     /\ \A b, c \in DOMAIN rows :
          ComesBefore(rows[c], rows[b]) /\ split[b] > 0 => split[c] = cap[c]
     /\ Total(split) = amount}

===============================================================================

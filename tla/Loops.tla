-------------------------------- MODULE Loops --------------------------------
(***************************************************************************)
(* Loops of the program, one iteration a step, which the other modules use *)
(* by what they compute.                                                   *)
(*                                                                         *)
(* The two loops that spread microRUB over buckets:                        *)
(* planReservationAllocations (packages/billing/src/allocation.ts) and the *)
(* settle loop of settleUsage (packages/billing/src/billing-engine.ts),    *)
(* which settles what the plan held.  They are compared with GreedySplits, *)
(* which UsageBilling uses in their place.                                 *)
(*                                                                         *)
(* How much of an answer a request may buy: resolveAiExecutionBudget       *)
(* (packages/ai/src/execution-budget.ts), and the cost of what the         *)
(* provider then reports (packages/ai/src/cost.ts, usage.ts).  The paid    *)
(* requests of AiLedger use Funded in its place.                           *)
(*                                                                         *)
(* The readiness loop of dispatchPlan (apps/worker/src/orchestration.ts):  *)
(* passes over the invocations in sequence, each decision seen by the ones *)
(* after it, until a pass changes nothing or invocations.length + 1 passes *)
(* are done.  Orchestration uses SettledTables in its place.               *)
(***************************************************************************)
EXTENDS Allocation, Readiness, Sequences

-------------------------------------------------------------------------------
(* Allocation over buckets                                                 *)

CONSTANTS Ids,         \* bucket ids
          BucketTables,  \* the bucket tables to start from, functions on Ids
          LargestPlan    \* the largest amount to plan for

(* No two buckets are of one type, expire together and were created at the *)
(* same time.                                                              *)
ASSUME AllocationLoopAssumption ==
  /\ IsFiniteSet(Ids) /\ LargestPlan \in Nat
  /\ \A t \in BucketTables :
       /\ t \in [Ids -> BucketRows]
       /\ \A b, c \in Ids : b # c => ComesBefore(t[b], t[c]) \/ ComesBefore(t[c], t[b])

VARIABLES rows,       \* the locked buckets
          amount,     \* estimatedMicroRub, then actualMicroRub
          queue,      \* the buckets still to visit, in order
          remaining,
          taken,      \* allocations: microRUB held on each bucket
          settled,    \* microRUB charged to each bucket
          phase       \* planning, planned, refused, settling, settled

allocationVars == <<rows, amount, queue, remaining, taken, settled, phase>>

(* [...buckets].sort(compareBucketPriority), and the ORDER BY of            *)
(* lockUserBuckets for the allocations.                                    *)
Ordered(S) ==
  CHOOSE q \in [1..Cardinality(S) -> S] :
    \A i, j \in DOMAIN q : i < j => ComesBefore(rows[q[i]], rows[q[j]])

AllocationInit ==
  /\ rows \in BucketTables
  /\ amount \in 1..LargestPlan
  /\ queue = Ordered(Ids)
  /\ remaining = amount
  /\ taken = [b \in Ids |-> 0]
  /\ settled = [b \in Ids |-> 0]
  /\ phase = "planning"

(* The take of a full bucket instead of what is asked for.                 *)
TakeEverything(b) == availableMicroRub(rows[b])

Take(b) == IF availableMicroRub(rows[b]) < remaining
           THEN availableMicroRub(rows[b]) ELSE remaining

(* One bucket: skipped when nothing is available on it.                    *)
PlanBucket ==
  /\ phase = "planning" /\ queue # <<>> /\ remaining # 0
  /\ LET b == Head(queue)
     IN IF availableMicroRub(rows[b]) <= 0
        THEN UNCHANGED <<taken, remaining>>
        ELSE /\ taken' = [taken EXCEPT ![b] = Take(b)]
             /\ remaining' = remaining - Take(b)
  /\ queue' = Tail(queue)
  /\ UNCHANGED <<rows, amount, settled, phase>>

PlanEnds ==
  /\ phase = "planning" /\ (queue = <<>> \/ remaining = 0)
  /\ phase' = IF remaining > 0 THEN "refused" ELSE "planned"
  /\ UNCHANGED <<rows, amount, queue, remaining, taken, settled>>

(* settleUsage with an actual cost within the plan: orderAllocations.      *)
SettleBegins(actual) ==
  /\ phase = "planned"
  /\ actual <= amount
  /\ phase' = "settling"
  /\ amount' = actual
  /\ remaining' = actual
  /\ queue' = Ordered({b \in Ids : taken[b] > 0})
  /\ UNCHANGED <<rows, taken, settled>>

SettleAmount(b) == IF remaining < taken[b] THEN remaining ELSE taken[b]

SettleBucket ==
  /\ phase = "settling" /\ queue # <<>>
  /\ LET b == Head(queue)
     IN /\ settled' = [settled EXCEPT ![b] = SettleAmount(b)]
        /\ remaining' = remaining - SettleAmount(b)
  /\ queue' = Tail(queue)
  /\ UNCHANGED <<rows, amount, taken, phase>>

SettleEnds ==
  /\ phase = "settling" /\ queue = <<>>
  /\ phase' = "settled"
  /\ UNCHANGED <<rows, amount, queue, remaining, taken, settled>>

AllocationNext ==
  \/ PlanBucket
  \/ PlanEnds
  \/ \E actual \in 0..LargestPlan : SettleBegins(actual)
  \/ SettleBucket
  \/ SettleEnds

AllocationSpec == AllocationInit /\ [][AllocationNext]_allocationVars

-------------------------------------------------------------------------------
LoopCap == [b \in Ids |-> IF availableMicroRub(rows[b]) > 0
                          THEN availableMicroRub(rows[b]) ELSE 0]

(* planReservationAllocations returns the one greedy split of the amount,  *)
(* and null exactly when the buckets together do not have it; the settle   *)
(* loop charges the greedy split of the actual cost over what the          *)
(* reservation holds.                                                      *)
LoopsAreGreedy ==
  /\ phase = "planned" => GreedySplits(rows, LoopCap, amount) = {taken}
  /\ phase = "refused" => GreedySplits(rows, LoopCap, amount) = {}
  /\ phase = "settled" => GreedySplits(rows, taken, amount) = {settled}

-------------------------------------------------------------------------------
(* The budget of an answer                                                 *)

CONSTANTS
    PerMillion,     \* TOKENS_PER_MILLION, small
    PerWhole,       \* the 10 000 basis points of the safety margin, small
    BudgetInputs    \* the inputs to start from

Prices == [input : Nat, output : Nat, read : Nat, write : Nat]

\* What validateProfile and the assertions on the input let through.
ASSUME BudgetAssumption ==
    /\ PerMillion \in Nat \ {0} /\ PerWhole \in Nat \ {0}
    /\ BudgetInputs \subseteq
         [preferred : Nat \ {0}, minimum : Nat \ {0}, modelMax : Nat \ {0}, tokens : Nat,
          available : Int, maxReservation : Int, price : Prices, safety : Nat]

VARIABLES
    ask,        \* the input
    low,
    high,
    chosen,     \* selectedOutputTokens
    verdict,    \* searching, FUNDED, INSUFFICIENT_USAGE, REQUEST_COST_LIMIT
    billed      \* the cost of the usage the provider reported, or -1

budgetVars == <<ask, low, high, chosen, verdict, billed>>

Ceiling(n, d) == (n + d - 1) \div d

tokenCostMicroRub(tokens, price) == Ceiling(tokens * price, PerMillion)

applySafetyMargin(cost, safety) == Ceiling(cost * (PerWhole + safety), PerWhole)

Larger(a, b) == IF a < b THEN b ELSE a

Smaller(a, b) == IF a < b THEN a ELSE b

\* Every input token at the dearer of input and cached price, and written to
\* the cache as well.
estimateReservationMicroRub(input, output, price, safety) ==
    Larger(1, applySafetyMargin(
        tokenCostMicroRub(input, Larger(price.input, price.read) + price.write)
          + tokenCostMicroRub(output, price.output), safety))

Cost(output) == estimateReservationMicroRub(ask.tokens, output, ask.price, ask.safety)

preferredOutputTokens == Smaller(ask.preferred, ask.modelMax)

minimumOutputTokens == Smaller(ask.minimum, preferredOutputTokens)

spendCeiling == Smaller(ask.available, ask.maxReservation)

BudgetInit ==
    /\ ask \in BudgetInputs
    /\ low = minimumOutputTokens
    /\ high = preferredOutputTokens
    /\ chosen = minimumOutputTokens
    /\ verdict = "asked"
    /\ billed = -1

resolveAiExecutionBudget ==
    /\ verdict = "asked"
    /\ verdict' = CASE ask.maxReservation <= 0 -> "REQUEST_COST_LIMIT"
                    [] ask.maxReservation > 0 /\ ask.available <= 0 -> "INSUFFICIENT_USAGE"
                    [] OTHER ->
                       IF Cost(minimumOutputTokens) > ask.maxReservation
                       THEN "REQUEST_COST_LIMIT"
                       ELSE IF Cost(minimumOutputTokens) > ask.available
                       THEN "INSUFFICIENT_USAGE"
                       ELSE IF Cost(preferredOutputTokens) <= spendCeiling
                       THEN "FUNDED" ELSE "searching"
    /\ chosen' = IF verdict' = "FUNDED" THEN preferredOutputTokens ELSE chosen
    /\ UNCHANGED <<ask, low, high, billed>>

Candidate == low + (high - low) \div 2

(* Fault: the search gives up as soon as its bounds meet. *)
SearchStopsEarly ==
    /\ verdict = "searching"
    /\ IF low >= high
       THEN verdict' = "FUNDED" /\ UNCHANGED <<low, high, chosen>>
       ELSE /\ verdict' = verdict
            /\ IF Cost(Candidate) <= spendCeiling
               THEN chosen' = Candidate /\ low' = Candidate + 1 /\ high' = high
               ELSE high' = Candidate - 1 /\ UNCHANGED <<low, chosen>>
    /\ UNCHANGED <<ask, billed>>

SearchBudget ==
    /\ verdict = "searching"
    /\ IF low > high
       THEN verdict' = "FUNDED" /\ UNCHANGED <<low, high, chosen>>
       ELSE /\ verdict' = verdict
            /\ IF Cost(Candidate) <= spendCeiling
               THEN chosen' = Candidate /\ low' = Candidate + 1 /\ high' = high
               ELSE high' = Candidate - 1 /\ UNCHANGED <<low, chosen>>
    /\ UNCHANGED <<ask, billed>>

\* Cached input is part of the input; what is written to the cache comes on top.
providerCostFromUsage(input, output, read, write) ==
    tokenCostMicroRub(input - read, ask.price.input)
      + tokenCostMicroRub(output, ask.price.output)
      + tokenCostMicroRub(read, ask.price.read)
      + tokenCostMicroRub(write, ask.price.write)

\* The provider answers within the tokens that were funded.
ProviderBills ==
    /\ verdict = "FUNDED" /\ billed = -1
    /\ \E input \in 0..ask.tokens, output \in 0..chosen :
       \E read \in 0..input, write \in 0..input :
           billed' = providerCostFromUsage(input, output, read, write)
    /\ UNCHANGED <<ask, low, high, chosen, verdict>>

BudgetNext == resolveAiExecutionBudget \/ SearchBudget \/ ProviderBills

BudgetSpec == BudgetInit /\ [][BudgetNext]_budgetVars

-----------------------------------------------------------------------------
Affordable == {n \in minimumOutputTokens..preferredOutputTokens : Cost(n) <= spendCeiling}

\* The search buys the longest answer that allowance and limit pay for, and
\* refuses exactly when not even the minimum is paid for; and "Reserve the
\* conservative upper bound for every estimated input token": no answer within
\* the funded tokens costs more than was reserved, as long as a token costs
\* whole microRUB.  For other prices the three roundings of the bill may add
\* up to two microRUB to the one of the estimate.
BudgetIsGreatest ==
    LET exact == \A k \in DOMAIN ask.price : ask.price[k] % PerMillion = 0
    IN /\ verdict = "FUNDED" => chosen \in Affordable /\ \A n \in Affordable : n <= chosen
       /\ verdict \in {"INSUFFICIENT_USAGE", "REQUEST_COST_LIMIT"} => Affordable = {}
       /\ billed <= Cost(chosen) + (IF exact THEN 0 ELSE 2)

-------------------------------------------------------------------------------
(* Readiness of invocations                                                *)

CONSTANTS Definitions,  \* the plan definitions to start from
          Situations    \* the status and outcome tables to start from

(* A dependency leads to a step further on in some order of the steps.      *)
Acyclic(d) ==
  \E rank \in [Invocations -> Invocations] : \A x \in d.deps : rank[x.from] < rank[x.to]

ASSUME ReadinessLoopAssumption ==
  /\ Invocations = 1..Cardinality(Invocations)
  /\ \A d \in Definitions : WellFormed(d) /\ Acyclic(d)
  /\ \A s \in Situations : s.status \in [Invocations -> InvocationStatuses]

VARIABLES loopDef, before, outcomes, stateById, pass, index, changed, done

readinessVars == <<loopDef, before, outcomes, stateById, pass, index, changed, done>>

ReadinessInit ==
  /\ loopDef \in Definitions
  /\ \E s \in Situations : /\ Justified(loopDef, s.status, s.outcome)
                           /\ before = s.status
                           /\ outcomes = s.outcome
  /\ stateById = before
  /\ pass = 0 /\ index = 1 /\ changed = FALSE /\ done = FALSE

(* Invocations are 1..n here, in sequence.                                 *)
DecideOne ==
  /\ ~done /\ index \in Invocations
  /\ LET decision == decideDependencyReadiness(loopDef, index, stateById, outcomes)
     IN IF stateById[index] = "PENDING" /\ decision # "PENDING"
        THEN /\ stateById' = [stateById EXCEPT ![index] = NextStatus(loopDef, index, decision)]
             /\ changed' = TRUE
        ELSE UNCHANGED <<stateById, changed>>
  /\ index' = index + 1
  /\ UNCHANGED <<loopDef, before, outcomes, pass, done>>

(* Fault: two passes are taken to be enough.                               *)
TwoPasses == 1

(* for (pass = 0; pass <= invocations.length; pass += 1)                   *)
LastPass == Cardinality(Invocations)

EndPass ==
  /\ ~done /\ index \notin Invocations
  /\ done' = (~changed \/ pass = LastPass)
  /\ pass' = pass + 1 /\ index' = 1 /\ changed' = FALSE
  /\ UNCHANGED <<loopDef, before, outcomes, stateById>>

ReadinessNext == DecideOne \/ EndPass

ReadinessSpec == ReadinessInit /\ [][ReadinessNext]_readinessVars

(* The loop ends in the one settled table: no decision depends on the order *)
(* in which invocations are visited, and the bound on the passes never     *)
(* cuts it short.                                                          *)
LoopSettles ==
  done => SettledTables(loopDef, before, outcomes) = {stateById}
===============================================================================

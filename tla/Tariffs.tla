------------------------------ MODULE Tariffs ------------------------------
(***************************************************************************)
(* Versions of what is sold: the versions of one plan, or those of one     *)
(* policy table (top-up, payment fee, fiscalization, tax reserve,          *)
(* guardrail).  Administrators draft, edit, publish and retire them in     *)
(* concurrent calls that check a row and write it later; users check out   *)
(* the current one and are later granted what their order says.  The       *)
(* database rejects a change of the terms of a row that is not a draft.    *)
(*                                                                         *)
(* Transactions read committed rows.  Publishing is one of two statements: *)
(* the first picks the published rows, waits for those another transaction *)
(* holds and looks at them again, the second writes the draft.             *)
(***************************************************************************)
EXTENDS Integers, FiniteSets

CONSTANTS
    Versions,     \* rows
    Terms,        \* price, grant and period of a row, or the fields of a policy
    LowMargin,    \* terms whose worst case is below the target margin
    AdminCalls,   \* concurrent calls of the administration
    Shoppers,     \* concurrent checkouts
    MaxNow,       \* bound: instants the clock shows
    MaxCalls      \* bound: calls of the administration

ASSUME TariffsAssumption == LowMargin \subseteq Terms /\ MaxNow \in Nat

VARIABLES
    table,        \* "plan" or "policy"
    version,      \* the rows
    onSale,       \* Plan.active
    audited,      \* rows whose publication is in the audit log
    adminCall,    \* what each call has read and holds
    order,        \* the checkouts
    now,          \* the clock
    callsMade     \* calls so far (for the bound)

tariffVars == <<table, version, onSale, audited, adminCall, order, now,
                callsMade>>

NoVersion == [status |-> "NONE"]
CallIdle == [at |-> "IDLE"]
NoOrder == [at |-> "NONE"]

\* Rows whose locks another transaction holds until it commits.
HeldByOthers(c) == UNION {adminCall[d].held : d \in {e \in AdminCalls \ {c} : adminCall[e].at = "WRITING"}}

\* A row taken off sale.
Retired(row, at) == [row EXCEPT !.status = "RETIRED", !.to = at]

InStatus(status) == {v \in Versions : version[v].status = status}

\* A call arrives.
Arrives(c) ==
    /\ adminCall[c].at = "IDLE" /\ callsMade < MaxCalls
    /\ callsMade' = callsMade + 1

CallTo(c, call) == adminCall' = [adminCall EXCEPT ![c] = call]

----------------------------------------------------------------------------
(* Drafts                                                                  *)

\* createPlanDraft and the create...Draft of the policies: the row; the
\* entitlements of a plan follow.
createDraft(c, v, t) ==
    /\ Arrives(c) /\ version[v].status = "NONE"
    /\ version' = [version EXCEPT ![v] = [status |-> "DRAFT", terms |-> t, from |-> now,
                                          to |-> 0, entitled |-> FALSE]]
    /\ CallTo(c, IF table = "plan" THEN [at |-> "ENTITLING", of |-> v] ELSE CallIdle)
    /\ UNCHANGED <<table, onSale, audited, order, now>>

\* requireDraft of updatePlanDraft
RequireDraft(c, v, t) ==
    /\ table = "plan" /\ Arrives(c) /\ version[v].status = "DRAFT"
    /\ CallTo(c, [at |-> "UPDATING", of |-> v, terms |-> t])
    /\ UNCHANGED <<table, version, onSale, audited, order, now>>

\* Fault: the table has no trigger.
AcceptsUpdate(old, new) == FALSE

\* The trigger on updates of a version: the terms, validFrom among them, of a
\* row that is no longer a draft do not change.
reject_published_commercial_update(old, new) ==
    old.status # "DRAFT" /\ (new.terms # old.terms \/ new.from # old.from)

\* updatePlanDraft, its write by id
updatePlanDraft(c) ==
    LET v == adminCall[c].of
        new == [version[v] EXCEPT !.terms = adminCall[c].terms]
    IN  /\ adminCall[c].at = "UPDATING" /\ v \notin HeldByOthers(c)
        /\ IF reject_published_commercial_update(version[v], new)
           THEN CallTo(c, CallIdle) /\ UNCHANGED version
           ELSE /\ version' = [version EXCEPT ![v] = new]
                /\ CallTo(c, [at |-> "REPLACING", of |-> v])
        /\ UNCHANGED <<table, onSale, audited, order, now, callsMade>>

\* The trigger on a plan's entitlements
reject_plan_entitlement(v) == version[v].status # "DRAFT"

\* replaceEntitlements, deleteMany: without rows there is no trigger.
DeleteEntitlements(c) ==
    LET v == adminCall[c].of
        refused == version[v].entitled /\ reject_plan_entitlement(v)
    IN  /\ adminCall[c].at = "REPLACING"
        /\ version' = IF refused THEN version ELSE [version EXCEPT ![v] = [version[v] EXCEPT !.entitled = FALSE]]
        /\ CallTo(c, IF refused THEN CallIdle ELSE [at |-> "ENTITLING", of |-> v])
        /\ UNCHANGED <<table, onSale, audited, order, now, callsMade>>

\* replaceEntitlements, the creates
CreateEntitlements(c) ==
    LET v == adminCall[c].of
    IN  /\ adminCall[c].at = "ENTITLING"
        /\ version' = IF reject_plan_entitlement(v) THEN version
                      ELSE [version EXCEPT ![v] = [version[v] EXCEPT !.entitled = TRUE]]
        /\ CallTo(c, CallIdle)
        /\ UNCHANGED <<table, onSale, audited, order, now, callsMade>>

----------------------------------------------------------------------------
(* Publication                                                             *)

\* simulatePlanVersion and publishedGuardrail: does the worst case of the
\* terms, as they are now, miss the target?
simulatePlanVersion(c, v) ==
    /\ table = "plan" /\ Arrives(c) /\ version[v].status # "NONE"
    /\ CallTo(c, [at |-> "SIMULATED", of |-> v, low |-> version[v].terms \in LowMargin])
    /\ UNCHANGED <<table, version, onSale, audited, order, now>>

Loaded(v) == [at |-> "LOADED", of |-> v, now |-> now]

\* publishPlanVersion up to its transaction: a draft, and a confirmation where
\* the simulation asks for one.
publishPlanVersion(c, confirmed) ==
    /\ adminCall[c].at = "SIMULATED"
    /\ LET v == adminCall[c].of
       IN  CallTo(c, IF version[v].status = "DRAFT" /\ (adminCall[c].low => confirmed)
                     THEN Loaded(v) ELSE CallIdle)
    /\ UNCHANGED <<table, version, onSale, audited, order, now, callsMade>>

\* publishTopup and the publish... of the other policies, the same for them
publishPolicy(c, v) ==
    /\ table = "policy" /\ Arrives(c) /\ version[v].status = "DRAFT"
    /\ CallTo(c, Loaded(v))
    /\ UNCHANGED <<table, version, onSale, audited, order, now>>

\* updateMany of the published rows, its snapshot
FindPublished(c) ==
    /\ adminCall[c].at = "LOADED"
    /\ CallTo(c, [at |-> "RETIRING", of |-> adminCall[c].of, now |-> adminCall[c].now,
                  seen |-> InStatus("PUBLISHED")])
    /\ UNCHANGED <<table, version, onSale, audited, order, now, callsMade>>

\* updateMany of the published rows, its writes: the rows are locked, and only
\* those still published are retired.
RetirePublished(c) ==
    /\ adminCall[c].at = "RETIRING"
    /\ adminCall[c].seen \cap HeldByOthers(c) = {}
    /\ CallTo(c, [at |-> "WRITING", of |-> adminCall[c].of, now |-> adminCall[c].now,
                  held |-> adminCall[c].seen \cap InStatus("PUBLISHED")])
    /\ UNCHANGED <<table, version, onSale, audited, order, now, callsMade>>

\* The update of the draft and the commit, or, if the trigger objects, the
\* rollback.
CommitPublication(c) ==
    LET v == adminCall[c].of
        at == adminCall[c].now
        retired == [u \in Versions |->
                      IF u \in adminCall[c].held
                      THEN Retired(version[u], at) ELSE version[u]]
        new == [retired[v] EXCEPT !.status = "PUBLISHED", !.from = at, !.to = 0]
    IN  /\ adminCall[c].at = "WRITING" /\ v \notin HeldByOthers(c)
        /\ IF reject_published_commercial_update(retired[v], new)
           THEN CallTo(c, CallIdle) /\ UNCHANGED <<version, onSale>>
           ELSE /\ version' = [retired EXCEPT ![v] = new]
                /\ onSale' = TRUE
                /\ CallTo(c, [at |-> "PUBLISHED", of |-> v])
        /\ UNCHANGED <<table, audited, order, now, callsMade>>

\* The audit row of a publication, after its commit
audit(c) ==
    /\ adminCall[c].at = "PUBLISHED"
    /\ audited' = audited \cup {adminCall[c].of}
    /\ CallTo(c, CallIdle)
    /\ UNCHANGED <<table, version, onSale, order, now, callsMade>>

\* retirePlanVersion, its check and its write by id
RequirePublished(c, v) ==
    /\ table = "plan" /\ Arrives(c) /\ version[v].status = "PUBLISHED"
    /\ CallTo(c, [at |-> "ENDING", of |-> v])
    /\ UNCHANGED <<table, version, onSale, audited, order, now>>

retirePlanVersion(c) ==
    LET v == adminCall[c].of
    IN  /\ adminCall[c].at = "ENDING" /\ v \notin HeldByOthers(c)
        /\ version' = [version EXCEPT ![v] = Retired(version[v], now)]
        /\ CallTo(c, CallIdle)
        /\ UNCHANGED <<table, onSale, audited, order, now, callsMade>>

\* The process of a call dies: its transaction is rolled back.
AdminDies(c) ==
    /\ adminCall[c].at # "IDLE"
    /\ CallTo(c, CallIdle)
    /\ UNCHANGED <<table, version, onSale, audited, order, now, callsMade>>

----------------------------------------------------------------------------
(* Checkout                                                                *)

Sellable == {v \in InStatus("PUBLISHED") :
               version[v].from <= now /\ (version[v].to = 0 \/ version[v].to > now)}

\* plansCurrentVersion, and getPublishedTopupPolicy: the newest of them
plansCurrentVersion(v) ==
    v \in Sellable /\ \A u \in Sellable : version[u].from <= version[v].from

\* findCurrentPlanVersionByCode
findCurrentPlanVersion(s, v) ==
    /\ order[s].at = "NONE" /\ onSale /\ plansCurrentVersion(v)
    /\ order' = [order EXCEPT ![s] = [at |-> "FOUND", of |-> v, price |-> version[v].terms]]
    /\ UNCHANGED <<table, version, onSale, audited, adminCall, now, callsMade>>

\* buildCheckoutSnapshot reads the version again, whatever its status, and the
\* amount must still be its price; the order keeps what it then says.
buildCheckoutSnapshot(s) ==
    /\ order[s].at = "FOUND"
    /\ LET terms == version[order[s].of].terms
       IN  order' = [order EXCEPT ![s] =
                       IF terms = order[s].price
                       THEN [at |-> "PLACED", of |-> order[s].of, terms |-> terms] ELSE NoOrder]
    /\ UNCHANGED <<table, version, onSale, audited, adminCall, now, callsMade>>

TimeMoves ==
    /\ now < MaxNow
    /\ now' = now + 1
    /\ UNCHANGED <<table, version, onSale, audited, adminCall, order, callsMade>>

----------------------------------------------------------------------------
TariffsInit ==
    /\ table \in {"plan", "policy"}
    /\ version = [v \in Versions |-> NoVersion]
    /\ onSale = FALSE
    /\ audited = {}
    /\ adminCall = [c \in AdminCalls |-> CallIdle]
    /\ order = [s \in Shoppers |-> NoOrder]
    /\ now = 1
    /\ callsMade = 0

TariffsNext ==
    \/ \E c \in AdminCalls, v \in Versions :
         \/ \E t \in Terms : createDraft(c, v, t) \/ RequireDraft(c, v, t)
         \/ simulatePlanVersion(c, v)
         \/ publishPolicy(c, v)
         \/ RequirePublished(c, v)
    \/ \E c \in AdminCalls :
         \/ updatePlanDraft(c) \/ DeleteEntitlements(c) \/ CreateEntitlements(c)
         \/ \E confirmed \in BOOLEAN : publishPlanVersion(c, confirmed)
         \/ FindPublished(c) \/ RetirePublished(c) \/ CommitPublication(c)
         \/ audit(c) \/ retirePlanVersion(c) \/ AdminDies(c)
    \/ \E s \in Shoppers :
         \/ \E v \in Versions : findCurrentPlanVersion(s, v)
         \/ buildCheckoutSnapshot(s)
    \/ TimeMoves

\* What was sold stays what was offered: the terms an order was placed on are
\* those its version shows ever after, although an edit or a second publication
\* of the version was checked while it was a draft; no order is of a draft; and
\* the audit log names only versions that went on sale.
SoldTermsStand ==
    /\ \A s \in Shoppers : order[s].at = "PLACED" =>
          /\ version[order[s].of].terms = order[s].terms
          /\ version[order[s].of].status # "DRAFT"
    /\ \A v \in audited : version[v].status \in {"PUBLISHED", "RETIRED"}
=============================================================================

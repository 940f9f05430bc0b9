---------------------------- MODULE ContextBundle ----------------------------
(***************************************************************************)
(* The context an invocation is handed: the snapshot of a plan             *)
(* (packages/context/src/service.ts, retrieval.ts), the bundle of an       *)
(* invocation (bundle-service.ts), the policy that admits items            *)
(* (policy.ts) and the packer that fits them into the model's budget       *)
(* (packer.ts).                                                            *)
(*                                                                         *)
(* Several processes may take the snapshot, and an invocation may be tried *)
(* by one worker while another, presumed dead, still runs.  Both look up   *)
(* who sees the answer once, at their start, and access to the sources     *)
(* later, item by item; both change in between.  The outcome of the        *)
(* lookups of one item is of one moment.                                   *)
(***************************************************************************)
EXTENDS Naturals, Sequences, FiniteSets

CONSTANTS
    Candidates,     \* the sources by rank, records of what policy and packer look at
    Audience,       \* the users who may see the answer, the actor among them
    Actor,
    Takers,         \* processes that take the snapshot
    Runners,        \* workers that try the invocation
    ExternalTarget, \* the invocation goes to an external model
    Budget,         \* effectiveHistoryBudgetTokens
    SourceCap,      \* what one kind of source may use of it
    RawTrigger,     \* compactedStateTriggerTokens
    KindLimit,      \* how many sources of one kind are retrieved
    MaxCandidates,  \* how many sources a snapshot has, its audience not counted
    MaxChanges      \* bound: changes of access, membership and surface

(* Both orders of the candidates begin with the required ones.             *)
ASSUME ContextAssumption ==
    /\ Actor \in Audience /\ Budget \in Nat /\ SourceCap \in Nat
    /\ Len(Candidates) \in Nat /\ DOMAIN Candidates = 1..Len(Candidates)
    /\ \A r \in DOMAIN Candidates :
          /\ Candidates[r].tokens \in Nat
          /\ {Candidates[r].sensitive, Candidates[r].message, Candidates[r].superseded} \subseteq BOOLEAN
          /\ Candidates[r].group = "IMMEDIATE" =>
                \A q \in 1..r : Candidates[q].group = "IMMEDIATE"

VARIABLES
    readable,   \* the sources each user may read now, by their own row
    members,    \* the members of the project
    surface,    \* the users whom the conversation's surface resolves to, if the actor reads it
    changes,    \* changes of these so far
    started,    \* the plan has left PLANNING and PLANNED
    taker,      \* what a process has collected
    snapshot,   \* the sources of the frozen snapshot, as ranks
    claimed,    \* the audience that is written down in it
    runner,     \* a worker in resolveForInvocation
    bundle,     \* the ContextBundle of the invocation
    handed      \* the contexts handed to the executor, over all attempts

access == <<readable, members, surface, changes>>

contextVars == <<access, started, taker, snapshot, claimed, runner, bundle, handed>>

Ranks == DOMAIN Candidates

None == {0}     \* no snapshot

NoBundle == [items |-> None, admitted |-> None, audience |-> {}]

AwayFromRetrieval == [pc |-> "idle"]

AwayFromBundle == [pc |-> "idle"]

ContextInit ==
    /\ readable = [u \in Audience |-> Ranks]
    /\ members = Audience /\ surface = Audience
    /\ changes = 0
    /\ started = FALSE
    /\ taker = [t \in Takers |-> AwayFromRetrieval]
    /\ snapshot = None /\ claimed = {}
    /\ runner = [w \in Runners |-> AwayFromBundle]
    /\ bundle = NoBundle
    /\ handed = {}

(* Of an artifact, by its owner; other sources go by their own row.        *)
grantReadAccess(u, r) == [readable EXCEPT ![u] = @ \cup {r}]

revokeReadAccess(u, r) == [readable EXCEPT ![u] = @ \ {r}]

Changes == changes < MaxChanges /\ changes' = changes + 1

AccessChanges(u, r) ==
    /\ Changes
    /\ readable' = IF r \in readable[u] THEN revokeReadAccess(u, r) ELSE grantReadAccess(u, r)
    /\ UNCHANGED <<members, surface, started, taker, snapshot, claimed, runner, bundle, handed>>

MembershipChanges(u) ==
    /\ Changes
    /\ members' = IF u \in members THEN members \ {u} ELSE members \cup {u}
    /\ UNCHANGED <<readable, surface, started, taker, snapshot, claimed, runner, bundle, handed>>

(* A surface the actor cannot read has no audience.                        *)
SurfaceChanges(users) ==
    /\ Changes
    /\ users # surface /\ (users = {} \/ Actor \in users)
    /\ surface' = users
    /\ UNCHANGED <<readable, members, started, taker, snapshot, claimed, runner, bundle, handed>>

(* What an AI thread may draw on: the actor's own, and projects.           *)
isReadScopeEligible(r) == Candidates[r].scope \in {"PERSONAL", "PROJECT"}

canReadScope(u, r) ==
    \/ Candidates[r].scope = "PERSONAL" /\ u = Actor
    \/ Candidates[r].scope = "PROJECT" /\ u \in members

(* By the kind of the source: owner, member, grantee, or its own check.    *)
hasBuiltInAccess(u, r) ==
    r \in readable[u] /\ (Candidates[r].scope = "PROJECT" => u \in members)

-----------------------------------------------------------------------------
(* The packer, as a function of the items the policy lets through.  Its    *)
(* loops run through them by rank.                                         *)

Tokens(S) ==
    LET sum[n \in 0..Len(Candidates)] ==
          IF n = 0 THEN 0
          ELSE IF n \in S THEN sum[n - 1] + Candidates[n].tokens ELSE sum[n - 1]
    IN  sum[Len(Candidates)]

(* Of what was retrieved, or of the whole history, whose size stands with  *)
(* the conversation.                                                       *)
rawHistoryTokens(S) ==
    LET sizes == {Tokens({r \in S : Candidates[r].group = "L1_RAW"})}
                    \cup {Candidates[r].history : r \in S}
    IN  CHOOSE m \in sizes : \A n \in sizes : n <= m

(* Secrets of any kind; for an external model personal data too.           *)
containsSensitiveData(r) == Candidates[r].sensitive

(* Not the conversation's title and not the participant's name, though     *)
(* they are mandatory too.                                                 *)
isImmediateUserMessage(r) == Candidates[r].message

(* What was superseded is left out; so are a compacted state, unless the   *)
(* history is too long, a secret anywhere but in the message, and of two   *)
(* items that say the same the worse ranked one.                           *)
Eligible(S) ==
    LET wanted == {r \in S :
                     /\ ~Candidates[r].superseded
                     /\ Candidates[r].group = "L2_COMPACTED" => rawHistoryTokens(S) >= RawTrigger
                     /\ containsSensitiveData(r) => isImmediateUserMessage(r)}
    IN  {r \in wanted : \A q \in wanted : q < r => Candidates[q].text # Candidates[r].text}

isMandatoryContextItem(r) == Candidates[r].group = "IMMEDIATE"

trySelect(sel, r, capped) ==
    IF /\ Tokens(sel \cup {r}) <= Budget
       /\ capped => Tokens({q \in sel \cup {r} : Candidates[q].group = Candidates[r].group})
                      <= SourceCap
    THEN sel \cup {r} ELSE sel

bestPerGroup(S) ==
    {r \in S : \A q \in S : Candidates[q].group = Candidates[r].group => r <= q}

SelectAll(S, sel, capped) ==
    LET upTo[n \in 0..Len(Candidates)] ==
          IF n = 0 THEN sel
          ELSE IF n \in S THEN trySelect(upTo[n - 1], n, capped) ELSE upTo[n - 1]
    IN  upTo[Len(Candidates)]

packContextItems(S) ==
    LET must == {r \in Eligible(S) : isMandatoryContextItem(r)}
        rest == Eligible(S) \ must
        one == SelectAll(must, {}, FALSE)
        two == SelectAll(bestPerGroup(rest), one, TRUE)
    IN  SelectAll(rest \ two, two, TRUE)

-----------------------------------------------------------------------------
(* The snapshot: the surface resolved, the sources retrieved kind by kind, *)
(* their scopes checked again, then written, the first writer winning.     *)
(* Ranks are compareCandidatePriority.                                     *)

BestOf(S, n) == {r \in S : Cardinality({q \in S : q < r}) < n}

OfKind(k, S) == {r \in S : Candidates[r].group = k}

isRequiredCandidate(r) == Candidates[r].group = "IMMEDIATE"

(* The message, its conversation and the participant.                      *)
immediateCandidates(S) == OfKind("IMMEDIATE", S)

recentMessages(S) == BestOf(OfKind("L1_RAW", S), KindLimit)

(* Only what shares words with the message, or is named in it.             *)
rankRelevantMessages(k, S) == BestOf({r \in OfKind(k, S) : Candidates[r].relevant}, KindLimit)

rankStructured(k, S) == BestOf({r \in OfKind(k, S) : Candidates[r].relevant}, KindLimit)

messageCandidates(S) ==
    UNION {rankRelevantMessages(k, S) : k \in {"OLDER_HISTORY", "CROSS_CONVERSATION"}}

objectCandidates(S) ==
    UNION {rankStructured(k, S) : k \in {"WORKSPACE_OBJECT", "PROJECT_OBJECT", "ARTIFACT"}}

(* What the providers of derived context return: memory and summaries.     *)
normalizeDerivedProviderCandidate(S) ==
    UNION {OfKind(k, S) : k \in {"L2_COMPACTED", "PERSONAL_MEMORY", "PROJECT_MEMORY"}}

normalizeCandidates(S) ==
    LET required == {r \in S : isRequiredCandidate(r)}
        room == IF Cardinality(required) > MaxCandidates THEN 0
                ELSE MaxCandidates - Cardinality(required)
    IN  BestOf(required \cup BestOf(S \ required, room), MaxCandidates)

BeginRetrieval(t) ==
    /\ taker[t].pc = "idle" /\ snapshot = None /\ ~started
    /\ Actor \in surface
    /\ taker' = [taker EXCEPT ![t] = [pc |-> "read", audience |-> surface]]
    /\ UNCHANGED <<access, started, snapshot, claimed, runner, bundle, handed>>

retrieveForExecutionPlan(t) ==
    /\ taker[t].pc = "read"
    /\ LET S == {r \in Ranks : hasBuiltInAccess(Actor, r)}
       IN  /\ immediateCandidates(Ranks) \subseteq S
           /\ taker' = [taker EXCEPT ![t] =
                 [pc |-> "check", audience |-> taker[t].audience,
                  items |-> immediateCandidates(S) \cup recentMessages(S) \cup messageCandidates(S)
                              \cup objectCandidates(S) \cup normalizeDerivedProviderCandidate(S)]]
    /\ UNCHANGED <<access, started, snapshot, claimed, runner, bundle, handed>>

(* A source of a scope that the surface does not have, or that the actor   *)
(* has lost since, fails the retrieval; a source by itself is not looked   *)
(* up again.                                                               *)
collectExecutionPlanItems(t) ==
    /\ taker[t].pc = "check"
    /\ taker' = [taker EXCEPT ![t] =
          IF \A r \in taker[t].items : isReadScopeEligible(r) /\ canReadScope(Actor, r)
          THEN [taker[t] EXCEPT !.pc = "write", !.items = normalizeCandidates(@)]
          ELSE AwayFromRetrieval]
    /\ UNCHANGED <<access, started, snapshot, claimed, runner, bundle, handed>>

persistSnapshot(t) ==
    /\ taker[t].pc = "write"
    /\ IF snapshot = None /\ ~started
       THEN snapshot' = taker[t].items /\ claimed' = taker[t].audience
       ELSE UNCHANGED <<snapshot, claimed>>
    /\ taker' = [taker EXCEPT ![t] = AwayFromRetrieval]
    /\ UNCHANGED <<access, started, runner, bundle, handed>>

PlanStarts ==
    /\ ~started /\ snapshot # None
    /\ started' = TRUE
    /\ UNCHANGED <<access, taker, snapshot, claimed, runner, bundle, handed>>

-----------------------------------------------------------------------------
(* The bundle of the invocation.                                           *)

(* The outputs of earlier invocations that this one is bound to.           *)
Dependencies == OfKind("DEPENDENCY", Ranks)

(* The surface is resolved once.  If it is not that of the snapshot, no    *)
(* item is looked at, and the bundle says so.                              *)
BeginResolve(w) ==
    /\ runner[w].pc = "idle" /\ started
    /\ LET sameAudience == surface # {} /\ surface = claimed
       IN  runner' = [runner EXCEPT ![w] =
              [pc |-> "items", left |-> IF sameAudience THEN snapshot \cup Dependencies ELSE {},
               allowed |-> {}, blocked |-> ~sameAudience, audience |-> surface]]
    /\ UNCHANGED <<access, started, taker, snapshot, claimed, bundle, handed>>

isInvocationTargetClassificationAllowed(r) ==
    ExternalTarget => Candidates[r].classification # "RESTRICTED"

everyAudienceMemberCanReadSource(users, r) ==
    \A u \in users : hasBuiltInAccess(u, r) /\ canReadScope(u, r)

(* The owner and those with a grant that is not revoked.                   *)
canUsersReadVersion(users, r) == \A u \in users : r \in readable[u]

(* One item: the policy first, which may leave it out for its scope or its *)
(* classification; then access, whose loss refuses the whole invocation.   *)
evaluateContextPolicy(w, r) ==
    /\ runner[w].pc = "items" /\ r \in runner[w].left \ Dependencies
    /\ \A q \in runner[w].left \ Dependencies : r <= q
    /\ LET fits == isReadScopeEligible(r) /\ isInvocationTargetClassificationAllowed(r)
           reads == hasBuiltInAccess(Actor, r)
                      /\ everyAudienceMemberCanReadSource(runner[w].audience, r)
       IN  runner' = [runner EXCEPT ![w].left = @ \ {r},
                                    ![w].allowed = IF fits /\ reads THEN @ \cup {r} ELSE @,
                                    ![w].blocked = @ \/ (fits /\ ~reads)]
    /\ UNCHANGED <<access, started, taker, snapshot, claimed, bundle, handed>>

(* A dependency comes after the items; it may not be left out.             *)
resolveDependencyArtifact(w, r) ==
    /\ runner[w].pc = "items" /\ r \in runner[w].left
    /\ runner[w].left \subseteq Dependencies /\ \A q \in runner[w].left : r <= q
    /\ LET ok == isInvocationTargetClassificationAllowed(r)
                   /\ canUsersReadVersion({Actor} \cup runner[w].audience, r)
       IN  runner' = [runner EXCEPT ![w].left = @ \ {r},
                                    ![w].allowed = IF ok THEN @ \cup {r} ELSE @,
                                    ![w].blocked = @ \/ ~ok]
    /\ UNCHANGED <<access, started, taker, snapshot, claimed, bundle, handed>>

(* The manifest: what was packed, and beside it for whom, and what was     *)
(* denied, which is all that was not admitted.                             *)
Manifest(w) ==
    [items |-> packContextItems(runner[w].allowed \ Dependencies), admitted |-> runner[w].allowed,
     audience |-> runner[w].audience]

(* Fault: a later attempt replaces the bundle of an earlier one. *)
AcceptsAny(w) == TRUE

(* The bundle is created, or is the same as the one that exists.           *)
assertFrozenBundle(w) == bundle = NoBundle \/ bundle = Manifest(w)

(* The executor is called with the bundle, unless an item was refused.     *)
execute(w) ==
    handed' = IF runner[w].blocked THEN handed ELSE handed \cup {Manifest(w).items}

persistBundle(w) ==
    /\ runner[w].pc = "items" /\ runner[w].left = {}
    /\ IF assertFrozenBundle(w)
       THEN bundle' = Manifest(w) /\ execute(w)
       ELSE UNCHANGED <<bundle, handed>>
    /\ runner' = [runner EXCEPT ![w] = AwayFromBundle]
    /\ UNCHANGED <<access, started, taker, snapshot, claimed>>

ContextNext ==
    \/ \E u \in Audience : MembershipChanges(u) \/ \E r \in Ranks : AccessChanges(u, r)
    \/ \E users \in SUBSET Audience : SurfaceChanges(users)
    \/ \E t \in Takers :
          BeginRetrieval(t) \/ retrieveForExecutionPlan(t)
          \/ collectExecutionPlanItems(t) \/ persistSnapshot(t)
    \/ PlanStarts
    \/ \E w \in Runners :
          BeginResolve(w) \/ persistBundle(w)
          \/ \E r \in Ranks : evaluateContextPolicy(w, r) \/ resolveDependencyArtifact(w, r)

-----------------------------------------------------------------------------
(* All attempts of an invocation hand over the same context, that of the   *)
(* frozen bundle, whatever access changes between and within them, and to  *)
(* the audience of the snapshot.  It holds nothing but items of the        *)
(* snapshot, nothing restricted for an external model, nothing superseded, *)
(* no secret but in the message itself, every dependency, and no more than *)
(* the budget.  Of the mandatory items that the scopes and the model admit *)
(* it misses none but a secret outside of the message (the title of the    *)
(* conversation, the name of the participant), unless a better ranked item *)
(* says the same or the budget is used up.                                 *)
ContextIsFrozen ==
    /\ Cardinality(handed) <= 1
    /\ \A g \in handed :
          /\ g = bundle.items /\ bundle.audience = claimed
          /\ g \subseteq snapshot /\ Dependencies \subseteq bundle.admitted
          /\ \A r \in g :
                /\ ExternalTarget => Candidates[r].classification # "RESTRICTED"
                /\ ~Candidates[r].superseded
                /\ Candidates[r].sensitive => Candidates[r].message
          /\ Tokens(g) <= Budget
          /\ \A r \in snapshot :
                /\ isMandatoryContextItem(r)
                /\ isReadScopeEligible(r) /\ isInvocationTargetClassificationAllowed(r)
                /\ ~Candidates[r].superseded /\ (Candidates[r].sensitive => Candidates[r].message)
                => \/ \E q \in g : q <= r /\ Candidates[q].text = Candidates[r].text
                   \/ Tokens({q \in snapshot : q <= r}) > Budget
=============================================================================

------------------------------ MODULE Projects ------------------------------
(***************************************************************************)
(* Shared projects: membership, roles, invites, and the locks the owner's  *)
(* and the members' plans impose.  Locks are not stored: every request     *)
(* evaluates them from the plan and from who opened what last.  A handler  *)
(* evaluates access first and writes later, in another statement, so its   *)
(* decision may rest on a membership, a plan or an invite that has changed.*)
(***************************************************************************)
EXTENDS Integers, FiniteSets

CONSTANTS ProjectIds,   \* projects that may be created, numbered as localeCompare orders their ids
          Owner,        \* owner of all of them
          People,       \* users, the owner included, numbered likewise
          ProjectRequests,  \* concurrent requests
          Plans,        \* plans of the owner: [owned, members] count limits
          ExternalMax,  \* projects of others a member's plan keeps active
          Roles,        \* roles offered besides OWNER
          MaxOpens,     \* bound: times a project is opened
          MaxRows       \* bound: rows created when a request that creates one is let in

ASSUME ProjectsAssumption ==
    /\ Owner \in People
    /\ Plans \subseteq [owned : Nat, members : Nat] /\ ExternalMax \in Nat
    /\ Roles \subseteq {"ADMIN", "MEMBER"}
    /\ IsFiniteSet(ProjectIds) /\ IsFiniteSet(People)
    /\ ProjectIds \subseteq Nat /\ People \subseteq Nat

VARIABLES
    roster,      \* project -> member -> [role, opened]; empty when it does not exist
    created,     \* project -> createdAt; 0 when it was never created
    invite,      \* project -> user -> state of the invite last sent: the role it
                 \*   offers while it is pending, else what became of it
    ownerPlan,   \* effective plan of the owner
    opens,       \* clock of lastOpenedAt
    rows,        \* clock of createdAt, of projects and of members
    request      \* request -> what it decided and has yet to write

projectVars == <<roster, created, invite, ownerPlan, opens, rows, request>>

NoRequest == [op |-> "none", p |-> 0, user |-> 0, role |-> "none"]
Existing == {p \in ProjectIds : roster[p] /= <<>>}
MembersOf(p) == DOMAIN roster[p]

ProjectsInit ==
    /\ roster = [p \in ProjectIds |-> <<>>]
    /\ created = [p \in ProjectIds |-> 0]
    /\ invite = [p \in ProjectIds |-> [u \in People |-> "NONE"]]
    /\ ownerPlan \in Plans
    /\ opens = 0 /\ rows = 0
    /\ request = [c \in ProjectRequests |-> NoRequest]

----------------------------------------------------------------------------
(* ranking.ts: the items opened last are active, newer ones first. *)

\* compareLastOpened: a ranks before b.
LaterMade(a, b) == a.created > b.created \/ (a.created = b.created /\ a.id > b.id)
OpenedOldestFirst(a, b) == a.opened < b.opened \/ (a.opened = b.opened /\ LaterMade(a, b))
compareLastOpened(a, b) == a.opened > b.opened \/ (a.opened = b.opened /\ LaterMade(a, b))

\* The first "limit" items of the ranking.
selectActiveIds(items, limit) ==
    {i \in items : Cardinality({j \in items : compareLastOpened(j, i)}) < limit}

OwnedItems == {[id |-> p, opened |-> roster[p][Owner].opened, created |-> created[p]] :
                 p \in {q \in Existing : Owner \in MembersOf(q)}}
lockedOwnedIds == Existing \ {i.id : i \in selectActiveIds(OwnedItems, ownerPlan.owned)}

ExternalItems(u) == {[id |-> p, opened |-> roster[p][u].opened, created |-> created[p]] :
                       p \in {q \in Existing : u /= Owner /\ u \in MembersOf(q)}}
lockedExternalProjectIds(u) ==
    {i.id : i \in ExternalItems(u) \ selectActiveIds(ExternalItems(u), ExternalMax)}

\* The owner, and the others who opened it last, up to the owner's limit.
MemberItems(p) == {[id |-> u, opened |-> roster[p][u].opened, created |-> roster[p][u].joined] :
                     u \in MembersOf(p) \ {Owner}}
activeMemberUserIds(p) ==
    {Owner} \cup {i.id : i \in selectActiveIds(MemberItems(p),
                     IF ownerPlan.members = 0 THEN 0 ELSE ownerPlan.members - 1)}

\* evaluateMany and viewerAccessState: what u may do in p.
viewerAccessState(p, u) ==
    IF p \in lockedOwnedIds THEN "PLAN_LOCKED"
    ELSE IF u /= Owner /\ u \notin activeMemberUserIds(p) THEN "READ_ONLY_BY_OWNER_PLAN"
    ELSE IF p \in lockedExternalProjectIds(u) THEN "READ_ONLY_BY_MEMBER_PLAN"
    ELSE "ACTIVE"
assertMutable(p, u) == viewerAccessState(p, u) = "ACTIVE"
canManageMembersWithRole(role) == role \in {"OWNER", "ADMIN"}
canManage(p, u) == u \in MembersOf(p) /\ assertMutable(p, u)
                   /\ canManageMembersWithRole(roster[p][u].role)

----------------------------------------------------------------------------
(* Requests: the part before the write. *)

Decide(c, r) ==
    /\ request[c] = NoRequest
    /\ request' = [request EXCEPT ![c] = r]
    /\ UNCHANGED <<roster, created, invite, ownerPlan, opens, rows>>
Call(op, p, u, role) == [op |-> op, p |-> p, user |-> u, role |-> role]

EvaluateCreate(c, p) ==
    /\ roster[p] = <<>> /\ created[p] = 0 /\ rows < MaxRows
    /\ Cardinality(Existing) < ownerPlan.owned
    /\ Decide(c, Call("create", p, Owner, "OWNER"))

EvaluateDelete(c, p) == p \in Existing /\ Decide(c, Call("delete", p, Owner, "none"))

\* invite: one pending invite, nobody who is a member, room under the limit.
EvaluateInvite(c, p, actor, u, role) ==
    /\ u \notin MembersOf(p) /\ invite[p][u] \notin Roles /\ canManage(p, actor)
    /\ Cardinality(activeMemberUserIds(p)) < ownerPlan.members
    /\ Decide(c, Call("invite", p, u, role))

EvaluateRevoke(c, p, actor, u) ==
    invite[p][u] \in Roles /\ canManage(p, actor) /\ Decide(c, Call("revoke", p, u, "none"))

\* acceptInvite: a locked project may be joined, a full one not.
EvaluateAccept(c, p, u) ==
    /\ invite[p][u] \in Roles /\ p \in Existing /\ u \notin MembersOf(p) /\ rows < MaxRows
    /\ p \in lockedOwnedIds \/ Cardinality(activeMemberUserIds(p)) < ownerPlan.members
    /\ Decide(c, Call("accept", p, u, invite[p][u]))

EvaluateRole(c, p, actor, u, role) ==
    /\ u \in MembersOf(p) /\ roster[p][u].role /= "OWNER" /\ canManage(p, actor)
    /\ Decide(c, Call("role", p, u, role))

EvaluateRemove(c, p, actor, u) ==
    /\ u \in MembersOf(p) /\ roster[p][u].role /= "OWNER" /\ canManage(p, actor)
    /\ Decide(c, Call("remove", p, u, "none"))

EvaluateLeave(c, p, u) ==
    /\ u \in MembersOf(p) /\ roster[p][u].role /= "OWNER"
    /\ Decide(c, Call("remove", p, u, "none"))

----------------------------------------------------------------------------
(* Requests: the write.  A row that is gone, or is there already, fails it. *)

With(members, u, m) == [v \in DOMAIN members \cup {u} |-> IF v = u THEN m ELSE members[v]]
Without1(members, u) == [v \in DOMAIN members \ {u} |-> members[v]]

\* Nothing is written.
Fails == UNCHANGED <<roster, created, invite, rows>>

WriteCreate(r) ==
    /\ r.op = "create"
    /\ \/ created[r.p] > 0 /\ Fails
       \/ /\ created[r.p] = 0
          /\ roster' = [roster EXCEPT ![r.p] =
                          With(<<>>, Owner, [role |-> "OWNER", opened |-> 0, joined |-> 0])]
          /\ created' = [created EXCEPT ![r.p] = rows + 1]
          /\ rows' = rows + 1
          /\ UNCHANGED invite

\* Derived memory and summaries of the project are invalidated with it.
WriteDelete(r) ==
    /\ r.op = "delete"
    /\ roster' = [roster EXCEPT ![r.p] = <<>>]
    /\ invite' = [invite EXCEPT ![r.p] = [u \in People |-> "NONE"]]
    /\ UNCHANGED <<created, rows>>

WriteInvite(r) ==
    /\ r.op = "invite"
    /\ \/ r.p \notin Existing /\ Fails
       \/ /\ r.p \in Existing
          /\ invite' = [invite EXCEPT ![r.p][r.user] = r.role]
          /\ UNCHANGED <<roster, created, rows>>

\* By id only: an invite accepted meanwhile is marked revoked too.
WriteRevoke(r) ==
    /\ r.op = "revoke"
    /\ \/ r.p \notin Existing /\ Fails
       \/ /\ r.p \in Existing
          /\ invite' = [invite EXCEPT ![r.p][r.user] = "REVOKED"]
          /\ UNCHANGED <<roster, created, rows>>

WriteAccept(r) ==
    LET open == r.p \in Existing /\ invite[r.p][r.user] \in Roles /\ r.user \notin MembersOf(r.p) IN
    /\ r.op = "accept"
    /\ \/ ~open /\ Fails
       \/ /\ open
          /\ roster' = [roster EXCEPT ![r.p] =
                          With(@, r.user, [role |-> r.role, opened |-> 0, joined |-> rows + 1])]
          /\ invite' = [invite EXCEPT ![r.p][r.user] = "ACCEPTED"]
          /\ rows' = rows + 1
          /\ UNCHANGED created

WriteRole(r) ==
    /\ r.op = "role"
    /\ \/ r.user \notin MembersOf(r.p) /\ Fails
       \/ /\ r.user \in MembersOf(r.p)
          /\ roster' = [roster EXCEPT ![r.p] = With(@, r.user, [@[r.user] EXCEPT !.role = r.role])]
          /\ UNCHANGED <<created, invite, rows>>

WriteRemove(r) ==
    /\ r.op = "remove"
    /\ \/ r.user \notin MembersOf(r.p) /\ Fails
       \/ /\ r.user \in MembersOf(r.p)
          /\ roster' = [roster EXCEPT ![r.p] = Without1(@, r.user)]
          /\ UNCHANGED <<created, invite, rows>>

Write(c) ==
    LET r == request[c] IN
    /\ request' = [request EXCEPT ![c] = NoRequest]
    /\ \/ WriteCreate(r) \/ WriteDelete(r) \/ WriteInvite(r) \/ WriteRevoke(r)
       \/ WriteAccept(r) \/ WriteRole(r) \/ WriteRemove(r)
    /\ UNCHANGED <<ownerPlan, opens>>

\* open: the only request that moves lastOpenedAt.
open(p, u) ==
    /\ p \in Existing /\ u \in MembersOf(p) /\ opens < MaxOpens
    /\ opens' = opens + 1
    /\ roster' = [roster EXCEPT ![p] = With(@, u, [@[u] EXCEPT !.opened = opens + 1])]
    /\ UNCHANGED <<created, invite, ownerPlan, rows, request>>

\* EffectivePlanResolver.resolve, asked anew by every operation, answers with
\* another plan: a subscription of the owner has started or its period is over.
ChangePlan(plan) ==
    /\ ownerPlan /= plan
    /\ ownerPlan' = plan
    /\ UNCHANGED <<roster, created, invite, opens, rows, request>>

ProjectsNext ==
    \/ \E c \in {d \in ProjectRequests : request[d] = NoRequest}, p \in ProjectIds :
        \/ EvaluateCreate(c, p) \/ EvaluateDelete(c, p)
        \/ \E u \in People \ {Owner} : EvaluateLeave(c, p, u) \/ EvaluateAccept(c, p, u)
        \/ \E actor, u \in People :
            \/ EvaluateRevoke(c, p, actor, u) \/ EvaluateRemove(c, p, actor, u)
            \/ \E role \in Roles : EvaluateInvite(c, p, actor, u, role)
                                   \/ EvaluateRole(c, p, actor, u, role)
    \/ \E c \in ProjectRequests : Write(c)
    \/ \E p \in ProjectIds, u \in People : open(p, u)
    \/ \E plan \in Plans : ChangePlan(plan)

\* "at most projects.ownedActiveMax owned projects stay ACTIVE, chosen by the
\* owner's lastOpenedAt": whatever concurrent creations, joins and removals
\* decided on stale counts leave behind, every project has exactly its owner
\* as OWNER, no more projects and members than the plan allows can change
\* anything, and under a plan that allows one the project opened last can.
PlanLocksHold ==
    LET active == Existing \ lockedOwnedIds IN
    /\ \A p \in Existing : {u \in MembersOf(p) : roster[p][u].role = "OWNER"} = {Owner}
    /\ Cardinality(active) <= ownerPlan.owned
    /\ \A p \in active :
          Cardinality({u \in MembersOf(p) : assertMutable(p, u)}) <= ownerPlan.members \/
          {u \in MembersOf(p) : assertMutable(p, u)} = {Owner}
    /\ ownerPlan.owned > 0 => \A p \in Existing :
          (\A q \in Existing : roster[q][Owner].opened <= roster[p][Owner].opened)
            /\ roster[p][Owner].opened > 0 => p \in active
=============================================================================

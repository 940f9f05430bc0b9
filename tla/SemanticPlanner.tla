--------------------------- MODULE SemanticPlanner ---------------------------
(***************************************************************************)
(* How the planner's answer becomes an execution plan: the answer is       *)
(* parsed, every explicit mention is given to one invocation, the graph is *)
(* validated, its steps are renumbered in a stable topological order, and  *)
(* the result is parsed and validated again.                               *)
(*                                                                         *)
(* Names are numbers that compare as the names do.  The purpose, target,   *)
(* outputs and policies of an invocation, which the stable order compares  *)
(* as one JSON text, are its key.  The two topological sorts are loops     *)
(* here, one step for each invocation they take from their queue.          *)
(***************************************************************************)
EXTENDS Integers, Sequences, FiniteSets, SequencesExt

CONSTANTS
    Answers,          \* [raw, mentions]: an answer of the model, and the message's mentions
    MaxInvocations,   \* maxInvocations
    MaxDependencies,  \* maxDependencies
    MaxItems,         \* maxOutputsPerInvocation, and of criteria and bindings
    MaxDepth,         \* maxDepth
    MaxFanOut,        \* maxFanOut
    MaxWidth          \* defaultMaxParallelism

VARIABLES
    answer,           \* the model's answer and the mentions it was given
    stage,            \* where the planner is
    plan,             \* the plan so far
    order,            \* invocations the running sort has taken
    line,             \* its queue
    indegree,         \* edges into an invocation the sort has not seen yet
    depth             \* depthByInvocationId

plannerVars == <<answer, stage, plan, order, line, indegree, depth>>

NoPlan == [invocations |-> <<>>, dependencies |-> <<>>, maxParallelism |-> 0]

Risks == {"READ_ONLY", "INTERNAL_WRITE", "EXTERNAL_SIDE_EFFECT", "DESTRUCTIVE", "FINANCIAL"}
ConditionKinds == {"DATA", "ON_SUCCESS", "ON_FAILURE", "ALWAYS", "OUTCOME"}
JoinPolicies == {"ALL_REQUIRED", "ANY_REQUIRED", "ALL_SETTLED"}
Modes == {"DETERMINISTIC", "AI_EVALUATOR", "HUMAN_APPROVAL"}

Distinct(s) == \A i, j \in DOMAIN s : s[i] = s[j] => i = j

-----------------------------------------------------------------------------
(* The mentions of the message                                             *)

\* plannerTargetFor; a USER mention has no target of its own
plannerTargetFor(m) == IF m.kind = "SYSTEM_AGENT" THEN "VIMLA" ELSE m.kind

validateResolvedMention(m) == m.from >= 0 /\ m.to > m.from

ByPlace(mentions) ==
    SetToSortSeq(mentions, LAMBDA m, n : m.from < n.from \/ (m.from = n.from /\ m.to < n.to))

\* PlannerMentionContractError otherwise
MentionsSound(mentions) ==
    /\ \A m \in mentions : validateResolvedMention(m)
    /\ \A i \in 2 .. Cardinality(mentions) : ByPlace(mentions)[i].from >= ByPlace(mentions)[i - 1].to

toPlannerInvocationMentions(mentions) == SelectSeq(ByPlace(mentions), LAMBDA m : m.kind # "USER")

Mentions == toPlannerInvocationMentions(answer.mentions)
Mentioned(occurrence) == {m \in Range(Mentions) : m.id = occurrence}

-----------------------------------------------------------------------------
(* The shape of an answer, and of a plan                                   *)

parseTargetHint(h) == h.kind \in {"MENTION", "EVALUATOR"}

\* a criterion without a binding has inputName 0
parseCriterion(c) == c.mode \in Modes /\ c.inputName >= 0

parseBinding(b) == b.inputName > 0 /\ b.sourceOutputName > 0

parseInvocationDraft(i) ==
    /\ parseTargetHint(i.hint)
    /\ Len(i.outputs) <= MaxItems
    /\ Len(i.criteria) <= MaxItems /\ \A k \in DOMAIN i.criteria : parseCriterion(i.criteria[k])
    /\ i.risk \in Risks /\ i.join \in JoinPolicies

parseDependencyDraft(d) ==
    /\ d.kind \in ConditionKinds
    /\ Len(d.bindings) <= MaxItems /\ \A k \in DOMAIN d.bindings : parseBinding(d.bindings[k])

\* a question has no graph, a plan has one of a bounded size
parseSemanticPlannerOutput(raw) ==
    IF raw.decision = "CLARIFY"
    THEN raw.invocations = <<>> /\ raw.dependencies = <<>>
    ELSE /\ Len(raw.invocations) \in 1 .. MaxInvocations
         /\ Len(raw.dependencies) <= MaxDependencies
         /\ \A k \in DOMAIN raw.invocations : parseInvocationDraft(raw.invocations[k])
         /\ \A k \in DOMAIN raw.dependencies : parseDependencyDraft(raw.dependencies[k])

parseInvocation(i) ==
    /\ Len(i.outputs) <= MaxItems
    /\ Len(i.criteria) <= MaxItems /\ \A k \in DOMAIN i.criteria : parseCriterion(i.criteria[k])
    /\ i.risk \in Risks /\ i.join \in JoinPolicies
    /\ i.target \in {"VIMLA", "AI_AUTO", "AI_MODEL", "EVALUATOR", "AGENT"}
    /\ i.approval \in {"AUTO", "USER_CONFIRMATION", "HUMAN_APPROVAL"}

parseExecutionPlanValue(p) ==
    /\ Len(p.invocations) \in 1 .. MaxInvocations
    /\ Len(p.dependencies) <= MaxDependencies
    /\ p.maxParallelism \in 1 .. 16
    /\ \A k \in DOMAIN p.invocations : parseInvocation(p.invocations[k])
    /\ \A k \in DOMAIN p.dependencies : parseDependencyDraft(p.dependencies[k])

-----------------------------------------------------------------------------
(* What validateExecutionPlanGraph asks of a plan before it sorts it       *)

IdsOf(p) == {p.invocations[k].id : k \in DOMAIN p.invocations}
InvocationOf(p, id) == p.invocations[CHOOSE k \in DOMAIN p.invocations : p.invocations[k].id = id]
Incoming(p, id) == {k \in DOMAIN p.dependencies : p.dependencies[k].to = id}
Outgoing(p, id) == {k \in DOMAIN p.dependencies : p.dependencies[k].from = id}

uniqueOutputs(i) == Distinct([k \in DOMAIN i.outputs |-> i.outputs[k].name])

EndsKnown(p, d) == d.from \in IdsOf(p) /\ d.to \in IdsOf(p) /\ d.from # d.to

\* an edge of this kind between the two was seen before
EdgeTwice(p, k) ==
    \E j \in 1 .. k - 1 :
        LET d == p.dependencies[k] e == p.dependencies[j]
        IN  \/ d.id = e.id
            \/ d.from = e.from /\ d.to = e.to /\ d.kind = e.kind /\ d.outcome = e.outcome

ConditionValid(p, d) ==
    /\ d.kind = "OUTCOME" =>
         d.outcome # "" /\ (InvocationOf(p, d.from).target = "EVALUATOR" => d.outcome \in {"PASS", "FAIL"})
    /\ (d.kind = "DATA") = (d.bindings # <<>>)

\* the inputs of an invocation that dependencies up to the k-th bind
BoundInputs(p, id, k) ==
    {b.inputName : b \in UNION {Range(p.dependencies[j].bindings) : j \in Incoming(p, id) \cap 1 .. k}}

BindingsValid(p, k) ==
    LET d == p.dependencies[k]
        outputs == InvocationOf(p, d.from).outputs
    IN  /\ Distinct([j \in DOMAIN d.bindings |-> d.bindings[j].inputName])
        /\ \A b \in Range(d.bindings) :
             /\ b.inputName \notin BoundInputs(p, d.to, k - 1)
             /\ \E o \in Range(outputs) : o.name = b.sourceOutputName /\ o.type = b.type

DependencyValid(p, k) ==
    LET d == p.dependencies[k]
    IN  EndsKnown(p, d) /\ ~EdgeTwice(p, k) /\ ConditionValid(p, d) /\ BindingsValid(p, k)

\* what an evaluator declares, and which inputs its criteria read
EvaluatorValid(p, i) ==
    LET criteria == Range(i.criteria)
        mode == i.criteria[1].mode
        inputs == BoundInputs(p, i.id, Len(p.dependencies))
    IN  /\ Len(i.outputs) = 1 /\ i.outputs[1].type = "JSON"
        /\ i.criteria # <<>>
        /\ Distinct([k \in DOMAIN i.criteria |-> i.criteria[k].id])
        /\ \A c \in criteria : c.mode = mode
        /\ mode = "HUMAN_APPROVAL" => Len(i.criteria) = 1
        /\ i.risk = "READ_ONLY"
        /\ i.approval = (IF mode = "HUMAN_APPROVAL" THEN "HUMAN_APPROVAL" ELSE "AUTO")
        /\ \A c \in criteria : (mode = "DETERMINISTIC") = (c.inputName # 0)
        /\ mode = "AI_EVALUATOR" => inputs # {}
        /\ \A c \in criteria : c.inputName = 0 \/ (c.pointer /\ c.inputName \in inputs)

JoinValid(p, i) == Cardinality(Incoming(p, i.id)) >= 2 \/ i.join = "ALL_REQUIRED"

validateExecutionPlanGraph(p) ==
    /\ Len(p.invocations) <= MaxInvocations /\ Len(p.dependencies) <= MaxDependencies
    /\ Distinct([k \in DOMAIN p.invocations |-> p.invocations[k].id])
    /\ \A i \in Range(p.invocations) : uniqueOutputs(i)
    /\ \A k \in DOMAIN p.dependencies : DependencyValid(p, k)
    /\ \A i \in Range(p.invocations) :
         /\ Cardinality(Outgoing(p, i.id)) <= MaxFanOut
         /\ JoinValid(p, i)
         /\ i.target = "EVALUATOR" => EvaluatorValid(p, i)

-----------------------------------------------------------------------------
(* The two topological sorts                                               *)

\* the queue of the validator, in the order of the plan
ListedOrder(p, ids) ==
    SelectSeq([k \in DOMAIN p.invocations |-> p.invocations[k].id], LAMBDA id : id \in ids)

\* compareIds: the semantic key, then the id
compareIds(p, i, j) ==
    LET a == InvocationOf(p, i) b == InvocationOf(p, j)
    IN  a.key < b.key \/ (a.key = b.key /\ a.id < b.id)

InKeyOrder(p, ids) == SetToSortSeq(ids, LAMBDA i, j : compareIds(p, i, j))

Degrees(p) == [id \in IdsOf(p) |-> Cardinality(Incoming(p, id))]
Roots(p) == {id \in IdsOf(p) : Incoming(p, id) = {}}

\* a fault: parallel edges count once
EdgesCountedOnce(p, id, next) == IF Outgoing(p, id) \cap Incoming(p, next) = {} THEN 0 ELSE 1

\* how often the loop over outgoing meets next
EdgesBetween(p, id, next) == Cardinality(Outgoing(p, id) \cap Incoming(p, next))

Lowered(p, id) == [next \in DOMAIN indegree |-> indegree[next] - EdgesBetween(p, id, next)]

Freed(p, id) == {next \in DOMAIN indegree : indegree[next] > 0 /\ Lowered(p, id)[next] = 0}

\* the freed invocations join the queue in the order their last edge is met
FreedInListedOrder(p, id) ==
    LET LastEdge(next) == CHOOSE k \in Outgoing(p, id) \cap Incoming(p, next) :
            \A j \in Outgoing(p, id) \cap Incoming(p, next) : j <= k
    IN  SetToSortSeq(Freed(p, id), LAMBDA i, j : LastEdge(i) < LastEdge(j))

Deepened(p, id, next) ==
    IF EdgesBetween(p, id, next) = 0 THEN depth[next]
    ELSE IF depth[next] > depth[id] + 1 THEN depth[next] ELSE depth[id] + 1

StartSort(p, first) ==
    /\ order' = <<>>
    /\ line' = first
    /\ indegree' = Degrees(p)
    /\ depth' = [id \in IdsOf(p) |-> 0]

-----------------------------------------------------------------------------
(* compileSemanticPlannerDraft                                             *)

Raw == answer.raw

\* each mention is executed by exactly one invocation, and no other is
HintsResolve(raw) ==
    LET asked == {k \in DOMAIN raw.invocations : raw.invocations[k].hint.kind = "MENTION"}
    IN  /\ \A k \in asked : Mentioned(raw.invocations[k].hint.occurrence) # {}
        /\ \A j, k \in asked :
             raw.invocations[j].hint.occurrence = raw.invocations[k].hint.occurrence => j = k
        /\ Cardinality(asked) = Len(Mentions)

resolveTarget(hint) ==
    IF hint.kind = "EVALUATOR" THEN "EVALUATOR"
    ELSE plannerTargetFor(CHOOSE m \in Mentioned(hint.occurrence) : TRUE)

ApprovalFor(target, draft) ==
    CASE target = "EVALUATOR" ->
           (IF draft.criteria # <<>> /\ draft.criteria[1].mode = "HUMAN_APPROVAL"
            THEN "HUMAN_APPROVAL" ELSE "AUTO")
      [] target = "VIMLA" \/ draft.risk # "READ_ONLY" -> "USER_CONFIRMATION"
      [] OTHER -> "AUTO"

ProvisionalInvocation(draft) ==
    LET target == resolveTarget(draft.hint)
    IN  [id |-> draft.id, key |-> draft.key, target |-> target, outputs |-> draft.outputs,
         criteria |-> draft.criteria, join |-> draft.join,
         risk |-> IF target = "EVALUATOR" THEN "READ_ONLY" ELSE draft.risk,
         approval |-> ApprovalFor(target, draft)]

Provisional(raw) ==
    [invocations |-> [k \in DOMAIN raw.invocations |-> ProvisionalInvocation(raw.invocations[k])],
     dependencies |-> raw.dependencies,
     maxParallelism |-> IF Len(raw.invocations) < MaxWidth THEN Len(raw.invocations) ELSE MaxWidth]

\* the plan is refused, or validated and sorted at the given stage
Validate(p, then) ==
    IF validateExecutionPlanGraph(p)
    THEN plan' = p /\ stage' = then /\ StartSort(p, ListedOrder(p, Roots(p)))
    ELSE stage' = "GRAPH_INVALID" /\ UNCHANGED <<plan, order, line, indegree, depth>>

Ends(result) == stage' = result /\ UNCHANGED <<plan, order, line, indegree, depth>>

compileSemanticPlannerDraft ==
    /\ stage = "ANSWERED"
    /\ \/ ~MentionsSound(answer.mentions) /\ Ends("MENTIONS_INVALID")
       \/ MentionsSound(answer.mentions) /\ ~parseSemanticPlannerOutput(Raw) /\ Ends("OUTPUT_INVALID")
       \/ /\ MentionsSound(answer.mentions) /\ parseSemanticPlannerOutput(Raw)
          /\ \/ Raw.decision = "CLARIFY" /\ Ends("CLARIFY")
             \/ Raw.decision = "PLAN" /\ ~Raw.confident /\ Ends("CLARIFY")
             \/ /\ Raw.decision = "PLAN" /\ Raw.confident
                /\ \/ ~HintsResolve(Raw) /\ Ends("MENTION_CONSTRAINT_VIOLATION")
                   \/ HintsResolve(Raw) /\ Validate(Provisional(Raw), "VALIDATING")
    /\ UNCHANGED answer

\* one turn of the validator's loop
TakeListed ==
    /\ stage \in {"VALIDATING", "REVALIDATING"} /\ line # <<>>
    /\ LET id == Head(line)
       IN  /\ order' = Append(order, id)
           /\ line' = Tail(line) \o FreedInListedOrder(plan, id)
           /\ indegree' = Lowered(plan, id)
           /\ depth' = [next \in DOMAIN depth |-> Deepened(plan, id, next)]
    /\ UNCHANGED <<answer, stage, plan>>

Sorted == Len(order) = Len(plan.invocations)
Shallow == \A id \in DOMAIN depth : depth[id] <= MaxDepth

\* the validator's loop is over
Validated ==
    /\ line = <<>>
    /\ \/ stage \in {"VALIDATING", "REVALIDATING"} /\ ~(Sorted /\ Shallow) /\ Ends("GRAPH_INVALID")
       \/ /\ stage = "VALIDATING" /\ Sorted /\ Shallow
          /\ stage' = "NORMALIZING"
          /\ StartSort(plan, InKeyOrder(plan, Roots(plan)))
          /\ UNCHANGED plan
       \/ stage = "REVALIDATING" /\ Sorted /\ Shallow /\ Ends("PLAN")
    /\ UNCHANGED answer

\* one turn of stableTopologicalOrder: the queue is sorted after each push
stableTopologicalOrder ==
    /\ stage = "NORMALIZING" /\ line # <<>>
    /\ LET id == Head(line)
       IN  /\ order' = Append(order, id)
           /\ line' = InKeyOrder(plan, Range(Tail(line)) \cup Freed(plan, id))
           /\ indegree' = Lowered(plan, id)
    /\ UNCHANGED <<answer, stage, plan, depth>>

requiredMappedId(id) == CHOOSE k \in DOMAIN order : order[k] = id

\* where the dependency comes among those renumbered; conditions by their kind
conditionSortKey(d) ==
    CASE d.kind = "ALWAYS" -> <<1, d.outcome>> [] d.kind = "DATA" -> <<2, d.outcome>>
      [] d.kind = "ON_FAILURE" -> <<3, d.outcome>> [] d.kind = "ON_SUCCESS" -> <<4, d.outcome>>
      [] d.kind = "OUTCOME" -> <<IF d.outcome = "FAIL" THEN 5 ELSE 6, d.outcome>>

Renumbered(d) ==
    [d EXCEPT !.from = requiredMappedId(@), !.to = requiredMappedId(@),
              !.bindings = SetToSortSeq(Range(@), LAMBDA a, b : a.inputName < b.inputName)]

EdgeBefore(d, e) ==
    \/ d.from < e.from
    \/ d.from = e.from /\ d.to < e.to
    \/ d.from = e.from /\ d.to = e.to /\ conditionSortKey(d)[1] < conditionSortKey(e)[1]

normalizeSemanticExecutionPlan ==
    LET edges == SetToSortSeq({Renumbered(d) : d \in Range(plan.dependencies)}, EdgeBefore)
    IN  [plan EXCEPT
           !.invocations = [k \in DOMAIN order |->
               [InvocationOf(plan, order[k]) EXCEPT
                  !.id = k,
                  !.outputs = SetToSortSeq(Range(@), LAMBDA a, b : a.name < b.name),
                  !.criteria = SetToSortSeq(Range(@), LAMBDA a, b : a.id < b.id)]],
           !.dependencies = [k \in DOMAIN edges |-> [edges[k] EXCEPT !.id = k]]]

\* the renumbered plan is parsed and validated again
Normalized ==
    /\ stage = "NORMALIZING" /\ line = <<>>
    /\ IF Sorted /\ parseExecutionPlanValue(normalizeSemanticExecutionPlan)
       THEN Validate(normalizeSemanticExecutionPlan, "REVALIDATING")
       ELSE Ends("GRAPH_INVALID")
    /\ UNCHANGED answer

-----------------------------------------------------------------------------
PlannerInit ==
    /\ answer \in Answers
    /\ stage = "ANSWERED"
    /\ plan = NoPlan
    /\ order = <<>> /\ line = <<>> /\ indegree = <<>> /\ depth = <<>>

PlannerNext ==
    \/ compileSemanticPlannerDraft \/ TakeListed \/ Validated \/ stableTopologicalOrder \/ Normalized

-----------------------------------------------------------------------------
(* Properties                                                              *)

Pairs(dependencies) == {<<d.from, d.to>> : d \in Range(dependencies)}

\* a set of invocations each of which waits for another of the set
Circular(edges) ==
    LET nodes == {e[1] : e \in edges} \cup {e[2] : e \in edges}
    IN  \E S \in SUBSET nodes \ {{}} : \A v \in S : \E u \in S : <<u, v>> \in edges

\* the longest chain of edges that ends in v
LongestTo(n, edges, v) ==
    CHOOSE k \in 0 .. n :
        LET Chain(l) == \E c \in [0 .. l -> 1 .. n] :
                c[l] = v /\ \A j \in 1 .. l : <<c[j - 1], c[j]>> \in edges
        IN  Chain(k) /\ ~Chain(k + 1)

\* of the invocations that could come k-th, the one with the least key does
LeastFirst(p, edges) ==
    \A k \in DOMAIN p.invocations : \A j \in k + 1 .. Len(p.invocations) :
        (\A i \in k .. Len(p.invocations) : <<i, j>> \notin edges) =>
            p.invocations[k].key <= p.invocations[j].key

\* The plan semantic-planner-compile.ts returns can run to its end and is what
\* was asked: every dependency goes from an earlier step to a later one, the
\* steps come in the one order their keys and edges fix however the answer
\* listed them, depthByInvocationId is the longest chain and within its limit,
\* each mention of the message is executed by one step with the mention's
\* target, and a step that writes waits for a confirmation.  And nothing valid
\* is refused: renumbering never makes a plan invalid, and an answer whose
\* references are in order is refused only for a circle or a chain too long.
PlanIsSound ==
    /\ stage = "PLAN" =>
         LET edges == Pairs(plan.dependencies)
             n == Len(plan.invocations)
         IN  /\ \A e \in edges : e[1] < e[2]
             /\ LeastFirst(plan, edges)
             /\ \A v \in 1 .. n : depth[v] = LongestTo(n, edges, v) /\ depth[v] <= MaxDepth
             /\ \A target \in {"VIMLA", "AI_AUTO", "AI_MODEL"} :
                  Cardinality({k \in 1 .. n : plan.invocations[k].target = target})
                    = Cardinality({k \in DOMAIN Mentions : plannerTargetFor(Mentions[k]) = target})
             /\ \A k \in 1 .. n :
                  plan.invocations[k].risk # "READ_ONLY" => plan.invocations[k].approval # "AUTO"
    /\ stage = "GRAPH_INVALID" /\ validateExecutionPlanGraph(Provisional(Raw)) =>
         LET edges == Pairs(Raw.dependencies)
         IN  Circular(edges) \/ \E v \in IdsOf(Raw) : LongestTo(MaxInvocations, edges, v) > MaxDepth
=============================================================================

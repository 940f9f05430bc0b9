---------------------------- MODULE MCAlgorithms ----------------------------
(***************************************************************************)
(* The loops and walks the other modules use by what they compute.  A      *)
(* behaviour runs one of them on one input.  With them, the context of an  *)
(* invocation from its retrieval through the packer's loops, while access  *)
(* to its sources changes.                                                 *)
(***************************************************************************)
EXTENDS Loops, Paging, SemanticPlanner, ContextBundle

VARIABLE part

MCItem(g, t, c, x) ==
  [group |-> g, tokens |-> t, classification |-> c, text |-> x, relevant |-> TRUE,
   sensitive |-> x \in {1, 2, 4}, message |-> x = 1, superseded |-> x = 7,
   history |-> IF x = 2 THEN 4 ELSE 0,
   scope |-> IF g \in {"PROJECT_OBJECT", "PROJECT_MEMORY"} THEN "PROJECT" ELSE "PERSONAL"]

(* A secret in the message, in the conversation's title and in an earlier  *)
(* message, a history that is longer than what is retrieved of it, an item *)
(* an external model may not see, one that is superseded, a text that      *)
(* occurs twice, sources of a project, and more than the budget takes.     *)
MCCandidates ==
  <<MCItem("IMMEDIATE", 1, "PRIVATE", 1), MCItem("IMMEDIATE", 1, "PRIVATE", 2),
    MCItem("L1_RAW", 1, "PRIVATE", 4), MCItem("L2_COMPACTED", 1, "PRIVATE", 5),
    MCItem("PROJECT_OBJECT", 2, "INTERNAL", 6), MCItem("PROJECT_MEMORY", 1, "PRIVATE", 7),
    MCItem("PERSONAL_MEMORY", 1, "RESTRICTED", 8), MCItem("ARTIFACT", 2, "INTERNAL", 6),
    MCItem("DEPENDENCY", 1, "INTERNAL", 9)>>

(* Three buckets: every mix of types and expiries, empty, partly held and  *)
(* full.  A TOPUP bucket has no expiry, which is later than any.           *)
MCRows(id) ==
  {[type |-> t, total |-> 2, spent |-> s, reserved |-> r, expiresAt |-> e, createdAt |-> id] :
     t \in {"MONTHLY", "TOPUP"}, s \in {0, 1}, r \in {0, 1}, e \in {1, 2}}

MCBucketTables ==
  {f \in [Ids -> UNION {MCRows(id) : id \in Ids}] :
     \A id \in Ids : f[id] \in MCRows(id) /\ (f[id].type = "TOPUP" => f[id].expiresAt = 2)}

(* Four invocations numbered against the edges in two of the three shapes, *)
(* so that a decision has to travel backwards through the passes.          *)
Edges(shape) ==
  CASE shape = "chain" -> {<<1, 2>>, <<2, 3>>, <<3, 4>>}
    [] shape = "backwards" -> {<<4, 3>>, <<3, 2>>, <<2, 1>>}
    [] shape = "diamond" -> {<<4, 2>>, <<4, 3>>, <<2, 1>>, <<3, 1>>}

Joins == {"ALL_REQUIRED", "ANY_REQUIRED", "ALL_SETTLED"}

MCDefinitions ==
  {[deps |-> {[from |-> e[1], to |-> e[2], kind |-> k, outcome |-> "PASS"] : e \in Edges(shape)},
    approval |-> [i \in Invocations |-> IF i = 2 THEN "CONFIRM" ELSE "AUTO"],
    failure |-> [i \in Invocations |-> "CONTINUE"],
    join |-> [i \in Invocations |-> IF i \in {1, 3} THEN j ELSE l],
    maxParallelism |-> 2] :
     shape \in {"chain", "backwards", "diamond"},
     k \in {"ALWAYS", "ON_SUCCESS", "ON_FAILURE", "OUTCOME"}, j \in Joins, l \in Joins}

(* Any mix of invocations that finished, run or have not been decided.     *)
MCSituations ==
  {[status |-> s, outcome |-> [i \in Invocations |-> o]] :
     s \in [Invocations -> {"PENDING", "RUNNING", "COMPLETED", "FAILED", "SKIPPED"}],
     o \in {"PASS", "FAIL"}}

(* Prices of whole and of half microRUB a token.                           *)
MCPrices ==
  {[input |-> i, output |-> o, read |-> r, write |-> w] :
     i \in {2, 3}, o \in {1, 4}, r \in {0, 1, 4}, w \in {0, 1, 2}}

MCBudgetInputs ==
  {[preferred |-> p, minimum |-> m, modelMax |-> x, tokens |-> 3, available |-> a,
    maxReservation |-> l, price |-> price, safety |-> s] :
     p \in {5, 7}, m \in {1, 3}, x \in {2, 6, 9}, a \in {-1, 0, 6, 11, 20}, l \in {0, 9, 16},
     price \in MCPrices, s \in {0, 1}}

(* Three rows with every mix of the fields a listing orders by.  The       *)
(* listing of notes is left out: see the hazards.                          *)
MCTable(R(_)) ==
  {f \in [RowIds -> UNION {R(i) : i \in RowIds}] : \A i \in RowIds : f[i] \in R(i)}

MCFields(i, gs, ds, ts, cs) ==
  {[id |-> i, group |-> g, due |-> d, time |-> t, created |-> c, listed |-> TRUE] :
     g \in gs, d \in ds, t \in ts, c \in cs}

MCTask(i) == MCFields(i, {"TODO", "DONE"}, {0, 1}, {1, 2}, {1, 2})
MCInboxRow(i) == MCFields(i, {"AI_THREAD", "DIRECT"}, {0}, {1, 2}, {1})
MCPlainRow(i) == MCFields(i, {"ROW"}, {0}, {1, 2}, {1})

MCRowsOf(l) ==
  CASE l = "TASKS" -> MCTable(MCTask)
    [] l = "INBOX" -> MCTable(MCInboxRow)
    [] OTHER -> MCTable(MCPlainRow)

MCListings ==
  {[of |-> "TASKS", status |-> s] : s \in {"ANY", "TODO", "DONE"}}
  \cup {[of |-> l, status |-> "ANY"] :
         l \in {"REMINDERS", "LISTS", "INBOX", "NOTICES", "BLOCKED", "MESSAGES"}}

(* Every graph of four steps and up to six edges, and every graph of three *)
(* steps with two kinds of edges: past the limits on edges, fan-out and    *)
(* depth.  Two steps have the same key.                                    *)
MCMention(i) == [id |-> i, from |-> 2 * i, to |-> 2 * i + 1,
                 kind |-> CASE i = 1 -> "SYSTEM_AGENT" [] i = 2 -> "AI_AUTO" [] OTHER -> "AI_MODEL"]

MCStep(i, key) ==
  [id |-> i, key |-> key, hint |-> [kind |-> "MENTION", occurrence |-> i], risk |-> "READ_ONLY",
   join |-> "ALL_REQUIRED", outputs |-> <<[name |-> 1, type |-> "TEXT"]>>, criteria |-> <<>>]

MCEdge(k, f, t, kind) == [id |-> k, from |-> f, to |-> t, kind |-> kind, outcome |-> "", bindings |-> <<>>]

MCAnswer(steps, edges, mentions) ==
  [raw |-> [decision |-> "PLAN", confident |-> TRUE, invocations |-> steps, dependencies |-> edges],
   mentions |-> mentions]

MCArcList ==
  FlattenSeq([i \in 1 .. 4 |-> FlattenSeq([j \in 1 .. 4 |->
    <<<<i, j, "ON_SUCCESS">>, <<i, j, "ALWAYS">>>>])])

MCGraph(ids, keys, edges) ==
  MCAnswer([k \in DOMAIN ids |-> MCStep(ids[k], keys[k])],
           LET s == SelectSeq(MCArcList, LAMBDA a : a \in edges)
           IN  [k \in DOMAIN s |-> MCEdge(k, s[k][1], s[k][2], s[k][3])],
           {MCMention(i) : i \in Range(ids)})

MCArcs(n, kinds) == {a \in (1 .. n) \X (1 .. n) \X kinds : a[1] # a[2]}

MCGraphs ==
  {MCGraph(<<1, 2, 3, 4>>, <<2, 1, 1, 2>>, E) :
     E \in {S \in SUBSET MCArcs(4, {"ON_SUCCESS"}) : Cardinality(S) <= 6}}
  \cup {MCGraph(<<3, 2, 1>>, <<1, 2, 1>>, E) :
         E \in {S \in SUBSET MCArcs(3, {"ALWAYS", "ON_SUCCESS"}) : Cardinality(S) <= 5}}

(* A step judged by an evaluator, whose verdict decides the third.         *)
MCJudge(mode, input) ==
  [id |-> 2, key |-> 1, hint |-> [kind |-> "EVALUATOR"], risk |-> "FINANCIAL", join |-> "ALL_REQUIRED",
   outputs |-> <<[name |-> 1, type |-> "JSON"]>>,
   criteria |-> <<[id |-> 2, mode |-> mode, inputName |-> input, pointer |-> TRUE]>>]

MCBind(input, output, type) == [inputName |-> input, sourceOutputName |-> output, type |-> type]

MCJudged(judge, outcome, binding) ==
  MCAnswer(<<MCStep(1, 2), judge, [MCStep(3, 1) EXCEPT !.risk = "DESTRUCTIVE"]>>,
           <<[MCEdge(1, 1, 2, "DATA") EXCEPT !.bindings = <<binding>>],
             [MCEdge(2, 2, 3, "OUTCOME") EXCEPT !.outcome = outcome]>>,
           {MCMention(1), MCMention(3)})

MCJudgedAnswers ==
  {MCJudged(MCJudge(m, i), o, MCBind(j, t[1], t[2])) :
     m \in Modes, i \in {0, 1}, o \in {"PASS", "FAIL", "MAYBE", ""}, j \in {1, 2},
     t \in {<<1, "TEXT">>, <<1, "JSON">>, <<2, "TEXT">>}}

(* Answers about two steps that break one rule each, or none.              *)
MCTwo == MCGraph(<<1, 2>>, <<1, 1>>, {<<1, 2, "ON_SUCCESS">>})

MCBroken ==
  {[MCTwo EXCEPT !.mentions = @ \cup {[MCMention(3) EXCEPT !.kind = "USER"]}],
   [MCTwo EXCEPT !.mentions = @ \cup {MCMention(3)}],
   [MCTwo EXCEPT !.mentions = @ \cup {[MCMention(3) EXCEPT !.from = 3, !.to = 5]}],
   [MCTwo EXCEPT !.mentions = {MCMention(1)}],
   [MCTwo EXCEPT !.raw.confident = FALSE],
   [MCTwo EXCEPT !.raw.decision = "CLARIFY"],
   [MCTwo EXCEPT !.raw.decision = "CLARIFY", !.raw.invocations = <<>>, !.raw.dependencies = <<>>],
   [MCTwo EXCEPT !.raw.invocations = <<>>],
   [MCTwo EXCEPT !.raw.invocations[2].hint.occurrence = 1],
   [MCTwo EXCEPT !.raw.invocations[2].id = 1],
   [MCTwo EXCEPT !.raw.invocations[2].join = "ANY_REQUIRED"],
   [MCTwo EXCEPT !.raw.invocations[2].risk = "UNKNOWN"],
   [MCTwo EXCEPT !.raw.invocations[1].outputs = @ \o @],
   [MCTwo EXCEPT !.raw.dependencies = @ \o @],
   [MCTwo EXCEPT !.raw.dependencies[1].to = 4],
   [MCTwo EXCEPT !.raw.dependencies[1].kind = "DATA"],
   [MCTwo EXCEPT !.raw.dependencies[1].bindings = <<MCBind(1, 1, "TEXT")>>]}

MCAnswers == MCGraphs \cup MCJudgedAnswers \cup MCBroken

AllocationIdle ==
  /\ rows = <<>> /\ amount = 0 /\ queue = <<>> /\ remaining = 0
  /\ taken = <<>> /\ settled = <<>> /\ phase = "idle"

ReadinessIdle ==
  /\ loopDef = <<>> /\ before = <<>> /\ outcomes = <<>> /\ stateById = <<>>
  /\ pass = 0 /\ index = 0 /\ changed = FALSE /\ done = FALSE

(* The budget's properties speak of an input: any will do.                 *)
BudgetIdle ==
  /\ ask = CHOOSE a \in MCBudgetInputs : TRUE
  /\ low = 0 /\ high = 0 /\ chosen = 0 /\ verdict = "idle" /\ billed = -1

PagingIdle ==
  /\ listing = <<>> /\ shelf = <<>> /\ pageSize = 0 /\ cursorAt = <<>>
  /\ shown = <<>> /\ walk = "OPEN" /\ touched = {}

PlannerIdle ==
  /\ answer = <<>> /\ stage = "IDLE" /\ plan = NoPlan
  /\ order = <<>> /\ line = <<>> /\ indegree = <<>> /\ depth = <<>>

AlgorithmsInit ==
  /\ part \in {"allocation", "readiness", "budget", "paging", "planner", "context"}
  /\ ContextInit
  /\ IF part = "allocation" THEN AllocationInit ELSE AllocationIdle
  /\ IF part = "readiness" THEN ReadinessInit ELSE ReadinessIdle
  /\ IF part = "budget" THEN BudgetInit ELSE BudgetIdle
  /\ IF part = "paging" THEN PagingInit ELSE PagingIdle
  /\ IF part = "planner" THEN PlannerInit ELSE PlannerIdle

AlgorithmsNext ==
  /\ UNCHANGED part
  /\ IF part = "context" THEN ContextNext ELSE UNCHANGED contextVars
  /\ \/ /\ part = "allocation" /\ AllocationNext
        /\ UNCHANGED <<readinessVars, budgetVars, pagingVars, plannerVars>>
     \/ /\ part = "readiness" /\ ReadinessNext
        /\ UNCHANGED <<allocationVars, budgetVars, pagingVars, plannerVars>>
     \/ /\ part = "budget" /\ BudgetNext
        /\ UNCHANGED <<allocationVars, readinessVars, pagingVars, plannerVars>>
     \/ /\ part = "paging" /\ PagingNext
        /\ UNCHANGED <<allocationVars, readinessVars, budgetVars, plannerVars>>
     \/ /\ part = "planner" /\ PlannerNext
        /\ UNCHANGED <<allocationVars, readinessVars, budgetVars, pagingVars>>
     \/ /\ part = "context"
        /\ UNCHANGED <<allocationVars, readinessVars, budgetVars, pagingVars, plannerVars>>

AlgorithmsSpec ==
  /\ AlgorithmsInit
  /\ [][AlgorithmsNext]_<<allocationVars, readinessVars, budgetVars, pagingVars, plannerVars,
                          contextVars, part>>
=============================================================================

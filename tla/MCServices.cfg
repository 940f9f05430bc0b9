SPECIFICATION ServicesSpec
CONSTANTS
  Calls = {c1, c2, c3}
  MaxSlots = 2
  MaxQueue = 1
  Threshold = 2
  MaxGeneration = 2
  Accounts = {u1, u2}
  Authors = {u1}
  HandleNames = {n1}
  Claimers = {k1, k2}
  MaxHandles = 2
  ProjectIds = {1, 2}
  Owner = 1
  People = {1, 2}
  ProjectRequests = {q1, q2}
  Plans <- MCPlans
  ExternalMax = 1
  Roles = {"ADMIN"}
  MaxOpens = 1
  MaxRows = 3
  OpHandlers = {h1, h2}
  MaxRounds = 3
  MaxTokens = 2
  MaxConsents = 1
  Kinds = {"EVALUATOR", "VIMLA"}
  Modes = {"DETERMINISTIC", "AI_EVALUATOR", "HUMAN_APPROVAL"}
  MaxRuns = 2
  MaxVersions = 2
  Occurrences = {1}
  Senders = {x1, x2}
  MaxTries = 2
  Wants <- MCWants
  MaxEdits = 0
  MaxStops = 1
  Compactors = {z1, z2}
  Builders = {s1}
  History = 3
  Editable = {1}
  Trigger = 2
  RecentTail = 1
  Segment = 2
  MaxStates = 2
  Versions = {v1, v2}
  Terms = {1, 2}
  LowMargin = {2}
  AdminCalls = {b1, b2}
  Shoppers = {g1}
  MaxNow = 2
  MaxCalls = 4
CHECK_DEADLOCK FALSE
INVARIANTS
  ProfilesMatchHandles
  PlanLocksHold
  RunTellsTruth
  AttemptsAgree
  EmailedOnce
  SummaryIsWhole
  SoldTermsStand
PROPERTIES
  SlotsAreExact

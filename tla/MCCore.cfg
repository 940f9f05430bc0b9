SPECIFICATION CoreSpec
CONSTANTS
  b1 = b1
  b2 = b2
  r1 = r1
  r2 = r2
  c1 = c1
  c2 = c2
  Nobody = Nobody
  Buckets <- MCBuckets
  Requests <- MCRequests
  Callers <- MCCallers
  MaxAmount = 2
  MaxTime = 1
  Period = 1
  Invocations = {1, 2, 3}
  Outcomes = {"PASS", "FAIL"}
  NoOutcome = "none"
  Plans <- GraphPlans
  Results = {"COMPLETED", "FAILED", "BLOCKED_INSUFFICIENT_USAGE", "WAITING_FOR_USAGE_CAPACITY"}
  MaxAttempts = 1
  MaxRuns = 2
  MaxCrashes = 0
  w1 = w1
  w2 = w2
  w3 = w3
  Indexers = {w1, w2, w3}
  GenerationOf <- MCGenerationOf
  Searches = {s1}
  ActiveLeases = 1
  IndexAttempts = 2
  CallsAMinute = 1
  MaxTouches = 2
  MaxLeaseTokens = 2
  Messages = {m1}
  Disclosed = {d1}
  PersonalSlots = {s1}
  ProjectSlots = {p1}
  Facts = {f1, f2}
  MaxActive = 1
  MaxItems = 2
  MaxVersion = 2
SYMMETRY MCSymmetry
CHECK_DEADLOCK FALSE
INVARIANTS
  Solvent
  ClosedPlanIsQuiet
  VerdictAgrees
  IndexIsCurrent
PROPERTIES
  BooksAgree
  RunsAreJustified
  UserWordStands

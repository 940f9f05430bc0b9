SPECIFICATION AlgorithmsSpec
CONSTANTS
  Ids = {1, 2, 3}
  BucketTables <- MCBucketTables
  LargestPlan = 4
  Invocations = {1, 2, 3, 4}
  Outcomes = {"PASS", "FAIL"}
  NoOutcome = "none"
  Definitions <- MCDefinitions
  Situations <- MCSituations
  PerMillion = 2
  PerWhole = 4
  BudgetInputs <- MCBudgetInputs
  RowIds = {1, 2, 3}
  Listings <- MCListings
  PageSizes = {1, 2}
  RowsOf <- MCRowsOf
  Newest = 3
  MaxTouches = 1
  Answers <- MCAnswers
  MaxInvocations = 4
  MaxDependencies = 5
  MaxItems = 2
  MaxDepth = 2
  MaxFanOut = 3
  MaxWidth = 3
  Candidates <- MCCandidates
  Audience = {u1}
  Actor = u1
  Takers = {t1, t2}
  Runners = {y1, y2}
  ExternalTarget = TRUE
  Budget = 4
  SourceCap = 2
  RawTrigger = 3
  KindLimit = 2
  MaxCandidates = 7
  MaxChanges = 1
CHECK_DEADLOCK FALSE
INVARIANTS
  LoopsAreGreedy
  LoopSettles
  BudgetIsGreatest
  ListingComplete
  PlanIsSound
  ContextIsFrozen

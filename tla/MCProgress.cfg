SPECIFICATION ProgressSpec
CONSTANTS
  Invocations = {1, 2}
  Outcomes = {"PASS"}
  NoOutcome = "none"
  Plans <- RecoveryPlans
  Results = {"COMPLETED", "FAILED"}
  MaxAttempts = 2
  MaxRuns = 2
  MaxCrashes = 1
  Planners = {q1, q2, q3}
  Contents = {x, y}
CHECK_DEADLOCK FALSE
INVARIANTS
  OneLiveRun
PROPERTIES
  HolderDecides
  PlanFinishes
  PlanningEnds

SPECIFICATION Spec
CONSTANTS
  Nobody = Nobody
  Buckets = {p1, p2}
  Requests = {}
  Callers = {}
  MaxAmount = 0
  MaxTime = 1
  Period = 1
  Kinds = {"SUBSCRIPTION"}
  Gross = 4
  Grant = 2
  Redelivery = FALSE
  OrderSteps = {"AUTHORIZED", "CONFIRMED", "REFUNDED"}
CHECK_DEADLOCK FALSE
INVARIANTS
  OneActiveSubscription

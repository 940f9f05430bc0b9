SPECIFICATION FairSpec
CONSTANTS
  Nobody = Nobody
  Buckets = {p1}
  Requests = {r1}
  Callers = {c1}
  MaxAmount = 1
  MaxTime = 1
  Period = 1
  Kinds = {"SUBSCRIPTION", "TOPUP"}
  Gross = 2
  Grant = 2
  Redelivery = TRUE
  OrderSteps = {"AUTHORIZED", "CONFIRMED", "REJECTED", "CANCELED", "REFUNDED", "PARTIAL_REFUNDED"}
CHECK_DEADLOCK FALSE
INVARIANTS
  GrantIffPaid
PROPERTIES
  RefundTakesAllUnheld
  ConfirmedIsFulfilled

SPECIFICATION AiSpec
CONSTANTS
    Requests <- AllRequests
    ChatRequests <- MCChatRequests
    Allowance = 4
    MinCost = 1
    PrefCost = 2
    MaxStalls = 0
    Streams = {s1, s2}
    Targets = {m1}
    MaxConcurrent = 1
    MaxCrashes = 1
    Invs = {i1, i2}
    MaxTurns = 1
    MaxPaid = 2
    MaxSettled = 4
    MaxCommitted = 3
    Workers = {w1, w2}
    MaxStarts = 2
    MaxDeaths = 0
CHECK_DEADLOCK FALSE
INVARIANT PlanSpendBounded

SPECIFICATION AiSpec
CONSTANTS
    Requests <- AllRequests
    ChatRequests <- MCChatRequests
    Allowance = 2
    MinCost = 1
    PrefCost = 2
    MaxStalls = 1
    Streams = {s1, s2}
    Targets = {m1}
    MaxConcurrent = 1
    MaxCrashes = 1
    Invs = {i1}
    MaxTurns = 1
    MaxPaid = 2
    MaxSettled = 4
    MaxCommitted = 3
    Workers = {w1}
    MaxStarts = 2
    MaxDeaths = 1
CHECK_DEADLOCK FALSE
INVARIANTS
    LedgerAgrees
    TurnsArePaidOnce
PROPERTIES
    RequestsEnd

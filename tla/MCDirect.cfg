CONSTANTS
    Ids = {"h", "i", "o"}
    Peers = {p1, p2}
    MaxEpoch = 2
    MaxRevoked = 1
    Tabs = {t1, t2}
    Invokes = {"i"}
    OutputOf <- MCOutputOf
    Incoming = {"m"}
    Wishes <- MCWishes
    MaxVersion = 2
    MaxRev = 4
    MaxMishaps = 1
    BootTabs = {k1, k2}
    DeviceIds = {d1, d2}
    Otks = {1}
    Readers = {r1, r2}
    MaxLeases = 2
    MaxWipes = 1
SPECIFICATION MCSpec
INVARIANTS DiscardedStaysOut NoRatchetFork DeviceKeysHold
SYMMETRY MCSymmetry
CHECK_DEADLOCK FALSE

\* Two clients, a quota of two in a window of two ticks, one restart.
SPECIFICATION LimiterSpec
CONSTANTS
    Clients = {c1, c2}
    RateLimitMax = 2
    Window = 2
    MaxNow = 5
    MaxHits = 4
    MaxBoots = 1
SYMMETRY ClientSymmetry
INVARIANTS
    BurstBound
    RefusalIsEarned
CHECK_DEADLOCK FALSE

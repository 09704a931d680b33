CONSTANTS
    MAX_THREADS = 2
    LL_SIZE = 6
    EPOCH_FREQ = 1
    EMPTY_FREQ = 2
    UINT64_MAX = 99
    MaxEpoch = 3
    Values = {1, 2, 3}
    INT_MIN = 0
    INT_MAX = 9
    MARK = 100
    WORD = 3
    FFS = 3
    Requests <- MCRequests
    MaxCalls <- MCMaxCalls
    Initial <- MCInitial
    Builds = {"eadr", "adr"}
    MaxActive <- MCMaxActive
    MaxCrashes <- MCMaxCrashes
    MaxStops <- MCMaxStops
SPECIFICATION RecoveryFairSpec
INVARIANTS RecoveryTypeOK RecoveredWell EadrInv
PROPERTIES ImplementsLossy LogsApplied RecoveryEnds

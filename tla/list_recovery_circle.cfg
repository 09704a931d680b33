CONSTANTS
    MAX_THREADS = 2
    LL_SIZE = 10
    EPOCH_FREQ = 64
    EMPTY_FREQ = 128
    UINT64_MAX = 99
    MaxEpoch = 1
    Values = {1, 2, 3}
    INT_MIN = 0
    INT_MAX = 9
    MARK = 100
    WORD = 5
    FFS = 4
    Requests <- TwoRequests
    MaxCalls <- TwoMaxCalls
    Initial <- TwoInitial
    Builds = {"adr"}
    MaxActive <- TwoMaxActive
    MaxCrashes <- MCMaxCrashes
    MaxStops <- MCMaxStops
SPECIFICATION RecoveryFairSpec
PROPERTY RecoveryEnds

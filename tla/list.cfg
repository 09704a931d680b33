CONSTANTS
    MAX_THREADS = 2
    LL_SIZE = 12
    EPOCH_FREQ = 1
    EMPTY_FREQ = 1
    UINT64_MAX = 99
    MaxEpoch = 4
    Values = {1, 2, 3}
    INT_MIN = 0
    INT_MAX = 9
    MARK = 100
    WORD = 4
    FFS = 2
    Requests <- MCRequests
    MaxCalls <- MCMaxCalls
    Initial <- MCInitial
SPECIFICATION FairSpec
INVARIANTS ListTypeOK Linked HeldReached Protected NodeOwners EbrInv ListInv
PROPERTIES ImplementsSet CallsReturn

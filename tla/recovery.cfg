CONSTANTS
    NProducers = 1
    NConsumers = 1
    Q_SIZE = 2
    ULONG_MAX = 99
    MaxTicket = 6
    Items = {x, y}
    NoItem = NoItem
    NoThread = NoThread
    MaxActive = 2
    MaxAdrActive = 1
    Builds = {"eadr", "tx", "exp"}
SPECIFICATION ActiveSpec
INVARIANT RecoveredCounters
PROPERTIES AdrImplementsDurableFifo CleanRestart
SYMMETRY Symmetry
CHECK_DEADLOCK FALSE

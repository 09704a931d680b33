CONSTANTS
    NProducers = 2
    NConsumers = 3
    Q_SIZE = 4
    ULONG_MAX = 99
    MaxTicket = 3
    Items = {x}
    NoItem = NoItem
    NoThread = NoThread
    MaxActive = 2
SPECIFICATION ActiveSpec
INVARIANTS NoHoles RecInv
PROPERTY NoPushMadeUp
CHECK_DEADLOCK FALSE

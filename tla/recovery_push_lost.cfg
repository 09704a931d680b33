CONSTANTS
    NProducers = 2
    NConsumers = 1
    Q_SIZE = 2
    ULONG_MAX = 99
    MaxTicket = 3
    Items = {x, y}
    NoItem = NoItem
    NoThread = NoThread
    MaxActive = 2
SPECIFICATION ActiveSpec
PROPERTY ImplementsDurableFifo
SYMMETRY Symmetry
CHECK_DEADLOCK FALSE

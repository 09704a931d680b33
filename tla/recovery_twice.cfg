CONSTANTS
    NProducers = 1
    NConsumers = 2
    Q_SIZE = 4
    ULONG_MAX = 99
    MaxTicket = 3
    Items = {x}
    NoItem = NoItem
    NoThread = NoThread
    MaxActive = 2
SPECIFICATION ActiveSpec
PROPERTY CleanRestart
CHECK_DEADLOCK FALSE

CONSTANTS
    NProducers = 1
    NConsumers = 1
    Q_SIZE = 2
    ULONG_MAX = 99
    MaxTicket = 2
    Items = {x}
    NoItem = NoItem
    NoThread = NoThread
    MaxActive = 2
    MaxAdrActive = 2
    Builds = {"tx"}
SPECIFICATION ActiveSpec
PROPERTY AdrImplementsDurableFifo
CHECK_DEADLOCK FALSE

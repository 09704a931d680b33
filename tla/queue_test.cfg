CONSTANTS
    NProducers = 2
    NConsumers = 2
    Q_SIZE = 1
    ULONG_MAX = 99
    MaxTicket = 2
    Items = {0, 1}
    NoItem = NoItem
    N = 1
SPECIFICATION TestSpec
INVARIANTS ExactlyOnce PoppedIsMissed
PROPERTY Termination

CONSTANTS
    NProducers = 2
    NConsumers = 2
    Q_SIZE = 1
    ULONG_MAX = 99
    MaxTicket = 2
    Items = {x, y}
    NoItem = NoItem
SPECIFICATION Spec
INVARIANTS TypeOK SlotExclusion CachedBoundsSound Inv
PROPERTY ImplementsFifo
SYMMETRY Symmetry
CHECK_DEADLOCK FALSE

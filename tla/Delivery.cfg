SPECIFICATION FairSpec
CONSTANTS
    w1 = w1
    w2 = w2
    Delivery = {1, 2, 3, 4}
    Ios = {1, 2, 4}
    Unsendable = {}
    Configured = TRUE
    Worker = {w1}
    BatchSize = 2
    MaxFaults = 2
INVARIANTS
    TypeOK
    DuplicatesOnlyFromFaults
    SentWasPushed
PROPERTIES
    SettledIsFinal
    EveryDeliverySettles
    ImplementsQueue

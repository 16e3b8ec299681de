SPECIFICATION Spec
CONSTANTS
    w1 = w1
    w2 = w2
    Delivery = {1, 2, 3}
    Ios = {1, 2}
    Unsendable = {2}
    Configured = TRUE
    Worker = {w1, w2}
    BatchSize = 2
    MaxFaults = 1
SYMMETRY WorkerSymmetry
INVARIANTS
    DuplicatesOnlyFromFaults
    SentWasPushed
PROPERTY
    SettledIsFinal

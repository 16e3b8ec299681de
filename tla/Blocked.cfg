SPECIFICATION FairSpec
CONSTANTS
    w1 = w1
    w2 = w2
    Delivery = {1, 2}
    Ios = {1, 2}
    Unsendable = {1}
    Configured = TRUE
    Worker = {w1}
    BatchSize = 1
    MaxFaults = 0
PROPERTY
    EveryDeliverySettles

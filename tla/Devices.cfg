SPECIFICATION Spec
CONSTANTS
    victoria = victoria
    trams = trams
    d1 = d1
    d2 = d2
    Line = {victoria, trams}
    SupportedLine = {victoria, trams}
    Horizon = 2
    OperationalDay <- OneDay
    Device = {d1, d2}
    LinePreferences <- SeverePreferences
    Response <- FullResponses
    Faults = TRUE
SYMMETRY DeviceSymmetry
PROPERTIES
    StatesClearedOnlyAfterRecovery
    ImplementsFeed

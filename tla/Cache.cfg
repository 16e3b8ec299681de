SPECIFICATION Spec
CONSTANTS
    victoria = victoria
    central = central
    tomorrow = tomorrow
    q1 = q1
    q2 = q2
    Key = {victoria, central, tomorrow}
    DateOf <- Dates
    MaxEntries = 2
    TodayTtl = 1
    PastTtl = 3
    CurrentDay <- Days
    Lag = 1
    Request = {q1, q2}
    Horizon = 4
    MaxRows = 1
INVARIANTS
    TypeOK
    CacheBounded
    MissingRowsAreRecent
PROPERTIES
    LiveEntriesLeaveOnlyWhenFull
SYMMETRY Symmetry

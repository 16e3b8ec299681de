SPECIFICATION Spec
CONSTANTS
    victoria = victoria
    trams = trams
    d1 = d1
    d2 = d2
    Line = {victoria, trams}
    SupportedLine = {victoria}
    Horizon = 4
    OperationalDay <- LongSecondDay
    Device = {d1}
    LinePreferences <- NoPreferences
    Response <- UndisruptedResponses
    Faults = TRUE
INVARIANTS
    KnownLinesHaveBaseline
    SnapshotKeysUnique
    ConsecutiveSnapshotsDiffer

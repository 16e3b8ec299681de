SPECIFICATION Spec
CONSTANTS
    victoria = victoria
    Line = {victoria}
    SupportedLine = {victoria}
    Horizon = 4
    OperationalDay <- SpringDays
    SummerTime = {1, 2, 3}
    Instant <- Instants
    Device = {}
    LinePreferences <- NoPreferences
    Response <- Responses
    Faults = TRUE
INVARIANTS
    HistoryIsTheDay
    WalkListsChanges
    AlertsAreOnTheTimeline
    RecoveriesAreOnTheTimeline
    SummaryCountsEachDisruptionOnce
PROPERTIES
    TimelineOnlyGrows
CHECK_DEADLOCK FALSE

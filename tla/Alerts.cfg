SPECIFICATION Spec
CONSTANTS
    victoria = victoria
    trams = trams
    d1 = d1
    d2 = d2
    Line = {victoria}
    SupportedLine = {victoria}
    Horizon = 4
    OperationalDay <- LongSecondDay
    Device = {d1}
    LinePreferences <- MixedPreferences
    Response <- FourStatusResponses
    Faults = TRUE
INVARIANTS
    TypeOK
    RecoveryFollowsAlert
    StatesJustified
    EventsBackedBySnapshots
    AlertedAgainOnlyAfterWorsening
PROPERTIES
    FinishedPollAlertsEveryMatch
    FinishedPollSettlesRecoveries
    ImplementsFeed

-------------------------- MODULE MCSnapshotWorker --------------------------
(***************************************************************************)
(* Instances of SnapshotWorker for TLC.                                    *)
(***************************************************************************)
EXTENDS SnapshotWorker, TLC

CONSTANTS victoria, trams, d1, d2

Is(severity) == {[severity |-> severity, text |-> 0, info |-> 0]}

\* All polls but the first fall on the second day.
LongSecondDay == [t \in Time |-> IF t <= 1 THEN 0 ELSE 1]

OneDay == [t \in Time |-> 0]

Responses(statuses) == UNION {[L -> statuses] : L \in SUBSET Line}

\* Good service, minor delays, severe delays and a planned closure.
FourStatuses == {Is(GoodService), Is(MinorDelays), Is(SevereDelays),
                 Is(PlannedClosure)}

FourStatusResponses == Responses(FourStatuses)

\* No disruption, so that the snapshots are all a poll has to store.
UndisruptedResponses == Responses({Is(GoodService), Is(PlannedClosure)})

\* TfL reports every line, each disrupted or not.
FullResponses == [Line -> {Is(GoodService), Is(SevereDelays)}]

Always(threshold) == [enabled |-> TRUE, threshold |-> threshold,
                      recoveries |-> TRUE, open |-> Time]

\* Schedules that are closed at the odd times.
EvenTimes(threshold) ==
    [Always(threshold) EXCEPT !.open = {t \in Time : t % 2 = 0}]

MixedPreferences ==
    {[l \in Line |-> Always("severe_delays")],
     [l \in Line |-> EvenTimes("minor_delays")],
     Empty}

SeverePreferences == {[l \in Line |-> Always("severe_delays")]}

NoPreferences == {}

DeviceSymmetry == Permutations(Device)
=============================================================================

----------------------------- MODULE SnapshotLog -----------------------------
(***************************************************************************)
(* The queries and the batch of snapshots one poll of TfL adds to the      *)
(* line_status_snapshots table: app/line_status/repository.py and the      *)
(* first half of _capture_snapshots_once in                                *)
(* app/workers/line_status_snapshot_worker.py.                             *)
(*                                                                         *)
(* Time counts polls' timestamps (whole seconds); OperationalDay[t] is the *)
(* operational day of time t, any function that never goes back.           *)
(***************************************************************************)
EXTENDS LineStatuses

CONSTANTS
    Line,            \* every line TfL may report
    SupportedLine,   \* SUPPORTED_LINE_IDS
    Horizon,         \* bound: the last time at which a poll may start
    OperationalDay   \* the operational day of each time

Time == 1 .. Horizon

ASSUME SupportedAssumption == SupportedLine \subseteq Line

ASSUME HorizonAssumption == Horizon \in Nat

ASSUME DayAssumption ==
    /\ OperationalDay \in [Time -> Nat]
    /\ \A s, t \in Time : s <= t => OperationalDay[s] <= OperationalDay[t]

Snapshot == [line : Line, observed : Time, statuses : SUBSET Status]

\* The rows the max(observed_at) join keeps.
Newest(rows) == {s \in rows : \A r \in rows : r.observed <= s.observed}

RowsInDay(log, line, day) ==
    {s \in log : s.line = line /\ OperationalDay[s.observed] = day}

RowsBeforeDay(log, line, day) ==
    {s \in log : s.line = line /\ OperationalDay[s.observed] < day}

\* Mutant of LatestInDay: min(observed_at).
FirstInDay(log, line, day) ==
    {s \in RowsInDay(log, line, day) :
        \A r \in RowsInDay(log, line, day) : s.observed <= r.observed}

LatestInDay(log, line, day) == Newest(RowsInDay(log, line, day))

LatestBeforeDay(log, line, day) == Newest(RowsBeforeDay(log, line, day))

SnapshotOf(line, at, statuses) ==
    [line |-> line, observed |-> at, statuses |-> statuses]

\* A response maps the lines TfL reported to their statuses.
Unchanged(log, response, line, at) ==
    \E s \in LatestInDay(log, line, OperationalDay[at]) :
        s.statuses = response[line]

Fresh(log, response, at) ==
    {SnapshotOf(l, at, response[l]) :
        l \in {k \in DOMAIN response : ~Unchanged(log, response, k, at)}}

\* Mutant of CarriedForward: no baseline for a line TfL left out.
NothingCarriedForward(log, response, at) == {}

\* Mutant of CarriedForward: the lines TfL reported are carried forward too.
ReportedCarriedForward(log, response, at) ==
    LET day == OperationalDay[at]
    IN  UNION {{SnapshotOf(l, at, s.statuses) :
                    s \in LatestBeforeDay(log, l, day)} : l \in SupportedLine}

\* A supported line that TfL left out, and that has no snapshot this day,
\* starts the day with a copy of its latest one.
CarriedForward(log, response, at) ==
    LET day     == OperationalDay[at]
        missing == {l \in SupportedLine \ DOMAIN response :
                        LatestInDay(log, l, day) = {}}
    IN  UNION {{SnapshotOf(l, at, s.statuses) :
                    s \in LatestBeforeDay(log, l, day)} : l \in missing}

Batch(log, response, at) ==
    Fresh(log, response, at) \cup CarriedForward(log, response, at)

\* Mutant of ActiveCandidates: only a line's first snapshot of the day counts.
FirstOfDayCandidates(log, response, at) ==
    UNION {ActiveDisruption(s) : s \in
        {s \in Fresh(log, response, at) :
            LatestInDay(log, s.line, OperationalDay[at]) = {}}}

\* The candidates of the changes, and of the disruptions still going on.
ChangeCandidates(log, response, at) ==
    UNION {UNION {Detected(p, s) :
                    p \in LatestInDay(log, s.line, OperationalDay[at])} :
                s \in Fresh(log, response, at)}

ActiveCandidates(log, response, at) ==
    LET day   == OperationalDay[at]
        first == {s \in Fresh(log, response, at) :
                      LatestInDay(log, s.line, day) = {}}
        same  == UNION {LatestInDay(log, l, day) :
                    l \in {k \in DOMAIN response : Unchanged(log, response, k, at)}}
    IN  UNION {ActiveDisruption(s) : s \in first \cup same}
=============================================================================

------------------------------ MODULE Timeline ------------------------------
(***************************************************************************)
(* The timeline of a line and the summary of its disruptions, as the API   *)
(* reads them off the log of snapshots: app/line_status/service.py.        *)
(*                                                                         *)
(* The history of a line is the set of its rows in an operational day,     *)
(* with one row for each time at most.  TimelineOf walks through it as the *)
(* code does; TimelineRows says which rows come out.                       *)
(***************************************************************************)
EXTENDS SnapshotLog

TIMELINE_SEVERITIES == DISRUPTION_SEVERITIES \cup {PlannedClosure, GoodService}

LineStatusTransition ==
    {"baseline", "disruption_started", "disruption_changed", "service_resumed",
     "status_changed"}

\* The statuses a timeline shows; they come sorted, so that a set will do.
Shown(snapshot) ==
    {s \in snapshot.statuses : s.severity \in TIMELINE_SEVERITIES}

\* _status_transition; `previous' is empty before the first entry.
Transition(previous, current) ==
    CASE previous = {} -> "baseline"
      [] previous # {} /\ IsDisrupted(current) ->
            IF IsDisrupted(previous) THEN "disruption_changed"
                                     ELSE "disruption_started"
      [] previous # {} /\ ~ IsDisrupted(current) ->
            IF IsDisrupted(previous) /\ GoodServices(current) # {}
            THEN "service_resumed" ELSE "status_changed"

Entry(snapshot, previous) ==
    [line |-> snapshot.line, observed |-> snapshot.observed,
     transition |-> Transition(previous, Shown(snapshot)),
     statuses |-> Shown(snapshot)]

\* Mutant of Walk: a row is compared with the row before, shown or not.
WalkRowByRow(history) ==
    LET walk[t \in 0 .. Horizon] ==
            IF t = 0 THEN [entries |-> {}, previous |-> {}]
            ELSE LET before == walk[t - 1]
                     new    == {s \in history : s.observed = t}
                 IN  [entries  |-> before.entries \cup
                        {Entry(s, before.previous) : s \in {s \in new :
                            Shown(s) # {} /\ Shown(s) # before.previous}},
                      previous |-> IF new = {} THEN before.previous
                                   ELSE UNION {Shown(s) : s \in new}]
    IN  walk[Horizon]

\* The loop of _timeline_snapshots, from the oldest row to the newest: a row
\* with nothing to show, or what the last entry shows, is passed over.
Walk(history) ==
    LET walk[t \in 0 .. Horizon] ==
            IF t = 0 THEN [entries |-> {}, previous |-> {}]
            ELSE LET before == walk[t - 1]
                     new    == {s \in history : /\ s.observed = t
                                                /\ Shown(s) # {}
                                                /\ Shown(s) # before.previous}
                 IN  [entries  |-> before.entries \cup
                                     {Entry(s, before.previous) : s \in new},
                      previous |-> IF new = {} THEN before.previous
                                   ELSE UNION {Shown(s) : s \in new}]
    IN  walk[Horizon]

TimelineOf(history) == Walk(history).entries

-----------------------------------------------------------------------------
\* What the row before this one that shows anything shows.
PreviousShown(history, snapshot) ==
    UNION {Shown(r) : r \in Newest({r \in history :
        Shown(r) # {} /\ r.observed < snapshot.observed})}

\* The rows that make an entry show something else than the one before.
TimelineRows(history) ==
    {s \in history : Shown(s) # {} /\ Shown(s) # PreviousShown(history, s)}

TimelineEntries(history) ==
    {Entry(s, PreviousShown(history, s)) : s \in TimelineRows(history)}

-----------------------------------------------------------------------------
\* Mutant of StartsDisruption: a baseline is no start.
StartsWithoutBaseline(entry) == entry.transition = "disruption_started"

StartsDisruption(entry) ==
    \/ entry.transition = "disruption_started"
    \/ entry.transition = "baseline" /\ IsDisrupted(entry.statuses)

\* _disruption_started_snapshots.
DisruptionStarts(timeline) == {e \in timeline : StartsDisruption(e)}
=============================================================================

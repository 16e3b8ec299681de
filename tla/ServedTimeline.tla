--------------------------- MODULE ServedTimeline ---------------------------
(***************************************************************************)
(* What the API serves while the worker polls: the timeline of a line and  *)
(* day over the log of SnapshotWorker, beside the alerts of the same log.  *)
(* Polls take place at instants, and their days are those of               *)
(* LondonDay.                                                              *)
(***************************************************************************)
EXTENDS SnapshotWorker, Timeline, LondonDay

CONSTANT Instant    \* the instant of each time of a poll

ASSUME InstantAssumption ==
    /\ Instant \in [Time -> Int]
    /\ \A s, t \in Time : s < t => Instant[s] < Instant[t]
    /\ OperationalDay = [t \in Time |-> operational_day_for(Instant[t])]

Dates == {OperationalDay[t] : t \in Time}

\* get_line_history: the rows within the bounds of the day.
History(line, date) ==
    {s \in snapshots : s.line = line /\ WithinBounds(Instant[s.observed], date)}

ServedTimelineOf(line, date) == TimelineOf(History(line, date))

\* The entry in force at a time.
InForce(timeline, t) == Newest({e \in timeline : e.observed <= t})

-----------------------------------------------------------------------------
\* The rows between the bounds of a day are those the worker has compared with
\* one another as rows of that day, on days of 23 and 25 hours as well.
HistoryIsTheDay ==
    \A l \in Line, d \in Dates : History(l, d) = RowsInDay(snapshots, l, d)

\* The loop lists a row just when it shows something else than the last row
\* that shows anything, whatever lies between.
WalkListsChanges ==
    \A l \in Line, d \in Dates :
        ServedTimelineOf(l, d) = TimelineEntries(History(l, d))

\* Whoever opens the app after an alert finds it there: at the time of an
\* alert of a disruption, the timeline shows that disruption as the worst.
AlertsAreOnTheTimeline ==
    \A e \in events :
        e.type # Resumed =>
            \E x \in InForce(TimelineEntries(History(e.line, OperationalDay[e.observed])),
                             e.observed) :
                \E s \in Disruptions(x.statuses) :
                    /\ s.severity = e.severity /\ s.text = e.text
                    /\ \A w \in Disruptions(x.statuses) : s.severity <= w.severity

\* An alert of recovery is an entry of its own, "service_resumed".
RecoveriesAreOnTheTimeline ==
    \A e \in events :
        e.type = Resumed =>
            \E x \in TimelineEntries(History(e.line, OperationalDay[e.observed])) :
                x.observed = e.observed /\ x.transition = "service_resumed"

\* A day's disruptions are each counted once: every disrupted entry goes back
\* to a start with no undisrupted entry between, and between two starts there
\* is an undisrupted one.
SummaryCountsEachDisruptionOnce ==
    \A l \in Line, d \in Dates :
        LET timeline == TimelineEntries(History(l, d))
            starts   == DisruptionStarts(timeline)
            Between(a, b) == {x \in timeline :
                                a.observed < x.observed /\ x.observed < b.observed}
        IN  /\ \A e \in timeline :
                IsDisrupted(e.statuses) =>
                    \E s \in starts :
                        /\ s.observed <= e.observed
                        /\ \A x \in Between(s, e) : IsDisrupted(x.statuses)
            /\ \A s, e \in starts :
                s.observed < e.observed =>
                    \E x \in Between(s, e) : ~ IsDisrupted(x.statuses)

\* A timeline only grows, at its end: what was served, or is still in a cache,
\* is the beginning of what is true now.
TimelineOnlyGrows ==
    [][\A l \in Line, d \in Dates :
        LET old == TimelineEntries(History(l, d))
            new == TimelineEntries(History(l, d))'
        IN  /\ old \subseteq new
            /\ \A n \in new \ old : \A o \in old : o.observed < n.observed]_vars
=============================================================================

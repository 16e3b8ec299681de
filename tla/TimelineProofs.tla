---------------------------- MODULE TimelineProofs ----------------------------
(***************************************************************************)
(* What the timeline shows of the alerts, for any lines, days, clock       *)
(* changes and responses of TfL, and for polls cut short at any await.     *)
(***************************************************************************)
EXTENDS ServedTimeline, SnapshotWorkerProofs, LondonDayProofs

\* The rows of one line: one for each time.
IsHistory(rows) ==
    /\ rows \in SUBSET Snapshot
    /\ \A r, s \in rows : r.observed = s.observed => r = s

\* The rows before one that show anything.
ShownBefore(rows, s) == {r \in rows : Shown(r) # {} /\ r.observed < s.observed}

LEMMA HistoryTimes ==
    ASSUME NEW rows, IsHistory(rows)
    PROVE  \A r \in rows : r.observed \in Nat
BY DEF IsHistory, Snapshot, Time

\* The list the loop compares a row with is that of the newest row before it
\* that shows anything.
LEMMA PreviousIsShown ==
    ASSUME NEW rows, IsHistory(rows), NEW s, NEW p \in Newest(ShownBefore(rows, s))
    PROVE  PreviousShown(rows, s) = Shown(p)
<1>1. Newest(ShownBefore(rows, s)) = {p}
  <2>1. ASSUME NEW q \in Newest(ShownBefore(rows, s))
        PROVE  q = p
    <3>1. q \in rows /\ p \in rows
      BY DEF Newest, ShownBefore
    <3>2. q.observed <= p.observed /\ p.observed <= q.observed
      BY DEF Newest
    <3>3. QED
      BY <3>1, <3>2, HistoryTimes DEF IsHistory
  <2>2. QED
    BY <2>1
<1>2. PreviousShown(rows, s) = UNION {Shown(r) : r \in {p}}
  BY <1>1 DEF PreviousShown, ShownBefore
<1>3. QED
  BY <1>2

LEMMA NothingShownBefore ==
    ASSUME NEW rows, NEW s, ShownBefore(rows, s) = {}
    PROVE  PreviousShown(rows, s) = {}
<1>1. Newest(ShownBefore(rows, s)) = {}
  BY DEF Newest
<1>2. QED
  BY <1>1 DEF PreviousShown, ShownBefore

LEMMA PreviousExists ==
    ASSUME NEW rows, IsHistory(rows), NEW s, ShownBefore(rows, s) # {}
    PROVE  \E p : p \in Newest(ShownBefore(rows, s))
<1>1. ShownBefore(rows, s) \in SUBSET Snapshot
  BY DEF ShownBefore, IsHistory
<1>2. QED
  BY <1>1, NewestExists

\* Every row that shows anything is on the timeline, itself or as the repeat of
\* the entry in force at its time.
LEMMA RowInForce ==
    ASSUME NEW rows, IsHistory(rows), NEW s \in rows, Shown(s) # {}
    PROVE  \E r \in TimelineRows(rows) :
             /\ r.observed <= s.observed
             /\ Shown(r) = Shown(s)
             /\ \A q \in TimelineRows(rows) :
                    ~ (r.observed < q.observed /\ q.observed <= s.observed)
<1> DEFINE Same(r) == \A q \in rows :
             /\ r.observed <= q.observed
             /\ q.observed <= s.observed
             /\ Shown(q) # {}
             => Shown(q) = Shown(s)
           C == {r \in rows : /\ r.observed <= s.observed
                              /\ Shown(r) # {}
                              /\ Same(r)}
<1>1. \A r \in rows : r.observed \in Nat
  BY HistoryTimes
<1>2. s \in C
  BY <1>1 DEF IsHistory
<1>3. PICK r \in C : \A q \in C : r.observed <= q.observed
  <2>1. {q.observed : q \in C} \in SUBSET Nat /\ {q.observed : q \in C} # {}
    BY <1>1, <1>2
  <2>2. PICK m \in {q.observed : q \in C} : \A n \in {q.observed : q \in C} : m <= n
    BY <2>1, LeastNatural
  <2>3. QED
    BY <2>2
<1>4. r \in rows /\ r.observed <= s.observed /\ Shown(r) # {} /\ Same(r)
  OBVIOUS
<1>5. Shown(r) = Shown(s)
  BY <1>1, <1>4
<1>6. r \in TimelineRows(rows)
  <2>1. SUFFICES PreviousShown(rows, r) # Shown(r)
    BY <1>4 DEF TimelineRows
  <2>2. CASE ShownBefore(rows, r) = {}
    BY <2>2, <1>4, NothingShownBefore
  <2>3. CASE ShownBefore(rows, r) # {}
    <3>1. PICK p : p \in Newest(ShownBefore(rows, r))
      BY <2>3, PreviousExists
    <3>2. PreviousShown(rows, r) = Shown(p)
      BY <3>1, PreviousIsShown
    <3>3. /\ p \in rows /\ Shown(p) # {} /\ p.observed < r.observed
          /\ \A q \in ShownBefore(rows, r) : q.observed <= p.observed
      BY <3>1 DEF Newest, ShownBefore
    <3>4. p \notin C
      BY <1>1, <1>3, <1>4, <3>3
    <3>5. ASSUME Shown(p) = Shown(r)
          PROVE  Same(p)
      <4>1. SUFFICES ASSUME NEW q \in rows, p.observed <= q.observed,
                            q.observed <= s.observed, Shown(q) # {}
                     PROVE  Shown(q) = Shown(s)
        OBVIOUS
      <4>2. CASE r.observed <= q.observed
        BY <4>1, <4>2, <1>4
      <4>3. CASE q.observed < r.observed
        <5>1. q.observed <= p.observed
          BY <4>1, <4>3, <3>3 DEF ShownBefore
        <5>2. q = p
          BY <5>1, <4>1, <3>3, <1>1 DEF IsHistory
        <5>3. QED
          BY <5>2, <3>5, <1>5
      <4>4. QED
        BY <4>2, <4>3, <1>1, <1>4
    <3>6. p.observed <= s.observed
      BY <1>1, <1>4, <3>3
    <3>7. QED
      BY <3>2, <3>3, <3>4, <3>5, <3>6
  <2>4. QED
    BY <2>2, <2>3
<1>7. ASSUME NEW q \in TimelineRows(rows), r.observed < q.observed,
             q.observed <= s.observed
      PROVE  FALSE
  <2>1. q \in rows /\ Shown(q) # {} /\ Shown(q) # PreviousShown(rows, q)
    BY DEF TimelineRows
  <2>2. r \in ShownBefore(rows, q)
    BY <1>4, <1>7 DEF ShownBefore
  <2>3. PICK p : p \in Newest(ShownBefore(rows, q))
    BY <2>2, PreviousExists
  <2>4. /\ p \in rows /\ Shown(p) # {}
        /\ p.observed < q.observed /\ r.observed <= p.observed
    BY <2>2, <2>3 DEF Newest, ShownBefore
  <2>5. Shown(p) = Shown(s) /\ Shown(q) = Shown(s)
    BY <2>1, <2>4, <1>1, <1>4, <1>7
  <2>6. QED
    BY <2>1, <2>3, <2>5, PreviousIsShown
<1> HIDE DEF C
<1>8. QED
  BY <1>4, <1>5, <1>6, <1>7

\* The row whose list a row on the timeline is compared with is on it, too, or
\* repeats the entry just before.
LEMMA EntryBefore ==
    ASSUME NEW rows, IsHistory(rows), NEW r \in TimelineRows(rows),
           PreviousShown(rows, r) # {}
    PROVE  \E q \in TimelineRows(rows) :
             /\ q.observed < r.observed
             /\ Shown(q) = PreviousShown(rows, r)
             /\ \A x \in TimelineRows(rows) :
                    ~ (q.observed < x.observed /\ x.observed < r.observed)
<1>1. \A x \in rows : x.observed \in Nat
  BY HistoryTimes
<1>2. TimelineRows(rows) \subseteq rows /\ \A x \in TimelineRows(rows) : Shown(x) # {}
  BY DEF TimelineRows
<1>3. PICK p : p \in Newest(ShownBefore(rows, r))
  BY NothingShownBefore, PreviousExists
<1>4. /\ p \in rows /\ Shown(p) # {} /\ p.observed < r.observed
      /\ \A x \in ShownBefore(rows, r) : x.observed <= p.observed
  BY <1>3 DEF Newest, ShownBefore
<1>5. Shown(p) = PreviousShown(rows, r)
  BY <1>3, PreviousIsShown
<1>6. PICK q \in TimelineRows(rows) :
        /\ q.observed <= p.observed
        /\ Shown(q) = Shown(p)
        /\ \A x \in TimelineRows(rows) :
                ~ (q.observed < x.observed /\ x.observed <= p.observed)
  BY <1>4, RowInForce
<1>7. ASSUME NEW x \in TimelineRows(rows), q.observed < x.observed,
             x.observed < r.observed
      PROVE  FALSE
  <2>1. x.observed <= p.observed
    BY <1>2, <1>4, <1>7 DEF ShownBefore
  <2>2. QED
    BY <2>1, <1>6, <1>7
<1>8. q.observed < r.observed
  BY <1>1, <1>2, <1>4, <1>6
<1>9. QED
  BY <1>5, <1>6, <1>7, <1>8
-----------------------------------------------------------------------------
\* An entry shows what its row shows, at the time of its row.
LEMMA EntryFields ==
    ASSUME NEW s, NEW previous
    PROVE  /\ Entry(s, previous).observed = s.observed
           /\ Entry(s, previous).statuses = Shown(s)
           /\ Entry(s, previous).transition = Transition(previous, Shown(s))
BY DEF Entry

LEMMA ShownDisruptions ==
    ASSUME NEW s
    PROVE  /\ Disruptions(Shown(s)) = Disruptions(s.statuses)
           /\ IsDisrupted(Shown(s)) <=> IsDisrupted(s.statuses)
           /\ IsDisrupted(s.statuses) => Shown(s) # {}
BY DEF Shown, Disruptions, IsDisrupted, TIMELINE_SEVERITIES

LEMMA StartingEntry ==
    ASSUME NEW s, NEW previous
    PROVE  StartsDisruption(Entry(s, previous)) <=>
             IsDisrupted(Shown(s)) /\ ~ IsDisrupted(previous)
<1>1. ~ IsDisrupted({})
  BY DEF IsDisrupted, Disruptions
<1>2. StartsDisruption(Entry(s, previous)) <=>
        \/ Transition(previous, Shown(s)) = "disruption_started"
        \/ Transition(previous, Shown(s)) = "baseline" /\ IsDisrupted(Shown(s))
  BY EntryFields DEF StartsDisruption
<1>3. CASE previous = {}
  BY <1>1, <1>2, <1>3 DEF Transition
<1>4. CASE previous # {}
  <2>1. CASE IsDisrupted(Shown(s))
    BY <1>2, <1>4, <2>1 DEF Transition
  <2>2. CASE ~ IsDisrupted(Shown(s))
    BY <1>2, <1>4, <2>2 DEF Transition
  <2>3. QED
    BY <2>1, <2>2
<1>5. QED
  BY <1>3, <1>4

-----------------------------------------------------------------------------
\* The two ways of telling the day of a row, the bounds of its query and the
\* day the worker gave it, agree.
LEMMA HistoryLemma == TypeOK => HistoryIsTheDay
<1> SUFFICES ASSUME TypeOK, NEW l \in Line, NEW d \in Dates
             PROVE  History(l, d) = RowsInDay(snapshots, l, d)
  BY DEF HistoryIsTheDay
<1>1. d \in Int
  BY DayAssumption DEF Dates
<1>2. ASSUME NEW s \in snapshots
      PROVE  WithinBounds(Instant[s.observed], d) <=> OperationalDay[s.observed] = d
  <2>1. s.observed \in Time
    BY DEF TypeOK, Snapshot
  <2>2. Instant[s.observed] \in Int
    BY <2>1, InstantAssumption
  <2>3. OperationalDay[s.observed] = operational_day_for(Instant[s.observed])
    BY <2>1, InstantAssumption
  <2>4. QED
    BY <1>1, <2>2, <2>3, BoundsAgree
<1>3. QED
  BY <1>2 DEF History, RowsInDay

LEMMA HistoryForm ==
    ASSUME TypeOK, SnapshotKeysUnique, NEW l, NEW d
    PROVE  IsHistory(History(l, d))
BY DEF TypeOK, SnapshotKeysUnique, History, IsHistory

\* The timeline of any day is cut out of the log where the worker cuts it.
THEOREM HistoriesAreDays == Spec => []HistoryIsTheDay
<1>1. QED
  BY HistoryLemma, TypeCorrect, PTL

\* The row an event tells of, in the history of its day.
LEMMA EventRow ==
    ASSUME IInv, NEW e \in events
    PROVE  /\ e.line \in Line
           /\ OperationalDay[e.observed] \in Dates
           /\ \E s \in History(e.line, OperationalDay[e.observed]) :
                Tells(e, s, Newest({r \in History(e.line, OperationalDay[e.observed]) :
                                        r.observed < s.observed}))
<1>1. e.line \in Line /\ e.observed \in Time
  BY DEF IInv, TypeOK, CandidateType
<1>2. OperationalDay[e.observed] \in Dates
  BY <1>1 DEF Dates
<1>3. History(e.line, OperationalDay[e.observed])
        = RowsInDay(snapshots, e.line, OperationalDay[e.observed])
  BY <1>1, <1>2, HistoryLemma DEF IInv, HistoryIsTheDay
<1>4. PICK s \in snapshots : Tells(e, s, PreviousInDay(s))
  BY DEF IInv, EventInv, Backed
<1>5. s.line = e.line /\ s.observed = e.observed
  BY <1>4 DEF Tells
<1>6. s \in History(e.line, OperationalDay[e.observed])
  BY <1>3, <1>5 DEF RowsInDay
<1>7. PreviousInDay(s) = Newest({r \in History(e.line, OperationalDay[e.observed]) :
                                    r.observed < s.observed})
  BY <1>3, <1>5 DEF PreviousInDay
<1>8. QED
  BY <1>1, <1>2, <1>4, <1>6, <1>7

LEMMA AlertLemma == IInv => AlertsAreOnTheTimeline
<1> SUFFICES ASSUME IInv, NEW e \in events, e.type # Resumed
             PROVE  \E x \in InForce(TimelineEntries(History(e.line,
                                        OperationalDay[e.observed])), e.observed) :
                        \E s \in Disruptions(x.statuses) :
                            /\ s.severity = e.severity /\ s.text = e.text
                            /\ \A w \in Disruptions(x.statuses) :
                                    s.severity <= w.severity
  BY DEF AlertsAreOnTheTimeline
<1> DEFINE rows == History(e.line, OperationalDay[e.observed])
<1>1. PICK s \in rows : \E previous : Tells(e, s, previous)
  BY EventRow
<1>2. IsHistory(rows)
  BY HistoryForm DEF IInv, LogInv
<1> HIDE DEF rows
<1>3. s.observed = e.observed /\ IsDisrupted(s.statuses)
  BY <1>1 DEF Tells
<1>4. PICK r \in TimelineRows(rows) :
        /\ r.observed <= s.observed
        /\ Shown(r) = Shown(s)
        /\ \A q \in TimelineRows(rows) :
                ~ (r.observed < q.observed /\ q.observed <= s.observed)
  BY <1>2, <1>3, RowInForce, ShownDisruptions
<1> DEFINE x == Entry(r, PreviousShown(rows, r))
<1>5. x \in TimelineEntries(rows) /\ x.observed = r.observed /\ x.statuses = Shown(s)
  BY <1>4, EntryFields DEF TimelineEntries
<1> HIDE DEF x
<1>6. ASSUME NEW y \in TimelineEntries(rows), y.observed <= e.observed
      PROVE  y.observed <= x.observed
  <2>1. PICK q \in TimelineRows(rows) : y.observed = q.observed
    BY EntryFields DEF TimelineEntries
  <2>2. q \in rows /\ r \in rows
    BY DEF TimelineRows
  <2>3. QED
    BY <1>2, <1>3, <1>4, <1>5, <1>6, <2>1, <2>2, HistoryTimes
<1>7. x \in InForce(TimelineEntries(rows), e.observed)
  BY <1>3, <1>4, <1>5, <1>6 DEF InForce, Newest
<1>8. PICK w \in s.statuses :
        /\ w.severity = e.severity /\ w.text = e.text
        /\ w \in Disruptions(s.statuses)
        /\ \A v \in Disruptions(s.statuses) : e.severity <= v.severity
  BY <1>1 DEF Tells
<1>9. Disruptions(x.statuses) = Disruptions(s.statuses)
  BY <1>5, ShownDisruptions
<1>10. QED
  BY <1>7, <1>8, <1>9 DEF rows

\* What an alert tells is in force on the timeline at the time it tells of.
THEOREM AlertsAppear == Spec => []AlertsAreOnTheTimeline
<1>1. QED
  BY AlertLemma, Invariance, PTL

LEMMA RecoveryLemma == IInv => RecoveriesAreOnTheTimeline
<1> SUFFICES ASSUME IInv, NEW e \in events, e.type = Resumed
             PROVE  \E x \in TimelineEntries(History(e.line,
                                OperationalDay[e.observed])) :
                        x.observed = e.observed /\ x.transition = "service_resumed"
  BY DEF RecoveriesAreOnTheTimeline
<1> DEFINE rows == History(e.line, OperationalDay[e.observed])
<1>1. PICK s \in rows : Tells(e, s, Newest({r \in rows : r.observed < s.observed}))
  BY EventRow
<1>2. IsHistory(rows)
  BY HistoryForm DEF IInv, LogInv
<1> HIDE DEF rows
<1>3. s.observed = e.observed /\ ~ IsDisrupted(Shown(s))
  BY <1>1, ShownDisruptions DEF Tells
<1>4. GoodServices(Shown(s)) # {} /\ Shown(s) # {}
  <2>1. PICK w \in s.statuses : w.severity = GoodService
    BY <1>1 DEF Tells
  <2>2. w \in Shown(s)
    BY <2>1 DEF Shown, TIMELINE_SEVERITIES
  <2>3. QED
    BY <2>1, <2>2 DEF GoodServices
<1>5. PICK p \in Newest({r \in rows : r.observed < s.observed}) :
        IsDisrupted(p.statuses)
  BY <1>1 DEF Tells
<1>6. p \in Newest(ShownBefore(rows, s)) /\ IsDisrupted(Shown(p)) /\ Shown(p) # {}
  BY <1>5, ShownDisruptions DEF Newest, ShownBefore
<1>7. PreviousShown(rows, s) = Shown(p)
  BY <1>2, <1>6, PreviousIsShown
<1>8. s \in TimelineRows(rows)
  BY <1>3, <1>4, <1>6, <1>7 DEF TimelineRows
<1>9. Transition(Shown(p), Shown(s)) = "service_resumed"
  BY <1>3, <1>4, <1>6 DEF Transition
<1>10. Entry(s, Shown(p)) \in TimelineEntries(rows)
  BY <1>7, <1>8 DEF TimelineEntries
<1>11. QED
  BY <1>3, <1>9, <1>10, EntryFields DEF rows

\* What an alert of recovery tells is an entry of the timeline.
THEOREM RecoveriesAppear == Spec => []RecoveriesAreOnTheTimeline
<1>1. QED
  BY RecoveryLemma, Invariance, PTL

-----------------------------------------------------------------------------
\* Rows later than all the others leave the timeline so far as it is.
LEMMA LaterRows ==
    ASSUME NEW old, NEW new, old \subseteq Snapshot, new \subseteq Snapshot,
           \A s \in old : \A n \in new : s.observed < n.observed
    PROVE  /\ TimelineEntries(old) \subseteq TimelineEntries(old \cup new)
           /\ \A n \in TimelineEntries(old \cup new) \ TimelineEntries(old) :
              \A o \in TimelineEntries(old) : o.observed < n.observed
<1> DEFINE all == old \cup new
<1>1. \A s \in all : s.observed \in Nat
  BY DEF Snapshot, Time
<1>2. ASSUME NEW s \in old
      PROVE  PreviousShown(all, s) = PreviousShown(old, s)
  <2>1. {r \in all : Shown(r) # {} /\ r.observed < s.observed}
          = {r \in old : Shown(r) # {} /\ r.observed < s.observed}
    BY <1>1
  <2>2. QED
    BY <2>1 DEF PreviousShown
<1>3. \A s \in old : s \in TimelineRows(all) <=> s \in TimelineRows(old)
  BY <1>2 DEF TimelineRows
<1>4. TimelineEntries(old) \subseteq TimelineEntries(all)
  <2>1. ASSUME NEW s \in TimelineRows(old)
        PROVE  Entry(s, PreviousShown(old, s)) \in TimelineEntries(all)
    <3>1. s \in old
      BY DEF TimelineRows
    <3>2. s \in TimelineRows(all) /\ PreviousShown(all, s) = PreviousShown(old, s)
      BY <1>2, <1>3, <3>1
    <3>3. QED
      BY <3>2 DEF TimelineEntries
  <2>2. QED
    BY <2>1 DEF TimelineEntries
<1>5. ASSUME NEW n \in TimelineEntries(all) \ TimelineEntries(old),
             NEW o \in TimelineEntries(old)
      PROVE  o.observed < n.observed
  <2>1. PICK s \in TimelineRows(all) : n = Entry(s, PreviousShown(all, s))
    BY DEF TimelineEntries
  <2>2. s \in all
    BY DEF TimelineRows
  <2>3. s \notin old
    BY <1>2, <1>3, <2>1 DEF TimelineEntries
  <2>4. PICK r \in old : o.observed = r.observed
    BY EntryFields DEF TimelineEntries, TimelineRows
  <2>5. QED
    BY <2>1, <2>2, <2>3, <2>4, EntryFields
<1>6. QED
  BY <1>4, <1>5

LEMMA GrowthStep ==
    ASSUME IInv, [Next]_vars, NEW l \in Line, NEW d \in Dates
    PROVE  /\ TimelineEntries(History(l, d)) \subseteq TimelineEntries(History(l, d)')
           /\ \A n \in TimelineEntries(History(l, d)') \ TimelineEntries(History(l, d)) :
              \A o \in TimelineEntries(History(l, d)) : o.observed < n.observed
<1>1. CASE \A response \in Response : ~ StoreSnapshots(response)
  <2>1. snapshots' = snapshots
    BY <1>1, QuietSteps
  <2>2. History(l, d)' = History(l, d)
    BY <2>1 DEF History
  <2>3. QED
    BY <2>2
<1>2. ASSUME NEW response \in Response, StoreSnapshots(response)
      PROVE  /\ TimelineEntries(History(l, d)) \subseteq TimelineEntries(History(l, d)')
             /\ \A n \in TimelineEntries(History(l, d)') \ TimelineEntries(History(l, d)) :
                \A o \in TimelineEntries(History(l, d)) : o.observed < n.observed
  <2> DEFINE batch == Batch(snapshots, response, observed)
             new   == {s \in batch : /\ s.line = l
                                     /\ WithinBounds(Instant[s.observed], d)}
  <2>1. /\ snapshots' = snapshots \cup batch
        /\ \A s \in snapshots : s \in Snapshot /\ s.observed < observed
    BY <1>2, StoreRows DEF IInv, LogInv
  <2>2. batch \subseteq Snapshot /\ \A b \in batch : b.observed = observed
    <3>1. IsResponse(response) /\ observed \in Time
      BY <1>2, ResponseAssumption
      DEF IInv, LogInv, Timely, StoreSnapshots, IsResponse
    <3>2. snapshots \in SUBSET Snapshot
      BY <2>1
    <3>3. QED
      BY <3>1, <3>2, BatchRows
  <2> HIDE DEF batch
  <2>3. History(l, d)' = History(l, d) \cup new
    BY <2>1 DEF History
  <2>4. /\ History(l, d) \subseteq Snapshot /\ new \subseteq Snapshot
        /\ \A s \in History(l, d) : \A n \in new : s.observed < n.observed
    BY <2>1, <2>2 DEF History
  <2> HIDE DEF new
  <2>5. QED
    BY <2>3, <2>4, LaterRows
<1>3. QED
  BY <1>1, <1>2

\* No entry is ever taken back or inserted before another, so that a timeline
\* in a cache is the beginning of the one in the database.
THEOREM TimelinesOnlyGrow == Spec => TimelineOnlyGrows
<1> DEFINE Grows ==
        \A l \in Line, d \in Dates :
            LET old == TimelineEntries(History(l, d))
                new == TimelineEntries(History(l, d))'
            IN  /\ old \subseteq new
                /\ \A n \in new \ old : \A o \in old : o.observed < n.observed
<1>1. IInv /\ [Next]_vars => [Grows]_vars
  <2>1. ASSUME IInv, [Next]_vars, NEW l \in Line, NEW d \in Dates
        PROVE  /\ TimelineEntries(History(l, d)) \subseteq TimelineEntries(History(l, d))'
               /\ \A n \in TimelineEntries(History(l, d))' \ TimelineEntries(History(l, d)) :
                  \A o \in TimelineEntries(History(l, d)) : o.observed < n.observed
    <3>1. TimelineEntries(History(l, d))' = TimelineEntries(History(l, d)')
      BY DEF TimelineEntries, TimelineRows, PreviousShown, Newest, Entry, Transition,
             Shown, History
    <3>2. QED
      BY <2>1, <3>1, GrowthStep
  <2>2. QED
    BY <2>1
<1>2. QED
  BY <1>1, Invariance, PTL DEF Spec, TimelineOnlyGrows

-----------------------------------------------------------------------------
\* Entries are as many as the rows of the timeline, one for each time.
LEMMA EntryRow ==
    ASSUME NEW rows, IsHistory(rows), NEW e \in TimelineEntries(rows)
    PROVE  \E r \in TimelineRows(rows) :
             /\ r \in rows
             /\ e = Entry(r, PreviousShown(rows, r))
             /\ e.observed = r.observed
             /\ e.observed \in Nat
             /\ e.statuses = Shown(r)
<1>1. PICK r \in TimelineRows(rows) : e = Entry(r, PreviousShown(rows, r))
  BY DEF TimelineEntries
<1>2. r \in rows /\ r.observed \in Nat
  BY HistoryTimes DEF TimelineRows
<1>3. QED
  BY <1>1, <1>2, EntryFields

LEMMA EntriesUnique ==
    ASSUME NEW rows, IsHistory(rows),
           NEW x \in TimelineEntries(rows), NEW y \in TimelineEntries(rows),
           x.observed = y.observed
    PROVE  x = y
<1>1. PICK r \in rows : x = Entry(r, PreviousShown(rows, r)) /\ x.observed = r.observed
  BY EntryRow
<1>2. PICK s \in rows : y = Entry(s, PreviousShown(rows, s)) /\ y.observed = s.observed
  BY EntryRow
<1>3. r = s
  BY <1>1, <1>2 DEF IsHistory
<1>4. QED
  BY <1>1, <1>2, <1>3

\* What makes an entry that is no start of a disruption the continuation of
\* one, or a start the first after an undisrupted entry.
LEMMA EntryBeforeEntry ==
    ASSUME NEW rows, IsHistory(rows), NEW r \in TimelineRows(rows),
           PreviousShown(rows, r) # {}
    PROVE  \E y \in TimelineEntries(rows) :
             /\ y.observed < r.observed
             /\ y.statuses = PreviousShown(rows, r)
             /\ \A x \in TimelineEntries(rows) :
                    ~ (y.observed < x.observed /\ x.observed < r.observed)
<1>1. PICK q \in TimelineRows(rows) :
        /\ q.observed < r.observed
        /\ Shown(q) = PreviousShown(rows, r)
        /\ \A x \in TimelineRows(rows) :
                ~ (q.observed < x.observed /\ x.observed < r.observed)
  BY EntryBefore
<1> DEFINE y == Entry(q, PreviousShown(rows, q))
<1>2. y \in TimelineEntries(rows) /\ y.observed = q.observed /\ y.statuses = Shown(q)
  BY EntryFields DEF TimelineEntries
<1> HIDE DEF y
<1>3. \A x \in TimelineEntries(rows) :
        ~ (y.observed < x.observed /\ x.observed < r.observed)
  BY <1>1, <1>2, EntryRow
<1>4. QED
  BY <1>1, <1>2, <1>3

\* Every disrupted entry goes back to a start, through disrupted entries.
LEMMA DisruptionsStart ==
    ASSUME NEW rows, IsHistory(rows),
           NEW e \in TimelineEntries(rows), IsDisrupted(e.statuses)
    PROVE  \E s \in DisruptionStarts(TimelineEntries(rows)) :
             /\ s.observed <= e.observed
             /\ \A x \in TimelineEntries(rows) :
                    s.observed < x.observed /\ x.observed < e.observed =>
                        IsDisrupted(x.statuses)
<1> DEFINE T == TimelineEntries(rows)
           C == {s \in T : /\ s.observed <= e.observed
                           /\ \A x \in T :
                                s.observed <= x.observed /\ x.observed <= e.observed
                                    => IsDisrupted(x.statuses)}
<1>1. \A x \in T : x.observed \in Nat
  BY EntryRow
<1>2. e \in C
  <2>1. \A x \in T : x.observed = e.observed => x = e
    BY EntriesUnique
  <2>2. QED
    BY <1>1, <2>1
<1>3. PICK s \in C : \A q \in C : s.observed <= q.observed
  <2>1. {q.observed : q \in C} \in SUBSET Nat /\ {q.observed : q \in C} # {}
    BY <1>1, <1>2
  <2>2. PICK m \in {q.observed : q \in C} : \A n \in {q.observed : q \in C} : m <= n
    BY <2>1, LeastNatural
  <2>3. QED
    BY <2>2
<1>4. /\ s \in T /\ s.observed <= e.observed /\ IsDisrupted(s.statuses)
      /\ \A x \in T : s.observed <= x.observed /\ x.observed <= e.observed
                        => IsDisrupted(x.statuses)
  BY <1>1
<1>5. PICK r \in TimelineRows(rows) :
        /\ s = Entry(r, PreviousShown(rows, r))
        /\ s.observed = r.observed
        /\ s.statuses = Shown(r)
  BY <1>4, EntryRow
<1>6. ~ IsDisrupted(PreviousShown(rows, r))
  <2>1. SUFFICES ASSUME IsDisrupted(PreviousShown(rows, r)) PROVE FALSE
    OBVIOUS
  <2>2. PreviousShown(rows, r) # {}
    BY <2>1 DEF IsDisrupted, Disruptions
  <2>3. PICK y \in T :
          /\ y.observed < r.observed
          /\ y.statuses = PreviousShown(rows, r)
          /\ \A x \in T : ~ (y.observed < x.observed /\ x.observed < r.observed)
    BY <2>2, EntryBeforeEntry
  <2>4. \A x \in T : x.observed = y.observed => x = y
    BY EntriesUnique
  <2>5. ASSUME NEW x \in T, y.observed <= x.observed, x.observed <= e.observed
        PROVE  IsDisrupted(x.statuses)
    <3>1. x.observed = y.observed \/ s.observed <= x.observed
      BY <1>1, <1>4, <1>5, <2>3, <2>5
    <3>2. QED
      BY <3>1, <2>1, <2>3, <2>4, <2>5, <1>4
  <2>6. y \in C
    BY <1>1, <1>4, <1>5, <2>3, <2>5
  <2>7. QED
    BY <1>1, <1>3, <1>4, <1>5, <2>3, <2>6
<1>7. s \in DisruptionStarts(T)
  BY <1>4, <1>5, <1>6, StartingEntry DEF DisruptionStarts
<1>8. QED
  BY <1>1, <1>4, <1>7

\* Between two starts a line was not disrupted.
LEMMA StartsApart ==
    ASSUME NEW rows, IsHistory(rows),
           NEW s \in DisruptionStarts(TimelineEntries(rows)),
           NEW e \in DisruptionStarts(TimelineEntries(rows)),
           s.observed < e.observed
    PROVE  \E x \in TimelineEntries(rows) :
             /\ s.observed < x.observed /\ x.observed < e.observed
             /\ ~ IsDisrupted(x.statuses)
<1> DEFINE T == TimelineEntries(rows)
<1>1. s \in T /\ e \in T /\ StartsDisruption(s) /\ StartsDisruption(e)
  BY DEF DisruptionStarts
<1>2. PICK p \in TimelineRows(rows) :
        /\ p \in rows
        /\ s = Entry(p, PreviousShown(rows, p))
        /\ s.observed = p.observed
        /\ s.statuses = Shown(p)
  BY <1>1, EntryRow
<1>3. PICK r \in TimelineRows(rows) :
        /\ r \in rows
        /\ e = Entry(r, PreviousShown(rows, r))
        /\ e.observed = r.observed
        /\ e.statuses = Shown(r)
  BY <1>1, EntryRow
<1>4. IsDisrupted(s.statuses) /\ ~ IsDisrupted(PreviousShown(rows, r))
  BY <1>1, <1>2, <1>3, StartingEntry
<1>5. p \in ShownBefore(rows, r)
  BY <1>2, <1>3 DEF TimelineRows, ShownBefore
<1>6. PreviousShown(rows, r) # {}
  <2>1. PICK q : q \in Newest(ShownBefore(rows, r))
    BY <1>5, PreviousExists
  <2>2. PreviousShown(rows, r) = Shown(q) /\ Shown(q) # {}
    BY <2>1, PreviousIsShown DEF Newest, ShownBefore
  <2>3. QED
    BY <2>2
<1>7. PICK y \in T :
        /\ y.observed < r.observed
        /\ y.statuses = PreviousShown(rows, r)
        /\ \A x \in T : ~ (y.observed < x.observed /\ x.observed < r.observed)
  BY <1>6, EntryBeforeEntry
<1>8. s.observed \in Nat /\ y.observed \in Nat
  BY <1>1, EntryRow
<1>9. s.observed # y.observed
  BY <1>1, <1>4, <1>7, EntriesUnique
<1>10. s.observed < y.observed
  BY <1>1, <1>3, <1>7, <1>8, <1>9
<1>11. QED
  BY <1>3, <1>4, <1>7, <1>10

LEMMA SummaryLemma ==
    ASSUME IInv
    PROVE  SummaryCountsEachDisruptionOnce
<1>1. \A l, d : IsHistory(History(l, d))
  BY HistoryForm DEF IInv, LogInv
<1>2. \A rows : IsHistory(rows) =>
        \A e \in TimelineEntries(rows) :
            IsDisrupted(e.statuses) =>
                \E s \in DisruptionStarts(TimelineEntries(rows)) :
                    /\ s.observed <= e.observed
                    /\ \A x \in {x \in TimelineEntries(rows) :
                                    /\ s.observed < x.observed
                                    /\ x.observed < e.observed} :
                            IsDisrupted(x.statuses)
  BY DisruptionsStart
<1>3. \A rows : IsHistory(rows) =>
        \A s, e \in DisruptionStarts(TimelineEntries(rows)) :
            s.observed < e.observed =>
                \E x \in {x \in TimelineEntries(rows) :
                                /\ s.observed < x.observed
                                /\ x.observed < e.observed} :
                    ~ IsDisrupted(x.statuses)
  BY StartsApart
<1>4. QED
  BY <1>1, <1>2, <1>3 DEF SummaryCountsEachDisruptionOnce

\* The summary of a day has each disruption of a line once, from a disruption
\* at the start of the day on.
THEOREM DisruptionsCountOnce == Spec => []SummaryCountsEachDisruptionOnce
<1>1. QED
  BY SummaryLemma, Invariance, PTL

-----------------------------------------------------------------------------
\* The walk of _timeline_snapshots, step by step: where it starts, the rows at
\* a time it makes entries of, and where it is after them.
WalkStart == [entries |-> {}, previous |-> {}]

NewEntries(rows, t, before) ==
    {s \in rows : /\ s.observed = t
                  /\ Shown(s) # {}
                  /\ Shown(s) # before.previous}

WalkStep(rows, t, before) ==
    LET new == NewEntries(rows, t, before)
    IN  [entries  |-> before.entries \cup {Entry(s, before.previous) : s \in new},
         previous |-> IF new = {} THEN before.previous
                      ELSE UNION {Shown(s) : s \in new}]

\* The equation of the recursive function of Walk, up to a time.
IsWalk(rows, n, w) ==
    w = [t \in 0 .. n |-> IF t = 0 THEN WalkStart ELSE WalkStep(rows, t, w[t - 1])]

LEMMA WalkIsLast ==
    ASSUME NEW rows
    PROVE  Walk(rows) = (CHOOSE w : IsWalk(rows, Horizon, w))[Horizon]
BY Zenon DEF Walk, IsWalk, WalkStep, WalkStart, NewEntries

LEMMA WalkValues ==
    ASSUME NEW rows, NEW n \in Nat, NEW w, IsWalk(rows, n, w)
    PROVE  \A t \in 0 .. n :
             w[t] = IF t = 0 THEN WalkStart ELSE WalkStep(rows, t, w[t - 1])
<1> DEFINE v == [t \in 0 .. n |->
                    IF t = 0 THEN WalkStart ELSE WalkStep(rows, t, w[t - 1])]
<1>1. w = v
  BY DEF IsWalk
<1>2. ASSUME NEW t \in 0 .. n
      PROVE  v[t] = IF t = 0 THEN WalkStart ELSE WalkStep(rows, t, w[t - 1])
  OBVIOUS
<1> HIDE DEF v
<1>3. QED
  BY <1>1, <1>2

\* There is such a function, up to any time: a first time without one would
\* be one step after a time with one.
LEMMA WalkExists ==
    ASSUME NEW rows, NEW n \in Nat
    PROVE  \E w : IsWalk(rows, n, w)
<1> DEFINE Without == {k \in Nat : ~ \E w : IsWalk(rows, k, w)}
<1>1. SUFFICES ASSUME Without # {}
               PROVE  FALSE
  OBVIOUS
<1>2. PICK k \in Without : \A j \in Without : k <= j
  <2>1. Without \in SUBSET Nat
    OBVIOUS
  <2> HIDE DEF Without
  <2>2. QED
    BY <1>1, <2>1, LeastNatural
<1>3. k \in Nat /\ \A w : ~ IsWalk(rows, k, w)
  OBVIOUS
<1>4. k # 0
  <2>1. SUFFICES ASSUME k = 0 PROVE FALSE
    OBVIOUS
  <2> DEFINE w == [t \in 0 .. 0 |-> WalkStart]
  <2>2. w = [t \in 0 .. 0 |-> IF t = 0 THEN WalkStart ELSE WalkStep(rows, t, w[t - 1])]
    OBVIOUS
  <2> HIDE DEF w
  <2>3. IsWalk(rows, 0, w)
    BY <2>2 DEF IsWalk
  <2>4. QED
    BY <1>3, <2>1, <2>3
<1>5. k - 1 \in Nat /\ k - 1 \notin Without
  BY <1>2, <1>3, <1>4
<1>6. PICK w : IsWalk(rows, k - 1, w)
  BY <1>5
<1> DEFINE h == [t \in 0 .. k |->
                    IF t = 0 THEN WalkStart ELSE WalkStep(rows, t, w[t - 1])]
<1>7. ASSUME NEW t \in 0 .. k - 1
      PROVE  w[t] = h[t]
  <2>1. w[t] = IF t = 0 THEN WalkStart ELSE WalkStep(rows, t, w[t - 1])
    <3> HIDE DEF h
    <3>1. QED
      BY <1>5, <1>6, WalkValues
  <2>2. t \in 0 .. k
    BY <1>3
  <2>3. h[t] = IF t = 0 THEN WalkStart ELSE WalkStep(rows, t, w[t - 1])
    BY <2>2
  <2> HIDE DEF h
  <2>4. QED
    BY <2>1, <2>3
<1>8. ASSUME NEW t \in 0 .. k
      PROVE  (IF t = 0 THEN WalkStart ELSE WalkStep(rows, t, w[t - 1]))
               = (IF t = 0 THEN WalkStart ELSE WalkStep(rows, t, h[t - 1]))
  <2>1. t # 0 => t - 1 \in 0 .. k - 1
    BY <1>3
  <2>2. t # 0 => w[t - 1] = h[t - 1]
    BY <1>7, <2>1
  <2> HIDE DEF h
  <2>3. CASE t = 0
    BY <2>3
  <2>4. CASE t # 0
    BY <2>2, <2>4
  <2>5. QED
    BY <2>3, <2>4
<1>9. h = [t \in 0 .. k |-> IF t = 0 THEN WalkStart ELSE WalkStep(rows, t, h[t - 1])]
  <2> DEFINE g == [t \in 0 .. k |->
                    IF t = 0 THEN WalkStart ELSE WalkStep(rows, t, h[t - 1])]
  <2>1. \A t \in 0 .. k : h[t] = g[t]
    <3> SUFFICES ASSUME NEW t \in 0 .. k PROVE h[t] = g[t]
      OBVIOUS
    <3>1. h[t] = IF t = 0 THEN WalkStart ELSE WalkStep(rows, t, w[t - 1])
      OBVIOUS
    <3>2. g[t] = IF t = 0 THEN WalkStart ELSE WalkStep(rows, t, h[t - 1])
      BY Zenon
    <3> HIDE DEF h, g
    <3>3. QED
      BY <1>8, <3>1, <3>2
  <2>2. h = g
    BY <2>1
  <2>3. QED
    BY <2>2
<1> HIDE DEF h
<1>10. IsWalk(rows, k, h)
  BY <1>9 DEF IsWalk
<1>11. QED
  BY <1>3, <1>10

-----------------------------------------------------------------------------
\* The rows up to a time that show anything, and what the newest of them shows.
ShownUpTo(rows, t) == {r \in rows : Shown(r) # {} /\ r.observed <= t}

PreviousUpTo(rows, t) == UNION {Shown(r) : r \in Newest(ShownUpTo(rows, t))}

EntriesUpTo(rows, t) ==
    {Entry(s, PreviousShown(rows, s)) :
        s \in {r \in TimelineRows(rows) : r.observed <= t}}

LEMMA PreviousAtTime ==
    ASSUME NEW rows, IsHistory(rows), NEW t \in Nat, NEW s \in rows,
           s.observed = t + 1
    PROVE  PreviousShown(rows, s) = PreviousUpTo(rows, t)
<1>1. {r \in rows : Shown(r) # {} /\ r.observed < s.observed} = ShownUpTo(rows, t)
  BY HistoryTimes DEF ShownUpTo
<1>2. QED
  BY <1>1 DEF PreviousShown, PreviousUpTo

LEMMA StartOfWalk ==
    ASSUME NEW rows, IsHistory(rows)
    PROVE  EntriesUpTo(rows, 0) = {} /\ PreviousUpTo(rows, 0) = {}
<1>1. \A r \in rows : ~ r.observed <= 0
  BY DEF IsHistory, Snapshot, Time
<1>2. ShownUpTo(rows, 0) = {} /\ {r \in TimelineRows(rows) : r.observed <= 0} = {}
  BY <1>1 DEF ShownUpTo, TimelineRows
<1>3. QED
  BY <1>2 DEF EntriesUpTo, PreviousUpTo, Newest

\* One time further, the walk is still where the rows up to then say.
LEMMA StepOfWalk ==
    ASSUME NEW rows, IsHistory(rows), NEW t \in Nat, NEW before,
           before.entries = EntriesUpTo(rows, t),
           before.previous = PreviousUpTo(rows, t)
    PROVE  /\ WalkStep(rows, t + 1, before).entries = EntriesUpTo(rows, t + 1)
           /\ WalkStep(rows, t + 1, before).previous = PreviousUpTo(rows, t + 1)
<1> DEFINE new == NewEntries(rows, t + 1, before)
<1>1. \A r \in rows : r.observed \in Nat
  BY HistoryTimes
<1>2. \A s \in rows : s.observed = t + 1 =>
        PreviousShown(rows, s) = before.previous
  BY PreviousAtTime
<1>3. new = {s \in TimelineRows(rows) : s.observed = t + 1}
  BY <1>2 DEF NewEntries, TimelineRows
<1>4. WalkStep(rows, t + 1, before).entries
        = before.entries \cup {Entry(s, before.previous) : s \in new}
  BY DEF WalkStep
<1>5. WalkStep(rows, t + 1, before).previous
        = IF new = {} THEN before.previous ELSE UNION {Shown(s) : s \in new}
  BY DEF WalkStep
<1> HIDE DEF new
<1>6. WalkStep(rows, t + 1, before).entries = EntriesUpTo(rows, t + 1)
  <2>1. {Entry(s, before.previous) : s \in new}
          = {Entry(s, PreviousShown(rows, s)) : s \in new}
    BY <1>2, <1>3 DEF TimelineRows
  <2>2. {r \in TimelineRows(rows) : r.observed <= t + 1}
          = {r \in TimelineRows(rows) : r.observed <= t} \cup new
    BY <1>1, <1>3 DEF TimelineRows
  <2>3. EntriesUpTo(rows, t + 1)
          = EntriesUpTo(rows, t) \cup {Entry(s, PreviousShown(rows, s)) : s \in new}
    BY <2>2 DEF EntriesUpTo
  <2>4. QED
    BY <1>4, <2>1, <2>3
<1>7. ASSUME NEW s \in rows, s.observed = t + 1, Shown(s) # {}
      PROVE  PreviousUpTo(rows, t + 1) = Shown(s)
  <2>1. s \in ShownUpTo(rows, t + 1)
    BY <1>1, <1>7 DEF ShownUpTo
  <2>2. \A r \in ShownUpTo(rows, t + 1) : r.observed <= s.observed
    BY <1>7 DEF ShownUpTo
  <2>3. Newest(ShownUpTo(rows, t + 1)) = {s}
    <3>1. ASSUME NEW r \in Newest(ShownUpTo(rows, t + 1))
          PROVE  r = s
      <4>1. r \in rows /\ s.observed <= r.observed /\ r.observed <= s.observed
        BY <2>1, <2>2 DEF Newest, ShownUpTo
      <4>2. QED
        BY <4>1, <1>1 DEF IsHistory
    <3>2. s \in Newest(ShownUpTo(rows, t + 1))
      BY <2>1, <2>2 DEF Newest
    <3>3. QED
      BY <3>1, <3>2
  <2>4. PreviousUpTo(rows, t + 1) = UNION {Shown(r) : r \in {s}}
    BY <2>3 DEF PreviousUpTo
  <2>5. QED
    BY <2>4
<1>8. CASE \A s \in rows : s.observed = t + 1 => Shown(s) = {}
  <2>1. ShownUpTo(rows, t + 1) = ShownUpTo(rows, t)
    BY <1>1, <1>8 DEF ShownUpTo
  <2>2. new = {}
    BY <1>3, <1>8 DEF TimelineRows
  <2>3. QED
    BY <1>5, <1>6, <2>1, <2>2 DEF PreviousUpTo
<1>9. ASSUME NEW s \in rows, s.observed = t + 1, Shown(s) # {}
      PROVE  WalkStep(rows, t + 1, before).previous = PreviousUpTo(rows, t + 1)
  <2>1. CASE Shown(s) = before.previous
    <3>1. new = {}
      BY <1>2, <1>3, <1>9, <2>1 DEF IsHistory, TimelineRows
    <3>2. QED
      BY <1>5, <1>7, <1>9, <2>1, <3>1
  <2>2. CASE Shown(s) # before.previous
    <3>1. new = {s}
      BY <1>2, <1>3, <1>9, <2>2 DEF IsHistory, TimelineRows
    <3>2. UNION {Shown(r) : r \in new} = Shown(s)
      BY <3>1
    <3>3. QED
      BY <1>5, <1>7, <1>9, <3>1, <3>2
  <2>3. QED
    BY <2>1, <2>2
<1>10. QED
  BY <1>6, <1>8, <1>9

\* At every time the walk has made the entries of the rows so far, and keeps
\* what the newest row so far that shows anything shows: a first time at which
\* it had not would come one step after a time at which it had.
LEMMA WalkUpTo ==
    ASSUME NEW rows, IsHistory(rows), NEW n \in Nat, NEW w, IsWalk(rows, n, w),
           NEW t \in 0 .. n
    PROVE  /\ w[t].entries = EntriesUpTo(rows, t)
           /\ w[t].previous = PreviousUpTo(rows, t)
<1> DEFINE Good(k) == /\ w[k].entries = EntriesUpTo(rows, k)
                      /\ w[k].previous = PreviousUpTo(rows, k)
           Wrong == {k \in 0 .. n : ~ Good(k)}
<1>1. SUFFICES ASSUME Wrong # {}
               PROVE  FALSE
  OBVIOUS
<1>2. PICK k \in Wrong : \A j \in Wrong : k <= j
  <2>1. Wrong \in SUBSET Nat
    OBVIOUS
  <2> HIDE DEF Wrong
  <2>2. QED
    BY <1>1, <2>1, LeastNatural
<1>3. k \in 0 .. n /\ ~ Good(k)
  OBVIOUS
<1>4. \A j \in 0 .. n : w[j] = IF j = 0 THEN WalkStart ELSE WalkStep(rows, j, w[j - 1])
  BY WalkValues
<1>5. CASE k = 0
  <2>1. w[k] = WalkStart
    BY <1>3, <1>4, <1>5
  <2>2. Good(k)
    BY <1>5, <2>1, StartOfWalk DEF WalkStart
  <2>3. QED
    BY <1>3, <2>2
<1>6. CASE k # 0
  <2>1. k - 1 \in Nat /\ k - 1 \in 0 .. n /\ k - 1 \notin Wrong /\ (k - 1) + 1 = k
    BY <1>2, <1>3, <1>6
  <2>2. Good(k - 1)
    BY <2>1
  <2>3. w[k] = WalkStep(rows, k, w[k - 1])
    BY <1>3, <1>4, <1>6
  <2>4. /\ WalkStep(rows, (k - 1) + 1, w[k - 1]).entries = EntriesUpTo(rows, (k - 1) + 1)
        /\ WalkStep(rows, (k - 1) + 1, w[k - 1]).previous = PreviousUpTo(rows, (k - 1) + 1)
    BY <2>1, <2>2, StepOfWalk
  <2>5. Good(k)
    BY <2>1, <2>3, <2>4
  <2>6. QED
    BY <1>3, <2>5
<1>7. QED
  BY <1>5, <1>6

LEMMA WalkLemma ==
    ASSUME NEW rows, IsHistory(rows)
    PROVE  TimelineOf(rows) = TimelineEntries(rows)
<1> DEFINE w == CHOOSE w : IsWalk(rows, Horizon, w)
<1>1. Horizon \in Nat /\ Horizon \in 0 .. Horizon
  BY HorizonAssumption
<1>2. \E v : IsWalk(rows, Horizon, v)
  BY <1>1, WalkExists
<1>3. IsWalk(rows, Horizon, w)
  BY <1>2, Zenon
<1>4. Walk(rows) = w[Horizon]
  BY WalkIsLast
<1> HIDE DEF w
<1>5. w[Horizon].entries = EntriesUpTo(rows, Horizon)
  BY <1>1, <1>3, WalkUpTo
<1>6. {r \in TimelineRows(rows) : r.observed <= Horizon} = TimelineRows(rows)
  BY DEF TimelineRows, IsHistory, Snapshot, Time
<1>7. QED
  BY <1>4, <1>5, <1>6 DEF TimelineOf, EntriesUpTo, TimelineEntries

\* The loop that serves the timeline, run over any rows of the log, lists the
\* changes it is meant to list.
THEOREM WalksListChanges == Spec => []WalkListsChanges
<1>1. IInv => WalkListsChanges
  BY HistoryForm, WalkLemma DEF IInv, LogInv, WalkListsChanges, ServedTimelineOf
<1>2. QED
  BY <1>1, Invariance, PTL
=============================================================================

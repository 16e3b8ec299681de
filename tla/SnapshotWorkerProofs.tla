------------------------ MODULE SnapshotWorkerProofs ------------------------
(***************************************************************************)
(* The safety properties of the snapshot worker, proved for any lines,     *)
(* devices, preferences, responses of TfL and assignment of days, with     *)
(* polls cut short by failures and restarts at every await.                *)
(***************************************************************************)
EXTENDS SnapshotWorker, SnapshotLogProofs

\* Rows are no later than the poll, earlier while TfL is being asked.
Timely ==
    /\ \A s \in snapshots : s.observed <= observed
    /\ pc = "fetching" => \A s \in snapshots : s.observed < observed
    /\ pc # "idle" => observed \in Time

LogInv ==
    /\ Timely
    /\ SnapshotKeysUnique
    /\ ConsecutiveSnapshotsDiffer
    /\ KnownLinesHaveBaseline

\* Whatever is or may become an event tells of a stored snapshot.
EventInv ==
    /\ \A e \in changes \cup actives \cup events : Backed(e)
    /\ current \subseteq events
    /\ \A d \in deliveries : d.event \in events

\* What the locals of a poll hold while it is on its way.
CursorInv ==
    /\ \A c, e \in current : c = e
    /\ current \subseteq changes \cup actives
    /\ pc \in {"idle", "fetching", "stored", "next"} => current = {}
    /\ pc \in {"idle", "fetching", "stored"} => seen = {}
    /\ pc \in {"idle", "fetching"} => changes = {} /\ actives = {}
    /\ \A c \in changes : c.observed = observed
    /\ \A c \in actives : c.type # Resumed

\* The devices a candidate is meant for, as long as they are alerted.
Wanted(c) ==
    {d \in DOMAIN polled :
        /\ c.type = Resumed => <<d, c.line>> \in alerted
        /\ DeviceMatches(c, polled[d], observed)}

Delivered(c, d) == [event |-> c, device |-> d] \in deliveries

\* Targets are what is wanted, then what is delivered; a recovery's targets
\* were alerted before.
TargetsInv ==
    \A c \in current :
        /\ pc = "deliver" =>
            /\ Wanted(c) \subseteq targets
            /\ c.type = Resumed =>
                \A d \in targets : AlertedBefore(d, c.line, c.observed)
        /\ pc \in {"record", "commit"} =>
            \A d \in Wanted(c) \cup targets : Delivered(c, d)
        /\ pc = "commit" => c.type # Resumed

\* Every alert that has been handled has reached the devices it is meant for.
HandledInv ==
    \A c \in seen \ current :
        c.type # Resumed => \A d \in Wanted(c) : Delivered(c, d)

\* A poll has a candidate for every disruption it found unchanged.
ActivesInv ==
    pc \notin {"idle", "fetching"} =>
        \A l \in reported :
        \A s \in LatestInDay(snapshots, l, OperationalDay[observed]) :
            s.observed < observed => ActiveDisruption(s) \subseteq actives

AlertInv ==
    /\ TargetsInv
    /\ HandledInv
    /\ ActivesInv
    /\ StatesJustified
    /\ RecoveryFollowsAlert

IInv ==
    /\ TypeOK
    /\ LogInv
    /\ EventInv
    /\ CursorInv
    /\ AlertInv

-----------------------------------------------------------------------------
LEMMA TableForm ==
    \A t : t \in DeviceTable <=>
        DOMAIN t \subseteq Device /\ t \in [DOMAIN t -> DeviceRow]
BY DEF DeviceTable

LEMMA TableMade ==
    ASSUME NEW D \in SUBSET Device, NEW t \in [D -> DeviceRow]
    PROVE  t \in DeviceTable
BY DEF DeviceTable

LEMMA EmptyTable == Empty \in DeviceTable /\ DOMAIN Empty = {}
BY TableForm DEF Empty

LEMMA NewRow == [enabled |-> TRUE, lines |-> Empty] \in DeviceRow
BY DEF DeviceRow

LEMMA InitTypes == Init => TypeOK
BY EmptyTable DEF Init, TypeOK

\* The candidates of a poll are candidates, of a row of its batch or of a row
\* it found unchanged.
LEMMA CandidateTypes ==
    ASSUME NEW log \in SUBSET Snapshot, NEW response, IsResponse(response),
           NEW at \in Time
    PROVE  /\ ChangeCandidates(log, response, at) \subseteq Candidates
           /\ ActiveCandidates(log, response, at) \subseteq Candidates
<1>1. Fresh(log, response, at) \subseteq Snapshot
  BY BatchRows DEF Batch
<1>2. \A l, day : LatestInDay(log, l, day) \subseteq Snapshot
  BY DEF LatestInDay, RowsInDay, Newest
<1>3. ChangeCandidates(log, response, at) \subseteq Candidates
  BY <1>1, <1>2, DetectedFacts DEF ChangeCandidates
<1>4. ActiveCandidates(log, response, at) \subseteq Candidates
  BY <1>1, <1>2, ActiveFacts DEF ActiveCandidates
<1>5. QED
  BY <1>3, <1>4

LEMMA StoreTypes ==
    ASSUME TypeOK, Timely, SnapshotKeysUnique,
           NEW response \in Response, StoreSnapshots(response)
    PROVE  TypeOK'
<1>1. IsResponse(response) /\ observed \in Time /\ KeysUnique(snapshots)
  BY ResponseAssumption
  DEF IsResponse, Timely, StoreSnapshots, SnapshotKeysUnique, KeysUnique
<1>2. snapshots' \subseteq Snapshot
  BY <1>1, BatchRows DEF StoreSnapshots, TypeOK
<1>3. changes' \subseteq CandidateType /\ actives' \subseteq CandidateType
  BY <1>1, CandidateTypes DEF StoreSnapshots, TypeOK, Candidates, CandidateType
<1>4. stored' \in Nat
  BY <1>1, BatchFinite, LineAssumption DEF StoreSnapshots, TypeOK
<1>5. reported' \subseteq Line
  BY <1>1 DEF StoreSnapshots, IsResponse
<1>6. QED
  BY <1>2, <1>3, <1>4, <1>5 DEF StoreSnapshots, TypeOK

LEMMA WorkerTypes ==
    ASSUME TypeOK,
           \/ BeginPoll \/ ReadDevices \/ CreateEvent \/ MatchTargets
           \/ CreateDeliveries \/ NothingToRecord \/ SelectStates
           \/ RecordAlerts \/ ClearAlerts
    PROVE  TypeOK'
<1> USE DEF TypeOK, tables, poll
<1>1. CASE BeginPoll
  BY <1>1 DEF BeginPoll
<1>2. CASE ReadDevices
  BY <1>2 DEF ReadDevices
<1>3. CASE CreateEvent
  <2>1. Unseen \subseteq CandidateType
    BY DEF Unseen
  <2>2. QED
    BY <1>3, <2>1 DEF CreateEvent
<1>4. CASE MatchTargets
  <2>1. \A c, at, notified : MatchingTargets(c, polled, at, notified) \subseteq Device
    BY TableForm DEF MatchingTargets
  <2>2. QED
    BY <1>4, <2>1 DEF MatchTargets
<1>5. CASE CreateDeliveries
  <2>1. PICK c \in current :
            /\ deliveries' \subseteq deliveries \cup
                    {[event |-> c, device |-> d] : d \in targets}
            /\ targets' \subseteq targets
    BY <1>5 DEF CreateDeliveries
  <2>2. \A d \in targets : [event |-> c, device |-> d] \in Delivery
    BY DEF Delivery
  <2>3. deliveries' \subseteq Delivery /\ targets' \subseteq Device
    BY <2>1, <2>2
  <2>4. QED
    BY <1>5, <2>3 DEF CreateDeliveries
<1>6. CASE RecordAlerts
  <2>1. PICK c \in current :
            alerted' = alerted \cup ((targets \ existing) \X {c.line})
    BY <1>6 DEF RecordAlerts
  <2>2. c.line \in Line
    BY DEF CandidateType
  <2>3. alerted' \subseteq Device \X Line
    BY <2>1, <2>2
  <2>4. QED
    BY <1>6, <2>3 DEF RecordAlerts
<1>7. CASE ClearAlerts
  BY <1>7 DEF ClearAlerts
<1>8. CASE NothingToRecord \/ SelectStates
  BY <1>8 DEF NothingToRecord, SelectStates
<1>9. QED
  BY <1>1, <1>2, <1>3, <1>4, <1>5, <1>6, <1>7, <1>8

LEMMA LeaveTypes ==
    ASSUME TypeOK, FinishPoll \/ FailPoll \/ WorkerCrash
    PROVE  TypeOK'
BY EmptyTable DEF TypeOK, FinishPoll, FailPoll, WorkerCrash, LeavePoll, tables

LEMMA ApiTypes ==
    ASSUME TypeOK, Api
    PROVE  TypeOK'
<1> USE DEF TypeOK, worker, poll
<1>1. SUFFICES devices' \in DeviceTable /\ alerted' \subseteq Device \X Line
  BY DEF Api, RegisterDevice, DeleteDevice, SetEnabled, WritePreferences
<1>2. PICK d \in Device :
        \/ \E other \in SUBSET Device : RegisterDevice(d, other)
        \/ DeleteDevice(d)
        \/ \E b \in BOOLEAN : SetEnabled(d, b)
        \/ \E lines \in LinePreferences : WritePreferences(d, lines)
  BY DEF Api
<1>3. DOMAIN devices \subseteq Device /\ \A e \in DOMAIN devices : devices[e] \in DeviceRow
  BY TableForm
<1>4. CASE \E other \in SUBSET Device : RegisterDevice(d, other)
  <2>1. PICK other \in SUBSET Device : RegisterDevice(d, other)
    BY <1>4
  <2> DEFINE D == (DOMAIN devices \ other) \cup {d}
  <2>2. devices' \in [D -> DeviceRow]
    BY <1>3, <2>1, NewRow DEF RegisterDevice
  <2>3. D \in SUBSET Device
    BY <1>3
  <2>4. QED
    BY <2>1, <2>2, <2>3, TableMade DEF RegisterDevice, Remove
<1>5. CASE DeleteDevice(d)
  BY <1>5, TableForm DEF DeleteDevice, Remove
<1>6. CASE \E b \in BOOLEAN : SetEnabled(d, b)
  <2>1. PICK b \in BOOLEAN : SetEnabled(d, b)
    BY <1>6
  <2>2. devices' \in [DOMAIN devices -> DeviceRow]
    BY <1>3, <2>1 DEF SetEnabled, DeviceRow
  <2>3. QED
    BY <1>3, <2>1, <2>2, TableMade DEF SetEnabled
<1>7. CASE \E lines \in LinePreferences : WritePreferences(d, lines)
  <2>1. PICK lines \in LinePreferences : WritePreferences(d, lines)
    BY <1>7
  <2>2. devices' \in [DOMAIN devices -> DeviceRow]
    BY <1>3, <2>1 DEF WritePreferences, DeviceRow
  <2>3. QED
    BY <1>3, <2>1, <2>2, TableMade DEF WritePreferences
<1>8. QED
  BY <1>2, <1>4, <1>5, <1>6, <1>7

-----------------------------------------------------------------------------
\* The rows of a batch come after all others: what preceded an old row still
\* does, and what precedes a new one is what the poll compared it with.
LEMMA StoreRows ==
    ASSUME TypeOK, Timely,
           NEW response \in Response, StoreSnapshots(response)
    PROVE  /\ snapshots' = snapshots \cup Batch(snapshots, response, observed)
           /\ \A s \in snapshots :
                /\ s \in Snapshot
                /\ s.observed < observed
                /\ PreviousInDay(s)' = PreviousInDay(s)
           /\ \A b \in Batch(snapshots, response, observed) :
                /\ b \in Snapshot
                /\ b.observed = observed
                /\ PreviousInDay(b)' =
                    LatestInDay(snapshots, b.line, OperationalDay[observed])
<1> DEFINE batch == Batch(snapshots, response, observed)
<1>1. IsResponse(response) /\ observed \in Time
  BY ResponseAssumption DEF IsResponse, Timely, StoreSnapshots
<1>2. batch \subseteq Snapshot /\ \A b \in batch : b.observed = observed
  BY <1>1, BatchRows DEF TypeOK
<1>3. \A s \in snapshots : s \in Snapshot /\ s.observed < observed
  BY DEF TypeOK, Timely, StoreSnapshots
<1>4. snapshots' = snapshots \cup batch
  BY DEF StoreSnapshots
<1> HIDE DEF batch
<1>5. \A s \in Snapshot : s.observed \in Nat
  BY DEF Snapshot, Time
<1>6. ASSUME NEW s \in snapshots
      PROVE  PreviousInDay(s)' = PreviousInDay(s)
  <2>1. \A b \in batch : ~ (b.observed < s.observed)
    BY <1>2, <1>3, <1>5
  <2>2. {r \in RowsInDay(snapshots', s.line, OperationalDay[s.observed]) :
                r.observed < s.observed} =
        {r \in RowsInDay(snapshots, s.line, OperationalDay[s.observed]) :
                r.observed < s.observed}
    BY <1>4, <2>1 DEF RowsInDay
  <2>3. QED
    BY <2>2 DEF PreviousInDay
<1>7. ASSUME NEW b \in batch
      PROVE  PreviousInDay(b)' =
                LatestInDay(snapshots, b.line, OperationalDay[observed])
  <2>1. b.observed = observed /\ \A c \in batch : ~ (c.observed < b.observed)
    BY <1>2, <1>5
  <2>2. {r \in RowsInDay(snapshots', b.line, OperationalDay[b.observed]) :
                r.observed < b.observed} =
        RowsInDay(snapshots, b.line, OperationalDay[observed])
    BY <1>3, <1>4, <2>1 DEF RowsInDay
  <2>3. QED
    BY <2>2 DEF PreviousInDay, LatestInDay
<1>8. QED
  BY <1>2, <1>3, <1>4, <1>6, <1>7 DEF batch

LEMMA StoreLog ==
    ASSUME TypeOK, LogInv,
           NEW response \in Response, StoreSnapshots(response)
    PROVE  LogInv'
<1> DEFINE batch == Batch(snapshots, response, observed)
<1>1. /\ snapshots' = snapshots \cup batch
      /\ \A s \in snapshots :
            /\ s \in Snapshot
            /\ s.observed < observed
            /\ PreviousInDay(s)' = PreviousInDay(s)
      /\ \A b \in batch :
            /\ b \in Snapshot
            /\ b.observed = observed
            /\ PreviousInDay(b)' =
                LatestInDay(snapshots, b.line, OperationalDay[observed])
  BY StoreRows DEF LogInv
<1>2. observed \in Time /\ pc' = "stored" /\ observed' = observed
  BY DEF LogInv, Timely, StoreSnapshots
<1>3. KeysUnique(batch)
  BY <1>2, BatchKeysUnique DEF TypeOK, LogInv, SnapshotKeysUnique, KeysUnique
<1>4. \A b \in batch :
        \A p \in LatestInDay(snapshots, b.line, OperationalDay[observed]) :
            p.statuses # b.statuses
  BY BatchChanges
<1>5. \A l \in SupportedLine :
        RowsBeforeDay(snapshots, l, OperationalDay[observed]) # {} =>
            \E b \in RowsInDay(snapshots, l, OperationalDay[observed]) \cup batch :
                b.line = l
  BY <1>2, BatchBaseline DEF TypeOK, RowsBeforeDay
<1> HIDE DEF batch
<1>6. observed \in Nat /\ \A s \in Snapshot : s.observed \in Time
  BY <1>2 DEF Time, Snapshot
<1>7. Timely'
  BY <1>1, <1>2, <1>6 DEF Timely, LogInv, Time
<1>8. SnapshotKeysUnique'
  BY <1>1, <1>3, <1>6 DEF SnapshotKeysUnique, KeysUnique, LogInv
<1>9. ConsecutiveSnapshotsDiffer'
  <2>1. ASSUME NEW s \in snapshots', NEW p \in PreviousInDay(s)'
        PROVE  p.statuses # s.statuses
    BY <1>1, <1>4, <2>1 DEF LogInv, ConsecutiveSnapshotsDiffer
  <2>2. QED
    BY <2>1 DEF ConsecutiveSnapshotsDiffer
<1>10. KnownLinesHaveBaseline'
  <2>1. SUFFICES
            ASSUME NEW s \in snapshots', NEW l \in SupportedLine,
                   RowsBeforeDay(snapshots', l, OperationalDay[s.observed]) # {}
            PROVE  \E b \in RowsInDay(snapshots', l, OperationalDay[s.observed]) :
                        b.observed <= s.observed
    BY DEF KnownLinesHaveBaseline
  <2>2. s.observed \in Time /\ OperationalDay[s.observed] \in Nat
    BY <1>1, <1>6, DayAssumption
  <2>3. OperationalDay[observed] \in Nat
    BY <1>2, DayAssumption
  <2>4. OperationalDay[s.observed] <= OperationalDay[observed]
    BY <1>1, <1>2, <1>6, <2>2, DayAssumption DEF Time
  <2>5. RowsBeforeDay(snapshots, l, OperationalDay[s.observed]) # {}
    <3>1. PICK r \in snapshots' :
            r.line = l /\ OperationalDay[r.observed] < OperationalDay[s.observed]
      BY <2>1 DEF RowsBeforeDay
    <3>2. r \in snapshots
      BY <1>1, <2>2, <2>3, <2>4, <3>1
    <3>3. QED
      BY <3>1, <3>2 DEF RowsBeforeDay
  <2>6. CASE s \in snapshots
    BY <1>1, <2>5, <2>6 DEF LogInv, KnownLinesHaveBaseline, RowsInDay
  <2>7. CASE s \in batch
    <3>1. s.observed = observed
      BY <1>1, <2>7
    <3>2. PICK b \in RowsInDay(snapshots, l, OperationalDay[observed]) \cup batch :
            b.line = l
      BY <1>5, <2>5, <3>1
    <3>3. b \in RowsInDay(snapshots', l, OperationalDay[observed])
      BY <1>1, <3>2 DEF RowsInDay
    <3>4. b.observed <= observed
      BY <1>1, <1>6, <3>2 DEF RowsInDay, Time
    <3>5. QED
      BY <3>1, <3>3, <3>4
  <2>8. QED
    BY <1>1, <2>6, <2>7
<1>11. QED
  BY <1>7, <1>8, <1>9, <1>10 DEF LogInv

\* No other step writes a snapshot.
LEMMA QuietLog ==
    ASSUME TypeOK, LogInv, UNCHANGED snapshots,
           \/ BeginPoll
           \/ /\ UNCHANGED observed
              /\ pc' = pc \/ pc' = "idle" \/ (pc # "idle" /\ pc' # "fetching")
    PROVE  LogInv'
<1>1. Timely'
  <2>1. \A s \in snapshots : s.observed \in Nat
    BY DEF TypeOK, Snapshot, Time
  <2>2. observed \in Nat
    BY DEF TypeOK, Time
  <2>3. QED
    BY <2>1, <2>2 DEF LogInv, Timely, BeginPoll, Time
<1>2. QED
  BY <1>1 DEF LogInv, SnapshotKeysUnique, ConsecutiveSnapshotsDiffer,
              PreviousInDay, KnownLinesHaveBaseline

\* Every step but StoreSnapshots leaves the log alone.
LEMMA QuietSteps ==
    ASSUME [Next]_vars, \A response \in Response : ~ StoreSnapshots(response)
    PROVE  /\ UNCHANGED snapshots
           /\ \/ BeginPoll
              \/ /\ UNCHANGED observed
                 /\ pc' = pc \/ pc' = "idle" \/ (pc # "idle" /\ pc' # "fetching")
<1> USE DEF vars, tables, poll, worker
<1>1. CASE Poll
  BY <1>1 DEF Poll, BeginPoll, ReadDevices, CreateEvent, MatchTargets,
              CreateDeliveries, NothingToRecord, SelectStates, RecordAlerts,
              ClearAlerts, StateWriteFails, FinishPoll, FailPoll, LeavePoll
<1>2. CASE PollError \/ WorkerCrash
  BY <1>2 DEF PollError, FailPoll, WorkerCrash, LeavePoll
<1>3. CASE Api
  BY <1>3 DEF Api, RegisterDevice, DeleteDevice, SetEnabled, WritePreferences
<1>4. CASE UNCHANGED vars
  BY <1>4
<1>5. QED
  BY <1>1, <1>2, <1>3, <1>4 DEF Next

-----------------------------------------------------------------------------
\* TfL is asked: only the time goes on.
LEMMA BeginPollAlerts ==
    ASSUME IInv, BeginPoll
    PROVE  EventInv' /\ CursorInv' /\ AlertInv'
<1> USE DEF IInv, BeginPoll, tables, poll
<1>1. EventInv'
  BY DEF EventInv, Backed, PreviousInDay
<1>2. CursorInv'
  BY DEF CursorInv
<1>3. current = {} /\ seen = {}
  BY DEF CursorInv
<1>4. StatesJustified'
  <2>1. observed \in Nat /\ observed' \in Nat /\ observed < observed'
    BY DEF TypeOK, Time
  <2>2. \A d \in deliveries : d.event.observed \in Nat
    BY DEF TypeOK, Delivery, CandidateType, Time
  <2>3. QED
    BY <2>1, <2>2 DEF AlertInv, StatesJustified, AlertedBefore
<1>5. RecoveryFollowsAlert'
  BY DEF AlertInv, RecoveryFollowsAlert, AlertedBefore
<1>6. QED
  BY <1>1, <1>2, <1>3, <1>4, <1>5
  DEF AlertInv, TargetsInv, HandledInv, ActivesInv

\* Candidates come from the rows of the batch and the rows found unchanged.
LEMMA StoreAlerts ==
    ASSUME IInv, NEW response \in Response, StoreSnapshots(response)
    PROVE  EventInv' /\ CursorInv' /\ AlertInv'
<1> DEFINE batch == Batch(snapshots, response, observed)
<1>1. /\ snapshots' = snapshots \cup batch
      /\ \A s \in snapshots :
            /\ s \in Snapshot
            /\ PreviousInDay(s)' = PreviousInDay(s)
      /\ \A b \in batch :
            /\ b \in Snapshot
            /\ b.observed = observed
            /\ PreviousInDay(b)' =
                LatestInDay(snapshots, b.line, OperationalDay[observed])
  BY StoreRows DEF IInv, LogInv
<1>2. Fresh(snapshots, response, observed) \subseteq batch
  BY DEF Batch
<1>3. \A l, day : LatestInDay(snapshots, l, day) \subseteq snapshots
  BY DEF LatestInDay, RowsInDay, Newest
<1>4. /\ pc = "fetching" /\ pc' = "stored"
      /\ observed \in Time /\ IsResponse(response)
      /\ current = {} /\ seen = {} /\ current' = {} /\ seen' = {}
  BY ResponseAssumption
  DEF IInv, LogInv, Timely, CursorInv, StoreSnapshots, IsResponse
<1>5. \A e \in changes' : \E s \in batch, p \in snapshots :
        /\ p \in LatestInDay(snapshots, s.line, OperationalDay[observed])
        /\ e \in Detected(p, s)
  BY <1>2, <1>3 DEF StoreSnapshots, ChangeCandidates
<1>6. \A e \in actives' : \E s \in snapshots \cup batch : e \in ActiveDisruption(s)
  BY <1>2, <1>3 DEF StoreSnapshots, ActiveCandidates
<1> HIDE DEF batch
<1>7. ASSUME NEW e \in changes'
      PROVE  Backed(e)' /\ e.observed = observed
  <2>1. PICK s \in batch, p \in snapshots :
            /\ p \in LatestInDay(snapshots, s.line, OperationalDay[observed])
            /\ e \in Detected(p, s)
    BY <1>5
  <2>2. /\ p \in Snapshot /\ s \in Snapshot /\ s.observed = observed
        /\ s \in snapshots' /\ p \in PreviousInDay(s)'
    BY <1>1, <2>1
  <2>3. e.observed = observed
    BY <2>1, <2>2, DetectedFacts
  <2>4. Tells(e, s, PreviousInDay(s)')
    BY <2>1, <2>2, DetectedFacts DEF Tells
  <2>5. QED
    BY <2>2, <2>3, <2>4 DEF Backed
<1>8. ASSUME NEW e \in actives'
      PROVE  Backed(e)' /\ e.type # Resumed
  <2>1. PICK s \in snapshots \cup batch : e \in ActiveDisruption(s)
    BY <1>6
  <2>2. s \in Snapshot /\ s \in snapshots'
    BY <1>1
  <2>3. Started # Changed /\ Started # Resumed
    BY DEF Started, Changed, Resumed
  <2>4. Tells(e, s, PreviousInDay(s)') /\ e.type # Resumed
    BY <2>1, <2>2, <2>3, ActiveFacts DEF Tells, Disruptions
  <2>5. QED
    BY <2>2, <2>4 DEF Backed
<1>9. ASSUME NEW e \in events
      PROVE  Backed(e)'
  <2>1. PICK s \in snapshots : Tells(e, s, PreviousInDay(s))
    BY DEF IInv, EventInv, Backed
  <2>2. s \in snapshots' /\ Tells(e, s, PreviousInDay(s)')
    BY <1>1, <2>1
  <2>3. QED
    BY <2>2 DEF Backed
<1>10. EventInv'
  BY <1>4, <1>7, <1>8, <1>9 DEF IInv, EventInv, StoreSnapshots
<1>11. CursorInv'
  BY <1>4, <1>7, <1>8 DEF CursorInv, StoreSnapshots
<1>12. ActivesInv'
  <2>1. snapshots \in SUBSET Snapshot
    BY DEF IInv, TypeOK
  <2>2. \A l \in DOMAIN response :
        \A s \in LatestInDay(snapshots', l, OperationalDay[observed]) :
            s.observed < observed =>
                ActiveDisruption(s) \subseteq ActiveCandidates(snapshots, response, observed)
    BY <1>1, <1>4, <2>1, ActivesFound DEF batch
  <2>3. QED
    BY <2>2 DEF ActivesInv, StoreSnapshots
<1>13. StatesJustified' /\ RecoveryFollowsAlert'
  BY DEF IInv, AlertInv, StatesJustified, RecoveryFollowsAlert, AlertedBefore,
         StoreSnapshots
<1>14. QED
  BY <1>4, <1>10, <1>11, <1>12, <1>13 DEF AlertInv, TargetsInv, HandledInv

\* The devices are read before any candidate is handled.
LEMMA ReadDevicesAlerts ==
    ASSUME IInv, ReadDevices
    PROVE  EventInv' /\ CursorInv' /\ AlertInv'
<1> USE DEF IInv, ReadDevices, tables
<1>1. EventInv'
  BY DEF EventInv, Backed, PreviousInDay
<1>2. current = {} /\ seen = {}
  BY DEF CursorInv
<1>3. CursorInv'
  BY <1>2 DEF CursorInv
<1>4. ActivesInv' /\ StatesJustified' /\ RecoveryFollowsAlert'
  BY DEF AlertInv, ActivesInv, StatesJustified, RecoveryFollowsAlert,
         AlertedBefore
<1>5. QED
  BY <1>1, <1>2, <1>3, <1>4 DEF AlertInv, TargetsInv, HandledInv

\* The event of a candidate is recorded before it is matched.
LEMMA CreateEventAlerts ==
    ASSUME IInv, CreateEvent
    PROVE  EventInv' /\ CursorInv' /\ AlertInv'
<1> USE DEF IInv, CreateEvent
<1>1. PICK c \in Unseen :
        /\ seen' = seen \cup {c}
        /\ current' = {c}
        /\ events' = events \cup {c}
  OBVIOUS
<1>2. c \in changes \cup actives
  BY DEF Unseen
<1>3. EventInv'
  BY <1>1, <1>2 DEF EventInv, Backed, PreviousInDay
<1>4. CursorInv'
  BY <1>1, <1>2 DEF CursorInv
<1>5. current = {} /\ pc' = "match"
  BY DEF CursorInv
<1>6. HandledInv'
  BY <1>1, <1>5 DEF AlertInv, HandledInv, Wanted, Delivered
<1>7. ActivesInv' /\ StatesJustified' /\ RecoveryFollowsAlert'
  BY DEF AlertInv, ActivesInv, StatesJustified, RecoveryFollowsAlert,
         AlertedBefore
<1>8. QED
  BY <1>3, <1>4, <1>5, <1>6, <1>7 DEF AlertInv, TargetsInv

\* A state that a recovery finds stands for an alert before it: an alert of
\* the same time would tell of the same snapshot that it is disrupted.
LEMMA MatchTargetsAlerts ==
    ASSUME IInv, MatchTargets
    PROVE  EventInv' /\ CursorInv' /\ AlertInv'
<1> USE DEF IInv, MatchTargets, tables
<1>1. PICK c \in current :
        targets' = MatchingTargets(c, polled,
                        IF c \in changes THEN c.observed ELSE observed,
                        {d \in Device : <<d, c.line>> \in alerted})
  OBVIOUS
<1>2. /\ current' = current /\ pc = "match" /\ pc' = "deliver"
      /\ \A e \in current : e = c
      /\ c \in changes => c.observed = observed
      /\ c.type = Resumed => c \in changes
  BY <1>1 DEF CursorInv
<1>3. targets' = MatchingTargets(c, polled, observed,
                        {d \in Device : <<d, c.line>> \in alerted})
  BY <1>1, <1>2
<1>4. Wanted(c) = targets'
  BY <1>3, TableForm DEF Wanted, MatchingTargets, TypeOK
<1>5. ASSUME c.type = Resumed, NEW d \in targets'
      PROVE  AlertedBefore(d, c.line, c.observed)
  <2>1. <<d, c.line>> \in alerted
    BY <1>3, <1>5 DEF MatchingTargets
  <2>2. PICK a \in deliveries :
            /\ a.device = d
            /\ a.event.line = c.line
            /\ a.event.type # Resumed
            /\ a.event.observed < observed + 1
    BY <2>1 DEF AlertInv, StatesJustified, AlertedBefore
  <2>3. Backed(a.event) /\ Backed(c)
    BY <1>1 DEF EventInv
  <2>4. PICK r \in snapshots : Tells(a.event, r, PreviousInDay(r))
    BY <2>3 DEF Backed
  <2>5. PICK s \in snapshots : Tells(c, s, PreviousInDay(s))
    BY <2>3 DEF Backed
  <2>6. r # s
    BY <1>5, <2>2, <2>4, <2>5 DEF Tells
  <2>7. r.observed # s.observed
    BY <2>2, <2>4, <2>5, <2>6 DEF Tells, LogInv, SnapshotKeysUnique
  <2>8. a.event.observed # c.observed
    BY <2>4, <2>5, <2>7 DEF Tells
  <2>9. c.observed = observed /\ a.event.observed \in Nat /\ observed \in Nat
    BY <1>2, <1>5 DEF TypeOK, Delivery, CandidateType, Time
  <2>10. a.event.observed < c.observed
    BY <2>2, <2>8, <2>9
  <2>11. QED
    BY <2>2, <2>10 DEF AlertedBefore
<1>6. TargetsInv'
  BY <1>2, <1>4, <1>5 DEF TargetsInv, Wanted, AlertedBefore
<1>7. EventInv' /\ CursorInv'
  BY <1>2 DEF EventInv, CursorInv, Backed, PreviousInDay
<1>8. HandledInv' /\ ActivesInv' /\ StatesJustified' /\ RecoveryFollowsAlert'
  BY DEF AlertInv, HandledInv, Wanted, Delivered, ActivesInv, StatesJustified,
         RecoveryFollowsAlert, AlertedBefore
<1>9. QED
  BY <1>6, <1>7, <1>8 DEF AlertInv

\* The deliveries that are new are queued, and become the targets.
LEMMA CreateDeliveriesAlerts ==
    ASSUME IInv, CreateDeliveries
    PROVE  EventInv' /\ CursorInv' /\ AlertInv'
<1> USE DEF IInv, CreateDeliveries
<1>1. PICK c \in current :
        /\ deliveries' = deliveries \cup
            {[event |-> c, device |-> d] : d \in
                {e \in targets : [event |-> c, device |-> e] \notin deliveries}}
        /\ targets' = {d \in targets : [event |-> c, device |-> d] \notin deliveries}
  OBVIOUS
<1>2. /\ current' = current /\ pc = "deliver" /\ pc' = "record"
      /\ \A e \in current : e = c
      /\ c \in events
  BY <1>1 DEF CursorInv, EventInv
<1>3. deliveries \subseteq deliveries' /\ targets' \subseteq targets
  BY <1>1
<1>4. \A d \in targets : Delivered(c, d)'
  BY <1>1 DEF Delivered
<1>5. \A a \in deliveries' :
        a \in deliveries \/ \E d \in targets : a = [event |-> c, device |-> d]
  BY <1>1
<1>6. EventInv'
  <2>1. \A a \in deliveries' : a.event \in events
    <3>1. \A a \in deliveries : a.event \in events
      BY DEF EventInv
    <3>2. \A d \in targets : [event |-> c, device |-> d].event \in events
      BY <1>2
    <3>3. QED
      BY <1>5, <3>1, <3>2
  <2>2. QED
    BY <1>2, <2>1 DEF EventInv, Backed, PreviousInDay
<1>7. CursorInv'
  BY <1>2 DEF CursorInv
<1>8. TargetsInv'
  BY <1>1, <1>2, <1>3, <1>4 DEF AlertInv, TargetsInv, Wanted
<1>9. HandledInv' /\ ActivesInv'
  BY <1>2, <1>3 DEF AlertInv, HandledInv, Wanted, Delivered, ActivesInv
<1>10. StatesJustified'
  BY <1>3 DEF AlertInv, StatesJustified, AlertedBefore
<1>11. RecoveryFollowsAlert'
  <2>1. SUFFICES ASSUME NEW r \in deliveries', r.event.type = Resumed
                 PROVE  AlertedBefore(r.device, r.event.line, r.event.observed)
    BY <1>3 DEF RecoveryFollowsAlert, AlertedBefore
  <2>2. CASE r \in deliveries
    BY <2>1, <2>2 DEF AlertInv, RecoveryFollowsAlert
  <2>3. CASE r \notin deliveries
    <3>1. PICK d \in targets : r = [event |-> c, device |-> d]
      BY <1>5, <2>3
    <3>2. AlertedBefore(d, c.line, c.observed)
      BY <1>1, <1>2, <2>1, <3>1 DEF AlertInv, TargetsInv
    <3>3. QED
      BY <3>1, <3>2
  <2>4. QED
    BY <2>2, <2>3
<1>12. QED
  BY <1>6, <1>7, <1>8, <1>9, <1>10, <1>11 DEF AlertInv

\* No state is recorded when nothing was queued: what is wanted was before.
LEMMA NothingToRecordAlerts ==
    ASSUME IInv, NothingToRecord
    PROVE  EventInv' /\ CursorInv' /\ AlertInv'
<1> USE DEF IInv, NothingToRecord, tables
<1>1. PICK c \in current : c.type # Resumed
  OBVIOUS
<1>2. /\ pc = "record" /\ pc' = "next" /\ current' = {}
      /\ \A e \in current : e = c
  BY <1>1 DEF CursorInv
<1>3. EventInv' /\ CursorInv'
  BY <1>2 DEF EventInv, CursorInv, Backed, PreviousInDay
<1>4. \A d \in Wanted(c) : Delivered(c, d)
  BY <1>1, <1>2 DEF AlertInv, TargetsInv
<1>5. HandledInv'
  BY <1>2, <1>4 DEF AlertInv, HandledInv, Delivered, Wanted
<1>6. StatesJustified' /\ ActivesInv' /\ RecoveryFollowsAlert'
  BY <1>2 DEF AlertInv, StatesJustified, ActivesInv, RecoveryFollowsAlert,
              AlertedBefore
<1>7. QED
  BY <1>2, <1>3, <1>5, <1>6 DEF AlertInv, TargetsInv

\* The states there are already are read, for a disruption.
LEMMA SelectStatesAlerts ==
    ASSUME IInv, SelectStates
    PROVE  EventInv' /\ CursorInv' /\ AlertInv'
<1> USE DEF IInv, SelectStates, tables
<1>1. PICK c \in current : c.type # Resumed
  OBVIOUS
<1>2. /\ pc = "record" /\ pc' = "commit" /\ current' = current
      /\ \A e \in current : e = c
  BY <1>1 DEF CursorInv
<1>3. EventInv' /\ CursorInv'
  BY <1>2 DEF EventInv, CursorInv, Backed, PreviousInDay
<1>4. TargetsInv'
  BY <1>1, <1>2 DEF AlertInv, TargetsInv, Wanted, Delivered
<1>5. HandledInv' /\ ActivesInv' /\ StatesJustified' /\ RecoveryFollowsAlert'
  BY <1>2 DEF AlertInv, HandledInv, Wanted, Delivered, ActivesInv,
              StatesJustified, RecoveryFollowsAlert, AlertedBefore
<1>6. QED
  BY <1>3, <1>4, <1>5 DEF AlertInv

\* A state is recorded for what has just been queued, for devices that are
\* still there.
LEMMA RecordAlertsAlerts ==
    ASSUME IInv, RecordAlerts
    PROVE  EventInv' /\ CursorInv' /\ AlertInv'
<1> USE DEF IInv, RecordAlerts
<1>1. PICK c \in current :
        /\ c.type # Resumed
        /\ alerted' = alerted \cup ((targets \ existing) \X {c.line})
  BY DEF AlertInv, TargetsInv
<1>2. /\ pc = "commit" /\ pc' = "next" /\ current' = {}
      /\ \A e \in current : e = c
      /\ c \in events
  BY <1>1 DEF CursorInv, EventInv
<1>3. EventInv' /\ CursorInv'
  BY <1>2 DEF EventInv, CursorInv, Backed, PreviousInDay
<1>4. \A d \in Wanted(c) \cup targets : Delivered(c, d)
  BY <1>1, <1>2 DEF AlertInv, TargetsInv
<1>5. \A e : e.type # Resumed => Wanted(e)' = Wanted(e)
  BY DEF Wanted
<1>6. HandledInv'
  BY <1>1, <1>2, <1>4, <1>5 DEF AlertInv, HandledInv, Delivered
<1>7. c.observed < observed + 1
  <2>1. PICK s \in snapshots : c.observed = s.observed
    BY <1>2 DEF EventInv, Backed, Tells
  <2>2. s.observed \in Nat /\ observed \in Nat /\ s.observed <= observed
    BY DEF TypeOK, Snapshot, Time, LogInv, Timely
  <2>3. QED
    BY <2>1, <2>2
<1>8. ASSUME NEW d \in targets
      PROVE  AlertedBefore(d, c.line, observed + 1)
  <2>1. [event |-> c, device |-> d] \in deliveries
    BY <1>4 DEF Delivered
  <2>2. QED
    BY <1>1, <1>7, <2>1 DEF AlertedBefore
<1>9. StatesJustified'
  <2>1. \A a \in alerted' : \/ a \in alerted
                            \/ /\ a[1] \in targets /\ a[1] \in DOMAIN devices
                               /\ a[2] = c.line
    BY <1>1
  <2>2. QED
    BY <1>8, <2>1 DEF AlertInv, StatesJustified, AlertedBefore
<1>10. ActivesInv' /\ RecoveryFollowsAlert'
  BY <1>2 DEF AlertInv, ActivesInv, RecoveryFollowsAlert, AlertedBefore
<1>11. QED
  BY <1>2, <1>3, <1>6, <1>9, <1>10 DEF AlertInv, TargetsInv

\* A recovery is no alert: with its states, nothing is owed.
LEMMA ClearAlertsAlerts ==
    ASSUME IInv, ClearAlerts
    PROVE  EventInv' /\ CursorInv' /\ AlertInv'
<1> USE DEF IInv, ClearAlerts
<1>1. PICK c \in current :
        c.type = Resumed /\ alerted' = {a \in alerted : a[2] # c.line}
  OBVIOUS
<1>2. /\ pc = "record" /\ pc' = "next" /\ current' = {}
      /\ \A e \in current : e = c
  BY <1>1 DEF CursorInv
<1>3. EventInv' /\ CursorInv'
  BY <1>2 DEF EventInv, CursorInv, Backed, PreviousInDay
<1>4. HandledInv'
  BY <1>1, <1>2 DEF AlertInv, HandledInv, Delivered, Wanted
<1>5. StatesJustified'
  BY <1>1 DEF AlertInv, StatesJustified, AlertedBefore
<1>6. ActivesInv' /\ RecoveryFollowsAlert'
  BY <1>2 DEF AlertInv, ActivesInv, RecoveryFollowsAlert, AlertedBefore
<1>7. QED
  BY <1>2, <1>3, <1>4, <1>5, <1>6 DEF AlertInv, TargetsInv

\* However a poll ends, its tables stay and its locals go.
LEMMA LeaveAlerts ==
    ASSUME IInv, FinishPoll \/ FailPoll \/ WorkerCrash
    PROVE  EventInv' /\ CursorInv' /\ AlertInv'
<1>1. /\ LeavePoll
      /\ UNCHANGED <<snapshots, devices, alerted, events, deliveries, observed>>
  BY DEF FinishPoll, FailPoll, WorkerCrash, tables
<1>2. EventInv' /\ CursorInv'
  BY <1>1 DEF IInv, LeavePoll, EventInv, CursorInv, Backed, PreviousInDay
<1>3. StatesJustified' /\ RecoveryFollowsAlert'
  BY <1>1 DEF IInv, AlertInv, StatesJustified, RecoveryFollowsAlert, AlertedBefore
<1>4. QED
  BY <1>1, <1>2, <1>3 DEF LeavePoll, AlertInv, TargetsInv, HandledInv, ActivesInv

\* The API takes states away only, and those of the devices it takes away.
LEMMA ApiAlerts ==
    ASSUME IInv, Api
    PROVE  EventInv' /\ CursorInv' /\ AlertInv'
<1>1. /\ alerted' \subseteq alerted
      /\ UNCHANGED <<snapshots, events, deliveries, worker>>
      /\ \A a \in alerted' : a[1] \in DOMAIN devices => a[1] \in DOMAIN devices'
  <2>1. PICK d \in Device :
            \/ \E other \in SUBSET Device : RegisterDevice(d, other)
            \/ DeleteDevice(d)
            \/ \E b \in BOOLEAN : SetEnabled(d, b)
            \/ \E lines \in LinePreferences : WritePreferences(d, lines)
    BY DEF Api
  <2>2. CASE \E other \in SUBSET Device : RegisterDevice(d, other)
    BY <2>2 DEF RegisterDevice, Remove
  <2>3. CASE DeleteDevice(d)
    BY <2>3 DEF DeleteDevice, Remove
  <2>4. CASE \E b \in BOOLEAN : SetEnabled(d, b)
    BY <2>4 DEF SetEnabled
  <2>5. CASE \E lines \in LinePreferences : WritePreferences(d, lines)
    BY <2>5 DEF WritePreferences
  <2>6. QED
    BY <2>1, <2>2, <2>3, <2>4, <2>5
<1> USE DEF IInv, worker, poll
<1>2. EventInv' /\ CursorInv'
  BY <1>1 DEF EventInv, CursorInv, Backed, PreviousInDay
<1>3. \A c : Wanted(c)' \subseteq Wanted(c)
  BY <1>1 DEF Wanted
<1>4. TargetsInv'
  BY <1>1, <1>3 DEF AlertInv, TargetsInv, Delivered, AlertedBefore
<1>5. HandledInv' /\ ActivesInv'
  BY <1>1, <1>3 DEF AlertInv, HandledInv, Delivered, ActivesInv
<1>6. StatesJustified' /\ RecoveryFollowsAlert'
  BY <1>1 DEF AlertInv, StatesJustified, RecoveryFollowsAlert, AlertedBefore
<1>7. QED
  BY <1>2, <1>4, <1>5, <1>6 DEF AlertInv

LEMMA StutterAlerts ==
    ASSUME IInv, UNCHANGED vars
    PROVE  EventInv' /\ CursorInv' /\ AlertInv'
<1> USE DEF IInv, vars, tables, poll
<1>1. EventInv' /\ CursorInv'
  BY DEF EventInv, CursorInv, Backed, PreviousInDay
<1>2. TargetsInv' /\ HandledInv' /\ ActivesInv'
  BY DEF AlertInv, TargetsInv, HandledInv, ActivesInv, AlertedBefore, Wanted,
         Delivered
<1>3. StatesJustified' /\ RecoveryFollowsAlert'
  BY DEF AlertInv, StatesJustified, RecoveryFollowsAlert, AlertedBefore
<1>4. QED
  BY <1>1, <1>2, <1>3 DEF AlertInv

-----------------------------------------------------------------------------
LEMMA InitHolds == Init => IInv
<1> SUFFICES ASSUME Init PROVE IInv
  OBVIOUS
<1>1. TypeOK
  BY InitTypes
<1>2. LogInv
  BY DEF Init, LogInv, Timely, SnapshotKeysUnique, ConsecutiveSnapshotsDiffer,
         KnownLinesHaveBaseline
<1>3. EventInv /\ CursorInv
  BY DEF Init, EventInv, CursorInv
<1>4. AlertInv
  BY DEF Init, AlertInv, TargetsInv, HandledInv, ActivesInv, StatesJustified,
         RecoveryFollowsAlert
<1>5. QED
  BY <1>1, <1>2, <1>3, <1>4 DEF IInv

LEMMA StepPreserves == IInv /\ [Next]_vars => IInv'
<1> SUFFICES ASSUME IInv, [Next]_vars PROVE IInv'
  OBVIOUS
<1>1. CASE \E response \in Response : StoreSnapshots(response)
  <2>1. PICK response \in Response : StoreSnapshots(response)
    BY <1>1
  <2>2. TypeOK'
    BY <2>1, StoreTypes DEF IInv, LogInv
  <2>3. LogInv'
    BY <2>1, StoreLog DEF IInv
  <2>4. EventInv' /\ CursorInv' /\ AlertInv'
    BY <2>1, StoreAlerts
  <2>5. QED
    BY <2>2, <2>3, <2>4 DEF IInv
<1>2. CASE ~ \E response \in Response : StoreSnapshots(response)
  <2>1. LogInv'
    BY <1>2, QuietSteps, QuietLog DEF IInv
  <2>2. TypeOK' /\ EventInv' /\ CursorInv' /\ AlertInv'
    <3>1. CASE BeginPoll
      BY <3>1, WorkerTypes, BeginPollAlerts DEF IInv
    <3>2. CASE ReadDevices
      BY <3>2, WorkerTypes, ReadDevicesAlerts DEF IInv
    <3>3. CASE CreateEvent
      BY <3>3, WorkerTypes, CreateEventAlerts DEF IInv
    <3>4. CASE MatchTargets
      BY <3>4, WorkerTypes, MatchTargetsAlerts DEF IInv
    <3>5. CASE CreateDeliveries
      BY <3>5, WorkerTypes, CreateDeliveriesAlerts DEF IInv
    <3>6. CASE RecordAlerts
      BY <3>6, WorkerTypes, RecordAlertsAlerts DEF IInv
    <3>7. CASE ClearAlerts
      BY <3>7, WorkerTypes, ClearAlertsAlerts DEF IInv
    <3>8. CASE NothingToRecord
      BY <3>8, WorkerTypes, NothingToRecordAlerts DEF IInv
    <3>9. CASE SelectStates
      BY <3>9, WorkerTypes, SelectStatesAlerts DEF IInv
    <3>10. CASE FinishPoll \/ FailPoll \/ WorkerCrash
      BY <3>10, LeaveTypes, LeaveAlerts DEF IInv
    <3>11. CASE Api
      BY <3>11, ApiTypes, ApiAlerts DEF IInv
    <3>12. CASE UNCHANGED vars
      <4>1. TypeOK'
        BY <3>12 DEF IInv, TypeOK, vars, tables, poll
      <4>2. QED
        BY <3>12, <4>1, StutterAlerts
    <3>13. QED
      BY <1>2, <3>1, <3>2, <3>3, <3>4, <3>5, <3>6, <3>7, <3>8, <3>9,
         <3>10, <3>11, <3>12
      DEF Next, Poll, StateWriteFails, PollError
  <2>3. QED
    BY <2>1, <2>2 DEF IInv
<1>3. QED
  BY <1>1, <1>2

\* IInv is an inductive invariant of the snapshot worker and the API.
THEOREM Invariance == Spec => []IInv
<1>1. QED
  BY InitHolds, StepPreserves, PTL DEF Spec

\* Tables and locals keep their types, however long the worker runs.
THEOREM TypeCorrect == Spec => []TypeOK
<1>1. IInv => TypeOK
  BY DEF IInv
<1>2. QED
  BY <1>1, Invariance, PTL

\* A line has one snapshot for each time, which the join on max(observed_at)
\* in get_latest_snapshots_by_line relies on.
THEOREM LogKeysUnique == Spec => []SnapshotKeysUnique
<1>1. IInv => SnapshotKeysUnique
  BY DEF IInv, LogInv
<1>2. QED
  BY <1>1, Invariance, PTL

\* The log of a day is one of changes only, whatever polls fail.
THEOREM LogOfChanges == Spec => []ConsecutiveSnapshotsDiffer
<1>1. IInv => ConsecutiveSnapshotsDiffer
  BY DEF IInv, LogInv
<1>2. QED
  BY <1>1, Invariance, PTL

\* A day that has any snapshot has a baseline of every supported line known.
THEOREM LogBaselines == Spec => []KnownLinesHaveBaseline
<1>1. IInv => KnownLinesHaveBaseline
  BY DEF IInv, LogInv
<1>2. QED
  BY <1>1, Invariance, PTL

\* Every row of notification_events tells of a stored snapshot.
THEOREM EventsTellOfSnapshots == Spec => []EventsBackedBySnapshots
<1>1. IInv => EventsBackedBySnapshots
  BY DEF IInv, EventInv, EventsBackedBySnapshots
<1>2. QED
  BY <1>1, Invariance, PTL

\* A disruption state stands for a delivery to a device still registered.
THEOREM StatesStandForAlerts == Spec => []StatesJustified
<1>1. IInv => StatesJustified
  BY DEF IInv, AlertInv
<1>2. QED
  BY <1>1, Invariance, PTL

\* No device hears of a recovery before it has heard of a disruption.
THEOREM RecoveriesFollowAlerts == Spec => []RecoveryFollowsAlert
<1>1. IInv => RecoveryFollowsAlert
  BY DEF IInv, AlertInv
<1>2. QED
  BY <1>1, Invariance, PTL

\* A poll that ends well has alerted every device that matched, as it was
\* read, to every disruption that goes on unchanged.
THEOREM FinishedPollsAlert == Spec => FinishedPollAlertsEveryMatch
<1>1. ASSUME IInv, FinishPoll,
             NEW l \in reported,
             NEW s \in LatestInDay(snapshots, l, OperationalDay[observed]),
             NEW c \in ActiveDisruption(s),
             NEW d \in MatchingTargets(c, polled, observed, {}),
             s.observed < observed
      PROVE  [event |-> c, device |-> d] \in deliveries
  <2>1. pc = "next" /\ current = {} /\ Unseen = {}
    BY <1>1 DEF IInv, CursorInv, FinishPoll
  <2>2. c \in actives
    BY <1>1, <2>1 DEF IInv, AlertInv, ActivesInv
  <2>3. c \in seen \ current
    BY <2>1, <2>2 DEF Unseen
  <2>4. c.type # Resumed
    BY <1>1, <2>2 DEF IInv, CursorInv
  <2>5. d \in Wanted(c)
    BY <1>1, <2>4 DEF MatchingTargets, Wanted
  <2>6. QED
    BY <1>1, <2>3, <2>4, <2>5 DEF IInv, AlertInv, HandledInv, Delivered
<1>2. IInv /\ [Next]_vars =>
        [FinishPoll =>
            \A l \in reported :
            \A s \in LatestInDay(snapshots, l, OperationalDay[observed]) :
            \A c \in ActiveDisruption(s) :
            \A d \in MatchingTargets(c, polled, observed, {}) :
                s.observed < observed => [event |-> c, device |-> d] \in deliveries]_vars
  BY <1>1
<1>3. QED
  BY <1>2, Invariance, PTL DEF Spec, FinishedPollAlertsEveryMatch

\* A state is cleared with its device, or by a recovery that was queued for
\* the device or that it did not want.
THEOREM StatesClearedByRecovery == Spec => StatesClearedOnlyAfterRecovery
<1>1. ASSUME IInv, [Next]_vars, NEW a \in alerted \ alerted'
      PROVE  \/ a[1] \notin DOMAIN devices'
             \/ \E c \in current :
                    /\ c.type = Resumed /\ c.line = a[2]
                    /\ \/ [event |-> c, device |-> a[1]] \in deliveries
                       \/ a[1] \notin DOMAIN polled
                       \/ ~ DeviceMatches(c, polled[a[1]], observed)
  <2>1. CASE ClearAlerts
    <3>1. PICK c \in current :
            c.type = Resumed /\ alerted' = {b \in alerted : b[2] # c.line}
      BY <2>1 DEF ClearAlerts
    <3>2. c.line = a[2] /\ a = <<a[1], a[2]>>
      BY <1>1, <3>1 DEF IInv, TypeOK
    <3>3. \A d \in Wanted(c) : Delivered(c, d)
      BY <1>1, <2>1 DEF IInv, AlertInv, TargetsInv, ClearAlerts
    <3>4. a[1] \in DOMAIN polled /\ DeviceMatches(c, polled[a[1]], observed)
            => a[1] \in Wanted(c)
      BY <1>1, <3>2 DEF Wanted
    <3>5. QED
      BY <3>1, <3>2, <3>3, <3>4 DEF Delivered
  <2>2. CASE Api
    <3>1. a[1] \in DOMAIN devices
      BY <1>1 DEF IInv, AlertInv, StatesJustified
    <3>2. QED
      BY <1>1, <2>2, <3>1
      DEF Api, RegisterDevice, DeleteDevice, SetEnabled, WritePreferences, Remove
  <2>3. CASE ~ ClearAlerts /\ ~ Api
    <3>1. alerted \subseteq alerted'
      BY <1>1, <2>3
      DEF Next, Poll, BeginPoll, StoreSnapshots, ReadDevices, CreateEvent,
          MatchTargets, CreateDeliveries, NothingToRecord, SelectStates,
          RecordAlerts, StateWriteFails, FinishPoll, FailPoll, PollError, WorkerCrash, vars, tables
    <3>2. QED
      BY <1>1, <3>1
  <2>4. QED
    BY <2>1, <2>2, <2>3
<1>2. IInv /\ [Next]_vars =>
        [\A a \in alerted \ alerted' :
            \/ a[1] \notin DOMAIN devices'
            \/ \E c \in current :
                /\ c.type = Resumed /\ c.line = a[2]
                /\ \/ [event |-> c, device |-> a[1]] \in deliveries
                   \/ a[1] \notin DOMAIN polled
                   \/ ~ DeviceMatches(c, polled[a[1]], observed)]_vars
  BY <1>1
<1>3. QED
  BY <1>2, Invariance, PTL DEF Spec, StatesClearedOnlyAfterRecovery

-----------------------------------------------------------------------------
(***************************************************************************)
(* The worker and the API implement AlertFeed.  IInv says what an event    *)
(* tells of its row; what is missing is that the row is still the newest   *)
(* of its line when the alert goes out, though the rows were read when the *)
(* poll began.                                                             *)
(***************************************************************************)
NewestActives ==
    \A c \in actives : \A s \in snapshots :
        s.line = c.line => s.observed <= c.observed

FeedInv == IInv /\ NewestActives

feed == <<snapshots, DOMAIN devices, deliveries, alerted>>

\* A disruption goes on in a row of this poll or in one that this poll found
\* unchanged, so that no row of the line came after it.
LEMMA StoreNewest ==
    ASSUME IInv, NEW response \in Response, StoreSnapshots(response)
    PROVE  NewestActives'
<1> DEFINE batch == Batch(snapshots, response, observed)
           day   == OperationalDay[observed]
<1>1. /\ snapshots' = snapshots \cup batch
      /\ \A s \in snapshots : s \in Snapshot /\ s.observed < observed
      /\ \A b \in batch : b \in Snapshot /\ b.observed = observed
  BY StoreRows DEF IInv, LogInv
<1>2. observed \in Time
  BY DEF IInv, LogInv, Timely, StoreSnapshots
<1>3. SUFFICES ASSUME NEW c \in actives', NEW s \in snapshots', s.line = c.line
               PROVE  s.observed <= c.observed
  BY DEF NewestActives
<1>4. observed \in Nat /\ s.observed \in Nat /\ s.observed <= observed
  BY <1>1, <1>2 DEF Snapshot, Time
<1>5. \/ \E r \in Fresh(snapshots, response, observed) : c \in ActiveDisruption(r)
      \/ \E l \in DOMAIN response :
            /\ Unchanged(snapshots, response, l, observed)
            /\ \E r \in LatestInDay(snapshots, l, day) : c \in ActiveDisruption(r)
  BY DEF StoreSnapshots, ActiveCandidates
<1>6. CASE \E r \in Fresh(snapshots, response, observed) : c \in ActiveDisruption(r)
  <2>1. PICK r \in batch : c \in ActiveDisruption(r)
    BY <1>6 DEF Batch
  <2>2. c.observed = observed
    BY <1>1, <2>1, ActiveFacts
  <2>3. QED
    BY <1>4, <2>2
<1>7. CASE \E l \in DOMAIN response :
            /\ Unchanged(snapshots, response, l, observed)
            /\ \E r \in LatestInDay(snapshots, l, day) : c \in ActiveDisruption(r)
  <2>l. PICK l \in DOMAIN response :
            /\ Unchanged(snapshots, response, l, observed)
            /\ \E r \in LatestInDay(snapshots, l, day) : c \in ActiveDisruption(r)
    BY <1>7
  <2>1. PICK r \in LatestInDay(snapshots, l, day) : c \in ActiveDisruption(r)
    BY <2>l
  <2>2. /\ r \in snapshots /\ r.line = l /\ OperationalDay[r.observed] = day
        /\ \A q \in RowsInDay(snapshots, l, day) : q.observed <= r.observed
    BY <2>1 DEF LatestInDay, Newest, RowsInDay
  <2>3. c.line = l /\ c.observed = r.observed
    BY <1>1, <2>1, <2>2, ActiveFacts
  <2>4. s \in snapshots
    <3>1. \A b \in batch : b.line # l
      BY <2>l DEF Batch, Fresh, CarriedForward, SnapshotOf
    <3>2. QED
      BY <1>1, <1>3, <2>3, <3>1
  <2>5. CASE OperationalDay[s.observed] = day
    BY <1>3, <2>2, <2>3, <2>4, <2>5 DEF RowsInDay
  <2>6. CASE OperationalDay[s.observed] # day
    <3>1. r.observed \in Time /\ s.observed \in Time
      BY <1>1, <2>2, <2>4 DEF Snapshot
    <3>2. OperationalDay[s.observed] <= day /\ OperationalDay[s.observed] \in Nat
      BY <1>2, <1>4, <3>1, DayAssumption
    <3>3. ~ (r.observed <= s.observed)
      BY <1>2, <2>2, <2>6, <3>1, <3>2, DayAssumption
    <3>4. QED
      BY <2>3, <3>1, <3>3 DEF Time
  <2>7. QED
    BY <2>5, <2>6
<1> HIDE DEF batch, day
<1>8. QED
  BY <1>5, <1>6, <1>7

\* Until the poll ends, no row is added.
LEMMA StepNewest ==
    ASSUME FeedInv, [Next]_vars
    PROVE  NewestActives'
<1>1. CASE \E response \in Response : StoreSnapshots(response)
  BY <1>1, StoreNewest DEF FeedInv
<1>2. CASE ~ \E response \in Response : StoreSnapshots(response)
  <2>1. UNCHANGED snapshots
    BY <1>2, QuietSteps
  <2>2. actives' \subseteq actives
    BY <1>2
    DEF Next, Poll, Api, BeginPoll, ReadDevices, CreateEvent, MatchTargets,
        CreateDeliveries, NothingToRecord, SelectStates, RecordAlerts,
        ClearAlerts, StateWriteFails, FinishPoll, FailPoll, PollError,
        WorkerCrash, LeavePoll, RegisterDevice, DeleteDevice, SetEnabled, WritePreferences, worker, poll, vars
  <2>3. QED
    BY <2>1, <2>2 DEF FeedInv, NewestActives
<1>3. QED
  BY <1>1, <1>2

\* What AlertFeed reads off a list of statuses is what the worker does.
LEMMA FeedStatuses ==
    /\ Feed!Resumed = Resumed
    /\ \A statuses : /\ Feed!Disruptions(statuses) = Disruptions(statuses)
                     /\ Feed!IsDisrupted(statuses) = IsDisrupted(statuses)
                     /\ Feed!GoodServices(statuses) = GoodServices(statuses)
BY DEF Feed!Resumed, Resumed, Feed!Disruptions, Disruptions,
       Feed!DISRUPTION_SEVERITIES, DISRUPTION_SEVERITIES,
       Feed!MinorDelays, MinorDelays, Feed!PlannedClosure, PlannedClosure,
       Feed!IsDisrupted, IsDisrupted, Feed!GoodServices, GoodServices,
       Feed!GoodService, GoodService

\* The row that the candidate at hand tells of is the newest of its line.
LEMMA CurrentIsLatest ==
    ASSUME FeedInv, NEW c \in current
    PROVE  \E s \in Feed!Latest(c.line) :
                s.observed = c.observed /\ Tells(c, s, PreviousInDay(s))
<1>1. PICK s \in snapshots : Tells(c, s, PreviousInDay(s))
  BY DEF FeedInv, IInv, EventInv, Backed
<1>2. s.line = c.line /\ s.observed = c.observed
  BY <1>1 DEF Tells
<1>3. \A r \in snapshots : r.line = c.line => r.observed <= s.observed
  <2>1. CASE c \in changes
    BY <1>2, <2>1 DEF FeedInv, IInv, CursorInv, LogInv, Timely
  <2>2. CASE c \in actives
    BY <1>2, <2>2 DEF FeedInv, NewestActives
  <2>3. QED
    BY <2>1, <2>2 DEF FeedInv, IInv, CursorInv
<1>4. s \in Feed!Latest(c.line)
  BY <1>2, <1>3 DEF Feed!Latest, Feed!RowsOf, Feed!Newest
<1>5. QED
  BY <1>1, <1>2, <1>4

\* What came just before a row in its day came just before it.
LEMMA PreviousIsBefore ==
    ASSUME IInv, NEW s \in snapshots, NEW p \in PreviousInDay(s)
    PROVE  p \in Feed!Before(s)
<1>1. /\ p \in snapshots /\ p.line = s.line /\ p.observed < s.observed
      /\ OperationalDay[p.observed] = OperationalDay[s.observed]
      /\ \A r \in RowsInDay(snapshots, s.line, OperationalDay[s.observed]) :
            r.observed < s.observed => r.observed <= p.observed
  BY DEF PreviousInDay, RowsInDay, Newest
<1>2. ASSUME NEW r \in snapshots, r.line = s.line, r.observed < s.observed
      PROVE  r.observed <= p.observed
  <2>1. r.observed \in Time /\ s.observed \in Time /\ p.observed \in Time
    BY <1>1 DEF IInv, TypeOK, Snapshot
  <2>2. CASE OperationalDay[r.observed] = OperationalDay[s.observed]
    BY <1>1, <1>2, <2>2 DEF RowsInDay
  <2>3. CASE OperationalDay[r.observed] # OperationalDay[s.observed]
    <3>1. /\ OperationalDay[r.observed] \in Nat /\ OperationalDay[s.observed] \in Nat
          /\ OperationalDay[r.observed] <= OperationalDay[s.observed]
      BY <1>2, <2>1, DayAssumption DEF Time
    <3>2. ~ (p.observed <= r.observed)
      BY <1>1, <2>1, <2>3, <3>1, DayAssumption
    <3>3. QED
      BY <2>1, <3>2 DEF Time
  <2>4. QED
    BY <2>2, <2>3
<1>3. QED
  BY <1>1, <1>2 DEF Feed!Before, Feed!Newest, Feed!RowsOf

\* The batch of a poll is later than all other rows, one row for a line.
LEMMA ObserveStep ==
    ASSUME IInv, NEW response \in Response, StoreSnapshots(response)
    PROVE  Feed!Observe
<1> DEFINE batch == Batch(snapshots, response, observed)
<1>1. /\ snapshots' = snapshots \cup batch
      /\ \A s \in snapshots : s.observed < observed
      /\ \A b \in batch : b.observed = observed
  BY StoreRows DEF IInv, LogInv
<1>2. observed \in Time
  BY DEF IInv, LogInv, Timely, StoreSnapshots
<1>3. KeysUnique(batch)
  BY <1>2, BatchKeysUnique DEF IInv, TypeOK, LogInv, SnapshotKeysUnique, KeysUnique
<1> HIDE DEF batch
<1>4. QED
  BY <1>1, <1>3 DEF Feed!Observe, KeysUnique, StoreSnapshots

\* The alerts that a poll queues are of one event, told by the newest row.
LEMMA TellStep ==
    ASSUME FeedInv, CreateDeliveries
    PROVE  Feed!Tell
<1>1. PICK c \in current :
        deliveries' = deliveries \cup
            {[event |-> c, device |-> d] : d \in
                {e \in targets : [event |-> c, device |-> e] \notin deliveries}}
  BY DEF CreateDeliveries
<1>2. pc = "deliver"
  BY DEF CreateDeliveries
<1>3. ASSUME NEW a \in deliveries' \ deliveries
      PROVE  a.event = c /\ a.device \in targets
  <2>1. PICK d \in targets : a = [event |-> c, device |-> d]
    BY <1>1
  <2>2. QED
    BY <2>1
<1>4. PICK s \in Feed!Latest(c.line) :
        s.observed = c.observed /\ Tells(c, s, PreviousInDay(s))
  BY CurrentIsLatest
<1>5. s \in snapshots
  BY <1>4 DEF Feed!Latest, Feed!RowsOf, Feed!Newest
<1>6. CASE c.type # Resumed
  <2>1. PICK x \in s.statuses :
            /\ x.severity = c.severity /\ x.text = c.text
            /\ x \in Disruptions(s.statuses)
    BY <1>4, <1>6 DEF Tells
  <2>2. \A w \in Disruptions(s.statuses) : x.severity <= w.severity
    BY <1>4, <1>6, <2>1 DEF Tells
  <2>3. Feed!TellsDisruption(c)
    BY <1>4, <1>6, <2>1, <2>2, FeedStatuses DEF Feed!TellsDisruption
  <2>4. QED
    BY <1>1, <1>3, <2>3 DEF Feed!Tell, CreateDeliveries
<1>7. CASE c.type = Resumed
  <2>1. ~ IsDisrupted(s.statuses) /\ GoodServices(s.statuses) # {}
    BY <1>4, <1>7 DEF Tells, GoodServices
  <2>2. \E p \in Feed!Before(s) : IsDisrupted(p.statuses)
    BY <1>4, <1>5, <1>7, PreviousIsBefore DEF Tells, FeedInv
  <2>3. Feed!TellsRecovery(c)
    BY <1>4, <1>7, <2>1, <2>2, FeedStatuses DEF Feed!TellsRecovery
  <2>4. \A d \in targets : Feed!WasTold(d, c.line, c.observed)
    BY <1>2, <1>7, FeedStatuses
    DEF FeedInv, IInv, AlertInv, TargetsInv, AlertedBefore, Feed!WasTold
  <2>5. QED
    BY <1>1, <1>3, <2>3, <2>4 DEF Feed!Tell, CreateDeliveries
<1>8. QED
  BY <1>6, <1>7

\* A state is recorded for devices just told of the line as it is.
LEMMA MarkStep ==
    ASSUME FeedInv, RecordAlerts
    PROVE  Feed!Mark
<1>1. PICK c \in current :
        /\ c.type # Resumed
        /\ alerted' = alerted \cup ((targets \ existing) \X {c.line})
  BY DEF RecordAlerts, FeedInv, IInv, AlertInv, TargetsInv
<1>2. pc = "commit" /\ targets \ existing \subseteq DOMAIN devices
  BY DEF RecordAlerts
<1>3. \A d \in targets : [event |-> c, device |-> d] \in deliveries
  BY <1>2 DEF FeedInv, IInv, AlertInv, TargetsInv, Delivered
<1>4. PICK s \in Feed!Latest(c.line) : s.observed = c.observed
  BY CurrentIsLatest
<1>5. ASSUME NEW m \in alerted' \ alerted
      PROVE  /\ m[1] \in DOMAIN devices
             /\ \E a \in deliveries : \E r \in Feed!Latest(m[2]) :
                    /\ a.device = m[1] /\ a.event.line = m[2]
                    /\ a.event.type # Feed!Resumed
                    /\ a.event.observed = r.observed
  <2>1. m[1] \in targets /\ m[1] \notin existing /\ m[2] = c.line
    BY <1>1
  <2>2. [event |-> c, device |-> m[1]] \in deliveries
    BY <1>3, <2>1
  <2>3. QED
    BY <1>1, <1>2, <1>4, <2>1, <2>2, FeedStatuses
<1>6. QED
  BY <1>1, <1>5 DEF Feed!Mark, RecordAlerts

\* States are cleared of a line whose newest row is good service.
LEMMA ClearStep ==
    ASSUME FeedInv, ClearAlerts
    PROVE  Feed!Clear \/ UNCHANGED feed
<1>1. PICK c \in current :
        c.type = Resumed /\ alerted' = {a \in alerted : a[2] # c.line}
  BY DEF ClearAlerts
<1>2. UNCHANGED <<snapshots, devices, deliveries>>
  BY DEF ClearAlerts
<1>3. \E s \in Feed!Latest(c.line) : ~ Feed!IsDisrupted(s.statuses)
  BY <1>1, CurrentIsLatest, FeedStatuses DEF Tells
<1>4. CASE c.line \in {m[2] : m \in alerted}
  BY <1>1, <1>2, <1>3, <1>4 DEF Feed!Clear
<1>5. CASE c.line \notin {m[2] : m \in alerted}
  BY <1>1, <1>2, <1>5 DEF feed
<1>6. QED
  BY <1>4, <1>5

\* A device takes its states with it, and none is left to others.
LEMMA SubscribeStep ==
    ASSUME IInv, Api
    PROVE  Feed!Subscribe
<1>1. UNCHANGED <<snapshots, deliveries>>
  BY DEF Api, RegisterDevice, DeleteDevice, SetEnabled, WritePreferences
<1>2. \A a \in alerted : a[1] \in DOMAIN devices
  BY DEF IInv, AlertInv, StatesJustified
<1>3. alerted' = {a \in alerted : a[1] \in DOMAIN devices'}
  <2>1. PICK d \in Device :
            \/ \E other \in SUBSET Device : RegisterDevice(d, other)
            \/ DeleteDevice(d)
            \/ \E b \in BOOLEAN : SetEnabled(d, b)
            \/ \E lines \in LinePreferences : WritePreferences(d, lines)
    BY DEF Api
  <2>2. CASE \E other \in SUBSET Device : RegisterDevice(d, other)
    <3>1. PICK other \in SUBSET Device : RegisterDevice(d, other)
      BY <2>2
    <3>2. /\ DOMAIN devices' = (DOMAIN devices \ other) \cup {d}
          /\ alerted' = {a \in alerted : a[1] \notin other}
          /\ d \notin other
      BY <3>1 DEF RegisterDevice, Remove
    <3>3. QED
      BY <1>2, <3>2
  <2>3. CASE DeleteDevice(d)
    BY <1>2, <2>3 DEF DeleteDevice, Remove
  <2>4. CASE (\E b \in BOOLEAN : SetEnabled(d, b))
             \/ \E lines \in LinePreferences : WritePreferences(d, lines)
    <3>1. DOMAIN devices' = DOMAIN devices /\ alerted' = alerted
      BY <2>4 DEF SetEnabled, WritePreferences
    <3>2. QED
      BY <1>2, <3>1
  <2>5. QED
    BY <2>1, <2>2, <2>3, <2>4
<1>4. QED
  BY <1>1, <1>3 DEF Feed!Subscribe

LEMMA FeedStep ==
    ASSUME FeedInv, [Next]_vars
    PROVE  [Feed!Next]_feed
<1> USE DEF Feed!Next
<1>1. CASE \E response \in Response : StoreSnapshots(response)
  BY <1>1, ObserveStep DEF FeedInv
<1>2. CASE CreateDeliveries
  BY <1>2, TellStep
<1>3. CASE RecordAlerts
  BY <1>3, MarkStep
<1>4. CASE ClearAlerts
  BY <1>4, ClearStep
<1>5. CASE Api
  BY <1>5, SubscribeStep DEF FeedInv
<1>6. CASE UNCHANGED <<snapshots, devices, deliveries, alerted>>
  BY <1>6 DEF feed
<1>7. QED
  BY <1>1, <1>2, <1>3, <1>4, <1>5, <1>6
  DEF Next, Poll, BeginPoll, ReadDevices, CreateEvent, MatchTargets,
      NothingToRecord, SelectStates, StateWriteFails, FinishPoll, FailPoll, PollError, WorkerCrash,
      vars, tables

\* The snapshot worker and the API implement the feed of alerts that the apps
\* are promised, through any crash, failure and change of devices: an alert
\* tells of the newest row of its line at that moment, a recovery goes to who
\* was alerted, and the devices marked are those told of the line as it is.
THEOREM WorkerFeedsAlerts == Spec => ImplementsFeed
<1>1. Init => Feed!Init /\ FeedInv
  <2>1. Init => IInv
    BY InitHolds
  <2>2. Init => Feed!Init
    BY EmptyTable DEF Init, Feed!Init
  <2>3. Init => NewestActives
    BY DEF Init, NewestActives
  <2>4. QED
    BY <2>1, <2>2, <2>3 DEF FeedInv
<1>2. FeedInv /\ [Next]_vars => FeedInv'
  BY StepPreserves, StepNewest DEF FeedInv
<1>3. FeedInv /\ [Next]_vars => [Feed!Next]_feed
  BY FeedStep
<1>4. QED
  BY <1>1, <1>2, <1>3, PTL DEF Spec, ImplementsFeed, Feed!Spec, feed

-----------------------------------------------------------------------------
(***************************************************************************)
(* An event is all but determined by its row: two of one row differ in     *)
(* their types only.                                                       *)
(***************************************************************************)
EventOf(s, type) ==
    Candidate(s, type, IF type = Resumed
                       THEN CHOOSE x \in GoodServices(s.statuses) : TRUE
                       ELSE MostSevere(s.statuses))

Exact(e) == \E s \in snapshots : e = EventOf(s, e.type)

EventsExact == \A e \in changes \cup actives \cup events : Exact(e)

LEMMA CandidatesExact ==
    ASSUME NEW p, NEW s
    PROVE  /\ \A e \in Detected(p, s) : e = EventOf(s, e.type)
           /\ \A e \in ActiveDisruption(s) : e = EventOf(s, e.type)
<1>1. Started # Resumed /\ Changed # Resumed
  BY DEF Started, Changed, Resumed
<1>2. \A type, x : Candidate(s, type, x).type = type
  BY DEF Candidate
<1>3. ASSUME NEW e \in Detected(p, s)
      PROVE  \/ e = Candidate(s, Started, MostSevere(s.statuses))
             \/ e = Candidate(s, Changed, MostSevere(s.statuses))
             \/ e = Candidate(s, Resumed,
                        CHOOSE x \in GoodServices(s.statuses) : TRUE)
  BY DEF Detected
<1>4. ASSUME NEW e \in ActiveDisruption(s)
      PROVE  e = Candidate(s, Started, MostSevere(s.statuses))
  BY DEF ActiveDisruption
<1>5. QED
  BY <1>1, <1>2, <1>3, <1>4 DEF EventOf

LEMMA StepExact ==
    ASSUME IInv, EventsExact, [Next]_vars
    PROVE  EventsExact'
<1>1. CASE \E response \in Response : StoreSnapshots(response)
  <2>1. PICK response \in Response : StoreSnapshots(response)
    BY <1>1
  <2>2. snapshots' = snapshots \cup Batch(snapshots, response, observed)
    BY <2>1 DEF StoreSnapshots
  <2>3. \A l, day : LatestInDay(snapshots, l, day) \subseteq snapshots
    BY DEF LatestInDay, RowsInDay, Newest
  <2>4. ASSUME NEW e \in changes'
        PROVE  Exact(e)'
    <3>1. PICK s \in Fresh(snapshots, response, observed) :
            \E p : e \in Detected(p, s)
      BY <2>1 DEF StoreSnapshots, ChangeCandidates
    <3>2. e = EventOf(s, e.type)
      BY <3>1, CandidatesExact
    <3>3. s \in snapshots'
      BY <2>2 DEF Batch
    <3>4. QED
      BY <3>2, <3>3 DEF Exact
  <2>5. ASSUME NEW e \in actives'
        PROVE  Exact(e)'
    <3>1. PICK s \in snapshots \cup Fresh(snapshots, response, observed) :
            e \in ActiveDisruption(s)
      BY <2>1, <2>3 DEF StoreSnapshots, ActiveCandidates
    <3>2. e = EventOf(s, e.type)
      BY <3>1, CandidatesExact
    <3>3. s \in snapshots'
      BY <2>2 DEF Batch
    <3>4. QED
      BY <3>2, <3>3 DEF Exact
  <2>6. \A e \in events' : Exact(e)'
    BY <2>1, <2>2 DEF StoreSnapshots, EventsExact, Exact
  <2>7. QED
    BY <2>4, <2>5, <2>6 DEF EventsExact
<1>2. CASE ~ \E response \in Response : StoreSnapshots(response)
  <2>1. UNCHANGED snapshots
    BY <1>2, QuietSteps
  <2>2. changes' \cup actives' \cup events' \subseteq changes \cup actives \cup events
    BY <1>2
    DEF Next, Poll, Api, BeginPoll, ReadDevices, CreateEvent, Unseen,
        MatchTargets, CreateDeliveries, NothingToRecord, SelectStates,
        RecordAlerts, ClearAlerts, StateWriteFails, FinishPoll, FailPoll,
        PollError, WorkerCrash,
        LeavePoll, RegisterDevice, DeleteDevice, SetEnabled, WritePreferences,
        worker, poll, tables, vars
  <2>3. QED
    BY <2>1, <2>2 DEF EventsExact, Exact
<1>3. QED
  BY <1>1, <1>2

\* A snapshot is alerted to a device twice at most, as a worsening and as a
\* disruption that goes on, with the same status: the dedupe key, which holds
\* the event type, lets through this repetition and no other.
THEOREM AlertsRepeatWorseningsOnly == Spec => []AlertedAgainOnlyAfterWorsening
<1>1. ASSUME IInv, EventsExact,
             NEW a \in deliveries, NEW b \in deliveries,
             a.device = b.device, a.event.line = b.event.line,
             a.event.observed = b.event.observed, a # b
      PROVE  /\ {a.event.type, b.event.type} = {Started, Changed}
             /\ a.event.severity = b.event.severity
             /\ a.event.text = b.event.text
  <2> DEFINE e == a.event
             f == b.event
  <2>1. e \in events /\ f \in events
    BY <1>1 DEF IInv, EventInv
  <2>2. e # f
    BY <1>1 DEF IInv, TypeOK, Delivery
  <2>3. e.type \in EventType /\ f.type \in EventType
    BY <1>1 DEF IInv, TypeOK, Delivery, CandidateType
  <2> HIDE DEF e, f
  <2>4. PICK r \in snapshots : e = EventOf(r, e.type)
    BY <1>1, <2>1 DEF EventsExact, Exact
  <2>5. PICK s \in snapshots : f = EventOf(s, f.type)
    BY <1>1, <2>1 DEF EventsExact, Exact
  <2>6. /\ e.line = r.line /\ e.observed = r.observed
        /\ f.line = s.line /\ f.observed = s.observed
    BY <2>4, <2>5 DEF EventOf, Candidate
  <2>7. r = s
    BY <1>1, <2>6 DEF e, f, IInv, LogInv, SnapshotKeysUnique
  <2>8. e.type # f.type
    BY <2>2, <2>4, <2>5, <2>7
  <2>9. ASSUME NEW g \in events, g.line = s.line, g.observed = s.observed
        PROVE  g.type = Resumed <=> ~ IsDisrupted(s.statuses)
    <3>1. PICK q \in snapshots : Tells(g, q, PreviousInDay(q))
      BY <1>1 DEF IInv, EventInv, Backed
    <3>2. q = s
      BY <1>1, <2>9, <3>1 DEF Tells, IInv, LogInv, SnapshotKeysUnique
    <3>3. QED
      BY <3>1, <3>2 DEF Tells
  <2>10. e.type # Resumed /\ f.type # Resumed
    BY <2>1, <2>3, <2>6, <2>7, <2>8, <2>9
  <2>11. /\ e = Candidate(s, e.type, MostSevere(s.statuses))
         /\ f = Candidate(s, f.type, MostSevere(s.statuses))
    BY <2>4, <2>5, <2>7, <2>10 DEF EventOf
  <2>12. e.severity = f.severity /\ e.text = f.text
    BY <2>11 DEF Candidate
  <2>13. {e.type, f.type} = {Started, Changed}
    BY <2>3, <2>8, <2>10 DEF EventType
  <2>14. QED
    BY <2>12, <2>13 DEF e, f
<1>2. IInv /\ EventsExact => AlertedAgainOnlyAfterWorsening
  BY <1>1 DEF AlertedAgainOnlyAfterWorsening
<1>3. Init => EventsExact
  BY DEF Init, EventsExact
<1>4. IInv /\ EventsExact /\ [Next]_vars => EventsExact'
  BY StepExact
<1>5. QED
  BY <1>2, <1>3, <1>4, Invariance, PTL DEF Spec

-----------------------------------------------------------------------------
(***************************************************************************)
(* Recoveries: a poll has a candidate for each it found, and once that is  *)
(* handled no other candidate of the poll marks a device for its line.     *)
(***************************************************************************)
Recovers(p, s) ==
    /\ IsDisrupted(p.statuses) /\ ~ IsDisrupted(s.statuses)
    /\ GoodServices(s.statuses) # {}

RecoveriesFound ==
    pc \notin {"idle", "fetching"} =>
        \A s \in snapshots : \A p \in PreviousInDay(s) :
            s.observed = observed /\ Recovers(p, s) =>
                \E c \in changes : c.type = Resumed /\ c.line = s.line

OnePerLine == \A c, e \in changes \cup actives : c.line = e.line => c = e

SeenInv == seen \subseteq changes \cup actives

RecoveriesHandled ==
    \A c \in seen \ current :
        c.type = Resumed => \A a \in alerted : a[2] # c.line

RecoveryInv == RecoveriesFound /\ OnePerLine /\ SeenInv /\ RecoveriesHandled

LEMMA CandidatesAreOne ==
    ASSUME NEW p, NEW s
    PROVE  /\ \A e, f \in Detected(p, s) : e = f
           /\ \A e, f \in ActiveDisruption(s) : e = f
BY DEF Detected, ActiveDisruption

LEMMA RecoveryDetected ==
    ASSUME NEW p, NEW s, Recovers(p, s)
    PROVE  \E c \in Detected(p, s) : c.type = Resumed /\ c.line = s.line
<1> DEFINE c == Candidate(s, Resumed, CHOOSE x \in GoodServices(s.statuses) : TRUE)
<1>1. c \in Detected(p, s)
  BY DEF Detected, Recovers
<1>2. c.type = Resumed /\ c.line = s.line
  BY DEF Candidate
<1> HIDE DEF c
<1>3. QED
  BY <1>1, <1>2

LEMMA LatestIsOne ==
    ASSUME TypeOK, SnapshotKeysUnique, NEW l, NEW day,
           NEW r \in LatestInDay(snapshots, l, day),
           NEW s \in LatestInDay(snapshots, l, day)
    PROVE  r = s
<1>1. /\ r \in snapshots /\ s \in snapshots /\ r.line = s.line
      /\ r.observed <= s.observed /\ s.observed <= r.observed
  BY DEF LatestInDay, RowsInDay, Newest
<1>2. r.observed \in Nat /\ s.observed \in Nat
  BY <1>1 DEF TypeOK, Snapshot, Time
<1>3. QED
  BY <1>1, <1>2 DEF SnapshotKeysUnique

\* A line changes, or begins its day, or goes on as it is.
LEMMA StoreOnePerLine ==
    ASSUME IInv, NEW response \in Response, StoreSnapshots(response)
    PROVE  OnePerLine'
<1> DEFINE day == OperationalDay[observed]
           F   == Fresh(snapshots, response, observed)
           Last(l) == LatestInDay(snapshots, l, day)
           Raises(c, s) == \E p \in Last(s.line) : c \in Detected(p, s)
           Begins(c, s) == Last(s.line) = {} /\ c \in ActiveDisruption(s)
           GoesOn(c, s) == s \in Last(s.line) /\ s \notin F
                           /\ (\A f \in F : f.line # s.line)
                           /\ c \in ActiveDisruption(s)
<1>1. IsResponse(response) /\ observed \in Time
  BY ResponseAssumption DEF IInv, LogInv, Timely, StoreSnapshots, IsResponse
<1>2. F \subseteq Snapshot
  BY <1>1, BatchRows DEF IInv, TypeOK, Batch
<1>3. \A f, g \in F : f.line = g.line => f = g
  BY DEF Fresh, SnapshotOf
<1>4. \A l : Last(l) \subseteq snapshots /\ \A s \in Last(l) : s.line = l
  BY DEF LatestInDay, RowsInDay, Newest
<1>5. snapshots \subseteq Snapshot
  BY DEF IInv, TypeOK
<1>6. \A l : \A r, s \in Last(l) : r = s
  BY LatestIsOne DEF IInv, LogInv
<1>7. ASSUME NEW c \in changes'
      PROVE  \E s \in F : Raises(c, s) /\ c.line = s.line
  <2>1. PICK s \in F : \E p \in Last(s.line) : c \in Detected(p, s)
    BY DEF StoreSnapshots, ChangeCandidates
  <2>2. c.line = s.line
    BY <1>2, <1>4, <1>5, <2>1, DetectedFacts
  <2>3. QED
    BY <2>1, <2>2
<1>8. ASSUME NEW c \in actives'
      PROVE  \/ \E s \in F : Begins(c, s) /\ c.line = s.line
             \/ \E s \in snapshots : GoesOn(c, s) /\ c.line = s.line
  <2>1. \/ \E s \in F : Last(s.line) = {} /\ c \in ActiveDisruption(s)
        \/ \E l \in DOMAIN response :
              /\ Unchanged(snapshots, response, l, observed)
              /\ \E s \in Last(l) : c \in ActiveDisruption(s)
    BY DEF StoreSnapshots, ActiveCandidates
  <2>2. CASE \E s \in F : Last(s.line) = {} /\ c \in ActiveDisruption(s)
    BY <1>2, <2>2, ActiveFacts
  <2>3. CASE \E l \in DOMAIN response :
              /\ Unchanged(snapshots, response, l, observed)
              /\ \E s \in Last(l) : c \in ActiveDisruption(s)
    <3>1. PICK l \in DOMAIN response :
              /\ Unchanged(snapshots, response, l, observed)
              /\ \E s \in Last(l) : c \in ActiveDisruption(s)
      BY <2>3
    <3>2. PICK s \in Last(l) : c \in ActiveDisruption(s)
      BY <3>1
    <3>3. \A f \in F : f.line # l
      BY <3>1 DEF Fresh, SnapshotOf
    <3>4. s \in snapshots /\ s.line = l /\ c.line = s.line
      BY <1>4, <1>5, <3>2, ActiveFacts
    <3> HIDE DEF F, Last
    <3>5. QED
      BY <3>2, <3>3, <3>4
  <2>4. QED
    BY <2>1, <2>2, <2>3
<1> HIDE DEF F, Last
<1>9. ASSUME NEW c \in changes' \cup actives', NEW e \in changes' \cup actives',
             c.line = e.line
      PROVE  c = e
  <2>1. CASE c \in changes' /\ e \in changes'
    <3>1. PICK s \in F : Raises(c, s) /\ c.line = s.line
      BY <1>7, <2>1
    <3>2. PICK t \in F : Raises(e, t) /\ e.line = t.line
      BY <1>7, <2>1
    <3>3. s = t
      BY <1>3, <1>9, <3>1, <3>2
    <3>4. QED
      BY <1>6, <3>1, <3>2, <3>3, CandidatesAreOne
  <2>2. ASSUME NEW b \in changes', NEW a \in actives', b.line = a.line
        PROVE  FALSE
    <3>1. PICK s \in F : Raises(b, s) /\ b.line = s.line
      BY <1>7
    <3>2. \A t \in F : Begins(a, t) => a.line # t.line
      BY <1>3, <2>2, <3>1
    <3>3. \A t \in snapshots : GoesOn(a, t) => a.line # t.line
      BY <2>2, <3>1
    <3>4. QED
      BY <1>8, <3>2, <3>3
  <2>3. CASE c \in actives' /\ e \in actives'
    <3>1. CASE \E s \in F : Begins(c, s) /\ c.line = s.line
      <4>1. PICK s \in F : Begins(c, s) /\ c.line = s.line
        BY <3>1
      <4>2. \A t \in snapshots : ~ (GoesOn(e, t) /\ e.line = t.line)
        BY <1>9, <4>1
      <4>3. PICK t \in F : Begins(e, t) /\ e.line = t.line
        BY <1>8, <2>3, <4>2
      <4>4. s = t
        BY <1>3, <1>9, <4>1, <4>3
      <4>5. QED
        BY <4>1, <4>3, <4>4, CandidatesAreOne
    <3>2. CASE \E s \in snapshots : GoesOn(c, s) /\ c.line = s.line
      <4>1. PICK s \in snapshots : GoesOn(c, s) /\ c.line = s.line
        BY <3>2
      <4>2. \A t \in F : ~ (Begins(e, t) /\ e.line = t.line)
        BY <1>9, <4>1
      <4>3. PICK t \in snapshots : GoesOn(e, t) /\ e.line = t.line
        BY <1>8, <2>3, <4>2
      <4>4. s = t
        BY <1>6, <1>9, <4>1, <4>3
      <4>5. QED
        BY <4>1, <4>3, <4>4, CandidatesAreOne
    <3>3. QED
      BY <1>8, <2>3, <3>1, <3>2
  <2>4. QED
    BY <1>9, <2>1, <2>2, <2>3
<1>10. QED
  BY <1>9 DEF OnePerLine

LEMMA StoreRecoveries ==
    ASSUME IInv, NEW response \in Response, StoreSnapshots(response)
    PROVE  RecoveryInv'
<1> DEFINE batch == Batch(snapshots, response, observed)
           day   == OperationalDay[observed]
<1>1. /\ snapshots' = snapshots \cup batch
      /\ \A s \in snapshots : s \in Snapshot /\ s.observed < observed
      /\ \A b \in batch :
            /\ b.observed = observed
            /\ PreviousInDay(b)' = LatestInDay(snapshots, b.line, day)
  BY StoreRows DEF IInv, LogInv
<1>2. /\ observed' = observed /\ observed \in Time
      /\ seen' = {} /\ current' = {}
  BY DEF IInv, LogInv, Timely, CursorInv, StoreSnapshots
<1>3. ASSUME NEW s \in snapshots', NEW p \in PreviousInDay(s)',
             s.observed = observed, Recovers(p, s)
      PROVE  \E c \in changes' : c.type = Resumed /\ c.line = s.line
  <2>1. s \in batch
    <3>1. \A r \in snapshots : r.observed # observed
      BY <1>1, <1>2 DEF Snapshot, Time
    <3>2. QED
      BY <1>1, <1>3, <3>1
  <2>2. p \in LatestInDay(snapshots, s.line, day)
    BY <1>1, <1>3, <2>1
  <2>3. s \in Fresh(snapshots, response, observed)
    BY <2>1, <2>2 DEF Batch, CarriedForward, SnapshotOf
  <2>4. PICK c \in Detected(p, s) : c.type = Resumed /\ c.line = s.line
    BY <1>3, RecoveryDetected
  <2>5. c \in changes'
    BY <2>2, <2>3, <2>4 DEF StoreSnapshots, ChangeCandidates
  <2>6. QED
    BY <2>4, <2>5
<1>4. RecoveriesFound'
  BY <1>2, <1>3 DEF RecoveriesFound
<1>5. SeenInv' /\ RecoveriesHandled'
  BY <1>2 DEF SeenInv, RecoveriesHandled
<1>6. QED
  BY <1>4, <1>5, StoreOnePerLine DEF RecoveryInv

\* As long as nothing is stored, nothing is found either.
LEMMA QuietRecoveries ==
    ASSUME IInv, RecoveryInv, UNCHANGED snapshots,
           \/ UNCHANGED <<changes, actives>>
              /\ (pc' \notin {"idle", "fetching"} =>
                    UNCHANGED observed /\ pc \notin {"idle", "fetching"})
           \/ LeavePoll
    PROVE  RecoveriesFound' /\ OnePerLine'
BY DEF RecoveryInv, RecoveriesFound, OnePerLine, PreviousInDay, LeavePoll

LEMMA StepRecoveries ==
    ASSUME IInv, RecoveryInv, [Next]_vars
    PROVE  RecoveryInv'
<1>1. CASE \E response \in Response : StoreSnapshots(response)
  BY <1>1, StoreRecoveries
<1>2. CASE BeginPoll
  <2>1. RecoveriesFound' /\ OnePerLine'
    BY <1>2, QuietRecoveries DEF BeginPoll, tables, poll
  <2>2. QED
    BY <1>2, <2>1
    DEF BeginPoll, tables, poll, RecoveryInv, SeenInv, RecoveriesHandled
<1>3. CASE ReadDevices \/ MatchTargets \/ CreateDeliveries \/ SelectStates
  <2>1. RecoveriesFound' /\ OnePerLine'
    BY <1>3, QuietRecoveries
    DEF ReadDevices, MatchTargets, CreateDeliveries, SelectStates, tables
  <2>2. QED
    BY <1>3, <2>1
    DEF ReadDevices, MatchTargets, CreateDeliveries, SelectStates, tables,
        RecoveryInv, SeenInv, RecoveriesHandled
<1>4. CASE CreateEvent
  <2>1. PICK c \in Unseen : seen' = seen \cup {c} /\ current' = {c}
    BY <1>4 DEF CreateEvent
  <2>2. RecoveriesFound' /\ OnePerLine'
    BY <1>4, QuietRecoveries DEF CreateEvent
  <2>3. current = {} /\ alerted' = alerted
    BY <1>4 DEF IInv, CursorInv, CreateEvent
  <2>4. c \in changes \cup actives
    BY DEF Unseen
  <2>5. QED
    BY <1>4, <2>1, <2>2, <2>3, <2>4
    DEF CreateEvent, RecoveryInv, SeenInv, RecoveriesHandled
<1>5. CASE RecordAlerts
  <2>1. PICK c \in current :
            /\ c.type # Resumed
            /\ alerted' = alerted \cup ((targets \ existing) \X {c.line})
    BY <1>5 DEF RecordAlerts, IInv, AlertInv, TargetsInv
  <2>2. RecoveriesFound' /\ OnePerLine'
    BY <1>5, QuietRecoveries DEF RecordAlerts
  <2>3. c \in changes \cup actives /\ \A e \in current : e = c
    BY <2>1 DEF IInv, CursorInv
  <2>4. ASSUME NEW e \in seen, e.type = Resumed
        PROVE  \A a \in alerted' : a[2] # e.line
    <3>1. e # c /\ e \in changes \cup actives
      BY <2>1, <2>4 DEF RecoveryInv, SeenInv
    <3>2. c.line # e.line
      BY <2>3, <3>1 DEF RecoveryInv, OnePerLine
    <3>3. \A a \in alerted : a[2] # e.line
      BY <2>3, <2>4, <3>1 DEF RecoveryInv, RecoveriesHandled
    <3>4. QED
      BY <2>1, <3>2, <3>3
  <2>5. QED
    BY <1>5, <2>2, <2>4
    DEF RecordAlerts, RecoveryInv, SeenInv, RecoveriesHandled
<1>6. CASE ClearAlerts
  <2>1. PICK c \in current : alerted' = {a \in alerted : a[2] # c.line}
    BY <1>6 DEF ClearAlerts
  <2>2. RecoveriesFound' /\ OnePerLine'
    BY <1>6, QuietRecoveries DEF ClearAlerts
  <2>3. \A e \in current : e = c
    BY <2>1 DEF IInv, CursorInv
  <2>4. QED
    BY <1>6, <2>1, <2>2, <2>3
    DEF ClearAlerts, RecoveryInv, SeenInv, RecoveriesHandled
<1>7. CASE NothingToRecord
  <2>1. PICK c \in current : c.type # Resumed /\ \A e \in current : e = c
    BY <1>7 DEF NothingToRecord, IInv, CursorInv
  <2>2. RecoveriesFound' /\ OnePerLine'
    BY <1>7, QuietRecoveries DEF NothingToRecord, tables
  <2>3. QED
    BY <1>7, <2>1, <2>2
    DEF NothingToRecord, tables, RecoveryInv, SeenInv, RecoveriesHandled
<1>8. CASE FinishPoll \/ FailPoll \/ WorkerCrash
  <2>1. LeavePoll /\ UNCHANGED snapshots
    BY <1>8 DEF FinishPoll, FailPoll, WorkerCrash, tables
  <2>2. RecoveriesFound' /\ OnePerLine'
    BY <2>1, QuietRecoveries
  <2>3. QED
    BY <2>1, <2>2 DEF LeavePoll, RecoveryInv, SeenInv, RecoveriesHandled
<1>9. CASE Api
  <2>1. alerted' \subseteq alerted /\ UNCHANGED <<snapshots, worker>>
    BY <1>9
    DEF Api, RegisterDevice, DeleteDevice, SetEnabled, WritePreferences, Remove
  <2>2. RecoveriesFound' /\ OnePerLine'
    BY <2>1, QuietRecoveries DEF worker, poll
  <2>3. QED
    BY <2>1, <2>2 DEF worker, poll, RecoveryInv, SeenInv, RecoveriesHandled
<1>10. CASE UNCHANGED vars
  BY <1>10 DEF vars, tables, poll, RecoveryInv, RecoveriesFound, OnePerLine,
              SeenInv, RecoveriesHandled, PreviousInDay
<1>11. QED
  BY <1>1, <1>2, <1>3, <1>4, <1>5, <1>6, <1>7, <1>8, <1>9, <1>10
  DEF Next, Poll, StateWriteFails, PollError

\* A poll that ends well leaves no state of a line that it found back to good
\* service, whether or not its devices were to be told.
THEOREM RecoveriesSettle == Spec => FinishedPollSettlesRecoveries
<1>1. ASSUME IInv, RecoveryInv, FinishPoll,
             NEW s \in snapshots, NEW p \in PreviousInDay(s),
             s.observed = observed, Recovers(p, s), NEW a \in alerted
      PROVE  a[2] # s.line
  <2>1. pc = "next" /\ current = {} /\ Unseen = {}
    BY <1>1 DEF IInv, CursorInv, FinishPoll
  <2>2. changes \subseteq seen
    BY <2>1 DEF Unseen
  <2>3. PICK c \in changes : c.type = Resumed /\ c.line = s.line
    BY <1>1, <2>1 DEF RecoveryInv, RecoveriesFound
  <2>4. QED
    BY <1>1, <2>1, <2>2, <2>3 DEF RecoveryInv, RecoveriesHandled
<1>2. IInv /\ RecoveryInv /\ [Next]_vars =>
        [FinishPoll =>
            \A s \in snapshots : \A p \in PreviousInDay(s) :
                /\ s.observed = observed
                /\ IsDisrupted(p.statuses) /\ ~ IsDisrupted(s.statuses)
                /\ GoodServices(s.statuses) # {}
                => \A a \in alerted : a[2] # s.line]_vars
  BY <1>1 DEF Recovers
<1>3. Init => RecoveryInv
  BY DEF Init, RecoveryInv, RecoveriesFound, OnePerLine, SeenInv, RecoveriesHandled
<1>4. IInv /\ RecoveryInv /\ [Next]_vars => RecoveryInv'
  BY StepRecoveries
<1>5. QED
  BY <1>2, <1>3, <1>4, Invariance, PTL DEF Spec, FinishedPollSettlesRecoveries
=============================================================================

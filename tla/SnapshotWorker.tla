--------------------------- MODULE SnapshotWorker ---------------------------
(***************************************************************************)
(* The snapshot worker (app/workers/line_status_snapshot_worker.py): every *)
(* poll stores the statuses that changed and then, in a session that       *)
(* commits several times, queues the notifications they call for.          *)
(*                                                                         *)
(* One action is one await at which the worker reads or commits, so that   *)
(* the API, which changes devices and preferences in transactions of its   *)
(* own, and failures and restarts come between any two of them.  The       *)
(* database is PostgreSQL: it checks the foreign key of a disruption state *)
(* and deletes the states of a deleted device.                             *)
(***************************************************************************)
EXTENDS SnapshotLog, Matching, FiniteSets

CONSTANTS
    Device,          \* ids that app installations register under
    LinePreferences, \* what an app may choose: maps from lines to preferences
    Response,        \* what TfL may answer: maps from lines to statuses
    Faults           \* whether workers and the database may fail

ASSUME LineAssumption == IsFiniteSet(Line)

ASSUME FaultsAssumption == Faults \in BOOLEAN

Preference == [enabled : BOOLEAN, threshold : Threshold,
               recoveries : BOOLEAN, open : SUBSET Time]

ASSUME PreferenceAssumption ==
    \A p \in LinePreferences : /\ DOMAIN p \subseteq Line
                               /\ \A l \in DOMAIN p : p[l] \in Preference

ASSUME ResponseAssumption ==
    \A r \in Response : /\ DOMAIN r \subseteq Line
                        /\ \A l \in DOMAIN r : r[l] \subseteq Status

VARIABLES
    snapshots,   \* table line_status_snapshots (with line_statuses)
    devices,     \* tables notification_devices and ..._preferences
    alerted,     \* table notification_line_disruption_states: <<device, line>>
    events,      \* table notification_events: the candidates recorded
    deliveries,  \* table notification_deliveries: [event, device]
    lastRun,     \* the worker's newest row of worker_runs
    pc,          \* where the worker is in a poll
    observed,    \* observed_at of the poll, or of the last one
    reported,    \* the lines of the response
    stored,      \* the number of snapshots this poll stored
    changes,     \* candidates of changed statuses
    actives,     \* candidates of disruptions still going on
    seen,        \* candidates handled so far
    polled,      \* the devices as the poll read them
    current,     \* the candidate at hand, a set of at most one
    targets,     \* the devices to queue it for, then those it was queued for
    existing     \* those of them that have a disruption state, as read

tables == <<snapshots, devices, alerted, events, deliveries>>
poll   == <<reported, stored, changes, actives, seen, polled, current, targets,
            existing>>
vars   == <<tables, lastRun, pc, observed, poll>>

\* The empty table, and the preferences of a device that has set none.
Empty == [d \in {} |-> d]

DeviceRow == [enabled : BOOLEAN, lines : LinePreferences \cup {Empty}]

DeviceTable == UNION {[D -> DeviceRow] : D \in SUBSET Device}

CandidateType ==
    [line : Line, type : EventType, observed : Time, severity : Nat, text : Nat]

Delivery == [event : CandidateType, device : Device]

TypeOK ==
    /\ snapshots \subseteq Snapshot
    /\ devices \in DeviceTable
    /\ alerted \subseteq Device \X Line
    /\ events \subseteq CandidateType
    /\ deliveries \subseteq Delivery
    /\ lastRun \in [status : {"none", "success", "failed"}, count : Nat]
    /\ pc \in {"idle", "fetching", "stored", "next", "match", "deliver",
             "record", "commit"}
    /\ observed \in Time \cup {0}
    /\ reported \subseteq Line
    /\ stored \in Nat
    /\ changes \subseteq CandidateType
    /\ actives \subseteq CandidateType
    /\ seen \subseteq CandidateType
    /\ polled \in DeviceTable
    /\ current \subseteq CandidateType
    /\ targets \subseteq Device
    /\ existing \subseteq Device

Init ==
    /\ snapshots = {} /\ devices = Empty /\ alerted = {}
    /\ events = {} /\ deliveries = {}
    /\ lastRun = [status |-> "none", count |-> 0]
    /\ pc = "idle" /\ observed = 0
    /\ reported = {} /\ stored = 0 /\ changes = {} /\ actives = {}
    /\ seen = {} /\ polled = Empty /\ current = {} /\ targets = {}
    /\ existing = {}

-----------------------------------------------------------------------------
\* The end of a poll: its session and its locals are gone.
LeavePoll ==
    /\ pc' = "idle"
    /\ reported' = {} /\ stored' = 0 /\ changes' = {} /\ actives' = {}
    /\ seen' = {} /\ polled' = Empty /\ current' = {} /\ targets' = {}
    /\ existing' = {}

\* Mutant of BeginPoll: the clock may go back.
BeginPollAtAnyTime ==
    /\ pc = "idle"
    /\ observed' \in Time \ {observed}
    /\ pc' = "fetching"
    /\ UNCHANGED <<tables, lastRun, poll>>

\* observed_at is taken before the request to TfL; polls are at least a
\* second apart.
BeginPoll ==
    /\ pc = "idle"
    /\ observed' \in {t \in Time : t > observed}
    /\ pc' = "fetching"
    /\ UNCHANGED <<tables, lastRun, poll>>

\* The only writer of snapshots, so its reads and its commit are one step.
StoreSnapshots(response) ==
    /\ pc = "fetching"
    /\ snapshots' = snapshots \cup Batch(snapshots, response, observed)
    /\ reported' = DOMAIN response
    /\ stored' = Cardinality(Batch(snapshots, response, observed))
    /\ changes' = ChangeCandidates(snapshots, response, observed)
    /\ actives' = ActiveCandidates(snapshots, response, observed)
    /\ pc' = "stored"
    /\ UNCHANGED <<devices, alerted, events, deliveries, lastRun, observed,
                   seen, polled, current, targets, existing>>

ReadDevices ==
    /\ pc = "stored"
    /\ polled' = devices
    /\ pc' = "next"
    /\ UNCHANGED <<tables, lastRun, observed, reported, stored, changes,
                   actives, seen, current, targets, existing>>

\* The candidates of changes come first; one seen before is passed over.
Unseen == IF changes \subseteq seen THEN actives \ seen ELSE changes \ seen

\* get_or_create_notification_event: the event table is keyed by candidate.
CreateEvent ==
    /\ pc = "next"
    /\ \E candidate \in Unseen :
        /\ seen' = seen \cup {candidate}
        /\ current' = {candidate}
        /\ events' = events \cup {candidate}
    /\ pc' = "match"
    /\ UNCHANGED <<snapshots, devices, alerted, deliveries, lastRun, observed,
                   reported, stored, changes, actives, polled, targets,
                   existing>>

\* A change is matched at its own observed_at, an ongoing disruption at the
\* poll's; the snapshots of this poll's changes carry the poll's.
MatchTargets ==
    /\ pc = "match"
    /\ \E candidate \in current :
        targets' = MatchingTargets(candidate, polled,
                        IF candidate \in changes THEN candidate.observed
                                                 ELSE observed,
                        {d \in Device : <<d, candidate.line>> \in alerted})
    /\ pc' = "deliver"
    /\ UNCHANGED <<tables, lastRun, observed, reported, stored, changes,
                   actives, seen, polled, current, existing>>

\* Only the deliveries that are new are returned.
CreateDeliveries ==
    /\ pc = "deliver"
    /\ \E candidate \in current :
        LET new == {d \in targets :
                        [event |-> candidate, device |-> d] \notin deliveries}
        IN  /\ deliveries' = deliveries \cup
                    {[event |-> candidate, device |-> d] : d \in new}
            /\ targets' = new
    /\ pc' = "record"
    /\ UNCHANGED <<snapshots, devices, alerted, events, lastRun, observed,
                   reported, stored, changes, actives, seen, polled, current,
                   existing>>

\* No delivery is new: there is no state to record.
NothingToRecord ==
    /\ pc = "record"
    /\ targets = {}
    /\ \E candidate \in current : candidate.type # Resumed
    /\ pc' = "next"
    /\ current' = {}
    /\ UNCHANGED <<tables, lastRun, observed, reported, stored, changes,
                   actives, seen, polled, targets, existing>>

SelectStates ==
    /\ pc = "record"
    /\ targets # {}
    /\ \E candidate \in current :
        /\ candidate.type # Resumed
        /\ existing' = {d \in targets : <<d, candidate.line>> \in alerted}
    /\ pc' = "commit"
    /\ UNCHANGED <<tables, lastRun, observed, reported, stored, changes,
                   actives, seen, polled, current, targets>>

\* States are inserted for the devices that had none.  Those that had one have
\* its time updated, which brings back no state that is gone by now.
RecordAlerts ==
    /\ pc = "commit"
    /\ targets \ existing \subseteq DOMAIN devices
    /\ \E candidate \in current :
        alerted' = alerted \cup ((targets \ existing) \X {candidate.line})
    /\ pc' = "next"
    /\ current' = {} /\ targets' = {} /\ existing' = {}
    /\ UNCHANGED <<snapshots, devices, events, deliveries, lastRun, observed,
                   reported, stored, changes, actives, seen, polled>>

\* Mutant of ClearAlerts: the states of every line are cleared.
ClearEveryLine ==
    /\ pc = "record"
    /\ \E candidate \in current : candidate.type = Resumed
    /\ alerted' = {}
    /\ pc' = "next"
    /\ current' = {} /\ targets' = {}
    /\ UNCHANGED <<snapshots, devices, events, deliveries, lastRun, observed,
                   reported, stored, changes, actives, seen, polled,
                   existing>>

\* Mutant of ClearAlerts: only the devices told of the recovery are cleared.
ClearTargetsOnly ==
    /\ pc = "record"
    /\ \E candidate \in current :
        /\ candidate.type = Resumed
        /\ alerted' = alerted \ (targets \X {candidate.line})
    /\ pc' = "next"
    /\ current' = {} /\ targets' = {}
    /\ UNCHANGED <<snapshots, devices, events, deliveries, lastRun, observed,
                   reported, stored, changes, actives, seen, polled,
                   existing>>

ClearAlerts ==
    /\ pc = "record"
    /\ \E candidate \in current :
        /\ candidate.type = Resumed
        /\ alerted' = {a \in alerted : a[2] # candidate.line}
    /\ pc' = "next"
    /\ current' = {} /\ targets' = {}
    /\ UNCHANGED <<snapshots, devices, events, deliveries, lastRun, observed,
                   reported, stored, changes, actives, seen, polled,
                   existing>>

FinishPoll ==
    /\ pc = "next"
    /\ Unseen = {}
    /\ lastRun' = [status |-> "success", count |-> stored]
    /\ LeavePoll
    /\ UNCHANGED <<tables, observed>>

\* TfL or the database fails: the session rolls back to its last commit, the
\* run is recorded as failed with a count of zero, and the loop goes on.
FailPoll ==
    /\ pc # "idle"
    /\ lastRun' = [status |-> "failed", count |-> 0]
    /\ LeavePoll
    /\ UNCHANGED <<tables, observed>>

PollError == Faults /\ FailPoll

\* A device deleted since the poll read it has no row for the new state to
\* refer to, or has taken its old state with it: the insert fails, or the
\* update does, unless it is one of a batch or leaves the time as it is.  The
\* rest of the poll is lost with it.
StateWriteFails ==
    /\ pc = "commit"
    /\ \/ ~ targets \ existing \subseteq DOMAIN devices
       \/ \E candidate \in current, d \in existing :
            <<d, candidate.line>> \notin alerted
    /\ FailPoll

\* The process is killed, or cannot even record its run.
WorkerCrash ==
    /\ Faults
    /\ pc # "idle"
    /\ LeavePoll
    /\ UNCHANGED <<tables, lastRun, observed>>

-----------------------------------------------------------------------------
\* Transactions of the API (app/notifications/repository.py).
worker == <<lastRun, pc, observed, poll>>

\* Mutant of Remove: the disruption states of a deleted device stay.
RemoveWithoutCascade(gone) == alerted

\* Deleting a device cascades to its preferences and disruption states.
Remove(gone) == {a \in alerted : a[1] \notin gone}

\* Mutant of RegisterDevice: the device a token is taken from keeps its states.
RegisterKeepingStates(device, other) ==
    /\ other \subseteq DOMAIN devices \ {device} /\ \A d, e \in other : d = e
    /\ devices' =
        [d \in (DOMAIN devices \ other) \cup {device} |->
            IF d \in DOMAIN devices THEN devices[d]
                                    ELSE [enabled |-> TRUE, lines |-> Empty]]
    /\ UNCHANGED <<snapshots, alerted, events, deliveries, worker>>

\* A push token has one device: registering it takes it from the other.
RegisterDevice(device, other) ==
    /\ other \subseteq DOMAIN devices \ {device} /\ \A d, e \in other : d = e
    /\ device \notin DOMAIN devices \/ other # {}
    /\ devices' =
        [d \in (DOMAIN devices \ other) \cup {device} |->
            IF d \in DOMAIN devices THEN devices[d]
                                    ELSE [enabled |-> TRUE, lines |-> Empty]]
    /\ alerted' = Remove(other)
    /\ UNCHANGED <<snapshots, events, deliveries, worker>>

DeleteDevice(device) ==
    /\ device \in DOMAIN devices
    /\ devices' = [d \in DOMAIN devices \ {device} |-> devices[d]]
    /\ alerted' = Remove({device})
    /\ UNCHANGED <<snapshots, events, deliveries, worker>>

SetEnabled(device, enabled) ==
    /\ device \in DOMAIN devices
    /\ devices' = [devices EXCEPT ![device].enabled = enabled]
    /\ UNCHANGED <<snapshots, alerted, events, deliveries, worker>>

\* PUT replaces every line's preference, PATCH one or more of them.
WritePreferences(device, lines) ==
    /\ device \in DOMAIN devices
    /\ devices' = [devices EXCEPT ![device].lines = lines]
    /\ UNCHANGED <<snapshots, alerted, events, deliveries, worker>>

-----------------------------------------------------------------------------
Api ==
    \E d \in Device :
        \/ \E other \in SUBSET Device : RegisterDevice(d, other)
        \/ DeleteDevice(d)
        \/ \E b \in BOOLEAN : SetEnabled(d, b)
        \/ \E lines \in LinePreferences : WritePreferences(d, lines)

Poll ==
    \/ BeginPoll
    \/ \E response \in Response : StoreSnapshots(response)
    \/ ReadDevices
    \/ CreateEvent
    \/ MatchTargets
    \/ CreateDeliveries
    \/ NothingToRecord
    \/ SelectStates
    \/ RecordAlerts
    \/ ClearAlerts
    \/ StateWriteFails
    \/ FinishPoll

Next ==
    \/ Poll
    \/ PollError
    \/ WorkerCrash
    \/ Api

Spec == Init /\ [][Next]_vars

-----------------------------------------------------------------------------
\* The snapshots just before a row in its operational day.
PreviousInDay(s) ==
    Newest({r \in RowsInDay(snapshots, s.line, OperationalDay[s.observed]) :
                r.observed < s.observed})

\* Only changes are stored: a snapshot never repeats the statuses of the one
\* before it in the same operational day, whatever polls failed in between.
ConsecutiveSnapshotsDiffer ==
    \A s \in snapshots : \A p \in PreviousInDay(s) : p.statuses # s.statuses

\* line_status_snapshots has no uniqueness constraint, and the join on
\* max(observed_at) relies on a line having one snapshot for each time.
SnapshotKeysUnique ==
    \A r, s \in snapshots :
        r.line = s.line /\ r.observed = s.observed => r = s

\* From its first stored poll on, a day has a snapshot of every supported
\* line seen on an earlier day, even one TfL has left out since.
KnownLinesHaveBaseline ==
    \A s \in snapshots : \A l \in SupportedLine :
        RowsBeforeDay(snapshots, l, OperationalDay[s.observed]) # {} =>
            \E b \in RowsInDay(snapshots, l, OperationalDay[s.observed]) :
                b.observed <= s.observed

\* The event tells of snapshot s, given the ones before it in its day.
Tells(e, s, previous) ==
    /\ s.line = e.line /\ s.observed = e.observed
    /\ e.type = Resumed <=> ~ IsDisrupted(s.statuses)
    /\ \E x \in s.statuses :
        /\ x.severity = e.severity /\ x.text = e.text
        /\ e.type # Resumed => x \in Disruptions(s.statuses)
    /\ e.type = Resumed =>
        /\ e.severity = GoodService
        /\ \E p \in previous : IsDisrupted(p.statuses)
    /\ e.type # Resumed =>
        \A x \in Disruptions(s.statuses) : e.severity <= x.severity
    /\ e.type = Changed =>
        \E p \in previous :
            /\ IsDisrupted(p.statuses)
            /\ \A x \in Disruptions(p.statuses) : e.severity < x.severity

Backed(e) == \E s \in snapshots : Tells(e, s, PreviousInDay(s))

\* Every event is the worst disruption of a stored snapshot, or the return to
\* good service after a disruption of the same day, and a change is a
\* worsening: however polls are cut short, no event outlives its snapshot.
EventsBackedBySnapshots == \A e \in events : Backed(e)

\* The device was alerted to a disruption of the line before time t.
AlertedBefore(device, line, t) ==
    \E a \in deliveries :
        /\ a.device = device
        /\ a.event.line = line
        /\ a.event.type # Resumed
        /\ a.event.observed < t

\* A device hears that a line recovered only if it has been told, earlier,
\* that the line was disrupted, through any crash, failed insert or change of
\* preferences in between.
RecoveryFollowsAlert ==
    \A r \in deliveries :
        r.event.type = Resumed =>
            AlertedBefore(r.device, r.event.line, r.event.observed)

\* A disruption state is kept only for a registered device, and only for one
\* that was alerted: the state never outruns the delivery it stands for.
StatesJustified ==
    \A a \in alerted :
        /\ a[1] \in DOMAIN devices
        /\ AlertedBefore(a[1], a[2], observed + 1)

\* A state goes away with its device, or when the recovery has been queued for
\* the device or the device, as read, did not want it.
StatesClearedOnlyAfterRecovery ==
    [][\A a \in alerted \ alerted' :
        \/ a[1] \notin DOMAIN devices'
        \/ \E c \in current :
            /\ c.type = Resumed /\ c.line = a[2]
            /\ \/ [event |-> c, device |-> a[1]] \in deliveries
               \/ a[1] \notin DOMAIN polled
               \/ ~ DeviceMatches(c, polled[a[1]], observed)]_vars

\* A poll that ends well has queued, for every disruption still going on
\* unchanged, an alert to each device that matched: what a crash, a failure or
\* a closed schedule left undone at an earlier poll is made up for.
FinishedPollAlertsEveryMatch ==
    [][FinishPoll =>
        \A l \in reported :
        \A s \in LatestInDay(snapshots, l, OperationalDay[observed]) :
        \A c \in ActiveDisruption(s) :
        \A d \in MatchingTargets(c, polled, observed, {}) :
            s.observed < observed => [event |-> c, device |-> d] \in deliveries]_vars

\* A poll that ends well leaves no device marked as alerted to a line that it
\* found back to good service, not even one that did not want to hear of it now:
\* what it leaves raises no second recovery.
FinishedPollSettlesRecoveries ==
    [][FinishPoll =>
        \A s \in snapshots : \A p \in PreviousInDay(s) :
            /\ s.observed = observed
            /\ IsDisrupted(p.statuses) /\ ~ IsDisrupted(s.statuses)
            /\ GoodServices(s.statuses) # {}
            => \A a \in alerted : a[2] # s.line]_vars

\* What the apps see of the worker.
Feed == INSTANCE AlertFeed WITH
            log <- snapshots, registered <- DOMAIN devices,
            told <- deliveries, marked <- alerted

\* The worker and the API, through any crash, failure and change of devices in
\* between, give out alerts as promised: of the newest row of a line only,
\* though polls that come back to what an earlier one left undone have read
\* the rows and the devices before.
ImplementsFeed == Feed!Spec

\* A disruption that stays as it is is alerted once: no device is sent two
\* alerts about one snapshot of a line.
OneAlertPerSnapshot ==
    \A a, b \in deliveries :
        /\ a.device = b.device
        /\ a.event.line = b.event.line
        /\ a.event.observed = b.event.observed
        => a = b

\* Two alerts to a device about one snapshot, if there are two, are those of a
\* worsening and of a disruption that goes on, and tell of the same status: a
\* snapshot is never told in two ways, and never a third time.
AlertedAgainOnlyAfterWorsening ==
    \A a, b \in deliveries :
        /\ a.device = b.device
        /\ a.event.line = b.event.line
        /\ a.event.observed = b.event.observed
        /\ a # b
        => /\ {a.event.type, b.event.type} = {Started, Changed}
           /\ a.event.severity = b.event.severity
           /\ a.event.text = b.event.text

\* A recovery is sent only to a device alerted to the disruption that ended:
\* no snapshot without disruption lies between that alert and the recovery.
RecoveryOnlyAfterAlertedDisruption ==
    \A r \in deliveries :
        r.event.type = Resumed =>
            \E a \in deliveries :
                /\ a.device = r.device
                /\ a.event.line = r.event.line
                /\ a.event.type # Resumed
                /\ ~ \E s \in snapshots :
                        /\ s.line = r.event.line
                        /\ a.event.observed < s.observed
                        /\ s.observed < r.event.observed
                        /\ ~ IsDisrupted(s.statuses)
=============================================================================

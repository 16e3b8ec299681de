# A verification of the Tube Service API

TLA+ models of the Tube Service API and its workers, the TLC runs that check
them, and TLAPS proofs about them. All paths are below `src/`; `app/` is the
service.

    tlc -workers 2 -config Alerts.cfg MCSnapshotWorker     # model-check a run
    tlapm SnapshotWorkerProofs.tla                         # check proofs

## 1. The system

| component | state it keeps | operations | talks to |
|---|---|---|---|
| snapshot worker (`app/workers/line_status_snapshot_worker.py`) | nothing but locals of a poll; a row of `worker_runs` per poll | poll TfL, store changed snapshots, queue notifications | TfL client, database |
| event detection, severities (`app/notifications/events.py`, `app/line_status/severity.py`) | none | detect a candidate in a pair of snapshots or an ongoing disruption | called by the snapshot worker |
| preference matching (`app/notifications/matching.py`) | none | devices a candidate is meant for | called by the snapshot worker |
| line status tables (`app/line_status/models.py`, `repository.py`) | `line_status_snapshots`, `line_statuses` | latest of a day, latest before a day, histories | worker writes, API reads |
| notification tables (`app/notifications/models.py`, `repository.py`) | devices, preferences, line preferences, disruption states, events, deliveries | upserts, enable, disable, delete, event and delivery creation, state record and clear, marks | both workers, API |
| notification API (`app/api/routes/notifications.py`, `schemas.py`) | none | register, delete, enable, disable, PUT and PATCH preferences, test push | repository |
| delivery worker (`app/workers/notification_delivery_worker.py`, `app/notifications/sender.py`) | nothing but locals of a batch; a row of `worker_runs` per batch | read a batch, push, mark | repository, APNs client |
| APNs client (`app/notifications/apns.py`) | a cached provider token | send | Apple |
| worker runs, health (`app/operations/`, `app/api/routes/`) | `worker_runs` (append-only) | record success or failure, read the newest | both workers, API |
| timeline (`app/line_status/service.py`) and caches (`cache.py`) | two in-process caches of the API | daily timeline, disruption summary | line status tables |
| operational day (`app/line_status/time.py`) | none | day of a time, bounds of a day | worker, timeline |
| security, configuration, HTTP debugging, migrations, scripts | settings | | |

The API, the snapshot worker and the delivery worker are processes of their
own that share only the database: every interaction is a row that one commits
and another reads later. So what is hard is

- the poll of the snapshot worker commits up to `1 + 3n` times for `n`
  candidates, and may fail or be killed at each await between;
- the API changes devices, tokens and preferences between any two of those
  steps, while the worker goes on with the list of devices it read first
  (`expire_on_commit=False`, `app/database.py`);
- a later poll must make up for what an earlier one left undone, without
  alerting twice, and it knows only the log, the events, the deliveries and the
  disruption states;
- the provider's acceptance of a push and the commit of its outcome are two
  steps, so crashes and timeouts in between repeat a push;
- an exception in the delivery worker ends its batch, and the queue's order
  never changes;
- the operational day rolls over at 04:00 London time between any two polls, and
  lasts 23 or 25 hours when the clocks change;
- API requests run side by side, in read-committed transactions without row
  locks on what they read: each writes, at its commit, what it decided on rows
  that may have changed since;
- a request for a timeline looks in the cache, waits for its query, and stores
  the result by a TTL it picks only then, while the worker adds rows and the day
  may end.

What makes each part correct:

- *log*: one row for a line and a time; consecutive rows of a day differ; each
  day has a baseline of the lines known;
- *events*: each is the worst disruption of a stored snapshot, or a recovery
  from a disruption of the same day;
- *alerts*: a recovery follows an alert; a state stands for a queued alert of a
  registered device and is kept until the recovery; a poll that ends well has
  alerted every device that matches an ongoing disruption;
- *delivery queue*: final statuses, pushes repeated only after faults, `sent`
  only after an acceptance, every delivery settled in the end;
- *API*: overlapping requests change the tables only as the atomic operations
  do that the workers are checked with, a request fails on a key only if another
  one overtook it, and a write touches only what its body names;
- *timeline*: every alert is on it, it only grows, each disruption is counted
  once;
- *caches*: bounded, evicting good entries only when full, and never lacking a
  row for longer than the TTL and the request that stored them.

`PROJECT.json` lists every component with its status, and every hazard of the
code at its line with the properties aimed at it.

## 2. The modules

| module | models | notes |
|---|---|---|
| `LineStatuses` | severities, statuses, `detect_notification_candidate`, `active_disruption_candidate` | pure |
| `Matching` | `matching_delivery_targets` | pure, extends `LineStatuses` |
| `SnapshotLog` | the two queries on snapshots, the batch one poll stores, the candidates it raises | pure, extends `LineStatuses` |
| `SnapshotWorker` | the snapshot worker, the tables it writes, the API's transactions on devices | one action per await at which it reads or commits shared rows |
| `AlertFeed` | what the service promises to the apps that have its alerts | abstract; `SnapshotWorker` implements it |
| `DeliveryWorker` | the delivery workers and their queue | one action per await, fairness |
| `PushQueue` | what the queue of deliveries promises | abstract; `DeliveryWorker` implements it |
| `DeviceRegistry` | concurrent requests that change devices and preferences | one action per query and commit; implements the API actions of `SnapshotWorker` |
| `LondonDay` | `operational_day_for` and the bounds of a day, in seconds, with the clock changes | pure |
| `Timeline` | `_timeline_snapshots`, transitions, starts of disruptions | pure, extends `SnapshotLog` |
| `ServedTimeline` | the histories the API reads, over the log of a running snapshot worker | composes `SnapshotWorker`, `Timeline` and `LondonDay` |
| `TimelineCache` | the caches of an API process, the requests that fill them, the worker's rows | one action per await |
| `MCSnapshotWorker`, `MCDeliveryWorker`, `MCDeviceRegistry`, `MCTimeline`, `MCTimelineCache` | instances for TLC | |
| `SnapshotLogProofs` | lemmas about the operators of `SnapshotLog` and `LineStatuses` | |
| `SnapshotWorkerProofs`, `DeliveryWorkerProofs`, `DeviceRegistryProofs`, `LondonDayProofs`, `TimelineProofs`, `TimelineCacheProofs` | the theorems | |

### State and actions of SnapshotWorker

`snapshots`, `devices`, `alerted`, `events` and `deliveries` are the tables;
`lastRun` is the newest `worker_runs` row; `pc`, `observed` and the rest are the
locals of a poll. `alerted` is a set of pairs because
`(device_id, line_id)` is the primary key of a disruption state and its times
are never read. A delivery's status belongs to `DeliveryWorker`, and no step of
the snapshot worker reads it.

| action | code |
|---|---|
| `BeginPoll` | `observed_at` is taken, TfL is asked |
| `StoreSnapshots` | the queries, the comparison, `session.commit()` at line 183. The worker is the only writer of snapshots, so nobody sees the steps inside |
| `ReadDevices` | `get_notification_devices_with_preferences` |
| `CreateEvent` | the next candidate, `get_or_create_notification_event` and its commit |
| `MatchTargets` | the read of the states for a recovery, and `matching_delivery_targets` |
| `CreateDeliveries` | `create_pending_deliveries` and its commit |
| `NothingToRecord` | the early return when no delivery is new |
| `SelectStates` | the query of the states there are already |
| `RecordAlerts` | the states inserted or updated, and their commit |
| `ClearAlerts` | the states deleted, and their commit |
| `StateWriteFails` | the foreign key of a state inserted is violated, or the update of a state that has gone since the query fails |
| `FinishPoll`, `FailPoll` | the row of `worker_runs`; the next poll may begin |
| `WorkerCrash` | the process is killed, or the write of the run fails |
| `RegisterDevice`, `DeleteDevice`, `SetEnabled`, `WritePreferences` | the API |

Candidates of changes are handled before those of ongoing disruptions, as in
the code; among themselves they are taken in any order, for the code's order is
that of TfL's answer.

`ImplementsFeed` maps the snapshot worker to `AlertFeed`: the log, the devices,
the deliveries and the states are themselves, and everything the worker holds in
its locals is gone. `StoreSnapshots` is `Observe`, `CreateDeliveries` is `Tell`,
`RecordAlerts` is `Mark`, `ClearAlerts` is `Clear`, an API request is
`Subscribe`, and the rest stutters. `AlertFeed` says of `Tell` what the worker
cannot see when it takes the step: that the newest row of the line is the one
told of, though the worker read the log and the devices polls or awaits ago, and
others have come between.

### State and actions of DeliveryWorker

`status` is the status column, `pushes` and `faults` are history variables that
count what the provider accepted and what went wrong; the rest are the workers'
locals. Between `Accepted` (the provider has the push) and `Mark` (the outcome
is committed) a worker can crash, fail, or be overtaken by another worker.

`ImplementsQueue` maps the delivery worker to `PushQueue`: the status is itself,
and the deliveries accepted are those with a push counted. `Accepted` is a push,
`Mark` and `Skip` settle, the rest stutters.

### State and actions of DeviceRegistry

`devices` and `preferences` are the tables; a preferences row is the map of its
lines. `session[r]` is what request `r` was asked and has read, `pc[r]` where it
is, and `overtaken[r]` a history variable: another request has committed since
`r` began.

| action | code |
|---|---|
| `BeginRegister`, `BeginPut`, `BeginPatch`, `BeginToggle`, `BeginDelete` | the handler and its `get_device`, with the preferences and lines it loads; a device that does not exist is a 404, which changes nothing |
| `ReadOwner` | the query by push token |
| `ReadPreferences` | `get_preferences`; a row the session holds keeps the values it was read with |
| `CommitRegister` | the flushed delete of the token's device with its cascade, the insert or update, the commit |
| `CommitWrite` | the inserts, updates and deletes of line rows that PUT or PATCH come to |
| `CommitToggle`, `CommitDelete` | the columns that differ; a delete with its cascade |
| `RejectIncomplete` | the 422 of a PATCH that adds a line without every field |
| `Conflict` | `IntegrityError` or `StaleDataError`, and the rollback |
| `Abandon` | any other failure, a disconnected client, a stop |

`RegistryIsAtomic` maps the tables to those of `SnapshotWorker`, so that what is
checked and proved there about a worker between atomic API steps holds for the
API as it is. Of tokens `SnapshotWorker` knows only that a registration may take
another device away, and of bodies that preferences become some table of lines.

### State and actions of Timeline and ServedTimeline

`Walk` is the loop of `_timeline_snapshots`, one row for each time; the
declarative `TimelineEntries` says which rows it lists, and `WalkListsChanges`
compares the two. `ServedTimeline` has the variables and actions of
`SnapshotWorker`, and an instant for each poll, whose day is that of `LondonDay`.
`History` is what `get_line_history`, and for each line `get_line_histories`,
select by the bounds of a day.

### State and actions of TimelineCache

`entries` is the dict, `before` its order of insertion as a relation, `rows` the
rows of the database by the time of their commit, `requests` those that missed
the cache. `Miss` is `get` of a key that is absent or expired (a hit changes
nothing), `Query` the history as it is by then, `Store` is `set` with the TTL of
the day as it is by then, `CommitRow` the worker, `RestartApi` an empty process.
The timeline cache and the summary cache have the same code: a key is a line and
a date in the one and a date in the other.

### Abstractions and assumptions

- A status is its severity, the rank of its description and reason, and the
  rest, which alerts ignore. A list of statuses is a set: the TfL client drops
  duplicates, and the worker compares sorted lists.
- `sha256` is injective, so a candidate is its own dedupe key.
- Schedules are the set of times at which they are open for the device.
- One snapshot worker runs, and polls start at least a second apart (the README
  demands the one, the 15-minute sleep gives the other).
- The database is PostgreSQL, read committed: foreign keys are checked and
  cascade, and rows written stay locked until the commit. So in `DeviceRegistry`
  the writes of a commit are one step, on the tables as they are by then; a
  query and the rows it loads eagerly with its result are one read.
- SQLAlchemy writes only the columns whose value differs from the one read. An
  `UPDATE` of a row that is gone fails the commit, but not when it is one of a
  batch of equal statements, whose row count asyncpg does not report.
  So when a device is deleted between the query of its state and the commit,
  `RecordAlerts` and `StateWriteFails` are both possible.
- Columns that no property tells apart (times, versions, platform, time zone)
  are left out; a line's preference has the columns `Field`.
- Bodies have the shape the schemas leave after validation: supported lines,
  each once, no null field, every field in a PUT.
- In `SnapshotLog` and `SnapshotWorker` the operational day is any function of
  time that never goes back; `LondonDay` is one (section 4).
- Clocks in London go forward and back at 01:00 UTC, which `LondonDay` takes from
  the `zoneinfo` data; on which dates is a constant.
- One clock stands for the monotonic clock of the caches and the wall clock of
  the operational day.
- `Unsendable` stands for deliveries whose request cannot be made at all, such
  as one whose URL httpx refuses to build.

## 3. The runs

| run | instance | result |
|---|---|---|
| `alerts` | 1 line, 1 device, 4 times, the first on a day of its own, 4 statuses, crashes and failures everywhere | passes |
| `lines` | 2 lines of which 1 supported, 4 times, the first on a day of its own, any subset reported, faults | passes |
| `devices` | 2 lines, 2 devices that swap tokens and are deleted mid-poll, 2 times, faults | passes |
| `delivery` | 1 worker, 4 deliveries of which 1 not iOS, batches of 2, 2 faults, fairness | passes |
| `overlap` | 2 workers, 3 deliveries with one unsendable, 1 fault each | passes |
| `one_alert` | as `alerts`, without faults, one day | violated: finding 1 |
| `recovery` | as `alerts`, without faults, one day | violated: finding 2 |
| `blocked` | 1 worker, 2 deliveries, the first unsendable, no other fault (`MaxFaults` 0) | violated: finding 3 |
| `registry` | 2 devices of which 1 sets preferences, 2 tokens, 2 lines, 2 columns of 2 values, 2 concurrent requests | passes |
| `registry_race` | the same | violated: finding 4 |
| `timeline` | 1 line, 4 polls at the bounds of two days across the night the clocks go forward, 6 lists of statuses, faults | passes |
| `cache` | 3 keys on 2 days, 2 entries, 2 requests, TTLs of 1 and 3, 5 times | passes |

*Properties.* `TypeOK` of each module; `SnapshotKeysUnique`,
`ConsecutiveSnapshotsDiffer` and `KnownLinesHaveBaseline` of the log;
`EventsBackedBySnapshots` ties events to the log; `RecoveryFollowsAlert` and
`StatesJustified` tie states and recoveries to deliveries;
`StatesClearedOnlyAfterRecovery` and `FinishedPollAlertsEveryMatch` are action
properties of the poll, and so is `FinishedPollSettlesRecoveries`, by which no
state outlives a recovery whose poll ends well; `AlertedAgainOnlyAfterWorsening` is what
remains of finding 1, for a snapshot is never told in a third alert, nor in two ways;
`ImplementsFeed` is the refinement of `AlertFeed`. `DuplicatesOnlyFromFaults`, `SentWasPushed`,
`SettledIsFinal`, the liveness property `EveryDeliverySettles` and the refinement
`ImplementsQueue` are those of the queue. `UndisturbedCanCommit`,
`EnabledOnlyToggled`, `UnlistedFieldsKept`, `UndisturbedWritesAreExact` (a PUT or
PATCH that none has overtaken leaves the body, or the merge with it, and no
more), `OverlappingWritesMixByColumn` (whoever overtakes a PUT or
PATCH, each column ends up as its body asks, or as others have left it since it
was read, and what the body is not about is never taken back) and the
refinement `RegistryIsAtomic` are those of the API's requests. `HistoryIsTheDay` ties the bounds of the queries
to the worker's days, `WalkListsChanges` the loop to its definition,
`AlertsAreOnTheTimeline` and `RecoveriesAreOnTheTimeline` the two readings of the
log to one another, and `SummaryCountsEachDisruptionOnce` and `TimelineOnlyGrows`
are about what is served. `CacheBounded`, `MissingRowsAreRecent` and
`LiveEntriesLeaveOnlyWhenFull` are those of the caches. Each has a mutant: an
operator beside the original, with a plausible bug, under which the run finds the
property violated.

*Bounds.* `Horizon` is the last time at which a poll may start. Of four times,
one lies on a first day and three on the next: a disruption lasts over the change
of the day, or starts, gets worse and goes on in one day, or ends in it, and the
latest row is neither the only one nor the first; a poll cut short may take any
of the times. One line and one device suffice for `alerts`
because a candidate concerns one line, and its targets are chosen device by
device; what couples them, a failed write of a state that ends the poll of all and tokens
that move between devices, is what `devices` is for, and unsupported and missing
lines are what `lines` is for. The four statuses are good service, minor
delays, severe delays and planned closure: no disruption, two disruptions that
are ordered, and one that is neither disruption nor good service. The preferences differ in
threshold, in the recoveries wanted and in the times they are open. In
`delivery`, four deliveries fill two batches, and `MaxFaults = 2` lets a fault
hit a delivery already retried.

In `registry`, two requests are what a race takes, and every pair of kinds
meets; `Subscriber` restricts preferences to one device, which the other reaches
only by taking its token. Of the bodies, the PUT replaces whatever lines there
are, and the PATCHes write a column of one line and remove the other, write the
same column of both (the batch of updates), and add a line. In `timeline` the polls are
one minute before the end of a day, at the start of the next, within it, and one
minute before its end, a day of 23 hours lying between; the statuses include a
disruption beside another, a planned closure, and one that no timeline shows,
alone and beside a disruption. No device is needed, for events do not depend on
them. Polls end with the horizon, so deadlock is not checked there. In `cache`,
`MaxEntries` 2 with three keys gives evictions with an entry that expires and
one that does not; `Lag` 1 lets a row of the old day come in after the new one
has begun; `PastTtl` outlasts `TodayTtl` by more than a request; `MaxRows` 1 is
enough, for the property is about each row by itself. Lines of one date and
requests are symmetric.

*Fairness.* Only `Work(w)` of a delivery worker is weakly fair: its loop
catches every exception, sleeps and polls again, for ever
(`notification_delivery_worker.py:32-45`), and the request has a time-out
(`apns.py:75`). Faults, new deliveries and TfL are never assumed to happen.
`EveryDeliverySettles` holds because faults are bounded by `MaxFaults`, that is,
if the provider and the database do not fail for ever. The snapshot worker has
no liveness property: each poll may fail for ever, and what it promises at its
end is `FinishedPollAlertsEveryMatch` and `FinishedPollSettlesRecoveries`. Requests of the API end at an await by an
answer or an error; nothing waits for them.

*Deadlock* is checked in every run but `timeline`, for the environment and the
loops never stop.

### What disagrees with the documents

1. `OneAlertPerSnapshot`: a disruption that gets worse is alerted twice, first
   as a change and at the next unchanged poll as an ongoing disruption, for the
   two have different dedupe keys. The test
   `test_capture_snapshots_does_not_duplicate_delivery_for_unchanged_disruption`
   says it is not and covers only a disruption that starts.
2. `RecoveryOnlyAfterAlertedDisruption`: the state of an alerted disruption
   outlives it when it does not end directly in good service within the day; a
   later disruption that the device was not alerted to then sends it a
   recovery.
   `test_capture_snapshots_skips_recovery_when_pre_peak_disruption_was_not_alerted`
   says it gets none. What does hold is `RecoveryFollowsAlert`.
3. `EveryDeliverySettles` with an unsendable delivery: it stays first in the
   queue, and nothing behind it is sent, against the README's "until it is
   `sent`, `failed`, or `skipped`".
4. `OnlyTokenOwnerReplaced`: a registration finds the device with its push token
   by the token, and deletes it by its id. If that device has registered
   another token in between, it is deleted with its preferences although it no
   longer holds the token;
   `test_reassigns_push_token_to_latest_device_registration` has the holder of
   the token replaced. `RegistryIsAtomic` allows it: `SnapshotWorker` has no
   tokens, and its `RegisterDevice` may replace any one other device.

Two things the code allows that no document rules out, and no property forbids.
Two delivery workers may push one delivery twice and overwrite one another's
outcome; the README asks for a single instance, and `overlap` checks what is left
with two. Overlapping PUTs and PATCHes leave a mixture of their bodies that
neither client asked for; `OverlappingWritesMixByColumn` says which mixtures there
are.

Two remarks of the README hold only with a proviso the model makes exact. "The
notification delivery worker is idempotent around delivery rows": statuses are
final (`SettledIsFinal`), pushes are not (`DuplicatesOnlyFromFaults` bounds them
by the faults). "The first collection of each operational day stores a baseline
for every line": for every line that TfL reports, or that has an earlier
snapshot (`KnownLinesHaveBaseline`).

## 4. What is proved

Every safety property of the passing runs is also a theorem, for every value of
the constants, and so are the three refinements. `tlapm` checks every proof to its
last leaf.

**`SnapshotWorkerProofs`** (with the lemmas on queries, batches and candidates of
`SnapshotLogProofs`) proves that `Spec` implies `[]TypeOK`, the three log
invariants, `[]EventsBackedBySnapshots`, `[]StatesJustified`,
`[]RecoveryFollowsAlert`, `FinishedPollAlertsEveryMatch` and
`StatesClearedOnlyAfterRecovery`, for any finite set of lines, any devices,
preferences, responses, number of polls and non-decreasing assignment of days.
What is assumed is named in `SnapshotLog` and `SnapshotWorker`.

The properties are not inductive: they speak of tables, and what a step writes
depends on what the worker read polls or awaits ago. The invariant `IInv` says
what the locals hold at each await:

- `LogInv`: rows are no later than the poll, and earlier while TfL is being
  asked (`Timely`). So a batch comes after all rows: what preceded an old row
  still does, and what precedes a new one is exactly what the poll compared it
  with (`StoreRows`), which gives `ConsecutiveSnapshotsDiffer`. Keys are unique
  because reported lines are fresh, lines left out are carried forward, and one
  row is the latest of a line (`BatchKeysUnique`). A baseline needs that a
  non-empty set of rows has a newest, which is well-foundedness of the naturals
  (`NewestExists`).
- `EventInv`: each candidate of the poll tells of a stored snapshot, so that
  whenever its event is recorded it is backed. `DetectedFacts` and `ActiveFacts`
  are the facts about `events.py`.
- `CursorInv`: the candidate at hand is one, candidates of changes carry the
  poll's time, and ongoing disruptions never raise a recovery.
- `TargetsInv`: while targets wait to be queued they include all that match, and
  a recovery's targets have been alerted *before* the recovery. That is the heart
  of `RecoveryFollowsAlert` (`MatchTargetsAlerts`): an alert of the same time
  would be backed by the same row, which cannot be both disrupted and not.
- `HandledInv`, `ActivesInv`: alerts handled have reached whom they are meant
  for, and a poll has a candidate for every disruption it found unchanged; at
  the end of the poll the two give `FinishedPollAlertsEveryMatch`.

There is one lemma per action for the alerts, and one for all the actions that
leave the log alone (`QuietLog`).

Three more theorems build on `IInv`, each with a part of its own:

- `WorkerFeedsAlerts` (`ImplementsFeed`) needs that the row an alert tells of is
  still the newest of its line when the alert goes out (`NewestActives`). A change
  carries the poll's time; a disruption that goes on was found in a row that the
  poll found unchanged, so the poll stored no row of that line, and rows of
  earlier days are earlier because days never go back (`StoreNewest`). The latest
  row before it in its day is the latest before it at all (`PreviousIsBefore`).
  Each action then maps to one abstract step or none (`ObserveStep`, `TellStep`,
  `MarkStep`, `ClearStep`, `SubscribeStep`).
- `AlertsRepeatWorseningsOnly` (`AlertedAgainOnlyAfterWorsening`): an event is a
  function of its row and its type (`EventsExact`), rows are unique, and a row is
  disrupted or not, so that of the three types only two can meet on one row.
- `RecoveriesSettle` (`FinishedPollSettlesRecoveries`): a poll has one candidate
  for each line at most (`OnePerLine`), for a line has changed, begun its day or
  gone on as it was (`StoreOnePerLine`); so once a recovery is handled, no other
  candidate of the poll marks a device for its line (`RecoveriesHandled`).

**`DeliveryWorkerProofs`** proves, for any set of deliveries and workers, any
batch size and any bound on faults, that `Spec` implies `[]TypeOK`,
`[]DuplicatesOnlyFromFaults`, `[]SentWasPushed` and `SettledIsFinal`. The
assumptions are those named in `DeliveryWorker` (deliveries are naturals, the
batch size is positive). Its `IInv` adds what a worker knows between its steps: a
worker about to mark has an outcome and is at exactly one delivery (`Decided`,
lemma `AtUnique`); what it is about to mark `sent` has been accepted
(`SentIsPushed`); what is still pending, or in its batch and not yet pushed, has
been accepted at most once per fault (`OwedPushes`, the heart of the bound: an
acceptance uses up the `1 +` until the mark, and whatever prevents the mark is a
fault); and a worker that is alone holds only pending deliveries (`SoleReader`,
which makes the statuses final).

`WorkerIsAQueue` shows that a single worker (`OneWorker`) implements `PushQueue`:
the invariant says in addition that what a worker is about to mark is justified
(`Justified`: `sent` after an acceptance, `skipped` without one), and each action
maps to one abstract step or none. Two workers do not implement it: one may mark
failed what the other has sent, as the `overlap` run allows.

**`DeviceRegistryProofs`** proves `[]TypeOK`, `[]UndisturbedCanCommit`,
`EnabledOnlyToggled`, `UnlistedFieldsKept`, `UndisturbedWritesAreExact`,
`OverlappingWritesMixByColumn` and `RegistryIsAtomic` for any devices, tokens, lines, columns, bodies and number of requests. Its `IInv` adds
`TokensUnique`, `OneOwner` and `OwnerElsewhere` (a query by token finds one
device at most, and not the one that registers) and `ReadsFresh`: as long as
nobody else has committed, a session holds the rows as they are, which is what
makes the commit of an undisturbed request succeed. `RegistryIsAtomic` has one
lemma per kind of commit (`RegisterRefines`, `WriteRefines`, `ToggleRefines`,
`DeleteRefines`); the register one needs `OneOwner`, for the abstract step takes
one device away at most. `WritesAreExact` goes through the lines one by one: what
the session read is what the device has (`LinesAreRead`), and each line is
removed, inserted, updated in the columns that differ, or left (`LineIsExact`).
`WritesMixByColumn` needs no more than `TypeOK`, for it compares a commit with the
tables as they are by then (`SettingsWritten`, `MixStep`).

**`LondonDayProofs`** proves, for any set of dates with summer time, that an
instant lies within the bounds of exactly the day it is assigned to
(`BoundsAgree`), that days never go back (`DaysNeverGoBack`), which is the
assumption of `SnapshotLog` on operational days, and that a day lasts 24 hours,
or 23 or 25 when the clocks change in it (`DayLengths`).

**`TimelineProofs`** proves `[]HistoryIsTheDay`, `[]AlertsAreOnTheTimeline`,
`[]RecoveriesAreOnTheTimeline`, `[]SummaryCountsEachDisruptionOnce` and
`TimelineOnlyGrows`. It builds on `IInv` of `SnapshotWorkerProofs`: an event tells
of a stored row (`EventRow`), an entry of the timeline is in force for each row
that shows anything (`RowInForce`), and what is stored later is later than all
rows (`LaterRows`), so that it changes no entry. These are about
`TimelineEntries`, the declarative form of the loop. `WalksListChanges` ties it to
the loop, a recursive function over the times: a function with the loop's
equations exists (`WalkExists`), and if its entries differed from the declarative
ones there would be a least time at which they do (`LeastNatural`), but the step
to it adds what the definition adds (`StepOfWalk`). So the induction is one over
a set of times and needs no theorem with an operator as its parameter.

**`TimelineCacheProofs`** proves `[]TypeOK`, `[]CacheBounded`,
`[]MissingRowsAreRecent` and `LiveEntriesLeaveOnlyWhenFull` for any keys, limits,
TTLs, days and number of requests. `before` is a strict order of the entries,
which has a first one (`FirstExists`), so that eviction makes room; an entry
lacks only rows as new as its query (`EntriesInv`), and so does a result that
waits to be stored (`RequestsInv`), on a day that has begun.

Only model-checked: `EveryDeliverySettles`, for fairness and `ENABLED` are out of
the prover's reach; the four violations, and the mutants. What the proofs do not
show is that the models are right about the code: that is the correspondence of
section 2.

## 5. Plan

Done, in this order: `LineStatuses`, `Matching`, `SnapshotLog`, `SnapshotWorker`,
`DeliveryWorker` and their proofs; `DeviceRegistry`, with the atomic API of
`SnapshotWorker` as its abstraction; `LondonDay`, which discharges the assumption
on days; `Timeline` and `ServedTimeline`; `TimelineCache`; `PushQueue`, implemented
by `DeliveryWorker`, and `AlertFeed`, implemented by `SnapshotWorker`; the proofs
of each.

What could come next: the snapshot worker and the concurrent requests of
`DeviceRegistry` in one module, to show that together they implement
`SnapshotWorker` (each half is proved, and the two share only the tables of
devices and states); and the schedules of `matching.py` by weekday, time zone and
window, in place of the set of times at which they are open.

## 6. What is not modelled

- The conversion of stored schedules by migration 0006, which is lossy on the way
  back, and the other data migrations: they run once, with the service stopped.
- The wording of notifications, the JSON of a push and the signed provider token
  (`apns.py`): no property is about them. A send is what it does to a delivery.
- Parsing of TfL's answers, HTTP, the debug log, API keys, settings, health and
  worker status routes, which read and answer: no state that a property could
  be about.
- Validation in `schemas.py` beyond the shape of the bodies it lets through, and
  the columns of devices and preferences left out above.
- The refresh of a row after a request's commit: the answer may be an error, the
  tables are the same.
- What SQLite, which the tests run on, does differently.
- Scripts and deployment.

--------------------------- MODULE DeviceRegistry ---------------------------
(***************************************************************************)
(* Concurrent requests that change the devices and their preferences:      *)
(* app/api/routes/notifications.py over app/notifications/repository.py.   *)
(*                                                                         *)
(* A request reads rows into its session, one query after the other, and   *)
(* writes what it changed at its commit.  SQLAlchemy sends only the        *)
(* columns whose value differs from the one read, and PostgreSQL (read     *)
(* committed) keeps the rows a transaction writes locked until it ends, so *)
(* the writes of one commit are one step, on the tables as they are by     *)
(* then.  A write that breaks a key, or that finds the row gone, fails the *)
(* request.  A query and the rows it loads with its result are one read.   *)
(*                                                                         *)
(* A preferences row is the map from its lines to their preferences.       *)
(***************************************************************************)
EXTENDS FiniteSets

CONSTANTS
    Device,      \* ids that app installations register under
    Subscriber,  \* bound: the devices whose apps set preferences
    Token,       \* push tokens
    Line,        \* supported lines
    Field,       \* columns of a line's preference: enabled, threshold, ...
    Value,       \* what they hold
    Request,     \* slots in which requests run side by side
    PutBody,     \* bodies of PUT: maps from lines to preferences
    PatchBody,   \* bodies of PATCH: maps from lines to some fields, or to Null
    Null,        \* a line that a PATCH removes
    None         \* no body

Preference == [Field -> Value]

LineTable == UNION {[L -> Preference] : L \in SUBSET Line}

PatchTable ==
    UNION {[L -> {Null} \cup UNION {[F -> Value] : F \in SUBSET Field}] :
               L \in SUBSET Line}

ASSUME BodyAssumption == PutBody \subseteq LineTable /\ PatchBody \subseteq PatchTable

ASSUME SubscriberAssumption == Subscriber \subseteq Device

ASSUME NullAssumption == \A F \in SUBSET Field : Null \notin [F -> Value]

VARIABLES
    devices,      \* table notification_devices
    preferences,  \* tables notification_preferences and ..._line_preferences
    pc,           \* where each request is
    session,      \* each request, and the rows it has read
    overtaken     \* whether another request has committed since it began

tables == <<devices, preferences>>
vars   == <<tables, pc, session, overtaken>>

DeviceRow == [token : Token, enabled : BOOLEAN]

\* Rows read are sets of at most one.
SessionOf(ops, bodies) ==
    [op : ops, device : Device, body : bodies,
     row : SUBSET DeviceRow, owner : SUBSET Device, lines : SUBSET LineTable]

Registering == SessionOf({"register"}, Token)
Writing     == SessionOf({"put"}, PutBody) \cup SessionOf({"patch"}, PatchBody)
Other       == SessionOf({"enable", "disable", "delete"}, {None})

NoSession == [op |-> "none", device |-> None, body |-> None,
              row |-> {}, owner |-> {}, lines |-> {}]

Empty == [d \in {} |-> d]

TypeOK ==
    /\ devices \in UNION {[D -> DeviceRow] : D \in SUBSET Device}
    /\ preferences \in UNION {[D -> LineTable] : D \in SUBSET DOMAIN devices}
    /\ pc \in [Request -> {"idle", "owner", "preferences", "commit"}]
    /\ session \in [Request -> Registering \cup Writing \cup Other \cup {NoSession}]
    /\ \A r \in Request :
        /\ pc[r] = "owner" => session[r] \in Registering
        /\ pc[r] = "preferences" => session[r] \in Writing
        /\ pc[r] = "commit" => session[r] # NoSession
    /\ overtaken \in [Request -> BOOLEAN]

Init ==
    /\ devices = Empty /\ preferences = Empty
    /\ pc = [r \in Request |-> "idle"]
    /\ session = [r \in Request |-> NoSession]
    /\ overtaken = [r \in Request |-> FALSE]

-----------------------------------------------------------------------------
\* The row of a table with this key, if any.
RowOf(table, key) == {table[k] : k \in DOMAIN table \cap {key}}

\* get_device, by which each handler begins: the device with its preferences.
\* Only a registration goes on when there is no such device.
Begin(r, op, d, body, row, lines, next) ==
    /\ pc[r] = "idle"
    /\ op # "register" => d \in DOMAIN devices
    /\ session' = [session EXCEPT ![r] =
            [op |-> op, device |-> d, body |-> body,
             row |-> row, owner |-> {}, lines |-> lines]]
    /\ pc' = [pc EXCEPT ![r] = next]
    /\ overtaken' = [overtaken EXCEPT ![r] = FALSE]
    /\ UNCHANGED tables

BeginRegister(r, d) ==
    \E t \in Token :
        Begin(r, "register", d, t, RowOf(devices, d), {}, "owner")

BeginPut(r, d) ==
    d \in Subscriber /\ \E b \in PutBody :
        Begin(r, "put", d, b, {}, RowOf(preferences, d), "preferences")

BeginPatch(r, d) ==
    d \in Subscriber /\ \E b \in PatchBody :
        Begin(r, "patch", d, b, {}, RowOf(preferences, d), "preferences")

BeginToggle(r, d) ==
    \E op \in {"enable", "disable"} :
        Begin(r, op, d, None, RowOf(devices, d), {}, "commit")

BeginDelete(r, d) == Begin(r, "delete", d, None, {}, {}, "commit")

\* The device, if any, that holds the token now.
ReadOwner(r) ==
    /\ pc[r] = "owner"
    /\ session' = [session EXCEPT ![r].owner =
            {d \in DOMAIN devices \ {session[r].device} :
                devices[d].token = session[r].body}]
    /\ pc' = [pc EXCEPT ![r] = "commit"]
    /\ UNCHANGED <<tables, overtaken>>

\* get_preferences: a row the session holds already is not read anew, unless
\* it is gone by now.
ReadPreferences(r) ==
    LET s == session[r]
    IN  /\ pc[r] = "preferences"
        /\ session' = [session EXCEPT ![r].lines =
                IF s.lines = {} \/ s.device \notin DOMAIN preferences
                THEN RowOf(preferences, s.device) ELSE @]
        /\ pc' = [pc EXCEPT ![r] = "commit"]
        /\ UNCHANGED <<tables, overtaken>>

\* The session ends without a commit.
Leave(r) ==
    /\ pc' = [pc EXCEPT ![r] = "idle"]
    /\ session' = [session EXCEPT ![r] = NoSession]
    /\ overtaken' = [overtaken EXCEPT ![r] = FALSE]
    /\ UNCHANGED tables

\* An error of the database, a process that stops.
Abandon(r) == pc[r] # "idle" /\ Leave(r)

\* The session of r ends with its commit.
Committed(r) ==
    /\ pc' = [pc EXCEPT ![r] = "idle"]
    /\ session' = [session EXCEPT ![r] = NoSession]
    /\ overtaken' = [q \in Request |-> q # r /\ pc[q] # "idle"]

-----------------------------------------------------------------------------
\* PUT /{device_id}: upsert_device.
\* The columns of the row read that differ are written.
TakesToken(s) == \A row \in s.row : row.token # s.body

\* Mutant of Survivors: the unit of work would write the device before it
\* deletes the other one.
SurvivorsBeforeFlush(s) == DOMAIN devices

\* The delete of the other device is flushed first, whatever its token is now.
Survivors(s) == DOMAIN devices \ s.owner

RegisterSucceeds(s) ==
    /\ s.device \in DOMAIN devices <=> s.row # {}
    /\ TakesToken(s) =>
        \A d \in Survivors(s) \ {s.device} : devices[d].token # s.body

\* Mutant of Registered: the row is written as read.
RegisteredAsRead(s) ==
    IF s.row = {} THEN [token |-> s.body, enabled |-> TRUE]
    ELSE [token |-> s.body, enabled |-> \E row \in s.row : row.enabled]

Registered(s) ==
    IF s.row = {} THEN [token |-> s.body, enabled |-> TRUE]
    ELSE [devices[s.device] EXCEPT !.token = IF TakesToken(s) THEN s.body ELSE @]

\* Mutant of KeptPreferences: no cascade.
KeptWithoutCascade(kept) == preferences

\* A deleted device takes its preferences with it.
KeptPreferences(kept) ==
    [d \in DOMAIN preferences \cap kept |-> preferences[d]]

\* Mutant of PreferencesLeft: the preferences move with the token.
PreferencesMoved(s) ==
    LET moved == UNION {RowOf(preferences, d) : d \in s.owner}
    IN  [d \in (DOMAIN preferences \ s.owner) \cup {e \in {s.device} : moved # {}} |->
            IF d = s.device /\ moved # {} THEN CHOOSE p \in moved : TRUE
                                         ELSE preferences[d]]

PreferencesLeft(s) == KeptPreferences(DOMAIN devices \ s.owner)

CommitRegister(r) ==
    LET s == session[r]
    IN  /\ pc[r] = "commit" /\ s.op = "register"
        /\ RegisterSucceeds(s)
        /\ devices' = [d \in (DOMAIN devices \ s.owner) \cup {s.device} |->
                            IF d = s.device THEN Registered(s) ELSE devices[d]]
        /\ preferences' = PreferencesLeft(s)
        /\ Committed(r)

-----------------------------------------------------------------------------
\* PUT and PATCH of preferences: upsert_preferences and patch_preferences.
ReadLines(s) == UNION {DOMAIN table : table \in s.lines}

WasField(s, l, f) == CHOOSE v \in {table[l][f] : table \in s.lines} : TRUE

Named(s) == {l \in DOMAIN s.body : s.body[l] # Null}

\* Mutant of Removed: a PUT only adds.
RemovedByPatchOnly(s) ==
    IF s.op = "put" THEN {} ELSE ReadLines(s) \cap (DOMAIN s.body \ Named(s))

\* What the request removes: PUT all it does not name, PATCH what it nulls.
Removed(s) ==
    IF s.op = "put" THEN ReadLines(s) \ DOMAIN s.body
                    ELSE ReadLines(s) \cap (DOMAIN s.body \ Named(s))

Inserted(s) == Named(s) \ ReadLines(s)

\* The columns of a line read that the request writes: those that differ.
Changed(s, l) == {f \in DOMAIN s.body[l] : s.body[l][f] # WasField(s, l, f)}

Updated(s) == {l \in Named(s) \cap ReadLines(s) : Changed(s, l) # {}}

\* A new line must come with every field.
Complete(s) == \A l \in Inserted(s) : DOMAIN s.body[l] = Field

\* The lines of the device as they are by now.
LinesNow(s) == UNION {DOMAIN table : table \in RowOf(preferences, s.device)}

\* An UPDATE that finds its row gone fails, but rows that are written in the
\* same columns go in one batch, whose count asyncpg does not report.
UpdateFails(s) ==
    \E l \in Updated(s) \ LinesNow(s) :
        \A k \in Updated(s) \ {l} : Changed(s, k) # Changed(s, l)

WriteSucceeds(s) ==
    /\ s.lines = {} => s.device \in DOMAIN devices \ DOMAIN preferences
    /\ s.lines # {} => s.device \in DOMAIN preferences
    /\ Inserted(s) \cap LinesNow(s) = {}
    /\ ~ UpdateFails(s)

\* Mutant of LineWritten: every column of a line read is written back.
LineWrittenAsRead(s, l) ==
    IF l \in Inserted(s) THEN s.body[l]
    ELSE [f \in Field |->
            IF l \in Named(s) /\ f \in DOMAIN s.body[l] THEN s.body[l][f]
            ELSE IF l \in Updated(s) THEN WasField(s, l, f)
            ELSE preferences[s.device][l][f]]

\* A line's row after the write; of a row that is updated, the columns that
\* do not differ from what was read stay as they are by now.
LineWritten(s, l) ==
    IF l \in Inserted(s) THEN s.body[l]
    ELSE [f \in Field |->
            IF l \in Updated(s) /\ f \in Changed(s, l)
            THEN s.body[l][f] ELSE preferences[s.device][l][f]]

Written(s) ==
    [l \in (LinesNow(s) \ Removed(s)) \cup Inserted(s) |-> LineWritten(s, l)]

CommitWrite(r) ==
    LET s == session[r]
    IN  /\ pc[r] = "commit" /\ s.op \in {"put", "patch"}
        /\ Complete(s)
        /\ WriteSucceeds(s)
        /\ preferences' = [d \in DOMAIN preferences \cup {s.device} |->
                                IF d = s.device THEN Written(s) ELSE preferences[d]]
        /\ UNCHANGED devices
        /\ Committed(r)

\* A PATCH that leaves out fields of a line the session has not read: 422.
RejectIncomplete(r) ==
    /\ pc[r] = "commit" /\ session[r].op = "patch"
    /\ ~ Complete(session[r])
    /\ Leave(r)

-----------------------------------------------------------------------------
\* POST enable and disable.
CommitToggle(r) ==
    LET s    == session[r]
        flag == s.op = "enable"
    IN  /\ pc[r] = "commit" /\ s.op \in {"enable", "disable"}
        /\ s.device \in DOMAIN devices
        /\ devices' = [devices EXCEPT ![s.device].enabled =
                IF \E row \in s.row : row.enabled # flag THEN flag ELSE @]
        /\ UNCHANGED preferences
        /\ Committed(r)

\* DELETE of a row that is gone by now does nothing.
CommitDelete(r) ==
    LET s == session[r]
    IN  /\ pc[r] = "commit" /\ s.op = "delete"
        /\ devices' = [d \in DOMAIN devices \ {s.device} |-> devices[d]]
        /\ preferences' = KeptPreferences(DOMAIN devices \ {s.device})
        /\ Committed(r)

\* The commit of session s goes through, whatever the batches of its updates.
CanCommit(s) ==
    CASE s.op = "register"            -> RegisterSucceeds(s)
      [] s.op \in {"put", "patch"}    ->
            Complete(s) => WriteSucceeds(s) /\ Updated(s) \subseteq LinesNow(s)
      [] s.op \in {"enable", "disable"} -> s.device \in DOMAIN devices
      [] s.op = "delete"              -> TRUE

\* IntegrityError or StaleDataError: the commit is rolled back.
Conflict(r) ==
    /\ pc[r] = "commit"
    /\ ~ CanCommit(session[r])
    /\ Leave(r)

Next ==
    \E r \in Request :
        \/ \E d \in Device :
            \/ BeginRegister(r, d)
            \/ BeginPut(r, d)
            \/ BeginPatch(r, d)
            \/ BeginToggle(r, d)
            \/ BeginDelete(r, d)
        \/ ReadOwner(r)
        \/ ReadPreferences(r)
        \/ CommitRegister(r)
        \/ CommitWrite(r)
        \/ CommitToggle(r)
        \/ CommitDelete(r)
        \/ RejectIncomplete(r)
        \/ Conflict(r)
        \/ Abandon(r)

Spec == Init /\ [][Next]_vars

-----------------------------------------------------------------------------
\* A request fails on a key or a missing row only if another one has
\* committed since it began: the reads, the explicit flush and the order of
\* the writes of upsert_device never collide by themselves.
UndisturbedCanCommit ==
    \A r \in Request :
        pc[r] = "commit" /\ ~overtaken[r] => CanCommit(session[r])

\* A device is enabled or disabled by the two requests for it only, never by
\* a registration or by preferences that were read before.
EnabledOnlyToggled ==
    [][\A d \in DOMAIN devices \cap DOMAIN devices' :
        devices'[d].enabled # devices[d].enabled =>
            \E r \in Request :
                /\ pc[r] = "commit" /\ pc'[r] = "idle"
                /\ session[r].device = d
                /\ session[r].op \in {"enable", "disable"}]_vars

\* What a line of a device holds in a column, as a set of at most one.
Setting(table, d, l, f) ==
    {table[e][l][f] : e \in {e \in DOMAIN table \cap {d} : l \in DOMAIN table[e]}}

Mentions(body, l, f) == l \in DOMAIN body /\ (body[l] # Null => f \in DOMAIN body[l])

\* "Only listed lines and fields change": a PATCH leaves every other field as
\* it is when it commits, whoever wrote it since the PATCH read it.
UnlistedFieldsKept ==
    [][\A r \in Request :
        CommitWrite(r) /\ session[r].op = "patch" =>
            \A d \in Device, l \in Line, f \in Field :
                \/ d = session[r].device /\ Mentions(session[r].body, l, f)
                \/ Setting(preferences', d, l, f) = Setting(preferences, d, l, f)]_vars

\* The lines a device has now.
LinesOf(table, d) == IF d \in DOMAIN table THEN table[d] ELSE Empty

\* JSON Merge Patch (RFC 7396) of a table of lines.
Merged(table, body) ==
    LET named == {l \in DOMAIN body : body[l] # Null}
    IN  [l \in (DOMAIN table \ DOMAIN body) \cup named |->
            [f \in Field |-> IF l \in named /\ f \in DOMAIN body[l]
                             THEN body[l][f] ELSE table[l][f]]]

\* A write that none has overtaken leaves just the preferences it was sent for
\* by PUT, or the merge of those there are with what it was sent for by PATCH,
\* however the removals, inserts and updates of differing columns it is made of
\* come together; and no other device's.
UndisturbedWritesAreExact ==
    [][\A r \in Request :
        CommitWrite(r) /\ ~overtaken[r] =>
            LET s == session[r]
            IN  \A d \in Device :
                    LinesOf(preferences', d) =
                        IF d # s.device THEN LinesOf(preferences, d)
                        ELSE IF s.op = "put" THEN s.body
                        ELSE Merged(LinesOf(preferences, d), s.body)]_vars

\* What the session has read of a column.
Was(s, l, f) == {WasField(s, l, f) : k \in ReadLines(s) \cap {l}}

\* A PUT is about every column, for it removes the lines it does not name.
About(s, l, f) == s.op = "put" \/ Mentions(s.body, l, f)

\* What the request asks of a column, given what it has read of it.
Asked(s, l, f) ==
    IF ~ About(s, l, f) THEN Was(s, l, f)
    ELSE {s.body[l][f] : k \in Named(s) \cap {l}}

\* However writes overlap, each column of the device ends up as the request
\* asks, or as others have left it since the request read it, and a PATCH never
\* takes back what it is not about.  Two PUTs that overlap leave a mixture of
\* these two kinds of columns, not of anything older.
OverlappingWritesMixByColumn ==
    [][\A r \in Request :
        CommitWrite(r) =>
            LET s == session[r]
            IN  \A l \in Line, f \in Field :
                    LET now == Setting(preferences, s.device, l, f)
                        new == Setting(preferences', s.device, l, f)
                        newer == now # Was(s, l, f)
                    IN  \/ new = Asked(s, l, f) /\ (newer => About(s, l, f))
                        \/ new = now /\ newer]_vars

\* The tables as the rest of the service sees them.
DeviceTable ==
    [d \in DOMAIN devices |->
        [enabled |-> devices[d].enabled,
         lines   |-> IF d \in DOMAIN preferences THEN preferences[d] ELSE Empty]]

\* Only the API of SnapshotWorker is used: the worker's tables and locals are
\* those before the first poll.
S == INSTANCE SnapshotWorker WITH
        devices <- DeviceTable, LinePreferences <- LineTable,
        SupportedLine <- {}, Horizon <- 0, OperationalDay <- Empty,
        Response <- {}, Faults <- FALSE,
        snapshots <- {}, alerted <- {}, events <- {}, deliveries <- {},
        lastRun <- [status |-> "none", count |-> 0], pc <- "idle", observed <- 0,
        reported <- {}, stored <- 0, changes <- {}, actives <- {}, seen <- {},
        polled <- Empty, current <- {}, targets <- {}, existing <- {}

\* Requests that read and commit side by side change the tables only as the
\* atomic operations do that SnapshotWorker takes the API for: each commit is
\* one of them, and nothing between is seen.
RegistryIsAtomic == S!Init /\ [][S!Api]_(S!vars)

\* "Reassigns push token to latest device registration": a registration puts
\* away another device only for the token it registers.
OnlyTokenOwnerReplaced ==
    [][\A r \in Request :
        CommitRegister(r) =>
            \A d \in DOMAIN devices \ DOMAIN devices' :
                devices[d].token = session[r].body]_vars
=============================================================================

---------------------------- MODULE TimelineCache ----------------------------
(***************************************************************************)
(* The caches of timelines and of disruption summaries in an API process   *)
(* (app/line_status/cache.py), between requests that fill them, at awaits  *)
(* of their own (app/line_status/service.py), and the worker, which adds   *)
(* rows to the days they cache.                                            *)
(*                                                                         *)
(* Both caches have the same code: the keys are lines and dates in the     *)
(* one, dates in the other.  A timeline is the set of the times at which   *)
(* its rows were committed.  One clock, counting from 0, stands for the    *)
(* monotonic clock of the caches and the clock on the wall.                *)
(***************************************************************************)
EXTENDS Integers, FiniteSets

CONSTANTS
    Key,         \* what is cached
    DateOf,      \* the operational date of each key
    MaxEntries,  \* max_entries
    TodayTtl,    \* history_cache_today_ttl_seconds
    PastTtl,     \* history_cache_past_ttl_seconds
    CurrentDay,  \* current_operational_day() at each time
    Lag,         \* the longest a poll takes to commit its rows
    Request,     \* bound: the requests under way at once
    Horizon,     \* bound: the last time
    MaxRows      \* bound: the rows of a key

Time == 0 .. Horizon

ASSUME KeyAssumption == DateOf \in [Key -> Int]

ASSUME LimitAssumption ==
    /\ MaxEntries \in Nat \ {0}
    /\ {TodayTtl, PastTtl, Lag, Horizon, MaxRows} \subseteq Nat

ASSUME CurrentDayAssumption ==
    /\ CurrentDay \in [Time -> Int]
    /\ \A s, t \in Time : s <= t => CurrentDay[s] <= CurrentDay[t]

VARIABLES
    now,       \* the time
    rows,      \* the rows the database has for each key
    entries,   \* _entries: a table from the keys cached
    before,    \* their order in the dict: <<k, l>> if k was inserted first
    requests   \* those that missed the cache and are on their way

vars == <<now, rows, entries, before, requests>>

Entry == [rows : SUBSET Time, readAt : Time, storedAt : Time, expires : Nat]

\* A request that waits for its query, and one that has its result.
Waiting == [state : {"query"}, key : Key]
Answered == [state : {"store"}, key : Key, rows : SUBSET Time, readAt : Time]

TypeOK ==
    /\ now \in Time
    /\ rows \in [Key -> SUBSET Time]
    /\ DOMAIN entries \subseteq Key
    /\ entries \in [DOMAIN entries -> Entry]
    /\ before \subseteq (DOMAIN entries) \X (DOMAIN entries)
    /\ DOMAIN requests \subseteq Request
    /\ requests \in [DOMAIN requests -> Waiting \cup Answered]

Nothing == [k \in {} |-> k]

Init ==
    /\ now = 0
    /\ rows = [k \in Key |-> {}]
    /\ entries = Nothing /\ before = {}
    /\ requests = Nothing

-----------------------------------------------------------------------------
Keep(table, keys) == [k \in DOMAIN table \cap keys |-> table[k]]

Expired == {k \in DOMAIN entries : entries[k].expires <= now}

\* What get returns; a request that finds its key here changes nothing.
Live == DOMAIN entries \ Expired

\* The order of some of the keys.
Among(keys) == {p \in before : p[1] \in keys /\ p[2] \in keys}

\* Mutant of Left: a key that goes leaves its place in the order.
LeftInPlace(keys) ==
    /\ entries' = Keep(entries, keys)
    /\ UNCHANGED before

\* The entries, and their order, once only some of the keys are left.
Left(keys) ==
    /\ entries' = Keep(entries, keys)
    /\ before' = Among(keys)

\* Mutant of MayRequest: dates in the future are looked up.
MayRequestAnyDate(key) == TRUE

\* _requested_operational_date.
MayRequest(key) == DateOf[key] <= CurrentDay[now]

\* A request that misses the cache deletes an expired entry of its key.
Miss(request, key) ==
    /\ request \notin DOMAIN requests
    /\ MayRequest(key)
    /\ key \notin Live
    /\ Left(DOMAIN entries \ {key})
    /\ requests' = [q \in DOMAIN requests \cup {request} |->
                        IF q = request THEN [state |-> "query", key |-> key]
                                       ELSE requests[q]]
    /\ UNCHANGED <<now, rows>>

Query(request) ==
    /\ request \in DOMAIN requests
    /\ requests[request].state = "query"
    /\ requests' = [requests EXCEPT ![request] =
                        [state |-> "store", key |-> @.key,
                         rows |-> rows[@.key], readAt |-> now]]
    /\ UNCHANGED <<now, rows, entries, before>>

\* _daily_cache_ttl_seconds.
Ttl(date) == IF date = CurrentDay[now] THEN TodayTtl ELSE PastTtl

\* Mutant of Kept: the cache makes room before it looks for expired entries.
KeptWithExpired(key) ==
    IF key \notin DOMAIN entries /\ Cardinality(DOMAIN entries) >= MaxEntries
    THEN {k \in DOMAIN entries : \E j \in DOMAIN entries : <<j, k>> \in before}
    ELSE Live

\* Mutant of Kept: the cache never makes room.
KeptAll(key) == Live

\* The keys set() keeps: expired ones go, then, for a new key in a full cache,
\* the first of the dict.
Kept(key) ==
    IF key \notin Live /\ Cardinality(Live) >= MaxEntries
    THEN {k \in Live : \E j \in Live : <<j, k>> \in before}
    ELSE Live

NewEntry(result) ==
    [rows |-> result.rows, readAt |-> result.readAt, storedAt |-> now,
     expires |-> now + Ttl(DateOf[result.key])]

\* set(); assigning to a key of the dict leaves it in its place.
Set(result) ==
    LET kept == Kept(result.key)
    IN  /\ entries' = [k \in kept \cup {result.key} |->
                            IF k = result.key THEN NewEntry(result)
                                              ELSE entries[k]]
        /\ before' = Among(kept) \cup (IF result.key \in kept
                                      THEN {} ELSE kept \X {result.key})

Store(request) ==
    /\ request \in DOMAIN requests
    /\ requests[request].state = "store"
    /\ IF Ttl(DateOf[requests[request].key]) > 0
       THEN Set(requests[request])
       ELSE UNCHANGED <<entries, before>>
    /\ requests' = Keep(requests, DOMAIN requests \ {request})
    /\ UNCHANGED <<now, rows>>

\* The query raises, or the client goes away.
RequestFails(request) ==
    /\ request \in DOMAIN requests
    /\ requests[request].state = "query"
    /\ requests' = Keep(requests, DOMAIN requests \ {request})
    /\ UNCHANGED <<now, rows, entries, before>>

RestartApi ==
    /\ entries' = Nothing /\ before' = {}
    /\ requests' = Nothing
    /\ UNCHANGED <<now, rows>>

\* The worker commits a row it observed up to Lag ago.
CommitRow(key) ==
    /\ \E observed \in Time :
        /\ observed <= now /\ now <= observed + Lag
        /\ CurrentDay[observed] = DateOf[key]
    /\ Cardinality(rows[key]) < MaxRows
    /\ rows' = [rows EXCEPT ![key] = @ \cup {now}]
    /\ UNCHANGED <<now, entries, before, requests>>

Tick ==
    /\ now < Horizon
    /\ now' = now + 1
    /\ UNCHANGED <<rows, entries, before, requests>>

Next ==
    \/ \E request \in Request :
        \/ \E key \in Key : Miss(request, key)
        \/ Query(request)
        \/ Store(request)
        \/ RequestFails(request)
    \/ RestartApi
    \/ \E key \in Key : CommitRow(key)
    \/ Tick

Spec == Init /\ [][Next]_vars

-----------------------------------------------------------------------------
\* However requests overlap, the dict never holds more than max_entries.
CacheBounded == Cardinality(DOMAIN entries) <= MaxEntries

LongestTtl == IF TodayTtl < PastTtl THEN PastTtl ELSE TodayTtl

\* What is served lacks a row for no longer than the TTL, that of today while
\* the day lasts, and the time its request took to store it: whether requests
\* store in the order they read or not, and across the end of the day.
MissingRowsAreRecent ==
    \A k \in Live : \A r \in rows[k] \ entries[k].rows :
        now < r + (entries[k].storedAt - entries[k].readAt)
                + (IF DateOf[k] = CurrentDay[now] THEN TodayTtl ELSE LongestTtl)

\* An entry that is still good is lost only when the cache is full of such
\* entries, the one inserted first, or with the process.
LiveEntriesLeaveOnlyWhenFull ==
    [][\A k \in Live \ DOMAIN entries' :
        \/ DOMAIN entries' = {}
        \/ /\ Cardinality(Live) = MaxEntries
           /\ \A j \in Live \ {k} : <<k, j>> \in before]_vars
=============================================================================

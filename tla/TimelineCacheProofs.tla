------------------------- MODULE TimelineCacheProofs -------------------------
(***************************************************************************)
(* The caches stay bounded, and what they serve is recent, for any keys,   *)
(* limits, TTLs, days and number of overlapping requests.                  *)
(***************************************************************************)
EXTENDS TimelineCache, FiniteSetTheorems, WellFoundedInduction, TLAPS

\* The dict is ordered by insertion.
StrictOrder(S, R) ==
    /\ \A k \in S : <<k, k>> \notin R
    /\ \A j, k \in S : j # k => <<j, k>> \in R \/ <<k, j>> \in R
    /\ \A i, j, k \in S : <<i, j>> \in R /\ <<j, k>> \in R => <<i, k>> \in R

\* An entry lacks only rows that are as new as its query, and its TTL is the
\* one of the day it was stored on, its own date or a later one.
EntriesInv ==
    \A k \in DOMAIN entries :
        /\ entries[k].readAt <= entries[k].storedAt
        /\ entries[k].storedAt <= now
        /\ DateOf[k] <= CurrentDay[entries[k].storedAt]
        /\ entries[k].expires = entries[k].storedAt +
                (IF DateOf[k] = CurrentDay[entries[k].storedAt] THEN TodayTtl
                                                                ELSE PastTtl)
        /\ \A r \in rows[k] \ entries[k].rows : entries[k].readAt <= r

RequestsInv ==
    \A q \in DOMAIN requests :
        /\ DateOf[requests[q].key] <= CurrentDay[now]
        /\ requests[q].state = "store" =>
            /\ requests[q].readAt <= now
            /\ \A r \in rows[requests[q].key] \ requests[q].rows :
                    requests[q].readAt <= r

IInv ==
    /\ TypeOK
    /\ IsFiniteSet(DOMAIN entries)
    /\ CacheBounded
    /\ StrictOrder(DOMAIN entries, before)
    /\ EntriesInv
    /\ RequestsInv

-----------------------------------------------------------------------------
LEMMA LeastNatural ==
    ASSUME NEW S \in SUBSET Nat, S # {}
    PROVE  \E m \in S : \A n \in S : m <= n
<1> DEFINE R == OpToRel(<, Nat)
<1>1. \A n, m \in Nat : n < m => <<n, m>> \in R
  BY DEF OpToRel
<1>2. \E m \in S : \A n \in S : ~ (<<n, m>> \in R)
  BY WFMin, NatLessThanWellFounded, Zenon
<1>3. PICK m \in S : \A n \in S : ~ (<<n, m>> \in R)
  BY <1>2
<1> HIDE DEF R
<1>4. \A n \in S : ~ (n < m)
  BY <1>1, <1>3
<1>5. QED
  BY <1>4

\* A finite set has a first element in any strict order: one with the fewest
\* elements before it.
LEMMA FirstExists ==
    ASSUME NEW S, IsFiniteSet(S), S # {}, NEW R, StrictOrder(S, R)
    PROVE  \E k \in S : \A j \in S : <<j, k>> \notin R
<1> DEFINE Before(k) == {j \in S : <<j, k>> \in R}
           Ranks == {Cardinality(Before(k)) : k \in S}
<1>1. \A k : IsFiniteSet(Before(k)) /\ Cardinality(Before(k)) \in Nat
  BY FS_Subset, FS_CardinalityType
<1>2. Ranks \in SUBSET Nat /\ Ranks # {}
  BY <1>1
<1>3. PICK m \in Ranks : \A n \in Ranks : m <= n
  BY <1>2, LeastNatural
<1>4. PICK k \in S : m = Cardinality(Before(k))
  BY <1>3
<1>5. ASSUME NEW j \in S, <<j, k>> \in R
      PROVE  FALSE
  <2>1. Before(j) \subseteq Before(k) /\ j \in Before(k) /\ j \notin Before(j)
    BY <1>5 DEF StrictOrder
  <2>2. /\ Cardinality(Before(j)) <= Cardinality(Before(k))
        /\ Cardinality(Before(j)) # Cardinality(Before(k))
    <3> HIDE DEF Before
    <3>1. Before(j) \in SUBSET Before(k) /\ Before(j) # Before(k)
      BY <2>1
    <3>2. QED
      BY <1>1, <3>1, FS_Subset, Zenon
  <2>3. Cardinality(Before(k)) <= Cardinality(Before(j))
    BY <1>3, <1>4
  <2> HIDE DEF Before
  <2>4. Cardinality(Before(j)) \in Nat /\ Cardinality(Before(k)) \in Nat
    BY <1>1
  <2>5. QED
    BY <2>2, <2>3, <2>4
<1>6. QED
  BY <1>5

LEMMA KeepFields ==
    ASSUME NEW table, NEW keys
    PROVE  /\ DOMAIN Keep(table, keys) = DOMAIN table \cap keys
           /\ \A k \in DOMAIN table \cap keys : Keep(table, keys)[k] = table[k]
BY DEF Keep

\* A request that is done leaves the others as they are.
LEMMA RequestLeaves ==
    ASSUME NEW request, requests' = Keep(requests, DOMAIN requests \ {request})
    PROVE  /\ DOMAIN requests' = DOMAIN requests \ {request}
           /\ \A q \in DOMAIN requests' : requests'[q] = requests[q]
<1>1. requests' = [q \in DOMAIN requests \cap (DOMAIN requests \ {request}) |->
                        requests[q]]
  BY DEF Keep
<1>2. QED
  BY <1>1

\* A part of an ordered dict is ordered.
LEMMA OrderLeft ==
    ASSUME TypeOK, StrictOrder(DOMAIN entries, before),
           NEW keys, NEW T, T = DOMAIN entries \cap keys
    PROVE  /\ Among(keys) = Among(T)
           /\ Among(keys) \subseteq T \X T
           /\ StrictOrder(T, Among(keys))
<1>1. \A p \in before : p[1] \in DOMAIN entries /\ p[2] \in DOMAIN entries
                        /\ p = <<p[1], p[2]>>
  BY DEF TypeOK
<1>2. Among(keys) = Among(T) /\ Among(keys) \subseteq T \X T
  BY <1>1 DEF Among
<1>3. \A j, k \in T : <<j, k>> \in Among(keys) <=> <<j, k>> \in before
  BY DEF Among
<1>4. QED
  BY <1>2, <1>3 DEF StrictOrder

-----------------------------------------------------------------------------
\* The entries that are still good are finitely many, and fit.
LEMMA LiveFits ==
    ASSUME IInv
    PROVE  /\ Live \subseteq DOMAIN entries
           /\ IsFiniteSet(Live) /\ Cardinality(Live) \in Nat
           /\ Cardinality(Live) <= MaxEntries
<1>1. Live \subseteq DOMAIN entries
  BY DEF Live
<1>2. IsFiniteSet(Live) /\ Cardinality(Live) <= Cardinality(DOMAIN entries)
  BY <1>1, FS_Subset DEF IInv
<1>3. Cardinality(Live) \in Nat /\ Cardinality(DOMAIN entries) \in Nat
  BY <1>2, FS_CardinalityType DEF IInv
<1>4. QED
  BY <1>1, <1>2, <1>3, LimitAssumption DEF IInv, CacheBounded

\* What set() keeps has room for the new entry.
LEMMA KeptFits ==
    ASSUME IInv, NEW key
    PROVE  /\ Kept(key) \subseteq Live
           /\ IsFiniteSet(Kept(key) \cup {key})
           /\ Cardinality(Kept(key) \cup {key}) <= MaxEntries
<1>1. /\ Live \subseteq DOMAIN entries
      /\ IsFiniteSet(Live) /\ Cardinality(Live) \in Nat
      /\ Cardinality(Live) <= MaxEntries
  BY LiveFits
<1>2. Kept(key) \subseteq Live
  BY DEF Kept
<1>3. IsFiniteSet(Kept(key)) /\ Cardinality(Kept(key)) \in Nat
  BY <1>1, <1>2, FS_Subset, FS_CardinalityType
<1>4. /\ IsFiniteSet(Kept(key) \cup {key})
      /\ Cardinality(Kept(key) \cup {key}) \in Nat
      /\ Cardinality(Kept(key) \cup {key}) <= Cardinality(Kept(key)) + 1
      /\ key \in Kept(key) => Kept(key) \cup {key} = Kept(key)
  <2>1. /\ IsFiniteSet(Kept(key) \cup {key})
        /\ Cardinality(Kept(key) \cup {key}) =
                IF key \in Kept(key) THEN Cardinality(Kept(key))
                                     ELSE Cardinality(Kept(key)) + 1
    BY <1>3, FS_AddElement
  <2>2. QED
    BY <1>3, <2>1
<1>5. CASE key \in Live \/ ~ Cardinality(Live) >= MaxEntries
  <2>1. Kept(key) = Live
    BY <1>5 DEF Kept
  <2>2. QED
    <3>1. CASE key \in Live
      BY <1>1, <1>2, <1>4, <2>1, <3>1
    <3>2. CASE ~ Cardinality(Live) >= MaxEntries
      BY <1>1, <1>2, <1>4, <2>1, <3>2, LimitAssumption
    <3>3. QED
      BY <1>5, <3>1, <3>2
<1>6. CASE key \notin Live /\ Cardinality(Live) >= MaxEntries
  <2>1. Live # {}
    <3>1. Cardinality(Live) # 0
      BY <1>1, <1>6, LimitAssumption
    <3>2. QED
      BY <3>1, FS_EmptySet
  <2>2. StrictOrder(Live, before)
    BY <1>1 DEF IInv, StrictOrder
  <2>3. PICK k \in Live : \A j \in Live : <<j, k>> \notin before
    BY <1>1, <2>1, <2>2, FirstExists
  <2>4. k \notin Kept(key)
    BY <1>6, <2>3 DEF Kept
  <2>5. /\ Cardinality(Kept(key)) <= Cardinality(Live)
        /\ Cardinality(Kept(key)) # Cardinality(Live)
    BY <1>1, <1>2, <2>4, FS_Subset
  <2>6. QED
    BY <1>1, <1>2, <1>3, <1>4, <2>5, LimitAssumption
<1>7. QED
  BY <1>5, <1>6

LEMMA InitHolds == Init => IInv
<1> SUFFICES ASSUME Init PROVE IInv
  OBVIOUS
<1>1. DOMAIN entries = {} /\ DOMAIN requests = {}
  BY DEF Init, Nothing
<1>2. TypeOK
  BY <1>1, LimitAssumption DEF Init, TypeOK, Time, Nothing
<1>3. IsFiniteSet(DOMAIN entries) /\ CacheBounded
  BY <1>1, FS_EmptySet, LimitAssumption DEF CacheBounded
<1>4. StrictOrder(DOMAIN entries, before) /\ EntriesInv /\ RequestsInv
  BY <1>1 DEF StrictOrder, EntriesInv, RequestsInv
<1>5. QED
  BY <1>2, <1>3, <1>4 DEF IInv

-----------------------------------------------------------------------------
LEMMA EntryTypes ==
    ASSUME TypeOK, NEW k \in DOMAIN entries
    PROVE  /\ k \in Key
           /\ entries[k] \in Entry
           /\ entries[k].readAt \in Nat /\ entries[k].storedAt \in Time
           /\ entries[k].storedAt \in Nat /\ entries[k].expires \in Nat
BY DEF TypeOK, Entry, Time

\* A request on its way has a key and, with its result, what it read.
LEMMA RequestTypes ==
    ASSUME TypeOK, NEW q \in DOMAIN requests
    PROVE  /\ requests[q].key \in Key
           /\ requests[q].state \in {"query", "store"}
           /\ requests[q].state = "store" =>
                requests[q].rows \in SUBSET Time /\ requests[q].readAt \in Time
BY DEF TypeOK, Waiting, Answered

LEMMA TimeIsNatural == Time \subseteq Nat
BY DEF Time

\* What get deletes leaves the rest as it is.
LEMMA LeftEntries ==
    ASSUME IInv, NEW keys, Left(keys), UNCHANGED <<now, rows>>
    PROVE  /\ DOMAIN entries' \subseteq Key
           /\ entries' \in [DOMAIN entries' -> Entry]
           /\ before' \subseteq (DOMAIN entries') \X (DOMAIN entries')
           /\ IsFiniteSet(DOMAIN entries)'
           /\ CacheBounded'
           /\ StrictOrder(DOMAIN entries, before)'
           /\ EntriesInv'
<1> USE DEF IInv
<1>1. /\ DOMAIN entries' = DOMAIN entries \cap keys
      /\ \A k \in DOMAIN entries' : entries'[k] = entries[k]
      /\ entries' = Keep(entries, keys)
  BY KeepFields DEF Left
<1>2. DOMAIN entries' \subseteq Key /\ entries' \in [DOMAIN entries' -> Entry]
  BY <1>1 DEF TypeOK, Keep
<1>3. /\ before' \subseteq (DOMAIN entries') \X (DOMAIN entries')
      /\ StrictOrder(DOMAIN entries', before')
  BY <1>1, OrderLeft DEF Left
<1>4. IsFiniteSet(DOMAIN entries') /\ Cardinality(DOMAIN entries') <= MaxEntries
  <2>1. DOMAIN entries' \in SUBSET DOMAIN entries
    BY <1>1
  <2>2. /\ IsFiniteSet(DOMAIN entries')
        /\ Cardinality(DOMAIN entries') <= Cardinality(DOMAIN entries)
    BY <2>1, FS_Subset
  <2>3. Cardinality(DOMAIN entries') \in Nat /\ Cardinality(DOMAIN entries) \in Nat
    BY <2>2, FS_CardinalityType
  <2>4. QED
    BY <2>2, <2>3, LimitAssumption DEF CacheBounded
<1>5. EntriesInv'
  BY <1>1 DEF EntriesInv
<1>6. QED
  BY <1>2, <1>3, <1>4, <1>5 DEF CacheBounded, StrictOrder

LEMMA MissPreserves ==
    ASSUME IInv, NEW request \in Request, NEW key \in Key, Miss(request, key)
    PROVE  IInv'
<1> USE DEF IInv, Miss
<1>1. /\ DOMAIN requests' = DOMAIN requests \cup {request}
      /\ requests'[request] = [state |-> "query", key |-> key]
      /\ \A q \in DOMAIN requests : requests'[q] = requests[q]
  OBVIOUS
<1>2. /\ DOMAIN requests' \subseteq Request
      /\ requests' \in [DOMAIN requests' -> Waiting \cup Answered]
  BY <1>1 DEF TypeOK, Waiting
<1>3. RequestsInv'
  BY <1>1 DEF RequestsInv, MayRequest
<1>4. QED
  BY <1>2, <1>3, LeftEntries DEF TypeOK

LEMMA QueryPreserves ==
    ASSUME IInv, NEW request \in Request, Query(request)
    PROVE  IInv'
<1> USE DEF IInv, Query
<1> DEFINE key == requests[request].key
<1>1. /\ DOMAIN requests' = DOMAIN requests
      /\ requests'[request] = [state |-> "store", key |-> key,
                               rows |-> rows[key], readAt |-> now]
      /\ \A q \in DOMAIN requests \ {request} : requests'[q] = requests[q]
  OBVIOUS
<1>2. key \in Key /\ now \in Nat
  BY RequestTypes, TimeIsNatural DEF TypeOK
<1>3. TypeOK'
  BY <1>1, <1>2 DEF TypeOK, Answered
<1>4. RequestsInv'
  <2>1. ASSUME NEW q \in DOMAIN requests, q # request
        PROVE  RequestsInv!(q)'
    BY <1>1, <2>1 DEF RequestsInv
  <2>2. RequestsInv!(request)'
    BY <1>1, <1>2 DEF RequestsInv
  <2>3. QED
    BY <1>1, <2>1, <2>2 DEF RequestsInv
<1>5. EntriesInv' /\ CacheBounded'
  BY DEF EntriesInv, CacheBounded
<1>6. QED
  BY <1>3, <1>4, <1>5

LEMMA SetOrder ==
    ASSUME TypeOK, StrictOrder(DOMAIN entries, before),
           NEW kept, kept \subseteq DOMAIN entries, NEW key, NEW R,
           R = Among(kept) \cup (IF key \in kept THEN {} ELSE kept \X {key})
    PROVE  /\ R \subseteq (kept \cup {key}) \X (kept \cup {key})
           /\ StrictOrder(kept \cup {key}, R)
<1>1. Among(kept) \subseteq kept \X kept /\ StrictOrder(kept, Among(kept))
  <2>1. kept = DOMAIN entries \cap kept
    OBVIOUS
  <2>2. QED
    BY <2>1, OrderLeft
<1>2. CASE key \in kept
  <2>1. kept \cup {key} = kept /\ R = Among(kept)
    BY <1>2
  <2>2. QED
    BY <1>1, <2>1
<1>3. CASE key \notin kept
  <2>1. R = Among(kept) \cup (kept \X {key})
    BY <1>3
  <2>2. \A j, k \in kept : <<j, k>> \in R <=> <<j, k>> \in Among(kept)
    BY <1>3, <2>1
  <2>3. \A j \in kept : <<j, key>> \in R
    BY <2>1
  <2>4. \A k \in kept \cup {key} : <<key, k>> \notin R
    BY <1>1, <1>3, <2>1
  <2>5. StrictOrder(kept \cup {key}, R)
    BY <1>1, <1>3, <2>2, <2>3, <2>4 DEF StrictOrder
  <2>6. QED
    BY <1>1, <2>1, <2>5
<1>4. QED
  BY <1>2, <1>3

\* The entry a request stores has the TTL of the day it is stored on.
LEMMA StoredEntry ==
    ASSUME IInv, NEW q \in DOMAIN requests, requests[q].state = "store"
    PROVE  LET e == NewEntry(requests[q])
               k == requests[q].key
           IN  /\ e \in Entry
               /\ e.readAt <= e.storedAt /\ e.storedAt = now
               /\ DateOf[k] <= CurrentDay[e.storedAt]
               /\ e.expires = e.storedAt +
                    (IF DateOf[k] = CurrentDay[e.storedAt] THEN TodayTtl
                                                           ELSE PastTtl)
               /\ \A r \in rows[k] \ e.rows : e.readAt <= r
<1>1. /\ requests[q].rows \in SUBSET Time /\ requests[q].readAt \in Time
      /\ requests[q].readAt <= now /\ now \in Time
      /\ DateOf[requests[q].key] <= CurrentDay[now]
      /\ \A r \in rows[requests[q].key] \ requests[q].rows :
            requests[q].readAt <= r
  BY RequestTypes DEF IInv, RequestsInv, TypeOK
<1>2. now + Ttl(DateOf[requests[q].key]) \in Nat
  BY <1>1, TimeIsNatural, LimitAssumption DEF Ttl
<1>3. QED
  BY <1>1, <1>2 DEF NewEntry, Entry, Ttl

LEMMA StorePreserves ==
    ASSUME IInv, NEW request \in Request, Store(request)
    PROVE  IInv'
<1> USE DEF Store
<1>0. PICK key, e : key = requests[request].key /\ e = NewEntry(requests[request])
  OBVIOUS
<1>0a. requests' = Keep(requests, DOMAIN requests \ {request})
  OBVIOUS
<1>1. /\ DOMAIN requests' = DOMAIN requests \ {request}
      /\ \A q \in DOMAIN requests' : requests'[q] = requests[q]
  BY <1>0a, RequestLeaves
<1>2. /\ DOMAIN requests' \subseteq Request
      /\ requests' \in [DOMAIN requests' -> Waiting \cup Answered]
      /\ RequestsInv'
  BY <1>0a, <1>1 DEF IInv, TypeOK, RequestsInv, Keep
<1>3. CASE UNCHANGED <<entries, before>>
  <2>1. TypeOK'
    BY <1>2, <1>3 DEF IInv, TypeOK
  <2>2. EntriesInv' /\ CacheBounded'
    BY <1>3 DEF IInv, EntriesInv, CacheBounded
  <2>3. QED
    BY <1>2, <1>3, <2>1, <2>2 DEF IInv
<1>4. CASE Set(requests[request])
  <2> DEFINE kept == Kept(key)
  <2>1. /\ entries' = [k \in kept \cup {key} |-> IF k = key THEN e ELSE entries[k]]
        /\ before' = Among(kept) \cup (IF key \in kept THEN {} ELSE kept \X {key})
    BY <1>0, <1>4 DEF Set
  <2>2. /\ kept \subseteq DOMAIN entries
        /\ IsFiniteSet(kept \cup {key})
        /\ Cardinality(kept \cup {key}) <= MaxEntries
    BY KeptFits DEF Live
  <2>3. key \in Key
    BY <1>0, RequestTypes DEF IInv
  <2>4. e \in Entry
    BY <1>0, StoredEntry
  <2> HIDE DEF kept
  <2>5. /\ DOMAIN entries' = kept \cup {key}
        /\ entries'[key] = e
        /\ \A k \in kept \ {key} : entries'[k] = entries[k]
    BY <2>1
  <2>6. /\ before' \subseteq (DOMAIN entries') \X (DOMAIN entries')
        /\ StrictOrder(DOMAIN entries', before')
    <3>1. TypeOK /\ StrictOrder(DOMAIN entries, before)
      BY DEF IInv
    <3>2. /\ before' \subseteq (kept \cup {key}) \X (kept \cup {key})
          /\ StrictOrder(kept \cup {key}, before')
      BY <2>1, <2>2, <3>1, SetOrder
    <3>3. QED
      BY <2>5, <3>2
  <2>7. DOMAIN entries' \subseteq Key /\ entries' \in [DOMAIN entries' -> Entry]
    BY <2>1, <2>2, <2>3, <2>4, <2>5 DEF IInv, TypeOK
  <2>8. EntriesInv'
    <3>1. ASSUME NEW k \in kept, k # key
          PROVE  EntriesInv!(k)'
      BY <2>2, <2>5, <3>1 DEF IInv, EntriesInv
    <3>2. EntriesInv!(key)'
      <4>1. now \in Nat
        BY TimeIsNatural DEF IInv, TypeOK
      <4>2. QED
        BY <1>0, <2>5, <4>1, StoredEntry
    <3>3. QED
      BY <2>5, <3>1, <3>2 DEF EntriesInv
  <2>9. TypeOK'
    <3>1. now' \in Time /\ rows' \in [Key -> SUBSET Time]
      BY DEF IInv, TypeOK
    <3>2. QED
      BY <1>2, <2>6, <2>7, <3>1, Zenon DEF TypeOK
  <2>10. IsFiniteSet(DOMAIN entries') /\ CacheBounded'
    BY <2>2, <2>5 DEF CacheBounded
  <2>11. QED
    BY <1>2, <2>6, <2>8, <2>9, <2>10 DEF IInv, StrictOrder
<1>5. QED
  BY <1>3, <1>4

LEMMA RequestFailsPreserves ==
    ASSUME IInv, NEW request \in Request, RequestFails(request)
    PROVE  IInv'
<1> USE DEF RequestFails
<1>0a. requests' = Keep(requests, DOMAIN requests \ {request})
  OBVIOUS
<1>1. /\ DOMAIN requests' = DOMAIN requests \ {request}
      /\ \A q \in DOMAIN requests' : requests'[q] = requests[q]
  BY <1>0a, RequestLeaves
<1>2. /\ DOMAIN requests' \subseteq Request
      /\ requests' \in [DOMAIN requests' -> Waiting \cup Answered]
      /\ RequestsInv'
  BY <1>0a, <1>1 DEF IInv, TypeOK, RequestsInv, Keep
<1>3. TypeOK'
  BY <1>2 DEF IInv, TypeOK
<1>4. EntriesInv' /\ CacheBounded'
  BY DEF IInv, EntriesInv, CacheBounded
<1>5. QED
  BY <1>2, <1>3, <1>4 DEF IInv

LEMMA RestartPreserves ==
    ASSUME IInv, RestartApi
    PROVE  IInv'
<1> USE DEF IInv, RestartApi
<1>1. DOMAIN entries' = {} /\ DOMAIN requests' = {} /\ before' = {}
  BY DEF Nothing
<1>2. TypeOK'
  BY <1>1 DEF TypeOK, Nothing
<1>3. IsFiniteSet(DOMAIN entries') /\ CacheBounded'
  BY <1>1, FS_EmptySet, LimitAssumption DEF CacheBounded
<1>4. StrictOrder(DOMAIN entries', before') /\ EntriesInv' /\ RequestsInv'
  BY <1>1 DEF StrictOrder, EntriesInv, RequestsInv
<1>5. QED
  BY <1>2, <1>3, <1>4

\* A new row is as new as any query so far.
LEMMA CommitRowPreserves ==
    ASSUME IInv, NEW key \in Key, CommitRow(key)
    PROVE  IInv'
<1> USE DEF CommitRow
<1>1. \A k \in Key : \A r \in rows'[k] : r \in rows[k] \/ r = now
  BY DEF IInv, TypeOK
<1>2. TypeOK'
  BY DEF IInv, TypeOK
<1>3. EntriesInv'
  <2>1. ASSUME NEW k \in DOMAIN entries
        PROVE  EntriesInv!(k)'
    <3>1. k \in Key /\ entries[k].readAt <= now
      BY EntryTypes, TimeIsNatural DEF IInv, EntriesInv, TypeOK
    <3>2. QED
      BY <1>1, <3>1 DEF IInv, EntriesInv
  <2>2. QED
    BY <2>1 DEF EntriesInv
<1>4. RequestsInv'
  <2>1. ASSUME NEW q \in DOMAIN requests
        PROVE  RequestsInv!(q)'
    BY <1>1, RequestTypes DEF IInv, RequestsInv
  <2>2. QED
    BY <2>1 DEF RequestsInv
<1>5. QED
  BY <1>2, <1>3, <1>4 DEF IInv, CacheBounded

\* The operational day never goes back.
LEMMA TickPreserves ==
    ASSUME IInv, Tick
    PROVE  IInv'
<1> USE DEF Tick
<1>1. now \in Nat /\ now' \in Time /\ now <= now'
  BY LimitAssumption DEF IInv, TypeOK, Time
<1>2. TypeOK'
  BY <1>1 DEF IInv, TypeOK
<1>3. EntriesInv'
  <2>1. ASSUME NEW k \in DOMAIN entries
        PROVE  EntriesInv!(k)'
    <3>1. entries[k].storedAt <= now'
      BY <1>1, EntryTypes DEF IInv, EntriesInv
    <3>2. QED
      BY <3>1 DEF IInv, EntriesInv
  <2>2. QED
    BY <2>1 DEF EntriesInv
<1>4. RequestsInv'
  <2>1. ASSUME NEW q \in DOMAIN requests
        PROVE  RequestsInv!(q)'
    <3>1. DateOf[requests[q].key] \in Int
      BY RequestTypes, KeyAssumption DEF IInv
    <3>2. CurrentDay[now] <= CurrentDay[now'] /\ CurrentDay[now] \in Int
          /\ CurrentDay[now'] \in Int
      BY <1>1, CurrentDayAssumption DEF IInv, TypeOK
    <3>3. DateOf[requests[q].key] <= CurrentDay[now]
      BY DEF IInv, RequestsInv
    <3>4. DateOf[requests[q].key] <= CurrentDay[now']
      BY <3>1, <3>2, <3>3
    <3>5. requests[q].state = "store" => requests[q].readAt <= now'
      <4>1. SUFFICES ASSUME requests[q].state = "store"
                     PROVE  requests[q].readAt <= now'
        OBVIOUS
      <4>2. requests[q].readAt \in Nat /\ requests[q].readAt <= now
        BY <4>1, RequestTypes, TimeIsNatural DEF IInv, RequestsInv
      <4>3. QED
        BY <1>1, <4>2, TimeIsNatural
    <3>6. QED
      BY <3>4, <3>5 DEF IInv, RequestsInv
  <2>2. QED
    BY <2>1 DEF RequestsInv
<1>5. QED
  BY <1>2, <1>3, <1>4 DEF IInv, CacheBounded

LEMMA StepPreserves == IInv /\ [Next]_vars => IInv'
<1> SUFFICES ASSUME IInv, [Next]_vars PROVE IInv'
  OBVIOUS
<1>1. ASSUME NEW request \in Request,
             \/ \E key \in Key : Miss(request, key)
             \/ Query(request)
             \/ Store(request)
             \/ RequestFails(request)
      PROVE  IInv'
  BY <1>1, MissPreserves, QueryPreserves, StorePreserves, RequestFailsPreserves
<1>2. CASE RestartApi
  BY <1>2, RestartPreserves
<1>3. CASE \E key \in Key : CommitRow(key)
  BY <1>3, CommitRowPreserves
<1>4. CASE Tick
  BY <1>4, TickPreserves
<1>5. CASE UNCHANGED vars
  BY <1>5 DEF IInv, vars, TypeOK, CacheBounded, EntriesInv, RequestsInv
<1>6. QED
  BY <1>1, <1>2, <1>3, <1>4, <1>5 DEF Next

-----------------------------------------------------------------------------
\* The invariant holds in every reachable state, for any instance.
THEOREM Invariance == Spec => []IInv
<1>1. QED
  BY InitHolds, StepPreserves, PTL DEF Spec

\* The caches keep their types, and the order is one of the keys they hold.
THEOREM TypeCorrect == Spec => []TypeOK
<1>1. IInv => TypeOK
  BY DEF IInv
<1>2. QED
  BY <1>1, Invariance, PTL

\* No number of overlapping requests makes a cache larger than max_entries.
THEOREM CachesAreBounded == Spec => []CacheBounded
<1>1. IInv => CacheBounded
  BY DEF IInv
<1>2. QED
  BY <1>1, Invariance, PTL

\* Today's timeline is at most today's TTL, and the time of its request,
\* behind, any other at most the longest TTL and that time.
THEOREM ServedIsRecent == Spec => []MissingRowsAreRecent
<1>1. ASSUME IInv, NEW k \in Live, NEW r \in rows[k] \ entries[k].rows
      PROVE  now < r + (entries[k].storedAt - entries[k].readAt)
                     + (IF DateOf[k] = CurrentDay[now] THEN TodayTtl ELSE LongestTtl)
  <2> DEFINE e == entries[k]
  <2>1. k \in DOMAIN entries /\ ~ e.expires <= now
    BY DEF Live, Expired
  <2>2. /\ k \in Key /\ e.readAt \in Nat /\ e.expires \in Nat
        /\ e.storedAt \in Time /\ e.storedAt \in Nat
    BY <1>1, <2>1, EntryTypes DEF IInv
  <2>3. /\ e.storedAt <= now
        /\ DateOf[k] <= CurrentDay[e.storedAt]
        /\ e.expires = e.storedAt +
             (IF DateOf[k] = CurrentDay[e.storedAt] THEN TodayTtl ELSE PastTtl)
        /\ e.readAt <= r
    BY <1>1, <2>1 DEF IInv, EntriesInv
  <2>4. now \in Time /\ now \in Nat /\ r \in Nat
    BY <1>1, <2>2, TimeIsNatural DEF IInv, TypeOK
  <2>5. TodayTtl \in Nat /\ PastTtl \in Nat /\ LongestTtl \in Nat
        /\ TodayTtl <= LongestTtl /\ PastTtl <= LongestTtl
    BY LimitAssumption DEF LongestTtl
  <2>6. DateOf[k] = CurrentDay[now] => DateOf[k] = CurrentDay[e.storedAt]
    <3>1. /\ CurrentDay[e.storedAt] \in Int /\ CurrentDay[now] \in Int
          /\ CurrentDay[e.storedAt] <= CurrentDay[now]
      BY <2>2, <2>3, <2>4, CurrentDayAssumption
    <3>2. QED
      BY <2>2, <2>3, <3>1, KeyAssumption
  <2> HIDE DEF e
  <2>7. now < r + (e.storedAt - e.readAt)
                + (IF DateOf[k] = CurrentDay[now] THEN TodayTtl ELSE LongestTtl)
    BY <2>1, <2>2, <2>3, <2>4, <2>5, <2>6
  <2>8. QED
    BY <2>7 DEF e
<1>2. IInv => MissingRowsAreRecent
  BY <1>1 DEF MissingRowsAreRecent
<1>3. QED
  BY <1>2, Invariance, PTL

\* Nothing is lost from a cache before its time but the first entry of a full
\* one, whatever overlapping requests store.
THEOREM LiveEntriesStay == Spec => LiveEntriesLeaveOnlyWhenFull
<1> DEFINE Evicted(k) ==
        \/ DOMAIN entries' = {}
        \/ /\ Cardinality(Live) = MaxEntries
           /\ \A j \in Live \ {k} : <<k, j>> \in before
<1>1. ASSUME IInv, [Next]_vars, NEW k \in Live, k \notin DOMAIN entries'
      PROVE  Evicted(k)
  <2>1. k \in DOMAIN entries
    BY <1>1 DEF Live
  <2>2. ASSUME NEW request \in Request, NEW key \in Key, Miss(request, key)
        PROVE  FALSE
    BY <1>1, <2>1, <2>2, KeepFields DEF Miss, Left
  <2>3. ASSUME NEW request \in Request, Store(request)
        PROVE  Evicted(k)
    <3> DEFINE key == requests[request].key
    <3>1. Set(requests[request])
      BY <1>1, <2>1, <2>3 DEF Store
    <3>2. k \notin Kept(key)
      BY <1>1, <3>1 DEF Set
    <3>3. /\ Cardinality(Live) >= MaxEntries
          /\ \A j \in Live : <<j, k>> \notin before
      BY <1>1, <3>2 DEF Kept
    <3>4. Cardinality(Live) = MaxEntries
      BY <1>1, <3>3, LiveFits, LimitAssumption
    <3>5. \A j \in Live \ {k} : <<k, j>> \in before
      BY <1>1, <2>1, <3>3, LiveFits DEF IInv, StrictOrder
    <3>6. QED
      BY <3>4, <3>5
  <2>4. CASE UNCHANGED entries
    BY <1>1, <2>1, <2>4
  <2>5. CASE RestartApi
    BY <2>5 DEF RestartApi, Nothing
  <2>6. QED
    BY <1>1, <2>2, <2>3, <2>4, <2>5
    DEF Next, vars, Query, RequestFails, CommitRow, Tick
<1>2. IInv /\ [Next]_vars =>
        [\A k \in Live \ DOMAIN entries' : Evicted(k)]_vars
  BY <1>1
<1>3. QED
  BY <1>2, Invariance, PTL DEF Spec, LiveEntriesLeaveOnlyWhenFull
=============================================================================

-------------------------- MODULE SnapshotLogProofs --------------------------
(***************************************************************************)
(* What the queries, the batch of a poll and the candidates are, for any   *)
(* log and any response: the lemmas SnapshotWorkerProofs rests on.         *)
(***************************************************************************)
EXTENDS SnapshotLog, FiniteSets, FiniteSetTheorems, WellFoundedInduction, TLAPS

\* Each line reported is known, and has a set of statuses.
IsResponse(response) ==
    /\ DOMAIN response \subseteq Line
    /\ \A l \in DOMAIN response : response[l] \subseteq Status

\* A line has one row for each time.
KeysUnique(log) ==
    \A r, s \in log : r.line = s.line /\ r.observed = s.observed => r = s

Candidates ==
    [line : Line, type : EventType, observed : Time, severity : Nat, text : Nat]

-----------------------------------------------------------------------------
LEMMA LeastNatural ==
    ASSUME NEW S \in SUBSET Nat, S # {}
    PROVE  \E m \in S : \A n \in S : m <= n
<1> DEFINE R == OpToRel(<, Nat)
<1>1. \E m \in S : \A n \in S : ~ (<<n, m>> \in R)
  BY WFMin, NatLessThanWellFounded, Zenon
<1>2. \A n, m \in Nat : n < m => <<n, m>> \in R
  BY DEF OpToRel
<1>3. PICK m \in S : \A n \in S : ~ (<<n, m>> \in R)
  BY <1>1
<1> HIDE DEF R
<1>4. \A n \in S : ~ (n < m)
  BY <1>2, <1>3
<1>5. QED
  BY <1>4

\* max(observed_at) of a set of rows exists.
LEMMA NewestExists ==
    ASSUME NEW rows \in SUBSET Snapshot, rows # {}
    PROVE  Newest(rows) # {}
<1> DEFINE ages == {Horizon - r.observed : r \in rows}
<1>1. \A r \in rows : r.observed \in Nat /\ r.observed <= Horizon
  BY HorizonAssumption DEF Snapshot, Time
<1>2. ages \in SUBSET Nat /\ ages # {}
  BY <1>1, HorizonAssumption
<1>3. PICK m \in ages : \A n \in ages : m <= n
  BY <1>2, LeastNatural
<1>4. PICK r \in rows : m = Horizon - r.observed
  BY <1>3
<1>5. ASSUME NEW s \in rows
      PROVE  s.observed <= r.observed
  <2>1. Horizon - r.observed <= Horizon - s.observed
    BY <1>3, <1>4
  <2>2. QED
    BY <2>1, <1>1, HorizonAssumption
<1>6. QED
  BY <1>5 DEF Newest

\* min() of the disruptions of a disrupted list of statuses exists.
LEMMA MostSevereIsDisruption ==
    ASSUME NEW statuses \in SUBSET Status, IsDisrupted(statuses)
    PROVE  /\ MostSevere(statuses) \in Disruptions(statuses)
           /\ \A t \in Disruptions(statuses) :
                MostSevere(statuses).severity <= t.severity
<1> DEFINE D == Disruptions(statuses)
<1>1. D # {} /\ D \subseteq Status
  BY DEF IsDisrupted, Disruptions
<1>2. PICK m \in {s.severity : s \in D} : \A n \in {s.severity : s \in D} : m <= n
  <2>1. {s.severity : s \in D} \in SUBSET Nat /\ {s.severity : s \in D} # {}
    BY <1>1 DEF Status
  <2>2. QED
    BY <2>1, LeastNatural
<1> DEFINE worst == {s \in D : s.severity = m}
<1>3. PICK k \in {s.text : s \in worst} : \A n \in {s.text : s \in worst} : k <= n
  <2>1. {s.text : s \in worst} \in SUBSET Nat /\ {s.text : s \in worst} # {}
    BY <1>1, <1>2 DEF Status
  <2>2. QED
    BY <2>1, LeastNatural
<1>4. PICK s \in worst : s.text = k
  BY <1>3
<1>5. ASSUME NEW t \in D
      PROVE  \/ s.severity < t.severity
             \/ s.severity = t.severity /\ s.text <= t.text
  <2>1. m <= t.severity /\ s.severity = m
    BY <1>2, <1>4
  <2>2. CASE t.severity = m
    BY <2>1, <2>2, <1>3, <1>4
  <2>3. CASE t.severity # m
    BY <2>1, <2>3, <1>1 DEF Status
  <2>4. QED
    BY <2>2, <2>3
<1>6. /\ MostSevere(statuses) \in D
      /\ \A t \in D :
            \/ MostSevere(statuses).severity < t.severity
            \/ /\ MostSevere(statuses).severity = t.severity
               /\ MostSevere(statuses).text <= t.text
  BY <1>4, <1>5 DEF MostSevere
<1>7. QED
  BY <1>1, <1>6 DEF Status

-----------------------------------------------------------------------------
\* The rows of a batch carry the poll's time and a line each.
LEMMA BatchRows ==
    ASSUME NEW log \in SUBSET Snapshot, NEW response, IsResponse(response),
           NEW at \in Time
    PROVE  /\ Batch(log, response, at) \subseteq Snapshot
           /\ \A b \in Batch(log, response, at) : b.observed = at
<1>1. \A b \in Fresh(log, response, at) : b \in Snapshot /\ b.observed = at
  BY DEF Fresh, SnapshotOf, Snapshot, IsResponse
<1>2. \A b \in CarriedForward(log, response, at) : b \in Snapshot /\ b.observed = at
  BY SupportedAssumption
  DEF CarriedForward, LatestBeforeDay, RowsBeforeDay, Newest, SnapshotOf, Snapshot
<1>3. QED
  BY <1>1, <1>2 DEF Batch

\* A line is reported, and its row fresh, or left out, and its row carried
\* forward from the one latest row before the day.
LEMMA BatchKeysUnique ==
    ASSUME NEW log \in SUBSET Snapshot, NEW response, NEW at \in Time,
           KeysUnique(log)
    PROVE  KeysUnique(Batch(log, response, at))
<1>1. \A b \in Fresh(log, response, at) :
        b.line \in DOMAIN response /\ b = SnapshotOf(b.line, at, response[b.line])
  BY DEF Fresh, SnapshotOf
<1>2. \A b \in CarriedForward(log, response, at) :
        /\ b.line \notin DOMAIN response
        /\ \E s \in LatestBeforeDay(log, b.line, OperationalDay[at]) :
                b = SnapshotOf(b.line, at, s.statuses)
  BY DEF CarriedForward, SnapshotOf
<1>3. ASSUME NEW l, NEW r \in LatestBeforeDay(log, l, OperationalDay[at]),
             NEW s \in LatestBeforeDay(log, l, OperationalDay[at])
      PROVE  r = s
  <2>1. /\ r \in log /\ s \in log
        /\ r.line = l /\ s.line = l
        /\ r.observed <= s.observed /\ s.observed <= r.observed
    BY <1>3 DEF LatestBeforeDay, RowsBeforeDay, Newest
  <2>2. r.observed \in Nat /\ s.observed \in Nat
    BY <2>1 DEF Snapshot, Time
  <2>3. QED
    BY <2>1, <2>2 DEF KeysUnique
<1>4. QED
  BY <1>1, <1>2, <1>3 DEF KeysUnique, Batch

\* A batch has at most one row for each line.
LEMMA BatchFinite ==
    ASSUME NEW log \in SUBSET Snapshot, NEW response, IsResponse(response),
           NEW at \in Time, KeysUnique(log), IsFiniteSet(Line)
    PROVE  Cardinality(Batch(log, response, at)) \in Nat
<1> DEFINE batch == Batch(log, response, at)
<1> DEFINE f == [b \in batch |-> b.line]
<1>1. batch \subseteq Snapshot /\ \A b \in batch : b.observed = at
  BY BatchRows
<1>2. KeysUnique(batch)
  BY BatchKeysUnique
<1> HIDE DEF batch
<1>3. f \in [batch -> Line]
  BY <1>1 DEF Snapshot
<1>4. \A b, c \in batch : f[b] = f[c] => b = c
  BY <1>1, <1>2 DEF KeysUnique
<1> HIDE DEF f
<1>5. f \in Injection(batch, Line)
  BY <1>3, <1>4 DEF Injection, IsInjective
<1>6. QED
  BY <1>5, FS_Injection, FS_CardinalityType DEF batch

\* No row of a batch repeats the latest row of its line and day.
LEMMA BatchChanges ==
    ASSUME NEW log, NEW response, NEW at,
           NEW b \in Batch(log, response, at),
           NEW p \in LatestInDay(log, b.line, OperationalDay[at])
    PROVE  p.statuses # b.statuses
BY DEF Batch, Fresh, CarriedForward, Unchanged, SnapshotOf

\* After a poll, a supported line that has a row before the day has one in it.
LEMMA BatchBaseline ==
    ASSUME NEW log \in SUBSET Snapshot, NEW response, NEW at \in Time,
           NEW l \in SupportedLine,
           RowsBeforeDay(log, l, OperationalDay[at]) # {}
    PROVE  \E b \in RowsInDay(log, l, OperationalDay[at])
                        \cup Batch(log, response, at) : b.line = l
<1> DEFINE day == OperationalDay[at]
<1>1. CASE l \in DOMAIN response
  <2>1. CASE Unchanged(log, response, l, at)
    BY <2>1 DEF Unchanged, LatestInDay, Newest, RowsInDay
  <2>2. CASE ~ Unchanged(log, response, l, at)
    <3>1. SnapshotOf(l, at, response[l]) \in Fresh(log, response, at)
      BY <1>1, <2>2 DEF Fresh
    <3>2. QED
      BY <3>1 DEF Batch, SnapshotOf
  <2>3. QED
    BY <2>1, <2>2
<1>2. CASE l \notin DOMAIN response /\ LatestInDay(log, l, day) # {}
  BY <1>2 DEF LatestInDay, Newest, RowsInDay
<1>3. CASE l \notin DOMAIN response /\ LatestInDay(log, l, day) = {}
  <2>1. PICK s \in LatestBeforeDay(log, l, day) : TRUE
    <3>1. RowsBeforeDay(log, l, day) \in SUBSET Snapshot
      BY DEF RowsBeforeDay
    <3>2. QED
      BY <3>1, NewestExists DEF LatestBeforeDay
  <2>2. SnapshotOf(l, at, s.statuses) \in CarriedForward(log, response, at)
    BY <1>3, <2>1 DEF CarriedForward
  <2>3. QED
    BY <2>2 DEF Batch, SnapshotOf
<1>4. QED
  BY <1>1, <1>2, <1>3

-----------------------------------------------------------------------------
\* A candidate takes its line and time from the snapshot, the rest from the
\* status.
LEMMA CandidateFields ==
    ASSUME NEW s \in Snapshot, NEW type \in EventType, NEW x \in Status
    PROVE  /\ Candidate(s, type, x) \in Candidates
           /\ Candidate(s, type, x).line = s.line
           /\ Candidate(s, type, x).observed = s.observed
           /\ Candidate(s, type, x).type = type
           /\ Candidate(s, type, x).severity = x.severity
           /\ Candidate(s, type, x).text = x.text
BY DEF Candidate, Candidates, Snapshot, Status

\* What a candidate of an ongoing disruption says of its snapshot.
LEMMA ActiveFacts ==
    ASSUME NEW s \in Snapshot, NEW e \in ActiveDisruption(s)
    PROVE  /\ e \in Candidates
           /\ e.line = s.line /\ e.observed = s.observed
           /\ e.type = Started
           /\ IsDisrupted(s.statuses)
           /\ \E x \in Disruptions(s.statuses) :
                x.severity = e.severity /\ x.text = e.text
           /\ \A x \in Disruptions(s.statuses) : e.severity <= x.severity
<1> DEFINE worst == MostSevere(s.statuses)
<1>1. IsDisrupted(s.statuses) /\ e = Candidate(s, Started, worst)
  BY DEF ActiveDisruption
<1>2. s.statuses \in SUBSET Status
  BY DEF Snapshot
<1>3. /\ worst \in Disruptions(s.statuses)
      /\ \A x \in Disruptions(s.statuses) : worst.severity <= x.severity
  BY <1>1, <1>2, MostSevereIsDisruption
<1>4. worst \in Status /\ Started \in EventType
  BY <1>2, <1>3 DEF EventType, Disruptions
<1> HIDE DEF worst
<1>5. QED
  BY <1>1, <1>3, <1>4, CandidateFields

\* What a candidate of a change says of the snapshot and the one before.
LEMMA DetectedFacts ==
    ASSUME NEW p \in Snapshot, NEW s \in Snapshot, NEW e \in Detected(p, s)
    PROVE  /\ e \in Candidates
           /\ e.line = s.line /\ e.observed = s.observed
           /\ e.type = Resumed <=> ~ IsDisrupted(s.statuses)
           /\ \E x \in s.statuses :
                /\ x.severity = e.severity /\ x.text = e.text
                /\ e.type # Resumed => x \in Disruptions(s.statuses)
           /\ e.type = Resumed =>
                e.severity = GoodService /\ IsDisrupted(p.statuses)
           /\ e.type # Resumed =>
                \A x \in Disruptions(s.statuses) : e.severity <= x.severity
           /\ e.type = Changed =>
                /\ IsDisrupted(p.statuses)
                /\ \A x \in Disruptions(p.statuses) : e.severity < x.severity
<1> DEFINE was    == IsDisrupted(p.statuses)
           is     == IsDisrupted(s.statuses)
           worst  == MostSevere(s.statuses)
           before == MostSevere(p.statuses)
<1>1. p.statuses \in SUBSET Status /\ s.statuses \in SUBSET Status
  BY DEF Snapshot
<1>2. is => /\ worst \in Disruptions(s.statuses) /\ worst \in s.statuses
            /\ \A x \in Disruptions(s.statuses) : worst.severity <= x.severity
  BY <1>1, MostSevereIsDisruption DEF Disruptions
<1>3. was => /\ before \in p.statuses
             /\ \A x \in Disruptions(p.statuses) : before.severity <= x.severity
  BY <1>1, MostSevereIsDisruption DEF Disruptions
<1>4. /\ Started \in EventType /\ Changed \in EventType /\ Resumed \in EventType
      /\ Started # Changed /\ Started # Resumed /\ Changed # Resumed
  BY DEF EventType, Started, Changed, Resumed
<1>5. CASE is /\ ~ was
  <2>1. e = Candidate(s, Started, worst)
    BY <1>5 DEF Detected
  <2>2. worst \in Status
    BY <1>1, <1>2, <1>5
  <2> HIDE DEF worst
  <2>3. QED
    BY <1>2, <1>4, <1>5, <2>1, <2>2, CandidateFields
<1>6. CASE is /\ was /\ worst.severity < before.severity
  <2>1. e = Candidate(s, Changed, worst)
    BY <1>6 DEF Detected
  <2>2. worst \in Status /\ before \in Status
    BY <1>1, <1>2, <1>3, <1>6
  <2>3. \A x \in Disruptions(p.statuses) : worst.severity < x.severity
    BY <1>1, <1>3, <1>6, <2>2 DEF Disruptions, Status
  <2> HIDE DEF worst, before
  <2>4. QED
    BY <1>2, <1>4, <1>6, <2>1, <2>2, <2>3, CandidateFields
<1>7. CASE was /\ ~ is /\ GoodServices(s.statuses) # {}
  <2> DEFINE good == CHOOSE x \in GoodServices(s.statuses) : TRUE
  <2>1. e = Candidate(s, Resumed, good)
    BY <1>7 DEF Detected
  <2>2. good \in s.statuses /\ good.severity = GoodService
    BY <1>7 DEF GoodServices
  <2>3. good \in Status
    BY <1>1, <2>2
  <2> HIDE DEF good
  <2>4. QED
    BY <1>4, <1>7, <2>1, <2>2, <2>3, CandidateFields
<1>8. CASE ~ (\/ is /\ ~ was
              \/ is /\ was /\ worst.severity < before.severity
              \/ was /\ ~ is /\ GoodServices(s.statuses) # {})
  BY <1>8 DEF Detected
<1>9. QED
  BY <1>5, <1>6, <1>7, <1>8

-----------------------------------------------------------------------------
\* A latest row that is older than the poll was found unchanged, and so its
\* disruption, if any, is still going on.
LEMMA ActivesFound ==
    ASSUME NEW log \in SUBSET Snapshot, NEW response, IsResponse(response),
           NEW at \in Time, NEW l \in DOMAIN response,
           NEW s \in LatestInDay(log \cup Batch(log, response, at), l,
                                OperationalDay[at]),
           s.observed < at
    PROVE  ActiveDisruption(s) \subseteq ActiveCandidates(log, response, at)
<1> DEFINE batch == Batch(log, response, at)
           day   == OperationalDay[at]
<1>1. \A b \in batch : b.observed = at
  BY BatchRows
<1>2. /\ s \in log \cup batch
      /\ s.line = l /\ OperationalDay[s.observed] = day
      /\ \A r \in RowsInDay(log \cup batch, l, day) : r.observed <= s.observed
  BY DEF LatestInDay, RowsInDay, Newest
<1>3. at \in Nat
  BY DEF Time
<1>4. s \in log
  BY <1>1, <1>2, <1>3
<1>5. s.observed \in Nat
  BY <1>4 DEF Snapshot, Time
<1>6. s \in LatestInDay(log, l, day)
  BY <1>2, <1>4 DEF LatestInDay, RowsInDay, Newest
<1>7. Unchanged(log, response, l, at)
  <2>1. SUFFICES ASSUME ~ Unchanged(log, response, l, at) PROVE FALSE
    OBVIOUS
  <2>2. SnapshotOf(l, at, response[l]) \in batch
    BY <2>1 DEF Batch, Fresh
  <2>3. SnapshotOf(l, at, response[l]) \in RowsInDay(log \cup batch, l, day)
    BY <2>2 DEF RowsInDay, SnapshotOf
  <2>4. at <= s.observed
    BY <1>2, <2>3 DEF SnapshotOf
  <2>5. QED
    BY <1>3, <1>5, <2>4
<1>8. QED
  BY <1>6, <1>7 DEF ActiveCandidates
=============================================================================

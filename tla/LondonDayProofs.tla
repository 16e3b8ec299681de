------------------------ MODULE LondonDayProofs ------------------------
(***************************************************************************)
(* The bounds of an operational day agree with the day an instant is       *)
(* assigned to, whenever the clocks change.                                *)
(***************************************************************************)
EXTENDS LondonDay, TLAPS

LEMMA Division ==
    ASSUME NEW x \in Int, NEW q \in Int
    PROVE  /\ x \div Day = q <=> q * Day <= x /\ x < q * Day + Day
           /\ x % Day = x - Day * (x \div Day)
           /\ x \div Day \in Int
BY DEF Day, Hour

LEMMA StartIsInstant ==
    ASSUME NEW date \in Int
    PROVE  StartOf(date) \in Int
BY DEF StartOf, Day, Hour, OPERATIONAL_DAY_START

\* Between 01:00 UTC and the next, the clocks are one hour ahead or not.
LEMMA DayOfInstant ==
    ASSUME NEW t \in Int, NEW d \in Int
    PROVE  operational_day_for(t) = d <=>
             /\ d * Day + OPERATIONAL_DAY_START <= Local(t)
             /\ Local(t) < (d + 1) * Day + OPERATIONAL_DAY_START
<1>1. Local(t) \in Int
  BY DEF Local, Hour
<1>2. QED
  BY <1>1 DEF operational_day_for, Day, Hour, OPERATIONAL_DAY_START

LEMMA StartFacts ==
    ASSUME NEW d \in Int, NEW t \in Int
    PROVE  StartOf(d) <= t <=> d * Day + OPERATIONAL_DAY_START <= Local(t)
<1> DEFINE wall == d * Day + OPERATIONAL_DAY_START
<1>1. (wall - Hour - Hour) \div Day = d
  BY DEF Day, Hour, OPERATIONAL_DAY_START
<1>2. IsSummer(wall - Hour) <=> d \in SummerTime
  BY <1>1 DEF IsSummer
<1>3. CASE (t - Hour) \div Day = d
  BY <1>2, <1>3 DEF StartOf, Local, IsSummer, Day, Hour, OPERATIONAL_DAY_START
<1>4. CASE (t - Hour) \div Day < d
  BY <1>2, <1>4 DEF StartOf, Local, IsSummer, Day, Hour, OPERATIONAL_DAY_START
<1>5. CASE (t - Hour) \div Day > d
  BY <1>2, <1>5 DEF StartOf, Local, IsSummer, Day, Hour, OPERATIONAL_DAY_START
<1>6. QED
  BY <1>3, <1>4, <1>5 DEF Day, Hour

\* operational_day_bounds_utc and operational_day_for agree: an instant lies
\* within the bounds of a date just when it is assigned to that date, on the
\* 23 and 25 hour days of the clock changes as on any other.
THEOREM BoundsAgree ==
    \A t, d \in Int : WithinBounds(t, d) <=> operational_day_for(t) = d
<1> SUFFICES ASSUME NEW t \in Int, NEW d \in Int
             PROVE  WithinBounds(t, d) <=> operational_day_for(t) = d
  OBVIOUS
<1>1. t < EndOf(d) <=> Local(t) < (d + 1) * Day + OPERATIONAL_DAY_START
  <2>1. Local(t) \in Int /\ StartOf(d + 1) \in Int
    BY StartIsInstant DEF Local, Hour
  <2>2. StartOf(d + 1) <= t <=> (d + 1) * Day + OPERATIONAL_DAY_START <= Local(t)
    BY StartFacts
  <2>3. QED
    BY <2>1, <2>2 DEF EndOf, Day, Hour, OPERATIONAL_DAY_START
<1>2. QED
  BY <1>1, StartFacts, DayOfInstant DEF WithinBounds

\* Time never goes back to an earlier operational day, as SnapshotLog assumes
\* of its days, though the clocks in London do go back.
THEOREM DaysNeverGoBack ==
    \A s, t \in Int : s <= t => operational_day_for(s) <= operational_day_for(t)
<1> SUFFICES ASSUME NEW s \in Int, NEW t \in Int, s <= t
             PROVE  operational_day_for(s) <= operational_day_for(t)
  OBVIOUS
<1> DEFINE d == operational_day_for(s)
           e == operational_day_for(t)
<1>1. d \in Int /\ e \in Int
  BY DEF operational_day_for, Local, Day, Hour
<1>2. StartOf(d) <= s
  BY <1>1, BoundsAgree DEF WithinBounds
<1>3. StartOf(d) <= t /\ Local(t) \in Int
  BY <1>1, <1>2, StartIsInstant DEF Local, Hour
<1>4. d * Day + OPERATIONAL_DAY_START <= Local(t)
  BY <1>1, <1>3, StartFacts
<1>5. Local(t) < (e + 1) * Day + OPERATIONAL_DAY_START
  BY <1>1, DayOfInstant
<1> HIDE DEF d, e
<1>6. d <= e
  BY <1>1, <1>3, <1>4, <1>5 DEF Day, Hour, OPERATIONAL_DAY_START
<1>7. QED
  BY <1>6 DEF d, e

\* The bounds that operational_day_bounds_utc gives are 24 hours apart, but 23
\* if the clocks go forward between them, and 25 if they go back.
THEOREM DayLengths ==
    \A d \in Int :
        EndOf(d) - StartOf(d) =
            IF d \notin SummerTime /\ d + 1 \in SummerTime THEN 23 * Hour
            ELSE IF d \in SummerTime /\ d + 1 \notin SummerTime THEN 25 * Hour
            ELSE 24 * Hour
<1> SUFFICES
        ASSUME NEW d \in Int
        PROVE  EndOf(d) - StartOf(d) =
                IF d \notin SummerTime /\ d + 1 \in SummerTime THEN 23 * Hour
                ELSE IF d \in SummerTime /\ d + 1 \notin SummerTime THEN 25 * Hour
                ELSE 24 * Hour
  OBVIOUS
<1>1. ASSUME NEW e \in Int
      PROVE  StartOf(e) = e * Day + OPERATIONAL_DAY_START
                            - (IF e \in SummerTime THEN Hour ELSE 0)
  <2>1. (e * Day + OPERATIONAL_DAY_START - Hour - Hour) \div Day = e
    BY DEF Day, Hour, OPERATIONAL_DAY_START
  <2>2. QED
    BY <2>1 DEF StartOf, IsSummer, Day, Hour, OPERATIONAL_DAY_START
<1>2. (d + 1) * Day = d * Day + 24 * Hour
  BY DEF Day, Hour
<1>3. QED
  BY <1>1, <1>2 DEF EndOf, Day, Hour, OPERATIONAL_DAY_START
=============================================================================

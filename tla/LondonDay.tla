--------------------------- MODULE LondonDay --------------------------------
(***************************************************************************)
(* The operational day, from 04:00 to 04:00 in London:                     *)
(* app/line_status/time.py.                                                *)
(*                                                                         *)
(* An instant is a number of seconds, UTC, from a midnight on; a date is   *)
(* the number of its day.  The clocks change at 01:00 UTC, so that         *)
(* SummerTime is the set of the dates d with summer time from 01:00 UTC    *)
(* on d to 01:00 UTC on the next date.                                     *)
(***************************************************************************)
EXTENDS Integers

CONSTANT SummerTime

ASSUME SummerTimeAssumption == SummerTime \subseteq Int

Hour == 3600
Day  == 24 * Hour

OPERATIONAL_DAY_START == 4 * Hour

IsSummer(instant) == (instant - Hour) \div Day \in SummerTime

\* What the clocks in London show.
Local(instant) == IF IsSummer(instant) THEN instant + Hour ELSE instant

operational_day_for(instant) ==
    IF Local(instant) % Day < OPERATIONAL_DAY_START
    THEN Local(instant) \div Day - 1
    ELSE Local(instant) \div Day

\* The instant at which the clocks show 04:00 on this date.
StartOf(date) ==
    LET wall == date * Day + OPERATIONAL_DAY_START
    IN  IF IsSummer(wall - Hour) THEN wall - Hour ELSE wall

\* Mutant of EndOf: a day has 24 hours.
EndAfterOneDay(date) == StartOf(date) + Day

\* 04:00 on the next date, 23, 24 or 25 hours later.
EndOf(date) == StartOf(date + 1)

\* operational_day_bounds_utc, as the queries use it.
WithinBounds(instant, date) == StartOf(date) <= instant /\ instant < EndOf(date)
=============================================================================

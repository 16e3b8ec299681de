----------------------------- MODULE MCTimeline -----------------------------
(***************************************************************************)
(* An instance of ServedTimeline for TLC: polls around the hour the clocks *)
(* go forward, in the night from date 0 to date 1.                         *)
(***************************************************************************)
EXTENDS ServedTimeline, TLC

CONSTANTS victoria

Clock(date, hour, minute) == date * Day + hour * Hour + minute * 60

\* UTC.  04:00 in London is 03:00 from date 1 on: the first poll is one minute
\* before the end of operational day 0, the second is at the start of day 1, and
\* the last one minute before its end.
Instants == <<Clock(1, 2, 59), Clock(1, 3, 0), Clock(1, 12, 0), Clock(2, 2, 59)>>

SpringDays == [t \in Time |-> operational_day_for(Instants[t])]

Is(severity) == [severity |-> severity, text |-> 0, info |-> 0]

ServiceClosed == 20

\* Good service; severe delays, alone and beside a part closure; a planned
\* closure; a status no timeline shows, alone and beside severe delays.
StatusLists ==
    {{Is(GoodService)},
     {Is(SevereDelays)},
     {Is(SevereDelays), Is(5)},
     {Is(PlannedClosure)},
     {Is(ServiceClosed)},
     {Is(ServiceClosed), Is(SevereDelays)}}

Responses == UNION {[L -> StatusLists] : L \in SUBSET Line}

NoPreferences == {}
=============================================================================

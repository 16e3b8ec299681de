---------------------------- MODULE LineStatuses ----------------------------
(***************************************************************************)
(* Line statuses and the notification candidates read off them:            *)
(* app/line_status/severity.py and app/notifications/events.py.            *)
(*                                                                         *)
(* A status is a record of its severity, of `text', the rank of its        *)
(* description and reason in string order, and of `info', its disruption   *)
(* category and additional info, which no alert mentions.  A status list   *)
(* is a set: the TfL client drops duplicates and the worker compares lists *)
(* sorted.  A snapshot is [line, observed, statuses].                      *)
(***************************************************************************)
EXTENDS Naturals

PartSuspended  == 3
PlannedClosure == 4
SevereDelays   == 6
MinorDelays    == 9
GoodService    == 10

DISRUPTION_SEVERITIES == (0 .. MinorDelays) \ {PlannedClosure}

Status == [severity : Nat, text : Nat, info : Nat]

Disruptions(statuses) ==
    {s \in statuses : s.severity \in DISRUPTION_SEVERITIES}

IsDisrupted(statuses) == Disruptions(statuses) # {}

\* Good service with no disruption beside it: what a recovery announces.
GoodServices(statuses) == {s \in statuses : s.severity = GoodService}

\* Mutant of MostSevere: max().
MostSevereByMax(statuses) ==
    CHOOSE s \in Disruptions(statuses) :
        \A t \in Disruptions(statuses) :
            \/ s.severity > t.severity
            \/ s.severity = t.severity /\ s.text >= t.text

\* min() by severity, then description, then reason.
MostSevere(statuses) ==
    CHOOSE s \in Disruptions(statuses) :
        \A t \in Disruptions(statuses) :
            \/ s.severity < t.severity
            \/ s.severity = t.severity /\ s.text <= t.text

-----------------------------------------------------------------------------
Started == "disruption_started"
Changed == "disruption_changed"
Resumed == "service_resumed"

EventType == {Started, Changed, Resumed}

\* The dedupe key is a hash of exactly these fields, so a candidate is its
\* own key (the hash is taken to be injective).
Candidate(snapshot, type, status) ==
    [line     |-> snapshot.line,
     type     |-> type,
     observed |-> snapshot.observed,
     severity |-> status.severity,
     text     |-> status.text]

\* Mutant of Detected: any other statuses of a disrupted line are a change.
DetectedOnAnyChange(previous, current) ==
    IF IsDisrupted(previous.statuses) /\ IsDisrupted(current.statuses)
    THEN {Candidate(current, Changed, MostSevere(current.statuses))}
    ELSE {}

\* Mutant of Detected: a disruption that ends is a recovery, good service or not.
DetectedOnAnyEnd(previous, current) ==
    IF IsDisrupted(previous.statuses) /\ ~ IsDisrupted(current.statuses)
    THEN {Candidate(current, Resumed, CHOOSE s \in current.statuses : TRUE)}
    ELSE {}

\* Mutant of Detected: a change tells what the disruption was before.
DetectedTellingPrevious(previous, current) ==
    IF IsDisrupted(previous.statuses) /\ IsDisrupted(current.statuses)
    THEN {Candidate(current, Changed, MostSevere(previous.statuses))}
    ELSE {}

\* The candidate, if any, that a change of statuses raises, as a set; with no
\* previous snapshot of the day a new one raises none.
Detected(previous, current) ==
    LET was == IsDisrupted(previous.statuses)
        is  == IsDisrupted(current.statuses)
        worst  == MostSevere(current.statuses)
        before == MostSevere(previous.statuses)
    IN  CASE is /\ ~was -> {Candidate(current, Started, worst)}
          [] is /\ was /\ worst.severity < before.severity ->
                 {Candidate(current, Changed, worst)}
          [] was /\ ~is /\ GoodServices(current.statuses) # {} ->
                 {Candidate(current, Resumed,
                            CHOOSE s \in GoodServices(current.statuses) : TRUE)}
          [] OTHER -> {}

\* The candidate, if any, of a disruption that is still going on.
ActiveDisruption(snapshot) ==
    IF IsDisrupted(snapshot.statuses)
    THEN {Candidate(snapshot, Started, MostSevere(snapshot.statuses))}
    ELSE {}
=============================================================================

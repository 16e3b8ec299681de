------------------------------ MODULE Matching ------------------------------
(***************************************************************************)
(* Which devices a candidate is meant for: app/notifications/matching.py.  *)
(*                                                                         *)
(* A device row is [enabled, lines]; `lines' maps the lines the device has *)
(* preferences for to [enabled, threshold, recoveries, open].  `open' is   *)
(* the set of times at which one of the line's schedules contains the      *)
(* time in the device's time zone.  A device with no preferences row       *)
(* behaves as one whose `lines' is empty: neither is ever matched.         *)
(***************************************************************************)
EXTENDS LineStatuses

Threshold == {"minor_delays", "severe_delays", "suspended"}

MeetsThreshold(severity, threshold) ==
    CASE threshold = "minor_delays"  -> severity <= MinorDelays
      [] threshold = "severe_delays" -> severity <= SevereDelays
      [] threshold = "suspended"     -> severity \in 1 .. PartSuspended

\* device_matches_candidate, but for the list of devices already alerted.
DeviceMatches(candidate, row, at) ==
    /\ row.enabled
    /\ candidate.line \in DOMAIN row.lines
    /\ LET preference == row.lines[candidate.line]
       IN  /\ preference.enabled
           /\ IF candidate.type = Resumed
              THEN preference.recoveries
              ELSE MeetsThreshold(candidate.severity, preference.threshold)
           /\ at \in preference.open

\* Mutant of MatchingTargets: the devices notified are not looked at.
TargetsWhoeverWasNotified(candidate, table, at, notified) ==
    {d \in DOMAIN table : DeviceMatches(candidate, table[d], at)}

\* Mutant of MatchingTargets: rows in place of device ids.
TargetRows(candidate, table, at, notified) ==
    {table[d] : d \in {e \in DOMAIN table : DeviceMatches(candidate, table[e], at)}}

\* A recovery goes only to the devices notified of the disruption.
MatchingTargets(candidate, table, at, notified) ==
    {d \in DOMAIN table :
        /\ candidate.type = Resumed => d \in notified
        /\ DeviceMatches(candidate, table[d], at)}
=============================================================================

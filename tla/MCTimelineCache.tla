--------------------------- MODULE MCTimelineCache ---------------------------
(***************************************************************************)
(* An instance of TimelineCache for TLC: two lines on the day before the   *)
(* night and one on the day after, in a cache with room for two.           *)
(***************************************************************************)
EXTENDS TimelineCache, TLC

CONSTANTS victoria, central, tomorrow, q1, q2

Dates == (victoria :> 0) @@ (central :> 0) @@ (tomorrow :> 1)

\* The new operational day begins at time 1.
Days == [t \in Time |-> IF t < 1 THEN 0 ELSE 1]

Symmetry == Permutations({victoria, central}) \cup Permutations({q1, q2})
=============================================================================

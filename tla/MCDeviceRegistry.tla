-------------------------- MODULE MCDeviceRegistry --------------------------
(***************************************************************************)
(* Instances of DeviceRegistry for TLC.                                    *)
(***************************************************************************)
EXTENDS DeviceRegistry, TLC

CONSTANTS d1, d2, victoria, trams, enabled, threshold, on, off, r1, r2

All(v) == [f \in Field |-> v]

Only(f, v) == [g \in {f} |-> v]

\* One line, in place of whatever there is.
PutBodies == {[l \in {victoria} |-> All(on)]}

\* One column of one line, the other line removed; the same column of both
\* lines; a new line.
PatchBodies ==
    {[l \in {victoria, trams} |->
            IF l = victoria THEN Only(enabled, off) ELSE Null],
     [l \in {victoria, trams} |-> Only(threshold, off)],
     [l \in {trams} |-> All(on)]}

\* Requests and tokens may be renamed.
Symmetry == {f @@ g : f \in Permutations(Request), g \in Permutations(Token)}
=============================================================================

-------------------------- MODULE MC_FleetCatalog --------------------------
(* Two programs, two AGVs and two names for models. *)
EXTENDS FleetCatalog, TLC

CONSTANTS p1, p2, a1, a2, m1, m2

\* The programs can be exchanged, and so can the AGVs and the names.
Interchangeable == Permutations({p1, p2}) \cup Permutations({a1, a2}) \cup Permutations({m1, m2})
=============================================================================

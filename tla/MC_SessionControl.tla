-------------------------- MODULE MC_SessionControl --------------------------
(* Two copies started from one directory and one from another.             *)
EXTENDS SessionControl, TLC

CONSTANTS k1, k2, k3, d1, d2, u1, u2
SharedInstallation == k1 :> d1 @@ k2 :> d1 @@ k3 :> d2
TwoInstallations == k1 :> d1 @@ k3 :> d2
\* Accounts can be exchanged, and so can the two copies of the first directory.
Interchangeable == Permutations({u1, u2}) \cup Permutations({k1, k2})
=============================================================================

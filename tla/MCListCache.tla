---------------------------- MODULE MCListCache ----------------------------
(* Instances of ListCache for TLC. *)
EXTENDS ListCache, TLC

CONSTANTS r1, r2, k1, k2, k3

\* Readers and lists are interchangeable.
ListSymmetry == Permutations({r1, r2}) \cup Permutations({k1, k2, k3})
=============================================================================

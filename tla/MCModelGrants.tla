---------------------------- MODULE MCModelGrants ----------------------------
(* Instances of ModelGrants for TLC: two delegators.                       *)
EXTENDS ModelGrants, TLC

CONSTANTS i1, i2, k1, k2

Interchangeable == Permutations({i1, i2}) \cup Permutations({k1, k2})
=============================================================================

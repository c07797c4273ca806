----------------------------- MODULE MCCheckJobs -----------------------------
(* Instances of CheckJobs for TLC.                                         *)
EXTENDS CheckJobs, TLC

CONSTANTS m1, m2, w1, w2, k1, a, b, g

Interchangeable ==
  Permutations({m1, m2}) \cup Permutations({w1, w2}) \cup Permutations({a, b})
=============================================================================

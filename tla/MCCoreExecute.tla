---------------------------- MODULE MCCoreExecute ----------------------------
(* Instances of CoreExecute for TLC: two processes; a file write f and a   *)
(* replayable command g; n is not replayable.                              *)
EXTENDS CoreExecute, TLC

CONSTANTS c1, c2, k1, k2, f, g, n

Interchangeable == Permutations({c1, c2}) \cup Permutations({k1, k2})
=============================================================================

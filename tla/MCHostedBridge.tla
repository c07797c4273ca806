--------------------------- MODULE MCHostedBridge ---------------------------
(* Instances of HostedBridge for TLC: two requests of one session and one  *)
(* detached worker.                                                        *)
EXTENDS HostedBridge, TLC

CONSTANTS c1, c2, w1, k1, d1, r1

Interchangeable == Permutations({c1, c2})
=============================================================================

--------------------------- MODULE MCSessionStore ---------------------------
(* Instances of SessionStore for TLC: two processes, one idempotency key.  *)
EXTENDS SessionStore, TLC

CONSTANTS c1, c2, k1, d1, d2, r1

\* Processes are interchangeable; so are the two digests.
Interchangeable == Permutations({c1, c2}) \cup Permutations({d1, d2})
=============================================================================

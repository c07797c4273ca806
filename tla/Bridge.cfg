\* Requests and a worker around crashes, revocation and lost projects; heartbeats come in time.
SPECIFICATION FairSpec
CONSTANTS
  c1 = c1
  c2 = c2
  w1 = w1
  k1 = k1
  d1 = d1
  r1 = r1
  None = None
  Nobody = Nobody
  Client = {c1, c2}
  Worker = {w1}
  Caller = {c1, c2, w1}
  Sibling = {c1, c2}
  Key = {k1}
  Digest = {d1}
  Result = {r1}
  TTL = 1
  MaxToken = 4
  MaxRev = 3
  MaxLease = 4
  Marker = TRUE
  Timely = TRUE
  Fault = {"project_gone"}
  Lifecycle = {"rename", "archive", "unarchive", "revoke", "revoke_cut_short", "acquire_cut_short", "crash"}
INVARIANTS OneAtATime
 
\* Requests stop coming; the bounds stop the counters.
CHECK_DEADLOCK FALSE

\* Requests that are superseded, stranded or die, PIDs that are used again, files that cannot
\* be read, and a worker among them.
SPECIFICATION Spec
CONSTANTS
  c1 = c1
  c2 = c2
  w1 = w1
  k1 = k1
  d1 = d1
  r1 = r1
  None = None
  Nobody = Nobody
  Client = {c1, c2}
  Worker = {w1}
  Caller = {c1, c2, w1}
  Sibling = {c1, c2}
  Key = {k1}
  Digest = {d1}
  Result = {r1}
  TTL = 1
  MaxToken = 3
  MaxRev = 2
  MaxLease = 3
  Marker = FALSE
  Timely = FALSE
  Fault = {"project_gone", "unreadable"}
  Lifecycle = {"revoke", "reactivate", "acquire_cut_short", "crash"}
SYMMETRY Interchangeable
INVARIANTS WorkerIsFenced
\* Requests stop coming; the bounds stop the counters.
CHECK_DEADLOCK FALSE

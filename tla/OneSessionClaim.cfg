\* A request that is superseded before it has the repository resumes.
SPECIFICATION Spec
CONSTANTS
  c1 = c1
  c2 = c2
  w1 = w1
  k1 = k1
  d1 = d1
  r1 = r1
  None = None
  Nobody = Nobody
  Client = {c1, c2}
  Worker = {w1}
  Caller = {c1, c2, w1}
  Sibling = {c1, c2}
  Key = {k1}
  Digest = {d1}
  Result = {r1}
  TTL = 1
  MaxToken = 2
  MaxRev = 1
  MaxLease = 3
  Marker = TRUE
  Timely = FALSE
  Fault = {}
  Lifecycle = {}
SYMMETRY Interchangeable
INVARIANTS OneSessionMutates
\* Requests stop coming; the bounds stop the counters.
CHECK_DEADLOCK FALSE

\* Every request leaves execute and releases its lease, under fair scheduling.
SPECIFICATION FairSpec
CONSTANTS
  c1 = c1
  c2 = c2
  k1 = k1
  k2 = k2
  f = f
  g = g
  n = n
  None = None
  Client = {c1, c2}
  Key = {k1}
  Digest = {f, n}
  Replayable = {f}
  FileOp = {f}
  Result = {1, 2}
  MaxEffect = 2
  TTL = 2
  MaxToken = 2
  MaxRev = 3
  Lifecycle = {"rename", "revoke", "archive", "unarchive", "crash"}
PROPERTIES LeaseIsGivenBack
\* Requests stop coming; the bounds stop the counters.
CHECK_DEADLOCK FALSE

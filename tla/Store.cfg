\* Every operation and every event.
SPECIFICATION StoreSpec
CONSTANTS
  c1 = c1
  c2 = c2
  k1 = k1
  d1 = d1
  d2 = d2
  r1 = r1
  None = None
  Client = {c1, c2}
  Key = {k1}
  Digest = {d1, d2}
  Result = {r1}
  TTL = 2
  MaxToken = 2
  MaxRev = 3
  Lifecycle = {"create", "rename", "archive", "unarchive", "revoke", "revoke_cut_short", "acquire_cut_short", "reactivate", "delete", "crash"}
SYMMETRY Interchangeable
INVARIANTS TypeOK ArchivedIsQuiet CopyIsCurrent
PROPERTIES OnlyLatestTokenWrites NoLostUpdate IdempotencyForward RevocationSticks
\* Processes and users may simply stop; the bounds stop the counters.
CHECK_DEADLOCK FALSE

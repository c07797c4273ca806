\* One key asked for three times by two processes, with the same input or
\* another, replayable or not, around crashes, expiry, take-over, rename and
\* revoke; against the abstract journal.
SPECIFICATION Spec
CONSTANTS
  c1 = c1
  c2 = c2
  k1 = k1
  k2 = k2
  f = f
  g = g
  n = n
  None = None
  Client = {c1, c2}
  Key = {k1}
  Digest = {f, g, n}
  Replayable = {f, g}
  FileOp = {f}
  Result = {1, 2}
  MaxEffect = 2
  TTL = 1
  MaxToken = 3
  MaxRev = 3
  Lifecycle = {"rename", "revoke", "acquire_cut_short", "crash"}
SYMMETRY Interchangeable
INVARIANTS ExecTypeOK AtMostOnce IntentPrecedesEffect AnswersAreDurable
PROPERTIES ImplementsJournal
\* Requests stop coming; the bounds stop the counters.
CHECK_DEADLOCK FALSE

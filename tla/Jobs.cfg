\* Two managers and two workers; stores of both kinds, stale locks, slow children.
SPECIFICATION Spec
CONSTANTS
  m1 = m1
  m2 = m2
  w1 = w1
  w2 = w2
  k1 = k1
  a = a
  b = b
  g = g
  None = None
  Nobody = Nobody
  Manager = {m1, m2}
  Worker = {w1, w2}
  Caller = {w1, w2}
  Sibling = {}
  Marker = TRUE
  MaxLease = 2
  Key = {k1}
  Workspace = {a, b}
  Generation = {g}
  MaxEvent = 2
  Kind = {"check", "command"}
  Steady = {TRUE, FALSE}
  Prompt = {TRUE, FALSE}
SYMMETRY Interchangeable
INVARIANTS JobsTypeOK OneWorkerPerJob OverMeansQuiet 
PROPERTIES FinalStatusStands
\* Managers stop; there are only so many workers.
CHECK_DEADLOCK FALSE

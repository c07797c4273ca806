\* Two callers of two projects, two process ids, leases that may expire.
SPECIFICATION Spec
CONSTANTS
  a = a
  b = b
  i = i
  j = j
  mine = mine
  other = other
  None = None
  Caller = {a, b}
  Project = {mine, other}
  Home <- HomeOfTwo
  Pid = {i, j}
  Expiring = TRUE
  MaxBorn = 3
INVARIANTS ServiceTypeOK NothingRunsUnrecorded StoppedIsGone
 
\* Processes are started a bounded number of times.
CHECK_DEADLOCK FALSE

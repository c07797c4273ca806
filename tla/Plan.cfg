\* Two calls of one plan, in one process or in two, and another session; three
\* plans; two edits by somebody else or crashes.
SPECIFICATION Spec
CONSTANTS
  a = a
  b = b
  o = o
  p = p
  q = q
  r1 = r1
  p1 = p1
  p2 = p2
  c1 = c1
  None = None
  Nobody = Nobody
  Runner = {a, b}
  Other = {o}
  Caller = {a, b, o}
  Sibling = {a, b}
  Path = {p, q}
  Op = {r1, p1, p2, c1}
  Plans <- Typical
  MaxTries = 2
  Batch = 2
  MaxRun <- TwoOrThree
  MaxEvent <- Two
  MaxLease = 3
  Marker = TRUE
SYMMETRY Interchangeable
INVARIANTS PlanTypeOK    
PROPERTIES CompleteIsFinal
\* Calls are bounded.
CHECK_DEADLOCK FALSE

\* Two delegators share a key under a budget of one call.
SPECIFICATION Spec
CONSTANTS
  i1 = i1
  i2 = i2
  k1 = k1
  k2 = k2
  None = None
  Invoker = {i1, i2}
  Key = {k1}
  Bound = {1}
  Budget = 1
  MaxCalls = 1
  MaxParallel = 1
  Overrun = 0
  MaxCrash = 0
  MaxBill = 1
  Reuse = {"any"}
INVARIANTS NeverOverspent
\* Delegators and the user stop; the calls of the grant run out.
CHECK_DEADLOCK FALSE

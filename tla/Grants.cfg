\* Two delegators and two keys; in half of the behaviours both may use one key.
SPECIFICATION Spec
CONSTANTS
  i1 = i1
  i2 = i2
  k1 = k1
  k2 = k2
  None = None
  Invoker = {i1, i2}
  Key = {k1, k2}
  Bound = {1, 2}
  Budget = 2
  MaxCalls = 2
  MaxParallel = 2
  Overrun = 1
  MaxCrash = 1
  MaxBill = 2
  Reuse = {"abandoned", "any"}
SYMMETRY Interchangeable
INVARIANTS GrantTypeOK LedgerAgrees BudgetHolds 
PROPERTIES SettlementIsFinal
\* Delegators and the user stop; the calls of the grant run out.
CHECK_DEADLOCK FALSE

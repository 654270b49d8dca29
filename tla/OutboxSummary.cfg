SPECIFICATION Spec
CONSTANTS
  None = None
  r1 = r1
  r2 = r2
  n1 = n1
  n2 = n2
  Receipts = {r1, r2}
  Windows = {"w1"}
  Flushers = {f1}
  StartPlain = {}
  BatchSize = 2
  MaxPending = 2
  Expires = TRUE
  MaxFaults = 1
  IdOf <- MCIdOf
  WindowOf <- OneWindow
  Fate <- MCFate
INVARIANT AcknowledgedAtWorkspace
CHECK_DEADLOCK FALSE

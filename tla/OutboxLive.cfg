SPECIFICATION FairSpec
CONSTANTS
  None = None
  r1 = r1
  r2 = r2
  n1 = n1
  n2 = n2
  Receipts = {r1, r2, n2}
  Windows = {"w1"}
  Flushers = {f1}
  StartPlain = {}
  BatchSize = 2
  MaxPending = 2
  Expires = FALSE
  MaxFaults = 2
  IdOf <- MCIdOf
  WindowOf <- OneRoutine
  Fate <- MCFate
PROPERTIES
  EventuallySettled
CHECK_DEADLOCK FALSE

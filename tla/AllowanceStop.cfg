SPECIFICATION AllowSpec
CONSTANTS
  b1 = b1
  b2 = b2
  i1 = i1
  i2 = i2
  BlockedCalls = {b1, b2}
  Keys = {"k1", "k2"}
  KeyOf <- TwoActions
  AllowanceIds = {i1, i2}
  CoverFor = 0
  DailyLimit = 2
  KeepExpired = 1
  MaxAllowTime = 1
  MaxDocChanges = 1
  KnowsKind = TRUE
  UseRaces = FALSE
PROPERTY StoppedStaysStopped
CHECK_DEADLOCK FALSE

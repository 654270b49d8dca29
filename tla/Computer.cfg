SPECIFICATION Spec
CONSTANTS
  m1 = m1
  m2 = m2
  g1 = g1
  g2 = g2
  g3 = g3
  Hooks = {m1, m2}
  Groups = {g1, g2, g3}
  Limits = {"writes", "old"}
  GuardOf <- CurrentAndLegacy
  MaxOf <- OneEach
  Enforced = {"writes", "old"}
  Touches <- TwoLimited
  Launches = {g3}
  AfterFact = {}
  Twice = {g1}
  MaxGroups = 1
  MaxTries <- OneRetried
  MaxDeaths = 1
  Checks = {m1, m2}
  SignatureMode = "dual"
  FreshFor = 1
  EndsAt = {"asking", "answered", "policy", "doc", "record", "dropPolicy", "dropDoc", "dropRecord", "save"}
  MaxRev = 2
  MaxTime = 3
  MaxStops = 1
  t1 = t1
  ToolCalls = {m1, m2, t1}
  Window = 1
  MaxCount = 1
  Slack = 1
  HistoryCap = 1
  RecheckAfter = 1
  MaxProxyTime = 1
  BlockedCalls = {m1, m2}
  Keys = {"k1"}
  KeyOf <- SameAction
  AllowanceIds = {m1, m2}
  CoverFor = 1
  DailyLimit = 1
  KeepExpired = 0
  MaxAllowTime = 1
  MaxDocChanges = 2
  KnowsKind = TRUE
  UseRaces = TRUE
  Openers = {m1, m2}
  MaxPending = 2
  MaxTerminal = 1
  BatchItems = 2
  MaxGeneration = 2
  MaxActivations = 2
  MaxQueued = 3
  MaxOther = 2
INVARIANTS
  BudgetTypeOK
  BudgetNotExceeded
  CountsOnlyWhatRan
  RulesTypeOK
  TrustedMeansExplained
  CheckedMeansCurrent
  GrantStopsInTime
  ProxyTypeOK
  OnlyLiveCallsCount
  AllowancesTypeOK
  LetThroughExplained
  ObsTypeOK
  NumberedWithoutGaps
  NothingVanishes
  SessionToldInOrder
PROPERTIES
  AcceptedStays
  UnsignedRefusedOnceLatched
  DecidedOnWholeHistory
  MismatchIsFinal
  WorkspaceHasTheLastWord
CONSTRAINT Guarded
SYMMETRY Interchangeable
CHECK_DEADLOCK FALSE

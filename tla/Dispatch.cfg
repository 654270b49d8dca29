SPECIFICATION PartsSpec
CONSTANTS
  None = None
  p1 = p1
  p2 = p2
  Procs = {p1, p2}
  Requests <- AllRequests
  Guarded = {"push"}
  Approvals = {"a1"}
  ApprovalOf <- ApprovalOfAgent
  CloudApprovals = {"c1"}
  CloudFor <- CloudForPush
  Delegations = {"root", "leaf"}
  Grants <- RootAndLeaf
  WorkspaceScope <- Workspace
  Budgets = {"hourly", "watch"}
  PolicyOf <- Policies
  Covers <- Patterns
  SharedGateway = FALSE
  HasCloud = TRUE
  CacheTtl = 1
  Tolerance = 0
  Skew = 1
  MaxDepth = 2
  MaxTime = 3
  MaxCalls = 2
  MaxSetBacks = 1
SYMMETRY Symmetry
INVARIANTS
  TypeOK
  ApprovalSingleUse
  CloudApprovalSingleUse
  StoreSpendsOnlyForAllowed
  EveryIntentApproved
  EnforcedActionsCounted
  BudgetHolds
  ChainsNarrow
PROPERTIES
  SpendsInOneStep
  RevokedChainStops
CHECK_DEADLOCK FALSE

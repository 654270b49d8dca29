SPECIFICATION Spec
CONSTANTS
  None = None
  r1 = r1
  r2 = r2
  a1 = a1
  Requests = {r1, r2}
  Approvals = {a1}
  Agents = {ag1}
  Targets = {"global"}
  Gateways = {g1, g2}
  Operators = {o1}
  Repairers = {p1}
  Modes = {"dispatch", "recovery", "simulation"}
  Cap = 1
  MaxCrashes = 1
  Signer <- MCSigner
  Submissions <- MCSubmissions
INVARIANT NotStartedMeansNotSent
SYMMETRY Symmetric
CHECK_DEADLOCK FALSE

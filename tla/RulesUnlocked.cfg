SPECIFICATION RulesSpec
CONSTANTS
  Checks = {"c1", "c2"}
  SignatureMode = "dual"
  FreshFor = 1
  EndsAt = {"asking", "answered"}
  MaxRev = 1
  MaxTime = 2
  MaxStops = 0
PROPERTY AcceptedForGood
CHECK_DEADLOCK FALSE

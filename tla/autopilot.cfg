SPECIFICATION Spec
CONSTANTS
  Changes = {1, 2}
  Gated = {2}
  Create = {1}
  Sigs = {"timeout"}
  BaseRef = "none"
  MaxResets = 1
  Passes = 2
  MaxStarts = 2
  MaxKills = 1
  MaxOps = 2
INVARIANTS
  ResetsBounded
  DeliveredWhole
PROPERTIES
  VetoHolds
  UnitSettles
CHECK_DEADLOCK FALSE

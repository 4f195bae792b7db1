CONSTANTS
  None = None
  Estimates = {2}
  Costs = {3}
  Totals = {2, 6}
  PerActions = {2}
  Attempts = {1}
  Deadlines = {1}
  Bounds = {1}
  MaxUsed = 1
  BackoffMax = 2
  MaxActions = 3
  MaxRevisions = 1
  MaxCrashes = 1
  MaxElapsed = 1
SPECIFICATION Spec
INVARIANTS BoundedOvershoot GrantBounded
PROPERTY ChargedOnce
CHECK_DEADLOCK FALSE

SPECIFICATION Spec
CONSTANTS
  MaxRounds = 2
  MaxAttempts = 1
  BackoffMax = 1
  InvalidRetries = 1
  Slots = 3
  MaxRuns = 2
  MaxEdits = 1
INVARIANTS
  Accounted
  NothingElseUnconfirmed
  ArchiveVetted
PROPERTY SupersededIsDead
CHECK_DEADLOCK FALSE

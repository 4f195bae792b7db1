SPECIFICATION FairSpec
CONSTANTS
  MaxRounds = 1
  MaxAttempts = 2
  BackoffMax = 2
  InvalidRetries = 0
  Slots = 5
  MaxRuns = 1
  MaxEdits = 0
PROPERTY RunEnds
CHECK_DEADLOCK FALSE

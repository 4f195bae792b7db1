CONSTANTS
  MaxStarts = 2
  MaxRecoveries = 1
  MaxPolls = 2
SPECIFICATION Spec
INVARIANTS OnePrompt OutcomeIsOwn IdentityFirst ReachesBoundServer
PROPERTY StartEnds
CHECK_DEADLOCK FALSE

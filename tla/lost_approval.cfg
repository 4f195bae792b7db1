\* An approval recorded while a run is in progress, then the next save of the run.
SPECIFICATION Spec

CONSTANTS
  a = a
  b = b
  c3 = c3
  l1 = l1
  l2 = l2
  MaxRounds = 2
  NoProgressLimit = 2
  RecurrenceLimit = 0
  EscalateAfter = 0
  CreateMaxAttempts = 1
  Loci = {l1}
  ArchiveIgnored = FALSE
  Changes <- TwoChanges
  NoChange = none
  Deps <- NoDeps
  Rank <- LoadedRank
  Enabled = {a, b}
  PauseBefore = {b}
  ReviewCreated = FALSE
  Reviews <- CoarseReviews
  InvalidRetries = 0
  RunPolicies = {"strict"}
  RunModes = {"drive"}
  RunOnly <- OnlyAll
  InitRecords <- NoHistory
  InitActive = {"valid"}
  InitInvokes = {}
  OperatorOps = {}
  MaxRuns = 2
  MaxEdits = 1

PROPERTIES
  ApprovalSticks

CHECK_DEADLOCK FALSE

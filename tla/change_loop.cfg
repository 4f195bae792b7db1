\* One change, authored or to be created, perhaps with the record of an archive that was taken
\* back; three rounds, two loci, every kind of review answer; runs may
\* differ in severity policy and in --create-only; one operator operation between them.
SPECIFICATION FairSpec

CONSTANTS
  a = a
  b = b
  c3 = c3
  l1 = l1
  l2 = l2
  MaxRounds = 3
  NoProgressLimit = 2
  RecurrenceLimit = 2
  EscalateAfter = 1
  CreateMaxAttempts = 1
  Loci = {l1, l2}
  ArchiveIgnored = FALSE
  Changes <- OneChange
  NoChange = none
  Deps <- NoDeps
  Rank <- LoadedRank
  Enabled = {a}
  PauseBefore = {}
  ReviewCreated = TRUE
  Reviews <- FineReviews
  InvalidRetries = 1
  RunPolicies = {"strict", "skip_warning"}
  RunModes = {"drive", "create"}
  RunOnly <- OnlyAll
  InitRecords <- WithHistory
  InitActive = {"none", "valid"}
  InitInvokes = {}
  OperatorOps = {"commit", "reset", "configure"}
  MaxRuns = 2
  MaxEdits = 1

INVARIANTS
  ArchiveOnlyReviewed
  OneImplementPerRound
  FixPromptIsLatest
  CriticalRecurrenceStops
  ResumeSameRound

CHECK_DEADLOCK FALSE

\* Two changes, the second gated and depending on the first, created by the run or authored
\* before it or between runs; leftovers are committed, an archive is undone and a directory
\* deleted between runs, and a run may be of the second alone.
SPECIFICATION FairSpec

CONSTANTS
  a = a
  b = b
  c3 = c3
  l1 = l1
  l2 = l2
  MaxRounds = 1
  NoProgressLimit = 1
  RecurrenceLimit = 0
  EscalateAfter = 0
  CreateMaxAttempts = 2
  Loci = {l1}
  ArchiveIgnored = FALSE
  Changes <- TwoChanges
  NoChange = none
  Deps <- ForkDeps
  Rank <- LoadedRank
  Enabled = {a, b}
  PauseBefore = {b}
  ReviewCreated = TRUE
  Reviews <- CoarseReviews
  InvalidRetries = 1
  RunPolicies = {"strict"}
  RunModes = {"drive"}
  RunOnly <- OnlySome
  InitRecords <- NoHistory
  InitActive = {"none", "valid"}
  InitInvokes = {b}
  OperatorOps = {"commit", "author", "delete", "revert"}
  MaxRuns = 2
  MaxEdits = 1

INVARIANTS
  TypeOK
  DispatchOrder
  DirtyIsMine
  GatesHeld
  CreateBudget

PROPERTIES
  RefinesContract
  RunEnds

CHECK_DEADLOCK FALSE

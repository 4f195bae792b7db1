SPECIFICATION Spec
CONSTANTS
  absent = absent
  present = present
  NoChange = NoChange
  Changes <- MCChanges
  Gate <- MCGate
  Unauthored <- MCUnauthored
  Handled <- MCUnauthored
  Stages = 1
  CreateMaxAttempts = 1
  MaxReceipts = 4
  MaxRevision = 1
INVARIANTS
  DispatchReleased
  RevisionStops
  AcceptedFirst
  ArchivedStaysDone

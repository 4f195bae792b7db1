SPECIFICATION Spec
CONSTANTS
  Ids <- MCIds
  Root = "root"
  Undefined = "nobody"
  NoAccount = NoAccount
  NoTool = NoTool
  NoJob = NoJob
  NoReport = NoReport
  Hosts <- MCHosts
  Change <- MCChange
  MaxChanges = 1
  MaxCommands = 2
INVARIANTS
  EnabledIsProtected
  RefusedHasCause
PROPERTIES
  ProbedNow
CHECK_DEADLOCK FALSE

SPECIFICATION Spec
CONSTANTS
  Drivers = {d1, d2}
  Watchdog = watchdog
  Nobody = nobody
  Gone = gone
  DriveModes = {"full"}
  MaxAttempts = 0
  Changes = 1
  MaxKills = 1
INVARIANTS
  StopHolds
  OneWorker
PROPERTIES
  OneEngine

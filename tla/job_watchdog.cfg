SPECIFICATION Spec
CONSTANTS
  Drivers = {d1}
  Watchdog = watchdog
  Nobody = nobody
  Gone = gone
  DriveModes = {"bare", "full"}
  MaxAttempts = 1
  Changes = 2
  MaxKills = 1
PROPERTY StopReached

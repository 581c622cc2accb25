\* A program with a 3 s timeout, cycles of 1 to 2 s, a child that exits with
\* 0, 1 or 2 or never, Command_execute() that may fail, and a service
\* validated every 2 cycles that the user may unmonitor.
CONSTANTS
  Timeout = 3
  MaxStep = 2
  ExitCodes = {0, 1, 2}
  StatusList <- MCStatusList
  SpawnCanFail = TRUE
  EveryCycles = 2
SPECIFICATION Spec
INVARIANT TypeOK
INVARIANT KilledAfterTimeout
PROPERTY ChildEventuallyReaped

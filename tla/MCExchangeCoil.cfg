SPECIFICATION Spec
CONSTANTS
  Cells = 10
  RefusalCodes <- MCRefusals
  Calls <- CoilCalls
  Cores <- MCCores
  Slave = 1
  FirstTids = {0}
  Contents <- ZeroOnly
  Stale = {0}
INVARIANTS
  CoilIsWritten
CHECK_DEADLOCK FALSE

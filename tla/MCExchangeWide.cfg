SPECIFICATION Spec
CONSTANTS
  Cells = 10
  RefusalCodes <- MCRefusals
  Calls <- WideCalls
  Cores <- TcpOnly
  Slave = 1
  FirstTids = {0}
  Contents <- ZeroOnly
  Stale = {0}
INVARIANTS
  QuantityAllowed
CHECK_DEADLOCK FALSE

SPECIFICATION FairSpec
CONSTANTS
  Threads = {rtu, tcp}
  Coils = 2
  SemMax = 2
  MaxWrites = 2
  MaxFailures = 1
PROPERTIES
  ChangesReachRemote
CHECK_DEADLOCK FALSE

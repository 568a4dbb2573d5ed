SPECIFICATION FairSpec
CONSTANTS
  Threads = {rtu, tcp}
  Coils = 2
  SemMax = 2
  MaxWrites = 2
  MaxFailures = 0
PROPERTIES
  WrittenBitKept
CHECK_DEADLOCK FALSE

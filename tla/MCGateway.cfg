SPECIFICATION FairSpec
CONSTANTS
  Threads = {rtu, tcp}
  Coils = 2
  SemMax = 2
  MaxWrites = 3
  MaxFailures = 1
INVARIANTS
  TypeOK
  ChangeIsPending
PROPERTIES
  RemoteFollows
CHECK_DEADLOCK FALSE

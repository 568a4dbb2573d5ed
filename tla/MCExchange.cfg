SPECIFICATION Spec
CONSTANTS
  Cells = 10
  RefusalCodes <- MCRefusals
  Calls <- MCCalls
  Cores <- MCCores
  Slave = 1
  FirstTids = {0, 1, 2, 255, 65535}
  Contents <- MCContents
  Stale = {0, 255}
INVARIANTS
  QueryUnderstood
  AnswerUnderstood
  SamplesMatch
PROPERTIES
  DamageIsNoticed
CHECK_DEADLOCK FALSE

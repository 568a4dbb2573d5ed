SPECIFICATION Spec
CONSTANTS
  FifoSize = 4
  SemMax = 6
  Burst = 2
  FlushMax = 5
  Lengths = {1, 2, 4}
INVARIANTS
  TypeOK
  NoLostWakeup
  NoFalseError
  FlushDropsOld
PROPERTIES
  WaitEnds

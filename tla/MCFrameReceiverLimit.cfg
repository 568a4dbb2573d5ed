SPECIFICATION Spec
CONSTANTS
  Functions <- MCFunctions
  Counts <- MCCounts
  RxCap = 3
  MaxSurplus = 2
INVARIANTS
  RtuFrameLimit

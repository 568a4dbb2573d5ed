SPECIFICATION Spec
CONSTANTS
  Elements <- MCElements
  buffer_size = 3
  Bursts <- MCBursts
  Requests = {0, 1, 2, 3, 4}
INVARIANTS
  TypeOK
  MirrorInv
PROPERTIES
  ImplementsFifo

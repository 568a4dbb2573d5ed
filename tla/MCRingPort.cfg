SPECIFICATION Spec
CONSTANTS
  Ports <- MCPorts
  RingSize = 3
  Lengths = {1, 2, 4}
  MaxBytes = 12
INVARIANTS
  TypeOK
  NothingLost
PROPERTIES
  WaitHears

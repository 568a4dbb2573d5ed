SPECIFICATION Spec
CONSTANTS
  Ports <- SlavePorts
  RingSize = 3
  Lengths = {1, 2, 4}
  MaxBytes = 12
PROPERTIES
  WaitHears

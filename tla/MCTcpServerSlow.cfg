SPECIFICATION Spec
CONSTANTS
  Conns = {c1}
  Fds = {0, 1, 2, 3}
  MaxClients = 2
  MaxRequests = 1
  MaxFaults = 0
  Pipelined = {}
  Split = {c1}
PROPERTIES
  EveryRequestAnswered
CHECK_DEADLOCK FALSE

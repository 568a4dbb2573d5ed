SPECIFICATION Spec
CONSTANTS
  Conns = {c1, c2}
  Fds = {0, 1, 2, 3}
  MaxClients = 2
  MaxRequests = 2
  MaxFaults = 0
  Pipelined = {c1}
  Split = {}
INVARIANTS
  AnswerReachesAsker
CHECK_DEADLOCK FALSE

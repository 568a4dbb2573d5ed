SPECIFICATION Spec
CONSTANTS
  Conns = {c1, c2, c3}
  Fds = {0, 1, 2, 3}
  MaxClients = 2
  MaxRequests = 1
  MaxFaults = 2
  Pipelined = {}
  Split = {c3}
INVARIANTS
  TypeOK
  AnswerReachesAsker
  DescriptorsAccounted
  NeverWaitsForOne
PROPERTIES
  WholeRequestAnswered
  EveryClientTaken
CHECK_DEADLOCK FALSE

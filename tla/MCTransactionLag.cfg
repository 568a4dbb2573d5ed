SPECIFICATION Spec
CONSTANTS
  Settings <- LagSettings
  Requests <- InsideRequests
  Values <- MCValues
  RefusalCodes <- MCRefusalCodes
  Cells = 2
PROPERTIES
  AnsweredAgainTcp

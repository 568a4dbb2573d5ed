SPECIFICATION Spec
CONSTANTS
  Settings <- QuietSettings
  Requests <- MCRequests
  Values <- MCValues
  RefusalCodes <- MCRefusalCodes
  Cells = 2
INVARIANTS
  ReadOkDelivers

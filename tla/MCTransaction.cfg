SPECIFICATION Spec
CONSTANTS
  Settings <- MCSettings
  Requests <- MCRequests
  Values <- MCValues
  RefusalCodes <- MCRefusalCodes
  Cells = 2
INVARIANTS
  TypeOK
  AnswerBelongsToRequest
PROPERTIES
  RemoteTableSpec
  AnsweredAgain

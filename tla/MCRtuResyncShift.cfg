SPECIFICATION FairSpec
CONSTANTS
  Settings <- ShiftSettings
  Patience = 13
PROPERTIES
  SlaveAnswersAgain

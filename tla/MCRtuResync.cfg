SPECIFICATION FairSpec
CONSTANTS
  Settings <- MCSettings
  Patience = 13
PROPERTIES
  DamageCostsOneQuery
  SlaveAnswersAgain

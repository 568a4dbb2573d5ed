SPECIFICATION FairSpec
CONSTANTS
  Settings <- AddressSettings
  Patience = 13
PROPERTIES
  DamageCostsOneQuery

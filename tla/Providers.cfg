SPECIFICATION FairProvidersSpec
CONSTANTS
  Configs <- MCConfigs
  Archives <- MCArchives
INVARIANTS
  FetchTypeOK
  NilIsComplete
  ErrorIffFault
  AskedIsQueried
PROPERTIES
  FetchHarvests
  CancelEndsFetch
  FetchEnds

SPECIFICATION FairGauSpec
CONSTANTS
  w1 = w1
  w2 = w2
  NoItem = NoItem
  NoUrl = NoUrl
  Workers <- OneWorker
  Items <- MCItems
  Providers <- MCProviders
  ProviderOf <- MCProviderOf
  Stubborn = {}
  BridgeCap = 1
  MaxUrls = 1
  NumProviders = 1
  NumDomains = 2
  FromStdin = TRUE
  ScanMayFail = TRUE
  ShowProgress = TRUE
  WriteMayFail = TRUE
  PageOf <- MCPageOf
  Lower <- MCLower
  FlagSets <- Json
  ExtOf <- MCExtOf
PROPERTIES
  RunEnds
INVARIANTS
  DoneWithinTotal

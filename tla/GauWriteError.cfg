SPECIFICATION FairGauSpec
CONSTANTS
  w1 = w1
  w2 = w2
  NoItem = NoItem
  NoUrl = NoUrl
  Workers <- MCWorkers
  Items <- MCItems
  Providers <- MCProviders
  ProviderOf <- MCProviderOf
  Stubborn = {}
  BridgeCap = 1
  MaxUrls = 1
  NumProviders = 2
  NumDomains = 1
  FromStdin = FALSE
  ScanMayFail = FALSE
  ShowProgress = FALSE
  WriteMayFail = TRUE
  PageOf <- MCPageOf
  Lower <- MCLower
  FlagSets <- Plain
  ExtOf <- MCExtOf
PROPERTIES
  WriteErrorIsReturned
CHECK_DEADLOCK FALSE

SPECIFICATION GauSpec
CONSTANTS
  w1 = w1
  w2 = w2
  NoItem = NoItem
  NoUrl = NoUrl
  Workers <- MCWorkers
  Items <- MCItems
  Providers <- MCProviders
  ProviderOf <- MCProviderOf
  Stubborn = {}
  BridgeCap = 1
  MaxUrls = 2
  NumProviders = 2
  NumDomains = 1
  FromStdin = FALSE
  ScanMayFail = FALSE
  ShowProgress = TRUE
  WriteMayFail = TRUE
  PageOf <- MCPageOf
  Lower <- MCLower
  FlagSets <- JsonDedup
  ExtOf <- MCExtOf
SYMMETRY WorkerSymmetry
INVARIANTS
  NoSendOnClosedResults
  NilMeansComplete SummaryIsOutput SummaryIsComplete
PROPERTIES
  FramesNeverGoBack NoFrameAfterSummary

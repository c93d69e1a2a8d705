SPECIFICATION FairRunnerSpec
CONSTANTS
  w1 = w1
  w2 = w2
  i1 = i1
  i2 = i2
  p1 = p1
  p2 = p2
  NoItem = NoItem
  NoUrl = NoUrl
  Workers <- MCWorkers
  Items <- MCItems
  Providers <- MCProviders
  ProviderOf <- MCProviderOf
  Stubborn <- MCStubborn
  BridgeCap = 1
  MaxUrls = 3
INVARIANTS
  RunnerTypeOK
  RunnerInv
  WaitMeansQuiescent
PROPERTIES
  RunnerDelivers
  CancelStopsWorkers
  TakenIsReported

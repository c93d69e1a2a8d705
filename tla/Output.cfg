SPECIFICATION WriterSpec
CONSTANTS
  RawUrls <- MCRawUrls
  Providers <- MCProviders
  PageOf <- MCPageOf
  Lower <- MCLower
  FlagSets <- MCFlagSets
  WriteMayFail = TRUE
  MaxReceived = 5
INVARIANTS
  WriterTypeOK
  LruSound
  RemembersRecent
  StreamExact

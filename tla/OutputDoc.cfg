SPECIFICATION WriterSpec
CONSTANTS
  RawUrls <- MCRawUrls
  Providers <- MCProviders
  PageOf <- MCPageOf
  Lower <- MCLower
  FlagSets <- UpperBlacklist
  WriteMayFail = TRUE
  MaxReceived = 5
INVARIANTS
  BlacklistIgnoresCase

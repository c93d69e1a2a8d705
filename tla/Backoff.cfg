SPECIFICATION BackoffSpec
CONSTANTS
  backoffBase = 2
  backoffMax = 120
  Second = 4
  Width = 24
  MaxRetries = 26
  Headers <- MCHeaders
  Timeouts <- MCTimeouts
INVARIANTS
  EveryRetryWaits
  BackoffGrows
  HintsAreWaitedFor
  TimeoutNeverShort

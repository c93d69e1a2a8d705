SPECIFICATION FairHttpSpec
CONSTANTS
  c1 = c1
  c2 = c2
  b1 = b1
  b2 = b2
  b3 = b3
  b4 = b4
  NoBuffer = NoBuffer
  Callers <- OneCaller
  MaxRetries = 2
  Modulus = 256
  HasLimiter = TRUE
  HasDeadline = FALSE
  Buffers <- ThreeBuffers
  Statuses <- MCStatuses
PROPERTIES
  CancelEndsCalls
  CallsReturn
  GoroutinesEnd

SPECIFICATION HttpSpec
CONSTANTS
  c1 = c1
  c2 = c2
  b1 = b1
  b2 = b2
  b3 = b3
  b4 = b4
  NoBuffer = NoBuffer
  Callers <- MCCallers
  MaxRetries = 1
  Modulus = 256
  HasLimiter = TRUE
  HasDeadline = TRUE
  Buffers <- MCBuffers
  Statuses <- MCStatuses
SYMMETRY ObjectSymmetry
INVARIANTS
  HttpTypeOK
  BuffersExclusive
  BodyIsOwnReply
PROPERTIES
  CallsAnswer

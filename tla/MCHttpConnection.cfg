SPECIFICATION Spec
CONSTANTS
  MaxBody = 2
  MaxKeepAlive = 2
  Unit <- MCUnit
  Streams <- MCStreams
INVARIANTS
  TypeOK
  BufferIsTail
  OneWriteAtATime
  ServesWithinLimit
  Framing
  ShutdownHasReason
PROPERTIES
  QuietAfterLast
  CompleteIsAnswered
  ImplementsSession
CHECK_DEADLOCK FALSE

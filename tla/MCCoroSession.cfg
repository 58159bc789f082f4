SPECIFICATION Spec
CONSTANTS
  MaxBody = 2
  MaxKeepAlive = 2
  HasWsHandler = FALSE
  Unit <- MCUnit
  Streams <- MCStreams
INVARIANTS
  AnswersTile
  ShutdownHasReason
PROPERTIES
  ImplementsSession
CHECK_DEADLOCK FALSE

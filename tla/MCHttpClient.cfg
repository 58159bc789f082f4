SPECIFICATION Spec
CONSTANTS
  N = 3
  Tls = TRUE
  Overlap = FALSE
  Responses <- AllResponses
INVARIANTS
  CalledOnceInOrder
  OwnResponseWhileClean
PROPERTIES
  EveryRequestCalledBack
CHECK_DEADLOCK FALSE

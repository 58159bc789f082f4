SPECIFICATION Spec
CONSTANTS
  N = 2
  Tls = FALSE
  Overlap = FALSE
  Responses <- GoodResponses
INVARIANT NulloptMeansError
CHECK_DEADLOCK FALSE

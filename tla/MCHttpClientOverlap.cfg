SPECIFICATION Spec
CONSTANTS
  N = 2
  Tls = FALSE
  Overlap = TRUE
  Responses <- GoodResponses
INVARIANT NoCallbackLost
CHECK_DEADLOCK FALSE

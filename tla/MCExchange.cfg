SPECIFICATION Spec
CONSTANTS
  N = 3
  MaxBody = 2
  MaxKeepAlive = 2
  Unit <- MCUnit
  Plans <- MCPlans
INVARIANTS
  ServedIsReported
PROPERTIES
  LossOnlyUnannounced
  EveryRequestCalledBack
CHECK_DEADLOCK FALSE

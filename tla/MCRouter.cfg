SPECIFICATION Spec
CONSTANTS
  Patterns <- MCPatterns
  Guarded <- MCGuarded
  Requests <- MCRequests
  Methods = {"any", "get"}
  MaxRoutes = 2
  MaxMiddlewares = 2
  MaxRequests = 2
  MaxCalls = 2
INVARIANTS
  EnteredOnceInOrder
  HandlerBehindChain
  NoneSkipped
  PrefixGuards
PROPERTIES
  EarlierRouteStands
CHECK_DEADLOCK FALSE

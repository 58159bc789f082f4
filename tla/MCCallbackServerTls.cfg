SPECIFICATION Spec
CONSTANTS
  c1 = c1
  c2 = c2
  c3 = c3
  Clients <- MCClients
  Stalling <- MCStalling
  Tls = TRUE
  MaxOpen = 2
  MaxErrors = 1
INVARIANTS
  OneAcceptChain
PROPERTIES
  EveryClientAccepted
CHECK_DEADLOCK FALSE

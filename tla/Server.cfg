CONSTANTS
  Workers = 2
  MaxProxies = 2
  Clients = {c1, c2}
  MaxSignals = 2
SPECIFICATION Spec
INVARIANTS  NothingUsedAfterFree 
 
CHECK_DEADLOCK FALSE

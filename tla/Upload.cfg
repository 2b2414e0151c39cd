CONSTANTS
  Workers = {w1, w2}
  Clients = {c1}
  Peers = {p1}
  Proxies = 2
  Lengths = {0, 1}
  Seconds = {0, 1}
  Statuses = {ACTIVE, WAIT_SYNC}
  MaxTries = 2
  MaxMerges = 2
  ACTIVE = ACTIVE
  NONE = NONE
SPECIFICATION Spec
INVARIANTS VersionCountsWrites CountedWasActive 
PROPERTIES BeatGoesOn
CHECK_DEADLOCK FALSE

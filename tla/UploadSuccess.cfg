CONSTANTS
  Workers = {w1, w2}
  Clients = {c1}
  Peers = {p1}
  Proxies = 1
  Lengths = {0, 1}
  Seconds = {0, 1}
  Statuses = {ACTIVE, WAIT_SYNC}
  MaxTries = 1
  MaxMerges = 1
  ACTIVE = ACTIVE
  NONE = NONE
SPECIFICATION Spec
PROPERTY CopiedUploadSucceeds
CHECK_DEADLOCK FALSE

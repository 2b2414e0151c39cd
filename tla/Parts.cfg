CONSTANTS
  BlockLen = 4
  WordSize = 64
  Pieces = {1, 3, 6, 9}
  MaxBytes = 12
  Keys = 16
  VnodeCounts = {1, 3, 4, 5, 7, 9, 16, 17}
  HashSize = 97
  Tokens <- ConfTokens
  Lines <- ConfLines
  MaxLines = 3
  Atoi <- Numbers
  Kilo = 4
  IntLimit = 64
  Scripts <- StreamScripts
  Room = 2
  Addrs = {a, b}
  Objects = {o1, o2, o3}
  NULL = NULL
  KL_PROXY_CONTAINER_SIZE = 3
SPECIFICATION Spec
INVARIANTS DigestOfMessage LoadsEven ConfAsWritten BytesInOrder
PROPERTIES StreamsEnd TableRefined
CHECK_DEADLOCK FALSE

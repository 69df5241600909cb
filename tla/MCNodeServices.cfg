SPECIFICATION Spec
CONSTANTS
  x1 = x1
  x2 = x2
  x3 = x3
  x4 = x4
  x5 = x5
  y1 = y1
  y2 = y2
  n1 = n1
  NoJob = NoJob
  NoNonce = NoNonce
  Nodes = {n1}
  Blocks <- MCBlocks
  Ranges <- MCRanges
  MAX_SCHEDULE_PERIOD = 2
  Requests = {"r1", "r2"}
  k1 = k1
  k2 = k2
  Addresses = {k1, k2}
  Keystores <- MCKeystores
  Urls = {"u1", "bad"}
  ValidUrls = {"u1"}
  NoBlock = NoBlock
  WordSize = 1000
  MaxHeight = 3
  MaxSent = 3
  MaxRestarts = 1
CHECK_DEADLOCK FALSE
INVARIANTS
  
  SentTransactionsStay

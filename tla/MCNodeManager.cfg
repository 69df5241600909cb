SPECIFICATION MCFairSpec
CONSTANTS
  n1 = n1
  n2 = n2
  n3 = n3
  ann = ann
  bob = bob
  k1 = k1
  k2 = k2
  mac1 = mac1
  mac2 = mac2
  None = None
  Nodes = {n1, n2, n3}
  Owners = {ann, bob}
  SignerIds = {k1, k2}
  Authors = {author}
  Machines = {mac1, mac2}
  HashOrder <- MCHashOrder
  LocalKeys <- MCLocalKeys
  CliNode <- MCCliNode
  Genesis <- MCGenesis
  Registrations <- MCRegistrations
  Removals <- MCRemovals
  Settings <- MCSettings
  PotBalances = {4, 40}
  BLOCK_INCLUSION_PERIOD = 1
  BASE = 10
  MaxBalance = 100000
  MaxBlock = 6
  MaxChanges = 1
  WorkerBlocks = {0, 2, 4}
  ChangeBlocks = {5}
  MaxPool = 2
  SignedTxLifetime = 2
  Registrars = {ann, bob}
  Relayer = relayer
  SignedRequests <- MCSignedRequests
CHECK_DEADLOCK FALSE
INVARIANTS
  BooksAreConsistent
  
  HeartbeatsAreAccepted
PROPERTIES
  PeriodsArePaid

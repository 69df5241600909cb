SPECIFICATION FairSpec
CONSTANTS
  None = None
  Zero = Zero
  a1 = a1
  a2 = a2
  u1 = u1
  u2 = u2
  r = r
  tA = tA
  tB = tB
  xA = xA
  xB = xB
  m1 = m1
  Treasury = Treasury
  Bridge = Bridge
  AssetIds = {xA, xB}
  TokenAddresses = {tA, tB}
  Accounts = {u1, u2}
  Admins = {u2}
  DECIMALS = 1
  MaxBalance = 10000
  MarketIds = {m1}
  Authors = {a1, a2}
  Chain <- MCChain
  Orphans <- MCOrphans
  Secondary = {"Erc20DirectTransfer"}
  ETH_FINALITY = 1
  RangeLength = 1
  PartitionSize = 1
  MaxVotes = 1
  Quorum = 2
  LegacyProcessed <- MCLegacy
  Filters <- MCFilters
  MaxHeight = 3
  FirstHeight = 1
  Rechecks = {1}
  Signatures <- MCSignatures
  Withdrawals <- MCWithdrawals
  Registrations <- MCRegistrations
  Updates <- MCUpdates
  Configs <- MCConfigs
  Registry <- MCRegistry
  MaxCalls = 2
INVARIANTS
  
  
  SignaturesActOnce
PROPERTIES
  EventsAreProcessed

SPECIFICATION Spec
CONSTANTS
  a1 = a1
  a2 = a2
  o1 = o1
  o2 = o2
  None = None
  Treasury = Treasury
  Accounts = {a1}
  Outcomes = {o1, o2}
  MaxMarkets = 1
  Blocks <- Blocks14
  Moments <- Moments14
  MILLISECS_PER_BLOCK = 1
  MaxSkippedSlots = 0
  Creators = {a1}
  Creations = {"Permissionless"}
  Mechanisms = {"Court"}
  Periods <- OnePeriod
  DeadlineChoices <- OneDeadline
  CacheSize = 2
  MAX_RECOVERY_TIME_FRAMES = 2
  MinDisputeDuration = 1
  CorrectionPeriod = 1
  CloseEarlyBlockPeriod = 20
  CloseEarlyTimeFramePeriod = 20
  CloseEarlyProtectionBlockPeriod = 20
  CloseEarlyProtectionTimeFramePeriod = 20
  RequestInterval = 1
  VotePeriod = 1
  AggregationPeriod = 1
  AppealPeriod = 2
  MaxAppeals = 2
  AddOutcomePeriod = 1
  GdVotingPeriod = 1
INVARIANTS
  GlobalDisputeResolves
CHECK_DEADLOCK FALSE

SPECIFICATION Spec
CONSTANTS
  a1 = a1
  a2 = a2
  o1 = o1
  o2 = o2
  None = None
  Treasury = Treasury
  Accounts = {a1, a2}
  Outcomes = {o1}
  MaxMarkets = 1
  Blocks <- Blocks6
  Moments <- Moments17
  MILLISECS_PER_BLOCK = 2
  MaxSkippedSlots = 4
  Creators = {a1}
  Creations = {"Permissionless", "Advised"}
  Mechanisms = {None}
  Periods <- ClosingPeriods
  DeadlineChoices <- TrustedDeadline
  CacheSize = 2
  MAX_RECOVERY_TIME_FRAMES = 1
  MinDisputeDuration = 1
  CorrectionPeriod = 2
  CloseEarlyBlockPeriod = 2
  CloseEarlyTimeFramePeriod = 4
  CloseEarlyProtectionBlockPeriod = 1
  CloseEarlyProtectionTimeFramePeriod = 2
  RequestInterval = 1
  VotePeriod = 1
  AggregationPeriod = 1
  AppealPeriod = 2
  MaxAppeals = 2
  AddOutcomePeriod = 1
  GdVotingPeriod = 1
INVARIANTS
  CloseQueueExact
  EarlyCloseNeverExtends
  ReservesMatchState
PROPERTIES
  TimeFramesAreKept
CHECK_DEADLOCK FALSE

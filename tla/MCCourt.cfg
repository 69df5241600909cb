CONSTANTS
  m1 = m1
  m2 = m2
  None = None
  Accounts = {1, 2, 3}
  Markets = {m1}
  OutcomeReports = {1, 2}
  Reported = 2
  Balances <- MCBalances
  Joins <- MCJoins
  Copies <- MCCopies
  Leavers = {1}
  DisputeBlocks = {1}
  InflationBlocks = {9}
  MinJurorStake = 1
  MaxCourtParticipants = 3
  MaxDelegations = 2
  MaxSelectedDraws = 10
  MaxAppeals = 2
  INITIAL_DRAWS_NUM = 2
  AppealBond = 1
  RequestInterval = 1
  VotePeriod = 1
  AggregationPeriod = 1
  AppealPeriod = 2
  InflationPeriod = 2
  InflationRates = {3}
  Accuracy = 1000
  MaxBlock = 10
SPECIFICATION Spec
CHECK_DEADLOCK FALSE
INVARIANTS
  StakesAreAccounted
  DrawsAreBacked
PROPERTIES
  VerdictFollowsTheLastRound
  WinnersAreNotPunished

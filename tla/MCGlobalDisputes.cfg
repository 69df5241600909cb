CONSTANTS
  m1 = m1
  m2 = m2
  a1 = a1
  a2 = a2
  o1 = o1
  o2 = o2
  None = None
  Markets = {m1, m2}
  Accounts = {a1, a2}
  OutcomeReports = {o1, o2}
  InitialItems <- MCInitialItems
  Balances <- MCBalances
  VoteAmounts = {1, 2}
  VotingOutcomeFee = 1
  MinOutcomeVoteAmount = 1
  MaxGlobalDisputeVotes = 2
  MaxOwners = 2
  RemoveKeysLimit = 1
  AddOutcomePeriod = 0
  GdVotingPeriod = 2
  MaxBlock = 2
SYMMETRY MarketSymmetry
SPECIFICATION Spec
CHECK_DEADLOCK FALSE
INVARIANTS
  LeaderHasTheLargestSum
  FundsAreAccounted
PROPERTIES
  RewardsGoToTheWinner

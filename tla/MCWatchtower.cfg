SPECIFICATION FairSpec
CONSTANTS
  n1 = n1
  n2 = n2
  n3 = n3
  o1 = o1
  o2 = o2
  k1 = k1
  k2 = k2
  i1 = i1
  i2 = i2
  i3 = i3
  i4 = i4
  e1 = e1
  None = None
  Nodes = {n1, n2, n3}
  Owners = {o1, o2}
  SignerIds = {k1, k2}
  ProposalIds = {i1, i2, i3, i4, e1}
  Request <- MCRequest
  BLOCK_INCLUSION_PERIOD = 0
  MaxPool = 1
  Voters <- MCVoters
  MaxInternalProposalLen = 2
  SignedTxLifetime = 64
  DefaultVotingPeriod = 1
  Settings <- MCSettings
  Root = Root
  Relayer = Relayer
  Proposers = {o1, o2}
  Weights = {0, 5, 12}
  MaxChanges = 1
  Arrivals <- MCArrivals
  ChangesDuring = {i1}
  Answers <- MCAnswers
  Ballots <- MCBallots
  Workers = {n1}
  InitialNodes <- MCNodes
  Registrations <- MCRegistrations
  Removals <- MCRemovals
  KeyOf <- MCKeyOf
CHECK_DEADLOCK FALSE
INVARIANTS
  ActiveProposalIsNext
  VotesCountOnce
PROPERTIES
  DecisionsAreSound
  ProposalsComeToAnEnd

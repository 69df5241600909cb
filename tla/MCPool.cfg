SPECIFICATION Spec
CONSTANTS
  ann = ann
  bob = bob
  cat = cat
  dan = dan
  Users <- LPUsers
  Traders = {ann}
  Outcomes <- LPOutcomes
  Base = "base"
  ExistentialDeposits <- LPDeposits
  Market = Market
  PoolAccount = PoolAccount
  Vault = Vault
  Treasury = Treasury
  None = None
  NoOne = NoOne
  BASE = 10
  MaxBalance = 100000
  Scalar = FALSE
  Low = 0
  High = 3
  Reports = {"Yes"}
  Accuracy = 10
  WinnerFee = 2
  SwapFees = {1}
  Amounts = {9}
  Calls = {"create_market_and_deploy_pool", "buy", "sell", "join", "exit", "withdraw_fees", "deploy_pool", "set_early_exit_fee_account", "Close"}
  MaxCalls = 4
  OrderAmounts = {}
  MaxLiquidityTreeDepth = 2
  MIN_LIQUIDITY = 1
  EXIT_FEE = 1
  MIN_SWAP_FEE = 1
  MaxSwapFee = 2
  MIN_RELATIVE_LP_POSITION_VALUE = 1
  EXP_NUMERICAL_LIMIT = 10
  Deployments <- LPDeployments
  DeployFees = {2}
  AmmPicks <- LPPicks
  PoolShares = {3, 8}
  MaxOrders = 2
  SignedTxLifetime = 16
  Relayer = Relayer
  Signers = {ann}
  PriceLimits = {}
  TradeAmounts = {}
  OrderLists = {}
  Strategies = {"LimitOrder"}
  MinCategories = 2
  MaxCategories = 64
  Endowment = 60
  Openings <- LPOpenings
CHECK_DEADLOCK FALSE
SYMMETRY LPSymmetry
INVARIANTS
  PoolIsSound
PROPERTIES
  ClaimsAreStable
  SharesAreNotDiluted

SPECIFICATION Spec
CONSTANTS
  ann = ann
  bob = bob
  cat = cat
  dan = dan
  Users <- MCUsers
  Traders <- MCUsers
  Outcomes <- MCScalar
  Base = "base"
  ExistentialDeposits <- MCDeposits
  Market = Market
  PoolAccount = PoolAccount
  Vault = Vault
  Treasury = Treasury
  None = None
  NoOne = NoOne
  BASE = 4
  MaxBalance = 2000
  Scalar = TRUE
  Low = 0
  High = 3
  Reports = {1}
  Accuracy = 10
  WinnerFee = 2
  SwapFees = {0}
  Amounts = {3}
  Calls = {"buy_complete_set", "sell_complete_set", "redeem_shares", "set_winnings_fee_account", "set_additional_swap_fee_account", "set_additional_swap_fee", "Close", "Resolve", "remove_order", "fill_order", "place_order", "router_buy", "router_sell"}
  MaxCalls = 2
  OrderAmounts = {3}
  MaxLiquidityTreeDepth = 1
  MIN_LIQUIDITY = 1
  EXIT_FEE = 1
  MIN_SWAP_FEE = 1
  MaxSwapFee = 2
  MIN_RELATIVE_LP_POSITION_VALUE = 1
  EXP_NUMERICAL_LIMIT = 5
  Deployments <- MCDeployments
  DeployFees = {1}
  AmmPicks <- MCPicks
  PoolShares = {2}
  MaxOrders = 2
  SignedTxLifetime = 16
  Relayer = Relayer
  Signers = {ann}
  PriceLimits = {2, 4}
  TradeAmounts = {2, 5}
  OrderLists <- MCOrderLists
  Strategies = {"LimitOrder"}
  MinCategories = 2
  MaxCategories = 64
  Endowment = 20
  Openings <- MCOpenings
CHECK_DEADLOCK FALSE
INVARIANTS
  
  SharesAreBacked
  MakersAreSafe

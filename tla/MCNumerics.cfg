SPECIFICATION Spec
CONSTANTS
  BASE = 100
  MaxBalance = 100000000
  ONE = 4096
  Terms = 14
  EXP_OVERFLOW_THRESHOLD = 4
  EXP_NUMERICAL_LIMIT = 2
  LN_NUMERICAL_LIMIT = 10
  Assets <- MCAssets
  Deposits = {300, 500}
  SpotPrices <- MCSpotPrices
  TradeAmounts = {40, 150, 333}
  Untils = {20, 50, 75}
  MaxTrades = 4
  Slack = 2
  MaxValue = 7
  Functions <- MCFunctions
  Values = {1, 4, 8}
  Tols = {1, 3}
  MaxIterations = {1, 5}
CHECK_DEADLOCK FALSE
INVARIANTS
  RuleIsSound
  TradesStopAtTheLimit
  AnswerIsRight

SPECIFICATION Spec
CONSTANTS
  Instruments <- MCInstruments
  Ids <- MCIds
  Capital = 1000
  CommissionPct = 1
  DeployedLimit = 800
  RiskPerTrade = 20
  SinglePct = 50
  DailyLoss = 60
  MonthlyLoss = 90
  DrawdownPct = 10
  MaxPositions = 8
  DaysPerMonth = 2
  SlippagePct = 2
  StopPct = 5
  StopLossPct = 20
  RewardPct = 150
  MaxGap = 1
  Bars <- MCBars
  MaxDays = 6
INVARIANTS SessionFollowsBacktest LevelsFollowPosition TradesExplainCash
PROPERTIES StaleOnlyExits
CHECK_DEADLOCK FALSE

SPECIFICATION Spec
CONSTANTS
  Instruments = {a, b}
  Ids <- MCIds
  Capital = 100
  CommissionPct = 1
  DeployedLimit = 80
  RiskPerTrade = 3
  SinglePct = 60
  DailyLoss = 80
  MonthlyLoss = 90
  DrawdownPct = 20
  MaxPositions = 2
  DaysPerMonth = 3
  SlippagePct = 10
  StopLossPct = 1
  RewardPct = 150
  Slots = 1
  StopAtr = 2
  Bars <- MCBars
  MaxDays = 5
SYMMETRY Symmetry
INVARIANTS PositionsAreWatched DecisionsFit
PROPERTIES PassingIsKept
CHECK_DEADLOCK FALSE

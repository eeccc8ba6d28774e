SPECIFICATION Spec
CONSTANTS
  Instruments = {a, b}
  Ids = {i1, i2, i3}
  Capital = 10
  CommissionPct = 12
  DeployedLimit = 9
  RiskPerTrade = 5
  SinglePct = 90
  DailyLoss = 1
  MonthlyLoss = 2
  DrawdownPct = 30
  MaxPositions = 1
  DaysPerMonth = 2
  Prices = {1, 3}
  StopPcts = {50}
  MaxDays = 3
  MaxMarks = 3
SYMMETRY Symmetry
INVARIANTS BooksBalance SizedBuysFill KillSwitchLatches
PROPERTIES EntriesRespectLimits

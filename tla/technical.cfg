SPECIFICATION Spec
CONSTANTS
  Instruments = {a, b}
  Ids <- MCIds
  Capital = 100
  CommissionPct = 1
  DeployedLimit = 80
  RiskPerTrade = 10
  SinglePct = 60
  DailyLoss = 90
  MonthlyLoss = 90
  DrawdownPct = 15
  MaxPositions = 2
  DaysPerMonth = 3
  SlippagePct = 10
  StopLossPct = 1
  RewardPct = 150
  Slots = 1
  StopAtr = 2
  UseTarget = TRUE
  TrailAtr = 3
  PyramidAtr = 1
  PyramidPct = 50
  MaxAdditions = 1
  ByWeight = TRUE
  MaxNewEntries = 2
  EntryPeriod = 2
  Cooldown = 2
  Bars <- MCBars
  MaxDays = 5
SYMMETRY Symmetry
INVARIANTS SlotsAreReserved EntriesArePaced PlansFitPositions LevelsAreExecuted EveryEntryIsRecorded ProfitsExplainCash
PROPERTIES CooldownIsServed
CHECK_DEADLOCK FALSE

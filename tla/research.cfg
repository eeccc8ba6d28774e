SPECIFICATION DeskSpec
CONSTANTS
  FastPeriod = 2
  SlowPeriod = 3
  RsiPeriod = 2
  AtrPeriod = 2
  VolumePeriod = 2
  WeeklyPeriod = 2
  SlopeLookback = 1
  MaxBars = 5
  Shapes <- MCShapes
  Candidates = 2
  Warmups = {2, 4}
  MaxDrawdown = 2
  MinPositive = 1
  LongestData = 6
  LongestTrain = 3
  LongestTest = 2
  LongestStep = 2
  Outcomes <- MCOutcomes
  Collectors = {c1, c2}
  Listings = {"a", "b"}
  Manifests <- MCManifests
  Ranking <- MCRanking
  Documents <- MCDocuments
INVARIANTS
  MemoryIsOfThePast
  TestsAreOutOfSample
  SelectionIsUndominated
  RecordsAreBacked
PROPERTIES
  RecordsAreKept
CHECK_DEADLOCK FALSE

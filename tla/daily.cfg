SPECIFICATION Spec
CONSTANTS
  RequestTokens = {"t1"}
  NoToken = "no token"
  MaxDay = 2
  MaxConnections = 2
  Runs = {r1, r2}
  Instruments = {"etf", "index"}
  FirstDate = 1
  LastDate = 3
  MaxSpan = 2
  Scripts = {"daily", "universe", "fetch"}
  Wanted = "etf"
  Unlisted = "unlisted"
INVARIANTS DatasetIsSound ReplacedIsBackedUp ManifestDescribesData LoginIsHonest
PROPERTIES UpdateEnds
CHECK_DEADLOCK FALSE

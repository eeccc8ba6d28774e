SPECIFICATION ReviewSpec
CONSTANTS
  MaxIterations = 2
  MaxBlocks = 2
  Watchlist = 2
INVARIANTS CallsAreAnswered TradesAreReported
PROPERTIES ReviewEnds

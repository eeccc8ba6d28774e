SPECIFICATION ReviewSpec
CONSTANTS
  MaxIterations = 2
  MaxBlocks = 2
  Watchlist = 1
INVARIANTS ToolAnswersAreSent

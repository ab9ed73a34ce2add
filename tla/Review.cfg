SPECIFICATION ReviewSpec
CONSTANTS
  Paths <- MCPaths
  Ambiguous <- MCAmbiguous
  Inputs <- MCInputs
  Lines <- MCLines
  MaxFiles = 2
  MaxHunks = 2
  MaxLines = 4
  MaxShown = 1
  MaxRequests = 2
  TokenCap = 2
  None = None
  Unseen = Unseen
  Garbled = Garbled
INVARIANTS ParsedAsWritten SplitShowsTheHunk HighlightsAreExact AllViewedMeansEachMarked
CHECK_DEADLOCK FALSE

CONSTANTS
  Graphs <- SmallGraphs
  Definitions <- SmallDefinitions
  MaxRuns = 3
  MaxEdits = 1
  MaxRetries = 1
  Values = {"a", "a+", "b"}
  Alike <- WithinTolerance
  Sources <- SmallSources
  Targets <- SmallTargets
  Batch = 2
  CheckEvery = 2
SPECIFICATION SuiteSpec
CHECK_DEADLOCK FALSE
INVARIANT SummaryIsFilled

SPECIFICATION FairSpec
CONSTANTS
  UnknownLen = UnknownLen
  NoStop = NoStop
  RatioFloor = 1
  RatioFallback = 2
  FirstInterval = 1
  RatioMin = 1
  PackedLen = 3
  Unpacked <- MCLong
  FileLens = {2, 3}
  MaxRead = 2
  OutSize = 2
  Strategies <- MCStrategies
  Sizes = {1, 2}
  Stops = {5}
  CheckpointAnywhere = TRUE
  Faulty = FALSE
  MaxPasses = 1
INVARIANTS
  ThinnedToBudget DataBytesExact GapsFollowInterval StopLeavesCheckpoint OvershootsByOne
PROPERTIES
  TableSteps PassEnds WholeFileIndexed

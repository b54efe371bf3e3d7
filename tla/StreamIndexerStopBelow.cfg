SPECIFICATION Spec
CONSTANTS
  UnknownLen = UnknownLen
  NoStop = NoStop
  RatioFloor = 1
  RatioFallback = 2
  FirstInterval = 1
  RatioMin = 1
  PackedLen = 3
  Unpacked <- MCBursts
  FileLens = {3}
  MaxRead = 2
  OutSize = 2
  Strategies <- MCFixed
  Sizes = {1}
  Stops = {1, 2, 4}
  CheckpointAnywhere = FALSE
  Faulty = FALSE
  MaxPasses = 2
PROPERTIES
  NoCheckpointBelowIndexed

SPECIFICATION Spec
CONSTANTS
  UnknownLen = UnknownLen
  NoStop = NoStop
  RatioFloor = 1
  RatioFallback = 2
  FirstInterval = 1
  RatioMin = 1
  PackedLen = 3
  Unpacked <- MCBursts
  FileLens = {0, 2, 3, 4}
  MaxRead = 2
  OutSize = 2
  Strategies <- MCFixed
  Sizes = {1}
  Stops = {2, 3}
  CheckpointAnywhere = FALSE
  Faulty = TRUE
  MaxPasses = 2
INVARIANTS
  TypeOK PositionsExact CheckpointsExact FedInOrder HandedExactlyOnce CompleteIsWhole
PROPERTIES
  KeepsPromise

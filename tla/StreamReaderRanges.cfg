SPECIFICATION FairSpec
CONSTANTS
  UnknownLen = UnknownLen
  PackedLen = 3
  Unpacked <- MCBursts
  Faulty = TRUE
  FileLens = {1, 2, 3, 4}
  MaxRead = 2
  OutSize = 3
  Tables <- MCTables
  KnownLens = {UnknownLen, 7, 9}
  Offsets = {0, 2, 4, 6, 8}
  Lengths = {0, 1, 3}
  MaxSeeks = 2
INVARIANTS
  TypeOK ServesTheRange FedInOrder RemainingExact DoneIsDelivered NoFalseAlarm
PROPERTIES
  DecodesOnce KeepsPromise RangeEnds

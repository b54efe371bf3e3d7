SPECIFICATION EntryFairSpec
CONSTANTS
  UnknownLen = UnknownLen
  PackedLen = 3
  Unpacked <- MCBursts
  Faulty = FALSE
  FileLens = {0, 1, 2, 3, 4}
  MaxRead = 2
  OutSize = 3
  Tables <- MCTables
  KnownLens = {UnknownLen, 7, 9}
  Offsets = {0, 2, 4, 6, 8}
  Lengths = {0, 1, 3}
  MaxSeeks = 0
  Drivers = {"sync", "tokio"}
INVARIANTS
  EntryTypeOK ReadsWhereAsked NoFalseAlarm
PROPERTIES
  DrivesTheReader EntryFinishes

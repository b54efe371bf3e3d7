SPECIFICATION Spec
CONSTANTS
  Block = 3
  MaxMetadata = 6
  MagicLen = 2
  HeaderSizes <- MCHeaderSizes
  Align = 2
  MaxNameSize = 3
  Inodes = 2
  ArMagicLen = 3
  ArHeaderSize = 3
  MaxTableSize = 4
  MaxBsdName = 2
  SymbolTable = "__.SYMDEF"
  MinDetect = 3
  Told = {TRUE, FALSE}
  OutSize = 5
  Archives <- MCArchives
  Sources <- LostLinks
INVARIANTS
  DoneListsAll

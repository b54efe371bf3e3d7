SPECIFICATION Spec
CONSTANTS
  MaxRead = 3
  Rooms = {1, 4}
  MaxRestores = 1
  MinHeader = 2
  TrailerSize = 2
  WindowSize = 4
  BitsPerByte = 2
  MagicBits = 4
  DictSize = 4
  InitBytes = 2
  InMargin = 2
  OutMargin = 3
  SizeBase = 4
  StreamHeader = 2
  Align = 2
  ScratchSize = 2
  MagicSize = 1
  SkipHeader = 2
  BlockHeader = 1
  ChecksumSize = 1
  TrimSlack = 1
  Widths <- MCWidths
  Instruction = 5
  History = 4
  Block = 2
  StageBuf = 2
  CodecNew <- DecoderNew
  CodecDecompress <- DecoderDecompress
  CodecCheckpoint <- DecoderCheckpoint
  CodecRestored <- DecoderRestored
  CodecHeld <- DecoderHeld
  CodecHolds <- DecoderHolds
  CodecAtBlockEnd <- DecoderAtBlockEnd
  Streams <- SkippableStreams
INVARIANTS
  KeepsContract

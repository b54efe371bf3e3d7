------------------------------- MODULE Stages -------------------------------
(***************************************************************************)
(* create_stage() (src/compress/codec.rs): the decoder of one codec, by    *)
(* the kind of stream it is for, and the decoder of a codec that copies    *)
(* (src/compress/none.rs).                                                 *)
(***************************************************************************)
EXTENDS Codec

CONSTANTS
  MinHeader, TrailerSize, WindowSize,         \* Gzip
  BitsPerByte, MagicBits,                     \* Bzip2
  DictSize, InitBytes, InMargin, OutMargin,   \* Lzma
  SizeBase,                                   \* Lzma2
  StreamHeader, Align, ScratchSize,           \* Xz
  MagicSize, SkipHeader, BlockHeader, ChecksumSize, TrimSlack,   \* Zstd
  Widths, Instruction, History,               \* Filter
  Block                                       \* Aes

GZ == INSTANCE Gzip
BZ == INSTANCE Bzip2
LZ == INSTANCE Lzma
L2 == INSTANCE Lzma2
XZ == INSTANCE Xz
ZS == INSTANCE Zstd
FI == INSTANCE Filter
AE == INSTANCE Aes
B2 == INSTANCE Bcj2

\* NoneDecompressor
CopyStage(s, d, data, room) ==
  LET n == Min({Len(data), room})
  IN  {Answer(d, n, Take(data, n), IF data = <<>> THEN "StreamEnd" ELSE "Continue")}

NewStage(s) ==
  CASE s.kind = "copy"   -> [none |-> TRUE]
    [] s.kind = "gzip"   -> GZ!New(s)
    [] s.kind = "bzip2"  -> BZ!New(s)
    [] s.kind = "lzma"   -> LZ!New(s)
    [] s.kind = "lzma2"  -> L2!New(s)
    [] s.kind = "xz"     -> XZ!New(s)
    [] s.kind = "zstd"   -> ZS!New(s)
    [] s.kind = "filter" -> FI!New(s)
    [] s.kind = "aes"    -> AE!New(s)
    [] s.kind = "bcj2"   -> B2!New(s)

StageDecompress(s, d, data, room) ==
  CASE s.kind = "copy"   -> CopyStage(s, d, data, room)
    [] s.kind = "gzip"   -> GZ!Decompress(s, d, data, room)
    [] s.kind = "bzip2"  -> BZ!Decompress(s, d, data, room)
    [] s.kind = "lzma"   -> LZ!Decompress(s, d, data, room)
    [] s.kind = "lzma2"  -> L2!Decompress(s, d, data, room)
    [] s.kind = "xz"     -> XZ!Decompress(s, d, data, room)
    [] s.kind = "zstd"   -> ZS!Decompress(s, d, data, room)
    [] s.kind = "filter" -> FI!Decompress(s, d, data, room)
    [] s.kind = "aes"    -> AE!Decompress(s, d, data, room)
    [] s.kind = "bcj2"   -> B2!Decompress(s, d, data, room)

StageCheckpoint(s, d, packed, unpacked) ==
  CASE s.kind = "copy"   ->
         {[packed |-> packed, unpacked |-> unpacked, fresh |-> TRUE]}
    [] s.kind = "gzip"   -> GZ!Checkpoint(s, d, packed, unpacked)
    [] s.kind = "bzip2"  -> BZ!Checkpoint(s, d, packed, unpacked)
    [] s.kind = "lzma"   -> LZ!Checkpoint(s, d, packed, unpacked)
    [] s.kind = "lzma2"  -> L2!Checkpoint(s, d, packed, unpacked)
    [] s.kind = "xz"     -> XZ!Checkpoint(s, d, packed, unpacked)
    [] s.kind = "zstd"   -> ZS!Checkpoint(s, d, packed, unpacked)
    [] s.kind = "filter" -> FI!Checkpoint(s, d, packed, unpacked)
    [] s.kind = "aes"    -> AE!Checkpoint(s, d, packed, unpacked)
    [] s.kind = "bcj2"   -> B2!Checkpoint(s, d, packed, unpacked)

StageRestored(s, cp) ==
  CASE s.kind = "copy"   -> NewStage(s)
    [] s.kind = "gzip"   -> GZ!Restored(s, cp)
    [] s.kind = "bzip2"  -> BZ!Restored(s, cp)
    [] s.kind = "lzma"   -> LZ!Restored(s, cp)
    [] s.kind = "lzma2"  -> L2!Restored(s, cp)
    [] s.kind = "xz"     -> XZ!Restored(s, cp)
    [] s.kind = "zstd"   -> ZS!Restored(s, cp)
    [] s.kind = "filter" -> FI!Restored(s, cp)
    [] s.kind = "aes"    -> AE!Restored(s, cp)
    [] s.kind = "bcj2"   -> B2!Restored(s, cp)

\* What a decoder holds back of its input and output.
StageHeld(s, d) ==
  CASE s.kind = "copy"   -> 0
    [] s.kind = "gzip"   -> GZ!Held(d)
    [] s.kind = "bzip2"  -> BZ!Held(d)
    [] s.kind = "lzma"   -> LZ!Held(d)
    [] s.kind = "lzma2"  -> L2!Held(d)
    [] s.kind = "xz"     -> XZ!Held(d)
    [] s.kind = "zstd"   -> ZS!Held(d)
    [] s.kind = "filter" -> FI!Held(d)
    [] s.kind = "aes"    -> AE!Held(d)
    [] s.kind = "bcj2"   -> B2!Held(d)

\* The most it may hold, fed `read' bytes at a time with `room' for output.
StageHolds(s, read, room) ==
  CASE s.kind = "copy"             -> 0
    [] s.kind = "gzip"             -> Max({WindowSize, MinHeader + read})
    [] s.kind = "bzip2"            -> read + 1
    [] s.kind \in {"lzma", "lzma2"} -> 1
    [] s.kind = "xz"               -> read + 2 * Align
    [] s.kind = "zstd"             -> s.block + room + read
    [] s.kind = "filter"           -> s.ahead + read
    [] s.kind = "aes"              -> 2 * Block
    [] s.kind = "bcj2"             -> B2!TargetSize
=============================================================================

-------------------------------- MODULE Zstd --------------------------------
(***************************************************************************)
(* ZstdDecompressor (src/compress/zstd_dec): frames of blocks, decoded     *)
(* into the history that later blocks refer back to.                       *)
(*                                                                         *)
(* A stream `s' is [frames, skips, blocks], by the offset each starts at:  *)
(* a frame is [size, window, checksum], its header; a skippable frame its  *)
(* whole size; a block [last, size, body], without its header.  A raw or a *)
(* run-length body is its output; a compressed one its literals, the table *)
(* they are coded by and whether it is an earlier block's, and the same of *)
(* its sequences [literals, offset value, match length].  Entropy coding   *)
(* is seen through its tables: by the wrong ones nothing can be decoded.   *)
(***************************************************************************)
EXTENDS Codec

CONSTANTS
  MagicSize,       \* of a frame's magic (4)
  SkipHeader,      \* what check_skippable_frame() needs (8)
  BlockHeader,     \* of a block's header (3)
  ChecksumSize,    \* of a frame's checksum (4)
  TrimSlack        \* history kept over twice the window (64 KiB)

None == -1

NewBlockState == [huffman_table |-> None, tables |-> None, rep_offsets |-> <<1, 4, 8>>]

New(s) ==
  [phase |-> "FrameHeader",
   block |-> None, checksum |-> FALSE,   \* the block of the phase, the frame's flag
   buffer |-> <<>>, block_state |-> NewBlockState,
   history |-> <<>>, delivered |-> 0, window_size |-> 0,
   finished |-> FALSE]

Staged(z) == Drop(z.history, z.delivered)
-----------------------------------------------------------------------------
(***************************************************************************)
(* Blocks (block.rs, sequences.rs).                                        *)
(***************************************************************************)

\* resolve_offset(): the offset and the repeat offsets after it; 0 is invalid.
ResolveOffset(value, literal_length, reps) ==
  LET idx    == value - 1 + (IF literal_length = 0 THEN 1 ELSE 0)
      offset == IF value > 3 THEN value - 3
                ELSE CASE idx \in 0..2 -> reps[idx + 1]
                       [] idx = 3      -> reps[1] - 1
                       [] OTHER        -> 0
  IN  [offset |-> offset,
       reps |-> IF value <= 3 /\ idx \notin 1..3 THEN reps
                ELSE IF value <= 3 /\ idx = 1 THEN <<reps[2], reps[1], reps[3]>>
                ELSE <<offset, reps[1], reps[2]>>]

\* copy_match()
RECURSIVE CopyMatch(_, _, _)
CopyMatch(out, offset, len) ==
  IF len = 0 THEN out ELSE CopyMatch(Append(out, out[Len(out) + 1 - offset]), offset, len - 1)

\* execute_sequences(): the output, the offsets and whether every match could be made.
RECURSIVE Execute(_, _, _, _, _)
Execute(seqs, literals, out, reps, nearest) ==
  LET seq  == Head(seqs)
      r    == ResolveOffset(seq[2], seq[1], reps)
      with == out \o Take(literals, seq[1])
  IN  IF seqs = <<>> THEN [out |-> out \o literals, reps |-> reps, ok |-> TRUE]
      ELSE IF seq[1] > Len(literals) \/ r.offset = 0 \/ Len(with) - r.offset < nearest
      THEN [out |-> out, reps |-> reps, ok |-> FALSE]
      ELSE Execute(Tail(seqs), Drop(literals, seq[1]), CopyMatch(with, r.offset, seq[3]),
                   r.reps, nearest)

\* decode_literals_section(): the table it leaves; by it the literals are decoded.
LiteralsTable(state, body) ==
  IF body.treeless \/ body.huffman = None THEN state.huffman_table ELSE body.huffman

LiteralsDecoded(state, body) == body.huffman # None => state.huffman_table = body.huffman

\* parse_sequences_header(): the tables it leaves; by them the sequences are decoded.
SequenceTables(state, body) ==
  IF body.repeat \/ body.seqs = <<>> THEN state.tables ELSE body.coded

SequencesDecoded(state, body) == body.seqs # <<>> => state.tables = body.coded

\* decompress_compressed_block()
DecompressedBlock(z, body) ==
  LET state == [z.block_state EXCEPT !.huffman_table = LiteralsTable(z.block_state, body),
                                     !.tables = SequenceTables(z.block_state, body)]
      back  == Min({Len(z.history), z.window_size})
      done  == Execute(body.seqs, body.literals, z.history, state.rep_offsets,
                       Len(z.history) - back)
  IN  [z |-> [z EXCEPT !.history = done.out,
                       !.block_state = [state EXCEPT !.rep_offsets = done.reps]],
       ok |-> LiteralsDecoded(state, body) /\ SequencesDecoded(state, body) /\ done.ok]

\* decompress_block()
Decompressed(z, body) ==
  LET With(bytes) == [z |-> [z EXCEPT !.history = @ \o bytes], ok |-> TRUE]
  IN  CASE body.type = "raw"        -> With(body.literals)
        [] body.type = "rle"        -> With([i \in 1..body.times |-> body.literals[1]])
        [] body.type = "compressed" -> DecompressedBlock(z, body)

\* What the trim may cut.
Cut(z) == Min({Len(z.history) - z.window_size, z.delivered})

\* trim_history()
Trimmed(z) ==
  IF Len(z.history) > 2 * z.window_size + TrimSlack
  THEN [z EXCEPT !.history = Drop(@, Cut(z)), !.delivered = Max({@ - Cut(z), 0})]
  ELSE z
-----------------------------------------------------------------------------
(***************************************************************************)
(* decode_buffered()                                                       *)
(***************************************************************************)
GoOn(z)  == [z |-> z, then |-> "go"]
Break(z) == [z |-> z, then |-> "break"]
Fail(z)  == [z |-> z, then |-> "fail"]

Without(z, n) == [z EXCEPT !.buffer = Drop(@, n)]

\* check_skippable_frame()
Skippable(s, z) == z.buffer[1] \in DOMAIN s.skips /\ Len(z.buffer) >= SkipHeader

\* parse_frame_header(): the header, once it is all there.
ParsedHeader(s, z) ==
  LET frame == s.frames[z.buffer[1]]
  IN  IF Len(z.buffer) < frame.size THEN {} ELSE {frame}

ReadFrameHeader(s, z) ==
  IF Len(z.buffer) < MagicSize THEN Break(z)
  ELSE IF Skippable(s, z)
  THEN LET size == s.skips[z.buffer[1]]
       IN  IF Len(z.buffer) < size THEN Break(z) ELSE GoOn(Without(z, size))
  ELSE IF z.buffer[1] \notin DOMAIN s.frames THEN Fail(z)
  ELSE LET frame == CHOOSE h \in ParsedHeader(s, z) : TRUE
       IN  IF ParsedHeader(s, z) = {} THEN Break(z)
           ELSE GoOn([Without(z, frame.size) EXCEPT
                        !.window_size = frame.window, !.checksum = frame.checksum,
                        !.block_state = NewBlockState, !.phase = "BlockHeader"])

\* Enough is decoded for the caller.
Enough(z, room) == Len(Staged(z)) >= room

\* parse_block_header(): a header that is a block's.
IsBlock(s, z) == z.buffer[1] \in DOMAIN s.blocks

ReadBlockHeader(s, z, room) ==
  IF Enough(z, room) \/ Len(z.buffer) < BlockHeader THEN Break(z)
  ELSE IF ~ IsBlock(s, z) THEN Fail(z)
  ELSE GoOn([Without(z, BlockHeader) EXCEPT !.block = z.buffer[1], !.phase = "BlockData"])

ReadBlockData(s, z) ==
  LET b    == s.blocks[z.block]
      done == Decompressed(z, b.body)
  IN  IF Len(z.buffer) < b.size THEN Break(z)
      ELSE IF ~ done.ok THEN Fail(z)
      ELSE GoOn(Trimmed([Without(done.z, b.size) EXCEPT
                           !.block = None,
                           !.phase = IF b.last THEN "FrameChecksum" ELSE "BlockHeader"]))

ReadChecksum(z) ==
  LET size == IF z.checksum THEN ChecksumSize ELSE 0
  IN  IF Len(z.buffer) < size THEN Break(z)
      ELSE GoOn([Without(z, size) EXCEPT !.checksum = FALSE, !.phase = "FrameHeader"])

RECURSIVE DecodeBuffered(_, _, _)
DecodeBuffered(s, z, room) ==
  LET step == CASE z.phase = "FrameHeader"   -> ReadFrameHeader(s, z)
                [] z.phase = "BlockHeader"   -> ReadBlockHeader(s, z, room)
                [] z.phase = "BlockData"     -> ReadBlockData(s, z)
                [] z.phase = "FrameChecksum" -> ReadChecksum(z)
                [] z.phase = "Done"          -> Break([z EXCEPT !.finished = TRUE])
  IN  IF step.then = "go" THEN DecodeBuffered(s, step.z, room) ELSE step
-----------------------------------------------------------------------------
\* drain_staged(), and the answer.
Deliver(z, consumed, room) ==
  LET n == Min({Len(Staged(z)), room})
      y == [z EXCEPT !.delivered = @ + n]
  IN  Answer(y, consumed, Take(Staged(z), n),
             IF y.finished /\ Staged(y) = <<>> THEN "StreamEnd" ELSE "Continue")

Call(s, z, data, room) ==
  LET first  == DecodeBuffered(s, z, room)
      takes  == /\ first.then # "fail" /\ data # <<>>
                /\ Staged(first.z) = <<>> /\ ~ first.z.finished
      second == IF takes THEN DecodeBuffered(s, [first.z EXCEPT !.buffer = @ \o data], room)
                ELSE first
      a      == Deliver(second.z, IF takes THEN Len(data) ELSE 0, room)
      moved  == Len(first.z.buffer) < Len(z.buffer)
      ended  == [z EXCEPT !.finished = TRUE, !.phase = "Done"]
  IN  CASE Staged(z) # <<>>                -> Deliver(z, 0, room)
        [] Staged(z) = <<>> /\ z.finished  -> Answer(z, 0, <<>>, "StreamEnd")
        [] Staged(z) = <<>> /\ ~ z.finished ->
             IF data = <<>> /\ z.buffer = <<>>
             THEN IF z.phase = "FrameHeader" THEN Answer(ended, 0, <<>>, "StreamEnd")
                  ELSE Answer(z, 0, <<>>, "TruncatedInput")
             ELSE IF second.then = "fail" THEN Answer(z, 0, <<>>, "Failed")
             ELSE IF data = <<>> /\ ~ moved /\ a.bytes = <<>> /\ ~ second.z.finished
             THEN Answer(a.self, 0, <<>>, "TruncatedInput")
             ELSE a

Decompress(s, z, data, room) == {Call(s, z, data, room)}

\* get_checkpoint_state()
Checkpoint(s, z, packed, unpacked) ==
  {[packed |-> packed, unpacked |-> unpacked, fresh |-> FALSE,
    decoder |-> [z EXCEPT !.history = <<>>, !.delivered = 0],
    window |-> LastOf(z.history, z.window_size), staged_output |-> Staged(z)]}

\* The longer of the two: each is the end of the history.
Rebuilt(cp) ==
  IF Len(cp.staged_output) >= Len(cp.window) THEN cp.staged_output ELSE cp.window

Restored(s, cp) ==
  IF cp.fresh THEN New(s)
  ELSE [cp.decoder EXCEPT !.history = Rebuilt(cp), !.finished = FALSE,
                          !.delivered = Len(Rebuilt(cp)) - Len(cp.staged_output)]

Held(z) == Len(z.buffer) + Len(Staged(z))
=============================================================================

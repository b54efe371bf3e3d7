------------------------------- MODULE Bzip2 -------------------------------
(***************************************************************************)
(* Bzip2Decompressor (src/compress/bzip2.rs).                              *)
(*                                                                         *)
(* A stream `s' is [header, blocks, eos, end]: the bytes of its header,    *)
(* its blocks [start, at, size] by their first bit and the output they     *)
(* decode to, the first bit of its end-of-stream marker and the bit after  *)
(* its checksum.  libbzip2 is seen through its answers: it takes the bytes *)
(* of a block, then gives out its output, and only then reads on; it       *)
(* checks each block's sum, and at the end the sum of them all.            *)
(***************************************************************************)
EXTENDS Codec

CONSTANTS
  BitsPerByte,     \* 8
  MagicBits        \* 48, the magic of a block and of the end of the stream

BlockEnd(s, k) == IF k = Len(s.blocks) THEN s.eos ELSE s.blocks[k + 1].start

\* A byte of what libbzip2 is given, by its first bit and how many bits of it are real.
Aligned(offsets) ==
  [i \in DOMAIN offsets |-> [bit |-> offsets[i] * BitsPerByte, real |-> BitsPerByte]]
-----------------------------------------------------------------------------
(***************************************************************************)
(* BzDecompress.  After the header it takes any block for the first; if    *)
(* that was not the stream's, the sum of them all cannot match.            *)
(***************************************************************************)
NewInner == [bit |-> 0, whole |-> TRUE, at |-> 0, pending |-> 0]

\* It reads `byte': the block or stream it completes, if any.
InnerRead(s, in, byte) ==
  LET skips == in.bit = s.header * BitsPerByte /\ byte.bit # in.bit
      to    == byte.bit + BitsPerByte
      read  == [in EXCEPT !.bit = to, !.whole = @ /\ ~ skips]
      done  == {k \in DOMAIN s.blocks : byte.bit < BlockEnd(s, k) /\ BlockEnd(s, k) <= to}
      k     == CHOOSE x \in done : TRUE
      real  == byte.bit + byte.real
  IN  CASE \/ byte.bit # in.bit /\ ~ skips
           \/ skips /\ byte.bit \notin {s.blocks[x].start : x \in DOMAIN s.blocks}
                                                      -> [in |-> read, status |-> "Error"]
        [] done # {}                                  ->
             [in |-> [read EXCEPT !.at = s.blocks[k].at, !.pending = s.blocks[k].size],
              status |-> IF BlockEnd(s, k) <= real THEN "Ok" ELSE "Error"]
        [] byte.bit < s.end /\ s.end <= to            ->
             [in |-> read,
              status |-> IF s.end <= real /\ read.whole THEN "StreamEnd" ELSE "Error"]
        [] OTHER                                      -> [in |-> read, status |-> "Ok"]

\* BzDecompress::decompress.  With the output full it may read on or not.
RECURSIVE InnerRun(_, _, _, _, _)
InnerRun(s, in, feed, room, out) ==
  LET n     == Min({in.pending, room})
      given == out \o Span(in.at, n)
      after == [in EXCEPT !.at = @ + n, !.pending = @ - n]
      stop  == [in |-> after, left |-> feed, out |-> given, status |-> "Ok"]
      read  == InnerRead(s, after, Head(feed))
  IN  IF after.pending > 0 \/ feed = <<>> THEN {stop}
      ELSE (IF n = room THEN {stop} ELSE {})
           \cup (IF read.status = "Ok" THEN InnerRun(s, read.in, Tail(feed), room - n, given)
                 ELSE {[in |-> read.in, left |-> Tail(feed), out |-> given,
                        status |-> read.status]})
-----------------------------------------------------------------------------
NoBoundary == [packed |-> -1]
NoCarry    == -1

New(s) ==
  [inner |-> NewInner,
   total_in |-> 0, total_out |-> 0,
   stream_level |-> FALSE,        \* whether the level was read
   header_parsed |-> FALSE,
   scanned |-> 0,                 \* scanner.total_bits, in bytes
   last_block_boundary |-> NoBoundary,
   restore_active |-> FALSE, restore_header |-> FALSE,
   bit_shifter |-> [bit_offset |-> 0, carry |-> NoCarry],
   shift_buffer |-> <<>>]

\* scan_byte(): the block whose magic ends in this byte of the file, but for the first.
MagicEnds(s, offset) ==
  {k \in DOMAIN s.blocks \ {1} :
     (s.blocks[k].start + MagicBits - 1) \div BitsPerByte = offset}

\* find_boundary_positions()
BoundaryPositions(s, data) == {i \in DOMAIN data : MagicEnds(s, data[i]) # {}}

\* The first segment decompress_any() makes of the input: it returns at its boundary.
Segment(s, data) ==
  LET stops == BoundaryPositions(s, data)
  IN  IF stops = {} THEN data ELSE Take(data, Min(stops))

\* decompress_and_scan()
DecompressAndScan(s, b, data, room) ==
  {LET n     == Len(data) - Len(r.left)
       found == BoundaryPositions(s, Take(data, n))
       k     == CHOOSE x \in MagicEnds(s, data[Max(found)]) : TRUE
       out   == b.total_out + Len(r.out)
       bit   == s.blocks[k].start - data[1] * BitsPerByte + b.scanned * BitsPerByte
       next  == [b EXCEPT !.inner = r.in, !.total_in = @ + n, !.total_out = out,
                          !.scanned = @ + n,
                          !.last_block_boundary =
                             IF found = {} THEN @
                             ELSE [packed |-> bit \div BitsPerByte, bit |-> bit % BitsPerByte,
                                   unpacked |-> out]]
   IN  CASE r.status = "Ok"        -> Answer(next, n, r.out, "Continue")
         [] r.status = "StreamEnd" -> Answer(next, n, r.out, "StreamEnd")
         [] r.status = "Error"     -> Answer(next, 0, <<>>, "Failed")
     : r \in InnerRun(s, b.inner, Aligned(data), room, <<>>)}

DecompressNormal(s, b, data, room) ==
  LET level == ~ b.header_parsed /\ Len(data) >= s.header /\ data[1] = 0
      h     == [b EXCEPT !.stream_level = @ \/ level, !.header_parsed = @ \/ level]
  IN  DecompressAndScan(s, h, Segment(s, data), room)
-----------------------------------------------------------------------------
(***************************************************************************)
(* Restored, it is given the header again, then the file from the block's  *)
(* first byte on, shifted to the block's first bit.                        *)
(***************************************************************************)

\* shift() and, at the end of the file, flush(): the shifter and the bytes it makes.
Shift(shifter, data) ==
  LET all == (IF shifter.carry = NoCarry THEN <<>> ELSE <<shifter.carry>>) \o data
      b   == shifter.bit_offset
  IN  IF b = 0 THEN [shifter |-> shifter, bytes |-> Aligned(data)]
      ELSE IF data = <<>>
      THEN [shifter |-> [shifter EXCEPT !.carry = NoCarry],
            bytes |-> [i \in DOMAIN all |->
                         [bit |-> all[i] * BitsPerByte + b, real |-> BitsPerByte - b]]]
      ELSE [shifter |-> [shifter EXCEPT !.carry = all[Len(all)]],
            bytes |-> [i \in 1..(Len(all) - 1) |->
                         [bit |-> all[i] * BitsPerByte + b, real |-> BitsPerByte]]]

\* restore_scanner.eos_found: it scans what libbzip2 took.
EosFound(s, inner) == inner.bit >= s.eos + MagicBits

\* feed_restore()
FeedRestore(s, b, feed, consumed, room) ==
  {LET next == [b EXCEPT !.inner = r.in, !.total_out = @ + Len(r.out), !.shift_buffer = r.left]
   IN  CASE r.status = "Ok" -> Answer(next, consumed, r.out, "Continue")
         [] r.status = "StreamEnd" \/ (r.status = "Error" /\ EosFound(s, r.in)) ->
              Answer(next, consumed, r.out, "StreamEnd")
         [] r.status = "Error" /\ ~ EosFound(s, r.in) -> Answer(next, 0, <<>>, "Failed")
     : r \in InnerRun(s, b.inner, feed, room, <<>>)}

\* The new input, after what is still held.
ShiftInAndFeed(s, b, data, room) ==
  LET shifted == Shift(b.bit_shifter, data)
      feed    == b.shift_buffer \o shifted.bytes
      h       == [b EXCEPT !.bit_shifter = shifted.shifter, !.shift_buffer = <<>>]
  IN  IF feed = <<>> THEN {Answer(h, Len(data), <<>>, "Continue")}
      ELSE FeedRestore(s, h, feed, Len(data), room)

FeedHeldFirst(s, b, data, room) ==
  IF b.shift_buffer = <<>> THEN ShiftInAndFeed(s, b, data, room)
  ELSE UNION {IF held.bytes # <<>> \/ held.status # "Continue" THEN {held}
              ELSE ShiftInAndFeed(s, held.self, data, room)
                : held \in FeedRestore(s, [b EXCEPT !.shift_buffer = <<>>], b.shift_buffer,
                                       0, room)}

DecompressRestore(s, b, data, room) ==
  IF b.restore_header /\ ~ b.stream_level THEN {Answer(b, 0, <<>>, "Failed")}
  ELSE FeedHeldFirst(s, IF b.restore_header
                        THEN [b EXCEPT !.restore_header = FALSE,
                                       !.inner.bit = s.header * BitsPerByte]
                        ELSE b,
                     data, room)
-----------------------------------------------------------------------------

Truncated(b, data, a) ==
  data = <<>> /\ a.bytes = <<>> /\ a.status = "Continue" /\ a.self.total_in > 0

Decompress(s, b, data, room) ==
  {IF Truncated(b, data, a) THEN [a EXCEPT !.status = "TruncatedInput"] ELSE a
     : a \in IF b.restore_active THEN DecompressRestore(s, b, data, room)
             ELSE DecompressNormal(s, b, data, room)}

Checkpoint(s, b, packed, unpacked) ==
  LET boundary == b.last_block_boundary
  IN  IF boundary # NoBoundary
      THEN IF \/ boundary.unpacked # unpacked \/ boundary.packed > packed
              \/ packed - boundary.packed > MagicBits \div BitsPerByte + 2
           THEN {}
           ELSE {[packed |-> boundary.packed, unpacked |-> unpacked, fresh |-> FALSE,
                  bit_offset |-> boundary.bit, stream_level |-> b.stream_level]}
      ELSE IF packed = 0 /\ unpacked = 0 THEN {Start} ELSE {}

Restored(s, cp) ==
  IF cp.fresh THEN New(s)
  ELSE [New(s) EXCEPT
          !.total_in = cp.packed, !.total_out = cp.unpacked,
          !.stream_level = cp.stream_level, !.header_parsed = TRUE,
          !.restore_active = TRUE, !.restore_header = TRUE,
          !.bit_shifter.bit_offset = cp.bit_offset]

\* What it keeps of the file.
Held(b) == Len(b.shift_buffer) + (IF b.bit_shifter.carry = NoCarry THEN 0 ELSE 1)
=============================================================================

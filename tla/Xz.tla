--------------------------------- MODULE Xz ---------------------------------
(***************************************************************************)
(* XzDecompressor (src/compress/xz.rs): the container, and the LZMA2       *)
(* decoder of the block it is in.                                          *)
(*                                                                         *)
(* Of a stream, s.byte[offset] is also the value of the byte that starts a *)
(* block or the index, s.check the size its header gives the checks, and   *)
(* s.tail the length of the index and footer.                              *)
(***************************************************************************)
EXTENDS Codec

CONSTANTS
  DictSize, InitBytes, InMargin, OutMargin, SizeBase,   \* as in Lzma2
  StreamHeader,    \* size of the stream header (12)
  Align,           \* what sizes are padded to (4)
  ScratchSize      \* size of lzma2_out (256 KiB)

L2 == INSTANCE Lzma2

New(s) ==
  [phase |-> "StreamHeader", remaining |-> 0,    \* remaining: of the phase that has it
   buffer |-> <<>>,
   lzma2 |-> <<>>,                               \* Option: none, or the one decoder
   check_size |-> 0, block_data_bytes |-> 0, block_header_size |-> 0,
   staged |-> <<>>, total_in |-> 0, finished |-> FALSE]

At(x, phase, remaining) == [x EXCEPT !.phase = phase, !.remaining = remaining]

Without(x, n) == [x EXCEPT !.buffer = Drop(@, n)]

HasByte(s, x) == x.buffer # <<>> /\ x.buffer[1] \in DOMAIN s.byte

\* What decode_buffered() does next: go on, wait for input or the caller, or fail.
GoOn(x) == [x |-> x, then |-> "go"]
Break(x) == [x |-> x, then |-> "break"]
Fail(x) == [x |-> x, then |-> "fail"]

ReadStreamHeader(s, x) ==
  IF Len(x.buffer) < StreamHeader THEN Break(x)
  ELSE IF x.buffer[1] # 0 THEN Fail(x)
  ELSE GoOn(At([Without(x, StreamHeader) EXCEPT !.check_size = s.check], "BlockStart", 0))

ReadBlockStart(s, x) ==
  LET size == (s.byte[x.buffer[1]] + 1) * Align
  IN  IF x.buffer = <<>> THEN Break(x)
      ELSE IF ~ HasByte(s, x) THEN Fail(x)
      ELSE IF s.byte[x.buffer[1]] = 0 THEN GoOn(At(Without(x, 1), "Index", 0))
      ELSE GoOn(At([x EXCEPT !.block_header_size = size], "BlockHeader", size))

ReadBlockHeader(s, x) ==
  IF Len(x.buffer) < x.remaining THEN Break(x)
  ELSE GoOn(At([Without(x, x.remaining) EXCEPT !.lzma2 = <<L2!New(s)>>, !.block_data_bytes = 0],
               "Lzma2Data", 0))

\* With output staged or the chunks at their end it is the caller's turn.
AfterLzma2(x, a) ==
  IF a.status = "StreamEnd" \/ a.bytes # <<>> \/ a.consumed = 0 THEN Break(x) ELSE GoOn(x)

ReadLzma2(s, x) ==
  LET a == L2!Call(s, x.lzma2[1], x.buffer, ScratchSize)
      y == [Without(x, a.consumed) EXCEPT
              !.block_data_bytes = @ + a.consumed, !.staged = @ \o a.bytes,
              !.lzma2 = IF a.status = "StreamEnd" THEN <<>> ELSE <<a.self>>]
  IN  IF x.buffer = <<>> THEN Break(x)
      ELSE IF a.status \in {"Failed", "TruncatedInput"} THEN Fail(x)
      ELSE AfterLzma2(IF a.status = "StreamEnd" THEN At(y, "Check", y.check_size) ELSE y, a)

\* Bytes still to pad what a block has taken.
PaddingOf(x) == (Align - ((x.block_header_size + x.block_data_bytes) % Align)) % Align

ReadCheck(s, x) ==
  LET n == Min({x.remaining, Len(x.buffer)})
      y == [Without(x, n) EXCEPT !.block_data_bytes = @ + n, !.remaining = @ - n]
  IN  IF y.remaining > 0 THEN Break(y)
      ELSE GoOn(IF PaddingOf(y) = 0 THEN At(y, "BlockStart", 0)
                ELSE At(y, "Padding", PaddingOf(y)))

ReadPadding(s, x) ==
  LET n == Min({x.remaining, Len(x.buffer)})
      y == [Without(x, n) EXCEPT !.remaining = @ - n]
  IN  IF y.remaining > 0 THEN Break(y) ELSE GoOn(At(y, "BlockStart", 0))

\* Once the index and the footer are all there.
ReadIndex(s, x) ==
  IF Len(x.buffer) < s.tail THEN Break(x)
  ELSE Break([At(Without(x, s.tail), "Done", 0) EXCEPT !.finished = TRUE])

ReadPhase(s, x) ==
  CASE x.phase = "StreamHeader" -> ReadStreamHeader(s, x)
    [] x.phase = "BlockStart"   -> ReadBlockStart(s, x)
    [] x.phase = "BlockHeader"  -> ReadBlockHeader(s, x)
    [] x.phase = "Lzma2Data"    -> ReadLzma2(s, x)
    [] x.phase = "Check"        -> ReadCheck(s, x)
    [] x.phase = "Padding"      -> ReadPadding(s, x)
    [] x.phase = "Index"        -> ReadIndex(s, x)
    [] x.phase = "Done"         -> Break([x EXCEPT !.finished = TRUE])

RECURSIVE DecodeBuffered(_, _)
DecodeBuffered(s, x) ==
  LET step == ReadPhase(s, x)
  IN  IF step.then = "go" THEN DecodeBuffered(s, step.x) ELSE step
-----------------------------------------------------------------------------
\* drain_staged(), and the answer.
Deliver(x, consumed, room) ==
  LET n == Min({Len(x.staged), room})
      y == [x EXCEPT !.staged = Drop(@, n)]
  IN  Answer(y, consumed, Take(x.staged, n),
             IF y.finished /\ y.staged = <<>> THEN "StreamEnd" ELSE "Continue")

\* Mutation: what is offered is taken at every call.
TakesAll(x, data) == ~ x.finished /\ data # <<>>

\* Input is taken only when what is buffered gives nothing to hand out.
TakesInput(x, data) == x.staged = <<>> /\ ~ x.finished /\ data # <<>>

Call(s, x, data, room) ==
  LET first  == DecodeBuffered(s, x)
      takes  == first.then # "fail" /\ TakesInput(first.x, data)
      fed    == [first.x EXCEPT !.buffer = @ \o data, !.total_in = @ + Len(data)]
      second == IF takes THEN DecodeBuffered(s, fed) ELSE first
      a      == Deliver(second.x, IF takes THEN Len(data) ELSE 0, room)
      moved  == Len(first.x.buffer) < Len(x.buffer)
  IN  CASE x.staged # <<>> -> Deliver(x, 0, room)
        [] x.staged = <<>> /\ x.finished -> Answer(x, 0, <<>>, "StreamEnd")
        [] x.staged = <<>> /\ ~ x.finished ->
             IF data = <<>> /\ x.buffer = <<>> /\ x.lzma2 = <<>>
             THEN IF x.total_in > 0 \/ x.phase # "StreamHeader"
                  THEN Answer(x, 0, <<>>, "TruncatedInput")
                  ELSE Answer([x EXCEPT !.finished = TRUE], 0, <<>>, "StreamEnd")
             ELSE IF second.then = "fail" THEN Answer(second.x, 0, <<>>, "Failed")
             ELSE IF data = <<>> /\ ~ moved /\ a.bytes = <<>> /\ ~ second.x.finished
             THEN Answer(a.self, 0, <<>>, "TruncatedInput")
             ELSE a

Decompress(s, x, data, room) == {Call(s, x, data, room)}

Checkpoint(s, x, packed, unpacked) ==
  {[packed |-> packed, unpacked |-> unpacked, fresh |-> FALSE,
    decoder |-> [x EXCEPT !.lzma2 = IF @ = <<>> THEN <<>>
                                    ELSE <<[@[1] EXCEPT !.inner = L2!SavedChunks(@)]>>]]}

Restored(s, cp) ==
  IF cp.fresh THEN New(s) ELSE [cp.decoder EXCEPT !.finished = FALSE, !.total_in = cp.packed]

Held(x) == Len(x.buffer) + Len(x.staged)
=============================================================================

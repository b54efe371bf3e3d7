---------------------------- MODULE StreamReader ----------------------------
(***************************************************************************)
(* StreamReader (src/stream/reader.rs): decodes an unpacked byte range of  *)
(* a stream from the nearest checkpoint, without doing I/O.  Its caller    *)
(* steps it and answers its requests as in StreamIndexer, reading the      *)
(* packed file at compressed_position(); between steps it may retarget the *)
(* live reader at a later range with seek_forward.                         *)
(*                                                                         *)
(* A turn of step_once is one action: it may answer the caller (pc is then *)
(* the request) or leave step() looping (pc stays "call").                 *)
(***************************************************************************)
EXTENDS StreamIndex, Decoder

CONSTANTS
  FileLens,        \* the lengths the packed file may have
  MaxRead,         \* most packed bytes the caller reads at a time
  OutSize,         \* BUF_SIZE: the size of output_buf and skip_buf
  Tables,          \* the checkpoint tables the index may hold
  KnownLens,       \* the values unpacked_len may have in the index
  Offsets, Lengths,\* the ranges asked for
  MaxSeeks         \* bound on the seek_forward calls

ASSUME BoundsAssumption ==
  /\ FileLens \subseteq Nat
  /\ MaxRead \in Nat \ {0} /\ OutSize \in Nat \ {0} /\ MaxSeeks \in Nat
  /\ KnownLens \subseteq Nat \cup {UnknownLen}
  /\ Offsets \subseteq Nat /\ Lengths \subseteq Nat

\* Tables an indexer can have made: the decoder can be at each checkpoint.
ASSUME TablesAssumption ==
  /\ Tables \subseteq Seq(Checkpoint)
  /\ \A cps \in Tables :
       /\ cps # <<>> /\ cps[1].at = <<0, 0>>
       /\ \A i \in 1..Len(cps) : /\ cps[i].at = <<cps[i].packed, cps[i].unpacked>>
                                 /\ Reachable(cps[i].at)
       /\ \A i \in 1..(Len(cps) - 1) : cps[i].unpacked < cps[i + 1].unpacked

VARIABLES
  checkpoint,      \* the checkpoint the reader was created with
  target_offset, target_len,
  state,           \* State, without what it carries
  remaining,       \* what Skipping, Emitting and the NeedInputs carry
  out,             \* [at, len, read]: output_buf holds the bytes from offset
                   \*   `at'; output_len = len, output_read = read
  range_left,
  input,           \* [at, len, pos]: input_buf holds the file's bytes from
                   \*   `at'; input_pos = pos
  compressed_pos, unpacked_pos,
  eof, stream_ended, started,
  unpacked_len, require_full,
  pc,              \* "call", or the request step() returned
  decoder,         \* <<bytes taken in, bytes given out>>, for real
  file_len,        \* the packed file's length
  seeks,           \* seek_forward calls made
  served           \* the end of the last bytes read_output gave out

range == <<target_offset, target_len>>
index == <<checkpoint, unpacked_len, require_full>>
world == <<file_len, seeks, served>>

vars == <<index, range, state, remaining, out, range_left, input, compressed_pos,
          unpacked_pos, eof, stream_ended, started, pc, decoder, world>>

Requests == {"SeekAndRead", "NeedInput", "OutputReady", "Done", "TruncatedInput",
             "Error"}
Errors   == {"TruncatedInput", "Error"}
-----------------------------------------------------------------------------

\* clamp_len: cut offset..offset + len to what the index says the stream holds.
ClampLen(known, offset, len) ==
  IF known = UnknownLen THEN len
  ELSE IF offset >= known THEN 0 ELSE Smaller(len, known - offset)

Empty == [at |-> 0, len |-> 0, read |-> 0]

Buffered  == out.len - out.read

\* Mutation: serve the whole buffer, past the end of the range too.
ServeAll == Buffered

Serveable == Smaller(Buffered, range_left)
Position  == IF started THEN unpacked_pos - Buffered ELSE target_offset
InputLeft == input.len - input.pos

(***************************************************************************)
(* new(), and require_full_range() for an archive entry.                   *)
(***************************************************************************)
Init ==
  /\ file_len \in FileLens
  /\ unpacked_len \in KnownLens
  /\ require_full \in (IF unpacked_len = UnknownLen THEN BOOLEAN ELSE {TRUE})
  /\ target_offset \in Offsets
  /\ \E len \in Lengths : target_len = ClampLen(unpacked_len, target_offset, len)
  /\ \E cps \in Tables : checkpoint = cps[BestCheckpoint(cps, target_offset)]
  /\ state = IF target_len = 0 THEN "Done" ELSE "SeekToCheckpoint"
  /\ remaining = 0
  /\ out = Empty
  /\ range_left = target_len
  /\ input = [at |-> 0, len |-> 0, pos |-> 0]
  /\ compressed_pos = checkpoint.packed
  /\ unpacked_pos = 0
  /\ eof = FALSE /\ stream_ended = FALSE /\ started = FALSE
  /\ pc = "call"
  /\ decoder = <<0, 0>>
  /\ seeks = 0 /\ served = 0

-----------------------------------------------------------------------------
(***************************************************************************)
(* step(), where it does not decode.                                       *)
(***************************************************************************)

StepOutputReady ==
  /\ pc = "call" /\ Serveable > 0
  /\ pc' = "OutputReady"
  /\ UNCHANGED <<index, range, state, remaining, out, range_left, input,
                 compressed_pos, unpacked_pos, eof, stream_ended, started, decoder,
                 world>>

\* Done short of a range that is known to exist is an error.
StepDone ==
  /\ pc = "call" /\ Serveable = 0 /\ state = "Done"
  /\ pc' = IF range_left > 0 /\ require_full THEN "TruncatedInput" ELSE "Done"
  /\ UNCHANGED <<index, range, state, remaining, out, range_left, input,
                 compressed_pos, unpacked_pos, eof, stream_ended, started, decoder,
                 world>>

\* Restore the checkpoint and ask for its packed bytes, always with a seek.
StepSeekToCheckpoint ==
  /\ pc = "call" /\ Serveable = 0 /\ state = "SeekToCheckpoint"
  /\ started' = TRUE
  /\ decoder' = checkpoint.at
  /\ compressed_pos' = checkpoint.packed
  /\ unpacked_pos' = checkpoint.unpacked
  /\ LET skip == target_offset - checkpoint.unpacked
     IN  IF skip > 0
           THEN state' = "NeedInputSkipping" /\ remaining' = skip
           ELSE state' = "NeedInputEmitting" /\ remaining' = target_len
  /\ pc' = "SeekAndRead"
  /\ UNCHANGED <<index, range, out, range_left, input, eof, stream_ended, world>>

\* The codec refuses the checkpoint: restore returns an error.
RestoreError ==
  /\ Faulty
  /\ pc = "call" /\ Serveable = 0 /\ state = "SeekToCheckpoint"
  /\ pc' = "Error"
  /\ UNCHANGED <<index, range, state, remaining, out, range_left, input,
                 compressed_pos, unpacked_pos, eof, stream_ended, started, decoder,
                 world>>

Skipping == state \in {"Skipping", "NeedInputSkipping"}
Emitting == state \in {"Emitting", "NeedInputEmitting"}
Waiting  == state \in {"NeedInputSkipping", "NeedInputEmitting"}

\* Skip or emit without input: wait for some.
StepNeedInput ==
  /\ pc = "call" /\ Serveable = 0 /\ ~ eof
  /\ Waiting \/ ((Skipping \/ Emitting) /\ InputLeft = 0)
  /\ state' = IF Skipping THEN "NeedInputSkipping" ELSE "NeedInputEmitting"
  /\ pc' = "NeedInput"
  /\ UNCHANGED <<index, range, remaining, out, range_left, input, compressed_pos,
                 unpacked_pos, eof, stream_ended, started, decoder, world>>

CanDecode ==
  /\ pc = "call" /\ Serveable = 0
  /\ \/ eof /\ (Skipping \/ Emitting)
     \/ state \in {"Skipping", "Emitting"} /\ InputLeft > 0
-----------------------------------------------------------------------------

(***************************************************************************)
(* What a decode call moves, whichever of skip() and emit() makes it.      *)
(***************************************************************************)
Advance(result) ==
  /\ input' = [input EXCEPT !.pos = @ + result.consumed]
  /\ unpacked_pos' = unpacked_pos + result.produced
  /\ decoder' = After(decoder, <<result.consumed, result.produced>>)

(***************************************************************************)
(* after_decode(): the tail of a call that gave the caller nothing, in     *)
(* state `to' (Skipping or Emitting).                                      *)
(***************************************************************************)
Waits(to) == IF to = "Skipping" THEN "NeedInputSkipping" ELSE "NeedInputEmitting"

\* Mutation: a decoder that neither takes nor gives is not noticed.
NeverIdle(result) == FALSE

Idle(result) == result.consumed = 0 /\ result.produced = 0

\* Mutation: running dry is an error although the decoder says it is the end.
CutAtEnd(result) == compressed_pos > 0

\* Mutation: running dry is always the end.
NeverCut(result) == FALSE

CutShort(result) == compressed_pos > 0 /\ ~ result.ended

AfterDecode(result, to) ==
  LET had_input == InputLeft > 0
      dry       == InputLeft = result.consumed
      idle      == Idle(result)
      End       == state' = "Done" /\ stream_ended' = TRUE
                     /\ pc' = IF range_left > 0 /\ require_full THEN "TruncatedInput"
                              ELSE "Done"
      Stay(next) == state' = to /\ pc' = next /\ UNCHANGED stream_ended
  IN  CASE result.ended /\ had_input -> End
        [] ~ (result.ended /\ had_input) /\ dry /\ eof ->
             IF ~ idle THEN Stay("NeedInput")
             ELSE IF CutShort(result) THEN Stay("TruncatedInput")
             ELSE End
        [] ~ (result.ended /\ had_input) /\ dry /\ ~ eof ->
             state' = Waits(to) /\ pc' = "NeedInput" /\ UNCHANGED stream_ended
        [] ~ (result.ended /\ had_input) /\ ~ dry ->
             Stay(IF idle THEN "Error" ELSE "call")

(***************************************************************************)
(* A call that gave the caller something: `left' bytes of the range are    *)
(* still to be decoded, unless the stream has ended.                       *)
(***************************************************************************)
HandOver(result, left) ==
  /\ state' = IF left = 0 \/ result.ended THEN "Done" ELSE "Emitting"
  /\ remaining' = left
  /\ stream_ended' = (stream_ended \/ result.ended)
  /\ pc' = "OutputReady"

\* Mutation: the overshoot is not taken off the range.
LeftWhole(take) == target_len

LeftAfterOvershoot(take) == IF take < target_len THEN target_len - take ELSE 0

\* skip() that decodes past the target: the rest of skip_buf is kept.
SkipOver ==
  /\ CanDecode /\ Skipping
  /\ \E result \in Outcomes(decoder, InputLeft, OutSize) :
       /\ result.produced > remaining
       /\ Advance(result)
       /\ LET take == result.produced - remaining
          IN  /\ out' = [at |-> unpacked_pos + remaining, len |-> take, read |-> 0]
              /\ HandOver(result, LeftAfterOvershoot(take))
  /\ UNCHANGED <<index, range, range_left, compressed_pos, eof, started, world>>

\* skip() that stays at or before the target.
Skip ==
  /\ CanDecode /\ Skipping
  /\ \E result \in Outcomes(decoder, InputLeft, OutSize) :
       /\ result.produced <= remaining
       /\ Advance(result)
       /\ LET left == remaining - result.produced
              to   == IF left = 0 THEN "Emitting" ELSE "Skipping"
          IN  /\ remaining' = IF left = 0 THEN target_len ELSE left
              /\ AfterDecode(result, to)
  /\ UNCHANGED <<index, range, out, range_left, compressed_pos, eof, started, world>>

\* emit() decodes no further than the range.
Emit ==
  /\ CanDecode /\ Emitting
  /\ \E result \in Outcomes(decoder, InputLeft, Smaller(remaining, OutSize)) :
       /\ Advance(result)
       /\ IF result.produced > 0
            THEN /\ out' = [at |-> unpacked_pos, len |-> result.produced, read |-> 0]
                 /\ HandOver(result, remaining - result.produced)
            ELSE /\ AfterDecode(result, "Emitting")
                 /\ UNCHANGED <<out, remaining>>
  /\ UNCHANGED <<index, range, range_left, compressed_pos, eof, started, world>>

\* The decoder refuses the bytes: decompress returns an error.
DecodeError ==
  /\ Faulty /\ CanDecode /\ InputLeft > 0
  /\ state' = IF Skipping THEN "Skipping" ELSE "Emitting"
  /\ pc' = "Error"
  /\ UNCHANGED <<index, range, remaining, out, range_left, input, compressed_pos,
                 unpacked_pos, eof, stream_ended, started, decoder, world>>
-----------------------------------------------------------------------------

\* Mutation: input_pos is not reset.
ChunkContinued(offset, n) == [at |-> offset, len |-> n, pos |-> Smaller(input.pos, n)]

Chunk(offset, n) == [at |-> offset, len |-> n, pos |-> 0]

(***************************************************************************)
(* The caller reads where compressed_position() says (for SeekAndRead that *)
(* is the offset asked for), and signals a read of nothing as end of file. *)
(***************************************************************************)
ProvideFrom(offset) ==
  /\ pc \in {"SeekAndRead", "NeedInput"} /\ offset < file_len
  /\ \E n \in 1..Smaller(MaxRead, file_len - offset) :
       /\ input' = Chunk(offset, n)
       /\ compressed_pos' = compressed_pos + n
  /\ state' = CASE state = "NeedInputSkipping" -> "Skipping"
                [] state = "NeedInputEmitting" -> "Emitting"
                [] ~ Waiting                   -> state
  /\ pc' = "call"
  /\ UNCHANGED <<index, range, remaining, out, range_left, unpacked_pos, eof,
                 stream_ended, started, decoder, world>>

SignalEofAt(offset) ==
  /\ pc \in {"SeekAndRead", "NeedInput"} /\ offset >= file_len
  /\ eof' = TRUE
  /\ pc' = "call"
  /\ UNCHANGED <<index, range, state, remaining, out, range_left, input,
                 compressed_pos, unpacked_pos, stream_ended, started, decoder, world>>

ProvideData == ProvideFrom(compressed_pos)
SignalEof   == SignalEofAt(compressed_pos)

\* read_output() gives what is served, whether step() has just said so or not.
ReadOutput ==
  /\ pc \in {"call", "OutputReady"}
  /\ \E n \in 1..Serveable :
       /\ out' = IF out.read + n >= out.len THEN [out EXCEPT !.len = 0, !.read = 0]
                 ELSE [out EXCEPT !.read = @ + n]
       /\ range_left' = range_left - n
       /\ served' = out.at + out.read + n
  /\ pc' = "call"
  /\ UNCHANGED <<index, range, state, remaining, input, compressed_pos, unpacked_pos,
                 eof, stream_ended, started, decoder, file_len, seeks>>

(***************************************************************************)
(* seek_forward(), at any request.  A reader that has not restored its     *)
(* checkpoint yet is simply retargeted; a live one drops what it has       *)
(* buffered before the new offset, serves the rest of its buffer first and *)
(* decodes on from where the decoder stands.                               *)
(***************************************************************************)
Retarget(offset, len) ==
  /\ target_offset' = offset
  /\ target_len' = ClampLen(unpacked_len, offset, len)
  /\ range_left' = target_len'
  /\ seeks' = seeks + 1
  /\ pc' = "call"

SeekUnstarted ==
  /\ pc \in Requests \cup {"call"} /\ seeks < MaxSeeks /\ ~ started
  /\ \E offset \in Offsets, len \in Lengths :
       /\ offset >= target_offset
       /\ Retarget(offset, len)
  /\ state' = IF target_len' = 0 THEN "Done" ELSE "SeekToCheckpoint"
  /\ UNCHANGED <<index, remaining, out, input, compressed_pos, unpacked_pos, eof,
                 stream_ended, started, decoder, file_len, served>>

\* Mutation: count what to drop from the old range instead of the position.
DropFromTarget(offset) == Smaller(offset - target_offset, Buffered)

DropCount(offset) == Smaller(offset - Position, Buffered)

\* Mutation: any offset past the old range's start is taken.
AcceptsPastTarget(offset) == offset >= target_offset

Accepts(offset) == offset >= Position

\* Mutation: go back to the checkpoint when the buffer does not hold the offset.
RestoreAgain(left, beyond) ==
  IF left = 0 \/ stream_ended THEN "Done"
  ELSE IF beyond > 0 THEN "SeekToCheckpoint" ELSE "Emitting"

StateToward(left, beyond) ==
  IF left = 0 \/ stream_ended THEN "Done"
  ELSE IF beyond > 0 THEN "Skipping" ELSE "Emitting"

SeekForward ==
  /\ pc \in Requests \ {"Error"} /\ seeks < MaxSeeks /\ started
  /\ \E offset \in Offsets, len \in Lengths :
       /\ Accepts(offset)
       /\ Retarget(offset, len)
       /\ LET drop   == DropCount(offset)
              beyond == offset - Position - drop
              kept   == Buffered - drop
              left   == target_len' - Smaller(kept, target_len')
          IN  /\ out' = IF kept = 0 THEN [out EXCEPT !.len = 0, !.read = 0]
                        ELSE [out EXCEPT !.read = @ + drop]
              /\ state' = StateToward(left, beyond)
              /\ remaining' = IF left = 0 \/ stream_ended THEN 0
                              ELSE IF beyond > 0 THEN beyond ELSE left
  /\ UNCHANGED <<index, input, compressed_pos, unpacked_pos, eof, stream_ended,
                 started, decoder, file_len, served>>

\* The caller steps again without answering.
StepAgain ==
  /\ pc \in {"SeekAndRead", "NeedInput", "OutputReady"}
  /\ pc' = "call"
  /\ UNCHANGED <<index, range, state, remaining, out, range_left, input, compressed_pos,
                 unpacked_pos, eof, stream_ended, started, decoder, world>>

\* The caller is content with what it got.
Terminated == pc \in {"Done"} \cup Errors /\ UNCHANGED vars

Step ==
  \/ StepOutputReady \/ StepDone \/ StepSeekToCheckpoint \/ RestoreError \/ StepNeedInput
  \/ SkipOver \/ Skip \/ Emit \/ DecodeError

Answer == ProvideData \/ SignalEof \/ ReadOutput

Next == Step \/ Answer \/ StepAgain \/ SeekUnstarted \/ SeekForward \/ Terminated

Spec == Init /\ [][Next]_vars

\* step() runs when it is called, and a caller that is asked again and again answers.
FairSpec == Spec /\ WF_vars(Step) /\ SF_vars(Answer)

-----------------------------------------------------------------------------
(***************************************************************************)
(* What must hold.                                                         *)
(***************************************************************************)

\* Every variable holds a value of the code's type (fields of StreamReader), and
\* the unsigned differences the code takes never go below zero.
TypeOK ==
  /\ checkpoint \in Checkpoint
  /\ target_offset \in Nat /\ target_len \in Nat
  /\ state \in {"SeekToCheckpoint", "Skipping", "Emitting", "NeedInputSkipping",
               "NeedInputEmitting", "Done"}
  /\ remaining \in Nat
  /\ out \in [at : Nat, len : Nat, read : Nat] /\ out.read <= out.len
  /\ range_left \in Nat /\ range_left <= target_len
  /\ input \in [at : Nat, len : Nat, pos : Nat] /\ input.pos <= input.len
  /\ compressed_pos \in Nat /\ unpacked_pos \in Nat
  /\ eof \in BOOLEAN /\ stream_ended \in BOOLEAN /\ started \in BOOLEAN
  /\ unpacked_len \in Nat \cup {UnknownLen} /\ require_full \in BOOLEAN
  /\ pc \in Requests \cup {"call"}
  /\ decoder \in Nat \X Nat
  /\ file_len \in Nat /\ seeks \in Nat /\ served \in Nat

\* The next byte read_output owes the caller, and the end of what it owes.
Owed      == target_offset + target_len - range_left
RangeEnd  == target_offset + target_len

(***************************************************************************)
(* The bytes that can be taken are the bytes owed: the first byte of the   *)
(* buffer is the next one of the range (read_output), whatever was skipped,*)
(* overshot, kept from before a seek_forward or decoded since.             *)
(***************************************************************************)
ServesTheRange ==
  /\ Serveable > 0 => out.at + out.read = Owed
  /\ Buffered > 0 => out.at + out.len = unpacked_pos
  /\ started => unpacked_pos = decoder[2]

(***************************************************************************)
(* The decoder is fed the packed file in order, over seeks, chunks and     *)
(* retargeting: what is left of input_buf and then the byte at             *)
(* compressed_position() are what it wants next.                           *)
(***************************************************************************)
FedInOrder ==
  started =>
    /\ input.len > 0 => input.at + input.len = compressed_pos
    /\ decoder[1] + InputLeft = compressed_pos

(***************************************************************************)
(* What the states carry is the distance still to go: to the range while   *)
(* skipping, to the end of the range while emitting.                       *)
(***************************************************************************)
RemainingExact ==
  /\ Skipping => unpacked_pos + remaining = target_offset /\ Buffered = 0
  /\ Emitting => unpacked_pos + remaining = RangeEnd /\ remaining > 0

(***************************************************************************)
(* Done with bytes missing is only said when nothing asked for the full    *)
(* range and the stream truly holds no more (or the file is empty).        *)
(***************************************************************************)
DoneIsDelivered ==
  pc = "Done" =>
    \/ range_left = 0
    \/ /\ ~ require_full /\ stream_ended
       /\ Owed >= UnpackedLen \/ file_len = 0

\* A whole file with an honest index raises no error for a range the stream holds,
\* nor for one that nothing requires to be full, unless its decoder is faulty; and
\* the stream is not called truncated once it is decoded to its end.
NoFalseAlarm ==
  /\ file_len >= PackedLen
  /\ require_full => RangeEnd <= UnpackedLen
  => /\ pc \in Errors => Faulty
     /\ pc = "TruncatedInput" => ~ AtEnd(decoder)

(***************************************************************************)
(* A live reader is never taken back: what it has decoded it does not      *)
(* decode again, over any number of seek_forward calls ("sequential reads  *)
(* cost only the new bytes"), and it restores its checkpoint once.         *)
(***************************************************************************)
DecodesOnce ==
  [][started => /\ started' /\ decoder'[1] >= decoder[1] /\ decoder'[2] >= decoder[2]
                /\ compressed_pos' >= compressed_pos
    ]_vars

\* A caller that answers every request gets its range, or an error.
RangeEnds == (pc = "call") ~> (pc \in {"Done"} \cup Errors)

\* What the last request told the caller.
Status == IF pc = "Done" THEN "done" ELSE IF pc \in Errors THEN "failed" ELSE "serving"

\* The reader keeps the promise of RangeServer.
Server == INSTANCE RangeServer WITH
  Total <- UnpackedLen, next <- Owed, limit <- RangeEnd, status <- Status

KeepsPromise == Server!Spec
=============================================================================

------------------------- MODULE StreamReaderProofs -------------------------
(***************************************************************************)
(* Proofs about StreamReader, for every stream, file, table of checkpoints *)
(* and range.                                                              *)
(***************************************************************************)
EXTENDS StreamReader, DecoderProofs, StreamIndexProofs

-----------------------------------------------------------------------------
(***************************************************************************)
(* The inductive invariant: what the properties need to be known of a      *)
(* reader between any two actions.                                         *)
(***************************************************************************)

\* The checkpoint is a place the decoder can really be at.
CheckpointReal ==
  /\ checkpoint.at = <<checkpoint.packed, checkpoint.unpacked>>
  /\ Reachable(checkpoint.at)

\* Before the first step nothing has moved, and the checkpoint serves the target.
Resting ==
  ~ started =>
    /\ out.len = 0 /\ input.len = 0 /\ served = 0
    /\ eof = FALSE /\ stream_ended = FALSE
    /\ range_left = target_len
    /\ checkpoint.unpacked <= target_offset
    /\ state = IF target_len = 0 THEN "Done" ELSE "SeekToCheckpoint"
    /\ pc \in {"call", "Done", "Error"}

\* After it, the decoder is at a real place, past all that was served.
Live ==
  started => /\ state # "SeekToCheckpoint"
             /\ Reachable(decoder)
             /\ served <= unpacked_pos - Buffered

\* Input is only waited for when there is none left.
WaitsDry == Waiting \/ pc \in {"SeekAndRead", "NeedInput"} => started /\ InputLeft = 0

\* What is owed beyond the buffer is what the state still has to decode; a reader
\* that is done and owes more has reached the stream's end.
Owing ==
  /\ Emitting => range_left = remaining + Buffered
  /\ Skipping => range_left = target_len /\ range_left > 0
  /\ state = "Done" /\ range_left > Buffered =>
       stream_ended /\ Owed + Buffered >= unpacked_pos

\* stream_ended is only set at the end of the stream, or of an empty file.
Ended ==
  /\ eof => compressed_pos >= file_len
  /\ stream_ended => state = "Done" /\ (AtEnd(decoder) \/ file_len = 0)

\* A finished reader has nothing left to give, and owes only what nobody required.
Finished ==
  pc = "Done" => /\ state = "Done" /\ Serveable = 0
                 /\ range_left > 0 => ~ require_full

Inv ==
  /\ TypeOK
  /\ ServesTheRange /\ FedInOrder /\ RemainingExact
  /\ CheckpointReal /\ Resting /\ Live /\ WaitsDry /\ Owing /\ Ended /\ Finished

-----------------------------------------------------------------------------

\* What Smaller is.
LEMMA SmallerBounds ==
  ASSUME NEW a \in Int, NEW b \in Int
  PROVE  /\ Smaller(a, b) \in Int /\ Smaller(a, b) <= a /\ Smaller(a, b) <= b
         /\ Smaller(a, b) \in {a, b}
BY DEF Smaller

\* clamp_len gives a length, no longer than the one asked for.
LEMMA ClampLenBounds ==
  ASSUME NEW known \in Nat \cup {UnknownLen}, NEW offset \in Nat, NEW len \in Nat
  PROVE  ClampLen(known, offset, len) \in Nat /\ ClampLen(known, offset, len) <= len
BY UnknownLenAssumption DEF ClampLen, Smaller

(***************************************************************************)
(* A new reader (new, require_full_range) satisfies the invariant.         *)
(***************************************************************************)
LEMMA InitInv == Init => Inv
<1> SUFFICES ASSUME Init PROVE Inv
  OBVIOUS
<1>1. target_offset \in Nat /\ unpacked_len \in Nat \cup {UnknownLen}
      /\ file_len \in Nat /\ require_full \in BOOLEAN
  BY BoundsAssumption DEF Init
<1>2. target_len \in Nat
  BY <1>1, BoundsAssumption, ClampLenBounds DEF Init
<1>3. checkpoint \in Checkpoint /\ CheckpointReal /\ checkpoint.unpacked <= target_offset
  <2>1. PICK cps \in Tables : checkpoint = cps[BestCheckpoint(cps, target_offset)]
    BY DEF Init
  <2>2. /\ cps \in Seq(Checkpoint) /\ cps # <<>> /\ cps[1].at = <<0, 0>>
        /\ \A i \in 1..Len(cps) : /\ cps[i].at = <<cps[i].packed, cps[i].unpacked>>
                                  /\ Reachable(cps[i].at)
    BY TablesAssumption
  <2>3. Len(cps) \in Nat \ {0}
    BY <2>2, EmptySeq
  <2>4. cps[1].unpacked = 0
    BY <2>2, <2>3
  <2>5. /\ BestCheckpoint(cps, target_offset) \in 1..Len(cps)
        /\ cps[BestCheckpoint(cps, target_offset)].unpacked <= target_offset
    BY <1>1, <2>2, <2>4, BestCheckpointUsable
  <2>6. checkpoint \in Checkpoint
    BY <2>1, <2>2, <2>5, ElementOfSeq
  <2> QED
    BY <2>1, <2>2, <2>5, <2>6 DEF CheckpointReal
<1>4. TypeOK
  <2>1. compressed_pos \in Nat
    BY <1>3 DEF Init, Checkpoint
  <2>2. state \in {"Done", "SeekToCheckpoint"}
    BY DEF Init
  <2>3. /\ out \in [at : Nat, len : Nat, read : Nat] /\ out.read <= out.len
        /\ input \in [at : Nat, len : Nat, pos : Nat] /\ input.pos <= input.len
        /\ decoder \in Nat \X Nat
    BY DEF Init, Empty
  <2>4. /\ remaining \in Nat /\ range_left \in Nat /\ range_left <= target_len
        /\ unpacked_pos \in Nat /\ seeks \in Nat /\ served \in Nat
    BY <1>2 DEF Init
  <2>5. /\ eof \in BOOLEAN /\ stream_ended \in BOOLEAN /\ started \in BOOLEAN
        /\ pc \in Requests \cup {"call"}
    BY Zenon DEF Init
  <2> QED
    BY <1>1, <1>2, <1>3, <2>1, <2>2, <2>3, <2>4, <2>5 DEF TypeOK
<1>5. Resting /\ Live /\ WaitsDry /\ Ended /\ Finished
  BY <1>2, <1>3 DEF Init, Resting, Live, WaitsDry, Waiting, Ended, Finished, Empty
<1>6. Owing
  BY <1>2 DEF Init, Owing, Emitting, Skipping, Buffered, Empty
<1>7. ServesTheRange /\ FedInOrder /\ RemainingExact
  BY <1>2 DEF Init, ServesTheRange, FedInOrder, RemainingExact, Serveable, Buffered, Smaller,
     Emitting, Skipping, Empty
<1> QED
  BY <1>3, <1>4, <1>5, <1>6, <1>7 DEF Inv

-----------------------------------------------------------------------------

\* What the properties and the invariant read: an action that changes none of it
\* and no pc keeps the invariant.
LEMMA StutterInv == ASSUME Inv, UNCHANGED vars PROVE Inv'
BY DEF Inv, vars, index, range, world, TypeOK, ServesTheRange, FedInOrder, RemainingExact,
  CheckpointReal, Resting, Live, WaitsDry, Owing, Ended, Finished, Serveable, Buffered,
  InputLeft, Owed, RangeEnd, Skipping, Emitting, Waiting

(***************************************************************************)
(* step() where it answers without decoding.                               *)
(***************************************************************************)
\* It answers that output is ready, ...
LEMMA StepOutputReadyInv == ASSUME Inv, StepOutputReady PROVE Inv'
BY DEF Inv, StepOutputReady, index, range, world, TypeOK, ServesTheRange, FedInOrder,
  RemainingExact, CheckpointReal, Resting, Live, WaitsDry, Owing, Ended, Finished, Serveable,
  Buffered, InputLeft, Owed, RangeEnd, Skipping, Emitting, Waiting, Requests, Smaller

\* ... that the range is served, or cannot be.
LEMMA StepDoneInv == ASSUME Inv, StepDone PROVE Inv'
BY DEF Inv, StepDone, index, range, world, TypeOK, ServesTheRange, FedInOrder,
  RemainingExact, CheckpointReal, Resting, Live, WaitsDry, Owing, Ended, Finished, Serveable,
  Buffered, InputLeft, Owed, RangeEnd, Skipping, Emitting, Waiting, Requests, Smaller

\* ... that it wants more input.
LEMMA StepNeedInputInv == ASSUME Inv, StepNeedInput PROVE Inv'
BY DEF Inv, StepNeedInput, index, range, world, TypeOK, ServesTheRange, FedInOrder,
  RemainingExact, CheckpointReal, Resting, Live, WaitsDry, Owing, Ended, Finished, Serveable,
  Buffered, InputLeft, Owed, RangeEnd, Skipping, Emitting, Waiting, Requests, Smaller

\* ... or restores the checkpoint and asks for its packed bytes.
LEMMA StepSeekToCheckpointInv == ASSUME Inv, StepSeekToCheckpoint PROVE Inv'
<1> USE DEF Inv
<1>1. /\ ~ started /\ state = "SeekToCheckpoint"
      /\ out.len = 0 /\ out.read = 0 /\ input.len = 0 /\ input.pos = 0 /\ served = 0
      /\ eof = FALSE /\ stream_ended = FALSE
      /\ range_left = target_len /\ target_len > 0 /\ checkpoint.unpacked <= target_offset
  BY DEF StepSeekToCheckpoint, TypeOK, Live, Resting
<1>2. /\ checkpoint.packed \in Nat /\ checkpoint.unpacked \in Nat
      /\ checkpoint.at = <<checkpoint.packed, checkpoint.unpacked>>
      /\ Reachable(checkpoint.at)
  BY DEF TypeOK, Checkpoint, CheckpointReal
<1>3. TypeOK'
  BY <1>1, <1>2 DEF StepSeekToCheckpoint, TypeOK, index, range, world, Requests
<1>4. (ServesTheRange /\ FedInOrder /\ RemainingExact)'
  BY <1>1, <1>2 DEF StepSeekToCheckpoint, TypeOK, index, range, world, ServesTheRange,
     FedInOrder, RemainingExact, Serveable, Buffered, InputLeft, Owed, RangeEnd, Smaller,
     Skipping, Emitting
<1>5. (CheckpointReal /\ Resting /\ Live)'
  BY <1>1, <1>2 DEF StepSeekToCheckpoint, TypeOK, index, range, world, CheckpointReal,
     Resting, Live, Buffered
<1>6. (WaitsDry /\ Owing /\ Ended /\ Finished)'
  BY <1>1, <1>2 DEF StepSeekToCheckpoint, TypeOK, index, range, world, WaitsDry, Owing,
     Ended, Finished, InputLeft, Buffered, Skipping, Emitting
<1> QED
  BY <1>3, <1>4, <1>5, <1>6

-----------------------------------------------------------------------------
(***************************************************************************)
(* The caller's answers.                                                   *)
(***************************************************************************)
\* provide_data(), when input is waited for and none is left.
LEMMA ProvideDataInv == ASSUME Inv, ProvideData PROVE Inv'
<1> USE DEF Inv
<1>1. PICK n \in 1..Smaller(MaxRead, file_len - compressed_pos) :
         /\ input' = [at |-> compressed_pos, len |-> n, pos |-> 0]
         /\ compressed_pos' = compressed_pos + n
  BY DEF ProvideData, ProvideFrom, Chunk
<1>2. n \in Nat /\ compressed_pos + n <= file_len
  BY <1>1, BoundsAssumption DEF ProvideData, ProvideFrom, TypeOK, Smaller
<1>3. started /\ InputLeft = 0 /\ eof = FALSE
  BY DEF ProvideData, ProvideFrom, WaitsDry, Ended, TypeOK
<1>4. TypeOK'
  BY <1>1, <1>2 DEF ProvideData, ProvideFrom, TypeOK, index, range, world, Requests, Waiting
<1>5. (ServesTheRange /\ FedInOrder /\ RemainingExact)'
  BY <1>1, <1>2, <1>3, <1>4 DEF ProvideData, ProvideFrom, TypeOK, index, range, world, ServesTheRange,
     FedInOrder, RemainingExact, Serveable, Buffered, InputLeft, Owed, RangeEnd,
     Skipping, Emitting, Waiting
<1>6. (CheckpointReal /\ Resting /\ Live)'
  BY <1>3 DEF ProvideData, ProvideFrom, TypeOK, index, range, world, CheckpointReal, Resting, Live, Buffered,
     Waiting
<1>7. (WaitsDry /\ Owing /\ Ended /\ Finished)'
  BY <1>1, <1>2, <1>3 DEF ProvideData, ProvideFrom, TypeOK, index, range, world, WaitsDry, Owing, Ended,
     Finished, InputLeft, Buffered, Owed, Skipping, Emitting, Waiting
<1> QED
  BY <1>4, <1>5, <1>6, <1>7

\* A read of nothing: signal_eof().
LEMMA SignalEofInv == ASSUME Inv, SignalEof PROVE Inv'
<1> USE DEF Inv
<1>1. started
  BY DEF SignalEof, SignalEofAt, WaitsDry
<1>2. TypeOK'
  BY DEF SignalEof, SignalEofAt, TypeOK, index, range, world
<1>3. (ServesTheRange /\ FedInOrder /\ RemainingExact)'
  BY DEF SignalEof, SignalEofAt, index, range, world, ServesTheRange, FedInOrder, RemainingExact,
     Serveable, Buffered, InputLeft, Owed, RangeEnd, Skipping, Emitting
<1>4. (CheckpointReal /\ Resting /\ Live)'
  BY <1>1 DEF SignalEof, SignalEofAt, TypeOK, index, range, world, CheckpointReal, Resting, Live, Buffered
<1>5. (WaitsDry /\ Owing /\ Ended /\ Finished)'
  BY DEF SignalEof, SignalEofAt, TypeOK, index, range, world, WaitsDry, Owing, Ended,
     Finished, InputLeft, Buffered, Owed, Skipping, Emitting, Waiting
<1> QED
  BY <1>2, <1>3, <1>4, <1>5

\* read_output() takes some of what is served.
LEMMA ReadOutputInv == ASSUME Inv, ReadOutput PROVE Inv'
<1> USE DEF Inv
<1>1. PICK n \in 1..Serveable :
         /\ out' = IF out.read + n >= out.len THEN [out EXCEPT !.len = 0, !.read = 0]
                   ELSE [out EXCEPT !.read = @ + n]
         /\ range_left' = range_left - n
         /\ served' = out.at + out.read + n
  BY DEF ReadOutput
<1>2. /\ n \in Nat /\ n <= Buffered /\ n <= range_left /\ n > 0
      /\ Buffered \in Nat /\ Serveable > 0
  BY <1>1 DEF Serveable, Smaller, Buffered, TypeOK
<1>3. started
  BY <1>2 DEF Resting, Buffered, TypeOK
<1>4. /\ out' \in [at : Nat, len : Nat, read : Nat] /\ out'.read <= out'.len
      /\ out'.len - out'.read = Buffered - n
      /\ out'.len # 0 => out'.at = out.at /\ out'.len = out.len /\ out'.read = out.read + n
      /\ out.at + out.len = unpacked_pos
      /\ out.at + out.read = Owed
  <2>1. out.at + out.len = unpacked_pos /\ out.at + out.read = Owed
    BY <1>1, <1>2 DEF ServesTheRange
  <2>2. out = [at |-> out.at, len |-> out.len, read |-> out.read]
        /\ out.at \in Nat /\ out.len \in Nat /\ out.read \in Nat
    BY DEF TypeOK
  <2>3. CASE out.read + n >= out.len
    <3>1. out' = [out EXCEPT !.len = 0, !.read = 0]
      BY <1>1, <2>3
    <3>2. out'.at = out.at /\ out'.len = 0 /\ out'.read = 0
          /\ out' \in [at : Nat, len : Nat, read : Nat]
      BY <2>2, <3>1
    <3>3. Buffered - n = 0
      BY <1>2, <2>2, <2>3 DEF Buffered
    <3> QED BY <2>1, <3>2, <3>3
  <2>4. CASE ~ (out.read + n >= out.len)
    BY <1>1, <1>2, <2>1, <2>2, <2>4 DEF Buffered
  <2> QED BY <2>2, <2>3, <2>4
<1>5. TypeOK'
  BY <1>1, <1>2, <1>4 DEF ReadOutput, TypeOK, index, range, world, Requests, Buffered
<1>6. (ServesTheRange /\ FedInOrder /\ RemainingExact)'
  BY <1>1, <1>2, <1>3, <1>4 DEF ReadOutput, TypeOK, index, range, ServesTheRange,
     FedInOrder, RemainingExact, Serveable, Buffered, InputLeft, Owed, RangeEnd, Smaller,
     Skipping, Emitting
<1>7. (CheckpointReal /\ Resting /\ Live)'
  BY <1>1, <1>2, <1>3, <1>4 DEF ReadOutput, TypeOK, index, range, CheckpointReal, Resting,
     Live, Buffered
<1>8. (WaitsDry /\ Ended /\ Finished)'
  BY DEF ReadOutput, index, WaitsDry, Ended, Finished, InputLeft, Waiting
<1>9. Owing'
  <2>1. Buffered' = Buffered - n /\ Owed' = Owed + n
    BY <1>1, <1>2, <1>4 DEF ReadOutput, TypeOK, range, Buffered, Owed
  <2>2. ~ Skipping
    BY <1>2 DEF RemainingExact
  <2>3. Owed \in Int /\ remaining \in Nat /\ range_left \in Nat /\ unpacked_pos \in Nat
    BY DEF TypeOK, Owed
  <2>4. /\ state' = state /\ remaining' = remaining /\ unpacked_pos' = unpacked_pos
        /\ stream_ended' = stream_ended
    BY DEF ReadOutput
  <2> QED
    BY <1>1, <1>2, <2>1, <2>2, <2>3, <2>4 DEF Owing, Skipping, Emitting
<1> QED
  BY <1>5, <1>6, <1>7, <1>8, <1>9

-----------------------------------------------------------------------------
(***************************************************************************)
(* The decode calls.                                                       *)
(***************************************************************************)

\* A reader that decodes has nothing buffered and has not met the end.
LEMMA CanDecodeFacts ==
  ASSUME Inv, CanDecode, Skipping \/ Emitting
  PROVE  /\ started /\ stream_ended = FALSE
         /\ out.len = out.read /\ range_left > 0
         /\ Emitting => remaining = range_left
         /\ Skipping => range_left = target_len
<1>1. state # "Done" /\ state # "SeekToCheckpoint"
  BY DEF Skipping, Emitting
<1>2. started /\ stream_ended = FALSE
  BY <1>1 DEF Inv, TypeOK, Resting, Ended
<1>3. CASE Skipping
  <2>1. ~ Emitting
    BY <1>3 DEF Skipping, Emitting
  <2> QED
    BY <1>2, <1>3, <2>1 DEF Inv, TypeOK, RemainingExact, Owing, Buffered
<1>4. CASE Emitting
  <2>1. ~ Skipping
    BY <1>4 DEF Skipping, Emitting
  <2>2. /\ range_left = remaining + (out.len - out.read) /\ remaining > 0
        /\ remaining \in Nat /\ range_left \in Nat
        /\ out.len \in Nat /\ out.read \in Nat /\ out.read <= out.len
    BY <1>4 DEF Inv, TypeOK, RemainingExact, Owing, Buffered
  <2>3. Smaller(out.len - out.read, range_left) = 0
    BY DEF CanDecode, Serveable, Buffered
  <2>4. out.len - out.read = 0
    BY <2>2, <2>3 DEF Smaller
  <2> QED
    BY <1>2, <2>1, <2>2, <2>4
<1> QED
  BY <1>3, <1>4

\* What a decode call does to the positions.
LEMMA AdvanceFacts ==
  ASSUME Inv, CanDecode, Skipping \/ Emitting,
         NEW room \in Nat, NEW result \in Outcomes(decoder, InputLeft, room),
         Advance(result)
  PROVE  /\ result.consumed \in Nat /\ result.consumed <= InputLeft
         /\ result.produced \in Nat /\ result.produced <= room
         /\ result.ended \in BOOLEAN
         /\ input' \in [at : Nat, len : Nat, pos : Nat] /\ input'.pos <= input'.len
         /\ input'.at = input.at /\ input'.len = input.len
         /\ InputLeft \in Nat /\ InputLeft' = InputLeft - result.consumed
         /\ unpacked_pos' = unpacked_pos + result.produced
         /\ decoder \in Nat \X Nat
         /\ decoder' = <<decoder[1] + result.consumed, decoder[2] + result.produced>>
         /\ Reachable(decoder')
         /\ result.ended => AtEnd(decoder')
<1>1. Reachable(decoder)
  BY CanDecodeFacts DEF Inv, Live
<1>2. /\ input = [at |-> input.at, len |-> input.len, pos |-> input.pos]
      /\ input.at \in Nat /\ input.len \in Nat /\ input.pos \in Nat
      /\ input.pos <= input.len /\ decoder \in Nat \X Nat
  BY DEF Inv, TypeOK
<1>3. InputLeft \in Nat /\ InputLeft = input.len - input.pos
  BY <1>2 DEF InputLeft
<1>4. /\ result.consumed \in 0..InputLeft
      /\ result.produced \in 0..room
      /\ result.ended \in BOOLEAN
      /\ Reachable(After(decoder, <<result.consumed, result.produced>>))
      /\ result.ended => AtEnd(After(decoder, <<result.consumed, result.produced>>))
  BY <1>1, <1>3, OutcomesBounded
<1>5. /\ input' = [at |-> input.at, len |-> input.len, pos |-> input.pos + result.consumed]
      /\ unpacked_pos' = unpacked_pos + result.produced
      /\ decoder' = After(decoder, <<result.consumed, result.produced>>)
  BY <1>2 DEF Advance
<1>6. input.pos + result.consumed \in Nat /\ input.pos + result.consumed <= input.len
  BY <1>2, <1>3, <1>4
<1>7. InputLeft' = InputLeft - result.consumed
  BY <1>2, <1>3, <1>4, <1>5 DEF InputLeft
<1>8. decoder' = <<decoder[1] + result.consumed, decoder[2] + result.produced>>
  BY <1>5 DEF After
<1> QED
  BY <1>2, <1>3, <1>4, <1>5, <1>6, <1>7, <1>8

\* Where a call that gave nothing leaves the reader (after_decode).
LEMMA AfterDecodeFacts ==
  ASSUME Inv, CanDecode, Skipping \/ Emitting,
         NEW room \in Nat, NEW result \in Outcomes(decoder, InputLeft, room),
         Advance(result), NEW to \in {"Skipping", "Emitting"}, AfterDecode(result, to)
  PROVE  /\ pc' \in Requests \cup {"call"}
         /\ stream_ended' \in BOOLEAN
         /\ state' \in {to, Waits(to), "Done"}
         /\ state' = "Done" => /\ stream_ended' = TRUE
                               /\ AtEnd(decoder') \/ file_len = 0
         /\ state' # "Done" => stream_ended' = stream_ended /\ pc' # "Done"
         /\ state' = Waits(to) \/ pc' \in {"SeekAndRead", "NeedInput"} => InputLeft' = 0
         /\ pc' = "Done" /\ range_left > 0 => ~ require_full
<1>1. /\ result.ended \in BOOLEAN
      /\ result.ended => AtEnd(decoder')
      /\ InputLeft \in Nat /\ InputLeft' = InputLeft - result.consumed
      /\ result.consumed \in Nat
  BY AdvanceFacts
<1>2. /\ stream_ended = FALSE /\ eof \in BOOLEAN
      /\ eof => compressed_pos >= file_len
      /\ compressed_pos \in Nat /\ file_len \in Nat
  BY CanDecodeFacts DEF Inv, TypeOK, Ended
<1> DEFINE had == InputLeft > 0
           dry == InputLeft = result.consumed
<1>3. dry => InputLeft' = 0
  BY <1>1
<1>4. CASE result.ended /\ had
  <2>1. /\ state' = "Done" /\ stream_ended' = TRUE
        /\ pc' = IF range_left > 0 /\ require_full THEN "TruncatedInput" ELSE "Done"
    BY <1>4 DEF AfterDecode
  <2> QED
    BY <1>1, <1>4, <2>1 DEF Requests, Waits
<1>5. CASE ~ (result.ended /\ had) /\ dry /\ eof
  <2>1. CASE ~ Idle(result)
    <3>1. state' = to /\ pc' = "NeedInput" /\ stream_ended' = stream_ended
      BY <1>5, <2>1 DEF AfterDecode
    <3> QED
      BY <1>2, <1>3, <1>5, <3>1 DEF Requests, Waits
  <2>2. CASE Idle(result) /\ CutShort(result)
    <3>1. state' = to /\ pc' = "TruncatedInput" /\ stream_ended' = stream_ended
      BY <1>5, <2>2 DEF AfterDecode
    <3> QED
      BY <1>2, <3>1 DEF Requests, Waits
  <2>3. CASE Idle(result) /\ ~ CutShort(result)
    <3>1. /\ state' = "Done" /\ stream_ended' = TRUE
          /\ pc' = IF range_left > 0 /\ require_full THEN "TruncatedInput" ELSE "Done"
      BY <1>5, <2>3 DEF AfterDecode
    <3>2. compressed_pos <= 0 => file_len = 0
      BY <1>2, <1>5
    <3>3. result.ended \/ compressed_pos <= 0
      BY <1>2, <2>3 DEF CutShort
    <3>4. AtEnd(decoder') \/ file_len = 0
      BY <1>1, <3>2, <3>3, Zenon
    <3> QED
      BY <3>1, <3>4 DEF Requests, Waits
  <2> QED
    BY <2>1, <2>2, <2>3
<1>6. CASE ~ (result.ended /\ had) /\ dry /\ ~ eof
  <2>1. state' = Waits(to) /\ pc' = "NeedInput" /\ stream_ended' = stream_ended
    BY <1>6 DEF AfterDecode
  <2> QED
    BY <1>2, <1>3, <1>6, <2>1 DEF Requests, Waits
<1>7. CASE ~ (result.ended /\ had) /\ ~ dry
  <2>1. /\ state' = to /\ stream_ended' = stream_ended
        /\ pc' = IF Idle(result) THEN "Error" ELSE "call"
    BY <1>7 DEF AfterDecode
  <2> QED
    BY <1>2, <2>1 DEF Requests, Waits
<1> QED
  BY <1>4, <1>5, <1>6, <1>7

\* skip() past the target: the bytes beyond it are the first of the range.
LEMMA SkipOverInv == ASSUME Inv, SkipOver PROVE Inv'
<1>1. CanDecode /\ Skipping
  BY DEF SkipOver
<1>2. PICK result \in Outcomes(decoder, InputLeft, OutSize) :
        /\ result.produced > remaining
        /\ Advance(result)
        /\ out' = [at |-> unpacked_pos + remaining, len |-> result.produced - remaining,
                   read |-> 0]
        /\ HandOver(result, LeftAfterOvershoot(result.produced - remaining))
  BY DEF SkipOver
<1>3. /\ started /\ stream_ended = FALSE /\ out.len = out.read
      /\ range_left > 0 /\ range_left = target_len
  BY <1>1, CanDecodeFacts
<1>4. OutSize \in Nat
  BY BoundsAssumption
<1>5. /\ result.consumed \in Nat /\ result.produced \in Nat /\ result.ended \in BOOLEAN
      /\ input' \in [at : Nat, len : Nat, pos : Nat] /\ input'.pos <= input'.len
      /\ input'.at = input.at /\ input'.len = input.len
      /\ InputLeft \in Nat /\ InputLeft' = InputLeft - result.consumed
      /\ unpacked_pos' = unpacked_pos + result.produced
      /\ decoder \in Nat \X Nat
      /\ decoder' = <<decoder[1] + result.consumed, decoder[2] + result.produced>>
      /\ Reachable(decoder')
      /\ result.ended => AtEnd(decoder')
  BY <1>1, <1>2, <1>4, AdvanceFacts
<1> DEFINE take == result.produced - remaining
           left == LeftAfterOvershoot(take)
<1>6. /\ target_offset \in Nat /\ target_len \in Nat /\ remaining \in Nat
      /\ unpacked_pos \in Nat /\ served \in Nat /\ range_left \in Nat
      /\ out.len \in Nat /\ out.read \in Nat
      /\ unpacked_pos + remaining = target_offset
      /\ unpacked_pos = decoder[2] /\ served <= unpacked_pos
  BY <1>1, <1>3 DEF Inv, TypeOK, RemainingExact, ServesTheRange, Live, Buffered
<1>7. /\ take \in Nat /\ take > 0 /\ left \in Nat
      /\ left > 0 => left = target_len - take
      /\ left = 0 => take >= target_len
  BY <1>2, <1>5, <1>6 DEF LeftAfterOvershoot
<1>8. /\ state' = IF left = 0 \/ result.ended THEN "Done" ELSE "Emitting"
      /\ remaining' = left /\ pc' = "OutputReady"
      /\ stream_ended' = (stream_ended \/ result.ended)
  BY <1>2 DEF HandOver
<1>9. /\ out'.at = target_offset /\ out'.len = take /\ out'.read = 0
      /\ out' \in [at : Nat, len : Nat, read : Nat]
  <2>1. out' = [at |-> target_offset, len |-> take, read |-> 0]
    BY <1>2, <1>6
  <2> HIDE DEF take
  <2> QED
    BY <1>6, <1>7, <2>1
<1>10. /\ UNCHANGED <<checkpoint, unpacked_len, require_full, target_offset, target_len,
                      range_left, compressed_pos, eof, started, file_len, seeks, served>>
  BY DEF SkipOver, index, range, world
<1>11. stream_ended' = result.ended
  BY <1>3, <1>5, <1>8
<1> HIDE DEF take, left
<1>12. TypeOK'
  <2>1. decoder' \in Nat \X Nat
    BY <1>5
  <2>2. state' \in {"Done", "Emitting"} /\ pc' \in Requests \cup {"call"}
    BY <1>8 DEF Requests
  <2>3. /\ range_left' \in Nat /\ range_left' <= target_len'
        /\ remaining' \in Nat /\ unpacked_pos' \in Nat
        /\ out' \in [at : Nat, len : Nat, read : Nat] /\ out'.read <= out'.len
    BY <1>3, <1>5, <1>6, <1>7, <1>8, <1>9, <1>10
  <2>4. stream_ended' \in BOOLEAN
    BY <1>5, <1>11
  <2>5. /\ input' \in [at : Nat, len : Nat, pos : Nat] /\ input'.pos <= input'.len
    BY <1>5
  <2>6. /\ checkpoint' \in Checkpoint
        /\ target_offset' \in Nat /\ target_len' \in Nat
        /\ compressed_pos' \in Nat
        /\ eof' \in BOOLEAN /\ started' \in BOOLEAN
        /\ unpacked_len' \in Nat \cup {UnknownLen} /\ require_full' \in BOOLEAN
        /\ file_len' \in Nat /\ seeks' \in Nat /\ served' \in Nat
    BY <1>10 DEF Inv, TypeOK
  <2> QED
    BY <2>1, <2>2, <2>3, <2>4, <2>5, <2>6 DEF TypeOK
<1>13. (ServesTheRange /\ FedInOrder /\ RemainingExact)'
  <2>1. unpacked_pos' = target_offset + take /\ out'.at + out'.len = unpacked_pos'
    BY <1>5, <1>6, <1>9 DEF take
  <2>2. ServesTheRange'
    BY <1>3, <1>5, <1>6, <1>9, <1>10, <2>1 DEF ServesTheRange, Owed
  <2>3. FedInOrder'
    BY <1>3, <1>5, <1>6, <1>10 DEF Inv, TypeOK, FedInOrder
  <2>4. RemainingExact'
    <3>1. ~ Skipping'
      BY <1>8 DEF Skipping
    <3>2. Emitting' => remaining' > 0 /\ remaining' = target_len - take
      BY <1>7, <1>8 DEF Emitting
    <3> QED
      BY <1>6, <1>7, <1>10, <2>1, <3>1, <3>2 DEF RemainingExact, RangeEnd
  <2> QED
    BY <2>2, <2>3, <2>4
<1>14. (CheckpointReal /\ Resting /\ Live)'
  <2>1. unpacked_pos' = target_offset + take
    BY <1>5, <1>6 DEF take
  <2>2. (CheckpointReal /\ Resting)'
    BY <1>3, <1>10 DEF Inv, CheckpointReal, Resting
  <2>3. state' # "SeekToCheckpoint"
    BY <1>8
  <2>4. served' <= unpacked_pos' - Buffered'
    BY <1>6, <1>7, <1>9, <1>10, <2>1 DEF Buffered
  <2> QED
    BY <1>5, <2>2, <2>3, <2>4 DEF Live
<1>15. (WaitsDry /\ Ended /\ Finished)'
  <2>1. ~ Waiting' /\ pc' = "OutputReady"
    BY <1>8 DEF Waiting
  <2>2. (WaitsDry /\ Finished)'
    BY <2>1 DEF WaitsDry, Finished
  <2>3. result.ended => state' = "Done"
    BY <1>8
  <2>4. Ended'
    BY <1>5, <1>10, <1>11, <2>3 DEF Inv, Ended
  <2> QED
    BY <2>2, <2>4
<1>16. Owing'
  <2>1. unpacked_pos' = target_offset + take
    BY <1>5, <1>6 DEF take
  <2>2. Buffered' = take /\ Owed' = target_offset
    BY <1>3, <1>6, <1>7, <1>9, <1>10 DEF Buffered, Owed
  <2>3. ~ Skipping'
    BY <1>8 DEF Skipping
  <2>4. Emitting' => remaining' = target_len - take
    BY <1>7, <1>8 DEF Emitting
  <2>5. state' = "Done" /\ range_left' > take => stream_ended'
    BY <1>3, <1>5, <1>6, <1>7, <1>8, <1>10, <1>11
  <2> QED
    BY <1>3, <1>6, <1>7, <1>10, <2>1, <2>2, <2>3, <2>4, <2>5 DEF Owing
<1> QED
  BY <1>12, <1>13, <1>14, <1>15, <1>16 DEF Inv

\* skip() that does not get past the target.
LEMMA SkipInv == ASSUME Inv, Skip PROVE Inv'
<1>1. CanDecode /\ Skipping
  BY DEF Skip
<1> DEFINE left(r) == remaining - r.produced
           to(r)   == IF left(r) = 0 THEN "Emitting" ELSE "Skipping"
<1>2. PICK result \in Outcomes(decoder, InputLeft, OutSize) :
        /\ result.produced <= remaining
        /\ Advance(result)
        /\ remaining' = IF left(result) = 0 THEN target_len ELSE left(result)
        /\ AfterDecode(result, to(result))
  BY DEF Skip
<1>3. /\ started /\ stream_ended = FALSE /\ out.len = out.read
      /\ range_left > 0 /\ range_left = target_len
  BY <1>1, CanDecodeFacts
<1>4. OutSize \in Nat /\ to(result) \in {"Skipping", "Emitting"}
  BY BoundsAssumption
<1>5. /\ result.consumed \in Nat /\ result.produced \in Nat /\ result.ended \in BOOLEAN
      /\ input' \in [at : Nat, len : Nat, pos : Nat] /\ input'.pos <= input'.len
      /\ input'.at = input.at /\ input'.len = input.len
      /\ InputLeft \in Nat /\ InputLeft' = InputLeft - result.consumed
      /\ unpacked_pos' = unpacked_pos + result.produced
      /\ decoder \in Nat \X Nat
      /\ decoder' = <<decoder[1] + result.consumed, decoder[2] + result.produced>>
      /\ Reachable(decoder')
      /\ result.ended => AtEnd(decoder')
  BY <1>1, <1>2, <1>4, AdvanceFacts
<1>6. /\ pc' \in Requests \cup {"call"} /\ stream_ended' \in BOOLEAN
      /\ state' \in {to(result), Waits(to(result)), "Done"}
      /\ state' = "Done" => stream_ended' = TRUE /\ (AtEnd(decoder') \/ file_len = 0)
      /\ state' # "Done" => stream_ended' = stream_ended /\ pc' # "Done"
      /\ state' = Waits(to(result)) \/ pc' \in {"SeekAndRead", "NeedInput"} => InputLeft' = 0
      /\ pc' = "Done" /\ range_left > 0 => ~ require_full
  BY <1>1, <1>2, <1>4, AfterDecodeFacts
<1>7. /\ target_offset \in Nat /\ target_len \in Nat /\ remaining \in Nat
      /\ unpacked_pos \in Nat /\ served \in Nat /\ range_left \in Nat
      /\ out.len \in Nat /\ out.read \in Nat
      /\ unpacked_pos + remaining = target_offset
      /\ unpacked_pos = decoder[2] /\ served <= unpacked_pos
  BY <1>1, <1>3 DEF Inv, TypeOK, RemainingExact, ServesTheRange, Live, Buffered
<1>8. UNCHANGED <<checkpoint, unpacked_len, require_full, target_offset, target_len,
                  range_left, compressed_pos, eof, started, file_len, seeks, served, out>>
  BY DEF Skip, index, range, world
<1>9. \/ /\ state' = "Done" /\ unpacked_pos' <= target_offset
      \/ /\ state' \in {"Emitting", "NeedInputEmitting"}
         /\ remaining' = target_len /\ unpacked_pos' = target_offset
      \/ /\ state' \in {"Skipping", "NeedInputSkipping"}
         /\ remaining' > 0 /\ unpacked_pos' + remaining' = target_offset
  <2>1. left(result) \in Nat
    BY <1>2, <1>5, <1>7
  <2>2. unpacked_pos' + left(result) = target_offset
    BY <1>2, <1>5, <1>7
  <2>3. CASE left(result) = 0
    <3>1. to(result) = "Emitting" /\ remaining' = target_len
      BY <1>2, <2>3
    <3>2. unpacked_pos' = target_offset
      BY <1>5, <1>7, <2>2, <2>3
    <3> QED
      BY <1>6, <1>7, <3>1, <3>2 DEF Waits
  <2>4. CASE left(result) # 0
    <3>1. to(result) = "Skipping" /\ remaining' = left(result)
      BY <1>2, <2>4
    <3>2. left(result) > 0 /\ unpacked_pos' <= target_offset
      BY <1>5, <1>7, <2>1, <2>2, <2>4
    <3> HIDE DEF left, to
    <3> QED
      BY <1>6, <2>2, <3>1, <3>2 DEF Waits
  <2> QED
    BY <2>3, <2>4
<1>10. remaining' \in Nat
  BY <1>2, <1>5, <1>7
<1>11. state' \in {"NeedInputSkipping", "NeedInputEmitting"} => InputLeft' = 0
  BY <1>6 DEF Waits
<1> HIDE DEF left, to
<1>12. TypeOK'
  BY <1>5, <1>6, <1>7, <1>8, <1>9, <1>10 DEF Inv, TypeOK
<1>13. (ServesTheRange /\ FedInOrder /\ RemainingExact)'
  <2>1. ServesTheRange'
    BY <1>3, <1>5, <1>7, <1>8 DEF ServesTheRange, Serveable, Buffered, Smaller
  <2>2. FedInOrder'
    BY <1>3, <1>5, <1>7, <1>8 DEF Inv, TypeOK, FedInOrder
  <2>3. RemainingExact'
    BY <1>3, <1>7, <1>8, <1>9 DEF RemainingExact, Skipping, Emitting, RangeEnd, Buffered
  <2> QED
    BY <2>1, <2>2, <2>3
<1>14. (CheckpointReal /\ Resting /\ Live)'
  <2>1. (CheckpointReal /\ Resting)'
    BY <1>3, <1>8 DEF Inv, CheckpointReal, Resting
  <2>2. state' # "SeekToCheckpoint"
    BY <1>9
  <2>3. served' <= unpacked_pos' - Buffered'
    BY <1>3, <1>5, <1>7, <1>8 DEF Buffered
  <2> QED
    BY <1>5, <2>1, <2>2, <2>3 DEF Live
<1>15. (WaitsDry /\ Ended /\ Finished)'
  BY <1>3, <1>5, <1>6, <1>7, <1>8, <1>11 DEF Inv, WaitsDry, Waiting, Ended, Finished,
     Serveable, Buffered, Smaller
<1>16. Owing'
  BY <1>3, <1>6, <1>7, <1>8, <1>9 DEF Owing, Skipping, Emitting, Buffered, Owed
<1> QED
  BY <1>12, <1>13, <1>14, <1>15, <1>16 DEF Inv

\* emit() decodes at most the rest of the range.
LEMMA EmitInv == ASSUME Inv, Emit PROVE Inv'
<1>1. CanDecode /\ Emitting
  BY DEF Emit
<1> DEFINE room == Smaller(remaining, OutSize)
<1>2. PICK result \in Outcomes(decoder, InputLeft, room) :
        /\ Advance(result)
        /\ IF result.produced > 0
             THEN /\ out' = [at |-> unpacked_pos, len |-> result.produced, read |-> 0]
                  /\ HandOver(result, remaining - result.produced)
             ELSE /\ AfterDecode(result, "Emitting")
                  /\ UNCHANGED <<out, remaining>>
  BY DEF Emit
<1>3. /\ started /\ stream_ended = FALSE /\ out.len = out.read
      /\ range_left > 0 /\ remaining = range_left
  BY <1>1, CanDecodeFacts
<1>4. /\ target_offset \in Nat /\ target_len \in Nat /\ remaining \in Nat
      /\ unpacked_pos \in Nat /\ served \in Nat /\ range_left \in Nat
      /\ range_left <= target_len
      /\ out.len \in Nat /\ out.read \in Nat
      /\ unpacked_pos + remaining = target_offset + target_len
      /\ unpacked_pos = decoder[2] /\ served <= unpacked_pos
  BY <1>1, <1>3 DEF Inv, TypeOK, RemainingExact, RangeEnd, ServesTheRange, Live, Buffered
<1>5. room \in Nat /\ room <= remaining
  BY <1>4, BoundsAssumption DEF Smaller
<1>6. /\ result.consumed \in Nat /\ result.produced \in Nat /\ result.ended \in BOOLEAN
      /\ result.produced <= remaining
      /\ input' \in [at : Nat, len : Nat, pos : Nat] /\ input'.pos <= input'.len
      /\ input'.at = input.at /\ input'.len = input.len
      /\ InputLeft \in Nat /\ InputLeft' = InputLeft - result.consumed
      /\ unpacked_pos' = unpacked_pos + result.produced
      /\ decoder \in Nat \X Nat
      /\ decoder' = <<decoder[1] + result.consumed, decoder[2] + result.produced>>
      /\ Reachable(decoder')
      /\ result.ended => AtEnd(decoder')
  BY <1>1, <1>2, <1>4, <1>5, AdvanceFacts
<1>7. UNCHANGED <<checkpoint, unpacked_len, require_full, target_offset, target_len,
                  range_left, compressed_pos, eof, started, file_len, seeks, served>>
  BY DEF Emit, index, range, world
<1>8. (CheckpointReal /\ Resting /\ FedInOrder)'
  BY <1>3, <1>4, <1>6, <1>7 DEF Inv, TypeOK, CheckpointReal, Resting, FedInOrder
<1>9. CASE result.produced > 0
  <2>1. /\ state' = IF remaining - result.produced = 0 \/ result.ended THEN "Done"
                    ELSE "Emitting"
        /\ remaining' = remaining - result.produced /\ pc' = "OutputReady"
        /\ stream_ended' = result.ended
        /\ out'.at = unpacked_pos /\ out'.len = result.produced /\ out'.read = 0
        /\ out' \in [at : Nat, len : Nat, read : Nat]
    BY <1>2, <1>3, <1>4, <1>6, <1>9 DEF HandOver
  <2>2. TypeOK'
    BY <1>4, <1>6, <1>7, <2>1 DEF Inv, TypeOK, Requests
  <2>3. /\ Buffered' = result.produced
        /\ Owed' = unpacked_pos /\ RangeEnd' = unpacked_pos' + remaining'
    BY <1>3, <1>4, <1>6, <1>7, <2>1 DEF Buffered, Owed, RangeEnd
  <2>4. /\ ~ Skipping' /\ ~ Waiting'
        /\ Emitting' => remaining' > 0
        /\ state' = "Done" => stream_ended' \/ remaining' = 0
    BY <1>4, <1>6, <2>1 DEF Skipping, Waiting, Emitting
  <2>5. (ServesTheRange /\ RemainingExact)'
    BY <1>3, <1>4, <1>6, <1>7, <2>1, <2>3, <2>4 DEF ServesTheRange, RemainingExact
  <2>6. Live'
    BY <1>3, <1>4, <1>6, <1>7, <2>1, <2>3 DEF Live
  <2>7. (WaitsDry /\ Ended /\ Finished)'
    BY <1>3, <1>6, <1>7, <2>1, <2>4 DEF Inv, WaitsDry, Ended, Finished
  <2>8. Owing'
    BY <1>3, <1>4, <1>6, <1>7, <2>1, <2>3, <2>4 DEF Owing
  <2> QED
    BY <1>8, <2>2, <2>5, <2>6, <2>7, <2>8 DEF Inv
<1>10. CASE result.produced = 0
  <2>1. AfterDecode(result, "Emitting") /\ UNCHANGED <<out, remaining>>
    BY <1>2, <1>10
  <2>2. /\ pc' \in Requests \cup {"call"} /\ stream_ended' \in BOOLEAN
        /\ state' \in {"Emitting", Waits("Emitting"), "Done"}
        /\ state' = "Done" => stream_ended' = TRUE /\ (AtEnd(decoder') \/ file_len = 0)
        /\ state' # "Done" => stream_ended' = stream_ended /\ pc' # "Done"
        /\ state' = Waits("Emitting") \/ pc' \in {"SeekAndRead", "NeedInput"}
             => InputLeft' = 0
        /\ pc' = "Done" /\ range_left > 0 => ~ require_full
    BY <1>1, <1>2, <1>5, <2>1, AfterDecodeFacts
  <2>3. /\ state' \in {"Emitting", "NeedInputEmitting", "Done"}
        /\ state' = "NeedInputEmitting" => InputLeft' = 0
    BY <2>2 DEF Waits
  <2>4. ~ Skipping' /\ (Waiting' => InputLeft' = 0)
    BY <2>3 DEF Skipping, Waiting
  <2>5. /\ unpacked_pos' = unpacked_pos /\ Buffered' = 0 /\ Buffered = 0
        /\ out' = out /\ remaining' = remaining
    BY <1>3, <1>4, <1>6, <1>10, <2>1 DEF Buffered
  <2>6. TypeOK'
    BY <1>4, <1>6, <1>7, <2>1, <2>2, <2>3 DEF Inv, TypeOK
  <2>7. (ServesTheRange /\ RemainingExact)'
    BY <1>3, <1>4, <1>6, <1>7, <1>10, <2>4, <2>5 DEF ServesTheRange, RemainingExact, RangeEnd,
       Serveable, Smaller
  <2>8. Live'
    BY <1>4, <1>6, <1>7, <2>3, <2>5 DEF Live
  <2>9. (WaitsDry /\ Ended /\ Finished)'
    BY <1>3, <1>6, <1>7, <2>2, <2>4, <2>5 DEF Inv, WaitsDry, Ended, Finished, Serveable, Smaller
  <2>10. Owing'
    BY <1>3, <1>4, <1>7, <2>2, <2>3, <2>4, <2>5 DEF Owing, Owed
  <2> QED
    BY <1>8, <2>6, <2>7, <2>8, <2>9, <2>10 DEF Inv
<1> QED
  BY <1>6, <1>9, <1>10

\* A refused byte changes nothing but the state's name.
LEMMA DecodeErrorInv == ASSUME Inv, DecodeError PROVE Inv'
<1>1. started /\ stream_ended = FALSE /\ out.len = out.read /\ range_left > 0
  BY CanDecodeFacts DEF DecodeError, CanDecode, Skipping, Emitting
<1>2. state' \in {"Skipping", "Emitting"} /\ pc' = "Error"
  BY DEF DecodeError
<1>3. /\ Skipping' <=> Skipping
      /\ Emitting' <=> Emitting
      /\ ~ Waiting'
  BY DEF DecodeError, CanDecode, Skipping, Emitting, Waiting
<1>4. UNCHANGED <<checkpoint, unpacked_len, require_full, target_offset, target_len, remaining,
                  out, range_left, input, compressed_pos, unpacked_pos, eof, stream_ended,
                  started, decoder, file_len, seeks, served>>
  BY DEF DecodeError, index, range, world
<1>5. TypeOK'
  BY <1>2, <1>4 DEF Inv, TypeOK, Requests
<1>6. (ServesTheRange /\ FedInOrder /\ RemainingExact)'
  BY <1>3, <1>4 DEF Inv, ServesTheRange, FedInOrder, RemainingExact, Serveable, Buffered,
     InputLeft, Owed, RangeEnd
<1>7. (CheckpointReal /\ Resting /\ Live)'
  BY <1>1, <1>2, <1>4 DEF Inv, CheckpointReal, Resting, Live, Buffered
<1>8. (WaitsDry /\ Owing /\ Ended /\ Finished)'
  BY <1>1, <1>2, <1>3, <1>4 DEF Inv, WaitsDry, Owing, Ended, Finished, Buffered
<1> QED
  BY <1>5, <1>6, <1>7, <1>8 DEF Inv

-----------------------------------------------------------------------------
(***************************************************************************)
(* seek_forward().                                                         *)
(***************************************************************************)
\* seek_forward() before the checkpoint is restored: the checkpoint still serves it.
LEMMA SeekUnstartedInv == ASSUME Inv, SeekUnstarted PROVE Inv'
<1>1. PICK offset \in Offsets, len \in Lengths :
        offset >= target_offset /\ Retarget(offset, len)
  BY DEF SeekUnstarted
<1>2. /\ offset \in Nat /\ target_offset \in Nat /\ checkpoint.unpacked \in Nat
      /\ seeks \in Nat
  BY BoundsAssumption DEF Inv, TypeOK, Checkpoint
<1>3. /\ started = FALSE /\ out.len = 0 /\ out.read = 0 /\ input.len = 0 /\ input.pos = 0
      /\ served = 0 /\ eof = FALSE /\ stream_ended = FALSE
      /\ checkpoint.unpacked <= target_offset
  BY DEF SeekUnstarted, Inv, TypeOK, Resting
<1>4. target_len' \in Nat
  BY <1>1, <1>2, BoundsAssumption, ClampLenBounds DEF Retarget, Inv, TypeOK
<1>5. /\ target_offset' = offset /\ range_left' = target_len'
      /\ seeks' = seeks + 1 /\ pc' = "call"
  BY <1>1 DEF Retarget
<1>6. /\ state' = IF target_len' = 0 THEN "Done" ELSE "SeekToCheckpoint"
      /\ UNCHANGED <<checkpoint, unpacked_len, require_full, remaining, out, input,
                     compressed_pos, unpacked_pos, eof, stream_ended, started, decoder,
                     file_len, served>>
  BY DEF SeekUnstarted, index
<1>7. TypeOK'
  BY <1>2, <1>4, <1>5, <1>6 DEF Inv, TypeOK, Requests
<1>8. state' \in {"Done", "SeekToCheckpoint"} /\ (state' = "Done" => target_len' = 0)
  BY <1>6
<1>9. (ServesTheRange /\ FedInOrder /\ RemainingExact)'
  BY <1>3, <1>4, <1>5, <1>6, <1>8 DEF ServesTheRange, FedInOrder, RemainingExact, Serveable,
     Buffered, Smaller, Skipping, Emitting
<1>10. (CheckpointReal /\ Resting /\ Live)'
  BY <1>1, <1>2, <1>3, <1>5, <1>6 DEF Inv, CheckpointReal, Resting, Live
<1>11. (WaitsDry /\ Owing /\ Ended /\ Finished)'
  BY <1>3, <1>4, <1>5, <1>6, <1>8 DEF WaitsDry, Waiting, Owing, Skipping, Emitting, Ended,
     Finished, Buffered
<1> QED
  BY <1>7, <1>9, <1>10, <1>11 DEF Inv

\* Of a gap and a buffer, what is dropped leaves only one of them.
LEMMA DropSplits ==
  ASSUME NEW gap \in Nat, NEW buffered \in Nat
  PROVE  LET drop   == Smaller(gap, buffered)
             beyond == gap - drop
             kept   == buffered - drop
         IN  /\ drop \in Nat /\ drop <= buffered
             /\ beyond \in Nat /\ kept \in Nat /\ kept <= buffered /\ beyond + drop = gap
             /\ kept = 0 \/ beyond = 0
             /\ kept + drop = buffered
BY DEF Smaller

\* seek_forward() on a live reader: buffered bytes of the new range are kept.
LEMMA SeekForwardInv == ASSUME Inv, SeekForward PROVE Inv'
<1>1. PICK offset \in Offsets, len \in Lengths :
        /\ offset >= Position
        /\ Retarget(offset, len)
        /\ LET drop   == Smaller(offset - Position, Buffered)
               beyond == offset - Position - drop
               kept   == Buffered - drop
               left   == target_len' - Smaller(kept, target_len')
           IN  /\ out' = IF kept = 0 THEN [out EXCEPT !.len = 0, !.read = 0]
                         ELSE [out EXCEPT !.read = @ + drop]
               /\ state' = StateToward(left, beyond)
               /\ remaining' = IF left = 0 \/ stream_ended THEN 0
                               ELSE IF beyond > 0 THEN beyond ELSE left
  BY DEF SeekForward, Accepts, DropCount
<1> DEFINE drop   == Smaller(offset - Position, Buffered)
           beyond == offset - Position - drop
           kept   == Buffered - drop
           left   == target_len' - Smaller(kept, target_len')
<1>2. /\ out' = IF kept = 0 THEN [out EXCEPT !.len = 0, !.read = 0]
                ELSE [out EXCEPT !.read = @ + drop]
      /\ state' = StateToward(left, beyond)
      /\ remaining' = IF left = 0 \/ stream_ended THEN 0
                      ELSE IF beyond > 0 THEN beyond ELSE left
  BY <1>1
<1>3. /\ started = TRUE
      /\ UNCHANGED <<checkpoint, unpacked_len, require_full, input, compressed_pos,
                     unpacked_pos, eof, stream_ended, started, decoder, file_len, served>>
  BY DEF SeekForward, index, Inv, TypeOK
<1>4. /\ offset \in Nat /\ unpacked_pos \in Nat /\ served \in Nat
      /\ out = [at |-> out.at, len |-> out.len, read |-> out.read]
      /\ out.at \in Nat /\ out.len \in Nat /\ out.read \in Nat
      /\ Buffered \in Nat /\ Buffered = out.len - out.read
      /\ Position = unpacked_pos - Buffered
      /\ served <= Position
      /\ Buffered > 0 => out.at + out.len = unpacked_pos
  BY <1>3, BoundsAssumption DEF Inv, TypeOK, Buffered, Position, Live, ServesTheRange
<1>5. target_len' \in Nat
  BY <1>1, <1>4, BoundsAssumption, ClampLenBounds DEF Retarget, Inv, TypeOK
<1>6. /\ target_offset' = offset /\ range_left' = target_len'
      /\ seeks' = seeks + 1 /\ pc' = "call"
  BY <1>1 DEF Retarget
<1>7. offset - Position \in Nat
  BY <1>1, <1>4
<1>8. /\ drop \in Nat /\ drop <= Buffered
      /\ beyond \in Nat /\ kept \in Nat /\ kept <= Buffered /\ beyond + drop = offset - Position
      /\ kept = 0 \/ beyond = 0
      /\ kept + drop = Buffered
  BY <1>4, <1>7, DropSplits
<1> HIDE DEF drop, beyond, kept
<1>9. /\ left \in Nat /\ left <= target_len'
      /\ left > 0 => left = target_len' - kept
      /\ left = 0 => target_len' <= kept
  <2>1. /\ Smaller(kept, target_len') \in {kept, target_len'}
        /\ Smaller(kept, target_len') <= kept /\ Smaller(kept, target_len') <= target_len'
    BY <1>5, <1>8, SmallerBounds
  <2> QED
    BY <1>5, <1>8, <2>1
<1> HIDE DEF left
<1>10. /\ out' \in [at : Nat, len : Nat, read : Nat] /\ out'.read <= out'.len
       /\ out'.len - out'.read = kept
       /\ kept > 0 => /\ out'.at + out'.read = offset
                      /\ out'.at + out'.len = unpacked_pos
  <2>1. CASE kept = 0
    <3>1. out' = [at |-> out.at, len |-> 0, read |-> 0]
      BY <1>2, <1>4, <2>1
    <3> QED
      BY <1>4, <2>1, <3>1
  <2>2. CASE kept # 0
    <3>1. out' = [at |-> out.at, len |-> out.len, read |-> out.read + drop]
      BY <1>2, <1>4, <2>2
    <3>2. beyond = 0 /\ kept > 0 /\ Buffered > 0
      BY <1>4, <1>8, <2>2
    <3> QED
      BY <1>4, <1>8, <3>1, <3>2
  <2> QED
    BY <2>1, <2>2
<1>11. /\ state' \in {"Done", "Skipping", "Emitting"}
       /\ state' = "Done" <=> left = 0 \/ stream_ended
       /\ state' = "Skipping" => beyond > 0 /\ left > 0 /\ remaining' = beyond
       /\ state' = "Emitting" => beyond = 0 /\ left > 0 /\ remaining' = left
       /\ remaining' \in Nat
  BY <1>2, <1>8, <1>9 DEF StateToward
<1>12. /\ ~ Waiting'
       /\ Skipping' <=> state' = "Skipping"
       /\ Emitting' <=> state' = "Emitting"
       /\ Buffered' = kept
  BY <1>10, <1>11 DEF Waiting, Skipping, Emitting, Buffered
<1>13. TypeOK'
  <2>1. /\ target_offset' \in Nat /\ target_len' \in Nat /\ range_left' \in Nat
        /\ range_left' <= target_len' /\ seeks' \in Nat
        /\ pc' \in Requests \cup {"call"}
    BY <1>4, <1>5, <1>6 DEF Inv, TypeOK
  <2> QED
    BY <1>3, <1>10, <1>11, <2>1 DEF Inv, TypeOK
<1>14. Owed' = offset /\ RangeEnd' = offset + target_len'
  BY <1>4, <1>5, <1>6 DEF Owed, RangeEnd
<1>15. ServesTheRange'
  <2>1. Serveable' > 0 => kept > 0
    BY <1>5, <1>6, <1>8, <1>12 DEF Serveable, Smaller
  <2> QED
    BY <1>3, <1>10, <1>12, <1>14, <2>1 DEF Inv, ServesTheRange
<1>16. FedInOrder'
  BY <1>3 DEF Inv, FedInOrder, InputLeft
<1>17. RemainingExact'
  <2>1. state' = "Skipping" => kept = 0 /\ unpacked_pos + beyond = offset
    BY <1>4, <1>8, <1>11
  <2>2. state' = "Emitting" => unpacked_pos + left = offset + target_len'
    <3> SUFFICES ASSUME state' = "Emitting" PROVE unpacked_pos + left = offset + target_len'
      OBVIOUS
    <3>1. beyond = 0 /\ left = target_len' - kept
      BY <1>9, <1>11
    <3>2. unpacked_pos - kept = offset
      BY <1>4, <1>8, <3>1
    <3> QED
      BY <1>4, <1>5, <1>8, <3>1, <3>2
  <2>3. left \in Nat
    BY <1>9
  <2> QED
    BY <1>3, <1>6, <1>11, <1>12, <1>14, <2>1, <2>2, <2>3 DEF RemainingExact
<1>18. (CheckpointReal /\ Resting /\ Live)'
  BY <1>3, <1>4, <1>8, <1>11, <1>12 DEF Inv, CheckpointReal, Resting, Live
<1>19. (WaitsDry /\ Ended /\ Finished)'
  BY <1>3, <1>6, <1>11, <1>12 DEF Inv, WaitsDry, Ended, Finished
<1>20. Owing'
  BY <1>3, <1>4, <1>5, <1>6, <1>8, <1>9, <1>11, <1>12, <1>14 DEF Owing
<1> QED
  BY <1>13, <1>15, <1>16, <1>17, <1>18, <1>19, <1>20 DEF Inv

-----------------------------------------------------------------------------
\* The codec may refuse the checkpoint.
LEMMA RestoreErrorInv == ASSUME Inv, RestoreError PROVE Inv'
BY DEF Inv, RestoreError, index, range, world, TypeOK, ServesTheRange, FedInOrder,
  RemainingExact, CheckpointReal, Resting, Live, WaitsDry, Owing, Ended, Finished, Serveable,
  Buffered, InputLeft, Owed, RangeEnd, Skipping, Emitting, Waiting, Requests, Smaller

\* A caller may step again without answering: nothing has changed.
LEMMA StepAgainInv == ASSUME Inv, StepAgain PROVE Inv'
BY DEF Inv, StepAgain, index, range, world, TypeOK, ServesTheRange, FedInOrder,
  RemainingExact, CheckpointReal, Resting, Live, WaitsDry, Owing, Ended, Finished, Serveable,
  Buffered, InputLeft, Owed, RangeEnd, Skipping, Emitting, Waiting, Requests, Smaller

(***************************************************************************)
(* The invariant holds of every behaviour of the reader.                   *)
(***************************************************************************)
\* Every step keeps the invariant.
LEMMA StepInv == ASSUME Inv, [Next]_vars PROVE Inv'
<1>1. CASE Step
  BY <1>1, StepOutputReadyInv, StepDoneInv, StepSeekToCheckpointInv, RestoreErrorInv,
     StepNeedInputInv, SkipOverInv, SkipInv, EmitInv, DecodeErrorInv DEF Step
<1>2. CASE Answer
  BY <1>2, ProvideDataInv, SignalEofInv, ReadOutputInv DEF Answer
<1>3. CASE SeekUnstarted
  BY <1>3, SeekUnstartedInv
<1>4. CASE SeekForward
  BY <1>4, SeekForwardInv
<1>5. CASE StepAgain
  BY <1>5, StepAgainInv
<1>6. CASE Terminated \/ UNCHANGED vars
  BY <1>6, StutterInv DEF Terminated
<1> QED
  BY <1>1, <1>2, <1>3, <1>4, <1>5, <1>6 DEF Next

\* A StreamReader keeps the inductive invariant whatever the stream, the file, the
\* table of checkpoints, the range and the seeks (stream/reader.rs).
THEOREM Invariance == Spec => []Inv
<1>1. Init => Inv
  BY InitInv
<1>2. Inv /\ [Next]_vars => Inv'
  BY StepInv
<1> QED
  BY <1>1, <1>2, PTL DEF Spec

\* Every field keeps its type, and no unsigned difference goes below zero.
THEOREM TypeCorrect == Spec => []TypeOK
<1>1. Inv => TypeOK
  BY DEF Inv
<1> QED
  BY <1>1, Invariance, PTL

\* What read_output gives out is the range, byte by byte.
THEOREM RangeIsServed == Spec => []ServesTheRange
<1>1. Inv => ServesTheRange
  BY DEF Inv
<1> QED
  BY <1>1, Invariance, PTL

\* The decoder is fed the packed file in order.
THEOREM FeedIsInOrder == Spec => []FedInOrder
<1>1. Inv => FedInOrder
  BY DEF Inv
<1> QED
  BY <1>1, Invariance, PTL

\* What the states carry is the distance still to go.
THEOREM RemainingIsExact == Spec => []RemainingExact
<1>1. Inv => RemainingExact
  BY DEF Inv
<1> QED
  BY <1>1, Invariance, PTL

\* Done short of the range is only said at the end of the stream.
THEOREM DoneOnlyDelivered == Spec => []DoneIsDelivered
<1>1. Inv => DoneIsDelivered
  <2> SUFFICES ASSUME Inv, pc = "Done", range_left > 0
               PROVE  /\ ~ require_full /\ stream_ended
                      /\ Owed >= UnpackedLen \/ file_len = 0
    BY DEF Inv, TypeOK, DoneIsDelivered
  <2>1. /\ state = "Done" /\ Serveable = 0 /\ ~ require_full
        /\ out.len \in Nat /\ out.read \in Nat /\ out.read <= out.len /\ range_left \in Nat
    BY DEF Inv, Finished, TypeOK
  <2>2. Buffered = 0
    BY <2>1 DEF Serveable, Smaller, Buffered
  <2>3. stream_ended /\ Owed + Buffered >= unpacked_pos
    BY <2>1, <2>2 DEF Inv, Owing
  <2>4. Owed \in Int /\ unpacked_pos \in Nat
    BY DEF Inv, TypeOK, Owed
  <2>5. started
    BY <2>3 DEF Inv, Resting
  <2>6. AtEnd(decoder) => unpacked_pos = UnpackedLen
    BY <2>5 DEF Inv, ServesTheRange, AtEnd
  <2> QED
    BY <2>1, <2>2, <2>3, <2>4, <2>6 DEF Inv, Ended
<1> QED
  BY <1>1, Invariance, PTL

\* No seek_forward and no step ever takes a live reader back.
THEOREM NeverDecodesAgain == Spec => DecodesOnce
<1> DEFINE Onward == started => /\ started' /\ decoder'[1] >= decoder[1]
                                /\ decoder'[2] >= decoder[2]
                                /\ compressed_pos' >= compressed_pos
<1>1. ASSUME Inv, [Next]_vars PROVE Onward
  <2> SUFFICES ASSUME started PROVE Onward
    OBVIOUS
  <2>1. decoder[1] \in Nat /\ decoder[2] \in Nat /\ compressed_pos \in Nat
    BY <1>1 DEF Inv, TypeOK
  <2>2. ASSUME UNCHANGED <<decoder, started, compressed_pos>> PROVE Onward
    BY <2>1, <2>2
  <2>3. ASSUME CanDecode, Skipping \/ Emitting, UNCHANGED <<started, compressed_pos>>,
               NEW room \in Nat, NEW result \in Outcomes(decoder, InputLeft, room),
               Advance(result)
        PROVE  Onward
    <3>1. /\ result.consumed \in Nat /\ result.produced \in Nat
          /\ decoder' = <<decoder[1] + result.consumed, decoder[2] + result.produced>>
      BY <1>1, <2>3, AdvanceFacts
    <3> QED
      BY <2>1, <2>3, <3>1
  <2>4. CASE StepOutputReady \/ StepDone \/ RestoreError \/ StepNeedInput \/ DecodeError
    BY <2>2, <2>4 DEF StepOutputReady, StepDone, RestoreError, StepNeedInput, DecodeError
  <2>5. CASE StepSeekToCheckpoint
    BY <1>1, <2>5 DEF StepSeekToCheckpoint, Inv, Live
  <2>6. CASE SkipOver \/ Skip
    <3>1. OutSize \in Nat
      BY BoundsAssumption
    <3>2. \E result \in Outcomes(decoder, InputLeft, OutSize) : Advance(result)
      BY <2>6 DEF SkipOver, Skip
    <3>3. CanDecode /\ Skipping /\ UNCHANGED <<started, compressed_pos>>
      BY <2>6 DEF SkipOver, Skip
    <3> QED
      BY <2>3, <3>1, <3>2, <3>3
  <2>7. CASE Emit
    <3>1. Smaller(remaining, OutSize) \in Nat
      BY <1>1, BoundsAssumption DEF Smaller, Inv, TypeOK
    <3>2. \E result \in Outcomes(decoder, InputLeft, Smaller(remaining, OutSize)) :
            Advance(result)
      BY <2>7 DEF Emit
    <3>3. CanDecode /\ Emitting /\ UNCHANGED <<started, compressed_pos>>
      BY <2>7 DEF Emit
    <3> QED
      BY <2>3, <3>1, <3>2, <3>3
  <2>8. CASE ProvideData
    <3>1. PICK n \in 1..Smaller(MaxRead, file_len - compressed_pos) :
            compressed_pos' = compressed_pos + n
      BY <2>8 DEF ProvideData, ProvideFrom
    <3>2. started' = started /\ decoder' = decoder
      BY <2>8 DEF ProvideData, ProvideFrom
    <3> QED
      BY <2>1, <3>1, <3>2
  <2>9. CASE SignalEof \/ ReadOutput \/ StepAgain
    BY <2>2, <2>9 DEF SignalEof, SignalEofAt, ReadOutput, StepAgain
  <2>10. CASE SeekUnstarted \/ SeekForward
    BY <2>2, <2>10 DEF SeekUnstarted, SeekForward
  <2>11. CASE Terminated \/ UNCHANGED vars
    BY <2>2, <2>11 DEF Terminated, vars
  <2> QED
    BY <1>1, <2>4, <2>5, <2>6, <2>7, <2>8, <2>9, <2>10, <2>11 DEF Next, Step, Answer
<1>2. Inv /\ [Next]_vars => [Onward]_vars
  BY <1>1
<1> QED
  BY <1>2, Invariance, PTL DEF Spec, DecodesOnce

-----------------------------------------------------------------------------
(***************************************************************************)
(* No false alarm: what is asked for is there, the whole packed file is    *)
(* there, so the decoder is what is at fault.                              *)
(***************************************************************************)

\* The conditions under which an error must be the decoder's.
Sound == file_len >= PackedLen /\ (require_full => RangeEnd <= UnpackedLen)

\* A sound reader that owes bytes of a range it must give in full is not at the end.
LEMMA OwingIsNotEnd ==
  ASSUME Inv, Sound, range_left > 0, require_full
  PROVE  /\ AtEnd(decoder) => unpacked_pos > Owed \/ ~ started
         /\ file_len > 0
<1>1. /\ range_left \in Nat /\ target_offset \in Nat /\ target_len \in Nat
      /\ range_left <= target_len /\ file_len \in Nat /\ unpacked_pos \in Nat
      /\ RangeEnd <= UnpackedLen /\ file_len >= PackedLen
  BY DEF Inv, TypeOK, Sound
<1>2. Owed < UnpackedLen
  BY <1>1, StreamAssumption DEF Owed, RangeEnd, UnpackedLen
<1>3. AtEnd(decoder) /\ started => unpacked_pos = UnpackedLen
  BY DEF Inv, ServesTheRange, AtEnd
<1>4. file_len # 0
  <2> SUFFICES ASSUME file_len = 0 PROVE FALSE
    OBVIOUS
  <2>1. UnpackedLen = 0
    BY <1>1, StreamAssumption DEF UnpackedLen
  <2> QED
    BY <1>1, <2>1 DEF RangeEnd
<1>5. UnpackedLen \in Nat /\ Owed \in Int
  BY <1>1, StreamAssumption DEF UnpackedLen, Owed
<1> QED
  BY <1>1, <1>2, <1>3, <1>4, <1>5

\* A decode call that gives the caller nothing raises no false alarm (after_decode).
LEMMA AfterDecodeSound ==
  ASSUME Inv, CanDecode, Skipping \/ Emitting, Sound,
         NEW room \in Nat, room > 0, NEW result \in Outcomes(decoder, InputLeft, room),
         Advance(result), NEW to \in {"Skipping", "Emitting"}, AfterDecode(result, to),
         require_full => unpacked_pos + result.produced < UnpackedLen
  PROVE  pc' \in Errors => (Faulty /\ (pc' = "TruncatedInput" => ~ AtEnd(decoder')))
<1>1. /\ result.consumed \in Nat /\ result.produced \in Nat /\ result.ended \in BOOLEAN
      /\ InputLeft \in Nat /\ Reachable(decoder)
      /\ decoder \in Nat \X Nat
      /\ decoder' = <<decoder[1] + result.consumed, decoder[2] + result.produced>>
      /\ result.ended => AtEnd(decoder')
  BY AdvanceFacts, CanDecodeFacts DEF Inv, Live
<1>2. /\ started /\ range_left > 0 /\ unpacked_pos = decoder[2]
      /\ decoder[1] + InputLeft = compressed_pos
  BY CanDecodeFacts DEF Inv, FedInOrder, ServesTheRange
<1>3. /\ compressed_pos \in Nat /\ file_len \in Nat /\ file_len >= PackedLen
      /\ eof => compressed_pos >= file_len
      /\ eof \in BOOLEAN /\ require_full \in BOOLEAN /\ Faulty \in BOOLEAN
      /\ PackedLen \in Nat
  BY StreamAssumption, FaultyAssumption DEF Inv, TypeOK, Ended, Sound
<1>4. require_full => file_len > 0 /\ ~ AtEnd(decoder')
  <2>1. require_full => file_len > 0
    BY <1>2, OwingIsNotEnd
  <2>2. AtEnd(decoder') => decoder[2] + result.produced = UnpackedLen
    BY <1>1 DEF AtEnd
  <2> QED
    BY <1>1, <1>2, <2>1, <2>2, StreamAssumption DEF UnpackedLen
<1>5. ASSUME Idle(result), ~ result.ended
      PROVE  /\ ~ AtEnd(decoder')
             /\ ~ Faulty => /\ InputLeft = 0 \/ decoder[1] = PackedLen
                            /\ decoder[2] = Unpacked[decoder[1]]
                            /\ decoder[1] # PackedLen
  <2>1. result.consumed = 0 /\ result.produced = 0
    BY <1>5 DEF Idle
  <2>2. decoder' = decoder
    BY <1>1, <2>1
  <2>3. /\ ~ AtEnd(decoder)
        /\ ~ Faulty => /\ InputLeft = 0 \/ decoder[1] = PackedLen
                       /\ decoder[2] = Unpacked[decoder[1]]
    BY <1>1, <1>5, <2>1, IdleOutcomes
  <2> QED
    BY <1>1, <2>2, <2>3 DEF AtEnd, UnpackedLen
<1> DEFINE had == InputLeft > 0
           dry == InputLeft = result.consumed
<1>6. CASE result.ended /\ had
  BY <1>1, <1>4, <1>6 DEF AfterDecode, Errors
<1>7. CASE ~ (result.ended /\ had) /\ dry /\ eof
  <2>1. CASE ~ Idle(result)
    BY <1>7, <2>1 DEF AfterDecode, Errors
  <2>2. CASE Idle(result) /\ CutShort(result)
    <3>1. pc' = "TruncatedInput" /\ ~ result.ended
      BY <1>7, <2>2 DEF AfterDecode, CutShort
    <3>2. InputLeft = 0
      BY <1>7, <2>2 DEF Idle
    <3>3. decoder[1] >= PackedLen
      BY <1>1, <1>2, <1>3, <1>7, <3>2
    <3>4. decoder[1] \in 0..PackedLen
      BY <1>1 DEF Reachable
    <3> QED
      BY <1>3, <1>5, <2>2, <3>1, <3>3, <3>4
  <2>3. CASE Idle(result) /\ ~ CutShort(result)
    <3>1. pc' = IF range_left > 0 /\ require_full THEN "TruncatedInput" ELSE "Done"
      BY <1>7, <2>3 DEF AfterDecode
    <3>2. result.ended \/ compressed_pos = 0
      BY <1>1, <1>3, <2>3 DEF CutShort
    <3>3. ~ require_full
      BY <1>1, <1>3, <1>4, <1>7, <3>2
    <3> QED
      BY <3>1, <3>3 DEF Errors
  <2> QED
    BY <2>1, <2>2, <2>3
<1>8. CASE ~ (result.ended /\ had) /\ dry /\ ~ eof
  BY <1>8 DEF AfterDecode, Errors
<1>9. CASE ~ (result.ended /\ had) /\ ~ dry
  <2>1. pc' = IF Idle(result) THEN "Error" ELSE "call"
    BY <1>9 DEF AfterDecode
  <2>2. CASE Idle(result)
    <3>1. InputLeft > 0 /\ ~ result.ended
      BY <1>1, <1>9, <2>2 DEF Idle
    <3> QED
      BY <1>3, <1>5, <2>1, <2>2, <3>1
  <2> QED
    BY <2>1, <2>2 DEF Errors
<1> QED
  BY <1>6, <1>7, <1>8, <1>9

\* skip() raises no false alarm.
LEMMA SkipSound ==
  ASSUME Inv, Sound, Skip
  PROVE  pc' \in Errors => (Faulty /\ (pc' = "TruncatedInput" => ~ AtEnd(decoder')))
<1>1. CanDecode /\ Skipping
  BY DEF Skip
<1>2. PICK result \in Outcomes(decoder, InputLeft, OutSize) :
        /\ result.produced <= remaining
        /\ Advance(result)
        /\ AfterDecode(result, IF remaining - result.produced = 0 THEN "Emitting"
                               ELSE "Skipping")
  BY DEF Skip
<1>3. OutSize \in Nat /\ OutSize > 0
  BY BoundsAssumption
<1>4. result.produced \in Nat
  BY <1>1, <1>2, <1>3, AdvanceFacts
<1>5. /\ unpacked_pos + remaining = target_offset /\ target_len > 0
      /\ unpacked_pos \in Nat /\ remaining \in Nat /\ target_len \in Nat
  BY <1>1 DEF Inv, RemainingExact, Owing, TypeOK
<1>6. require_full => unpacked_pos + result.produced < UnpackedLen
  BY <1>2, <1>4, <1>5, StreamAssumption DEF Sound, RangeEnd, UnpackedLen
<1> QED
  BY <1>1, <1>2, <1>3, <1>6, AfterDecodeSound

\* emit() raises no false alarm.
LEMMA EmitSound ==
  ASSUME Inv, Sound, Emit
  PROVE  pc' \in Errors => (Faulty /\ (pc' = "TruncatedInput" => ~ AtEnd(decoder')))
<1>1. CanDecode /\ Emitting
  BY DEF Emit
<1> DEFINE room == Smaller(remaining, OutSize)
<1>2. PICK result \in Outcomes(decoder, InputLeft, room) :
        /\ Advance(result)
        /\ IF result.produced > 0 THEN pc' = "OutputReady"
           ELSE AfterDecode(result, "Emitting")
  BY DEF Emit, HandOver
<1>3. /\ unpacked_pos + remaining = RangeEnd /\ remaining > 0
      /\ unpacked_pos \in Nat /\ remaining \in Nat
  BY <1>1 DEF Inv, RemainingExact, TypeOK
<1>4. room \in Nat /\ room > 0
  BY <1>3, BoundsAssumption DEF Smaller
<1>5. result.produced \in Nat
  BY <1>1, <1>2, <1>4, AdvanceFacts
<1>6. CASE result.produced > 0
  BY <1>2, <1>6 DEF Errors
<1>7. CASE result.produced = 0
  <2>1. require_full => unpacked_pos + result.produced < UnpackedLen
    BY <1>3, <1>7, StreamAssumption DEF Sound, UnpackedLen
  <2> QED
    BY <1>1, <1>2, <1>4, <1>7, <2>1, AfterDecodeSound
<1> QED
  BY <1>5, <1>6, <1>7

\* step() on a reader that is done raises no false alarm.
LEMMA StepDoneSound == ASSUME Inv, Sound, StepDone PROVE pc' \notin Errors
<1> SUFFICES ASSUME range_left > 0, require_full PROVE FALSE
  BY DEF StepDone, Errors
<1>1. /\ out.len \in Nat /\ out.read \in Nat /\ out.read <= out.len /\ range_left \in Nat
      /\ unpacked_pos \in Nat /\ Owed \in Int
  BY DEF Inv, TypeOK, Owed
<1>2. Buffered = 0
  BY <1>1 DEF StepDone, Serveable, Smaller, Buffered
<1>3. stream_ended /\ Owed >= unpacked_pos
  BY <1>1, <1>2 DEF Inv, Owing, StepDone
<1>4. started /\ (AtEnd(decoder) \/ file_len = 0)
  BY <1>3 DEF Inv, Resting, Ended
<1> QED
  BY <1>1, <1>3, <1>4, OwingIsNotEnd

\* A whole packed file and a range the stream holds: an error is the decoder's, and a
\* stream decoded to its end is never called truncated (reader.rs, after_decode).
THEOREM ErrorsAreReal == Spec => []NoFalseAlarm
<1>1. Init => NoFalseAlarm
  BY DEF Init, NoFalseAlarm, Errors
<1>2. ASSUME Inv, NoFalseAlarm, [Next]_vars PROVE NoFalseAlarm'
  <2>1. CASE UNCHANGED vars \/ Terminated
    BY <1>2, <2>1 DEF Terminated, vars, index, range, world, NoFalseAlarm, RangeEnd
  <2>2. CASE StepOutputReady \/ StepSeekToCheckpoint \/ StepNeedInput \/ SkipOver
             \/ Answer \/ StepAgain \/ SeekUnstarted \/ SeekForward
    <3>1. pc' \notin Errors
      BY <2>2 DEF StepOutputReady, StepSeekToCheckpoint, StepNeedInput, SkipOver, HandOver,
         Answer, ProvideData, ProvideFrom, SignalEof, SignalEofAt, ReadOutput, StepAgain,
         SeekUnstarted, SeekForward, Retarget, Errors
    <3> QED
      BY <3>1 DEF NoFalseAlarm, Errors
  <2>3. CASE RestoreError \/ DecodeError
    BY <2>3 DEF RestoreError, DecodeError, NoFalseAlarm
  <2>4. CASE StepDone \/ Skip \/ Emit
    <3>1. UNCHANGED <<file_len, require_full, target_offset, target_len>>
      BY <2>4 DEF StepDone, Skip, Emit, index, range, world
    <3> SUFFICES ASSUME Sound
                 PROVE  pc' \in Errors =>
                          (Faulty /\ (pc' = "TruncatedInput" => ~ AtEnd(decoder')))
      BY <3>1 DEF NoFalseAlarm, Sound, RangeEnd, Errors
    <3> QED
      BY <1>2, <2>4, StepDoneSound, SkipSound, EmitSound
  <2> QED
    BY <1>2, <2>1, <2>2, <2>3, <2>4 DEF Next, Step
<1> QED
  BY <1>1, <1>2, Invariance, PTL DEF Spec

-----------------------------------------------------------------------------
(***************************************************************************)
(* The reader implements RangeServer, over a packed file that is not       *)
(* empty (of an empty one it can only say that it holds nothing).          *)
(***************************************************************************)

\* The packed file does not change.
LEMMA FileKept == Spec => [](file_len \in FileLens)
<1>1. Init => file_len \in FileLens
  BY DEF Init
<1>2. file_len \in FileLens /\ [Next]_vars => (file_len \in FileLens)'
  BY DEF Next, Step, Answer, StepOutputReady, StepDone, StepSeekToCheckpoint,
     RestoreError, StepNeedInput, SkipOver, Skip, Emit, DecodeError, ProvideData,
     ProvideFrom, SignalEof, SignalEofAt, ReadOutput, StepAgain, SeekUnstarted, SeekForward, Terminated, vars, world
<1> QED
  BY <1>1, <1>2, PTL DEF Spec

\* A new reader owes its range.
LEMMA PromiseInit == ASSUME Inv, Init PROVE Server!Init
<1>1. target_offset \in Nat /\ target_len \in Nat /\ range_left = target_len
  BY DEF Init, Inv, TypeOK
<1>2. Owed = target_offset /\ RangeEnd = target_offset + target_len
  BY <1>1 DEF Owed, RangeEnd
<1> QED
  BY <1>1, <1>2 DEF Init, Server!Init, Status, Errors

\* An action of step() that leaves the range alone: it answers, ends or fails.
LEMMA PromiseStep ==
  ASSUME Inv, Inv', DoneIsDelivered', file_len' # 0, pc = "call",
         UNCHANGED <<target_offset, target_len, range_left, served>>
  PROVE  [Server!Next]_(Server!vars)
<1>1. Owed' = Owed /\ RangeEnd' = RangeEnd /\ served' = served
  BY DEF Owed, RangeEnd
<1>2. Status = "serving"
  BY DEF Status, Errors
<1>3. CASE pc' = "Done"
  <2>1. Status' = "done"
    BY <1>3 DEF Status
  <2>2. Owed = RangeEnd \/ Owed >= UnpackedLen
    BY <1>1, <1>3 DEF DoneIsDelivered, Owed, RangeEnd, Inv, TypeOK
  <2> QED
    BY <1>1, <1>2, <2>1, <2>2 DEF Server!Next, Server!Complete
<1>4. CASE pc' \in Errors
  <2>1. Status' = "failed"
    BY <1>4 DEF Status, Errors
  <2> QED
    BY <1>1, <1>2, <2>1 DEF Server!Next, Server!Fail
<1>5. CASE pc' \notin {"Done"} \cup Errors
  <2>1. Status' = "serving"
    BY <1>5 DEF Status
  <2> QED
    BY <1>1, <1>2, <2>1 DEF Server!vars
<1> QED
  BY <1>3, <1>4, <1>5

\* read_output() serves the bytes that are next.
LEMMA PromiseServe == ASSUME Inv, ReadOutput PROVE Server!Serve
<1>1. PICK n \in 1..Serveable : /\ range_left' = range_left - n
                                /\ served' = out.at + out.read + n
  BY DEF ReadOutput
<1>2. /\ out.at \in Nat /\ out.len \in Nat /\ out.read \in Nat /\ out.read <= out.len
      /\ range_left \in Nat /\ target_offset \in Nat /\ target_len \in Nat
      /\ range_left <= target_len
  BY DEF Inv, TypeOK
<1>3. n \in Nat /\ n <= out.len - out.read /\ n <= range_left /\ n > 0 /\ Serveable > 0
  BY <1>1, <1>2 DEF Serveable, Buffered, Smaller
<1>4. out.at + out.read = Owed /\ out.at + out.len = unpacked_pos
  BY <1>2, <1>3 DEF Inv, ServesTheRange, Buffered
<1>5. started
  BY <1>2, <1>3 DEF Inv, Resting
<1>6. decoder[2] \in 0..UnpackedLen /\ unpacked_pos = decoder[2] /\ UnpackedLen \in Nat
  BY <1>5, StreamAssumption DEF Inv, Live, ServesTheRange, Reachable, UnpackedLen
<1>7. Owed' = Owed + n /\ RangeEnd' = RangeEnd /\ Owed \in Nat
  BY <1>1, <1>2, <1>3 DEF ReadOutput, range, Owed, RangeEnd
<1>8. Owed' \in (Owed + 1)..RangeEnd
  BY <1>2, <1>3, <1>7 DEF Owed, RangeEnd
<1>9. Owed' <= UnpackedLen /\ served' = Owed'
  BY <1>1, <1>2, <1>3, <1>4, <1>6, <1>7
<1>10. Status = "serving" /\ Status' = "serving"
  BY DEF ReadOutput, Status, Errors
<1> QED
  BY <1>7, <1>8, <1>9, <1>10 DEF Server!Serve

\* seek_forward() points past what has been served.
LEMMA PromiseRetarget ==
  ASSUME Inv, Inv', SeekUnstarted \/ SeekForward
  PROVE  Server!Retarget
<1>1. PICK offset \in Offsets, len \in Lengths : Retarget(offset, len)
  BY DEF SeekUnstarted, SeekForward
<1>2. /\ target_offset' \in Nat /\ target_len' \in Nat
      /\ target_offset' = offset /\ range_left' = target_len'
  BY <1>1 DEF Retarget, Inv, TypeOK
<1>3. Owed' = target_offset' /\ RangeEnd' = target_offset' + target_len'
  <2>1. Owed' = target_offset' + target_len' - range_left'
    BY DEF Owed
  <2>2. \A a, b \in Nat : a + b - b = a
    OBVIOUS
  <2> QED
    BY <1>2, <2>1, <2>2 DEF RangeEnd
<1>4. served \in Nat /\ served' = served /\ Status' = "serving"
  BY <1>1 DEF SeekUnstarted, SeekForward, Retarget, Status, Errors, Inv, TypeOK
<1>5. served <= target_offset'
  <2>1. CASE SeekUnstarted
    BY <1>2, <2>1 DEF SeekUnstarted, Inv, Resting
  <2>2. CASE SeekForward
    <3>1. PICK offset2 \in Offsets, len2 \in Lengths :
            offset2 >= Position /\ Retarget(offset2, len2)
      BY <2>2 DEF SeekForward, Accepts
    <3>2. /\ served <= unpacked_pos - Buffered /\ Position = unpacked_pos - Buffered
          /\ Buffered \in Int /\ unpacked_pos \in Nat
      BY <2>2 DEF SeekForward, Inv, TypeOK, Live, Position, Buffered
    <3> QED
      BY <1>2, <1>4, <3>1, <3>2 DEF Retarget
  <2> QED
    BY <2>1, <2>2
<1>6. Owed' \in Nat /\ RangeEnd' \in Nat /\ served <= Owed' /\ Owed' <= RangeEnd'
  <2>1. \A a, b \in Nat : a + b \in Nat /\ a <= a + b
    OBVIOUS
  <2> QED
    BY <1>2, <1>3, <1>4, <1>5, <2>1
<1> QED
  BY <1>4, <1>6 DEF Server!Retarget

\* The detailed reader implements the promise of RangeServer.
THEOREM PromiseKept ==
  ASSUME 0 \notin FileLens
  PROVE  Spec => KeepsPromise
<1>1. Init /\ Inv => Server!Init
  BY PromiseInit
<1>2. ASSUME Inv, Inv', DoneIsDelivered', file_len \in FileLens, (file_len \in FileLens)',
             [Next]_vars
      PROVE  [Server!Next]_(Server!vars)
  <2>1. file_len' # 0
    BY <1>2
  <2>2. CASE Step
    <3>1. pc = "call" /\ UNCHANGED <<target_offset, target_len, range_left, served>>
      BY <2>2 DEF Step, StepOutputReady, StepDone, StepSeekToCheckpoint,
     RestoreError, StepNeedInput,
         SkipOver, Skip, Emit, DecodeError, CanDecode, range, world
    <3> QED
      BY <1>2, <2>1, <3>1, PromiseStep
  <2>3. CASE ReadOutput
    BY <1>2, <2>3, PromiseServe DEF Server!Next
  <2>4. CASE ProvideData \/ SignalEof \/ StepAgain \/ Terminated \/ UNCHANGED vars
    <3>1. UNCHANGED <<target_offset, target_len, range_left, served>>
      BY <2>4 DEF ProvideData, ProvideFrom, SignalEof, SignalEofAt, StepAgain, Terminated, vars, range, world
    <3>2. Status' = Status
      BY <2>4 DEF ProvideData, ProvideFrom, SignalEof, SignalEofAt, StepAgain, Terminated, vars, Status, Errors
    <3> QED
      BY <3>1, <3>2 DEF Server!vars, Owed, RangeEnd
  <2>5. CASE SeekUnstarted \/ SeekForward
    BY <1>2, <2>5, PromiseRetarget DEF Server!Next
  <2> QED
    BY <1>2, <2>2, <2>3, <2>4, <2>5 DEF Next, Answer
<1> QED
  BY <1>1, <1>2, Invariance, DoneOnlyDelivered, FileKept, PTL
     DEF Spec, KeepsPromise, Server!Spec
=============================================================================

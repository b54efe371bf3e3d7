--------------------------- MODULE StreamIndexer ---------------------------
(***************************************************************************)
(* StreamIndexer (src/stream/indexer.rs): lays checkpoints over one        *)
(* compressed stream without doing I/O.  A caller drives it: it calls      *)
(* step(), answers the request it gets with provide_data, signal_eof or    *)
(* read_output, and steps again; it may give up at any request, keep the   *)
(* partial index, and resume it later, when the packed file may have       *)
(* grown.                                                                  *)
(*                                                                         *)
(* The decoder is any decoder (module Decoder); it can be checkpointed     *)
(* after some calls and not after others.                                  *)
(*                                                                         *)
(* step() runs to completion between two calls.  Where it does the work of *)
(* several statements whose order matters (decode, lay a checkpoint, the   *)
(* thinning loop, settle the accounts) it is a chain of actions, each      *)
(* enabled only by the one before it; pc names the place in the chain, or  *)
(* the request the caller holds.                                           *)
(***************************************************************************)
EXTENDS StreamIndex, CheckpointStrategy, Decoder

CONSTANTS
  FileLens,        \* the lengths the packed file may have when a pass starts
  MaxRead,         \* most packed bytes the caller reads at a time
  OutSize,         \* BUF_SIZE: most bytes one decompress call gives out
  Strategies,      \* the strategies a pass may be started with
  Sizes,           \* the sizes a checkpoint may have; the least is the start's
  Stops,           \* the offsets a pass may be told to stop at
  NoStop,          \* stop_at = None
  CheckpointAnywhere,  \* the codec can be checkpointed after every call
  MaxPasses        \* bound on the number of passes over the stream

\* CheckpointState::None holds nothing: the start checkpoint weighs least.
StartSize == CHOOSE s \in Sizes : \A t \in Sizes : s <= t

ASSUME BoundsAssumption ==
  /\ FileLens \subseteq Nat
  /\ MaxRead \in Nat \ {0} /\ OutSize \in Nat \ {0} /\ MaxPasses \in Nat
  /\ Sizes \subseteq Nat /\ Sizes # {}
  /\ Stops \subseteq Nat /\ NoStop \notin Nat
  /\ CheckpointAnywhere \in BOOLEAN

\* A strategy belongs to one indexer, and is new when a pass is given it.
ASSUME StrategiesAssumption == \A s \in Strategies : IsNew(s)

VARIABLES
  index,           \* the StreamIndex being built
  strategy,
  state,           \* State: where the indexer stands between two calls
  seek_offset,     \* the offset State::Seek carries
  compressed_pos, unpacked_pos,
  last_checkpoint_pos, checkpoint_data_bytes,
  stop_at, emit_output,
  input,           \* [at, len, pos]: input_buf holds the file's bytes from
                   \*   `at', `len' of them; input_pos = pos
  eof,
  out,             \* [at, len, read]: out_buf holds the bytes from offset `at';
                   \*   out_len = len, out_read = read
  pc,              \* the next statement of step(), or the request returned
  call,            \* the decompress call step() is working on
  decoder,         \* <<bytes taken in, bytes given out>>, for real
  file,            \* [len, cursor]: the packed file and the caller's place in it
  handed,          \* where the next byte handed out by read_output should start
  passes           \* passes started so far

progress == <<compressed_pos, unpacked_pos, decoder>>
caller   == <<file, handed, passes>>
settings == <<stop_at, emit_output>>
ledger   == <<last_checkpoint_pos, checkpoint_data_bytes>>

vars == <<index, strategy, state, seek_offset, progress, ledger, settings,
          input, eof, out, pc, call, caller>>

Requests == {"SeekAndRead", "NeedInput", "OutputReady", "Done", "Error"}
Inside   == {"lay", "thin", "settle"}
NoCall   == [before |-> 0, produced |-> 0, consumed |-> 0, ended |-> FALSE,
             had_input |-> FALSE, notify |-> FALSE]

-----------------------------------------------------------------------------

(***************************************************************************)
(* with_parts(): the state an indexer starts a pass with.  The caller then *)
(* sets stop_at, emit_output and, for a new index, perhaps the declared    *)
(* length, and opens the file.                                             *)
(***************************************************************************)
Init ==
  /\ file \in [len : FileLens, cursor : {0}]
  /\ \E declared \in {UnknownLen, UnpackedLen}, known \in {0, file.len} :
       index = NewIndex(StartSize, declared, known)
  /\ strategy \in Strategies
  /\ state = "NeedInput" /\ seek_offset = 0
  /\ compressed_pos = 0 /\ unpacked_pos = 0
  /\ last_checkpoint_pos = 0
  /\ checkpoint_data_bytes = DataBytes(index.checkpoints)
  /\ stop_at \in Stops \cup {NoStop}
  /\ emit_output \in BOOLEAN
  /\ input = [at |-> 0, len |-> 0, pos |-> 0]
  /\ eof = FALSE
  /\ out = [at |-> 0, len |-> 0, read |-> 0]
  /\ pc = "call"
  /\ call = NoCall
  /\ decoder = <<0, 0>>
  /\ handed = 0
  /\ passes = 1

OutputPending == out.read < out.len
InputLeft     == input.len - input.pos

\* State::Processing, or State::NeedInput falling through to it at eof.
Processing == state = "Processing" \/ (state = "NeedInput" /\ eof)

(***************************************************************************)
(* step(), as far as it answers without decoding.                          *)
(***************************************************************************)
StepDone ==
  /\ pc = "call" /\ state = "Done"
  /\ pc' = "Done"
  /\ UNCHANGED <<index, strategy, state, seek_offset, progress, ledger, settings,
                 input, eof, out, call, caller>>

StepSeek ==
  /\ pc = "call" /\ state = "Seek"
  /\ state' = "NeedInput"
  /\ pc' = "SeekAndRead"
  /\ UNCHANGED <<index, strategy, seek_offset, progress, ledger, settings,
                 input, eof, out, call, caller>>

StepNeedInput ==
  /\ pc = "call"
  /\ \/ state = "NeedInput" /\ ~ eof
     \/ state = "Processing" /\ ~ OutputPending /\ InputLeft = 0 /\ ~ eof
  /\ state' = "NeedInput"
  /\ pc' = "NeedInput"
  /\ UNCHANGED <<index, strategy, seek_offset, progress, ledger, settings,
                 input, eof, out, call, caller>>

StepOutputReady ==
  /\ pc = "call" /\ Processing /\ OutputPending
  /\ state' = "Processing"
  /\ pc' = "OutputReady"
  /\ UNCHANGED <<index, strategy, seek_offset, progress, ledger, settings,
                 input, eof, out, call, caller>>

-----------------------------------------------------------------------------

Context(packed, unpacked, bytes, last, cps) ==
  [unpacked |-> unpacked, packed |-> packed, last |-> last,
   count |-> Len(cps), bytes |-> bytes,
   size |-> index.compressed_len]

(***************************************************************************)
(* step_once around the decompress call, up to where it may lay a          *)
(* checkpoint: only for a chunk that reaches past what is indexed.         *)
(***************************************************************************)
Decode ==
  /\ pc = "call" /\ Processing /\ ~ OutputPending
  /\ InputLeft > 0 \/ eof
  /\ state' = "Processing"
  /\ \E result \in Outcomes(decoder, InputLeft, OutSize) :
       /\ input' = [input EXCEPT !.pos = @ + result.consumed]
       /\ compressed_pos' = compressed_pos + result.consumed
       /\ unpacked_pos' = unpacked_pos + result.produced
       /\ decoder' = After(decoder, <<result.consumed, result.produced>>)
       /\ call' = [before |-> unpacked_pos, produced |-> result.produced,
                   consumed |-> result.consumed, ended |-> result.ended,
                   had_input |-> InputLeft > 0, notify |-> TRUE]
       /\ LET fresh   == unpacked_pos' > index.indexed_to
              ctx     == Context(compressed_pos', unpacked_pos', checkpoint_data_bytes,
                                 last_checkpoint_pos, index.checkpoints)
              started == Started(strategy, ctx)
          IN  IF result.produced > 0 /\ fresh
                THEN /\ strategy' = started
                     /\ pc' = IF ShouldCheckpoint(started, ctx) THEN "lay" ELSE "settle"
                ELSE pc' = "settle" /\ UNCHANGED strategy
  /\ UNCHANGED <<index, seek_offset, ledger, settings, eof, out, caller>>

\* The decoder refuses the bytes: decompress returns an error.
DecodeError ==
  /\ Faulty
  /\ pc = "call" /\ Processing /\ ~ OutputPending /\ InputLeft > 0
  /\ state' = "Processing"
  /\ pc' = "Error"
  /\ UNCHANGED <<index, strategy, seek_offset, progress, ledger, settings,
                 input, eof, out, call, caller>>

-----------------------------------------------------------------------------

(***************************************************************************)
(* try_checkpoint(notify), up to its thinning loop.  It is asked at most   *)
(* once a position, and the codec may have no checkpoint to give.          *)
(***************************************************************************)
\* Mutation: a stop checkpoint waits for the strategy's interval too.
LaidNearby == unpacked_pos - last_checkpoint_pos < strategy.interval

\* Mutation: lay again at the same place.
LaidNever == FALSE

AlreadyLaid ==
  /\ unpacked_pos = last_checkpoint_pos
  /\ LastCheckpoint(index.checkpoints).unpacked = unpacked_pos

\* step() returns from the branch that ended the pass.
EndStep ==
  /\ state' = "Done"
  /\ pc' = IF OutputPending THEN "OutputReady" ELSE "Done"

\* Where step() goes once try_checkpoint is done.
AfterCheckpointing ==
  IF call.notify THEN pc' = "settle" /\ UNCHANGED state ELSE EndStep

NothingToLay ==
  /\ pc = "lay"
  /\ AlreadyLaid \/ ~ CheckpointAnywhere
  /\ AfterCheckpointing
  /\ UNCHANGED <<index, strategy, seek_offset, progress, ledger, settings,
                 input, eof, out, call, caller>>

\* The codec fails to save its state; the error leaves step() at once.
CheckpointError ==
  /\ Faulty
  /\ pc = "lay" /\ ~ AlreadyLaid
  /\ pc' = "Error"
  /\ UNCHANGED <<index, strategy, state, seek_offset, progress, ledger, settings,
                 input, eof, out, call, caller>>

\* Mutation: the new checkpoint is not counted.
BytesUncounted(size) == checkpoint_data_bytes

BytesWith(size) == checkpoint_data_bytes + size

Lay ==
  /\ pc = "lay" /\ ~ AlreadyLaid
  /\ \E size \in Sizes :
       LET cp    == [packed |-> compressed_pos, unpacked |-> unpacked_pos,
                     size |-> size, at |-> decoder]
           cps   == Append(index.checkpoints, cp)
           bytes == BytesWith(size)
       IN  /\ index' = [index EXCEPT !.checkpoints = cps]
           /\ checkpoint_data_bytes' = bytes
           /\ last_checkpoint_pos' = unpacked_pos
           /\ strategy' = IF call.notify
                            THEN AfterCheckpoint(strategy,
                                   Context(compressed_pos, unpacked_pos, bytes, unpacked_pos, cps))
                            ELSE strategy
  /\ pc' = "thin"
  /\ UNCHANGED <<state, seek_offset, progress, settings, input, eof, out, call, caller>>

(***************************************************************************)
(* The loop of try_checkpoint: while should_thin says yes and thin() drops *)
(* something, recompute the total and the last position.  One step is one  *)
(* iteration; asking doubles the strategy's interval even when there is    *)
(* nothing left to drop.                                                   *)
(***************************************************************************)
ThinContext ==
  Context(compressed_pos, unpacked_pos, checkpoint_data_bytes, last_checkpoint_pos,
          index.checkpoints)

Thin ==
  /\ pc = "thin"
  /\ ShouldThin(strategy, ThinContext) /\ CanThin(index.checkpoints)
  /\ LET cps == Thinned(index.checkpoints)
     IN  /\ index' = [index EXCEPT !.checkpoints = cps]
         /\ checkpoint_data_bytes' = DataBytes(cps)
         /\ last_checkpoint_pos' = LastCheckpoint(cps).unpacked
  /\ strategy' = AfterThinAsked(strategy, ThinContext)
  /\ UNCHANGED <<state, seek_offset, progress, settings, input, eof, out, pc, call, caller>>

ThinEnd ==
  /\ pc = "thin"
  /\ ~ (ShouldThin(strategy, ThinContext) /\ CanThin(index.checkpoints))
  /\ strategy' = AfterThinAsked(strategy, ThinContext)
  /\ AfterCheckpointing
  /\ UNCHANGED <<index, seek_offset, progress, ledger, settings, input, eof, out, call, caller>>

-----------------------------------------------------------------------------

(***************************************************************************)
(* The rest of step_once after a decompress call: hand out what is new,    *)
(* move indexed_to, and decide what step() returns.                        *)
(***************************************************************************)
Fresh == unpacked_pos > index.indexed_to

\* Mutation: bytes an earlier pass covered are handed out again.
OutUnskipped ==
  IF call.produced > 0 /\ Fresh /\ emit_output
    THEN [at |-> call.before, len |-> call.produced, read |-> 0] ELSE out

\* Mutation: the skip is taken without asking whether the chunk is fresh.
OutUnchecked ==
  IF call.produced > 0 /\ emit_output
    THEN [at |-> call.before, len |-> call.produced,
          read |-> IF index.indexed_to > call.before
                     THEN index.indexed_to - call.before ELSE 0]
    ELSE out

SettledOut ==
  IF call.produced > 0 /\ Fresh /\ emit_output
    THEN [at   |-> call.before, len |-> call.produced,
          read |-> IF index.indexed_to > call.before
                     THEN index.indexed_to - call.before ELSE 0]
    ELSE out

SettledIndexedTo == IF Fresh THEN unpacked_pos ELSE index.indexed_to

Stopped   == stop_at # NoStop /\ unpacked_pos >= stop_at

\* Mutation: running dry is not noticed.
NeverIdle == FALSE

IdleAtEof == ~ call.had_input /\ call.consumed = 0 /\ call.produced = 0
Ended     == call.ended \/ IdleAtEof

\* Mutation: running dry is the end, whatever the decoder says.
NeverTruncated == FALSE

\* Mutation: the decoder's own end of stream is not looked at.
TruncatedAtEnd == IdleAtEof /\ compressed_pos > 0

Truncated == IdleAtEof /\ ~ call.ended /\ compressed_pos > 0

\* The stream ended: the index is complete and knows its length.
SettleEnded ==
  /\ pc = "settle" /\ Ended /\ ~ Truncated
  /\ index' = [index EXCEPT !.indexed_to = SettledIndexedTo,
                            !.complete = TRUE,
                            !.unpacked_len = unpacked_pos]
  /\ out' = SettledOut
  /\ state' = "Done"
  /\ pc' = IF out'.read < out'.len THEN "OutputReady" ELSE "Done"
  /\ UNCHANGED <<strategy, seek_offset, progress, ledger, settings, input, eof,
                 call, caller>>

\* The pass reached stop_at: lay a checkpoint here if the codec can.
SettleStopped ==
  /\ pc = "settle" /\ ~ Ended /\ ~ Truncated /\ Stopped
  /\ index' = [index EXCEPT !.indexed_to = SettledIndexedTo]
  /\ out' = SettledOut
  /\ call' = [call EXCEPT !.notify = FALSE]
  /\ pc' = "lay"
  /\ UNCHANGED <<strategy, state, seek_offset, progress, ledger, settings, input,
                 eof, caller>>

\* Neither: return a request, fail, or decode on.
SettleOn ==
  /\ pc = "settle" /\ (Truncated \/ (~ Ended /\ ~ Stopped))
  /\ index' = [index EXCEPT !.indexed_to = SettledIndexedTo]
  /\ out' = SettledOut
  /\ LET starved == /\ ~ Truncated /\ ~ (out'.read < out'.len) /\ InputLeft = 0
         stalled == call.consumed = 0 /\ call.produced = 0
     IN  /\ pc' = CASE Truncated             -> "Error"
                    [] out'.read < out'.len  -> "OutputReady"
                    [] starved               -> "NeedInput"
                    [] ~ Truncated /\ ~ (out'.read < out'.len) /\ ~ starved ->
                         IF stalled THEN "Error" ELSE "call"
         /\ state' = IF starved /\ ~ eof THEN "NeedInput" ELSE state
  /\ UNCHANGED <<strategy, seek_offset, progress, ledger, settings, input, eof,
                 call, caller>>

-----------------------------------------------------------------------------

(***************************************************************************)
(* The caller's answers.  It reads the packed file from its own cursor,    *)
(* which SeekAndRead moves; a read of nothing is signalled as end of file. *)
(***************************************************************************)
ReadFrom(offset) ==
  IF offset >= file.len
    THEN /\ eof' = TRUE
         /\ file' = [file EXCEPT !.cursor = offset]
         /\ UNCHANGED input
    ELSE \E n \in 1..Smaller(MaxRead, file.len - offset) :
           /\ input' = [at |-> offset, len |-> n, pos |-> 0]
           /\ file' = [file EXCEPT !.cursor = offset + n]
           /\ UNCHANGED eof

Provide ==
  /\ \/ pc = "NeedInput" /\ ReadFrom(file.cursor)
     \/ pc = "SeekAndRead" /\ ReadFrom(seek_offset)
  /\ state' = "Processing"
  /\ pc' = "call"
  /\ UNCHANGED <<index, strategy, seek_offset, progress, ledger, settings,
                 out, call, handed, passes>>

\* read_output() with a buffer of n bytes.
ReadOutput ==
  /\ pc = "OutputReady"
  /\ \E n \in 1..(out.len - out.read) :
       /\ handed' = out.at + out.read + n
       /\ out' = IF out.read + n >= out.len
                   THEN [out EXCEPT !.len = 0, !.read = 0]
                   ELSE [out EXCEPT !.read = @ + n]
  /\ pc' = "call"
  /\ UNCHANGED <<index, strategy, state, seek_offset, progress, ledger, settings,
                 input, eof, call, file, passes>>

(***************************************************************************)
(* The caller gives up at a request, or the pass is over, and keeps the    *)
(* index (finish).                                                         *)
(***************************************************************************)
Finish ==
  /\ pc \in Requests
  /\ pc' = "finished"
  /\ UNCHANGED <<index, strategy, state, seek_offset, progress, ledger, settings,
                 input, eof, out, call, caller>>

(***************************************************************************)
(* StreamIndexer::resume on the kept index, with a fresh strategy of the   *)
(* same settings, over a file that may have grown since.                   *)
(***************************************************************************)
\* Mutation: seek to the checkpoint's unpacked offset.
SeekUnpacked(cp) == cp.unpacked

SeekPacked(cp) == cp.packed

\* Mutation: count on from the end of what is indexed.
CountFromIndexed(cp) == index.indexed_to

CountFrom(cp) == cp.unpacked

Resume ==
  /\ pc = "finished" /\ ~ index.complete
  /\ passes < MaxPasses
  /\ LET cp == LastCheckpoint(index.checkpoints)
     IN  /\ decoder' = cp.at
         /\ compressed_pos' = cp.packed
         /\ unpacked_pos' = CountFrom(cp)
         /\ last_checkpoint_pos' = CountFrom(cp)
         /\ state' = IF cp.packed = 0 THEN "NeedInput" ELSE "Seek"
         /\ seek_offset' = SeekPacked(cp)
  /\ checkpoint_data_bytes' = DataBytes(index.checkpoints)
  /\ strategy' \in Strategies
  /\ stop_at' \in Stops \cup {NoStop}
  /\ emit_output' \in BOOLEAN
  /\ input' = [at |-> 0, len |-> 0, pos |-> 0]
  /\ eof' = FALSE
  /\ out' = [at |-> 0, len |-> 0, read |-> 0]
  /\ call' = NoCall
  /\ pc' = "call"
  /\ \E len \in {l \in FileLens : l >= file.len} : file' = [len |-> len, cursor |-> 0]
  /\ handed' = index.indexed_to
  /\ passes' = passes + 1
  /\ UNCHANGED index

Terminated == pc = "finished" /\ (index.complete \/ passes = MaxPasses) /\ UNCHANGED vars

StepInside ==
  \/ StepDone \/ StepSeek \/ StepNeedInput \/ StepOutputReady
  \/ Decode \/ DecodeError
  \/ NothingToLay \/ CheckpointError \/ Lay \/ Thin \/ ThinEnd
  \/ SettleEnded \/ SettleStopped \/ SettleOn

Next ==
  \/ StepInside
  \/ Provide \/ ReadOutput
  \/ Finish \/ Resume
  \/ Terminated

Spec == Init /\ [][Next]_vars

(***************************************************************************)
(* step() runs when it is called, and a caller that does not give up       *)
(* answers every request.                                                  *)
(***************************************************************************)
FairSpec == Spec /\ WF_vars(StepInside) /\ WF_vars(Provide) /\ WF_vars(ReadOutput)

-----------------------------------------------------------------------------
(***************************************************************************)
(* What must hold.                                                         *)
(***************************************************************************)

\* Every variable holds a value of the code's type (fields of StreamIndexer), and
\* the cursors stay in their buffers: out_len - out_read and the slice of
\* input_buf never underflow.
TypeOK ==
  /\ index \in StreamIndexType
  /\ state \in {"NeedInput", "Seek", "Processing", "Done"}
  /\ seek_offset \in Nat
  /\ compressed_pos \in Nat /\ unpacked_pos \in Nat
  /\ last_checkpoint_pos \in Nat
  /\ stop_at \in Stops \cup {NoStop} /\ emit_output \in BOOLEAN
  /\ input \in [at : Nat, len : Nat, pos : Nat] /\ input.pos <= input.len
  /\ out \in [at : Nat, len : Nat, read : Nat] /\ out.read <= out.len
  /\ eof \in BOOLEAN
  /\ pc \in {"call", "finished"} \cup Inside \cup Requests
  /\ call \in [before : Nat, produced : Nat, consumed : Nat, ended : BOOLEAN,
               had_input : BOOLEAN, notify : BOOLEAN]
  /\ decoder \in Nat \X Nat
  /\ file \in [len : Nat, cursor : Nat]
  /\ handed \in Nat /\ passes \in Nat

(***************************************************************************)
(* The indexer's two running totals are where the decoder really is, across*)
(* chunks, seeks and resumed passes (step_once adds to them what each call *)
(* reports; resume sets them from the checkpoint).                         *)
(***************************************************************************)
PositionsExact == compressed_pos = decoder[1] /\ unpacked_pos = decoder[2]

(***************************************************************************)
(* A checkpoint carries the offsets its saved state is really at, the table*)
(* starts at 0 and is strictly sorted by unpacked offset: what             *)
(* best_checkpoint_for_offset and resume build on.                         *)
(***************************************************************************)
CheckpointsExact ==
  LET cps == index.checkpoints
  IN  /\ cps # <<>> /\ cps[1].at = <<0, 0>>
      /\ \A i \in 1..Len(cps) : cps[i].at = <<cps[i].packed, cps[i].unpacked>>
      /\ \A i \in 1..(Len(cps) - 1) : cps[i].unpacked < cps[i + 1].unpacked
      /\ \A i \in 1..(Len(cps) - 1) : cps[i].packed <= cps[i + 1].packed

\* The decoder is fed the packed file in order: the next unread input byte is
\* the next one it wants (provide_data replaces the buffer; Seek repositions).
FedInOrder ==
  /\ InputLeft > 0 => input.at + input.pos = decoder[1]
  /\ pc = "NeedInput" /\ ~ eof => file.cursor = decoder[1]
  /\ pc = "SeekAndRead" => seek_offset = decoder[1]

(***************************************************************************)
(* With emit_output on, the bytes handed out continue where the last ones  *)
(* stopped, and together with those waiting in out_buf they are all that   *)
(* indexed_to covers: nothing twice and nothing lost, over passes that     *)
(* decode from a checkpoint below indexed_to (step_once's `skip').         *)
(***************************************************************************)
HandedExactlyOnce ==
  /\ OutputPending => out.at + out.read = handed
  /\ emit_output /\ pc \notin Inside =>
       index.indexed_to = handed + (out.len - out.read)

\* A complete index ends at the stream's true end and knows its length; a file
\* cut short is never taken for a whole one (an empty file is an empty stream).
CompleteIsWhole ==
  index.complete =>
    /\ index.unpacked_len = index.indexed_to
    /\ \/ index.indexed_to = UnpackedLen /\ file.len >= PackedLen
       \/ index.indexed_to = 0 /\ file.len = 0

\* The running total of checkpoint bytes, which the strategies decide by, is
\* the table's own (try_checkpoint adds to it and the thinning loop resets it).
DataBytesExact ==
  /\ checkpoint_data_bytes = DataBytes(index.checkpoints)
  /\ last_checkpoint_pos = LastCheckpoint(index.checkpoints).unpacked

(***************************************************************************)
(* ThinningBudget: "The total exceeds the budget only between laying a     *)
(* checkpoint and thinning, by that one checkpoint" (and when the offset-0 *)
(* checkpoint alone is over it).                                           *)
(***************************************************************************)
ThinnedToBudget ==
  strategy.kind = "ThinningBudget" =>
    LET cps == index.checkpoints
    IN  \/ checkpoint_data_bytes <= strategy.budget
        \/ Len(cps) = 1
        \/ /\ pc = "thin"
           /\ \/ checkpoint_data_bytes - LastCheckpoint(cps).size <= strategy.budget
              \/ Len(cps) = 2

\* Budget and BudgetRatio stop laying once the budget is spent, so a pass from
\* the start that is not told to stop overshoots by less than one checkpoint
\* (BudgetRatio has no budget when the packed length is unknown).
OvershootsByOne ==
  (/\ strategy.kind \in {"Budget", "BudgetRatio"} /\ strategy.budget > 0
   /\ passes = 1 /\ stop_at = NoStop /\ Len(index.checkpoints) > 1)
    => checkpoint_data_bytes < strategy.budget + LastCheckpoint(index.checkpoints).size

(***************************************************************************)
(* ThinningBudget: "consecutive checkpoints are never much more than one   *)
(* interval apart".  With a codec that can always be checkpointed, a gap   *)
(* (or the stretch decoded since the last) is at most the interval         *)
(* stretched by the granularity of decoding at the first interval.         *)
(***************************************************************************)
GapsFollowInterval ==
  strategy.kind = "ThinningBudget" /\ passes = 1 /\ CheckpointAnywhere =>
    LET cps    == index.checkpoints
        first  == IF strategy.min > 1 THEN strategy.min ELSE 1
        most   == strategy.interval * (first + OutSize - 1)
    IN  /\ \A i \in 1..(Len(cps) - 1) :
             first * (cps[i + 1].unpacked - cps[i].unpacked) <= most
        /\ pc \notin Inside =>
             first * (unpacked_pos - LastCheckpoint(cps).unpacked) <= most

(***************************************************************************)
(* stop_at: "The index then ends with a checkpoint at the stopping point   *)
(* when the codec allows one, so a later resume picks up exactly there",   *)
(* unless thinning left only the start.                                    *)
(***************************************************************************)
StopLeavesCheckpoint ==
  pc = "Done" /\ ~ index.complete /\ CheckpointAnywhere =>
    /\ unpacked_pos >= stop_at
    /\ \/ LastCheckpoint(index.checkpoints).unpacked = unpacked_pos
       \/ Len(index.checkpoints) = 1

\* resume: "Output below indexed_to is never emitted and lays no checkpoints":
\* a checkpoint is never added below what the index already covers.
NoCheckpointBelowIndexed ==
  [][Len(index'.checkpoints) > Len(index.checkpoints) =>
       LastCheckpoint(index'.checkpoints).unpacked >= index.indexed_to]_index

(***************************************************************************)
(* The table changes by one new checkpoint at its end, or by thin(), which *)
(* keeps the offset-0 one and the newest (the newest goes only when it is  *)
(* the sole other one) and leaves no two dropped neighbours.               *)
(***************************************************************************)
TableSteps ==
  [][LET cps == index.checkpoints
         new == index'.checkpoints
     IN  \/ new = cps
         \/ Len(new) = Len(cps) + 1 /\ SubSeq(new, 1, Len(cps)) = cps
         \/ Len(cps) = 2 /\ new = <<cps[1]>>
         \/ /\ Len(cps) > 2 /\ Len(new) < Len(cps)
            /\ new[1] = cps[1] /\ LastCheckpoint(new) = LastCheckpoint(cps)
            /\ \A i \in 1..(Len(cps) - 1) :
                 \E j \in 1..Len(new) : new[j] \in {cps[i], cps[i + 1]}
    ]_index

(***************************************************************************)
(* A caller that answers every request sees each step() return, and the    *)
(* pass come to an end: Done, an error, or its own decision to give up.    *)
(***************************************************************************)
PassEnds == (pc = "call") ~> (pc \in {"Done", "Error", "finished"})

\* Over the whole file, with a sound decoder and no stop, that end is a complete
\* index: the drain at eof (NeedInput answered by signal_eof again) concludes.
WholeFileIndexed ==
  (stop_at = NoStop /\ file.len >= PackedLen /\ ~ Faulty)
    ~> (index.complete \/ pc = "finished")

(***************************************************************************)
(* The indexer keeps the promise of StreamCoverage: index.indexed_to is the*)
(* coverage, the checkpoints' unpacked offsets are the points.             *)
(***************************************************************************)
Points == {index.checkpoints[i].unpacked : i \in 1..Len(index.checkpoints)}

Coverage == INSTANCE StreamCoverage WITH
  Total <- UnpackedLen, covered <- index.indexed_to, points <- Points,
  given <- handed, complete <- index.complete

KeepsPromise == Coverage!Spec
=============================================================================

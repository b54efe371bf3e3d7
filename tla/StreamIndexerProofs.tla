------------------------ MODULE StreamIndexerProofs ------------------------
(***************************************************************************)
(* Proofs about StreamIndexer and its checkpoint strategies, for every     *)
(* stream, file, codec, strategy, stopping point and number of passes.     *)
(***************************************************************************)
EXTENDS StreamIndexer, DecoderProofs, StreamIndexProofs

-----------------------------------------------------------------------------
(***************************************************************************)
(* The inductive invariant: what the properties need to be known of an     *)
(* indexer between any two actions.                                        *)
(***************************************************************************)

\* A checkpoint is kept in a table for its offsets: they are a place the
\* decoder was really at.
Real(cp) == cp.at = <<cp.packed, cp.unpacked>> /\ Reachable(cp.at)

\* The table of any two checkpoints, not only of neighbours, is in order; it
\* begins at the start and ends where the decoder is or earlier.
TableInOrder(cps) ==
  /\ cps # <<>> /\ cps[1].at = <<0, 0>>
  /\ \A i \in 1..Len(cps) : Real(cps[i])
  /\ \A i, j \in 1..Len(cps) :
       i < j => cps[i].unpacked < cps[j].unpacked /\ cps[i].packed <= cps[j].packed

Tabled ==
  /\ TableInOrder(index.checkpoints)
  /\ LastCheckpoint(index.checkpoints).unpacked <= unpacked_pos
  /\ LastCheckpoint(index.checkpoints).packed <= compressed_pos
  /\ last_checkpoint_pos = LastCheckpoint(index.checkpoints).unpacked

Placed == PositionsExact /\ Reachable(decoder)

\* The caller's cursor is where the file has been read to, except before the
\* seek that a resumed pass begins with.
Fed ==
  /\ decoder[1] <= file.len /\ input.at + input.len <= file.len
  /\ InputLeft > 0 => input.at + input.pos = decoder[1]
  /\ state = "Seek" => pc = "call"
  /\ state = "Seek" \/ pc = "SeekAndRead" => seek_offset = decoder[1] /\ eof = FALSE
  /\ state # "Seek" /\ pc \notin {"SeekAndRead", "finished"} =>
       file.cursor = decoder[1] + InputLeft
  /\ eof => file.cursor >= file.len
  /\ state \in {"Seek", "NeedInput"} \/ pc \in {"SeekAndRead", "NeedInput"} =>
       InputLeft = 0

\* step() is between the decompress call and its settlement.
Deciding == pc \in Inside /\ call.notify

\* What is covered and not handed out waits in out_buf; it is empty while
\* decoding, and the chunk just decoded leaves no gap after what is covered.
Accounted ==
  /\ pc = "settle" => call.notify
  /\ pc \in Inside => state = "Processing" /\ call.before + call.produced = unpacked_pos
  /\ Deciding => out.read = out.len /\ call.before <= index.indexed_to
  /\ ~ emit_output => out.read = out.len
  /\ OutputPending => out.at + out.read = handed
  /\ emit_output => index.indexed_to = handed + (out.len - out.read)

\* What has been decoded is covered, but for the chunk being decided on and for
\* a chunk an error lost; the table reaches no further.  The strategy is only
\* asked about a chunk that reaches past what is covered.
Covered ==
  /\ ~ Deciding /\ pc \notin {"Error", "finished"} => unpacked_pos <= index.indexed_to
  /\ ~ (Deciding /\ pc # "lay") =>
       LastCheckpoint(index.checkpoints).unpacked <= index.indexed_to
  /\ pc = "lay" /\ call.notify => index.indexed_to < unpacked_pos
  /\ index.indexed_to <= UnpackedLen
  /\ file.len = 0 => index.indexed_to = 0

\* A call that reported the end left the decoder there; one without input was
\* made at the end of the file.
Reported ==
  Deciding => /\ call.ended => AtEnd(decoder)
              /\ ~ call.had_input => eof /\ InputLeft = 0

\* A checkpoint is at the decoder's place, or thinning left only the start.
CheckpointHere ==
  \/ LastCheckpoint(index.checkpoints).unpacked = unpacked_pos
  \/ Len(index.checkpoints) = 1

\* A pass is done at the end of the stream or at its stopping point, where it
\* has then laid a checkpoint if it could.
Concluded ==
  /\ state = "Done" => pc \in {"call", "OutputReady", "Done", "finished"}
  /\ pc = "Done" => state = "Done"
  /\ index.complete => state = "Done"
  /\ pc \in Inside /\ ~ call.notify => Stopped
  /\ pc = "thin" => CheckpointHere
  /\ state = "Done" /\ ~ index.complete =>
       Stopped /\ (CheckpointAnywhere => CheckpointHere)

Inv ==
  /\ TypeOK /\ Placed /\ Tabled /\ Fed /\ Accounted /\ Covered /\ Reported
  /\ Concluded /\ CompleteIsWhole

-----------------------------------------------------------------------------

\* The last checkpoint of a table.
LEMMA LastType ==
  ASSUME NEW cps \in Seq(Checkpoint), cps # <<>>
  PROVE  /\ LastCheckpoint(cps) \in Checkpoint
         /\ LastCheckpoint(cps).unpacked \in Nat /\ LastCheckpoint(cps).packed \in Nat
         /\ Len(cps) \in Nat \ {0}
<1>1. Len(cps) \in Nat /\ Len(cps) > 0
  BY EmptySeq
<1>2. LastCheckpoint(cps) \in Checkpoint
  BY <1>1 DEF LastCheckpoint
<1> QED
  BY <1>1, <1>2 DEF Checkpoint

\* The start checkpoint has a size a checkpoint may have.
LEMMA StartSizeType == StartSize \in Sizes /\ StartSize \in Nat
<1>1. PICK s \in Sizes : \A t \in Sizes : s <= t
  BY BoundsAssumption, LeastMember
<1> QED
  BY <1>1, BoundsAssumption DEF StartSize

\* An index that knows nothing but the start is in order.
LEMMA NewIndexInOrder ==
  ASSUME NEW declared \in Nat \cup {UnknownLen}, NEW known \in Nat
  PROVE  /\ NewIndex(StartSize, declared, known) \in StreamIndexType
         /\ TableInOrder(NewIndex(StartSize, declared, known).checkpoints)
         /\ LastCheckpoint(NewIndex(StartSize, declared, known).checkpoints)
              = StartCheckpoint(StartSize)
<1> DEFINE start == StartCheckpoint(StartSize)
           new == NewIndex(StartSize, declared, known)
<1>1. start \in Checkpoint /\ start.at = <<0, 0>> /\ start.packed = 0 /\ start.unpacked = 0
  BY StartSizeType DEF StartCheckpoint, Checkpoint
<1>2. new.checkpoints = <<start>> /\ Len(new.checkpoints) = 1 /\ new.checkpoints[1] = start
  BY DEF NewIndex
<1>3. new \in StreamIndexType
  <2>1. new.checkpoints \in Seq(Checkpoint)
    BY <1>1, <1>2
  <2> QED BY <2>1 DEF NewIndex, StreamIndexType
<1>4. Reachable(<<0, 0>>)
  BY StreamAssumption DEF Reachable, UnpackedLen
<1>5. Real(start)
  BY <1>1, <1>4 DEF Real
<1> HIDE DEF start
<1>6. TableInOrder(new.checkpoints)
  BY <1>1, <1>2, <1>5 DEF TableInOrder
<1> QED
  BY <1>2, <1>3, <1>6 DEF LastCheckpoint, start

(***************************************************************************)
(* A new indexer (with_parts) satisfies the invariant.                     *)
(***************************************************************************)
LEMMA InitInv == Init => Inv
<1> SUFFICES ASSUME Init PROVE Inv
  OBVIOUS
<1>1. PICK declared \in {UnknownLen, UnpackedLen}, known \in {0, file.len} :
         index = NewIndex(StartSize, declared, known)
  BY DEF Init
<1>2. file.len \in Nat /\ file.cursor = 0 /\ file \in [len : Nat, cursor : Nat]
  <2>1. PICK len \in FileLens : file = [len |-> len, cursor |-> 0]
    BY DEF Init
  <2> QED BY <2>1, BoundsAssumption
<1>3. UnpackedLen \in Nat
  BY StreamAssumption DEF UnpackedLen
<1>4. /\ index \in StreamIndexType
      /\ TableInOrder(index.checkpoints)
      /\ LastCheckpoint(index.checkpoints) = StartCheckpoint(StartSize)
      /\ index.complete = FALSE /\ index.indexed_to = 0
  <2>1. declared \in Nat \cup {UnknownLen} /\ known \in Nat
    BY <1>1, <1>2, <1>3
  <2> QED BY <1>1, <2>1, NewIndexInOrder DEF NewIndex
<1>5. TypeOK
  <2>1. call \in [before : Nat, produced : Nat, consumed : Nat, ended : BOOLEAN,
                  had_input : BOOLEAN, notify : BOOLEAN]
    BY DEF Init, NoCall
  <2>2. input \in [at : Nat, len : Nat, pos : Nat] /\ out \in [at : Nat, len : Nat, read : Nat]
    BY DEF Init
  <2>3. /\ state \in {"NeedInput", "Seek", "Processing", "Done"}
        /\ pc \in {"call", "finished"} \cup Inside \cup Requests
        /\ stop_at \in Stops \cup {NoStop} /\ emit_output \in BOOLEAN /\ eof \in BOOLEAN
    BY DEF Init
  <2>4. /\ input.pos <= input.len /\ out.read <= out.len
        /\ seek_offset = 0 /\ compressed_pos = 0 /\ unpacked_pos = 0
        /\ last_checkpoint_pos = 0 /\ handed = 0 /\ passes = 1
        /\ decoder \in Nat \X Nat
    BY DEF Init
  <2> QED BY <1>2, <1>4, <2>1, <2>2, <2>3, <2>4 DEF TypeOK
<1>6. Placed
  BY <1>3, StreamAssumption DEF Init, Placed, PositionsExact, Reachable
<1>7. Tabled
  BY <1>4 DEF Init, Tabled, StartCheckpoint
<1>8. Fed
  BY <1>2 DEF Init, Fed, InputLeft
<1>9. Accounted
  BY <1>4 DEF Init, Accounted, Inside, Deciding, OutputPending
<1>10. Covered
  BY <1>3, <1>4 DEF Init, Covered, Deciding, Inside, StartCheckpoint
<1>11. Reported
  BY DEF Init, Reported, Deciding, Inside
<1>12. Concluded /\ CompleteIsWhole
  BY <1>4 DEF Init, Concluded, Inside, CompleteIsWhole
<1> QED
  BY <1>5, <1>6, <1>7, <1>8, <1>9, <1>10, <1>11, <1>12 DEF Inv

-----------------------------------------------------------------------------
(***************************************************************************)
(* step(), as far as it answers without touching the stream or the table.  *)
(***************************************************************************)

\* What a step that only moves the state and pc leaves true.
LEMMA MovesPcOnly ==
  ASSUME Inv,
         state' \in {"NeedInput", "Seek", "Processing", "Done"},
         pc' \in {"call", "finished"} \cup Inside \cup Requests,
         UNCHANGED <<index, seek_offset, progress, ledger, settings,
                     input, eof, out, call, caller>>
  PROVE  /\ TypeOK' /\ Placed' /\ Tabled' /\ CompleteIsWhole'
         /\ (InputLeft' = InputLeft) /\ (OutputPending' <=> OutputPending)
         /\ (CheckpointHere' <=> CheckpointHere) /\ (Stopped' <=> Stopped)
<1> USE DEF progress, ledger, settings, caller
<1>1. TypeOK'
  BY DEF Inv, TypeOK
<1>2. Placed' /\ Tabled'
  BY DEF Inv, Placed, PositionsExact, Tabled
<1>3. CompleteIsWhole'
  BY DEF Inv, CompleteIsWhole
<1> QED
  BY <1>1, <1>2, <1>3 DEF InputLeft, OutputPending, CheckpointHere, Stopped

\* A finished pass answers Done: only the request changes.
LEMMA StepDoneInv == Inv /\ StepDone => Inv'
<1> SUFFICES ASSUME Inv, StepDone PROVE Inv'
  OBVIOUS
<1> USE DEF progress, ledger, settings, caller
<1>1. /\ TypeOK' /\ Placed' /\ Tabled' /\ CompleteIsWhole'
      /\ (InputLeft' = InputLeft) /\ (OutputPending' <=> OutputPending)
      /\ (CheckpointHere' <=> CheckpointHere) /\ (Stopped' <=> Stopped)
  BY MovesPcOnly DEF StepDone, Requests
<1>2. Fed'
  BY <1>1 DEF Inv, Fed, StepDone
<1>3. Accounted'
  BY <1>1 DEF Inv, Accounted, Deciding, Inside, StepDone
<1>4. Covered' /\ Reported'
  BY <1>1 DEF Inv, Covered, Reported, Deciding, Inside, StepDone
<1>5. Concluded'
  BY <1>1 DEF Inv, Concluded, Inside, StepDone
<1> QED
  BY <1>1, <1>2, <1>3, <1>4, <1>5 DEF Inv

\* Asking the caller to seek changes the state and the request only.
LEMMA StepSeekInv == Inv /\ StepSeek => Inv'
<1> SUFFICES ASSUME Inv, StepSeek PROVE Inv'
  OBVIOUS
<1> USE DEF progress, ledger, settings, caller
<1>1. /\ TypeOK' /\ Placed' /\ Tabled' /\ CompleteIsWhole'
      /\ (InputLeft' = InputLeft) /\ (OutputPending' <=> OutputPending)
      /\ (CheckpointHere' <=> CheckpointHere) /\ (Stopped' <=> Stopped)
  BY MovesPcOnly DEF StepSeek, Requests
<1>2. Fed'
  BY <1>1 DEF Inv, Fed, StepSeek
<1>3. Accounted'
  BY <1>1 DEF Inv, Accounted, Deciding, Inside, StepSeek
<1>4. Covered' /\ Reported'
  BY <1>1 DEF Inv, Covered, Reported, Deciding, Inside, StepSeek
<1>5. Concluded'
  BY <1>1 DEF Inv, Concluded, Inside, StepSeek
<1> QED
  BY <1>1, <1>2, <1>3, <1>4, <1>5 DEF Inv

\* Asking for input changes the state and the request only.
LEMMA StepNeedInputInv == Inv /\ StepNeedInput => Inv'
<1> SUFFICES ASSUME Inv, StepNeedInput PROVE Inv'
  OBVIOUS
<1> USE DEF progress, ledger, settings, caller
<1>1. /\ TypeOK' /\ Placed' /\ Tabled' /\ CompleteIsWhole'
      /\ (InputLeft' = InputLeft) /\ (OutputPending' <=> OutputPending)
      /\ (CheckpointHere' <=> CheckpointHere) /\ (Stopped' <=> Stopped)
  BY MovesPcOnly DEF StepNeedInput, Requests
<1>2. Fed'
  BY <1>1 DEF Inv, Fed, StepNeedInput, Processing
<1>3. Accounted'
  BY <1>1 DEF Inv, Accounted, Deciding, Inside, StepNeedInput, Processing
<1>4. Covered' /\ Reported'
  BY <1>1 DEF Inv, Covered, Reported, Deciding, Inside, StepNeedInput, Processing
<1>5. Concluded'
  BY <1>1 DEF Inv, Concluded, Inside, StepNeedInput, Processing
<1> QED
  BY <1>1, <1>2, <1>3, <1>4, <1>5 DEF Inv

\* Offering the output that is left changes the request only.
LEMMA StepOutputReadyInv == Inv /\ StepOutputReady => Inv'
<1> SUFFICES ASSUME Inv, StepOutputReady PROVE Inv'
  OBVIOUS
<1> USE DEF progress, ledger, settings, caller
<1>1. /\ TypeOK' /\ Placed' /\ Tabled' /\ CompleteIsWhole'
      /\ (InputLeft' = InputLeft) /\ (OutputPending' <=> OutputPending)
      /\ (CheckpointHere' <=> CheckpointHere) /\ (Stopped' <=> Stopped)
  BY MovesPcOnly DEF StepOutputReady, Requests
<1>2. Fed'
  BY <1>1 DEF Inv, Fed, StepOutputReady, Processing
<1>3. Accounted'
  BY <1>1 DEF Inv, Accounted, Deciding, Inside, StepOutputReady, Processing
<1>4. Covered' /\ Reported'
  BY <1>1 DEF Inv, Covered, Reported, Deciding, Inside, StepOutputReady, Processing
<1>5. Concluded'
  BY <1>1 DEF Inv, Concluded, Inside, StepOutputReady, Processing
<1> QED
  BY <1>1, <1>2, <1>3, <1>4, <1>5 DEF Inv

\* A refused input makes the request an error and leaves the table as it is.
LEMMA DecodeErrorInv == Inv /\ DecodeError => Inv'
<1> SUFFICES ASSUME Inv, DecodeError PROVE Inv'
  OBVIOUS
<1> USE DEF progress, ledger, settings, caller
<1>1. /\ TypeOK' /\ Placed' /\ Tabled' /\ CompleteIsWhole'
      /\ (InputLeft' = InputLeft) /\ (OutputPending' <=> OutputPending)
      /\ (CheckpointHere' <=> CheckpointHere) /\ (Stopped' <=> Stopped)
  BY MovesPcOnly DEF DecodeError, Requests
<1>2. Fed'
  BY <1>1 DEF Inv, Fed, DecodeError, Processing
<1>3. Accounted'
  BY <1>1 DEF Inv, Accounted, Deciding, Inside, DecodeError, Processing
<1>4. Covered' /\ Reported'
  BY <1>1 DEF Inv, Covered, Reported, Deciding, Inside, DecodeError, Processing
<1>5. Concluded'
  BY <1>1 DEF Inv, Concluded, Inside, DecodeError, Processing
<1> QED
  BY <1>1, <1>2, <1>3, <1>4, <1>5 DEF Inv

\* A checkpoint that cannot be exported is not laid.
LEMMA CheckpointErrorInv == Inv /\ CheckpointError => Inv'
<1> SUFFICES ASSUME Inv, CheckpointError PROVE Inv'
  OBVIOUS
<1> USE DEF progress, ledger, settings, caller
<1>1. /\ TypeOK' /\ Placed' /\ Tabled' /\ CompleteIsWhole'
      /\ (InputLeft' = InputLeft) /\ (OutputPending' <=> OutputPending)
      /\ (CheckpointHere' <=> CheckpointHere) /\ (Stopped' <=> Stopped)
  BY MovesPcOnly DEF CheckpointError, Requests, Inv, TypeOK
<1>2. Fed'
  BY <1>1 DEF Inv, Fed, CheckpointError
<1>3. Accounted'
  BY <1>1 DEF Inv, Accounted, Deciding, Inside, CheckpointError
<1>4. Covered' /\ Reported'
  BY <1>1 DEF Inv, Covered, Reported, Deciding, Inside, CheckpointError
<1>5. Concluded'
  BY <1>1 DEF Inv, Concluded, Inside, CheckpointError
<1> QED
  BY <1>1, <1>2, <1>3, <1>4, <1>5 DEF Inv

\* finish() hands the index over as it stands.
LEMMA FinishInv == Inv /\ Finish => Inv'
<1> SUFFICES ASSUME Inv, Finish PROVE Inv'
  OBVIOUS
<1> USE DEF progress, ledger, settings, caller
<1>1. /\ TypeOK' /\ Placed' /\ Tabled' /\ CompleteIsWhole'
      /\ (InputLeft' = InputLeft) /\ (OutputPending' <=> OutputPending)
      /\ (CheckpointHere' <=> CheckpointHere) /\ (Stopped' <=> Stopped)
  BY MovesPcOnly DEF Finish, Requests, Inv, TypeOK
<1>2. Fed'
  BY <1>1 DEF Inv, Fed, Finish, Requests
<1>3. Accounted'
  BY <1>1 DEF Inv, Accounted, Deciding, Inside, Finish, Requests
<1>4. Covered' /\ Reported'
  BY <1>1 DEF Inv, Covered, Reported, Deciding, Inside, Finish, Requests
<1>5. Concluded'
  BY <1>1 DEF Inv, Concluded, Inside, Finish, Requests
<1> QED
  BY <1>1, <1>2, <1>3, <1>4, <1>5 DEF Inv

-----------------------------------------------------------------------------
(***************************************************************************)
(* try_checkpoint.                                                         *)
(***************************************************************************)

\* What is so when try_checkpoint ends without or after a checkpoint.
LEMMA AfterCheckpointingInv ==
  ASSUME Inv, pc \in {"lay", "thin"}, AfterCheckpointing,
         UNCHANGED <<index, seek_offset, progress, ledger, settings,
                     input, eof, out, call, caller>>,
         ~ call.notify /\ CheckpointAnywhere => CheckpointHere
  PROVE  Inv'
<1> USE DEF progress, ledger, settings, caller
<1>1. \/ call.notify /\ pc' = "settle" /\ state' = state
      \/ ~ call.notify /\ state' = "Done" /\ pc' \in {"OutputReady", "Done"}
  BY DEF AfterCheckpointing, EndStep, Inv, Accounted
<1>2. /\ TypeOK' /\ Placed' /\ Tabled' /\ CompleteIsWhole'
      /\ (InputLeft' = InputLeft) /\ (OutputPending' <=> OutputPending)
      /\ (CheckpointHere' <=> CheckpointHere) /\ (Stopped' <=> Stopped)
  BY <1>1, MovesPcOnly DEF Inside, Requests, Inv, TypeOK
<1>3. Fed'
  BY <1>1, <1>2 DEF Inv, Fed
<1>4. Accounted'
  BY <1>1, <1>2 DEF Inv, Accounted, Deciding, Inside
<1>5. Covered' /\ Reported'
  BY <1>1, <1>2 DEF Inv, Covered, Reported, Deciding, Inside
<1>6. Concluded'
  BY <1>1, <1>2 DEF Inv, Concluded, Inside
<1> QED
  BY <1>2, <1>3, <1>4, <1>5, <1>6 DEF Inv

\* A position that asks for no checkpoint goes on to what follows decoding.
LEMMA NothingToLayInv == Inv /\ NothingToLay => Inv'
BY AfterCheckpointingInv DEF NothingToLay, AlreadyLaid, CheckpointHere

\* A table thin enough goes on to what follows decoding.
LEMMA ThinEndInv == Inv /\ ThinEnd => Inv'
BY AfterCheckpointingInv DEF ThinEnd, Inv, Concluded

\* A checkpoint laid where the decoder is keeps the table in order.
LEMMA AppendedInOrder ==
  ASSUME NEW cps \in Seq(Checkpoint), TableInOrder(cps),
         NEW cp \in Checkpoint, Real(cp),
         LastCheckpoint(cps).unpacked < cp.unpacked,
         LastCheckpoint(cps).packed <= cp.packed
  PROVE  /\ Append(cps, cp) \in Seq(Checkpoint)
         /\ TableInOrder(Append(cps, cp))
         /\ LastCheckpoint(Append(cps, cp)) = cp
         /\ Len(Append(cps, cp)) = Len(cps) + 1
         /\ \A i \in 1..Len(cps) : Append(cps, cp)[i] = cps[i]
<1> DEFINE n == Len(cps)
           new == Append(cps, cp)
<1>1. n \in Nat /\ n > 0 /\ \A i \in 1..n : cps[i] \in Checkpoint
  BY EmptySeq DEF TableInOrder
<1>2. /\ new \in Seq(Checkpoint) /\ Len(new) = n + 1
      /\ new[n + 1] = cp /\ \A i \in 1..n : new[i] = cps[i]
  OBVIOUS
<1>3. LastCheckpoint(cps) = cps[n] /\ LastCheckpoint(new) = cp
  BY <1>2 DEF LastCheckpoint
<1>4. \A i \in 1..n : cps[i].unpacked \in Nat /\ cps[i].packed \in Nat
  BY <1>1 DEF Checkpoint
<1>5. cp.unpacked \in Nat /\ cp.packed \in Nat
  BY DEF Checkpoint
<1>6. \A i \in 1..n : cps[i].unpacked < cp.unpacked /\ cps[i].packed <= cp.packed
  <2> TAKE i \in 1..n
  <2>1. CASE i = n
    BY <1>3, <2>1
  <2>2. CASE i < n
    <3>1. cps[i].unpacked < cps[n].unpacked /\ cps[i].packed <= cps[n].packed
      BY <1>1, <2>2 DEF TableInOrder
    <3> QED BY <1>1, <1>3, <1>4, <1>5, <3>1
  <2> QED BY <1>1, <2>1, <2>2
<1>7. new # <<>> /\ new[1].at = <<0, 0>>
  BY <1>1, <1>2 DEF TableInOrder
<1> HIDE DEF new
<1>8. \A i \in 1..(n + 1) : Real(new[i])
  <2> TAKE i \in 1..(n + 1)
  <2>1. CASE i \in 1..n
    BY <1>2, <2>1 DEF TableInOrder
  <2>2. CASE i = n + 1
    BY <1>2, <2>2
  <2> QED BY <1>1, <2>1, <2>2
<1>9. \A i, j \in 1..(n + 1) :
        i < j => new[i].unpacked < new[j].unpacked /\ new[i].packed <= new[j].packed
  <2> SUFFICES ASSUME NEW i \in 1..(n + 1), NEW j \in 1..(n + 1), i < j
               PROVE  new[i].unpacked < new[j].unpacked /\ new[i].packed <= new[j].packed
    OBVIOUS
  <2>1. i \in 1..n /\ new[i] = cps[i]
    BY <1>1, <1>2
  <2>2. CASE j \in 1..n
    BY <1>2, <2>1, <2>2 DEF TableInOrder
  <2>3. CASE j = n + 1
    BY <1>2, <1>6, <2>1, <2>3
  <2> QED BY <1>1, <2>2, <2>3
<1>10. TableInOrder(new)
  BY <1>2, <1>7, <1>8, <1>9 DEF TableInOrder
<1> QED
  BY <1>2, <1>3, <1>10 DEF new

\* thin() keeps the table in order and its ends in place, but for the newest
\* when it is the sole other one.
LEMMA ThinnedInOrder ==
  ASSUME NEW cps \in Seq(Checkpoint), TableInOrder(cps), Len(cps) > 1
  PROVE  LET new == Thinned(cps)
         IN  /\ new \in Seq(Checkpoint) /\ TableInOrder(new)
             /\ Len(new) \in 1..(Len(cps) - 1)
             /\ new[1] = cps[1]
             /\ \A j \in 1..Len(new) : \E i \in 1..Len(cps) : new[j] = cps[i]
             /\ Len(cps) # 2 => LastCheckpoint(new) = LastCheckpoint(cps)
             /\ Len(cps) = 2 => Len(new) = 1
             /\ LastCheckpoint(new).unpacked <= LastCheckpoint(cps).unpacked
             /\ LastCheckpoint(new).packed <= LastCheckpoint(cps).packed
<1> DEFINE n == Len(cps)
           L == ThinnedLen(n)
           new == Thinned(cps)
           Place(j) == KeptPlace(cps, j)
<1>1. n \in Nat /\ n > 1 /\ \A i \in 1..n : cps[i].unpacked \in Nat /\ cps[i].packed \in Nat
  <2>1. n \in Nat /\ n > 1 /\ \A i \in 1..n : cps[i] \in Checkpoint
    OBVIOUS
  <2> QED BY <2>1 DEF Checkpoint
<1>2. /\ new \in Seq(Checkpoint) /\ Len(new) = L /\ L \in 1..(n - 1)
      /\ \A j \in 1..L : Place(j) \in 1..n /\ new[j] = cps[Place(j)]
      /\ Place(1) = 1 /\ (n # 2 => Place(L) = n)
  BY ThinnedPlaces
<1>3. n = 2 => L = 1
  BY DEF ThinnedLen
<1>4. \A i, j \in 1..L : i < j => Place(i) < Place(j)
  <2>1. n # 2 => 2 * (L - 1) \in {n, n - 1}
    <3> HIDE DEF n
    <3> QED BY <1>1, ThinnedLenBounds
  <2> QED BY <1>1, <1>2, <2>1 DEF KeptPlace
<1> HIDE DEF n, L, new, Place
<1>5. new[1] = cps[1] /\ (n # 2 => new[L] = cps[n])
  BY <1>1, <1>2
<1>6. TableInOrder(new)
  <2>1. \A j \in 1..L : Real(new[j])
    BY <1>2 DEF TableInOrder, n
  <2>2. \A i, j \in 1..L :
          i < j => new[i].unpacked < new[j].unpacked /\ new[i].packed <= new[j].packed
    BY <1>2, <1>4 DEF TableInOrder, n
  <2>3. new # <<>> /\ new[1].at = <<0, 0>>
    BY <1>2, <1>5, EmptySeq DEF TableInOrder
  <2> QED BY <1>2, <2>1, <2>2, <2>3 DEF TableInOrder
<1>7. cps[1].unpacked <= cps[n].unpacked /\ cps[1].packed <= cps[n].packed
  BY <1>1 DEF TableInOrder, n
<1>8. new[L].unpacked <= cps[n].unpacked /\ new[L].packed <= cps[n].packed
  BY <1>1, <1>3, <1>5, <1>7
<1> QED
  BY <1>2, <1>3, <1>5, <1>6, <1>8 DEF LastCheckpoint, n, L, new

\* What laying a checkpoint does to the table: it is new, real and the last.
LEMMA LayTable ==
  ASSUME Inv, Lay
  PROVE  \E cp \in Checkpoint :
           /\ Real(cp) /\ cp.unpacked = unpacked_pos /\ cp.packed = compressed_pos
           /\ LastCheckpoint(index.checkpoints).unpacked < cp.unpacked
           /\ index' = [index EXCEPT !.checkpoints = Append(index.checkpoints, cp)]
           /\ TableInOrder(Append(index.checkpoints, cp))
           /\ LastCheckpoint(Append(index.checkpoints, cp)) = cp
           /\ Append(index.checkpoints, cp) \in Seq(Checkpoint)
           /\ Len(Append(index.checkpoints, cp)) = Len(index.checkpoints) + 1
           /\ \A i \in 1..Len(index.checkpoints) :
                Append(index.checkpoints, cp)[i] = index.checkpoints[i]
<1>1. PICK size \in Sizes :
         index' = [index EXCEPT !.checkpoints =
                     Append(index.checkpoints,
                            [packed |-> compressed_pos, unpacked |-> unpacked_pos,
                             size |-> size, at |-> decoder])]
  BY DEF Lay
<1> DEFINE cp == [packed |-> compressed_pos, unpacked |-> unpacked_pos,
                  size |-> size, at |-> decoder]
           cps == index.checkpoints
<1>2. cps \in Seq(Checkpoint) /\ TableInOrder(cps)
  BY DEF Inv, TypeOK, Tabled, StreamIndexType
<1>3. cp \in Checkpoint
  BY BoundsAssumption DEF Inv, TypeOK, Checkpoint
<1>4. Real(cp)
  BY DEF Inv, TypeOK, Placed, PositionsExact, Real
<1>5. LastCheckpoint(cps).unpacked \in Nat
  BY <1>2, LastType DEF TableInOrder
<1>6. LastCheckpoint(cps).unpacked < unpacked_pos /\ LastCheckpoint(cps).packed <= compressed_pos
  <2>1. LastCheckpoint(cps).unpacked # unpacked_pos
    BY DEF Inv, Tabled, Lay, AlreadyLaid
  <2>2. LastCheckpoint(cps).unpacked <= unpacked_pos /\ LastCheckpoint(cps).packed <= compressed_pos
    BY DEF Inv, Tabled
  <2>3. unpacked_pos \in Nat
    BY DEF Inv, TypeOK
  <2> QED BY <1>5, <2>1, <2>2, <2>3
<1>7. cp.unpacked = unpacked_pos /\ cp.packed = compressed_pos
  OBVIOUS
<1> HIDE DEF cp
<1>8. /\ Append(cps, cp) \in Seq(Checkpoint)
      /\ TableInOrder(Append(cps, cp))
      /\ LastCheckpoint(Append(cps, cp)) = cp
      /\ Len(Append(cps, cp)) = Len(cps) + 1
      /\ \A i \in 1..Len(cps) : Append(cps, cp)[i] = cps[i]
  BY <1>2, <1>3, <1>4, <1>6, <1>7, AppendedInOrder
<1>9. index' = [index EXCEPT !.checkpoints = Append(cps, cp)]
  BY <1>1 DEF cp
<1> QED
  BY <1>3, <1>4, <1>6, <1>7, <1>8, <1>9

\* A checkpoint is laid at the position decoded to, after the last one.
LEMMA LayInv == Inv /\ Lay => Inv'
<1> SUFFICES ASSUME Inv, Lay PROVE Inv'
  OBVIOUS
<1> USE DEF progress, settings, caller
<1>1. PICK cp \in Checkpoint :
        /\ Real(cp) /\ cp.unpacked = unpacked_pos /\ cp.packed = compressed_pos
        /\ LastCheckpoint(index.checkpoints).unpacked < cp.unpacked
        /\ index' = [index EXCEPT !.checkpoints = Append(index.checkpoints, cp)]
        /\ TableInOrder(Append(index.checkpoints, cp))
        /\ LastCheckpoint(Append(index.checkpoints, cp)) = cp
        /\ Append(index.checkpoints, cp) \in Seq(Checkpoint)
  BY LayTable
<1>2. /\ index'.checkpoints = Append(index.checkpoints, cp)
      /\ index'.indexed_to = index.indexed_to /\ index'.complete = index.complete
      /\ index'.unpacked_len = index.unpacked_len
      /\ index' \in StreamIndexType
  BY <1>1 DEF Inv, TypeOK, StreamIndexType
<1>3. pc = "lay" /\ pc' = "thin" /\ last_checkpoint_pos' = unpacked_pos
  BY DEF Lay
<1>4. TypeOK'
  BY <1>2, <1>3 DEF Inv, TypeOK, Inside, Lay
<1>5. Placed'
  BY DEF Inv, Placed, PositionsExact, Lay
<1>6. Tabled'
  <2>1. /\ LastCheckpoint(index'.checkpoints).unpacked = unpacked_pos
        /\ LastCheckpoint(index'.checkpoints).packed = compressed_pos
        /\ TableInOrder(index'.checkpoints)
    BY <1>1, <1>2
  <2>2. unpacked_pos' = unpacked_pos /\ compressed_pos' = compressed_pos
    BY DEF Lay
  <2>3. unpacked_pos \in Nat /\ compressed_pos \in Nat
    BY DEF Inv, TypeOK
  <2> QED BY <1>3, <2>1, <2>2, <2>3 DEF Tabled
<1>7. Fed'
  BY <1>3 DEF Inv, Fed, InputLeft, Lay
<1>8. Accounted'
  BY <1>2, <1>3 DEF Inv, Accounted, Deciding, Inside, OutputPending, Lay
<1>9. Covered'
  <2>1. LastCheckpoint(index'.checkpoints).unpacked = unpacked_pos
    BY <1>1, <1>2
  <2> QED BY <1>2, <1>3, <2>1 DEF Inv, Covered, Deciding, Inside, Lay
<1>10. Reported'
  BY <1>3 DEF Inv, Reported, Deciding, Inside, InputLeft, Lay
<1>11. Concluded'
  BY <1>1, <1>2, <1>3 DEF Inv, Accounted, Concluded, Inside, Stopped, CheckpointHere, Lay
<1>12. CompleteIsWhole'
  BY <1>2 DEF Inv, CompleteIsWhole, Lay
<1> QED
  BY <1>4, <1>5, <1>6, <1>7, <1>8, <1>9, <1>10, <1>11, <1>12 DEF Inv

\* Halving keeps the first checkpoint, the order and the data the table stands for.
LEMMA ThinInv == Inv /\ Thin => Inv'
<1> SUFFICES ASSUME Inv, Thin PROVE Inv'
  OBVIOUS
<1> USE DEF progress, settings, caller
<1> DEFINE cps == index.checkpoints
           new == Thinned(cps)
<1>1. cps \in Seq(Checkpoint) /\ TableInOrder(cps) /\ Len(cps) > 1
  BY DEF Inv, TypeOK, Tabled, StreamIndexType, Thin, CanThin
<1>2. /\ new \in Seq(Checkpoint) /\ TableInOrder(new)
      /\ Len(cps) # 2 => LastCheckpoint(new) = LastCheckpoint(cps)
      /\ Len(cps) = 2 => Len(new) = 1
      /\ LastCheckpoint(new).unpacked <= LastCheckpoint(cps).unpacked
      /\ LastCheckpoint(new).packed <= LastCheckpoint(cps).packed
  BY <1>1, ThinnedInOrder
<1>3. /\ index' = [index EXCEPT !.checkpoints = new]
      /\ last_checkpoint_pos' = LastCheckpoint(new).unpacked
      /\ pc = "thin" /\ pc' = pc
  BY DEF Thin
<1>4. /\ LastCheckpoint(cps) \in Checkpoint /\ LastCheckpoint(new) \in Checkpoint
      /\ LastCheckpoint(cps).unpacked \in Nat /\ LastCheckpoint(new).unpacked \in Nat
      /\ LastCheckpoint(cps).packed \in Nat /\ LastCheckpoint(new).packed \in Nat
  <2>1. cps # <<>> /\ new # <<>>
    BY <1>1, <1>2 DEF TableInOrder
  <2> HIDE DEF new, cps
  <2> QED BY <1>1, <1>2, <2>1, LastType
<1> HIDE DEF new
<1>5. /\ index'.checkpoints = new
      /\ index'.indexed_to = index.indexed_to /\ index'.complete = index.complete
      /\ index'.unpacked_len = index.unpacked_len
      /\ index' \in StreamIndexType
  BY <1>2, <1>3 DEF Inv, TypeOK, StreamIndexType
<1>6. TypeOK'
  BY <1>3, <1>4, <1>5 DEF Inv, TypeOK, Inside, Thin
<1>7. Placed'
  BY DEF Inv, Placed, PositionsExact, Thin
<1>8. Tabled'
  <2>1. unpacked_pos' = unpacked_pos /\ compressed_pos' = compressed_pos
    BY DEF Thin
  <2>2. unpacked_pos \in Nat /\ compressed_pos \in Nat
    BY DEF Inv, TypeOK
  <2>3. LastCheckpoint(new).unpacked <= unpacked_pos /\ LastCheckpoint(new).packed <= compressed_pos
    BY <1>2, <1>4, <2>2 DEF Inv, Tabled
  <2> QED BY <1>2, <1>3, <1>5, <2>1, <2>3 DEF Tabled
<1>9. Fed'
  BY <1>3 DEF Inv, Fed, InputLeft, Thin
<1>10. Accounted'
  BY <1>3, <1>5 DEF Inv, Accounted, Deciding, Inside, OutputPending, Thin
<1>11. Covered'
  <2>1. index.indexed_to \in Nat
    BY DEF Inv, TypeOK, StreamIndexType
  <2> QED BY <1>2, <1>3, <1>4, <1>5, <2>1 DEF Inv, Covered, Deciding, Inside, Thin
<1>12. Reported'
  BY <1>3 DEF Inv, Reported, Deciding, Inside, InputLeft, Thin
<1>13. Concluded'
  <2>1. CheckpointHere /\ Len(cps) \in Nat
    BY <1>1, <1>3 DEF Inv, Concluded
  <2>2. CheckpointHere'
    BY <1>1, <1>2, <1>5, <2>1 DEF CheckpointHere, Thin
  <2>3. state' = "Processing" /\ index'.complete = FALSE
    BY <1>3, <1>5 DEF Inv, Accounted, Concluded, Inside, Thin, TypeOK, StreamIndexType
  <2> QED BY <1>3, <2>2, <2>3 DEF Inv, Concluded, Inside, Stopped, Thin
<1>14. CompleteIsWhole'
  BY <1>5 DEF Inv, CompleteIsWhole, Thin
<1> QED
  BY <1>6, <1>7, <1>8, <1>9, <1>10, <1>11, <1>12, <1>13, <1>14 DEF Inv

-----------------------------------------------------------------------------
(***************************************************************************)
(* The decompress call.                                                    *)
(***************************************************************************)
LEMMA DecodeInv == Inv /\ Decode => Inv'
<1> SUFFICES ASSUME Inv, Decode PROVE Inv'
  OBVIOUS
<1> USE DEF settings, ledger, caller
<1>1. PICK result \in Outcomes(decoder, InputLeft, OutSize) :
        /\ input' = [input EXCEPT !.pos = @ + result.consumed]
        /\ compressed_pos' = compressed_pos + result.consumed
        /\ unpacked_pos' = unpacked_pos + result.produced
        /\ decoder' = After(decoder, <<result.consumed, result.produced>>)
        /\ call' = [before |-> unpacked_pos, produced |-> result.produced,
                    consumed |-> result.consumed, ended |-> result.ended,
                    had_input |-> InputLeft > 0, notify |-> TRUE]
  BY DEF Decode
<1>2. /\ pc = "call" /\ pc' \in {"lay", "settle"} /\ state' = "Processing"
      /\ state \in {"Processing", "NeedInput"} /\ (InputLeft > 0 \/ eof) /\ ~ OutputPending
      /\ UNCHANGED <<index, seek_offset, ledger, settings, eof, out, caller>>
  BY DEF Decode, Processing
<1>3. /\ input \in [at : Nat, len : Nat, pos : Nat] /\ input.pos <= input.len
      /\ InputLeft \in Nat /\ InputLeft = input.len - input.pos
      /\ decoder \in Nat \X Nat /\ file.len \in Nat /\ file.cursor \in Nat
      /\ compressed_pos \in Nat /\ unpacked_pos \in Nat
      /\ out.read \in Nat /\ out.len \in Nat /\ out.read <= out.len
      /\ index.indexed_to \in Nat
  BY SMTT(30) DEF Inv, TypeOK, InputLeft, StreamIndexType
<1> DEFINE c == result.consumed
           p == result.produced
<1>4. /\ c \in 0..InputLeft /\ p \in 0..OutSize /\ result.ended \in BOOLEAN
      /\ Reachable(After(decoder, <<c, p>>))
      /\ result.ended => AtEnd(After(decoder, <<c, p>>))
  BY <1>3, OutcomesBounded, BoundsAssumption DEF Inv, Placed
<1>5. decoder' = <<decoder[1] + c, decoder[2] + p>> /\ c \in Nat /\ p \in Nat
  BY <1>1, <1>3, <1>4, BoundsAssumption DEF After
<1>6. /\ input' \in [at : Nat, len : Nat, pos : Nat] /\ input'.at = input.at
      /\ input'.len = input.len /\ input'.pos = input.pos + c /\ input'.pos <= input'.len
      /\ InputLeft' = InputLeft - c /\ InputLeft' \in Nat
  <2>0. input' = [at |-> input.at, len |-> input.len, pos |-> input.pos + c]
    BY <1>1, <1>3
  <2> HIDE DEF c
  <2>1. /\ input' \in [at : Nat, len : Nat, pos : Nat] /\ input'.at = input.at
        /\ input'.len = input.len /\ input'.pos = input.pos + c
    BY <1>3, <1>5, <2>0
  <2> QED BY <1>3, <1>4, <1>5, <2>1 DEF InputLeft
<1>7. /\ call' \in [before : Nat, produced : Nat, consumed : Nat, ended : BOOLEAN,
                    had_input : BOOLEAN, notify : BOOLEAN]
      /\ call'.notify = TRUE /\ call'.before = unpacked_pos /\ call'.produced = p
      /\ call'.ended = result.ended /\ (call'.had_input <=> InputLeft > 0)
  <2>1. PICK h \in BOOLEAN : h = (InputLeft > 0)
    <3>1. (InputLeft > 0) \in BOOLEAN
      BY <1>3
    <3> QED BY <3>1
  <2>2. call' = [before |-> unpacked_pos, produced |-> p, consumed |-> c,
                 ended |-> result.ended, had_input |-> h, notify |-> TRUE]
    BY <1>1, <2>1
  <2> HIDE DEF c, p
  <2> QED BY <1>3, <1>4, <1>5, <2>1, <2>2
<1> HIDE DEF c, p
<1>8. TypeOK'
  <2>1. pc' \in {"call", "finished"} \cup Inside \cup Requests
    BY <1>2 DEF Inside
  <2>2. decoder' \in Nat \X Nat
    BY <1>3, <1>5
  <2>3. compressed_pos' \in Nat /\ unpacked_pos' \in Nat
    BY <1>1, <1>3, <1>5 DEF c, p
  <2> QED BY <1>2, <1>6, <1>7, <2>1, <2>2, <2>3 DEF Inv, TypeOK
<1>9. Placed'
  BY <1>1, <1>3, <1>4, <1>5 DEF Inv, Placed, PositionsExact, c, p
<1>10. /\ LastCheckpoint(index.checkpoints).unpacked \in Nat
       /\ LastCheckpoint(index.checkpoints).packed \in Nat
  BY LastType DEF Inv, TypeOK, StreamIndexType, Tabled, TableInOrder
<1>11. Tabled'
  BY <1>1, <1>2, <1>3, <1>5, <1>10 DEF Inv, Tabled, c, p
<1>12. Fed'
  <2>1. InputLeft > 0 => input.at + input.pos = decoder[1]
    BY DEF Inv, Fed
  <2>2. decoder'[1] = decoder[1] + c
    BY <1>5
  <2>3. decoder'[1] <= file.len
    BY <1>3, <1>4, <1>5, <2>1, <2>2 DEF Inv, Fed
  <2>4. InputLeft' > 0 => input'.at + input'.pos = decoder'[1]
    BY <1>3, <1>4, <1>5, <1>6, <2>1, <2>2
  <2>5. file.cursor = decoder'[1] + InputLeft'
    BY <1>2, <1>3, <1>5, <1>6, <2>2 DEF Inv, Fed
  <2> QED BY <1>2, <1>6, <2>3, <2>4, <2>5 DEF Inv, Fed
<1>13. Accounted'
  BY <1>1, <1>2, <1>3, <1>7 DEF Inv, Accounted, Deciding, Inside, OutputPending, Covered, c, p
<1>14. Covered'
  <2>1. pc' = "lay" => index.indexed_to < unpacked_pos'
    BY <1>3 DEF Decode
  <2> QED BY <1>2, <1>3, <1>7, <1>10, <2>1 DEF Inv, Covered, Tabled, Deciding, Inside
<1>15. Reported'
  BY <1>1, <1>2, <1>3, <1>4, <1>5, <1>6, <1>7 DEF Reported, Deciding, c, p
<1>16. Concluded'
  BY <1>2, <1>7 DEF Inv, Concluded, Inside
<1>17. CompleteIsWhole'
  BY <1>2 DEF Inv, CompleteIsWhole
<1> QED
  BY <1>8, <1>9, <1>11, <1>12, <1>13, <1>14, <1>15, <1>16, <1>17 DEF Inv

-----------------------------------------------------------------------------
(***************************************************************************)
(* The rest of step_once.                                                  *)
(***************************************************************************)

\* What is handed out and covered after the decompress call: all that was
\* decoded, and nothing that an earlier pass covered is handed out again.
LEMMA Settled ==
  ASSUME Inv, pc = "settle"
  PROVE  /\ SettledOut \in [at : Nat, len : Nat, read : Nat]
         /\ SettledOut.read <= SettledOut.len
         /\ SettledIndexedTo \in Nat /\ SettledIndexedTo <= UnpackedLen
         /\ unpacked_pos <= SettledIndexedTo /\ index.indexed_to <= SettledIndexedTo
         /\ file.len = 0 => SettledIndexedTo = 0
         /\ emit_output => SettledIndexedTo = handed + (SettledOut.len - SettledOut.read)
         /\ ~ emit_output => SettledOut.read = SettledOut.len
         /\ SettledOut.read < SettledOut.len => SettledOut.at + SettledOut.read = handed
         /\ SettledIndexedTo \in {index.indexed_to, unpacked_pos}
<1>1. /\ call.notify /\ call.before + call.produced = unpacked_pos
      /\ out.read = out.len /\ call.before <= index.indexed_to
      /\ emit_output => index.indexed_to = handed + (out.len - out.read)
      /\ index.indexed_to <= UnpackedLen
      /\ file.len = 0 => index.indexed_to = 0
  BY DEF Inv, Accounted, Covered, Deciding, Inside
<1>2. /\ out \in [at : Nat, len : Nat, read : Nat] /\ handed \in Nat
      /\ call.before \in Nat /\ call.produced \in Nat
      /\ index.indexed_to \in Nat /\ unpacked_pos \in Nat
      /\ decoder \in Nat \X Nat /\ file.len \in Nat
  BY DEF Inv, TypeOK, StreamIndexType
<1>3. UnpackedLen \in Nat
  BY StreamAssumption DEF UnpackedLen
<1>4. unpacked_pos <= UnpackedLen /\ (file.len = 0 => unpacked_pos = 0)
  <2>1. /\ unpacked_pos = decoder[2] /\ decoder[1] <= file.len
        /\ decoder[1] \in Nat /\ decoder[2] \in 0..UnpackedLen
        /\ decoder[2] <= Unpacked[decoder[1]]
    BY <1>2 DEF Inv, Placed, PositionsExact, Reachable, Fed
  <2>2. file.len = 0 => decoder[1] = 0
    BY <1>2, <2>1
  <2> QED BY <1>2, <1>3, <2>1, <2>2, StreamAssumption
<1>5. CASE ~ Fresh
  <2>1. SettledOut = out /\ SettledIndexedTo = index.indexed_to
    BY <1>5 DEF SettledOut, SettledIndexedTo
  <2> QED BY <1>1, <1>2, <1>5, <2>1 DEF Fresh
<1>6. CASE Fresh
  <2>1. SettledIndexedTo = unpacked_pos /\ index.indexed_to < unpacked_pos
    BY <1>2, <1>6 DEF SettledIndexedTo, Fresh
  <2>2. call.produced > 0
    BY <1>1, <1>2, <2>1
  <2>3. CASE ~ emit_output
    <3>1. SettledOut = out
      BY <2>3 DEF SettledOut
    <3> QED BY <1>1, <1>2, <1>4, <2>1, <2>3, <3>1
  <2>4. CASE emit_output
    <3>1. SettledOut = [at |-> call.before, len |-> call.produced,
                        read |-> index.indexed_to - call.before]
      <4>1. (IF index.indexed_to > call.before THEN index.indexed_to - call.before ELSE 0)
              = index.indexed_to - call.before
        BY <1>1, <1>2
      <4> QED BY <1>6, <2>2, <2>4, <4>1 DEF SettledOut
    <3>2. /\ SettledOut.at = call.before /\ SettledOut.len = call.produced
          /\ SettledOut.read = index.indexed_to - call.before
          /\ index.indexed_to - call.before \in Nat
      BY <1>1, <1>2, <3>1
    <3>3. SettledOut \in [at : Nat, len : Nat, read : Nat]
      BY <1>2, <3>1, <3>2
    <3> QED BY <1>1, <1>2, <1>4, <2>1, <2>4, <3>2, <3>3
  <2> QED BY <2>3, <2>4
<1> QED
  BY <1>5, <1>6

\* What settling leaves true of everything it does not decide.
LEMMA SettledParts ==
  ASSUME Inv, pc = "settle",
         out' = SettledOut,
         index' \in StreamIndexType,
         index'.indexed_to = SettledIndexedTo,
         index'.checkpoints = index.checkpoints,
         state' \in {"NeedInput", "Processing", "Done"},
         pc' \in {"call", "lay"} \cup Requests,
         call'.notify => call' = call,
         call' \in [before : Nat, produced : Nat, consumed : Nat, ended : BOOLEAN,
                    had_input : BOOLEAN, notify : BOOLEAN],
         UNCHANGED <<seek_offset, progress, ledger, settings, input, eof, caller>>
  PROVE  /\ TypeOK' /\ Placed' /\ Tabled' /\ InputLeft' = InputLeft
         /\ OutputPending' <=> SettledOut.read < SettledOut.len
         /\ LastCheckpoint(index.checkpoints).unpacked <= index'.indexed_to
<1> USE DEF progress, ledger, settings, caller
<1>1. /\ SettledOut \in [at : Nat, len : Nat, read : Nat]
      /\ SettledOut.read <= SettledOut.len
      /\ SettledIndexedTo \in Nat /\ unpacked_pos <= SettledIndexedTo
  BY Settled
<1>2. TypeOK'
  <2>1. pc' \in {"call", "finished"} \cup Inside \cup Requests
    BY DEF Inside
  <2> QED BY <1>1, <2>1 DEF Inv, TypeOK
<1>3. Placed' /\ Tabled'
  BY DEF Inv, Placed, PositionsExact, Tabled
<1>4. LastCheckpoint(index.checkpoints).unpacked \in Nat /\ unpacked_pos \in Nat
  BY LastType DEF Inv, TypeOK, StreamIndexType, Tabled, TableInOrder
<1>5. LastCheckpoint(index.checkpoints).unpacked <= SettledIndexedTo
  BY <1>1, <1>4 DEF Inv, Tabled
<1> QED
  BY <1>2, <1>3, <1>5 DEF InputLeft, OutputPending

\* A stop moves indexed_to on before it asks for its checkpoint.
LEMMA SettleStoppedInv == Inv /\ SettleStopped => Inv'
<1> SUFFICES ASSUME Inv, SettleStopped PROVE Inv'
  OBVIOUS
<1> USE DEF progress, ledger, settings, caller
<1>1. /\ pc = "settle" /\ pc' = "lay" /\ out' = SettledOut /\ Stopped
      /\ index' = [index EXCEPT !.indexed_to = SettledIndexedTo]
      /\ call' = [call EXCEPT !.notify = FALSE]
      /\ UNCHANGED <<state, seek_offset, progress, ledger, settings, input, eof, caller>>
  BY DEF SettleStopped
<1>2. /\ SettledOut \in [at : Nat, len : Nat, read : Nat]
      /\ SettledOut.read <= SettledOut.len
      /\ SettledIndexedTo \in Nat /\ SettledIndexedTo <= UnpackedLen
      /\ unpacked_pos <= SettledIndexedTo /\ index.indexed_to <= SettledIndexedTo
      /\ file.len = 0 => SettledIndexedTo = 0
      /\ emit_output => SettledIndexedTo = handed + (SettledOut.len - SettledOut.read)
      /\ ~ emit_output => SettledOut.read = SettledOut.len
      /\ SettledOut.read < SettledOut.len => SettledOut.at + SettledOut.read = handed
  BY <1>1, Settled
<1>3. /\ index' \in StreamIndexType /\ index'.indexed_to = SettledIndexedTo
      /\ index'.checkpoints = index.checkpoints /\ index'.complete = index.complete
  BY <1>1, <1>2 DEF Inv, TypeOK, StreamIndexType
<1>4. /\ call' \in [before : Nat, produced : Nat, consumed : Nat, ended : BOOLEAN,
                    had_input : BOOLEAN, notify : BOOLEAN]
      /\ call'.notify = FALSE /\ call'.before = call.before /\ call'.produced = call.produced
  BY <1>1 DEF Inv, TypeOK
<1>5. state' = "Processing" /\ index.complete = FALSE
  BY <1>1 DEF Inv, Accounted, Concluded, Inside, TypeOK, StreamIndexType
<1>6. /\ TypeOK' /\ Placed' /\ Tabled' /\ InputLeft' = InputLeft
      /\ OutputPending' <=> SettledOut.read < SettledOut.len
      /\ LastCheckpoint(index.checkpoints).unpacked <= index'.indexed_to
  BY <1>1, <1>3, <1>4, <1>5, SettledParts
<1>7. Fed'
  BY <1>1, <1>5, <1>6 DEF Inv, Fed
<1>8. Accounted'
  BY <1>1, <1>2, <1>3, <1>4, <1>5, <1>6 DEF Inv, Accounted, Deciding, Inside
<1>9. Covered' /\ Reported'
  BY <1>1, <1>2, <1>3, <1>4, <1>6 DEF Covered, Reported, Deciding
<1>10. Concluded' /\ CompleteIsWhole'
  BY <1>1, <1>3, <1>4, <1>5 DEF Concluded, CompleteIsWhole, Stopped
<1> QED
  BY <1>6, <1>7, <1>8, <1>9, <1>10 DEF Inv

\* The end of the stream completes the index: its length is what was decoded.
LEMMA SettleEndedInv == Inv /\ SettleEnded => Inv'
<1> SUFFICES ASSUME Inv, SettleEnded PROVE Inv'
  OBVIOUS
<1> USE DEF progress, ledger, settings, caller
<1>1. /\ pc = "settle" /\ pc' \in {"OutputReady", "Done"} /\ state' = "Done"
      /\ out' = SettledOut /\ Ended /\ ~ Truncated
      /\ index' = [index EXCEPT !.indexed_to = SettledIndexedTo,
                                !.complete = TRUE,
                                !.unpacked_len = unpacked_pos]
      /\ UNCHANGED <<call, seek_offset, progress, ledger, settings, input, eof, caller>>
  BY DEF SettleEnded
<1>2. /\ SettledOut \in [at : Nat, len : Nat, read : Nat]
      /\ SettledOut.read <= SettledOut.len
      /\ SettledIndexedTo \in Nat /\ SettledIndexedTo <= UnpackedLen
      /\ unpacked_pos <= SettledIndexedTo /\ index.indexed_to <= SettledIndexedTo
      /\ file.len = 0 => SettledIndexedTo = 0
      /\ emit_output => SettledIndexedTo = handed + (SettledOut.len - SettledOut.read)
      /\ ~ emit_output => SettledOut.read = SettledOut.len
      /\ SettledOut.read < SettledOut.len => SettledOut.at + SettledOut.read = handed
  BY <1>1, Settled
<1>3. unpacked_pos \in Nat
  BY DEF Inv, TypeOK
<1>4. /\ index' \in StreamIndexType /\ index'.indexed_to = SettledIndexedTo
      /\ index'.checkpoints = index.checkpoints /\ index'.complete = TRUE
      /\ index'.unpacked_len = unpacked_pos
  BY <1>1, <1>2, <1>3 DEF Inv, TypeOK, StreamIndexType
<1>5. /\ TypeOK' /\ Placed' /\ Tabled' /\ InputLeft' = InputLeft
      /\ OutputPending' <=> SettledOut.read < SettledOut.len
      /\ LastCheckpoint(index.checkpoints).unpacked <= index'.indexed_to
  <2>1. pc' \in {"call", "lay"} \cup Requests /\ call' = call
    BY <1>1 DEF Requests
  <2>2. call \in [before : Nat, produced : Nat, consumed : Nat, ended : BOOLEAN,
                  had_input : BOOLEAN, notify : BOOLEAN]
    BY DEF Inv, TypeOK
  <2> QED BY <1>1, <1>4, <2>1, <2>2, SettledParts
<1>6. state = "Processing"
  BY <1>1 DEF Inv, Accounted, Inside
<1>7. Fed'
  BY <1>1, <1>5, <1>6 DEF Inv, Fed
<1>8. Accounted'
  BY <1>1, <1>2, <1>4, <1>5 DEF Inv, Accounted, Deciding, Inside
<1>9. Covered' /\ Reported'
  BY <1>1, <1>2, <1>4, <1>5 DEF Covered, Reported, Deciding, Inside
<1>10. Concluded'
  BY <1>1, <1>4 DEF Concluded, Inside
<1>11. CompleteIsWhole'
  <2>1. /\ call.notify /\ (call.ended => AtEnd(decoder))
        /\ ~ call.had_input => eof /\ InputLeft = 0
    BY <1>1 DEF Inv, Accounted, Reported, Deciding, Inside
  <2>2. /\ unpacked_pos = decoder[2] /\ compressed_pos = decoder[1]
        /\ decoder \in Nat \X Nat /\ compressed_pos \in Nat
        /\ file.len \in Nat /\ file.cursor \in Nat
        /\ decoder[1] <= file.len
        /\ eof => file.cursor >= file.len
        /\ file.cursor = decoder[1] + InputLeft
    BY <1>1, <1>6 DEF Inv, TypeOK, Placed, PositionsExact, Fed
  <2>3. CASE call.ended
    <3>1. decoder[1] = PackedLen /\ decoder[2] = UnpackedLen
      BY <2>1, <2>3 DEF AtEnd
    <3>2. SettledIndexedTo = UnpackedLen
      BY <1>2, <1>3, <2>2, <3>1
    <3> QED BY <1>1, <1>4, <2>2, <3>1, <3>2 DEF CompleteIsWhole
  <2>4. CASE ~ call.ended
    <3>1. ~ call.had_input /\ compressed_pos = 0
      BY <1>1, <2>2, <2>4 DEF Ended, Truncated, IdleAtEof
    <3>2. file.len = 0
      BY <2>1, <2>2, <3>1
    <3>3. SettledIndexedTo = 0 /\ unpacked_pos = 0
      BY <1>2, <1>3, <3>2
    <3> QED BY <1>1, <1>4, <3>2, <3>3 DEF CompleteIsWhole
  <2> QED BY <2>3, <2>4
<1> QED
  BY <1>5, <1>7, <1>8, <1>9, <1>10, <1>11 DEF Inv

\* Decoding that goes on keeps the output for the caller.
LEMMA SettleOnInv == Inv /\ SettleOn => Inv'
<1> SUFFICES ASSUME Inv, SettleOn PROVE Inv'
  OBVIOUS
<1> USE DEF progress, ledger, settings, caller
<1> DEFINE more    == SettledOut.read < SettledOut.len
           starved == ~ Truncated /\ ~ more /\ InputLeft = 0
<1>1. /\ pc = "settle" /\ out' = SettledOut
      /\ index' = [index EXCEPT !.indexed_to = SettledIndexedTo]
      /\ UNCHANGED <<call, seek_offset, progress, ledger, settings, input, eof, caller>>
  BY DEF SettleOn
<1>2. state = "Processing"
  BY <1>1 DEF Inv, Accounted, Inside
<1>3. /\ pc' \in {"call", "OutputReady", "NeedInput", "Error"}
      /\ state' \in {"Processing", "NeedInput"}
      /\ pc' = "NeedInput" \/ state' = "NeedInput" => InputLeft = 0
  <2>1. /\ pc' = CASE Truncated -> "Error"
                   [] more      -> "OutputReady"
                   [] starved   -> "NeedInput"
                   [] ~ Truncated /\ ~ more /\ ~ starved ->
                        IF call.consumed = 0 /\ call.produced = 0 THEN "Error" ELSE "call"
        /\ state' = IF starved /\ ~ eof THEN "NeedInput" ELSE state
    BY <1>1 DEF SettleOn
  <2>2. CASE Truncated
    BY <1>2, <2>1, <2>2
  <2>3. CASE ~ Truncated /\ more
    BY <1>2, <2>1, <2>3
  <2>4. CASE ~ Truncated /\ ~ more
    <3> HIDE DEF more
    <3> QED BY <1>2, <2>1, <2>4
  <2> QED BY <2>2, <2>3, <2>4
<1>4. /\ SettledOut \in [at : Nat, len : Nat, read : Nat]
      /\ SettledOut.read <= SettledOut.len
      /\ SettledIndexedTo \in Nat /\ SettledIndexedTo <= UnpackedLen
      /\ unpacked_pos <= SettledIndexedTo /\ index.indexed_to <= SettledIndexedTo
      /\ file.len = 0 => SettledIndexedTo = 0
      /\ emit_output => SettledIndexedTo = handed + (SettledOut.len - SettledOut.read)
      /\ ~ emit_output => SettledOut.read = SettledOut.len
      /\ SettledOut.read < SettledOut.len => SettledOut.at + SettledOut.read = handed
  BY <1>1, Settled
<1>5. /\ index' \in StreamIndexType /\ index'.indexed_to = SettledIndexedTo
      /\ index'.checkpoints = index.checkpoints /\ index'.complete = index.complete
  BY <1>1, <1>4 DEF Inv, TypeOK, StreamIndexType
<1>6. index.complete = FALSE
  BY <1>2 DEF Inv, Concluded, TypeOK, StreamIndexType
<1>7. /\ TypeOK' /\ Placed' /\ Tabled' /\ InputLeft' = InputLeft
      /\ OutputPending' <=> SettledOut.read < SettledOut.len
      /\ LastCheckpoint(index.checkpoints).unpacked <= index'.indexed_to
  <2>1. pc' \in {"call", "lay"} \cup Requests /\ call' = call
        /\ state' \in {"NeedInput", "Processing", "Done"}
    BY <1>1, <1>3 DEF Requests
  <2>2. call \in [before : Nat, produced : Nat, consumed : Nat, ended : BOOLEAN,
                  had_input : BOOLEAN, notify : BOOLEAN]
    BY DEF Inv, TypeOK
  <2> QED BY <1>1, <1>5, <2>1, <2>2, SettledParts
<1>8. Fed'
  BY <1>1, <1>2, <1>3, <1>7 DEF Inv, Fed
<1>9. Accounted'
  BY <1>1, <1>3, <1>4, <1>5, <1>7 DEF Inv, Accounted, Deciding, Inside
<1>10. Covered' /\ Reported'
  BY <1>1, <1>3, <1>4, <1>5, <1>7 DEF Covered, Reported, Deciding, Inside
<1>11. Concluded' /\ CompleteIsWhole'
  BY <1>1, <1>3, <1>5, <1>6 DEF Concluded, CompleteIsWhole, Inside
<1> QED
  BY <1>7, <1>8, <1>9, <1>10, <1>11 DEF Inv

-----------------------------------------------------------------------------
(***************************************************************************)
(* The caller.                                                             *)
(***************************************************************************)

\* A read of the file from where the decoder is feeds it the next bytes, or
\* finds the file's end.
LEMMA ReadInOrder ==
  ASSUME Inv, NEW offset \in Nat, offset = decoder[1], InputLeft = 0,
         eof => offset >= file.len,
         ReadFrom(offset), UNCHANGED decoder
  PROVE  /\ input' \in [at : Nat, len : Nat, pos : Nat] /\ input'.pos <= input'.len
         /\ eof' \in BOOLEAN
         /\ file' \in [len : Nat, cursor : Nat] /\ file'.len = file.len
         /\ input'.at + input'.len <= file'.len
         /\ InputLeft' > 0 => input'.at + input'.pos = decoder[1]
         /\ file'.cursor = decoder[1] + InputLeft'
         /\ eof' => file'.cursor >= file'.len
<1>1. /\ input \in [at : Nat, len : Nat, pos : Nat] /\ input.pos <= input.len
      /\ file \in [len : Nat, cursor : Nat] /\ file.len \in Nat /\ eof \in BOOLEAN
      /\ input.at + input.len <= file.len
  BY DEF Inv, TypeOK, Fed
<1>2. CASE offset >= file.len
  <2>1. eof' = TRUE /\ file' = [file EXCEPT !.cursor = offset] /\ input' = input
    BY <1>2 DEF ReadFrom
  <2>2. InputLeft' = 0
    BY <2>1 DEF InputLeft
  <2>3. file' \in [len : Nat, cursor : Nat] /\ file'.len = file.len /\ file'.cursor = offset
    BY <1>1, <2>1
  <2> QED BY <1>1, <1>2, <2>1, <2>2, <2>3
<1>3. CASE ~ (offset >= file.len)
  <2>1. PICK n \in 1..Smaller(MaxRead, file.len - offset) :
          /\ input' = [at |-> offset, len |-> n, pos |-> 0]
          /\ file' = [file EXCEPT !.cursor = offset + n]
          /\ eof' = eof
    BY <1>3 DEF ReadFrom
  <2>2. n \in Nat /\ n > 0 /\ offset + n <= file.len
    BY <1>1, <1>3, <2>1, BoundsAssumption DEF Smaller
  <2>3. /\ file' \in [len : Nat, cursor : Nat] /\ file'.len = file.len
        /\ file'.cursor = offset + n
    BY <1>1, <2>1, <2>2
  <2>4. /\ input' \in [at : Nat, len : Nat, pos : Nat] /\ input'.at = offset
        /\ input'.len = n /\ input'.pos = 0 /\ InputLeft' = n
    BY <2>1, <2>2 DEF InputLeft
  <2> QED BY <1>1, <1>3, <2>1, <2>2, <2>3, <2>4
<1> QED
  BY <1>2, <1>3

\* The input given starts where the decoder stands.
LEMMA ProvideInv == Inv /\ Provide => Inv'
<1> SUFFICES ASSUME Inv, Provide PROVE Inv'
  OBVIOUS
<1> USE DEF progress, ledger, settings
<1>1. /\ pc \in {"NeedInput", "SeekAndRead"} /\ pc' = "call" /\ state' = "Processing"
      /\ UNCHANGED <<index, strategy, seek_offset, progress, ledger, settings,
                     out, call, handed, passes>>
  BY DEF Provide
<1>2. /\ InputLeft = 0 /\ state # "Seek" /\ state # "Done"
      /\ file.cursor \in Nat /\ seek_offset \in Nat /\ decoder \in Nat \X Nat
  BY <1>1 DEF Inv, TypeOK, Fed, Concluded
<1>3. PICK offset \in Nat : /\ offset = decoder[1] /\ ReadFrom(offset)
                            /\ eof => offset >= file.len
  <2>1. CASE pc = "NeedInput"
    <3>1. ReadFrom(file.cursor)
      BY <2>1 DEF Provide
    <3>2. file.cursor = decoder[1] /\ (eof => file.cursor >= file.len)
      BY <1>2, <2>1 DEF Inv, Fed
    <3> QED BY <1>2, <3>1, <3>2
  <2>2. CASE pc = "SeekAndRead"
    <3>1. ReadFrom(seek_offset)
      BY <2>2 DEF Provide
    <3>2. seek_offset = decoder[1] /\ ~ eof
      BY <2>2 DEF Inv, Fed
    <3> QED BY <1>2, <3>1, <3>2
  <2> QED BY <1>1, <2>1, <2>2
<1>4. /\ input' \in [at : Nat, len : Nat, pos : Nat] /\ input'.pos <= input'.len
      /\ eof' \in BOOLEAN
      /\ file' \in [len : Nat, cursor : Nat] /\ file'.len = file.len
      /\ input'.at + input'.len <= file'.len
      /\ InputLeft' > 0 => input'.at + input'.pos = decoder[1]
      /\ file'.cursor = decoder[1] + InputLeft'
      /\ eof' => file'.cursor >= file'.len
  BY <1>1, <1>2, <1>3, ReadInOrder
<1>5. index.complete = FALSE
  BY <1>2 DEF Inv, Concluded, TypeOK, StreamIndexType
<1>6. TypeOK'
  BY <1>1, <1>4 DEF Inv, TypeOK
<1>7. Placed' /\ Tabled'
  BY <1>1 DEF Inv, Placed, PositionsExact, Tabled
<1>8. Fed'
  BY <1>1, <1>4 DEF Inv, Fed
<1>9. Accounted'
  BY <1>1 DEF Inv, Accounted, Deciding, Inside, OutputPending
<1>10. Covered' /\ Reported'
  BY <1>1, <1>4 DEF Inv, Covered, Reported, Deciding, Inside
<1>11. Concluded' /\ CompleteIsWhole'
  BY <1>1, <1>5 DEF Concluded, CompleteIsWhole, Inside
<1> QED
  BY <1>6, <1>7, <1>8, <1>9, <1>10, <1>11 DEF Inv

\* Output is handed on in order and once.
LEMMA ReadOutputInv == Inv /\ ReadOutput => Inv'
<1> SUFFICES ASSUME Inv, ReadOutput PROVE Inv'
  OBVIOUS
<1> USE DEF progress, ledger, settings
<1>1. PICK n \in 1..(out.len - out.read) :
        /\ handed' = out.at + out.read + n
        /\ out' = IF out.read + n >= out.len
                    THEN [out EXCEPT !.len = 0, !.read = 0]
                    ELSE [out EXCEPT !.read = @ + n]
  BY DEF ReadOutput
<1>2. /\ pc = "OutputReady" /\ pc' = "call"
      /\ UNCHANGED <<index, strategy, state, seek_offset, progress, ledger, settings,
                     input, eof, call, file, passes>>
  BY DEF ReadOutput
<1>3. /\ out \in [at : Nat, len : Nat, read : Nat] /\ handed \in Nat
      /\ n \in Nat /\ n > 0 /\ out.read + n <= out.len /\ out.read < out.len
      /\ index.indexed_to \in Nat /\ emit_output \in BOOLEAN
  <2>1. /\ out \in [at : Nat, len : Nat, read : Nat] /\ handed \in Nat
        /\ index.indexed_to \in Nat /\ emit_output \in BOOLEAN
    BY DEF Inv, TypeOK, StreamIndexType
  <2>2. out.read \in Nat /\ out.len \in Nat
    BY <2>1
  <2>3. n \in Nat /\ n > 0 /\ out.read + n <= out.len /\ out.read < out.len
    BY <1>1, <2>2
  <2> QED BY <2>1, <2>3
<1>4. emit_output /\ out.at + out.read = handed
      /\ index.indexed_to = handed + (out.len - out.read)
  BY <1>3 DEF Inv, Accounted, OutputPending
<1>5. /\ out' \in [at : Nat, len : Nat, read : Nat] /\ out'.read <= out'.len
      /\ handed' = handed + n /\ handed' \in Nat
      /\ index.indexed_to = handed' + (out'.len - out'.read)
      /\ out'.read < out'.len => out'.at + out'.read = handed'
  <2>1. CASE out.read + n >= out.len
    <3>1. out.read + n = out.len
      BY <1>3, <2>1
    <3>2. out' = [out EXCEPT !.len = 0, !.read = 0]
      BY <1>1, <2>1
    <3>3. out' = [at |-> out.at, len |-> 0, read |-> 0]
      BY <1>3, <3>2
    <3> QED BY <1>1, <1>3, <1>4, <3>1, <3>3
  <2>2. CASE ~ (out.read + n >= out.len)
    <3>1. out' = [at |-> out.at, len |-> out.len, read |-> out.read + n]
      BY <1>1, <1>3, <2>2
    <3> QED BY <1>1, <1>3, <1>4, <2>2, <3>1
  <2> QED BY <2>1, <2>2
<1>6. TypeOK'
  BY <1>2, <1>5 DEF Inv, TypeOK
<1>7. Placed' /\ Tabled'
  BY <1>2 DEF Inv, Placed, PositionsExact, Tabled
<1>8. Fed'
  BY <1>2 DEF Inv, Fed, InputLeft
<1>9. Accounted'
  BY <1>2, <1>4, <1>5 DEF Inv, Accounted, Deciding, Inside, OutputPending
<1>10. Covered' /\ Reported'
  BY <1>2 DEF Inv, Covered, Reported, Deciding, Inside
<1>11. Concluded' /\ CompleteIsWhole'
  BY <1>2 DEF Inv, Concluded, CompleteIsWhole, Inside, Stopped, CheckpointHere
<1> QED
  BY <1>6, <1>7, <1>8, <1>9, <1>10, <1>11 DEF Inv

\* A new pass starts from the last checkpoint of the table.
LEMMA ResumeInv == Inv /\ Resume => Inv'
<1> SUFFICES ASSUME Inv, Resume PROVE Inv'
  OBVIOUS
<1> DEFINE cp == LastCheckpoint(index.checkpoints)
<1>1. /\ pc = "finished" /\ pc' = "call" /\ ~ index.complete /\ index' = index
      /\ decoder' = cp.at /\ compressed_pos' = cp.packed
      /\ unpacked_pos' = cp.unpacked /\ last_checkpoint_pos' = cp.unpacked
      /\ state' = IF cp.packed = 0 THEN "NeedInput" ELSE "Seek"
      /\ seek_offset' = cp.packed
      /\ stop_at' \in Stops \cup {NoStop} /\ emit_output' \in BOOLEAN
      /\ input' = [at |-> 0, len |-> 0, pos |-> 0]
      /\ eof' = FALSE
      /\ out' = [at |-> 0, len |-> 0, read |-> 0]
      /\ call' = NoCall
      /\ handed' = index.indexed_to /\ passes' = passes + 1
  BY DEF Resume, CountFrom, SeekPacked
<1>2. PICK len \in FileLens : len >= file.len /\ file' = [len |-> len, cursor |-> 0]
  BY DEF Resume
<1>3. /\ index \in StreamIndexType /\ index.checkpoints \in Seq(Checkpoint)
      /\ TableInOrder(index.checkpoints) /\ index.indexed_to \in Nat /\ file.len \in Nat
      /\ decoder \in Nat \X Nat /\ passes \in Nat /\ index.complete = FALSE
  BY <1>1 DEF Inv, TypeOK, StreamIndexType, Tabled
<1>4. /\ cp.unpacked \in Nat /\ cp.packed \in Nat /\ Real(cp)
  <2>1. cp.unpacked \in Nat /\ cp.packed \in Nat /\ Len(index.checkpoints) \in Nat \ {0}
    BY <1>3, LastType DEF TableInOrder
  <2> QED BY <1>3, <2>1 DEF TableInOrder, LastCheckpoint
<1>5. /\ cp.packed <= file.len /\ cp.unpacked <= index.indexed_to
  <2>1. cp.packed <= compressed_pos /\ compressed_pos = decoder[1] /\ decoder[1] <= file.len
    BY DEF Inv, Tabled, Placed, PositionsExact, Fed
  <2>2. cp.unpacked <= index.indexed_to
    BY <1>1 DEF Inv, Covered, Deciding, Inside
  <2> QED BY <1>3, <1>4, <2>1, <2>2
<1> HIDE DEF cp
<1>6. /\ decoder' = <<cp.packed, cp.unpacked>> /\ Reachable(decoder')
  BY <1>1, <1>4 DEF Real
<1>7. /\ file' \in [len : Nat, cursor : Nat] /\ file'.cursor = 0
      /\ file'.len \in Nat /\ file.len <= file'.len
  BY <1>2, BoundsAssumption
<1>8. /\ InputLeft' = 0 /\ ~ OutputPending'
      /\ input' \in [at : Nat, len : Nat, pos : Nat] /\ input'.pos <= input'.len
      /\ out' \in [at : Nat, len : Nat, read : Nat] /\ out'.read <= out'.len
      /\ input'.at + input'.len = 0 /\ out'.read = out'.len
  BY <1>1 DEF InputLeft, OutputPending
<1>9. TypeOK'
  <2>1. call' \in [before : Nat, produced : Nat, consumed : Nat, ended : BOOLEAN,
                   had_input : BOOLEAN, notify : BOOLEAN]
    BY <1>1 DEF NoCall
  <2>2. state' \in {"NeedInput", "Seek", "Processing", "Done"}
    BY <1>1
  <2>3. decoder' \in Nat \X Nat /\ passes' \in Nat
    BY <1>1, <1>3, <1>4, <1>6
  <2> QED BY <1>1, <1>3, <1>4, <1>7, <1>8, <2>1, <2>2, <2>3 DEF TypeOK
<1>10. Placed'
  BY <1>1, <1>6 DEF Placed, PositionsExact
<1>11. Tabled'
  BY <1>1, <1>3, <1>4 DEF Tabled, cp
<1>12. Fed'
  <2>1. decoder'[1] = cp.packed
    BY <1>6
  <2>2. cp.packed <= file'.len
    BY <1>3, <1>4, <1>5, <1>7
  <2>3. state' # "Seek" => cp.packed = 0
    BY <1>1
  <2> QED BY <1>1, <1>7, <1>8, <2>1, <2>2, <2>3 DEF Fed
<1>13. Accounted'
  BY <1>1, <1>3, <1>8 DEF Accounted, Deciding, Inside
<1>14. Covered'
  <2>1. file'.len = 0 => file.len = 0
    BY <1>3, <1>7
  <2>2. index.indexed_to <= UnpackedLen /\ (file.len = 0 => index.indexed_to = 0)
    BY DEF Inv, Covered
  <2> QED BY <1>1, <1>5, <2>1, <2>2 DEF Covered, Deciding, Inside, cp
<1>15. Reported' /\ Concluded' /\ CompleteIsWhole'
  BY <1>1, <1>3 DEF Reported, Deciding, Concluded, CompleteIsWhole, Inside
<1> QED
  BY <1>9, <1>10, <1>11, <1>12, <1>13, <1>14, <1>15 DEF Inv

-----------------------------------------------------------------------------

\* Between two actions nothing changes.
LEMMA StutterInv == Inv /\ UNCHANGED vars => Inv'
BY DEF vars, progress, ledger, settings, caller, Inv, TypeOK, Placed, PositionsExact,
       Tabled, Fed, InputLeft, Accounted, Deciding, OutputPending, Covered, Reported,
       Concluded, Stopped, CheckpointHere, CompleteIsWhole

(***************************************************************************)
(* Every action preserves the invariant.                                   *)
(***************************************************************************)
LEMMA NextInv == Inv /\ [Next]_vars => Inv'
<1> SUFFICES ASSUME Inv, [Next]_vars PROVE Inv'
  OBVIOUS
<1>1. CASE StepInside
  BY <1>1, StepDoneInv, StepSeekInv, StepNeedInputInv, StepOutputReadyInv, DecodeInv,
     DecodeErrorInv, NothingToLayInv, CheckpointErrorInv, LayInv, ThinInv, ThinEndInv,
     SettleEndedInv, SettleStoppedInv, SettleOnInv DEF StepInside
<1>2. CASE Provide \/ ReadOutput \/ Finish \/ Resume
  BY <1>2, ProvideInv, ReadOutputInv, FinishInv, ResumeInv
<1>3. CASE Terminated \/ UNCHANGED vars
  BY <1>3, StutterInv DEF Terminated
<1> QED
  BY <1>1, <1>2, <1>3 DEF Next

\* The indexer's invariant, over any number of passes.
THEOREM InvHolds == Spec => []Inv
<1>1. Init => Inv
  BY InitInv
<1>2. Inv /\ [Next]_vars => Inv'
  BY NextInv
<1> QED
  BY <1>1, <1>2, PTL DEF Spec

-----------------------------------------------------------------------------
(***************************************************************************)
(* Safety.                                                                 *)
(***************************************************************************)

\* The buffers' cursors and every field stay in the code's types.
THEOREM TypeCorrect == Spec => []TypeOK
<1>1. Inv => TypeOK
  BY DEF Inv
<1> QED
  BY <1>1, InvHolds, PTL

\* The running totals of step_once and resume are where the decoder really is.
THEOREM PositionsAreExact == Spec => []PositionsExact
<1>1. Inv => PositionsExact
  BY DEF Inv, Placed
<1> QED
  BY <1>1, InvHolds, PTL

\* Every checkpoint of the table can be restored to what it says, and the table
\* is strictly sorted from the start of the stream.
THEOREM CheckpointsAreExact == Spec => []CheckpointsExact
<1>1. Inv => CheckpointsExact
  <2> SUFFICES ASSUME Inv PROVE CheckpointsExact
    OBVIOUS
  <2> DEFINE cps == index.checkpoints
  <2>1. cps \in Seq(Checkpoint) /\ TableInOrder(cps)
    BY DEF Inv, TypeOK, StreamIndexType, Tabled
  <2>2. Len(cps) \in Nat
    BY <2>1
  <2>3. \A i \in 1..(Len(cps) - 1) : i \in 1..Len(cps) /\ i + 1 \in 1..Len(cps) /\ i < i + 1
    BY <2>2
  <2> HIDE DEF cps
  <2>4. \A i \in 1..(Len(cps) - 1) :
          cps[i].unpacked < cps[i + 1].unpacked /\ cps[i].packed <= cps[i + 1].packed
    BY <2>1, <2>3 DEF TableInOrder
  <2>5. cps # <<>> /\ cps[1].at = <<0, 0>>
        /\ \A i \in 1..Len(cps) : cps[i].at = <<cps[i].packed, cps[i].unpacked>>
    BY <2>1 DEF TableInOrder, Real
  <2> QED BY <2>4, <2>5 DEF CheckpointsExact, cps
<1> QED
  BY <1>1, InvHolds, PTL

\* The decoder is fed the packed file in order, across seeks and passes.
THEOREM FeedsInOrder == Spec => []FedInOrder
<1>1. Inv => FedInOrder
  <2> SUFFICES ASSUME Inv PROVE FedInOrder
    OBVIOUS
  <2>1. decoder[1] \in Nat
    BY DEF Inv, TypeOK
  <2>2. pc = "NeedInput" => state # "Seek"
    BY DEF Inv, Fed
  <2> QED BY <2>1, <2>2 DEF Inv, Fed, FedInOrder
<1> QED
  BY <1>1, InvHolds, PTL

\* The bytes handed out are those covered, once each and in order.
THEOREM HandsOutExactlyOnce == Spec => []HandedExactlyOnce
<1>1. Inv => HandedExactlyOnce
  BY DEF Inv, Accounted, HandedExactlyOnce
<1> QED
  BY <1>1, InvHolds, PTL

\* An index declared complete covers the whole stream, of a file that holds it
\* all, or an empty file.
THEOREM CompleteIndexIsWhole == Spec => []CompleteIsWhole
<1>1. Inv => CompleteIsWhole
  BY DEF Inv
<1> QED
  BY <1>1, InvHolds, PTL

\* A pass told to stop leaves a checkpoint where it stopped, when the codec can
\* be checkpointed there and thinning does not take it.
THEOREM StopsAtCheckpoint == Spec => []StopLeavesCheckpoint
<1>1. Inv => StopLeavesCheckpoint
  BY DEF Inv, Concluded, Stopped, CheckpointHere, StopLeavesCheckpoint
<1> QED
  BY <1>1, InvHolds, PTL

-----------------------------------------------------------------------------
(***************************************************************************)
(* What a step does to the table of checkpoints.                           *)
(***************************************************************************)

\* The actions that touch the index.
LEMMA IndexChanges ==
  ASSUME [Next]_vars
  PROVE  \/ index' = index
         \/ Lay \/ Thin
         \/ SettleEnded \/ SettleStopped \/ SettleOn
BY DEF Next, StepInside, StepDone, StepSeek, StepNeedInput, StepOutputReady, Decode,
       DecodeError, NothingToLay, CheckpointError, ThinEnd, Provide, ReadOutput, Finish,
       Resume, Terminated, vars

\* Settling leaves the table alone.
LEMMA SettlingKeepsTable ==
  ASSUME Inv, SettleEnded \/ SettleStopped \/ SettleOn
  PROVE  index'.checkpoints = index.checkpoints
BY DEF Inv, TypeOK, StreamIndexType, SettleEnded, SettleStopped, SettleOn

\* The table changes by a checkpoint at its end, or by thin().
THEOREM TableChangesByStep == Spec => TableSteps
<1> DEFINE Step ==
      LET cps == index.checkpoints
          new == index'.checkpoints
      IN  \/ new = cps
          \/ Len(new) = Len(cps) + 1 /\ SubSeq(new, 1, Len(cps)) = cps
          \/ Len(cps) = 2 /\ new = <<cps[1]>>
          \/ /\ Len(cps) > 2 /\ Len(new) < Len(cps)
             /\ new[1] = cps[1] /\ LastCheckpoint(new) = LastCheckpoint(cps)
             /\ \A i \in 1..(Len(cps) - 1) :
                  \E j \in 1..Len(new) : new[j] \in {cps[i], cps[i + 1]}
<1>1. Inv /\ [Next]_vars => [Step]_index
  <2> SUFFICES ASSUME Inv, [Next]_vars, index' # index PROVE Step
    OBVIOUS
  <2> DEFINE cps == index.checkpoints
             new == index'.checkpoints
  <2>1. cps \in Seq(Checkpoint) /\ TableInOrder(cps) /\ Len(cps) \in Nat
    BY DEF Inv, TypeOK, StreamIndexType, Tabled
  <2>2. CASE Lay
    <3>1. PICK cp \in Checkpoint :
             /\ new = Append(cps, cp)
             /\ new \in Seq(Checkpoint) /\ Len(new) = Len(cps) + 1
             /\ \A i \in 1..Len(cps) : new[i] = cps[i]
      <4>1. PICK cp \in Checkpoint :
               /\ index' = [index EXCEPT !.checkpoints = Append(cps, cp)]
               /\ Append(cps, cp) \in Seq(Checkpoint)
               /\ Len(Append(cps, cp)) = Len(cps) + 1
               /\ \A i \in 1..Len(cps) : Append(cps, cp)[i] = cps[i]
        BY <2>2, LayTable
      <4>2. new = Append(cps, cp)
        BY <4>1 DEF Inv, TypeOK, StreamIndexType
      <4> QED BY <4>1, <4>2
    <3> HIDE DEF new
    <3>2. SubSeq(new, 1, Len(cps)) = cps
      BY <2>1, <3>1
    <3> QED BY <3>1, <3>2 DEF new
  <2>3. CASE Thin
    <3>1. new = Thinned(cps) /\ Len(cps) > 1
      BY <2>3 DEF Thin, CanThin, Inv, TypeOK, StreamIndexType
    <3>2. /\ new \in Seq(Checkpoint) /\ Len(new) \in 1..(Len(cps) - 1)
          /\ new[1] = cps[1]
          /\ Len(cps) # 2 => LastCheckpoint(new) = LastCheckpoint(cps)
          /\ Len(cps) = 2 => Len(new) = 1
      BY <2>1, <3>1, ThinnedInOrder
    <3>3. CASE Len(cps) = 2
      <4>1. new = <<cps[1]>>
        BY <3>2, <3>3
      <4> QED BY <3>3, <4>1
    <3>4. CASE Len(cps) # 2
      <4>1. Len(cps) > 2 /\ Len(new) < Len(cps)
        <5>1. Len(new) \in 1..(Len(cps) - 1) /\ Len(cps) \in Nat /\ Len(cps) > 1
          BY <2>1, <3>1, <3>2
        <5>2. \A n \in Nat : \A m \in 1..(n - 1) : n > 1 /\ n # 2 => n > 2 /\ m < n
          OBVIOUS
        <5> QED BY <3>4, <5>1, <5>2
      <4>2. \A i \in 1..(Len(cps) - 1) : \E j \in 1..Len(new) : new[j] \in {cps[i], cps[i + 1]}
        BY <2>1, <3>1, <4>1, ThinnedKeepsNeighbours
      <4> QED BY <3>2, <3>4, <4>1, <4>2
    <3> QED BY <3>3, <3>4
  <2>4. CASE SettleEnded \/ SettleStopped \/ SettleOn
    BY <2>4, SettlingKeepsTable
  <2> QED BY <2>2, <2>3, <2>4, IndexChanges
<1> QED
  BY <1>1, InvHolds, PTL DEF Spec, TableSteps

(***************************************************************************)
(* resume promises "lays no checkpoints" below indexed_to.  Where a pass   *)
(* is not told to stop this holds: only the checkpoint of a stopping point *)
(* (notify = FALSE) may be laid below what an earlier pass covered.        *)
(***************************************************************************)
THEOREM NoneBelowIndexedUnlessStopped ==
  Spec => [][stop_at = NoStop /\ Len(index'.checkpoints) > Len(index.checkpoints) =>
               LastCheckpoint(index'.checkpoints).unpacked > index.indexed_to]_index
<1> DEFINE Step ==
      stop_at = NoStop /\ Len(index'.checkpoints) > Len(index.checkpoints) =>
        LastCheckpoint(index'.checkpoints).unpacked > index.indexed_to
<1>1. Inv /\ [Next]_vars => [Step]_index
  <2> SUFFICES ASSUME Inv, [Next]_vars, index' # index, stop_at = NoStop,
                      Len(index'.checkpoints) > Len(index.checkpoints)
               PROVE  LastCheckpoint(index'.checkpoints).unpacked > index.indexed_to
    OBVIOUS
  <2>1. index.checkpoints \in Seq(Checkpoint) /\ TableInOrder(index.checkpoints)
        /\ Len(index.checkpoints) \in Nat
    BY DEF Inv, TypeOK, StreamIndexType, Tabled
  <2>2. CASE Lay
    <3>1. PICK cp \in Checkpoint :
             /\ cp.unpacked = unpacked_pos
             /\ index' = [index EXCEPT !.checkpoints = Append(index.checkpoints, cp)]
             /\ LastCheckpoint(Append(index.checkpoints, cp)) = cp
      BY <2>2, LayTable
    <3>2. index'.checkpoints = Append(index.checkpoints, cp)
      BY <3>1 DEF Inv, TypeOK, StreamIndexType
    <3>3. pc = "lay" /\ call.notify
      BY <2>2 DEF Lay, Inv, Concluded, Inside, Stopped
    <3>4. index.indexed_to < unpacked_pos
      BY <3>3 DEF Inv, Covered
    <3> QED BY <3>1, <3>2, <3>4
  <2>3. CASE Thin
    <3>1. index'.checkpoints = Thinned(index.checkpoints) /\ Len(index.checkpoints) > 1
      BY <2>3 DEF Thin, CanThin, Inv, TypeOK, StreamIndexType
    <3>2. /\ Len(Thinned(index.checkpoints)) = ThinnedLen(Len(index.checkpoints))
          /\ ThinnedLen(Len(index.checkpoints)) \in 1..(Len(index.checkpoints) - 1)
      BY <2>1, <3>1, ThinnedPlaces
    <3> QED BY <2>1, <3>1, <3>2
  <2>4. CASE SettleEnded \/ SettleStopped \/ SettleOn
    BY <2>1, <2>4, SettlingKeepsTable
  <2> QED BY <2>2, <2>3, <2>4, IndexChanges
<1> QED
  BY <1>1, InvHolds, PTL DEF Spec

-----------------------------------------------------------------------------
(***************************************************************************)
(* The indexer implements StreamCoverage: each action adds to the          *)
(* coverage, to the points, to what was given, or to none of them.         *)
(***************************************************************************)

\* A step that changes neither the index nor what was handed out.
LEMMA CoverageStutters ==
  ASSUME UNCHANGED <<index, handed>>
  PROVE  UNCHANGED Coverage!vars
BY DEF Coverage!vars, Points

\* Laying a checkpoint adds a point past the others.
LEMMA LayAddsPoint == Inv /\ Lay => Coverage!AddPoint
<1> SUFFICES ASSUME Inv, Lay PROVE Coverage!AddPoint
  OBVIOUS
<1> DEFINE cps == index.checkpoints
<1>1. PICK cp \in Checkpoint :
         /\ Real(cp) /\ cp.unpacked = unpacked_pos
         /\ LastCheckpoint(cps).unpacked < cp.unpacked
         /\ index' = [index EXCEPT !.checkpoints = Append(cps, cp)]
         /\ TableInOrder(Append(cps, cp))
         /\ LastCheckpoint(Append(cps, cp)) = cp
         /\ Append(cps, cp) \in Seq(Checkpoint)
         /\ Len(Append(cps, cp)) = Len(cps) + 1
         /\ \A i \in 1..Len(cps) : Append(cps, cp)[i] = cps[i]
  BY LayTable
<1>2. /\ index'.checkpoints = Append(cps, cp)
      /\ index'.indexed_to = index.indexed_to /\ index'.complete = index.complete
      /\ handed' = handed /\ cps \in Seq(Checkpoint) /\ index \in StreamIndexType
      /\ TableInOrder(cps)
  BY <1>1 DEF Inv, TypeOK, StreamIndexType, Tabled, Lay, caller
<1> DEFINE new == Append(cps, cp)
           n == Len(cps)
<1>3. /\ n \in Nat \ {0} /\ new[n + 1] = cp /\ Len(new) = n + 1
      /\ LastCheckpoint(cps).unpacked \in Nat
  BY <1>1, <1>2, LastType DEF TableInOrder, LastCheckpoint
<1>4. \A i \in 1..n : new[i] = cps[i]
  BY <1>1
<1>5. ~ index.complete
  BY DEF Inv, Lay, Accounted, Concluded, Inside
<1>6. unpacked_pos \in 1..UnpackedLen
  <2>1. unpacked_pos \in Nat /\ unpacked_pos > 0
    <3>1. unpacked_pos \in Nat
      BY DEF Inv, TypeOK
    <3>2. LastCheckpoint(cps).unpacked < unpacked_pos
      BY <1>1
    <3> QED BY <1>3, <3>1, <3>2
  <2>2. decoder[2] \in 0..UnpackedLen /\ unpacked_pos = decoder[2]
    BY DEF Inv, Placed, PositionsExact, Reachable
  <2>3. UnpackedLen \in Nat
    BY StreamAssumption DEF UnpackedLen
  <2> QED BY <2>1, <2>2, <2>3
<1>7. TableInOrder(new)
  BY <1>1
<1> HIDE DEF new, cps, n
<1>8. \A p \in Points : p < unpacked_pos
  <2> SUFFICES ASSUME NEW i \in 1..n PROVE cps[i].unpacked < unpacked_pos
    BY DEF Points, cps, n
  <2>1. new[i].unpacked < new[n + 1].unpacked
    BY <1>3, <1>7 DEF TableInOrder
  <2> QED BY <1>1, <1>3, <1>4, <2>1
<1>9. Points' = Points \cup {unpacked_pos}
  <2>1. Points' = {new[i].unpacked : i \in 1..(n + 1)}
    BY <1>2, <1>3 DEF Points, new
  <2>2. Points = {cps[i].unpacked : i \in 1..n}
    BY DEF Points, cps, n
  <2>3. \A i \in 1..(n + 1) : i \in 1..n \/ i = n + 1
    BY <1>3
  <2>4. \A i \in 1..n : i \in 1..(n + 1) /\ new[i].unpacked = cps[i].unpacked
    BY <1>3, <1>4
  <2>5. n + 1 \in 1..(n + 1) /\ new[n + 1].unpacked = unpacked_pos
    BY <1>1, <1>3
  <2>6. Points' \subseteq Points \cup {unpacked_pos}
    BY <2>1, <2>2, <2>3, <2>4, <2>5
  <2>7. Points \cup {unpacked_pos} \subseteq Points'
    BY <2>1, <2>2, <2>4, <2>5
  <2> QED BY <2>6, <2>7
<1> QED
  BY <1>2, <1>5, <1>6, <1>8, <1>9 DEF Coverage!AddPoint

\* thin() gives up points, never the start.
LEMMA ThinDropsPoints == Inv /\ Thin => Coverage!DropPoints
<1> SUFFICES ASSUME Inv, Thin PROVE Coverage!DropPoints
  OBVIOUS
<1> DEFINE cps == index.checkpoints
           new == Thinned(cps)
<1>1. /\ index' = [index EXCEPT !.checkpoints = new] /\ handed' = handed
      /\ index \in StreamIndexType
      /\ cps \in Seq(Checkpoint) /\ TableInOrder(cps) /\ Len(cps) > 1
  BY DEF Inv, TypeOK, StreamIndexType, Tabled, Thin, CanThin, caller
<1>2. /\ index'.checkpoints = new /\ index'.indexed_to = index.indexed_to
      /\ index'.complete = index.complete
  BY <1>1 DEF StreamIndexType
<1>3. /\ Len(new) \in 1..(Len(cps) - 1) /\ Len(cps) \in Nat
      /\ \A j \in 1..Len(new) : \E i \in 1..Len(cps) : new[j] = cps[i]
      /\ new[1] = cps[1]
  BY <1>1, ThinnedInOrder
<1>4. cps[1].unpacked = 0
  <2>1. cps[1].at = <<0, 0>> /\ Real(cps[1])
    BY <1>1 DEF TableInOrder
  <2> QED BY <2>1 DEF Real
<1> HIDE DEF cps, new
<1>5. Points' = {new[j].unpacked : j \in 1..Len(new)}
      /\ Points = {cps[i].unpacked : i \in 1..Len(cps)}
  BY <1>2 DEF Points, cps
<1>6. 0 \in Points'
  BY <1>3, <1>4, <1>5
<1>7. Points' \subseteq Points
  BY <1>3, <1>5
<1> QED
  BY <1>1, <1>2, <1>6, <1>7 DEF Coverage!DropPoints

\* Settling extends the coverage, or leaves it; at the end it concludes.
LEMMA SettleCovers ==
  Inv /\ (SettleStopped \/ SettleOn) => Coverage!Cover \/ UNCHANGED Coverage!vars
<1> SUFFICES ASSUME Inv, SettleStopped \/ SettleOn
             PROVE  Coverage!Cover \/ UNCHANGED Coverage!vars
  OBVIOUS
<1>1. /\ pc = "settle" /\ index' = [index EXCEPT !.indexed_to = SettledIndexedTo]
      /\ handed' = handed /\ index \in StreamIndexType /\ index.indexed_to \in Nat
  BY DEF SettleStopped, SettleOn, caller, Inv, TypeOK, StreamIndexType
<1>2. /\ index'.checkpoints = index.checkpoints /\ index'.complete = index.complete
      /\ index'.indexed_to = SettledIndexedTo
  BY <1>1 DEF StreamIndexType
<1>3. /\ SettledIndexedTo \in Nat /\ SettledIndexedTo <= UnpackedLen
      /\ index.indexed_to <= SettledIndexedTo
  BY <1>1, Settled
<1>4. ~ index.complete
  BY <1>1 DEF Inv, Accounted, Concluded, Inside
<1>5. Points' = Points
  BY <1>2 DEF Points
<1>6. UnpackedLen \in Nat
  BY StreamAssumption DEF UnpackedLen
<1>7. CASE SettledIndexedTo = index.indexed_to
  BY <1>1, <1>2, <1>5, <1>7 DEF Coverage!vars
<1>8. CASE SettledIndexedTo # index.indexed_to
  <2>1. SettledIndexedTo \in (index.indexed_to + 1)..UnpackedLen
    BY <1>1, <1>3, <1>6, <1>8
  <2> QED BY <1>1, <1>2, <1>4, <1>5, <2>1 DEF Coverage!Cover
<1> QED
  BY <1>7, <1>8

\* The end of the stream is the abstract conclusion.
LEMMA SettleConcludes == Inv /\ SettleEnded => Coverage!Conclude
<1> SUFFICES ASSUME Inv, SettleEnded PROVE Coverage!Conclude
  OBVIOUS
<1>1. /\ pc = "settle" /\ handed' = handed /\ file' = file
      /\ index' = [index EXCEPT !.indexed_to = SettledIndexedTo,
                                !.complete = TRUE,
                                !.unpacked_len = unpacked_pos]
  BY DEF SettleEnded, caller
<1>2. index'.checkpoints = index.checkpoints /\ index'.complete = TRUE
  BY <1>1 DEF Inv, TypeOK, StreamIndexType
<1>3. ~ index.complete
  BY <1>1 DEF Inv, Accounted, Concluded, Inside
<1>4. \/ index'.indexed_to = UnpackedLen
      \/ index'.indexed_to = 0 /\ file.len = 0
  <2>1. CompleteIsWhole'
    BY SettleEndedInv DEF Inv
  <2> QED BY <1>1, <1>2, <2>1 DEF CompleteIsWhole
<1>5. file.len = 0 => index.indexed_to = 0
  BY DEF Inv, Covered
<1>6. Points' = Points
  BY <1>2 DEF Points
<1> QED
  BY <1>1, <1>2, <1>3, <1>4, <1>5, <1>6 DEF Coverage!Conclude

\* read_output delivers bytes that are covered.
LEMMA ReadOutputDelivers == Inv /\ ReadOutput => Coverage!Deliver
<1> SUFFICES ASSUME Inv, ReadOutput PROVE Coverage!Deliver
  OBVIOUS
<1>1. PICK n \in 1..(out.len - out.read) : handed' = out.at + out.read + n
  BY DEF ReadOutput
<1>2. index' = index
  BY DEF ReadOutput
<1>3. /\ out.at \in Nat /\ out.len \in Nat /\ out.read \in Nat /\ handed \in Nat
      /\ emit_output \in BOOLEAN
  BY DEF Inv, TypeOK
<1>4. OutputPending
  BY <1>1, <1>3 DEF OutputPending
<1>5. out.at + out.read = handed /\ index.indexed_to = handed + (out.len - out.read)
  BY <1>3, <1>4 DEF Inv, Accounted, OutputPending
<1>6. handed' \in (handed + 1)..index.indexed_to
  BY <1>1, <1>3, <1>5
<1>7. Points' = Points
  BY <1>2 DEF Points
<1> QED
  BY <1>2, <1>6, <1>7 DEF Coverage!Deliver

(***************************************************************************)
(* StreamIndexer's promise to its users (StreamCoverage), over any number  *)
(* of stopped and resumed passes.                                          *)
(***************************************************************************)
THEOREM ImplementsCoverage == Spec => KeepsPromise
<1>1. Init => Coverage!Init
  <2> SUFFICES ASSUME Init PROVE Coverage!Init
    OBVIOUS
  <2>1. PICK declared \in {UnknownLen, UnpackedLen}, known \in {0, file.len} :
           index = NewIndex(StartSize, declared, known)
    BY DEF Init
  <2>2. /\ index.checkpoints = <<StartCheckpoint(StartSize)>>
        /\ index.indexed_to = 0 /\ index.complete = FALSE
    BY <2>1 DEF NewIndex
  <2>3. Points = {0}
    BY <2>2 DEF Points, StartCheckpoint
  <2> QED BY <2>2, <2>3 DEF Init, Coverage!Init
<1>2. Inv /\ [Next]_vars => [Coverage!Next]_(Coverage!vars)
  <2> SUFFICES ASSUME Inv, [Next]_vars
               PROVE  Coverage!Next \/ UNCHANGED Coverage!vars
    OBVIOUS
  <2>1. CASE Lay \/ Thin
    BY <2>1, LayAddsPoint, ThinDropsPoints DEF Coverage!Next
  <2>2. CASE SettleEnded \/ SettleStopped \/ SettleOn
    BY <2>2, SettleCovers, SettleConcludes DEF Coverage!Next
  <2>3. CASE ReadOutput
    BY <2>3, ReadOutputDelivers DEF Coverage!Next
  <2>4. CASE Resume
    <3>1. index' = index /\ handed' = index.indexed_to
      BY <2>4 DEF Resume
    <3>2. Points' = Points
      BY <3>1 DEF Points
    <3>3. Coverage!PassOver
      BY <3>1, <3>2 DEF Coverage!PassOver
    <3> QED BY <3>3 DEF Coverage!Next
  <2>5. CASE \/ StepDone \/ StepSeek \/ StepNeedInput \/ StepOutputReady
             \/ Decode \/ DecodeError \/ NothingToLay \/ CheckpointError \/ ThinEnd
             \/ Provide \/ Finish \/ Terminated \/ UNCHANGED vars
    <3>1. UNCHANGED <<index, handed>>
      BY <2>5 DEF StepDone, StepSeek, StepNeedInput, StepOutputReady, Decode, DecodeError,
         NothingToLay, CheckpointError, ThinEnd, Provide, Finish, Terminated, vars, caller
    <3> QED BY <3>1, CoverageStutters
  <2> QED BY <2>1, <2>2, <2>3, <2>4, <2>5 DEF Next, StepInside
<1> QED
  BY <1>1, <1>2, InvHolds, PTL DEF Spec, KeepsPromise, Coverage!Spec

-----------------------------------------------------------------------------
(***************************************************************************)
(* The totals the strategies decide by.                                    *)
(***************************************************************************)

\* The actions that touch the table or the totals.
LEMMA LedgerChanges ==
  ASSUME Inv, [Next]_vars
  PROVE  \/ index'.checkpoints = index.checkpoints /\ checkpoint_data_bytes' = checkpoint_data_bytes
         \/ Lay \/ Thin \/ Resume
<1>1. CASE SettleEnded \/ SettleStopped \/ SettleOn
  BY <1>1, SettlingKeepsTable DEF SettleEnded, SettleStopped, SettleOn, ledger
<1>2. CASE ~ (SettleEnded \/ SettleStopped \/ SettleOn)
  BY <1>2 DEF Next, StepInside, StepDone, StepSeek, StepNeedInput, StepOutputReady, Decode,
     DecodeError, NothingToLay, CheckpointError, ThinEnd, Provide, ReadOutput, Finish,
     Terminated, vars, ledger
<1> QED
  BY <1>1, <1>2

(***************************************************************************)
(* checkpoint_data_bytes, kept up by additions and resets, is the table's  *)
(* total, and last_checkpoint_pos its last offset.                         *)
(***************************************************************************)
THEOREM DataBytesAreExact == Spec => []DataBytesExact
<1> DEFINE Exact == checkpoint_data_bytes = DataBytes(index.checkpoints)
<1>1. Init => Exact
  BY DEF Init
<1>2. Inv /\ Exact /\ [Next]_vars => Exact'
  <2> SUFFICES ASSUME Inv, Exact, [Next]_vars PROVE Exact'
    OBVIOUS
  <2>1. CASE Lay
    <3>1. PICK size \in Sizes :
            /\ index' = [index EXCEPT !.checkpoints =
                          Append(index.checkpoints,
                                 [packed |-> compressed_pos, unpacked |-> unpacked_pos,
                                  size |-> size, at |-> decoder])]
            /\ checkpoint_data_bytes' = checkpoint_data_bytes + size
      BY <2>1 DEF Lay, BytesWith
    <3> DEFINE cp == [packed |-> compressed_pos, unpacked |-> unpacked_pos,
                      size |-> size, at |-> decoder]
    <3>2. cp \in Checkpoint /\ cp.size = size
      BY BoundsAssumption DEF Inv, TypeOK, Checkpoint
    <3>3. index'.checkpoints = Append(index.checkpoints, cp)
      BY <3>1 DEF Inv, TypeOK, StreamIndexType
    <3>4. index.checkpoints \in Seq(Checkpoint)
      BY DEF Inv, TypeOK, StreamIndexType
    <3> HIDE DEF cp
    <3> QED BY <3>1, <3>2, <3>3, <3>4, DataBytesAppended
  <2>2. CASE Thin
    BY <2>2 DEF Thin, Inv, TypeOK, StreamIndexType
  <2>3. CASE Resume
    BY <2>3 DEF Resume
  <2> QED BY <2>1, <2>2, <2>3, LedgerChanges
<1>3. Inv /\ Exact => DataBytesExact
  BY DEF Inv, Tabled, DataBytesExact
<1> QED
  BY <1>1, <1>2, <1>3, InvHolds, PTL DEF Spec

-----------------------------------------------------------------------------
(***************************************************************************)
(* The checkpoint strategies: how much the table weighs and how far apart  *)
(* its checkpoints are, for every stream, codec, budget and interval.      *)
(***************************************************************************)

(***************************************************************************)
(* The inductive invariant about strategies.                               *)
(***************************************************************************)

\* A strategy is a record of these fields, whatever its interval becomes.
Names == {"kind", "interval", "budget", "min", "ratio", "started"}

Fields(s) == s = [x \in Names |-> s[x]]

\* All strategies a pass may be given have one kind and one budget.
OneSetting == \A s, t \in Strategies : s.kind = t.kind /\ s.budget = t.budget

\* The strategy has the kind, and but for BudgetRatio the budget, of one it was
\* given; BudgetRatio has none until its first question tells it the size.
Given ==
  /\ Fields(strategy)
  /\ \E s \in Strategies :
       /\ strategy.kind = s.kind /\ strategy.min = s.min /\ strategy.ratio = s.ratio
       /\ s.kind # "BudgetRatio" => strategy.budget = s.budget
  /\ strategy.budget \in Nat
  /\ strategy.kind = "BudgetRatio" =>
       strategy.started \/ strategy.budget = 0
  /\ strategy.kind = "BudgetRatio" /\ index.compressed_len = 0 => strategy.budget = 0

\* In the first pass nothing is covered that was not decoded in it, and whatever
\* was decoded has been asked about.
FirstPass ==
  /\ passes > 0
  /\ passes = 1 => index.indexed_to <= unpacked_pos
  /\ (/\ passes = 1 /\ unpacked_pos > 0
      /\ strategy.kind \in {"ThinningBudget", "BudgetRatio"}) => strategy.started

\* A strategy with a budget lays only below it.
BelowBudget ==
  (/\ strategy.kind \in {"Budget", "BudgetRatio"} /\ strategy.budget > 0
   /\ passes = 1 /\ stop_at = NoStop /\ pc = "lay")
    => checkpoint_data_bytes < strategy.budget

\* The interval ThinningBudget starts with, and the widest gap it may leave,
\* multiplied by it.
FirstOf(s)  == IF s.min > 1 THEN s.min ELSE 1
WidestOf(s) == s.interval * (FirstOf(s) + OutSize - 1)

\* How much has been decoded since the table's end.
Since == unpacked_pos - LastCheckpoint(index.checkpoints).unpacked

\* No gap of a table, multiplied by f, is wider than w.
GapsWithin(cps, f, w) ==
  \A i \in 1..(Len(cps) - 1) : f * (cps[i + 1].unpacked - cps[i].unpacked) <= w

\* ThinningBudget in the first pass: the gaps of the table and the stretch since
\* its end are within bounds, the latter with room for one more chunk wherever
\* one may be decoded.
Paced ==
  strategy.kind = "ThinningBudget" /\ passes = 1 /\ CheckpointAnywhere =>
    /\ strategy.min \in Nat
    /\ strategy.interval \in Nat /\ FirstOf(strategy) <= strategy.interval
    /\ GapsWithin(index.checkpoints, FirstOf(strategy), WidestOf(strategy))
    /\ FirstOf(strategy) * Since <= WidestOf(strategy)
    /\ pc \notin {"lay", "Error", "finished"} =>
         FirstOf(strategy) * (Since + OutSize) <= WidestOf(strategy)

-----------------------------------------------------------------------------
(***************************************************************************)
(* What the questions of a strategy change in it.                          *)
(***************************************************************************)

\* Asked for the first time (start), a strategy keeps what it was made with.
LEMMA StartedKeeps ==
  ASSUME NEW s, Fields(s), NEW ctx, ctx.size \in Nat
  PROVE  /\ Fields(Started(s, ctx))
         /\ Started(s, ctx).kind = s.kind /\ Started(s, ctx).min = s.min
         /\ Started(s, ctx).ratio = s.ratio
         /\ s.kind # "BudgetRatio" => Started(s, ctx).budget = s.budget
         /\ s.kind \in {"ThinningBudget", "BudgetRatio"} => Started(s, ctx).started
         /\ s.kind # "ThinningBudget" \/ s.started \/ ctx.count < 2 =>
              Started(s, ctx).interval = s.interval
<1> USE DEF Fields, Names
<1>1. CASE s.started
  BY <1>1 DEF Started
<1>2. CASE ~ s.started /\ s.kind = "ThinningBudget"
  <2> DEFINE interval == IF ctx.count < 2 THEN s.interval
                         ELSE ResumedInterval(s.interval, ctx)
  <2>1. Started(s, ctx) = [s EXCEPT !.started = TRUE, !.interval = interval]
    BY <1>2 DEF Started
  <2>2. ctx.count < 2 => interval = s.interval
    OBVIOUS
  <2> HIDE DEF interval
  <2> QED BY <1>2, <2>1, <2>2
<1>3. CASE ~ s.started /\ s.kind = "BudgetRatio" /\ ctx.size > 0
  <2> DEFINE budget == LET share == (ctx.size * s.ratio[1]) \div s.ratio[2]
                       IN  IF share > RatioFloor THEN share ELSE RatioFloor
  <2>1. Started(s, ctx) = [s EXCEPT !.started = TRUE, !.budget = budget]
    BY <1>3 DEF Started
  <2> HIDE DEF budget
  <2> QED BY <1>3, <2>1
<1>4. CASE ~ s.started /\ s.kind = "BudgetRatio" /\ ctx.size = 0
  <2>1. Started(s, ctx) = [s EXCEPT !.started = TRUE]
    BY <1>4 DEF Started
  <2> QED BY <1>4, <2>1
<1>5. CASE ~ s.started /\ s.kind \notin {"ThinningBudget", "BudgetRatio"}
  BY <1>5 DEF Started
<1> QED
  BY <1>1, <1>2, <1>3, <1>4, <1>5

\* BudgetRatio's first question gives it a budget when the size is known.
LEMMA RatioBudget ==
  ASSUME NEW s, Fields(s), NEW ctx, ctx.size \in Nat, s.budget \in Nat,
         s.ratio \in Nat \X (Nat \ {0})
  PROVE  /\ Started(s, ctx).budget \in Nat
         /\ ctx.size = 0 => Started(s, ctx).budget = s.budget
<1> DEFINE share == (ctx.size * s.ratio[1]) \div s.ratio[2]
           budget == IF share > RatioFloor THEN share ELSE RatioFloor
<1>1. CASE ~ s.started /\ s.kind = "BudgetRatio" /\ ctx.size > 0
  <2>1. budget \in Nat
    <3>1. \A n, d \in Nat : d # 0 => n \div d \in Nat
      OBVIOUS
    <3>2. ctx.size * s.ratio[1] \in Nat /\ s.ratio[2] \in Nat \ {0}
      OBVIOUS
    <3> QED BY <3>1, <3>2, StrategyAssumption
  <2>2. Started(s, ctx) = [s EXCEPT !.started = TRUE, !.budget = budget]
    BY <1>1 DEF Started
  <2> HIDE DEF budget
  <2>3. [s EXCEPT !.started = TRUE, !.budget = budget].budget = budget
    BY DEF Fields, Names
  <2>4. Started(s, ctx).budget = budget
    BY <2>2, <2>3
  <2> QED BY <1>1, <2>1, <2>4
<1>2. CASE ~ s.started /\ s.kind = "BudgetRatio" /\ ctx.size = 0
  <2>1. Started(s, ctx) = [s EXCEPT !.started = TRUE]
    BY <1>2 DEF Started
  <2> QED BY <1>2, <2>1 DEF Fields, Names
<1>3. CASE s.started \/ s.kind # "BudgetRatio"
  BY <1>3, StartedKeeps DEF Started
<1> QED
  BY <1>1, <1>2, <1>3

\* on_checkpoint_created moves the interval of Budget and nothing else.
LEMMA AfterCheckpointKeeps ==
  ASSUME NEW s, Fields(s), NEW ctx
  PROVE  /\ Fields(AfterCheckpoint(s, ctx))
         /\ AfterCheckpoint(s, ctx).kind = s.kind /\ AfterCheckpoint(s, ctx).min = s.min
         /\ AfterCheckpoint(s, ctx).ratio = s.ratio
         /\ AfterCheckpoint(s, ctx).budget = s.budget
         /\ AfterCheckpoint(s, ctx).started = s.started
         /\ s.kind \notin {"Budget", "BudgetRatio"} => AfterCheckpoint(s, ctx) = s
<1> DEFINE t == AfterCheckpoint(s, ctx)
<1>1. t = s \/ (s.kind \in {"Budget", "BudgetRatio"} /\ \E n : t = [s EXCEPT !.interval = n])
  BY DEF AfterCheckpoint
<1> HIDE DEF t
<1> QED
  BY <1>1 DEF t, Fields, Names

\* should_thin is ThinningBudget's; it may double the interval.
LEMMA AfterThinAskedKeeps ==
  ASSUME NEW s, Fields(s), NEW ctx, ctx.size \in Nat
  PROVE  /\ Fields(AfterThinAsked(s, ctx))
         /\ AfterThinAsked(s, ctx).kind = s.kind /\ AfterThinAsked(s, ctx).min = s.min
         /\ AfterThinAsked(s, ctx).ratio = s.ratio
         /\ AfterThinAsked(s, ctx).budget = s.budget
         /\ s.kind # "ThinningBudget" => AfterThinAsked(s, ctx) = s
         /\ s.kind = "ThinningBudget" =>
              /\ AfterThinAsked(s, ctx).started
              /\ AfterThinAsked(s, ctx).interval =
                   IF ShouldThin(s, ctx) THEN 2 * Started(s, ctx).interval
                   ELSE Started(s, ctx).interval
<1> DEFINE t == Started(s, ctx)
           u == AfterThinAsked(s, ctx)
<1>1. /\ Fields(t) /\ t.kind = s.kind /\ t.min = s.min /\ t.ratio = s.ratio
      /\ s.kind = "ThinningBudget" => t.budget = s.budget /\ t.started
  BY StartedKeeps
<1>2. CASE ShouldThin(s, ctx)
  <2>1. u = [t EXCEPT !.interval = 2 * t.interval] /\ s.kind = "ThinningBudget"
    BY <1>2 DEF AfterThinAsked, ShouldThin
  <2> DEFINE n == 2 * t.interval
  <2> HIDE DEF t, u, n
  <2> QED BY <1>1, <1>2, <2>1 DEF t, u, n, Fields, Names
<1>3. CASE ~ ShouldThin(s, ctx)
  BY <1>1, <1>3 DEF AfterThinAsked
<1> QED
  BY <1>2, <1>3

-----------------------------------------------------------------------------
(***************************************************************************)
(* What the actions change of what the strategies are asked about.         *)
(***************************************************************************)

\* The actions that neither ask the strategy nor touch the table or the totals.
LEMMA QuietSteps ==
  ASSUME Inv, [Next]_vars, ~ Decode, ~ Lay, ~ Thin, ~ ThinEnd, ~ Resume
  PROVE  /\ strategy' = strategy /\ unpacked_pos' = unpacked_pos
         /\ index'.checkpoints = index.checkpoints
         /\ index'.compressed_len = index.compressed_len
         /\ index'.indexed_to \in {index.indexed_to, unpacked_pos}
         /\ checkpoint_data_bytes' = checkpoint_data_bytes
         /\ passes' = passes /\ stop_at' = stop_at
         /\ pc' = "thin" <=> pc = "thin"
         /\ pc' = "lay" => pc = "lay" \/ Stopped
         /\ pc \in {"Error", "finished"} => pc' \in {"Error", "finished"}
         /\ pc = "lay" => pc' \in {"lay", "Error"} \/ AlreadyLaid \/ ~ CheckpointAnywhere
<1> USE DEF progress, ledger, settings, caller
<1>1. CASE SettleEnded \/ SettleStopped \/ SettleOn
  <2>1. /\ index'.checkpoints = index.checkpoints
        /\ index'.compressed_len = index.compressed_len
        /\ index'.indexed_to = SettledIndexedTo
    BY <1>1 DEF Inv, TypeOK, StreamIndexType, SettleEnded, SettleStopped, SettleOn
  <2>2. pc = "settle" /\ pc' # "thin" /\ (pc' = "lay" => Stopped)
    BY <1>1 DEF SettleEnded, SettleStopped, SettleOn
  <2> QED BY <1>1, <2>1, <2>2 DEF SettleEnded, SettleStopped, SettleOn, SettledIndexedTo
<1>2. CASE StepDone \/ StepSeek \/ StepNeedInput \/ StepOutputReady \/ DecodeError
  BY <1>2 DEF StepDone, StepSeek, StepNeedInput, StepOutputReady, DecodeError
<1>3. CASE NothingToLay \/ CheckpointError
  BY <1>3 DEF NothingToLay, CheckpointError, AfterCheckpointing, EndStep
<1>4. CASE Provide \/ ReadOutput \/ Finish
  BY <1>4 DEF Provide, ReadFrom, ReadOutput, Finish, Requests
<1>5. CASE Terminated \/ UNCHANGED vars
  BY <1>5 DEF Terminated, vars
<1> QED
  BY <1>1, <1>2, <1>3, <1>4, <1>5 DEF Next, StepInside

\* A pass keeps its strategy, and a budget once it has one.
LEMMA StrategySteps ==
  ASSUME Inv, Given, [Next]_vars, ~ Resume
  PROVE  /\ Fields(strategy')
         /\ strategy'.kind = strategy.kind /\ strategy'.min = strategy.min
         /\ strategy'.ratio = strategy.ratio
         /\ strategy.started => strategy'.started
         /\ strategy'.budget \in Nat
         /\ \/ strategy.kind # "BudgetRatio" \/ strategy.started \/ ~ Decode
            \/ index.compressed_len = 0
            => strategy'.budget = strategy.budget
         /\ index'.compressed_len = index.compressed_len
         /\ passes' = passes /\ stop_at' = stop_at
<1> USE DEF progress, ledger, settings, caller
<1>1. /\ Fields(strategy) /\ strategy.budget \in Nat
      /\ strategy.ratio \in Nat \X (Nat \ {0})
  BY StrategiesAssumption DEF Given, IsNew, Strategy
<1>2. index \in StreamIndexType /\ index.compressed_len \in Nat
  BY DEF Inv, TypeOK, StreamIndexType
<1>3. CASE Decode
  <2>1. PICK ctx : /\ ctx.size = index.compressed_len
                   /\ strategy' \in {strategy, Started(strategy, ctx)}
    <3>1. strategy' = strategy \/
            strategy' = Started(strategy, Context(compressed_pos', unpacked_pos',
                          checkpoint_data_bytes, last_checkpoint_pos, index.checkpoints))
      BY <1>3 DEF Decode
    <3>2. Context(compressed_pos', unpacked_pos', checkpoint_data_bytes,
                  last_checkpoint_pos, index.checkpoints).size = index.compressed_len
      BY DEF Context
    <3> QED BY <3>1, <3>2
  <2>2. UNCHANGED <<index, stop_at, passes>>
    BY <1>3 DEF Decode
  <2>3. strategy.started => Started(strategy, ctx) = strategy
    BY DEF Started
  <2>4. CASE strategy' = strategy
    BY <1>1, <2>2, <2>4
  <2>5. CASE strategy' = Started(strategy, ctx)
    <3>1. /\ Fields(strategy')
          /\ strategy'.kind = strategy.kind /\ strategy'.min = strategy.min
          /\ strategy'.ratio = strategy.ratio
          /\ strategy.kind # "BudgetRatio" => strategy'.budget = strategy.budget
      BY <1>1, <1>2, <2>1, <2>5, StartedKeeps
    <3>2. /\ strategy'.budget \in Nat
          /\ index.compressed_len = 0 => strategy'.budget = strategy.budget
      BY <1>1, <1>2, <2>1, <2>5, RatioBudget
    <3> QED BY <1>3, <2>2, <2>3, <2>5, <3>1, <3>2
  <2> QED BY <2>1, <2>4, <2>5
<1>4. CASE Lay
  <2>1. PICK ctx : strategy' \in {strategy, AfterCheckpoint(strategy, ctx)}
    BY <1>4 DEF Lay
  <2>2. index'.compressed_len = index.compressed_len
    BY <1>2, <1>4 DEF Lay, StreamIndexType
  <2>3. ~ Decode /\ UNCHANGED <<stop_at, passes>>
    BY <1>4 DEF Lay, Decode
  <2> QED BY <1>1, <2>1, <2>2, <2>3, AfterCheckpointKeeps
<1>5. CASE Thin \/ ThinEnd
  <2>1. strategy' = AfterThinAsked(strategy, ThinContext)
    BY <1>5 DEF Thin, ThinEnd
  <2>2. ThinContext.size = index.compressed_len
    BY DEF ThinContext, Context
  <2>3. index'.compressed_len = index.compressed_len
    BY <1>2, <1>5 DEF Thin, ThinEnd, StreamIndexType
  <2>4. ~ Decode /\ UNCHANGED <<stop_at, passes>>
    BY <1>5 DEF Thin, ThinEnd, Decode
  <2>5. strategy.started => AfterThinAsked(strategy, ThinContext).started
    BY <1>1, <1>2, <2>2, AfterThinAskedKeeps
  <2> QED BY <1>1, <1>2, <2>1, <2>2, <2>3, <2>4, <2>5, AfterThinAskedKeeps
<1>6. CASE ~ Decode /\ ~ Lay /\ ~ Thin /\ ~ ThinEnd
  BY <1>1, <1>6, QuietSteps
<1> QED
  BY <1>3, <1>4, <1>5, <1>6

\* The strategy is one of those given, with the budget the size gives it.
LEMMA GivenInv == Inv /\ Given /\ [Next]_vars => Given'
<1> SUFFICES ASSUME Inv, Given, [Next]_vars PROVE Given'
  OBVIOUS
<1>1. CASE Resume
  <2>1. strategy' \in Strategies /\ IsNew(strategy')
    BY <1>1, StrategiesAssumption DEF Resume
  <2>2. strategy' \in Strategy
    BY <2>1 DEF IsNew
  <2>3. Fields(strategy') /\ strategy'.budget \in Nat
    BY <2>2 DEF Strategy, Fields, Names
  <2>4. strategy'.kind = "BudgetRatio" => strategy'.budget = 0
    BY <2>1 DEF IsNew, FixedInterval, Budget, BudgetRatio, ThinningBudget
  <2> QED BY <2>1, <2>3, <2>4 DEF Given
<1>2. CASE ~ Resume
  <2>1. strategy'.kind = "BudgetRatio" => strategy'.started \/ strategy'.budget = 0
    <3>1. CASE Decode /\ strategy.kind = "BudgetRatio" /\ ~ strategy.started
      <4>1. index.compressed_len \in Nat
        BY DEF Inv, TypeOK, StreamIndexType
      <4>2. \/ strategy' = strategy
            \/ strategy' = Started(strategy, Context(compressed_pos', unpacked_pos',
                 checkpoint_data_bytes, last_checkpoint_pos, index.checkpoints))
        BY <3>1 DEF Decode
      <4>3. Context(compressed_pos', unpacked_pos', checkpoint_data_bytes,
                    last_checkpoint_pos, index.checkpoints).size = index.compressed_len
        BY DEF Context
      <4> QED BY <3>1, <4>1, <4>2, <4>3, StartedKeeps DEF Given
    <3>2. CASE ~ (Decode /\ strategy.kind = "BudgetRatio" /\ ~ strategy.started)
      BY <1>2, <3>2, StrategySteps DEF Given
    <3> QED BY <3>1, <3>2
  <2> QED BY <1>2, <2>1, StrategySteps DEF Given
<1> QED
  BY <1>1, <1>2

\* The totals are numbers, the last checkpoint's size among them.
LEMMA Totals ==
  ASSUME Inv, DataBytesExact
  PROVE  /\ index.checkpoints \in Seq(Checkpoint) /\ Len(index.checkpoints) \in Nat /\ Len(index.checkpoints) # 0
         /\ LastCheckpoint(index.checkpoints) \in Checkpoint
         /\ LastCheckpoint(index.checkpoints).size \in Nat
         /\ LastCheckpoint(index.checkpoints).unpacked \in Nat
         /\ LastCheckpoint(index.checkpoints).unpacked <= unpacked_pos
         /\ checkpoint_data_bytes \in Nat /\ unpacked_pos \in Nat
         /\ last_checkpoint_pos = LastCheckpoint(index.checkpoints).unpacked
         /\ index.compressed_len \in Nat /\ index.indexed_to \in Nat
<1>1. index.checkpoints \in Seq(Checkpoint) /\ index.checkpoints # <<>>
  BY DEF Inv, TypeOK, StreamIndexType, Tabled, TableInOrder
<1>2. LastCheckpoint(index.checkpoints) \in Checkpoint
      /\ Len(index.checkpoints) \in Nat \ {0}
  BY <1>1, LastType
<1>3. checkpoint_data_bytes \in Nat
  BY <1>1, DataBytesType DEF DataBytesExact
<1>4. LastCheckpoint(index.checkpoints).size \in Nat
      /\ LastCheckpoint(index.checkpoints).unpacked \in Nat
  BY <1>2 DEF Checkpoint
<1>5. /\ LastCheckpoint(index.checkpoints).unpacked <= unpacked_pos
      /\ last_checkpoint_pos = LastCheckpoint(index.checkpoints).unpacked
  BY DEF Inv, Tabled
<1> QED
  BY <1>1, <1>2, <1>3, <1>4, <1>5 DEF Inv, TypeOK, StreamIndexType

\* In the first pass whatever reaches past what is covered is asked about.
LEMMA FirstPassInv == Inv /\ DataBytesExact /\ Given /\ FirstPass /\ [Next]_vars => FirstPass'
<1> SUFFICES ASSUME Inv, DataBytesExact, Given, FirstPass, [Next]_vars PROVE FirstPass'
  OBVIOUS
<1>1. CASE Resume
  BY <1>1 DEF Resume, FirstPass, Inv, TypeOK
<1>2. CASE Decode
  <2>1. PICK result \in Outcomes(decoder, InputLeft, OutSize) :
          /\ unpacked_pos' = unpacked_pos + result.produced
          /\ result.produced > 0 /\ unpacked_pos' > index.indexed_to =>
               strategy' = Started(strategy, Context(compressed_pos', unpacked_pos',
                              checkpoint_data_bytes, last_checkpoint_pos, index.checkpoints))
    BY <1>2 DEF Decode
  <2>2. result.produced \in Nat
    <3>1. InputLeft \in Nat
      BY DEF Inv, TypeOK, InputLeft
    <3>2. result.produced \in 0..OutSize
      BY <3>1, OutcomesBounded, BoundsAssumption DEF Inv, Placed
    <3> QED BY <3>2, BoundsAssumption
  <2>3. UNCHANGED <<index, passes>> /\ ~ Resume
    BY <1>2 DEF Decode, caller, Resume
  <2>4. unpacked_pos \in Nat /\ index.indexed_to \in Nat /\ index.compressed_len \in Nat
    BY Totals
  <2>5. CASE result.produced = 0
    BY <2>1, <2>3, <2>4, <2>5, StrategySteps DEF FirstPass
  <2>6. CASE result.produced > 0 /\ passes = 1
    <3>1. unpacked_pos' > index.indexed_to /\ index.indexed_to <= unpacked_pos'
      BY <2>1, <2>2, <2>4, <2>6 DEF FirstPass
    <3> DEFINE ctx == Context(compressed_pos', unpacked_pos', checkpoint_data_bytes,
                              last_checkpoint_pos, index.checkpoints)
    <3>2. ctx.size = index.compressed_len
      BY DEF Context
    <3>3. strategy' = Started(strategy, ctx)
      BY <2>1, <2>6, <3>1
    <3> HIDE DEF ctx
    <3>4. strategy'.kind \in {"ThinningBudget", "BudgetRatio"} => strategy'.started
      BY <2>4, <3>2, <3>3, StartedKeeps DEF Given
    <3> QED BY <2>3, <2>6, <3>1, <3>4 DEF FirstPass
  <2>7. CASE passes # 1
    BY <2>3, <2>7 DEF FirstPass
  <2> QED BY <2>2, <2>5, <2>6, <2>7
<1>3. CASE Lay \/ Thin \/ ThinEnd
  <2>1. unpacked_pos' = unpacked_pos /\ index'.indexed_to = index.indexed_to /\ ~ Resume
    BY <1>3 DEF Lay, Thin, ThinEnd, progress, Resume, Inv, TypeOK, StreamIndexType
  <2> QED BY <2>1, StrategySteps DEF FirstPass
<1>4. CASE ~ Decode /\ ~ Lay /\ ~ Thin /\ ~ ThinEnd /\ ~ Resume
  <2>1. unpacked_pos \in Nat
    BY Totals
  <2> QED BY <1>4, <2>1, QuietSteps DEF FirstPass
<1> QED
  BY <1>1, <1>2, <1>3, <1>4

-----------------------------------------------------------------------------
(***************************************************************************)
(* ThinningBudget's budget.                                                *)
(***************************************************************************)

\* Within a setting of one budget the table is thinned to it.
Budgeted == passes = 1 \/ OneSetting => ThinnedToBudget

\* What laying does to the totals.
LEMMA LayTotals ==
  ASSUME Inv, DataBytesExact, Lay
  PROVE  /\ Len(index'.checkpoints) = Len(index.checkpoints) + 1
         /\ LastCheckpoint(index'.checkpoints).size \in Nat
         /\ checkpoint_data_bytes' =
              checkpoint_data_bytes + LastCheckpoint(index'.checkpoints).size
<1>1. PICK size \in Sizes :
        /\ index' = [index EXCEPT !.checkpoints =
                       Append(index.checkpoints,
                              [packed |-> compressed_pos, unpacked |-> unpacked_pos,
                               size |-> size, at |-> decoder])]
        /\ checkpoint_data_bytes' = checkpoint_data_bytes + size
  BY DEF Lay, BytesWith
<1> DEFINE cp == [packed |-> compressed_pos, unpacked |-> unpacked_pos,
                  size |-> size, at |-> decoder]
           cps == index.checkpoints
<1>2. cp.size = size /\ size \in Nat
  BY BoundsAssumption
<1>3. index'.checkpoints = Append(cps, cp) /\ cps \in Seq(Checkpoint)
  BY <1>1 DEF Inv, TypeOK, StreamIndexType
<1> HIDE DEF cp
<1>4. Len(Append(cps, cp)) = Len(cps) + 1 /\ Append(cps, cp)[Len(cps) + 1] = cp
  BY <1>3
<1> QED
  BY <1>1, <1>2, <1>3, <1>4 DEF LastCheckpoint

\* What thinning does to the totals.
LEMMA ThinTotals ==
  ASSUME Inv, DataBytesExact, Thin
  PROVE  /\ index'.checkpoints = Thinned(index.checkpoints)
         /\ Len(index.checkpoints) > 1
         /\ checkpoint_data_bytes' \in Nat
         /\ checkpoint_data_bytes' <= checkpoint_data_bytes
         /\ Len(index.checkpoints) = 2 => Len(index'.checkpoints) = 1
         /\ Len(index.checkpoints) # 2 =>
              LastCheckpoint(index'.checkpoints) = LastCheckpoint(index.checkpoints)
<1> DEFINE cps == index.checkpoints
           new == Thinned(cps)
<1>1. cps \in Seq(Checkpoint) /\ TableInOrder(cps) /\ Len(cps) > 1
  BY DEF Inv, TypeOK, Tabled, StreamIndexType, Thin, CanThin
<1>2. new \in Seq(Checkpoint) /\ (Len(cps) # 2 => LastCheckpoint(new) = LastCheckpoint(cps))
      /\ (Len(cps) = 2 => Len(new) = 1)
  BY <1>1, ThinnedInOrder
<1>3. index'.checkpoints = new /\ checkpoint_data_bytes' = DataBytes(new)
  BY DEF Thin, Inv, TypeOK, StreamIndexType
<1>4. DataBytes(new) <= DataBytes(cps) /\ DataBytes(new) \in Nat
  BY <1>1, <1>2, DataBytesThinned, DataBytesType
<1>5. PICK n \in Nat : n = Len(cps) /\ n > 1
  BY <1>1
<1>6. /\ checkpoint_data_bytes' \in Nat
      /\ checkpoint_data_bytes' <= checkpoint_data_bytes
  BY <1>3, <1>4 DEF DataBytesExact
<1>7. n # 2 => LastCheckpoint(new) = LastCheckpoint(cps)
  BY <1>2, <1>5
<1> HIDE DEF new
<1>8. /\ Len(cps) = 2 => Len(index'.checkpoints) = 1
      /\ n # 2 => LastCheckpoint(index'.checkpoints) = LastCheckpoint(cps)
  BY <1>2, <1>3, <1>7
<1> QED
  BY <1>3, <1>5, <1>6, <1>8 DEF new

\* Laying exceeds the budget by the one checkpoint; the thinning loop ends only
\* when it is met or only the start is left.
LEMMA BudgetedInv ==
  Inv /\ DataBytesExact /\ Given /\ FirstPass /\ Budgeted /\ [Next]_vars => Budgeted'
<1> SUFFICES ASSUME Inv, DataBytesExact, Given, FirstPass, Budgeted, [Next]_vars,
                    (passes = 1 \/ OneSetting)', strategy'.kind = "ThinningBudget"
             PROVE  ThinnedToBudget'
  BY DEF Budgeted, ThinnedToBudget
<1> DEFINE cps == index.checkpoints
           new == index'.checkpoints
<1>0. PICK n \in Nat : n = Len(cps) /\ n # 0
  BY Totals
<1>a. n \in Nat /\ n # 0 /\ (n > 1 \/ n = 1)
  <2>1. \A k \in Nat : k # 0 => k > 1 \/ k = 1
    OBVIOUS
  <2> QED BY <1>0, <2>1
<1>1. /\ checkpoint_data_bytes \in Nat
      /\ strategy.budget \in Nat /\ LastCheckpoint(cps).size \in Nat
  BY Totals DEF Given
<1>2. OneSetting' <=> OneSetting
  BY DEF OneSetting
<1>3. CASE Resume
  <2>1. /\ strategy' \in Strategies /\ index' = index /\ pc = "finished"
        /\ checkpoint_data_bytes' = checkpoint_data_bytes /\ passes' = passes + 1
    BY <1>3 DEF Resume, DataBytesExact
  <2>2. OneSetting
    BY <1>2, <2>1 DEF FirstPass, Inv, TypeOK
  <2>3. strategy.kind = "ThinningBudget" /\ strategy.budget = strategy'.budget
    BY <2>1, <2>2 DEF OneSetting, Given
  <2> QED BY <2>1, <2>2, <2>3 DEF Budgeted, ThinnedToBudget
<1>4. CASE ~ Resume
  <2>1. strategy.kind = "ThinningBudget" /\ strategy'.budget = strategy.budget
        /\ passes' = passes
    BY <1>4, StrategySteps
  <2>2. \/ checkpoint_data_bytes <= strategy.budget
        \/ n = 1
        \/ /\ pc = "thin"
           /\ \/ checkpoint_data_bytes - LastCheckpoint(cps).size <= strategy.budget
              \/ n = 2
    BY <1>0, <1>2, <2>1 DEF Budgeted, ThinnedToBudget
  <2>3. CASE Lay
    <3>1. /\ Len(new) = n + 1 /\ LastCheckpoint(new).size \in Nat
          /\ checkpoint_data_bytes' = checkpoint_data_bytes + LastCheckpoint(new).size
      BY <1>0, <2>3, LayTotals
    <3>2. pc = "lay" /\ pc' = "thin"
      BY <2>3 DEF Lay
    <3>3. \A a, b, c \in Nat : a <= b => (a + c) - c <= b
      OBVIOUS
    <3>4. pc # "thin"
      BY <3>2
    <3>5. CASE n = 1
      <4>1. Len(new) = 2
        BY <3>1, <3>5
      <4> QED BY <3>2, <4>1 DEF ThinnedToBudget
    <3>6. CASE checkpoint_data_bytes <= strategy.budget
      <4>1. checkpoint_data_bytes' - LastCheckpoint(new).size <= strategy.budget
        BY <1>1, <3>1, <3>3, <3>6
      <4> QED BY <2>1, <3>2, <4>1 DEF ThinnedToBudget
    <3> QED BY <2>2, <3>4, <3>5, <3>6
  <2>4. CASE Thin
    <3>1. /\ n > 1 /\ checkpoint_data_bytes' \in Nat
          /\ checkpoint_data_bytes' <= checkpoint_data_bytes
          /\ n = 2 => Len(new) = 1
          /\ n # 2 => LastCheckpoint(new) = LastCheckpoint(cps)
      BY <1>0, <2>4, ThinTotals
    <3>2. pc' = "thin" /\ checkpoint_data_bytes > strategy.budget
      BY <2>4 DEF Thin, ShouldThin, ThinContext, Context
    <3>3. CASE n = 2
      BY <3>1, <3>3 DEF ThinnedToBudget
    <3>4. CASE n # 2
      <4>0. n \notin {1, 2} /\ ~ (checkpoint_data_bytes <= strategy.budget)
        <5>1. \A k \in Nat : k > 1 => k # 1
          OBVIOUS
        <5>2. n > 1
          BY <3>1
        <5>3. n # 1
          BY <1>a, <5>1, <5>2
        <5> QED BY <1>1, <3>2, <3>4, <5>3
      <4>1. checkpoint_data_bytes - LastCheckpoint(cps).size <= strategy.budget
        BY <2>2, <4>0
      <4>2. LastCheckpoint(new) = LastCheckpoint(cps)
        BY <3>1, <3>4
      <4>3. checkpoint_data_bytes' - LastCheckpoint(cps).size <= strategy.budget
        BY <1>1, <3>1, <4>1
      <4> QED BY <2>1, <3>2, <4>2, <4>3 DEF ThinnedToBudget
    <3> QED BY <1>0, <3>1, <3>3, <3>4
  <2>5. CASE ThinEnd
    <3>1. ~ (checkpoint_data_bytes > strategy.budget /\ n > 1)
      BY <1>0, <2>1, <2>5 DEF ThinEnd, ShouldThin, ThinContext, Context, CanThin
    <3>2. checkpoint_data_bytes <= strategy.budget \/ n = 1
      <4>1. checkpoint_data_bytes > strategy.budget \/ checkpoint_data_bytes <= strategy.budget
        BY <1>1
      <4> QED BY <1>a, <3>1, <4>1
    <3>3. UNCHANGED <<index, checkpoint_data_bytes>>
      BY <2>5 DEF ThinEnd, ledger
    <3> QED BY <1>0, <2>1, <3>2, <3>3 DEF ThinnedToBudget
  <2>6. CASE Decode
    <3>1. UNCHANGED <<index, checkpoint_data_bytes>> /\ pc = "call"
      BY <2>6 DEF Decode, ledger
    <3> QED BY <1>0, <2>1, <2>2, <3>1 DEF ThinnedToBudget
  <2>7. CASE ~ Decode /\ ~ Lay /\ ~ Thin /\ ~ ThinEnd
    BY <1>0, <1>4, <2>1, <2>2, <2>7, QuietSteps DEF ThinnedToBudget
  <2> QED BY <2>3, <2>4, <2>5, <2>6, <2>7
<1> QED
  BY <1>3, <1>4

-----------------------------------------------------------------------------
(***************************************************************************)
(* The budget of Budget and BudgetRatio.                                   *)
(***************************************************************************)

\* A table of more than the start was decoded for.
LEMMA DecodedSome ==
  ASSUME Inv, Len(index.checkpoints) > 1
  PROVE  unpacked_pos > 0
<1> DEFINE cps == index.checkpoints
<1>1. PICK n \in Nat : n = Len(cps) /\ n > 1
  BY DEF Inv, TypeOK, StreamIndexType
<1>2. cps \in Seq(Checkpoint) /\ TableInOrder(cps)
  BY DEF Inv, TypeOK, StreamIndexType, Tabled
<1>3. 1 \in 1..n /\ n \in 1..n /\ 1 < n
  BY <1>1
<1>4. cps[1] \in Checkpoint /\ cps[n] \in Checkpoint
  BY <1>1, <1>2, <1>3
<1>5. cps[1].unpacked < cps[n].unpacked
  BY <1>1, <1>2, <1>3 DEF TableInOrder
<1>6. cps[n].unpacked <= unpacked_pos
  BY <1>1 DEF Inv, Tabled, LastCheckpoint
<1>7. cps[1].unpacked \in Nat /\ cps[n].unpacked \in Nat /\ unpacked_pos \in Nat
  BY <1>4 DEF Checkpoint, Inv, TypeOK
<1> QED
  BY <1>5, <1>6, <1>7

\* Where the thinning loop leaves step() for.
LEMMA ThinEndLeaves ==
  ASSUME ThinEnd
  PROVE  /\ pc = "thin" /\ pc' \in {"settle", "OutputReady", "Done"}
         /\ UNCHANGED <<index, unpacked_pos, checkpoint_data_bytes>>
BY DEF ThinEnd, AfterCheckpointing, EndStep, ledger, progress

\* A strategy with a budget decides to lay only below it.
LEMMA BelowBudgetInv ==
  ASSUME Inv, DataBytesExact, Given, Given', FirstPass, BelowBudget, [Next]_vars
  PROVE  BelowBudget'
<1> SUFFICES ASSUME strategy'.kind \in {"Budget", "BudgetRatio"}, strategy'.budget > 0,
                    passes' = 1, stop_at' = NoStop, pc' = "lay"
             PROVE  checkpoint_data_bytes' < strategy'.budget
  BY DEF BelowBudget
<1>1. ~ Resume
  BY DEF Resume, FirstPass, Inv, TypeOK
<1>2. CASE Decode
  <2> DEFINE ctx == Context(compressed_pos', unpacked_pos', checkpoint_data_bytes,
                            last_checkpoint_pos, index.checkpoints)
  <2>1. strategy' = Started(strategy, ctx) /\ ShouldCheckpoint(Started(strategy, ctx), ctx)
    BY <1>2 DEF Decode
  <2>2. index' = index /\ checkpoint_data_bytes' = checkpoint_data_bytes
    BY <1>2 DEF Decode, ledger
  <2>3. ctx.size = index.compressed_len /\ ctx.bytes = checkpoint_data_bytes
    BY DEF Context
  <2> HIDE DEF ctx
  <2>4. ShouldCheckpoint(strategy', ctx)
    BY <2>1
  <2>5. strategy'.budget # 0
    BY DEF Given
  <2>6. strategy'.kind = "BudgetRatio" => ctx.size # 0
    BY <2>2, <2>3, <2>5 DEF Given
  <2>7. ctx.bytes < strategy'.budget
    BY <2>4, <2>6 DEF ShouldCheckpoint
  <2> QED BY <2>2, <2>3, <2>7
<1>3. CASE Lay \/ Thin
  BY <1>3 DEF Lay, Thin
<1>4. CASE ThinEnd
  BY <1>4, ThinEndLeaves
<1>5. CASE ~ Decode /\ ~ Lay /\ ~ Thin /\ ~ ThinEnd
  BY <1>1, <1>5, QuietSteps DEF BelowBudget, Stopped
<1> QED
  BY <1>2, <1>3, <1>4, <1>5

\* Laying below the budget overshoots by less than the checkpoint laid.
LEMMA OvershootInv ==
  ASSUME Inv, DataBytesExact, Given, FirstPass, BelowBudget, OvershootsByOne, [Next]_vars
  PROVE  OvershootsByOne'
<1> SUFFICES ASSUME strategy'.kind \in {"Budget", "BudgetRatio"}, strategy'.budget > 0,
                    passes' = 1, stop_at' = NoStop, Len(index'.checkpoints) > 1
             PROVE  checkpoint_data_bytes' <
                      strategy'.budget + LastCheckpoint(index'.checkpoints).size
  BY DEF OvershootsByOne
<1>1. ~ Resume
  BY DEF Resume, FirstPass, Inv, TypeOK
<1>2. /\ strategy.kind \in {"Budget", "BudgetRatio"} /\ strategy'.kind = strategy.kind
      /\ passes = 1 /\ stop_at = NoStop
      /\ strategy.kind # "BudgetRatio" \/ strategy.started \/ ~ Decode =>
           strategy'.budget = strategy.budget
  BY <1>1, StrategySteps
<1>3. CASE Decode
  <2>1. index' = index /\ checkpoint_data_bytes' = checkpoint_data_bytes
    BY <1>3 DEF Decode, ledger
  <2>2. unpacked_pos > 0
    BY <2>1, DecodedSome
  <2>3. strategy'.budget = strategy.budget
    BY <1>2, <2>2 DEF FirstPass
  <2> QED BY <1>2, <2>1, <2>3 DEF OvershootsByOne
<1>4. CASE Lay
  <2>1. /\ LastCheckpoint(index'.checkpoints).size \in Nat
        /\ checkpoint_data_bytes' =
             checkpoint_data_bytes + LastCheckpoint(index'.checkpoints).size
    BY <1>4, LayTotals
  <2>2. pc = "lay" /\ ~ Decode
    BY <1>4 DEF Lay, Decode
  <2>3. strategy'.budget = strategy.budget
    BY <1>2, <2>2
  <2>4. checkpoint_data_bytes < strategy.budget
    BY <1>2, <2>2, <2>3 DEF BelowBudget
  <2>5. checkpoint_data_bytes \in Nat /\ strategy.budget \in Nat
    BY Totals DEF Given
  <2> QED BY <2>1, <2>3, <2>4, <2>5
<1>5. CASE Thin
  BY <1>2, <1>5 DEF Thin, ShouldThin
<1>6. CASE ThinEnd
  <2>1. ~ Decode
    BY <1>6 DEF ThinEnd, Decode
  <2> QED BY <1>2, <1>6, <2>1, ThinEndLeaves DEF OvershootsByOne
<1>7. CASE ~ Decode /\ ~ Lay /\ ~ Thin /\ ~ ThinEnd
  BY <1>1, <1>7, QuietSteps DEF OvershootsByOne
<1> QED
  BY <1>3, <1>4, <1>5, <1>6, <1>7

-----------------------------------------------------------------------------
(***************************************************************************)
(* The gaps ThinningBudget leaves.                                         *)
(***************************************************************************)

\* With an interval of at least the first, a chunk fits after anything shorter
\* than the interval.
LEMMA Pace ==
  ASSUME NEW f \in Nat, f > 0, NEW o \in Nat, o > 0, NEW i \in Nat, f <= i
  PROVE  /\ i * (f + o - 1) \in Nat
         /\ (2 * i) * (f + o - 1) = i * (f + o - 1) + i * (f + o - 1)
         /\ f * o <= i * (f + o - 1)
         /\ \A s \in Nat : s < i => f * (s + o) <= i * (f + o - 1)
<1>1. f + o - 1 \in Nat /\ o - 1 \in Nat
  OBVIOUS
<1>2. \A x, y, z \in Nat : x <= y => x * z <= y * z
  <2> SUFFICES ASSUME NEW x \in Nat, NEW y \in Nat, NEW z \in Nat, x <= y
               PROVE  x * z <= y * z
    OBVIOUS
  <2>1. y * z = x * z + (y - x) * z
    OBVIOUS
  <2>2. (y - x) * z \in Nat /\ x * z \in Nat
    OBVIOUS
  <2> QED BY <2>1, <2>2
<1>3. f * (o - 1) <= i * (o - 1)
  BY <1>1, <1>2
<1>4. i * (f + o - 1) = i * f + i * (o - 1) /\ i * f \in Nat /\ i * (o - 1) \in Nat
  OBVIOUS
<1>5. ASSUME NEW s \in Nat, s < i
      PROVE  f * (s + o) <= i * (f + o - 1)
  <2>1. f * (s + o) = (s + 1) * f + f * (o - 1)
    OBVIOUS
  <2>2. (s + 1) * f <= i * f
    <3>1. s + 1 \in Nat /\ s + 1 <= i
      BY <1>5
    <3> QED BY <1>2, <3>1
  <2>3. (s + 1) * f \in Nat /\ f * (o - 1) \in Nat
    BY <1>1
  <2> QED BY <1>3, <1>4, <2>1, <2>2, <2>3
<1>6. i * (f + o - 1) \in Nat /\ (2 * i) * (f + o - 1) = i * (f + o - 1) + i * (f + o - 1)
  BY <1>1
<1>7. f * o <= i * (f + o - 1)
  <2>1. f * (0 + o) <= i * (f + o - 1)
    BY <1>5
  <2> QED BY <2>1
<1> QED
  BY <1>5, <1>6, <1>7

\* A checkpoint at the end adds one gap.
LEMMA GapsAppended ==
  ASSUME NEW cps \in Seq(Checkpoint), cps # <<>>, NEW cp \in Checkpoint, NEW f, NEW w,
         GapsWithin(cps, f, w), f * (cp.unpacked - LastCheckpoint(cps).unpacked) <= w
  PROVE  GapsWithin(Append(cps, cp), f, w)
<1> DEFINE new == Append(cps, cp)
<1>1. PICK n \in Nat : n = Len(cps)
  OBVIOUS
<1>2. /\ Len(new) = n + 1 /\ new[n + 1] = cp
      /\ \A i \in 1..n : new[i] = cps[i]
  BY <1>1
<1> HIDE DEF new
<1> SUFFICES ASSUME NEW i \in 1..n
             PROVE  f * (new[i + 1].unpacked - new[i].unpacked) <= w
  BY <1>2 DEF GapsWithin, new
<1>3. CASE i = n
  BY <1>1, <1>2, <1>3 DEF LastCheckpoint
<1>4. CASE i # n
  <2>1. i \in 1..(n - 1) /\ i + 1 \in 1..n
    BY <1>4
  <2>2. new[i + 1] = cps[i + 1] /\ new[i] = cps[i]
    BY <1>2, <2>1
  <2> QED BY <1>1, <2>1, <2>2 DEF GapsWithin
<1> QED
  BY <1>3, <1>4

\* thin() joins at most two neighbouring gaps.
LEMMA KeptPlacesNear ==
  ASSUME NEW cps \in Seq(Checkpoint), Len(cps) > 1,
         NEW j \in 1..(ThinnedLen(Len(cps)) - 1)
  PROVE  KeptPlace(cps, j + 1) \in {KeptPlace(cps, j) + 1, KeptPlace(cps, j) + 2}
<1>1. PICK n \in Nat : n = Len(cps) /\ n > 1
  OBVIOUS
<1> DEFINE L == ThinnedLen(n)
<1>2. L \in 1..(n - 1) /\ (n # 2 => L > 1 /\ 2 * (L - 1) \in {n, n - 1})
  BY <1>1, ThinnedLenBounds
<1>3. n = 2 => L = 1
  BY DEF ThinnedLen
<1> HIDE DEF L
<1>4. j \in 1..(L - 1)
  BY <1>1 DEF L
<1>5. n # 2 /\ j # L /\ L \in Nat /\ j \in Nat
  BY <1>1, <1>2, <1>3, <1>4
<1>6. KeptPlace(cps, j) = 2 * j - 1
  BY <1>1, <1>5 DEF KeptPlace, L
<1>7. KeptPlace(cps, j + 1) = IF j + 1 = L THEN n ELSE 2 * (j + 1) - 1
  BY <1>1, <1>5 DEF KeptPlace, L
<1>8. j + 1 = L => n \in {2 * j, 2 * j + 1}
  BY <1>1, <1>2, <1>5
<1> QED
  BY <1>1, <1>5, <1>6, <1>7, <1>8

\* Halving at most doubles the gaps between checkpoints.
LEMMA GapsThinned ==
  ASSUME NEW cps \in Seq(Checkpoint), Len(cps) > 1, NEW f \in Nat, NEW w \in Nat,
         GapsWithin(cps, f, w)
  PROVE  GapsWithin(Thinned(cps), f, w + w)
<1> DEFINE new == Thinned(cps)
           L == ThinnedLen(Len(cps))
<1>1. PICK n \in Nat : n = Len(cps) /\ n > 1
  OBVIOUS
<1>2. /\ Len(new) = L /\ L \in 1..(n - 1)
      /\ \A j \in 1..L : KeptPlace(cps, j) \in 1..n /\ new[j] = cps[KeptPlace(cps, j)]
  BY <1>1, ThinnedPlaces
<1>3. \A j \in 1..(L - 1) :
        KeptPlace(cps, j + 1) \in {KeptPlace(cps, j) + 1, KeptPlace(cps, j) + 2}
  BY <1>1, KeptPlacesNear
<1> HIDE DEF new, L
<1> SUFFICES ASSUME NEW j \in 1..(L - 1)
             PROVE  f * (new[j + 1].unpacked - new[j].unpacked) <= w + w
  BY <1>2 DEF GapsWithin, new
<1>4. j \in 1..L /\ j + 1 \in 1..L
  BY <1>1, <1>2
<1>5. PICK a \in 1..n, b \in 1..n :
        /\ a = KeptPlace(cps, j) /\ b = KeptPlace(cps, j + 1)
        /\ new[j] = cps[a] /\ new[j + 1] = cps[b] /\ b \in {a + 1, a + 2}
  BY <1>2, <1>3, <1>4
<1>6. \A i \in 1..n : cps[i].unpacked \in Nat
  <2>1. \A i \in 1..n : cps[i] \in Checkpoint
    BY <1>1
  <2> QED BY <2>1 DEF Checkpoint
<1>7. \A i \in 1..(n - 1) : f * (cps[i + 1].unpacked - cps[i].unpacked) <= w
  BY <1>1 DEF GapsWithin
<1>8. a \in 1..(n - 1)
  BY <1>1, <1>5
<1>9. CASE b = a + 1
  <2>1. f * (cps[b].unpacked - cps[a].unpacked) <= w
    BY <1>7, <1>8, <1>9
  <2>2. \A x \in Int : x <= w => x <= w + w
    OBVIOUS
  <2>3. f * (cps[b].unpacked - cps[a].unpacked) \in Int
    BY <1>6
  <2> QED BY <1>5, <2>1, <2>2, <2>3
<1>10. CASE b = a + 2
  <2>1. PICK x \in Nat, y \in Nat, z \in Nat :
          x = cps[a].unpacked /\ y = cps[a + 1].unpacked /\ z = cps[b].unpacked
    <3>1. a + 1 \in 1..n
      BY <1>8, <1>1
    <3> QED BY <1>6, <3>1
  <2>2. a + 1 \in 1..(n - 1) /\ (a + 1) + 1 = b
    BY <1>1, <1>10
  <2>3. f * (y - x) <= w /\ f * (z - y) <= w
    BY <1>7, <1>8, <2>1, <2>2
  <2>4. f * (z - x) = f * (y - x) + f * (z - y)
    OBVIOUS
  <2>5. f * (z - x) <= w + w
    BY <2>3, <2>4
  <2> QED BY <1>5, <2>1, <2>5
<1> QED
  BY <1>5, <1>9, <1>10

\* A question to ThinningBudget in the first pass leaves its interval: it was
\* asked before, or the table has only the start.
LEMMA IntervalKept ==
  ASSUME Inv, Given, FirstPass, strategy.kind = "ThinningBudget", passes = 1,
         NEW ctx, ctx.size \in Nat, ctx.count = Len(index.checkpoints)
  PROVE  Started(strategy, ctx).interval = strategy.interval
<1>1. CASE strategy.started
  BY <1>1, StartedKeeps DEF Given
<1>2. CASE ~ strategy.started
  <2>1. ~ (unpacked_pos > 0)
    BY <1>2 DEF FirstPass
  <2>2. ~ (Len(index.checkpoints) > 1)
    BY <2>1, DecodedSome
  <2>3. PICK n \in Nat : n = Len(index.checkpoints)
    BY DEF Inv, TypeOK, StreamIndexType
  <2>4. \A k \in Nat : ~ (k > 1) => k < 2
    OBVIOUS
  <2>5. ctx.count < 2
    BY <2>2, <2>3, <2>4
  <2> QED BY <2>5, StartedKeeps DEF Given
<1> QED
  BY <1>1, <1>2

\* The bounds are numbers, and a chunk fits after the shortest stretch.
LEMMA PacedNumbers ==
  ASSUME Inv, DataBytesExact, Paced,
         strategy.kind = "ThinningBudget", passes = 1, CheckpointAnywhere
  PROVE  /\ FirstOf(strategy) \in Nat /\ FirstOf(strategy) > 0
         /\ strategy.interval \in Nat /\ FirstOf(strategy) <= strategy.interval
         /\ OutSize \in Nat /\ OutSize > 0
         /\ WidestOf(strategy) \in Nat
         /\ WidestOf(strategy) = strategy.interval * (FirstOf(strategy) + OutSize - 1)
         /\ FirstOf(strategy) * OutSize <= WidestOf(strategy)
         /\ \A s \in Nat : s < strategy.interval =>
              FirstOf(strategy) * (s + OutSize) <= WidestOf(strategy)
         /\ Since \in Nat
<1>1. strategy.min \in Nat /\ strategy.interval \in Nat /\ FirstOf(strategy) <= strategy.interval
  BY DEF Paced
<1>2. FirstOf(strategy) \in Nat /\ FirstOf(strategy) > 0
  BY <1>1 DEF FirstOf
<1>3. OutSize \in Nat /\ OutSize > 0
  BY BoundsAssumption
<1>4. Since \in Nat
  BY Totals DEF Since
<1> QED
  BY <1>1, <1>2, <1>3, <1>4, Pace DEF WidestOf

\* Decoding: a stretch the strategy did not ask to close is shorter than the
\* interval, and one more chunk keeps it within the bound.
LEMMA PacedDecode ==
  ASSUME Inv, DataBytesExact, Given, FirstPass, Paced, Decode, [Next]_vars
  PROVE  Paced'
<1>1. /\ strategy'.kind = strategy.kind /\ strategy'.min = strategy.min
      /\ passes' = passes /\ ~ Resume
  <2>1. ~ Resume
    BY DEF Resume, Decode
  <2> QED BY <2>1, StrategySteps
<1> SUFFICES ASSUME strategy.kind = "ThinningBudget", passes = 1, CheckpointAnywhere
             PROVE  Paced'
  BY <1>1 DEF Paced
<1> DEFINE ctx == Context(compressed_pos', unpacked_pos', checkpoint_data_bytes,
                          last_checkpoint_pos, index.checkpoints)
           started == Started(strategy, ctx)
           f == FirstOf(strategy)
           w == WidestOf(strategy)
<1>2. PICK result \in Outcomes(decoder, InputLeft, OutSize) :
        /\ unpacked_pos' = unpacked_pos + result.produced
        /\ IF result.produced > 0 /\ unpacked_pos' > index.indexed_to
             THEN /\ strategy' = started
                  /\ pc' = IF ShouldCheckpoint(started, ctx) THEN "lay" ELSE "settle"
             ELSE pc' = "settle" /\ strategy' = strategy
  BY DEF Decode
<1>3. result.produced \in 0..OutSize /\ result.produced \in Nat
  <2>1. InputLeft \in Nat
    BY DEF Inv, TypeOK, InputLeft
  <2>2. result.produced \in 0..OutSize
    BY <2>1, OutcomesBounded, BoundsAssumption DEF Inv, Placed
  <2> QED BY <2>2, BoundsAssumption
<1>4. index' = index /\ pc = "call"
  BY DEF Decode
<1>5. /\ f \in Nat /\ f > 0 /\ strategy.interval \in Nat /\ f <= strategy.interval
      /\ OutSize \in Nat /\ w \in Nat /\ Since \in Nat
      /\ \A s \in Nat : s < strategy.interval => f * (s + OutSize) <= w
  BY PacedNumbers
<1>6. /\ ctx.size = index.compressed_len /\ ctx.count = Len(index.checkpoints)
      /\ ctx.unpacked = unpacked_pos' /\ ctx.last = last_checkpoint_pos
  BY DEF Context
<1>7. /\ LastCheckpoint(index.checkpoints).unpacked \in Nat
      /\ last_checkpoint_pos = LastCheckpoint(index.checkpoints).unpacked
      /\ unpacked_pos \in Nat /\ index.compressed_len \in Nat /\ index.indexed_to \in Nat
  BY Totals
<1> HIDE DEF ctx
<1>8. started.interval = strategy.interval
  BY <1>6, <1>7, IntervalKept
<1>9. strategy'.interval = strategy.interval
  BY <1>2, <1>8
<1>10. FirstOf(strategy)' = f /\ WidestOf(strategy)' = w
  BY <1>1, <1>9 DEF FirstOf, WidestOf
<1>11. Since' = Since + result.produced /\ Since' = unpacked_pos' - last_checkpoint_pos
  BY <1>2, <1>3, <1>4, <1>7 DEF Since
<1> HIDE DEF f, w
<1>12. f * (Since + OutSize) <= w
  BY <1>4 DEF Paced, f, w
<1>13. f * Since' <= w
  <2>1. \A x, p, o \in Nat : p <= o => f * (x + p) <= f * (x + o)
    <3> SUFFICES ASSUME NEW x \in Nat, NEW p \in Nat, NEW o \in Nat, p <= o
                 PROVE  f * (x + p) <= f * (x + o)
      OBVIOUS
    <3>1. f * (x + o) = f * (x + p) + f * (o - p) /\ f * (o - p) \in Nat
      BY <1>5
    <3>2. f * (x + p) \in Nat
      BY <1>5
    <3> QED BY <3>1, <3>2
  <2>2. result.produced <= OutSize
    BY <1>3, <1>5
  <2>3. f * (Since + result.produced) <= f * (Since + OutSize)
    BY <1>3, <1>5, <2>1, <2>2
  <2>4. /\ f * (Since + result.produced) \in Nat /\ f * (Since + OutSize) \in Nat
    BY <1>3, <1>5
  <2> QED BY <1>5, <1>11, <1>12, <2>3, <2>4
<1>14. pc' # "lay" => f * (Since' + OutSize) <= w
  <2> SUFFICES ASSUME pc' # "lay" PROVE f * (Since' + OutSize) <= w
    OBVIOUS
  <2>1. CASE result.produced = 0
    BY <1>5, <1>11, <1>12, <2>1
  <2>2. CASE result.produced > 0
    <3>1. unpacked_pos' > index.indexed_to
      BY <1>2, <1>3, <1>7, <2>2 DEF FirstPass
    <3>2. strategy' = started /\ ~ ShouldCheckpoint(started, ctx)
      BY <1>2, <2>2, <3>1
    <3>3. started.kind = "ThinningBudget"
      BY <1>1, <3>2
    <3>4. ~ (ctx.unpacked - ctx.last >= started.interval)
      BY <3>2, <3>3 DEF ShouldCheckpoint
    <3>5. ~ (Since' >= strategy.interval)
      BY <1>6, <1>8, <1>11, <3>4
    <3>6. Since' \in Nat
      BY <1>3, <1>5, <1>11
    <3>7. Since' < strategy.interval
      BY <1>5, <3>5, <3>6
    <3> QED BY <1>5, <3>6, <3>7
  <2> QED BY <1>3, <2>1, <2>2
<1>15. GapsWithin(index.checkpoints, f, w)
  BY DEF Paced, f, w
<1>16. strategy'.min \in Nat /\ strategy'.interval \in Nat /\ f <= strategy'.interval
  BY <1>1, <1>5, <1>9 DEF Paced
<1> QED
  BY <1>4, <1>10, <1>13, <1>14, <1>15, <1>16 DEF Paced, f, w

\* Laying closes the stretch.
LEMMA PacedLay ==
  ASSUME Inv, DataBytesExact, Given, FirstPass, Paced, Lay, [Next]_vars
  PROVE  Paced'
<1>1. strategy'.kind = strategy.kind /\ passes' = passes
  <2>1. ~ Resume
    BY DEF Resume, Lay
  <2> QED BY <2>1, StrategySteps
<1> SUFFICES ASSUME strategy.kind = "ThinningBudget", passes = 1, CheckpointAnywhere
             PROVE  Paced'
  BY <1>1 DEF Paced
<1> DEFINE cps == index.checkpoints
<1>2. strategy' = strategy
  BY AfterCheckpointKeeps DEF Lay, Given
<1>3. PICK cp \in Checkpoint :
        /\ cp.unpacked = unpacked_pos
        /\ index' = [index EXCEPT !.checkpoints = Append(cps, cp)]
        /\ LastCheckpoint(Append(cps, cp)) = cp
  BY LayTable
<1>4. index'.checkpoints = Append(cps, cp) /\ cps \in Seq(Checkpoint) /\ cps # <<>>
  BY <1>3 DEF Inv, TypeOK, StreamIndexType, Tabled, TableInOrder
<1>5. unpacked_pos' = unpacked_pos /\ unpacked_pos \in Nat
  BY Totals DEF Lay, progress
<1>6. FirstOf(strategy)' = FirstOf(strategy) /\ WidestOf(strategy)' = WidestOf(strategy)
  BY <1>2 DEF FirstOf, WidestOf
<1>7. Since' = 0
  BY <1>3, <1>4, <1>5 DEF Since
<1>8. FirstOf(strategy) * (cp.unpacked - LastCheckpoint(cps).unpacked) <= WidestOf(strategy)
  BY <1>3 DEF Paced, Since
<1>9. GapsWithin(cps, FirstOf(strategy), WidestOf(strategy))
  BY DEF Paced
<1>10. GapsWithin(index'.checkpoints, FirstOf(strategy), WidestOf(strategy))
  BY <1>4, <1>8, <1>9, GapsAppended
<1>11. /\ FirstOf(strategy) * 0 <= WidestOf(strategy)
       /\ FirstOf(strategy) * (0 + OutSize) <= WidestOf(strategy)
  BY PacedNumbers
<1>12. strategy.min \in Nat /\ strategy.interval \in Nat /\ FirstOf(strategy) <= strategy.interval
  BY DEF Paced
<1> QED
  BY <1>2, <1>6, <1>7, <1>10, <1>11, <1>12 DEF Paced

\* Twice the interval is twice the bound.
LEMMA WidestDoubles ==
  ASSUME NEW s, NEW t, t.min = s.min, t.interval = 2 * s.interval,
         s.interval \in Nat, FirstOf(s) \in Nat, FirstOf(s) > 0, FirstOf(s) <= s.interval
  PROVE  FirstOf(t) = FirstOf(s) /\ WidestOf(t) = WidestOf(s) + WidestOf(s)
<1>1. FirstOf(t) = FirstOf(s)
  BY DEF FirstOf
<1> DEFINE f == FirstOf(s)
<1>2. f + OutSize - 1 \in Nat
  BY BoundsAssumption
<1>3. \A i, k \in Nat : (2 * i) * k = i * k + i * k
  OBVIOUS
<1> HIDE DEF f
<1>4. (2 * s.interval) * (f + OutSize - 1)
        = s.interval * (f + OutSize - 1) + s.interval * (f + OutSize - 1)
  BY <1>2, <1>3
<1> QED
  BY <1>1, <1>4 DEF WidestOf, f

\* Thinning joins two gaps at most and doubles the interval.
LEMMA PacedThin ==
  ASSUME Inv, DataBytesExact, Given, FirstPass, Paced, Thin, [Next]_vars
  PROVE  Paced'
<1>1. strategy'.kind = strategy.kind /\ strategy'.min = strategy.min /\ passes' = passes
  <2>1. ~ Resume
    BY DEF Resume, Thin
  <2> QED BY <2>1, StrategySteps
<1> SUFFICES ASSUME strategy.kind = "ThinningBudget", passes = 1, CheckpointAnywhere
             PROVE  Paced'
  BY <1>1 DEF Paced
<1> DEFINE cps == index.checkpoints
           new == Thinned(cps)
           f == FirstOf(strategy)
           w == WidestOf(strategy)
<1>2. /\ f \in Nat /\ f > 0 /\ strategy.interval \in Nat /\ f <= strategy.interval
      /\ OutSize \in Nat /\ w \in Nat /\ Since \in Nat /\ f * OutSize <= w
  BY PacedNumbers
<1>3. strategy'.interval = 2 * strategy.interval
  <2>1. ThinContext.size = index.compressed_len /\ ThinContext.count = Len(index.checkpoints)
    BY DEF ThinContext, Context
  <2>2. index.compressed_len \in Nat
    BY Totals
  <2>3. Started(strategy, ThinContext).interval = strategy.interval
    BY <2>1, <2>2, IntervalKept
  <2> QED BY <2>1, <2>2, <2>3, AfterThinAskedKeeps DEF Thin, Given
<1>4. FirstOf(strategy)' = f /\ WidestOf(strategy)' = w + w
  <2>1. FirstOf(strategy') = f /\ WidestOf(strategy') = w + w
    BY <1>1, <1>2, <1>3, WidestDoubles
  <2> QED BY <2>1 DEF FirstOf, WidestOf
<1> HIDE DEF f, w
<1>5. /\ index'.checkpoints = new /\ pc = "thin" /\ pc' = "thin"
      /\ unpacked_pos' = unpacked_pos
  BY ThinTotals DEF Thin, progress
<1>6. PICK n \in Nat : n = Len(cps) /\ n > 1
  BY ThinTotals DEF Inv, TypeOK, StreamIndexType
<1>7. cps \in Seq(Checkpoint) /\ TableInOrder(cps)
  BY DEF Inv, TypeOK, StreamIndexType, Tabled
<1>8. GapsWithin(cps, f, w) /\ f * (Since + OutSize) <= w /\ f * Since <= w
  BY <1>5 DEF Paced, f, w
<1>9. GapsWithin(new, f, w + w)
  BY <1>2, <1>6, <1>7, <1>8, GapsThinned
<1>10. PICK gap \in Nat : Since' = Since + gap /\ f * gap <= w
  <2>1. CASE n # 2
    <3>1. Since' = Since
      BY <1>5, <1>6, <2>1, ThinTotals DEF Since
    <3> QED BY <1>2, <3>1
  <2>2. CASE n = 2
    <3>0. \A i \in 1..n : cps[i] \in Checkpoint
      BY <1>6, <1>7
    <3>1. cps[1] \in Checkpoint /\ cps[2] \in Checkpoint
      BY <2>2, <3>0
    <3>2. PICK x \in Nat, y \in Nat : x = cps[1].unpacked /\ y = cps[2].unpacked
      BY <3>1 DEF Checkpoint
    <3>3. x < y
      BY <1>6, <1>7, <2>2, <3>2 DEF TableInOrder
    <3>4. f * (y - x) <= w
      <4>1. f * (cps[1 + 1].unpacked - cps[1].unpacked) <= w
        BY <1>6, <1>8, <2>2 DEF GapsWithin
      <4> QED BY <3>2, <4>1
    <3>5. LastCheckpoint(cps) = cps[2]
      BY <1>6, <2>2 DEF LastCheckpoint
    <3>6. LastCheckpoint(new) = cps[1]
      <4>1. new[1] = cps[1] /\ Len(new) = 1
        <5>1. Len(cps) = 2 /\ Len(cps) > 1
          BY <1>6, <2>2
        <5>2. /\ KeptPlace(cps, 1) = 1 /\ ThinnedLen(Len(cps)) = 1
              /\ Len(new) = ThinnedLen(Len(cps))
              /\ \A j \in 1..ThinnedLen(Len(cps)) : new[j] = cps[KeptPlace(cps, j)]
          BY <1>7, <5>1, ThinnedPlaces DEF ThinnedLen
        <5> QED BY <5>2
      <4> QED BY <4>1 DEF LastCheckpoint
    <3>7. unpacked_pos \in Nat
      BY Totals
    <3>8. Since = unpacked_pos - y /\ Since' = unpacked_pos - x
      BY <1>5, <3>2, <3>5, <3>6 DEF Since
    <3>9. Since' = Since + (y - x) /\ y - x \in Nat
      BY <3>2, <3>3, <3>7, <3>8
    <3> QED BY <3>4, <3>9
  <2> QED BY <2>1, <2>2
<1>11. f * (Since' + OutSize) <= w + w /\ f * Since' <= w + w
  <2>1. f * (Since' + OutSize) = f * (Since + OutSize) + f * gap
    BY <1>2, <1>10
  <2>2. f * Since' = f * Since + f * gap
    BY <1>2, <1>10
  <2>3. /\ f * (Since + OutSize) \in Nat /\ f * gap \in Nat /\ f * Since \in Nat
    BY <1>2, <1>10
  <2> QED BY <1>2, <1>8, <1>10, <2>1, <2>2, <2>3
<1>12. /\ strategy'.min \in Nat /\ strategy'.interval \in Nat /\ f <= strategy'.interval
  BY <1>1, <1>2, <1>3 DEF Paced
<1> HIDE DEF new
<1> QED
  BY <1>4, <1>5, <1>9, <1>11, <1>12 DEF Paced

\* The last question of the loop may double the interval once more.
LEMMA PacedThinEnd ==
  ASSUME Inv, DataBytesExact, Given, FirstPass, Paced, ThinEnd, [Next]_vars
  PROVE  Paced'
<1>1. strategy'.kind = strategy.kind /\ strategy'.min = strategy.min /\ passes' = passes
  <2>1. ~ Resume
    BY DEF Resume, ThinEnd
  <2> QED BY <2>1, StrategySteps
<1> SUFFICES ASSUME strategy.kind = "ThinningBudget", passes = 1, CheckpointAnywhere
             PROVE  Paced'
  BY <1>1 DEF Paced
<1> DEFINE cps == index.checkpoints
           f == FirstOf(strategy)
           w == WidestOf(strategy)
<1>2. /\ f \in Nat /\ f > 0 /\ strategy.interval \in Nat /\ f <= strategy.interval
      /\ OutSize \in Nat /\ w \in Nat /\ Since \in Nat
  BY PacedNumbers
<1>3. strategy'.interval \in {strategy.interval, 2 * strategy.interval}
  <2>1. ThinContext.size = index.compressed_len /\ ThinContext.count = Len(index.checkpoints)
    BY DEF ThinContext, Context
  <2>2. index.compressed_len \in Nat
    BY Totals
  <2>3. Started(strategy, ThinContext).interval = strategy.interval
    BY <2>1, <2>2, IntervalKept
  <2> QED BY <2>1, <2>2, <2>3, AfterThinAskedKeeps DEF ThinEnd, Given
<1>4. PICK v \in Nat : w <= v /\ FirstOf(strategy)' = f /\ WidestOf(strategy)' = v
  <2>1. CASE strategy'.interval = strategy.interval
    BY <1>1, <1>2, <2>1 DEF FirstOf, WidestOf
  <2>2. CASE strategy'.interval = 2 * strategy.interval
    <3>1. FirstOf(strategy') = f /\ WidestOf(strategy') = w + w
      BY <1>1, <1>2, <2>2, WidestDoubles
    <3>2. FirstOf(strategy)' = f /\ WidestOf(strategy)' = w + w
      BY <3>1 DEF FirstOf, WidestOf
    <3> HIDE DEF f, w
    <3>3. w + w \in Nat /\ w <= w + w
      BY <1>2
    <3> QED BY <3>2, <3>3
  <2> QED BY <1>3, <2>1, <2>2
<1> HIDE DEF f, w
<1>5. index' = index /\ unpacked_pos' = unpacked_pos /\ pc = "thin"
  BY ThinEndLeaves
<1>6. GapsWithin(cps, f, w) /\ f * (Since + OutSize) <= w /\ f * Since <= w
  BY <1>5 DEF Paced, f, w
<1>7. Since' = Since
  BY <1>5 DEF Since
<1>8. GapsWithin(cps, f, v)
  <2> SUFFICES ASSUME NEW i \in 1..(Len(cps) - 1)
               PROVE  f * (cps[i + 1].unpacked - cps[i].unpacked) <= v
    BY DEF GapsWithin
  <2>1. f * (cps[i + 1].unpacked - cps[i].unpacked) <= w
    BY <1>6 DEF GapsWithin
  <2>2. f * (cps[i + 1].unpacked - cps[i].unpacked) \in Int
    <3>1. PICK n \in Nat : n = Len(cps)
      BY Totals
    <3>2. cps \in Seq(Checkpoint) /\ i \in 1..n /\ i + 1 \in 1..n
      BY <3>1, Totals
    <3>3. \A k \in 1..n : cps[k] \in Checkpoint
      BY <3>1, <3>2
    <3>4. PICK x \in Nat, y \in Nat : x = cps[i].unpacked /\ y = cps[i + 1].unpacked
      BY <3>2, <3>3 DEF Checkpoint
    <3>5. \A a, b, c \in Nat : a * (b - c) \in Int
      OBVIOUS
    <3> QED BY <1>2, <3>4, <3>5
  <2>3. \A x \in Int : x <= w => x <= v
    BY <1>2, <1>4
  <2> QED BY <2>1, <2>2, <2>3
<1>9. f * (Since + OutSize) <= v /\ f * Since <= v
  <2>1. f * (Since + OutSize) \in Nat /\ f * Since \in Nat
    BY <1>2
  <2> QED BY <1>2, <1>4, <1>6, <2>1
<1>10. strategy'.min \in Nat /\ strategy'.interval \in Nat /\ f <= strategy'.interval
  BY <1>1, <1>2, <1>3 DEF Paced
<1> QED
  BY <1>4, <1>5, <1>7, <1>8, <1>9, <1>10 DEF Paced

\* The other actions leave the table, the stretch and the interval alone; a
\* codec that can be checkpointed anywhere was not asked twice at one place.
LEMMA PacedQuiet ==
  ASSUME Inv, DataBytesExact, FirstPass, Paced, [Next]_vars,
         ~ Decode, ~ Lay, ~ Thin, ~ ThinEnd, ~ Resume
  PROVE  Paced'
<1>1. /\ strategy' = strategy /\ unpacked_pos' = unpacked_pos
      /\ index'.checkpoints = index.checkpoints /\ passes' = passes
      /\ pc \in {"Error", "finished"} => pc' \in {"Error", "finished"}
      /\ pc = "lay" => pc' \in {"lay", "Error"} \/ AlreadyLaid \/ ~ CheckpointAnywhere
  BY QuietSteps
<1> SUFFICES ASSUME strategy.kind = "ThinningBudget", passes = 1, CheckpointAnywhere
             PROVE  Paced'
  BY <1>1 DEF Paced
<1>2. FirstOf(strategy)' = FirstOf(strategy) /\ WidestOf(strategy)' = WidestOf(strategy)
      /\ Since' = Since
  BY <1>1 DEF FirstOf, WidestOf, Since
<1>3. pc' \notin {"lay", "Error", "finished"} =>
        FirstOf(strategy) * (Since + OutSize) <= WidestOf(strategy)
  <2>1. CASE AlreadyLaid
    <3>1. unpacked_pos \in Nat
      BY Totals
    <3>2. Since = 0
      BY <2>1, <3>1 DEF AlreadyLaid, Since
    <3>3. FirstOf(strategy) * (0 + OutSize) <= WidestOf(strategy)
      BY PacedNumbers
    <3> QED BY <3>2, <3>3
  <2>2. CASE ~ AlreadyLaid
    BY <1>1, <2>2 DEF Paced
  <2> QED BY <2>1, <2>2
<1> QED
  BY <1>1, <1>2, <1>3 DEF Paced

\* The gaps stay within bounds.
LEMMA PacedInv ==
  ASSUME Inv, DataBytesExact, Given, FirstPass, Paced, [Next]_vars
  PROVE  Paced'
<1>1. CASE Resume
  BY <1>1 DEF Resume, FirstPass, Inv, TypeOK, Paced
<1> QED
  BY <1>1, PacedDecode, PacedLay, PacedThin, PacedThinEnd, PacedQuiet

-----------------------------------------------------------------------------

\* A new pass from the start: one checkpoint, and a strategy never asked.
LEMMA StrategyInit ==
  ASSUME Init
  PROVE  Given /\ FirstPass /\ Budgeted /\ BelowBudget /\ OvershootsByOne /\ Paced
<1>1. PICK declared \in {UnknownLen, UnpackedLen}, known \in {0, file.len} :
        index = NewIndex(StartSize, declared, known)
  BY DEF Init
<1> DEFINE start == StartCheckpoint(StartSize)
<1>2. /\ index.checkpoints = <<start>> /\ index.indexed_to = 0
      /\ Len(index.checkpoints) = 1 /\ LastCheckpoint(index.checkpoints) = start
      /\ start.unpacked = 0
  BY <1>1 DEF NewIndex, LastCheckpoint, StartCheckpoint
<1>3. strategy \in Strategies /\ IsNew(strategy) /\ strategy \in Strategy
  BY StrategiesAssumption DEF Init, IsNew
<1>4. /\ Fields(strategy) /\ strategy.budget \in Nat /\ strategy.min \in Nat
      /\ strategy.interval \in Nat
  BY <1>3 DEF Strategy, Fields, Names
<1>5. strategy.kind = "BudgetRatio" => strategy.budget = 0
  BY <1>3 DEF IsNew, FixedInterval, Budget, BudgetRatio, ThinningBudget
<1>6. strategy.kind = "ThinningBudget" => strategy.interval = FirstOf(strategy)
  BY <1>3 DEF IsNew, FixedInterval, Budget, BudgetRatio, ThinningBudget, FirstOf
<1>7. Given
  BY <1>3, <1>4, <1>5 DEF Given
<1>8. FirstPass /\ BelowBudget
  BY <1>2 DEF Init, FirstPass, BelowBudget
<1>9. Budgeted /\ OvershootsByOne
  BY <1>2 DEF Budgeted, ThinnedToBudget, OvershootsByOne
<1>10. Paced
  <2> SUFFICES ASSUME strategy.kind = "ThinningBudget" PROVE Paced
    BY DEF Paced
  <2>1. Since = 0
    BY <1>2 DEF Init, Since
  <2>2. FirstOf(strategy) \in Nat /\ FirstOf(strategy) > 0
        /\ strategy.interval = FirstOf(strategy)
    BY <1>4, <1>6 DEF FirstOf
  <2>3. /\ WidestOf(strategy) \in Nat
        /\ FirstOf(strategy) * OutSize <= WidestOf(strategy)
    BY <2>2, Pace, BoundsAssumption DEF WidestOf
  <2>4. FirstOf(strategy) * 0 <= WidestOf(strategy)
        /\ FirstOf(strategy) * (0 + OutSize) <= WidestOf(strategy)
    BY <2>2, <2>3, BoundsAssumption
  <2>5. GapsWithin(index.checkpoints, FirstOf(strategy), WidestOf(strategy))
    BY <1>2 DEF GapsWithin
  <2> QED BY <1>4, <2>1, <2>2, <2>4, <2>5 DEF Paced
<1> QED
  BY <1>7, <1>8, <1>9, <1>10

\* All that is known of the strategies, from any state to the next.
LEMMA StrategyNext ==
  ASSUME Inv, DataBytesExact, [Next]_vars,
         Given, FirstPass, Budgeted, BelowBudget, OvershootsByOne, Paced
  PROVE  /\ Given' /\ FirstPass' /\ Budgeted' /\ BelowBudget' /\ OvershootsByOne'
         /\ Paced'
<1>1. Given'
  BY GivenInv
<1> QED
  BY <1>1, FirstPassInv, BudgetedInv, BelowBudgetInv, OvershootInv, PacedInv

\* What is known of the strategies in every state.
StrategyInv ==
  /\ Inv /\ DataBytesExact
  /\ Given /\ FirstPass /\ Budgeted /\ BelowBudget /\ OvershootsByOne /\ Paced

\* The invariant of the strategies holds of every behaviour of the indexer.
THEOREM StrategyInvHolds == Spec => []StrategyInv
<1>1. Init => Given /\ FirstPass /\ Budgeted /\ BelowBudget /\ OvershootsByOne /\ Paced
  BY StrategyInit
<1>2. /\ Inv /\ DataBytesExact /\ [Next]_vars
      /\ Given /\ FirstPass /\ Budgeted /\ BelowBudget /\ OvershootsByOne /\ Paced
      => (Given /\ FirstPass /\ Budgeted /\ BelowBudget /\ OvershootsByOne /\ Paced)'
  BY StrategyNext
<1> QED
  BY <1>1, <1>2, InvHolds, DataBytesAreExact, PTL DEF Spec, StrategyInv

(***************************************************************************)
(* "The total exceeds the budget only between laying a checkpoint and      *)
(* thinning, by that one checkpoint": in the first pass, and in every one  *)
(* when the strategies of all passes have one kind and one budget (a pass  *)
(* resumed with a smaller budget inherits a table above it).               *)
(***************************************************************************)
THEOREM ThinsToBudget == Spec => [](passes = 1 \/ OneSetting => ThinnedToBudget)
<1>1. StrategyInv => (passes = 1 \/ OneSetting => ThinnedToBudget)
  BY DEF StrategyInv, Budgeted
<1> QED
  BY <1>1, StrategyInvHolds, PTL

\* A pass with Budget or BudgetRatio that is not told to stop lays at most one
\* checkpoint past its budget.
THEOREM OvershootsAtMostByOne == Spec => []OvershootsByOne
<1>1. StrategyInv => OvershootsByOne
  BY DEF StrategyInv
<1> QED
  BY <1>1, StrategyInvHolds, PTL

\* ThinningBudget's checkpoints are never much more than one interval apart,
\* however often the table was thinned.
THEOREM GapsAreBounded == Spec => []GapsFollowInterval
<1>1. StrategyInv => GapsFollowInterval
  <2> SUFFICES ASSUME StrategyInv PROVE GapsFollowInterval
    OBVIOUS
  <2> QED BY DEF StrategyInv, Paced, GapsWithin, FirstOf, WidestOf, Since, GapsFollowInterval
<1> QED
  BY <1>1, StrategyInvHolds, PTL
=============================================================================

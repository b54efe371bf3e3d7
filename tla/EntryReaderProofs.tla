------------------------- MODULE EntryReaderProofs -------------------------
(***************************************************************************)
(* Proofs about EntryReader: the drivers, over a handle whose seeks        *)
(* succeed, implement StreamReader, whatever the stream, the file, the     *)
(* range and the place the handle was left at.                             *)
(***************************************************************************)
EXTENDS EntryReader, StreamReaderProofs

-----------------------------------------------------------------------------
(***************************************************************************)
(* The inductive invariant: the handle is where the engine counts, except  *)
(* from the moment it asks for its seek to the moment the seek is done.    *)
(***************************************************************************)
EntryInv ==
  /\ Inv
  /\ EntryTypeOK
  /\ ReadsWhereAsked
  /\ poll = "WaitSeek" => seeking
  /\ pc = "SeekAndRead" => compressed_pos = checkpoint.packed
  /\ poll = "DriveEngine" /\ started /\ pc # "SeekAndRead" => cursor = compressed_pos

\* A new driver has asked for nothing yet.
LEMMA EntryInitInv == EntryInit => EntryInv
<1> SUFFICES ASSUME EntryInit PROVE EntryInv
  OBVIOUS
<1>1. Inv
  BY InitInv DEF EntryInit
<1>2. file_len \in Nat
  BY <1>1 DEF Inv, TypeOK
<1>3. cursor \in Nat
  BY <1>2 DEF EntryInit
<1>4. seeking = FALSE /\ poll = "DriveEngine" /\ driver \in Drivers
  BY DEF EntryInit
<1>5. EntryTypeOK
  BY <1>3, <1>4 DEF EntryTypeOK
<1> QED
  BY <1>1, <1>4, <1>5 DEF EntryInit, Init, EntryInv, ReadsWhereAsked

\* A step of the engine moves the place to read at only when it asks for a seek.
LEMMA StepAsks ==
  ASSUME Inv, Step
  PROVE  /\ pc = "call"
         /\ checkpoint' = checkpoint
         /\ pc' = "SeekAndRead" => compressed_pos' = checkpoint.packed
         /\ pc' # "SeekAndRead" => compressed_pos' = compressed_pos /\ started' = started
<1>1. CASE StepSeekToCheckpoint
  BY <1>1 DEF StepSeekToCheckpoint, index
<1>2. CASE StepOutputReady \/ StepDone \/ RestoreError \/ StepNeedInput \/ DecodeError
  BY <1>2 DEF StepOutputReady, StepDone, RestoreError, StepNeedInput, DecodeError,
     CanDecode, index
<1>3. CASE SkipOver
  BY <1>3 DEF SkipOver, HandOver, CanDecode, index
<1>4. CASE Skip
  BY <1>4 DEF Skip, AfterDecode, CanDecode, index
<1>5. CASE Emit
  BY <1>5 DEF Emit, HandOver, AfterDecode, CanDecode, index
<1> QED
  BY <1>1, <1>2, <1>3, <1>4, <1>5 DEF Step

\* Every step of a driver is a step of the reader it drives, or none.
LEMMA EntryStep ==
  ASSUME EntryInv, [EntryNext]_entryVars
  PROVE  [Next]_vars
<1>1. CASE DriveEngine \/ HandOut \/ ReadError
  BY <1>1 DEF DriveEngine, HandOut, ReadError, Next, Answer
<1>2. CASE Finish \/ AskRead \/ Seek \/ AskSeek \/ StartSeek \/ WaitSeek
  BY <1>2 DEF Finish, AskRead, Seek, AskSeek, StartSeek, WaitSeek
<1>3. CASE Read
  <2>1. cursor = compressed_pos
    BY <1>3 DEF Read, EntryInv, ReadsWhereAsked
  <2> QED
    BY <1>3, <2>1 DEF Read, ProvideData, Answer, Next
<1>4. CASE ReadEof
  <2>1. cursor = compressed_pos
    BY <1>4 DEF ReadEof, EntryInv, ReadsWhereAsked
  <2> QED
    BY <1>4, <2>1 DEF ReadEof, SignalEof, Answer, Next
<1>5. CASE Over \/ UNCHANGED entryVars
  BY <1>5 DEF Over, entryVars
<1> QED
  BY <1>1, <1>2, <1>3, <1>4, <1>5 DEF EntryNext, Drive, Reads

\* The invariant is kept by every step of either driver.
LEMMA EntryStepInv ==
  ASSUME EntryInv, [EntryNext]_entryVars
  PROVE  EntryInv'
<1>1. Inv'
  BY EntryStep, StepInv DEF EntryInv
<1>2. TypeOK /\ TypeOK'
  BY <1>1 DEF EntryInv, Inv
<1> USE DEF EntryInv, EntryTypeOK, ReadsWhereAsked
<1>3. CASE DriveEngine
  <2>1. Inv /\ Step
    BY <1>3 DEF DriveEngine
  <2>2. driver' = driver /\ poll' = poll /\ poll = "DriveEngine" /\ handle' = handle
    BY <1>3 DEF DriveEngine
  <2> QED
    BY <1>1, <2>1, <2>2, StepAsks DEF handle
<1>4. CASE HandOut
  BY <1>1, <1>4 DEF HandOut, ReadOutput, handle, index
<1>5. CASE Finish
  BY <1>1, <1>5 DEF Finish, handle, vars, index, Errors
<1>6. CASE AskRead
  <2>1. started
    BY <1>6 DEF AskRead, Inv, WaitsDry
  <2> QED
    BY <1>1, <1>6, <2>1 DEF AskRead, handle, vars, index
<1>7. CASE Seek
  BY <1>1, <1>2, <1>7 DEF Seek, vars, index, TypeOK
<1>8. CASE AskSeek
  BY <1>1, <1>8 DEF AskSeek, handle, vars, index
<1>9. CASE StartSeek
  BY <1>1, <1>9 DEF StartSeek, vars, index
<1>10. CASE WaitSeek
  BY <1>1, <1>2, <1>10 DEF WaitSeek, vars, index, TypeOK
<1>11. CASE Read
  <2>1. cursor = compressed_pos
    BY <1>11 DEF Read
  <2>2. PICK n \in 1..Smaller(MaxRead, file_len - cursor) :
          input' = Chunk(cursor, n) /\ compressed_pos' = compressed_pos + n
    BY <1>11 DEF Read, ProvideFrom
  <2>3. cursor' = compressed_pos' /\ cursor' \in Nat
    BY <1>2, <1>11, <2>1, <2>2 DEF Read, Chunk, TypeOK
  <2> QED
    BY <1>1, <1>11, <2>3 DEF Read, ProvideFrom, index
<1>12. CASE ReadEof
  BY <1>1, <1>12 DEF ReadEof, SignalEofAt, handle, index
<1>13. CASE ReadError
  BY <1>1, <1>13 DEF ReadError, StepAgain, handle, index
<1>14. CASE Over \/ UNCHANGED entryVars
  BY <1>1, <1>14 DEF Over, entryVars, handle, vars, index
<1> QED
  BY <1>3, <1>4, <1>5, <1>6, <1>7, <1>8, <1>9, <1>10, <1>11, <1>12, <1>13, <1>14
     DEF EntryNext, Drive, Reads

-----------------------------------------------------------------------------
\* EntryInv always holds of a driver whose seeks succeed.
THEOREM EntryInvariance == EntrySpec => []EntryInv
<1> QED
  BY EntryInitInv, EntryStepInv, PTL DEF EntrySpec

\* The drivers' fields keep their values, and a seek is in flight only while the
\* driver waits for it (PollState in src/tokio/reader.rs).
THEOREM EntryTypeCorrect == EntrySpec => []EntryTypeOK
<1>1. EntryInv => EntryTypeOK
  BY DEF EntryInv
<1> QED
  BY <1>1, EntryInvariance, PTL

\* A driver only reads its handle where the engine's next packed byte is, wherever
\* the handle stood when the entry was opened.
THEOREM HandleIsInPlace == EntrySpec => []ReadsWhereAsked
<1>1. EntryInv => ReadsWhereAsked
  BY DEF EntryInv
<1> QED
  BY <1>1, EntryInvariance, PTL

\* The blocking and the polled driver implement StreamReader, so all that is proved
\* of it holds of an entry read through them.
THEOREM DriversImplementReader == EntrySpec => DrivesTheReader
<1>1. EntryInit => Init
  BY DEF EntryInit
<1> QED
  BY <1>1, EntryInvariance, EntryStep, PTL DEF EntrySpec, Spec, DrivesTheReader
=============================================================================

---------------------------- MODULE EntryReader ----------------------------
(***************************************************************************)
(* EntryReader of src/sync/reader.rs and src/tokio/reader.rs: the drivers  *)
(* that turn a StreamReader and a borrowed file handle into Read and       *)
(* AsyncRead.  A read call steps the engine until it has bytes for its     *)
(* caller, and answers the engine's requests from the handle.              *)
(*                                                                         *)
(* The handle is shared: it stands wherever the last user left it, and     *)
(* only a seek tells the driver where it is.  An I/O operation that fails  *)
(* ends the call with its error; the caller may read again, as read_to_end *)
(* does after Interrupted.                                                 *)
(***************************************************************************)
EXTENDS StreamReader

CONSTANT Drivers   \* which drivers there are: "sync", "tokio"

ASSUME DriversAssumption == Drivers \subseteq {"sync", "tokio"}

VARIABLES
  driver,
  poll,     \* PollState, or where the blocking read() stands in its loop
  cursor,   \* the offset the handle reads at
  seeking   \* a seek has been started and not completed (start_seek)

handle == <<cursor, seeking>>

entryVars == <<vars, driver, poll, handle>>
-----------------------------------------------------------------------------

\* over(), with the handle wherever it was left.
EntryInit ==
  /\ Init
  /\ driver \in Drivers
  /\ poll = "DriveEngine"
  /\ cursor \in 0..file_len
  /\ seeking = FALSE

\* step(), once read_output() has nothing more to give.
DriveEngine ==
  /\ poll = "DriveEngine" /\ Serveable = 0
  /\ Step
  /\ UNCHANGED <<driver, poll, handle>>

\* read_output() fills the caller's buffer and the call returns.
HandOut ==
  /\ poll = "DriveEngine"
  /\ ReadOutput
  /\ UNCHANGED <<driver, poll, handle>>

\* Done and errors end the reader: every later call gives nothing.
Finish ==
  /\ poll = "DriveEngine" /\ pc \in {"Done"} \cup Errors
  /\ poll' = "Done"
  /\ UNCHANGED <<vars, driver, handle>>

\* NeedInput: read on from where the handle stands.
AskRead ==
  /\ poll = "DriveEngine" /\ pc = "NeedInput"
  /\ poll' = "PendingRead"
  /\ UNCHANGED <<vars, driver, handle>>

\* Mutation: the seek is left out, as if the handle stood at the checkpoint.
NoSeek ==
  /\ poll = "DriveEngine" /\ driver = "sync" /\ pc = "SeekAndRead"
  /\ poll' = "PendingRead"
  /\ UNCHANGED <<vars, driver, handle>>

\* SeekAndRead of the blocking driver: the offset asked for is the checkpoint's.
Seek ==
  /\ poll = "DriveEngine" /\ driver = "sync" /\ pc = "SeekAndRead"
  /\ cursor' = checkpoint.packed
  /\ poll' = "PendingRead"
  /\ UNCHANGED <<vars, driver, seeking>>

\* Its seek fails: the request is forgotten, and the next call steps again.
SeekError ==
  /\ poll = "DriveEngine" /\ driver = "sync" /\ pc = "SeekAndRead"
  /\ StepAgain
  /\ UNCHANGED <<driver, poll, handle>>

\* SeekAndRead of the polled driver.
AskSeek ==
  /\ poll = "DriveEngine" /\ driver = "tokio" /\ pc = "SeekAndRead"
  /\ poll' = "StartSeek"
  /\ UNCHANGED <<vars, driver, handle>>

\* Mutation: the wait begins although no seek was started.
SeekUnstartedYet ==
  /\ poll = "StartSeek"
  /\ poll' = "WaitSeek"
  /\ UNCHANGED <<vars, driver, handle>>

\* start_seek(); an error of it leaves everything as it was, to be tried again.
StartSeek ==
  /\ poll = "StartSeek"
  /\ seeking' = TRUE
  /\ poll' = "WaitSeek"
  /\ UNCHANGED <<vars, driver, cursor>>

\* Mutation: the read begins while the seek is still in flight.
NoWait ==
  /\ poll = "WaitSeek"
  /\ poll' = "PendingRead"
  /\ UNCHANGED <<vars, driver, handle>>

(***************************************************************************)
(* poll_complete() is ready: the seek is done, or there is none to wait    *)
(* for and the handle stays where it is.                                   *)
(***************************************************************************)
WaitSeek ==
  /\ poll = "WaitSeek"
  /\ cursor' = IF seeking THEN checkpoint.packed ELSE cursor
  /\ seeking' = FALSE
  /\ poll' = "PendingRead"
  /\ UNCHANGED <<vars, driver>>

\* poll_complete() reports that the seek failed; the next poll waits once more.
WaitSeekError ==
  /\ poll = "WaitSeek" /\ seeking
  /\ seeking' = FALSE
  /\ UNCHANGED <<vars, driver, poll, cursor>>

\* Mutation: a read of nothing ends the call without telling the engine.
EofUntold ==
  /\ poll = "PendingRead" /\ cursor >= file_len
  /\ StepAgain
  /\ poll' = "DriveEngine"
  /\ UNCHANGED <<driver, handle>>

ReadEof ==
  /\ poll = "PendingRead"
  /\ SignalEofAt(cursor)
  /\ poll' = "DriveEngine"
  /\ UNCHANGED <<driver, handle>>

\* The handle reads on, and what it gave is provided.
Read ==
  /\ poll = "PendingRead"
  /\ ProvideFrom(cursor)
  /\ cursor' = input'.at + input'.len
  /\ poll' = "DriveEngine"
  /\ UNCHANGED <<driver, seeking>>

\* The blocking driver's read fails.  (A polled read that fails, or is not ready,
\* changes nothing and is polled again.)
ReadError ==
  /\ poll = "PendingRead" /\ driver = "sync"
  /\ StepAgain
  /\ poll' = "DriveEngine"
  /\ UNCHANGED <<driver, handle>>

\* A reader that is done is dropped, or read again for nothing.
Over == poll = "Done" /\ UNCHANGED entryVars

Drive == \/ DriveEngine \/ HandOut \/ Finish
         \/ AskRead \/ Seek \/ AskSeek \/ StartSeek \/ WaitSeek
Reads == Read \/ ReadEof

EntryNext == Drive \/ Reads \/ ReadError \/ Over

EntrySpec == EntryInit /\ [][EntryNext]_entryVars

\* The same drivers over a handle whose seeks may fail as well.
FaultySpec == EntryInit /\ [][EntryNext \/ SeekError \/ WaitSeekError]_entryVars

(***************************************************************************)
(* The caller reads to the end, and an operation of the handle that is     *)
(* tried again and again succeeds at last.                                 *)
(***************************************************************************)
EntryFairSpec ==
  EntrySpec /\ WF_entryVars(Drive) /\ SF_entryVars(Reads)
-----------------------------------------------------------------------------

\* The driver's fields have the values of PollState, and the handle's seek is
\* only in flight while the driver waits for it.
EntryTypeOK ==
  /\ driver \in Drivers
  /\ poll \in {"DriveEngine", "StartSeek", "WaitSeek", "PendingRead", "Done"}
  /\ cursor \in Nat
  /\ seeking \in BOOLEAN /\ (seeking => poll = "WaitSeek")
  /\ poll \in {"StartSeek", "WaitSeek"} => pc = "SeekAndRead"
  /\ poll = "PendingRead" => pc \in {"SeekAndRead", "NeedInput"}

\* A driver about to read has the handle where the engine's next packed byte is,
\* though it only ever seeks once and the engine counts the bytes for itself.
ReadsWhereAsked == poll = "PendingRead" => cursor = compressed_pos

\* The drivers are callers such as StreamReader is specified for, so everything
\* shown of StreamReader holds of an entry read through them.
DrivesTheReader == Spec

\* A caller that reads on comes to the end of the entry, or to an error.
EntryFinishes == <>(poll = "Done")
=============================================================================

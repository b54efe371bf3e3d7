------------------------------- MODULE Codec -------------------------------
(***************************************************************************)
(* What the decoders of src/compress share: the answer to a decompress     *)
(* call and the start of the file as a checkpoint.  Bytes are tokens: a    *)
(* byte of the file is its offset, and a byte of the output the offset it  *)
(* is to have there, so that a byte lost, repeated or made over the wrong  *)
(* history shows.                                                          *)
(***************************************************************************)
EXTENDS Integers, Sequences, FiniteSetsExt

\* DecompressResult, with the decoder's fields after the call and the bytes it wrote.
Answer(self, consumed, bytes, status) ==
  [self |-> self, consumed |-> consumed, bytes |-> bytes, status |-> status]

\* CheckpointState::None
Start == [packed |-> 0, unpacked |-> 0, fresh |-> TRUE]

Span(at, len) == [i \in 1..len |-> at + i - 1]

Garbage(len) == [i \in 1..len |-> -1]

Take(q, n) == SubSeq(q, 1, n)
Drop(q, n) == SubSeq(q, n + 1, Len(q))

LastOf(q, n) == Drop(q, Max({Len(q) - n, 0}))
=============================================================================

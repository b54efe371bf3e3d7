------------------------------- MODULE Codecs -------------------------------
(***************************************************************************)
(* The decoders of src/compress under a caller that feeds one of them a    *)
(* file in pieces of any size, asks for checkpoints with its own counts    *)
(* and restores them into a fresh decoder, as the stream indexer and the   *)
(* stream reader do.                                                       *)
(*                                                                         *)
(* A stream is [kind, packed, decoded, bytes, tails, ...]: the decoder it  *)
(* is for, its length, decoded[p], how many bytes its first p bytes decode *)
(* to, the output it is to give, how many bytes its file may have after it *)
(* (< 0: the file is cut), and the layout its decoder's module describes.  *)
(***************************************************************************)
EXTENDS Codec

CONSTANTS
  Streams,         \* the streams there may be
  MaxRead,         \* most bytes the caller offers at a time
  Rooms,           \* the room for output it may have
  MaxRestores,     \* bound on its restores
  CodecNew(_),                  \* the fields of a new decoder for a stream
  CodecDecompress(_, _, _, _),  \* its answers to input, with room for output
  CodecCheckpoint(_, _, _, _),  \* the checkpoints it may offer at the caller's counts
  CodecRestored(_, _),          \* a decoder restored from one
  CodecHeld(_, _),              \* what it holds back,
  CodecHolds(_, _, _),          \* and the most it may
  CodecAtBlockEnd(_, _)         \* it is where it may save itself

VARIABLES
  stream, file_len,
  codec,           \* the decoder's fields
  fed, taken,      \* the caller's counts: bytes given in, bytes got out
  call,            \* what the last decompress call was asked and answered
  saved,           \* the last checkpoint the caller was given
  restores

caller == <<stream, file_len>>

vars == <<codec, caller, fed, taken, call, saved, restores>>

PackedLen == stream.packed

\* The file seen from outside: the bytes its first p bytes decode to.
Contract == INSTANCE Decoder WITH
  PackedLen <- PackedLen, Unpacked <- stream.decoded, Faulty <- FALSE
-----------------------------------------------------------------------------
NoCall == [from |-> <<0, 0>>, offered |-> 0, room |-> 0, consumed |-> 0, bytes |-> <<>>,
           status |-> "none"]

Init ==
  /\ stream \in Streams
  /\ file_len \in {PackedLen + t : t \in stream.tails}
  /\ codec = CodecNew(stream)
  /\ fed = 0 /\ taken = 0
  /\ call = NoCall
  /\ saved = Start
  /\ restores = 0

Calling == call.status \in {"none", "Continue"}

\* A call: empty input means the end of the file.
Decode ==
  /\ Calling
  /\ \E n \in 0..Min({MaxRead, file_len - fed}), room \in Rooms :
       /\ n = 0 => fed = file_len
       /\ \E a \in CodecDecompress(stream, codec, Span(fed, n), room) :
            /\ codec' = a.self
            /\ fed' = fed + a.consumed
            /\ taken' = taken + Len(a.bytes)
            /\ call' = [from |-> <<fed, taken>>, offered |-> n, room |-> room,
                        consumed |-> a.consumed, bytes |-> a.bytes, status |-> a.status]
  /\ UNCHANGED <<caller, saved, restores>>

Save ==
  /\ Calling
  /\ \E cp \in CodecCheckpoint(stream, codec, fed, taken) : saved' = cp
  /\ UNCHANGED <<codec, caller, fed, taken, call, restores>>

Restore ==
  /\ restores < MaxRestores
  /\ restores' = restores + 1
  /\ codec' = CodecRestored(stream, saved)
  /\ fed' = saved.packed /\ taken' = saved.unpacked
  /\ call' = NoCall
  /\ UNCHANGED <<caller, saved>>

Terminated == ~ Calling /\ UNCHANGED vars

Next == Decode \/ Save \/ Restore \/ Terminated

Spec == Init /\ [][Next]_vars

-----------------------------------------------------------------------------

\* The counts and the answers are of their types, and no call answers more than
\* it was asked (bytes_consumed, bytes_produced, status).
TypeOK ==
  /\ file_len \in Nat /\ restores \in 0..MaxRestores
  /\ fed \in 0..file_len /\ taken \in Nat
  /\ call.consumed \in 0..call.offered /\ Len(call.bytes) \in 0..call.room
  /\ call.status \in {"none", "Continue", "StreamEnd", "TruncatedInput", "Failed"}

Going == call.status \in {"none", "Continue", "StreamEnd"}

(***************************************************************************)
(* Whatever the pieces it is fed, the room it is given and the checkpoints *)
(* it is resumed from, a decoder gives out the stream's bytes, each one    *)
(* once and in order (stage, shift_buffer, replay, windows and their       *)
(* restoring).                                                             *)
(***************************************************************************)
BytesExact ==
  \A i \in DOMAIN call.bytes :
    /\ call.from[2] + i <= Len(stream.bytes)
    /\ call.bytes[i] = stream.bytes[call.from[2] + i]

(***************************************************************************)
(* What the trait asks of every decoder, as the indexer and the reader are *)
(* specified over it: each answer is one Decoder allows, and only a file   *)
(* that was cut is refused, as truncated.  (An empty file is an empty      *)
(* stream; what follows the stream's end may be taken with it.)            *)
(***************************************************************************)
KeepsContract ==
  file_len > 0 /\ call.status # "none" =>
    IF Going
      THEN LET at == Min({call.from[1], PackedLen})
               to == Min({call.from[1] + call.consumed, PackedLen})
           IN  [consumed |-> to - at, produced |-> Len(call.bytes),
                ended |-> call.status = "StreamEnd"]
                 \in Contract!Outcomes(<<at, call.from[2]>>, call.offered, call.room)
      ELSE call.status = "TruncatedInput" /\ file_len < PackedLen

(***************************************************************************)
(* A decoder holds back no more than its format makes it, however little   *)
(* room its caller has: what it has no use for yet it leaves to the caller *)
(* ("so they never pile up while the output is what holds the decoder      *)
(* back").                                                                 *)
(***************************************************************************)
HoldsLittle == CodecHeld(stream, codec) <= CodecHolds(stream, MaxRead, Max(Rooms))

(***************************************************************************)
(* At the end of the file a decoder is never asked in vain: a call that    *)
(* gives out nothing, and neither ends nor fails, leaves it another one,   *)
(* or the caller would ask it the same for ever.  (Whatever it was         *)
(* restored from; an empty file is left to the stream layer.)              *)
(***************************************************************************)
NeverAskedInVain ==
  [][ call' # call /\ call'.status = "Continue" /\ call'.offered = 0 /\ call'.bytes = <<>>
      /\ file_len > 0 => codec' # codec ]_vars

(***************************************************************************)
(* A decoder that has reached the end of a block since it was made or      *)
(* restored, and holds nothing back, offers a checkpoint: "a boundary is   *)
(* 'now' exactly when nothing has been produced since it".                 *)
(***************************************************************************)
OfferedAtBlockEnds ==
  /\ call.status = "Continue"
  /\ CodecAtBlockEnd(stream, codec)
  => CodecCheckpoint(stream, codec, fed, taken) # {}
=============================================================================

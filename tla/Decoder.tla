------------------------------ MODULE Decoder ------------------------------
(***************************************************************************)
(* Any decoder that does what the Decompressor trait asks                  *)
(* (src/compress/decompressor.rs), over one packed stream.  Its place is   *)
(* <<bytes taken in, bytes given out>>; Unpacked[p] is how many bytes the  *)
(* first p packed bytes decode to.                                         *)
(***************************************************************************)
EXTENDS Integers

CONSTANTS
  PackedLen,       \* packed bytes up to the stream's end mark
  Unpacked,        \* Unpacked[p]: the bytes the first p packed bytes decode to
  Faulty           \* the decoder may stall (and, to its users, fail)

ASSUME StreamAssumption ==
  /\ PackedLen \in Nat
  /\ Unpacked \in [0..PackedLen -> Nat]
  /\ Unpacked[0] = 0
  /\ \A p, q \in 0..PackedLen : p <= q => Unpacked[p] <= Unpacked[q]

ASSUME FaultyAssumption == Faulty \in BOOLEAN

UnpackedLen == Unpacked[PackedLen]

Smaller(a, b) == IF a < b THEN a ELSE b

\* The decoder can be at `place' after some calls.
Reachable(place) ==
  /\ place \in (0..PackedLen) \X (0..UnpackedLen)
  /\ place[2] <= Unpacked[place[1]]

AtEnd(place) == place = <<PackedLen, UnpackedLen>>

(***************************************************************************)
(* What one decompress call at `place' may answer, given `offered' bytes   *)
(* of input and room for `room' of output: it takes a prefix of the input, *)
(* gives out bytes that what it has taken decodes to, and reports the end  *)
(* once everything is out, perhaps one call late.  A call that could move  *)
(* moves, unless the decoder is faulty.                                    *)
(***************************************************************************)
Moves(place, offered, room) ==
  {m \in (0..Smaller(offered, PackedLen - place[1])) \X (0..room) :
     place[2] + m[2] <= Unpacked[place[1] + m[1]]}

After(place, move) == <<place[1] + move[1], place[2] + move[2]>>

Outcomes(place, offered, room) ==
  LET moves == {m \in Moves(place, offered, room) : m # <<0, 0>>}
      legal == IF moves = {} \/ Faulty THEN moves \cup {<<0, 0>>} ELSE moves
  IN  {[consumed |-> m[1], produced |-> m[2], ended |-> FALSE] :
         m \in {x \in legal : x # <<0, 0>> \/ ~ AtEnd(place)}}
      \cup
      {[consumed |-> m[1], produced |-> m[2], ended |-> TRUE] :
         m \in {x \in legal : AtEnd(After(place, x))}}
=============================================================================

--------------------------- MODULE DecoderProofs ---------------------------
(***************************************************************************)
(* What the users of a decoder may rely on, proved from its definition.    *)
(***************************************************************************)
EXTENDS Decoder, TLAPS

(***************************************************************************)
(* A move stays within what was offered and what there is room for, and    *)
(* leads to a place the decoder can be at: what decompress() promises its  *)
(* caller.                                                                 *)
(***************************************************************************)
LEMMA MovesBounded ==
  ASSUME NEW place, Reachable(place),
         NEW offered \in Nat, NEW room \in Nat,
         NEW m \in Moves(place, offered, room)
  PROVE  /\ m = <<m[1], m[2]>>
         /\ m[1] \in 0..offered /\ m[2] \in 0..room
         /\ Reachable(After(place, m))
<1>1. /\ place[1] \in 0..PackedLen /\ place[2] \in 0..UnpackedLen
      /\ place[2] <= Unpacked[place[1]]
  BY DEF Reachable
<1>2. PICK c \in 0..Smaller(offered, PackedLen - place[1]), p \in 0..room :
         m = <<c, p>> /\ place[2] + p <= Unpacked[place[1] + c]
  BY DEF Moves
<1>3. Smaller(offered, PackedLen - place[1]) \in Int
      /\ Smaller(offered, PackedLen - place[1]) <= offered
      /\ Smaller(offered, PackedLen - place[1]) <= PackedLen - place[1]
  BY <1>1, StreamAssumption DEF Smaller
<1>4. c \in 0..offered /\ place[1] + c \in 0..PackedLen
  BY <1>1, <1>2, <1>3, StreamAssumption, SMTT(30)
<1>5. Unpacked[place[1] + c] <= UnpackedLen
  BY <1>4, StreamAssumption DEF UnpackedLen
<1>6. UnpackedLen \in Nat /\ Unpacked[place[1] + c] \in Nat
  BY <1>4, StreamAssumption DEF UnpackedLen
<1>7. place[2] + p \in 0..UnpackedLen
  BY <1>1, <1>2, <1>5, <1>6
<1> QED
  BY <1>2, <1>4, <1>7 DEF Reachable, After

(***************************************************************************)
(* Whatever a decompress call answers, its counts fit the buffers, the     *)
(* decoder is then at a place it can be at, and an answer that reports the *)
(* end of the stream leaves it at the end.                                 *)
(***************************************************************************)
LEMMA OutcomesBounded ==
  ASSUME NEW place, Reachable(place),
         NEW offered \in Nat, NEW room \in Nat,
         NEW result \in Outcomes(place, offered, room)
  PROVE  /\ result.consumed \in 0..offered
         /\ result.produced \in 0..room
         /\ result.ended \in BOOLEAN
         /\ Reachable(After(place, <<result.consumed, result.produced>>))
         /\ result.ended => AtEnd(After(place, <<result.consumed, result.produced>>))
<1>1. PICK m \in Moves(place, offered, room) \cup {<<0, 0>>}, e \in BOOLEAN :
         /\ result = [consumed |-> m[1], produced |-> m[2], ended |-> e]
         /\ e => AtEnd(After(place, m))
  BY DEF Outcomes
<1>2. place = <<place[1], place[2]>> /\ place[1] \in Nat /\ place[2] \in Nat
  BY StreamAssumption DEF Reachable
<1>3. /\ m = <<m[1], m[2]>>
      /\ m[1] \in 0..offered /\ m[2] \in 0..room
      /\ Reachable(After(place, m))
  <2>1. CASE m \in Moves(place, offered, room)
    BY <2>1, MovesBounded
  <2>2. CASE m = <<0, 0>>
    BY <1>2, <2>2 DEF After
  <2> QED
    BY <2>1, <2>2
<1> QED
  BY <1>1, <1>3

(***************************************************************************)
(* A call that neither takes nor gives and does not report the end is not  *)
(* at the end; and where the decoder keeps its word and there is room for  *)
(* output, it had nothing to take and nothing left to give.                *)
(***************************************************************************)
LEMMA IdleOutcomes ==
  ASSUME NEW place, Reachable(place),
         NEW offered \in Nat, NEW room \in Nat, room > 0,
         NEW result \in Outcomes(place, offered, room),
         result.consumed = 0, result.produced = 0, ~ result.ended
  PROVE  /\ ~ AtEnd(place)
         /\ ~ Faulty => /\ offered = 0 \/ place[1] = PackedLen
                        /\ place[2] = Unpacked[place[1]]
<1> DEFINE moves == {m \in Moves(place, offered, room) : m # <<0, 0>>}
           legal == IF moves = {} \/ Faulty THEN moves \cup {<<0, 0>>} ELSE moves
<1>1. PICK x \in legal : /\ x # <<0, 0>> \/ ~ AtEnd(place)
                         /\ result = [consumed |-> x[1], produced |-> x[2], ended |-> FALSE]
  <2>1. \/ \E x \in legal : /\ x # <<0, 0>> \/ ~ AtEnd(place)
                            /\ result = [consumed |-> x[1], produced |-> x[2],
                                         ended |-> FALSE]
        \/ \E x \in legal : result = [consumed |-> x[1], produced |-> x[2], ended |-> TRUE]
    BY DEF Outcomes
  <2>2. ~ \E x \in legal : result = [consumed |-> x[1], produced |-> x[2], ended |-> TRUE]
    <3> HIDE DEF legal
    <3> QED
      OBVIOUS
  <2> QED
    BY <2>1, <2>2
<1>2. x = <<0, 0>>
  <2>1. x[1] = 0 /\ x[2] = 0
    BY <1>1
  <2>2. x \in Moves(place, offered, room) => x = <<x[1], x[2]>>
    BY MovesBounded
  <2> QED
    BY <2>1, <2>2
<1>3. ~ AtEnd(place)
  BY <1>1, <1>2
<1>4. ASSUME ~ Faulty
      PROVE  /\ offered = 0 \/ place[1] = PackedLen
             /\ place[2] = Unpacked[place[1]]
  <2>1. moves = {}
    BY <1>2, <1>4
  <2>2. /\ place[1] \in 0..PackedLen /\ place[2] \in Nat
        /\ place[2] <= Unpacked[place[1]] /\ PackedLen \in Nat
    BY StreamAssumption DEF Reachable
  <2>3. Unpacked[place[1]] \in Nat
    BY <2>2, StreamAssumption
  <2>4. CASE offered > 0 /\ place[1] < PackedLen
    <3>1. place[1] + 1 \in 0..PackedLen
      BY <2>2, <2>4
    <3>2. Unpacked[place[1]] <= Unpacked[place[1] + 1] /\ Unpacked[place[1] + 1] \in Nat
      BY <2>2, <3>1, StreamAssumption
    <3>3. 1 \in 0..Smaller(offered, PackedLen - place[1]) /\ 0 \in 0..room
      BY <2>2, <2>4 DEF Smaller
    <3>4. <<1, 0>> \in Moves(place, offered, room)
      BY <2>2, <2>3, <3>2, <3>3 DEF Moves
    <3> QED
      BY <2>1, <3>4
  <2>5. CASE place[2] < Unpacked[place[1]]
    <3>1. 0 \in 0..Smaller(offered, PackedLen - place[1]) /\ 1 \in 0..room
      BY <2>2 DEF Smaller
    <3>2. place[2] + 1 <= Unpacked[place[1] + 0]
      BY <2>2, <2>3, <2>5
    <3>3. <<0, 1>> \in Moves(place, offered, room)
      BY <3>1, <3>2 DEF Moves
    <3> QED
      BY <2>1, <3>3
  <2> QED
    BY <2>2, <2>3, <2>4, <2>5
<1> QED
  BY <1>3, <1>4
=============================================================================

-------------------------------- MODULE Lzma --------------------------------
(***************************************************************************)
(* LzmaDecoder and its SlidingWindow (src/compress/lzma/decoder.rs), and   *)
(* LzmaDecompressor over them (src/compress/lzma/mod.rs): raw LZMA.        *)
(*                                                                         *)
(* The range coder is seen through what it decodes: a payload, named by    *)
(* the offset of its first byte, is the sequence s.codes[offset] of the    *)
(* answers it holds, each [asks, value, byte, model]: the question it      *)
(* answers, the answer, the byte that must be read for it (NoByte if       *)
(* none), and how many symbols the probabilities have been adapted by.     *)
(* A decoder that asks another question, over other probabilities or       *)
(* another byte, is lost.  A tree of bits is two questions.                *)
(***************************************************************************)
EXTENDS Codec

CONSTANTS
  DictSize,
  InitBytes,       \* bytes the range coder starts with (5)
  InMargin,        \* input and room decode_fast wants for one more symbol
  OutMargin

NoByte  == -1
NoSize  == -1
EndMark == -1
More    == -2
-----------------------------------------------------------------------------
(***************************************************************************)
(* SlidingWindow                                                           *)
(***************************************************************************)
NewWindow ==
  [buf |-> [i \in 0..(DictSize - 1) |-> -1], pos |-> 0, is_full |-> FALSE, pending |-> <<>>]

PutDirect(w, b) ==
  [w EXCEPT !.buf[w.pos] = b, !.pos = (@ + 1) % DictSize,
            !.is_full = @ \/ w.pos + 1 = DictSize]

PutByte(w, b) == [PutDirect(w, b) EXCEPT !.pending = Append(@, b)]

RECURSIVE PutSlice(_, _)
PutSlice(w, bytes) ==
  IF bytes = <<>> THEN w ELSE PutSlice(PutDirect(w, Head(bytes)), Tail(bytes))

\* get_byte(): `dist' back from the cursor.
GetByte(w, dist) ==
  IF dist <= w.pos THEN w.buf[w.pos - dist] ELSE w.buf[DictSize - dist + w.pos]

CheckDistance(w, dist) == dist < (IF w.is_full THEN DictSize ELSE w.pos)

Empty(w) == w.pos = 0 /\ ~ w.is_full

\* put_byte(get_byte(dist)), n times over.
RECURSIVE CopyMatch(_, _, _)
CopyMatch(w, dist, n) ==
  IF n = 0 THEN w ELSE CopyMatch(PutByte(w, GetByte(w, dist)), dist, n - 1)

\* The bytes copy_match_to() can move at once.
SpanLen(w, dist, src, n) == Min({n, DictSize - src, DictSize - w.pos, dist})

\* copy_match_to(): the window after it, and what it writes to the output.
RECURSIVE CopyMatchTo(_, _, _)
CopyMatchTo(w, dist, n) ==
  LET src  == IF dist <= w.pos THEN w.pos - dist ELSE DictSize - (dist - w.pos)
      span == SpanLen(w, dist, src, n)
      copy == [i \in 1..span |-> w.buf[src + i - 1]]
      rest == CopyMatchTo(PutSlice(w, copy), dist, n - span)
  IN  IF n = 0 THEN [window |-> w, bytes |-> <<>>]
      ELSE [window |-> rest.window, bytes |-> copy \o rest.bytes]

\* Mutation: a full window is laid out as it lay in the ring.
AsItLay(w) == [i \in 1..(IF w.is_full THEN DictSize ELSE w.pos) |-> w.buf[i - 1]]

\* get_window_data(), oldest first.
WindowData(w) ==
  LET buf == [i \in 1..DictSize |-> w.buf[i - 1]]
  IN  IF w.is_full THEN Drop(buf, w.pos) \o Take(buf, w.pos) ELSE Take(buf, w.pos)

\* Its serialized form read back: the same bytes, relinearized.
Relinearized(w) ==
  LET data == WindowData(w)
  IN  [w EXCEPT !.buf = [i \in DOMAIN @ |-> IF i < Len(data) THEN data[i + 1] ELSE -1],
                !.pos = IF Len(data) = DictSize THEN 0 ELSE Len(data),
                !.is_full = Len(data) = DictSize]
-----------------------------------------------------------------------------
(***************************************************************************)
(* LzmaDecoder.  A phase is the question asked next, or what is done       *)
(* instead of asking; n and dist are the length and distance decoded.      *)
(***************************************************************************)
Phase(at) == [at |-> at, n |-> 0, dist |-> 0, simple |-> FALSE]

NewDecoder(size) ==
  [window |-> NewWindow, rc_initialized |-> FALSE, init_len |-> 0,
   rc |-> [payload |-> NoByte, next |-> 1],
   model |-> 0,                   \* symbols the state and the probabilities have seen
   reps |-> <<0, 0, 0, 0>>, phase |-> Phase("IsMatch"),
   unpack_size |-> size, decoded_size |-> 0]

\* reset_state() and reset_state_and_props()
ResetState(d) ==
  [d EXCEPT !.model = 0, !.reps = <<0, 0, 0, 0>>, !.rc_initialized = FALSE, !.init_len = 0,
            !.phase = Phase("IsMatch"), !.decoded_size = 0]

ResetDict(d) == [d EXCEPT !.window = NewWindow]

SizeReached(d) == d.unpack_size # NoSize /\ d.decoded_size >= d.unpack_size

\* RangeDecoder.init()
InitRangeCoder(d, data) ==
  LET take == Min({InitBytes - d.init_len, Len(data)})
      len  == d.init_len + take
      from == IF take = 0 THEN d.rc.payload
              ELSE IF d.init_len = 0 THEN data[1]
              ELSE IF data[1] = d.rc.payload + d.init_len THEN d.rc.payload ELSE NoByte
  IN  [d |-> [d EXCEPT !.rc = [payload |-> from, next |-> 1],
                       !.init_len = IF len < InitBytes THEN len ELSE 0,
                       !.rc_initialized = len = InitBytes],
       left |-> Drop(data, take)]

\* decode_bit(): what the range coder answers to `asks'.
Read(s, r, asks) ==
  LET codes == IF r.d.rc.payload \in DOMAIN s.codes THEN s.codes[r.d.rc.payload] ELSE <<>>
      known == r.d.rc.next <= Len(codes)
      code  == codes[r.d.rc.next]
      needs == known /\ code.byte # NoByte
      right == known /\ code.asks = asks /\ code.model = r.d.model
               /\ (needs => Head(r.left) = code.byte)
  IN  IF needs /\ r.left = <<>> THEN [r EXCEPT !.answer = "NeedInput"]
      ELSE IF ~ right THEN [r EXCEPT !.answer = "Lost"]
      ELSE [d |-> [r.d EXCEPT !.rc.next = @ + 1],
            left |-> IF needs THEN Tail(r.left) ELSE r.left,
            answer |-> "Ok", value |-> code.value]

\* update_state_*(), and the next symbol.
SymbolDone(d, n) ==
  [d EXCEPT !.model = @ + 1, !.decoded_size = @ + n, !.phase = Phase("IsMatch")]

\* What is copied of a match: start_copy_match(), emit_match!.
Copied(d, len) ==
  IF d.unpack_size = NoSize THEN len ELSE Min({len, d.unpack_size - d.decoded_size})

StartCopyMatch(d, dist, len) ==
  [d EXCEPT !.model = @ + 1,
            !.phase = [Phase("CopyMatch") EXCEPT !.n = Copied(d, len), !.dist = dist]]

\* The reps once one of them is chosen: the chosen one first.
Chosen(reps, i) ==
  CASE i = 1 -> <<reps[2], reps[1], reps[3], reps[4]>>
    [] i = 2 -> <<reps[3], reps[1], reps[2], reps[4]>>
    [] i = 3 -> <<reps[4], reps[1], reps[2], reps[3]>>

(***************************************************************************)
(* Where the answer v to the phase's question leaves the decoder.          *)
(***************************************************************************)
To(d, at) == [d EXCEPT !.phase.at = at]

LengthOf(d, reps) == [d EXCEPT !.phase = Phase("LenChoice"), !.reps = reps]

\* IsMatch and IsRep: a literal, a new match, or one at an earlier distance.
SymbolAnswered(d, v) ==
  CASE d.phase.at = "IsMatch"         -> To(d, IF v = 0 THEN "LiteralHigh" ELSE "IsRep")
    [] d.phase.at = "IsRep" /\ v = 0  ->
         [LengthOf(d, <<d.reps[1]>> \o Take(d.reps, 3)) EXCEPT !.phase.simple = TRUE]
    [] d.phase.at = "IsRep" /\ v = 1  -> To(d, IF SizeReached(d) THEN "FinishedWithoutMark"
                                               ELSE IF Empty(d.window) THEN "FinishedWithMark"
                                               ELSE "IsRepG0")

LiteralAnswered(d, v) ==
  IF d.phase.at = "LiteralHigh" THEN To(d, "Literal")
  ELSE SymbolDone([d EXCEPT !.window = PutByte(@, v)], 1)

\* decode_rep0_long()
Rep0LongAnswered(d, v) ==
  IF v = 1 THEN LengthOf(d, d.reps)
  ELSE SymbolDone([d EXCEPT !.window = PutByte(@, GetByte(@, d.reps[1] + 1))], 1)

\* decode_rep_type(), decode_rep_g1(), decode_rep_g2()
RepAnswered(d, v) ==
  CASE d.phase.at = "IsRepG0" -> To(d, IF v = 0 THEN "IsRep0Long" ELSE "IsRepG1")
    [] d.phase.at = "IsRepG1" -> IF v = 0 THEN LengthOf(d, Chosen(d.reps, 1)) ELSE To(d, "IsRepG2")
    [] d.phase.at = "IsRepG2" -> LengthOf(d, Chosen(d.reps, 2 + v))

\* decode_length()
LengthAnswered(d, v) ==
  CASE d.phase.at = "LenChoice" -> To(d, "LenBits")
    [] d.phase.at = "LenBits"   -> IF d.phase.simple THEN [To(d, "PosSlot") EXCEPT !.phase.n = v]
                                   ELSE StartCopyMatch(d, d.reps[1], v)

\* decode_distance()
DistanceAnswered(d, v) ==
  IF d.phase.at = "PosSlot" /\ v = More THEN To(d, "DistBits")
  ELSE IF v = EndMark \/ ~ CheckDistance(d.window, v) THEN To(d, "FinishedWithMark")
  ELSE StartCopyMatch([d EXCEPT !.reps[1] = v], v, d.phase.n)

Answered(d, v) ==
  CASE d.phase.at \in {"IsMatch", "IsRep"}             -> SymbolAnswered(d, v)
    [] d.phase.at \in {"LiteralHigh", "Literal"}       -> LiteralAnswered(d, v)
    [] d.phase.at = "IsRep0Long"                       -> Rep0LongAnswered(d, v)
    [] d.phase.at \in {"IsRepG0", "IsRepG1", "IsRepG2"} -> RepAnswered(d, v)
    [] d.phase.at \in {"LenChoice", "LenBits"}         -> LengthAnswered(d, v)
    [] d.phase.at \in {"PosSlot", "DistBits"}          -> DistanceAnswered(d, v)
-----------------------------------------------------------------------------
(***************************************************************************)
(* decode_fast(): whole symbols, straight to the output, while a margin of *)
(* both input and output is left.                                          *)
(***************************************************************************)
ReadLen(s, r)  == Read(s, Read(s, r, "LenChoice"), "LenBits")
ReadDist(s, r) ==
  LET slot == Read(s, r, "PosSlot")
  IN  IF slot.value = More THEN Read(s, slot, "DistBits") ELSE slot

EmitMatch(r, d, dist, len) ==
  LET n    == Copied(d, len)
      copy == CopyMatchTo(d.window, dist + 1, n)
  IN  [r EXCEPT !.d = SymbolDone([d EXCEPT !.window = copy.window], n), !.bytes = copy.bytes]

FastLiteral(s, m) ==
  LET l == Read(s, Read(s, m, "LiteralHigh"), "Literal")
  IN  [d |-> SymbolDone([l.d EXCEPT !.window = PutDirect(@, l.value)], 1),
       left |-> l.left, bytes |-> <<l.value>>]

FastMatch(s, r) ==
  LET len  == ReadLen(s, r)
      dist == ReadDist(s, len)
      d    == [dist.d EXCEPT !.reps = <<@[1]>> \o Take(@, 3)]
      here == [d |-> d, left |-> dist.left, bytes |-> <<>>]
  IN  IF dist.value = EndMark \/ ~ CheckDistance(d.window, dist.value)
      THEN [here EXCEPT !.d.phase = Phase("FinishedWithMark")]
      ELSE EmitMatch(here, [d EXCEPT !.reps[1] = dist.value], dist.value, len.value)

FastRep(s, r) ==
  LET g0   == Read(s, r, "IsRepG0")
      long == Read(s, g0, "IsRep0Long")
      g1   == Read(s, g0, "IsRepG1")
      g2   == Read(s, g1, "IsRepG2")
      last == IF g0.value = 0 THEN long ELSE IF g1.value = 0 THEN g1 ELSE g2
      reps == IF g0.value = 0 THEN r.d.reps
              ELSE Chosen(r.d.reps, IF g1.value = 0 THEN 1 ELSE 2 + g2.value)
      len  == ReadLen(s, last)
      byte == GetByte(r.d.window, r.d.reps[1] + 1)
  IN  IF Empty(r.d.window)
      THEN [d |-> [r.d EXCEPT !.phase = Phase("FinishedWithMark")], left |-> r.left,
            bytes |-> <<>>]
      ELSE IF g0.value = 0 /\ long.value = 0
      THEN [d |-> SymbolDone([long.d EXCEPT !.window = PutDirect(@, byte)], 1),
            left |-> long.left, bytes |-> <<byte>>]
      ELSE EmitMatch([d |-> len.d, left |-> len.left, bytes |-> <<>>],
                     [len.d EXCEPT !.reps = reps], reps[1], len.value)

FastSymbol(s, d, data) ==
  LET m == Read(s, [d |-> d, left |-> data, answer |-> "Ok", value |-> 0], "IsMatch")
      r == Read(s, m, "IsRep")
  IN  IF m.value = 0 THEN FastLiteral(s, m)
      ELSE IF r.value = 0 THEN FastMatch(s, r) ELSE FastRep(s, r)

RECURSIVE DecodeFast(_, _, _, _, _)
DecodeFast(s, d, data, room, out) ==
  LET f == FastSymbol(s, d, data)
  IN  IF \/ Len(data) < InMargin \/ room - Len(out) < OutMargin \/ SizeReached(d)
         \/ d.phase.at # "IsMatch"
      THEN [d |-> d, left |-> data, out |-> out]
      ELSE DecodeFast(s, f.d, f.left, room, out \o f.bytes)
-----------------------------------------------------------------------------
(***************************************************************************)
(* decode(): drain what is pending, start the range coder, and go on from  *)
(* the phase until the input, the room or the payload is out.              *)
(***************************************************************************)
Finishes == {"FinishedWithMark", "FinishedWithoutMark"}

Stop(d, left, out, status) == [d |-> d, left |-> left, out |-> out, status |-> status]

\* The pending output that there is room for goes out.
Drained(d, room, out) ==
  LET n == Min({Len(d.window.pending), room - Len(out)})
  IN  [d |-> [d EXCEPT !.window.pending = Drop(@, n)],
       out |-> out \o Take(d.window.pending, n),
       stuck |-> d.window.pending # <<>>
                 /\ (n < Len(d.window.pending) \/ Len(out) + n = room)]

\* What there is room for of the match being copied.
CopyOn(d, n) ==
  [d EXCEPT !.window = CopyMatch(@, d.phase.dist + 1, n),
            !.decoded_size = @ + n,
            !.phase = IF n < d.phase.n THEN [@ EXCEPT !.n = @ - n] ELSE Phase("IsMatch")]

\* A literal goes out as soon as it is decoded; the byte of a short rep waits.
Advanced(at, d, room, out) ==
  IF at = "Literal" THEN Drained(d, room, out) ELSE [d |-> d, out |-> out]

RECURSIVE Run(_, _, _, _, _)
Run(s, before, data, room, given) ==
  LET dr   == Drained(before, room, given)
      d    == dr.d
      out  == dr.out
      n    == Min({d.phase.n, room - Len(out)})
      sent == Drained(CopyOn(d, n), room, out)
      fast == DecodeFast(s, d, data, room, out)
      here == IF d.phase.at = "IsMatch" THEN fast ELSE [d |-> d, left |-> data, out |-> out]
      r    == Read(s, [d |-> here.d, left |-> here.left, answer |-> "Ok", value |-> 0],
                   here.d.phase.at)
      next == Advanced(here.d.phase.at, Answered(r.d, r.value), room, here.out)
  IN  CASE dr.stuck -> Stop(d, data, out, "Continue")
        [] ~ dr.stuck /\ d.phase.at \in Finishes -> Stop(d, data, out, d.phase.at)
        [] ~ dr.stuck /\ d.phase.at = "CopyMatch" ->
             IF n < d.phase.n THEN Stop(sent.d, data, sent.out, "Continue")
             ELSE Run(s, sent.d, data, room, sent.out)
        [] OTHER ->
             IF here.d.phase.at \in Finishes THEN Run(s, here.d, here.left, room, here.out)
             ELSE IF here.d.phase.at = "IsMatch" /\ SizeReached(here.d)
             THEN Run(s, [here.d EXCEPT !.phase.at = "FinishedWithoutMark"], here.left, room,
                      here.out)
             ELSE IF r.answer # "Ok" THEN Stop(here.d, here.left, here.out, r.answer)
             ELSE Run(s, next.d, r.left, room, next.out)

Decode(s, d, data, room) ==
  LET dr   == Drained(d, room, <<>>)
      init == InitRangeCoder(dr.d, data)
  IN  IF dr.stuck
      THEN Stop(dr.d, data, dr.out,
                IF dr.d.phase.at \in Finishes /\ dr.d.window.pending = <<>> THEN dr.d.phase.at
                ELSE "Continue")
      ELSE IF dr.d.rc_initialized THEN Run(s, dr.d, data, room, dr.out)
      ELSE IF ~ init.d.rc_initialized THEN Stop(init.d, init.left, dr.out, "NeedInput")
      ELSE Run(s, init.d, init.left, room, dr.out)

SavedDecoder(d) == [d EXCEPT !.window = Relinearized(@)]
-----------------------------------------------------------------------------
(***************************************************************************)
(* LzmaDecompressor                                                        *)
(***************************************************************************)
New(s) == [inner |-> NewDecoder(s.unpack_size), finished |-> FALSE]

Decompress(s, z, data, room) ==
  LET r    == Decode(s, z.inner, data, room)
      used == Len(data) - Len(r.left)
  IN  {IF z.finished THEN Answer(z, 0, <<>>, "StreamEnd")
       ELSE IF r.status \in Finishes
       THEN Answer([inner |-> r.d, finished |-> TRUE], used, r.out, "StreamEnd")
       ELSE Answer([z EXCEPT !.inner = r.d], used, r.out,
                   IF r.status = "Lost" THEN "Failed"
                   ELSE IF data = <<>> /\ r.out = <<>> THEN "TruncatedInput" ELSE "Continue")}

Checkpoint(s, z, packed, unpacked) ==
  {[packed |-> packed, unpacked |-> unpacked, fresh |-> FALSE,
    decoder |-> SavedDecoder(z.inner), finished |-> z.finished]}

Restored(s, cp) ==
  IF cp.fresh THEN New(s) ELSE [inner |-> cp.decoder, finished |-> cp.finished]

HeldPending(d) == Len(d.window.pending)

Held(z) == HeldPending(z.inner)
=============================================================================

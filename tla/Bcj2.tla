-------------------------------- MODULE Bcj2 --------------------------------
(***************************************************************************)
(* Bcj2Decompressor (src/compress/bcj2.rs): the main stream, with the      *)
(* targets of its converted jumps put back from the side streams.          *)
(*                                                                         *)
(* s.marks, by the offset in the main stream of each marker byte, is [bit, *)
(* prev, from, pos]: the place of its bit in the range coder's stream, the *)
(* output byte before it, and the side stream its target comes from and    *)
(* where, or "none".  s.ip is the output position of each main byte.       *)
(***************************************************************************)
EXTENDS Codec

TargetSize == 4

New(s) ==
  [bits |-> 0,                       \* bits decoded: the range coder's state
   call_pos |-> 0, jump_pos |-> 0,
   ip |-> 0, prev |-> -1, pending |-> <<>>, finished |-> FALSE]

\* What it could not take waits.
Kept(target, n) == Drop(target, n)

\* One byte of the main stream and, after a converted marker, its target.
Step(s, b, byte, room) ==
  LET mark   == s.marks[byte]
      here   == IF b.ip = s.ip[byte] THEN b.ip ELSE -1
      read   == [b EXCEPT !.ip = @ + 1, !.prev = here]
      bit    == [read EXCEPT !.bits = @ + 1]
      pos    == CASE mark.from = "none" -> 0
                  [] mark.from = "call" -> b.call_pos
                  [] mark.from = "jump" -> b.jump_pos
      right  == mark.bit = b.bits /\ mark.prev = b.prev /\ mark.pos = pos
      target == IF right THEN Span(b.ip + 1, TargetSize) ELSE Garbage(TargetSize)
      n      == Min({TargetSize, room - 1})
      after  == [bit EXCEPT !.ip = @ + TargetSize, !.prev = target[TargetSize],
                            !.pending = Kept(target, n)]
  IN  IF byte \notin DOMAIN s.marks THEN [b |-> read, out |-> <<here>>]
      ELSE CASE mark.from = "none" ->
                  [b |-> bit, out |-> <<IF right THEN here ELSE -1>>]
             [] mark.from = "call" ->
                  [b |-> [after EXCEPT !.call_pos = @ + TargetSize],
                   out |-> <<here>> \o Take(target, n)]
             [] mark.from = "jump" ->
                  [b |-> [after EXCEPT !.jump_pos = @ + TargetSize],
                   out |-> <<here>> \o Take(target, n)]

RECURSIVE Run(_, _, _, _, _)
Run(s, b, data, room, out) ==
  LET step == Step(s, b, Head(data), room - Len(out))
  IN  IF b.pending # <<>> \/ data = <<>> \/ Len(out) = room
      THEN [b |-> b, left |-> data, out |-> out]
      ELSE Run(s, step.b, Tail(data), room, out \o step.out)

Call(s, b, data, room) ==
  LET n    == Min({Len(b.pending), room})
      r    == Run(s, [b EXCEPT !.pending = Drop(@, n)], data, room, Take(b.pending, n))
      next == [r.b EXCEPT !.finished = @ \/ data = <<>>]
  IN  Answer(next, Len(data) - Len(r.left), r.out,
             IF next.finished /\ next.pending = <<>> THEN "StreamEnd" ELSE "Continue")

Decompress(s, b, data, room) == {Call(s, b, data, room)}

Checkpoint(s, b, packed, unpacked) ==
  {[packed |-> packed, unpacked |-> unpacked, fresh |-> FALSE, decoder |-> b]}

Restored(s, cp) == IF cp.fresh THEN New(s) ELSE cp.decoder

Held(b) == Len(b.pending)
=============================================================================

------------------------------- MODULE Filter -------------------------------
(***************************************************************************)
(* FilterDecompressor (src/compress/filter.rs): the branch converters and  *)
(* the delta filter as stages that hold back what they cannot convert yet. *)
(*                                                                         *)
(* A stream is s.filter and what its bytes hold, by their offset: where an *)
(* instruction to convert starts (s.code), and for x86 which bytes are     *)
(* opcodes (s.opcodes) and which may end an address (s.msb).  A byte is    *)
(* its offset, and Converted(offset, mask) once it was rewritten by its    *)
(* position: one rewritten by another, or twice, is garbage.               *)
(***************************************************************************)
EXTENDS Codec

CONSTANTS
  Widths,          \* of the instructions of the aligned converters (4; 16 for ia64)
  Instruction,     \* bytes x86() needs to see of one (5)
  History          \* DELTA_HISTORY (256)

Converted(offset, mask) == 1000 * (mask + 1) + offset

New(s) ==
  [pos |-> 0, buf |-> <<>>, filtered |-> 0, finished |-> FALSE,
   prev_mask |-> 0, prev_pos |-> -Instruction,
   history |-> [i \in 0..(History - 1) |-> -1], hist_pos |-> 0]

\* The bytes i+1..i+n of buf, which is at `pos', rewritten as one instruction.
Rewritten(buf, pos, i, n, mask) ==
  [k \in DOMAIN buf |->
     IF k <= i \/ k > i + n THEN buf[k]
     ELSE IF buf[k] = pos + k - 1 THEN Converted(buf[k], mask) ELSE -1]

\* A converter's answer: the buffer and how many of its bytes are final.
Final(buf, n) == [buf |-> buf, done |-> n]

(***************************************************************************)
(* arm(), powerpc(), sparc(), arm64(), ia64(): aligned words.              *)
(***************************************************************************)
Aligned(s, buf, pos) ==
  LET width == Widths[s.filter]
      words == Len(buf) \div width
      at(k) == ((k - 1) \div width) * width
  IN  Final([k \in DOMAIN buf |->
               IF k <= words * width /\ buf[at(k) + 1] \in s.code
               THEN Rewritten(buf, pos, at(k), width, 0)[k] ELSE buf[k]],
            words * width)

(***************************************************************************)
(* arm_thumb() and riscv(): instructions in steps of two, s.ahead bytes    *)
(* seen of each; one that is converted, or skipped, is s.steps long.       *)
(***************************************************************************)
RECURSIVE Stepped(_, _, _, _)
Stepped(s, buf, pos, i) ==
  LET byte == buf[i + 1]
      step == IF byte \in DOMAIN s.steps THEN s.steps[byte] ELSE 2
  IN  IF Len(buf) < s.ahead \/ i > Len(buf) - s.ahead THEN Final(buf, i)
      ELSE Stepped(s, IF byte \in s.code THEN Rewritten(buf, pos, i, step, 0) ELSE buf, pos,
                   i + step)

(***************************************************************************)
(* x86(): whether and how an opcode is converted depends on the opcodes in *)
(* the bytes before it, kept in prev_mask and prev_pos.                    *)
(***************************************************************************)

\* prev_mask &= 0x77, prev_mask <<= 1; one time per byte since the last opcode.
RECURSIVE Aged(_, _)
Aged(mask, n) ==
  IF n = 0 THEN mask ELSE Aged(((mask \div 16) % 8) * 32 + (mask % 8) * 2, n - 1)

\* prev_mask |= bit
WithBit(mask, bit) == IF (mask \div bit) % 2 = 1 THEN mask ELSE mask + bit

RECURSIVE X86(_, _, _, _, _, _)
X86(s, buf, pos, i, mask, prev) ==
  LET here  == pos + i
      since == here - prev
      aged  == IF since > Instruction THEN 0 ELSE Aged(mask, since)
      msb   == buf[i + Instruction] \in s.msb
  IN  IF i > Len(buf) - Instruction
      THEN [buf |-> buf, done |-> i, mask |-> mask, prev |-> prev]
      ELSE IF buf[i + 1] \notin s.opcodes THEN X86(s, buf, pos, i + 1, mask, prev)
      ELSE IF msb /\ aged \div 2 <= 4 /\ aged \div 2 # 3
      THEN X86(s, Rewritten(buf, pos, i + 1, Instruction - 1, aged), pos, i + Instruction, 0,
               here)
      ELSE X86(s, buf, pos, i + 1,
               IF msb THEN WithBit(WithBit(aged, 1), 16) ELSE WithBit(aged, 1), here)

\* What x86() starts with.
LastOpcode(f, now_pos) ==
  IF now_pos - f.prev_pos > Instruction THEN now_pos - Instruction ELSE f.prev_pos
-----------------------------------------------------------------------------
\* The delta filter: a byte and the one `distance' before it.
RECURSIVE Delta(_, _, _)
Delta(s, f, left) ==
  LET p    == Len(f.buf) - Len(left)
      byte == Head(left)
      back == f.history[(s.distance + f.hist_pos) % History]
      sum  == IF back = (IF byte < s.distance THEN -1 ELSE byte - s.distance) THEN byte ELSE -1
  IN  IF left = <<>> THEN f
      ELSE Delta(s, [f EXCEPT !.buf[p + 1] = sum, !.history[f.hist_pos] = sum,
                              !.hist_pos = (@ + History - 1) % History], Tail(left))

\* run(): convert what can be.
Run(s, f, end) ==
  LET raw     == Drop(f.buf, f.filtered)
      now_pos == f.pos + f.filtered
      x       == IF Len(raw) < Instruction
                 THEN [buf |-> raw, done |-> 0, mask |-> f.prev_mask, prev |-> f.prev_pos]
                 ELSE X86(s, raw, now_pos, 0, f.prev_mask, LastOpcode(f, now_pos))
      c       == CASE s.filter = "x86"                  -> x
                   [] s.filter \in {"thumb", "riscv"}   -> Stepped(s, raw, now_pos, 0)
                   [] s.filter \in DOMAIN Widths        -> Aligned(s, raw, now_pos)
      done    == IF s.filter = "delta" THEN Len(raw) ELSE c.done
      g       == IF s.filter = "delta" THEN Delta(s, f, raw)
                 ELSE [f EXCEPT !.buf = Take(@, f.filtered) \o c.buf]
      h       == IF s.filter = "x86" THEN [g EXCEPT !.prev_mask = x.mask, !.prev_pos = x.prev]
                 ELSE g
  IN  [h EXCEPT !.filtered = IF end THEN Len(f.buf) ELSE f.filtered + done]

\* emit()
Emitted(f, n) == [f EXCEPT !.buf = Drop(@, n), !.filtered = @ - n, !.pos = @ + n]

Call(s, f, data, room) ==
  LET n    == Min({f.filtered, room})
      e    == Emitted(f, n)
      runs == n < room /\ ~ f.finished
      g    == IF ~ runs THEN e
              ELSE IF data = <<>> THEN Run(s, [e EXCEPT !.finished = TRUE], TRUE)
              ELSE Run(s, [e EXCEPT !.buf = @ \o data], FALSE)
      m    == IF runs THEN Min({g.filtered, room - n}) ELSE 0
      h    == Emitted(g, m)
  IN  Answer(h, IF runs THEN Len(data) ELSE 0, Take(f.buf, n) \o Take(g.buf, m),
             IF h.finished /\ h.buf = <<>> THEN "StreamEnd" ELSE "Continue")

Decompress(s, f, data, room) == {Call(s, f, data, room)}

Checkpoint(s, f, packed, unpacked) ==
  {[packed |-> packed, unpacked |-> unpacked, fresh |-> FALSE, decoder |-> f]}

Restored(s, cp) == IF cp.fresh THEN New(s) ELSE cp.decoder

Held(f) == Len(f.buf)
=============================================================================

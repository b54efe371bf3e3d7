------------------------------- MODULE Chain --------------------------------
(***************************************************************************)
(* ChainDecompressor (src/compress/chain.rs): stages as one decoder, each  *)
(* one's output on its way to the next in a bounded buffer; and            *)
(* CodecSpec.create() (src/compress/codec.rs), one stage or a chain.       *)
(*                                                                         *)
(* A chain's stream is [stages], the streams of its stages: the output of  *)
(* one is the file of the next.                                            *)
(***************************************************************************)
EXTENDS Stages

CONSTANT StageBuf     \* STAGE_BUF: what a buffer between two stages holds

StagesOf(s) == DOMAIN s.stages

NewChain(s) ==
  [stages |-> [i \in StagesOf(s) |-> NewStage(s.stages[i])],
   bufs   |-> [i \in 1..(Len(s.stages) - 1) |-> <<>>],
   totals |-> [i \in StagesOf(s) |-> <<0, 0>>],
   ended  |-> [i \in StagesOf(s) |-> FALSE]]

Finished(c) == c.ended[Len(c.ended)]

\* Stage i's answer, with what it took and what it gave counted.
Stepped(c, i, a) ==
  [c EXCEPT !.stages[i] = a.self,
            !.totals[i] = <<@[1] + a.consumed, @[2] + Len(a.bytes)>>,
            !.ended[i] = @ \/ a.status = "StreamEnd"]

\* A call under way: the chain, the input left, the output so far, whether this round of
\* its loop moved, and how it failed.
Underway(c, left, out) == [c |-> c, left |-> left, out |-> out, moved |-> FALSE, failed |-> "no"]

Failing(g, a) == [g EXCEPT !.failed = a.status]

Fails(a) == a.status \in {"Failed", "TruncatedInput"}

Moves(a) == a.consumed > 0 \/ a.bytes # <<>>

\* It reads what is left of the input; empty input is the end of the file.
SeesInput(g, eof) == g.left # <<>> \/ eof

\* Stage 0 reads the caller's input, into its buffer.
FirstStage(s, g, eof) ==
  LET space == StageBuf - Len(g.c.bufs[1])
  IN  IF g.c.ended[1] \/ space <= 0 \/ ~ SeesInput(g, eof) THEN {g}
      ELSE {IF Fails(a) THEN Failing(g, a)
            ELSE [g EXCEPT !.c = [Stepped(g.c, 1, a) EXCEPT !.bufs[1] = @ \o a.bytes],
                           !.left = Drop(@, a.consumed), !.moved = Moves(a)]
              : a \in StageDecompress(s.stages[1], g.c.stages[1], g.left, space)}

\* Stage i reads the buffer before it, into the one after it or the output.
LaterStage(s, g, i, room) ==
  LET last  == i = Len(s.stages)
      src   == g.c.bufs[i - 1]
      space == IF last THEN room - Len(g.out) ELSE StageBuf - Len(g.c.bufs[i])
      Passed(a) ==
        LET c == [Stepped(g.c, i, a) EXCEPT !.bufs[i - 1] = Drop(@, a.consumed)]
        IN  [g EXCEPT !.c = IF last THEN c ELSE [c EXCEPT !.bufs[i] = @ \o a.bytes],
                      !.out = IF last THEN @ \o a.bytes ELSE @,
                      !.moved = @ \/ Moves(a)]
  IN  IF \/ g.failed # "no" \/ g.c.ended[i] \/ space <= 0
         \/ src = <<>> /\ ~ g.c.ended[i - 1]
      THEN {g}
      ELSE {IF Fails(a) THEN Failing(g, a) ELSE Passed(a)
              : a \in StageDecompress(s.stages[i], g.c.stages[i], src, space)}

RECURSIVE LaterStages(_, _, _, _)
LaterStages(s, gs, i, room) ==
  IF i > Len(s.stages) THEN gs
  ELSE LaterStages(s, UNION {LaterStage(s, g, i, room) : g \in gs}, i + 1, room)

\* decompress()'s loop.
RECURSIVE Rounds(_, _, _, _)
Rounds(s, g, eof, room) ==
  LET round == LaterStages(s, FirstStage(s, [g EXCEPT !.moved = FALSE], eof), 2, room)
  IN  IF Finished(g.c) \/ Len(g.out) = room THEN {g}
      ELSE UNION {IF h.failed # "no" \/ ~ h.moved THEN {h} ELSE Rounds(s, h, eof, room)
                    : h \in round}

ChainDecompress(s, c, data, room) ==
  {Answer(g.c, IF g.failed = "no" THEN Len(data) - Len(g.left) ELSE 0,
          IF g.failed = "no" THEN g.out ELSE <<>>,
          IF g.failed # "no" THEN g.failed
          ELSE IF Finished(g.c) THEN "StreamEnd" ELSE "Continue")
     : g \in Rounds(s, Underway(c, data, <<>>), data = <<>>, room)}

\* Mutation: any stage may resume behind its count.
AnyMayResumeBehind(i, cp, count) == TRUE

\* Stage 0 is fed from the file; an inner one from what is pending, so it must be exact.
Resumable(i, cp, count) == i = 1 \/ cp.packed = count

ChainCheckpoint(s, c, packed, unpacked) ==
  LET offered(i) == {cp \in StageCheckpoint(s.stages[i], c.stages[i], c.totals[i][1],
                                            c.totals[i][2]) :
                       Resumable(i, cp, c.totals[i][1])}
      cps == [i \in StagesOf(s) |-> CHOOSE cp \in offered(i) : TRUE]
  IN  IF \E i \in StagesOf(s) : offered(i) = {} THEN {}
      ELSE {[packed |-> cps[1].packed, unpacked |-> unpacked, fresh |-> FALSE,
             stages |-> cps, pending |-> c.bufs, ended |-> c.ended]}

ChainRestored(s, cp) ==
  IF cp.fresh THEN NewChain(s)
  ELSE [stages |-> [i \in StagesOf(s) |-> StageRestored(s.stages[i], cp.stages[i])],
        bufs   |-> cp.pending,
        totals |-> [i \in StagesOf(s) |-> <<cp.stages[i].packed, cp.stages[i].unpacked>>],
        ended  |-> cp.ended]
-----------------------------------------------------------------------------
(***************************************************************************)
(* The decoder CodecSpec.create() makes.                                   *)
(***************************************************************************)
IsChain(s) == s.kind = "chain"

DecoderNew(s) == IF IsChain(s) THEN NewChain(s) ELSE NewStage(s)

DecoderDecompress(s, d, data, room) ==
  LET chain == IsChain(s)
  IN  IF chain THEN ChainDecompress(s, d, data, room) ELSE StageDecompress(s, d, data, room)

DecoderCheckpoint(s, d, packed, unpacked) ==
  LET chain == IsChain(s)
  IN  IF chain THEN ChainCheckpoint(s, d, packed, unpacked)
      ELSE StageCheckpoint(s, d, packed, unpacked)

DecoderRestored(s, cp) ==
  LET chain == IsChain(s)
  IN  IF chain THEN ChainRestored(s, cp) ELSE StageRestored(s, cp)

DecoderHeld(s, d) ==
  LET chain == IsChain(s)
  IN  IF chain
      THEN MapThenSumSet(LAMBDA i : StageHeld(s.stages[i], d.stages[i]), StagesOf(s))
      ELSE StageHeld(s, d)

DecoderHolds(s, read, room) ==
  LET chain == IsChain(s)
  IN  IF chain
      THEN MapThenSumSet(LAMBDA i : StageHolds(s.stages[i], Max({read, StageBuf}),
                                               Max({room, StageBuf})), StagesOf(s))
      ELSE StageHolds(s, read, room)
=============================================================================

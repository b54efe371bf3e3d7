-------------------------------- MODULE Gzip --------------------------------
(***************************************************************************)
(* GzipDecompressor (src/compress/gzip.rs): gzip and raw deflate.          *)
(*                                                                         *)
(* A stream `s' is [magic, raw, header, deflated, inflated, blocks]:       *)
(* whether it opens with the gzip magic, whether the decoder is told it is *)
(* raw, the bytes of its header and of its deflate data, inflated[p], what *)
(* the first p bytes of that inflate to, and where its blocks end, but for *)
(* the last.                                                               *)
(* Inflate (the miniz_oxide library) is seen through its answers: it works *)
(* through the blocks as far as its input and the circular window allow,   *)
(* stops at every block's end, refuses input that is not the byte it wants *)
(* next, and makes garbage over a window that is not the output before it. *)
(***************************************************************************)
EXTENDS Codec

CONSTANTS
  MinHeader,       \* bytes of the fixed header (10)
  TrailerSize,
  WindowSize
-----------------------------------------------------------------------------

NoBoundary == [packed |-> -1]
NoBytes    == [at |-> 0, bytes |-> <<>>]

\* new(), new_raw() and reset(): `inner' is inflate's own place in its stream.
New(s) ==
  [inner |-> <<0, 0>>,
   dict_buf |-> [i \in 0..(WindowSize - 1) |-> -1], dict_pos |-> 0,
   finished |-> FALSE,
   stage |-> <<>>,
   header_state |-> IF s.raw THEN "Decompressing" ELSE "ReadingFixedHeader",
   trailer |-> 0,
   header_len |-> 0, header_size |-> 0,
   deflate_in |-> 0, total_out |-> 0,
   last_boundary |-> NoBoundary,
   replay |-> NoBytes]

\* get_window(): the ring, oldest byte first.
Window(g) ==
  IF g.dict_pos < WindowSize THEN [i \in 1..g.dict_pos |-> g.dict_buf[i - 1]]
  ELSE [i \in 1..WindowSize |-> g.dict_buf[(g.dict_pos + i - 1) % WindowSize]]
-----------------------------------------------------------------------------
(***************************************************************************)
(* One call of inflate with the `n' bytes of the deflate data from `at'    *)
(* on.  It goes no further than the end of the block it is in and than the *)
(* end of the ring; held up by the ring it may have taken any of the bytes *)
(* that fill it.                                                           *)
(***************************************************************************)
BlockEnd(s, inner) ==
  Min({e \in s.blocks \cup {s.deflated} :
         inner[1] < e \/ (inner[1] = e /\ inner[2] < s.inflated[e])})

Room(g) == WindowSize - (g.dict_pos % WindowSize)

Reached(s, g, n) ==
  LET reach == Min({g.inner[1] + n, BlockEnd(s, g.inner)})
      limit == g.inner[2] + Room(g)
  IN  IF s.inflated[reach] <= limit THEN {<<reach, s.inflated[reach]>>}
      ELSE {<<p, limit>> : p \in {q \in g.inner[1]..reach : s.inflated[q] >= limit}}

InflateStatus(s, g, at, n, more, to) ==
  IF n > 0 /\ at # g.inner[1] THEN "Failed"
  ELSE IF to = <<s.deflated, s.inflated[s.deflated]>> THEN "Done"
  ELSE IF to[1] \in s.blocks /\ to[2] = s.inflated[to[1]] /\ to[1] = BlockEnd(s, g.inner)
  THEN "BlockBoundary"
  ELSE IF n = 0 /\ ~ more /\ to[2] < g.inner[2] + Room(g) THEN "CannotMakeProgress"
  ELSE "More"

Inflated(g, to) ==
  LET made == to[2] - g.inner[2]
  IN  IF Window(g) = LastOf(Span(0, g.inner[2]), WindowSize) THEN Span(g.inner[2], made)
      ELSE Garbage(made)

\* do_inflate(), where inflate gets to `to' and makes `bytes'.
DoInflate(g, to, bytes, status) ==
  LET made == Len(bytes)
      h == [g EXCEPT
              !.inner = to,
              !.dict_buf = [i \in DOMAIN @ |->
                  IF \E k \in 0..(made - 1) : i = (g.dict_pos + k) % WindowSize
                  THEN bytes[1 + ((i - g.dict_pos) % WindowSize)] ELSE @[i]],
              !.dict_pos = @ + made,
              !.total_out = @ + made,
              !.deflate_in = @ + (to[1] - g.inner[1])]
  IN  IF status # "BlockBoundary" THEN h
      ELSE [h EXCEPT !.last_boundary =
              [packed |-> h.header_size + h.deflate_in, unpacked |-> h.total_out,
               window |-> Window(h), inner |-> to]]

\* Without gzip framing there is no trailer to come.
EndsHere(s, g) == s.raw \/ g.header_size = 0

\* What inflate_to_output() answers to what inflate said, which got to `to': what does not
\* fit the caller's room is staged.
InflateAnswer(s, g, to, room, status) ==
  LET bytes == Inflated(g, to)
      taken == to[1] - g.inner[1]
      h     == [DoInflate(g, to, bytes, status) EXCEPT !.stage = Drop(bytes, room)]
      out   == Take(bytes, Min({room, Len(bytes)}))
  IN  CASE status = "Done" /\ ~ EndsHere(s, g) ->
             Answer([h EXCEPT !.header_state = "Trailer", !.trailer = TrailerSize],
                    taken, out, "Continue")
        [] status = "Done" /\ EndsHere(s, g) ->
             Answer([h EXCEPT !.finished = TRUE, !.header_state = "Finished"],
                    taken, out, IF h.stage = <<>> THEN "StreamEnd" ELSE "Continue")
        [] status \in {"BlockBoundary", "More"} -> Answer(h, taken, out, "Continue")
        [] status = "CannotMakeProgress" -> Answer(h, 0, <<>>, "TruncatedInput")
        [] status = "Failed" -> Answer(g, 0, <<>>, "Failed")

\* inflate_to_output()
InflateToOutput(s, g, at, n, more, room) ==
  {InflateAnswer(s, g, to, room, InflateStatus(s, g, at, n, more, to)) : to \in Reached(s, g, n)}

\* inflate_replay(): inflate the held bytes, `consumed' of them the caller's last.
InflateReplay(s, g, consumed, more, room) ==
  {[a EXCEPT !.consumed = consumed,
             !.self.replay = [at |-> g.replay.at + a.consumed,
                              bytes |-> Drop(g.replay.bytes, a.consumed)]]
     : a \in InflateToOutput(s, [g EXCEPT !.replay = NoBytes], g.replay.at,
                             Len(g.replay.bytes), more, room)}

LastFlushed(g, n) == g.finished /\ n = Len(g.stage)

\* flush_stage()
FlushStage(g, room) ==
  LET n == Min({Len(g.stage), room})
  IN  Answer([g EXCEPT !.stage = Drop(@, n)], 0, Take(g.stage, n),
             IF LastFlushed(g, n) THEN "StreamEnd" ELSE "Continue")
-----------------------------------------------------------------------------
(***************************************************************************)
(* decompress()                                                            *)
(***************************************************************************)

HeaderBytes(s, g, n) == s.header - g.header_len

\* try_parse_header(): whether `len' bytes of the file settle where the header ends.
HeaderSettled(s, len) == len >= (IF s.magic THEN s.header ELSE MinHeader)

DeflateAt(s, data) == IF data = <<>> THEN 0 ELSE data[1] - s.header

ReadHeader(s, g, data, room) ==
  LET n   == Len(data)
      len == g.header_len + n
  IN  CASE n = 0 ->
             {Answer(g, 0, <<>>, IF g.header_len > 0 THEN "TruncatedInput" ELSE "StreamEnd")}
        [] n > 0 /\ ~ HeaderSettled(s, len) ->
             {Answer([g EXCEPT !.header_len = len], n, <<>>, "Continue")}
        [] n > 0 /\ HeaderSettled(s, len) /\ ~ s.magic ->
             InflateReplay(s, [g EXCEPT !.header_state = "Decompressing", !.header_len = 0,
                                 !.replay = [at |-> data[1] - g.header_len,
                                             bytes |-> Span(data[1] - g.header_len, len)]],
                           n, TRUE, room)
        [] n > 0 /\ HeaderSettled(s, len) /\ s.magic ->
             LET h    == [g EXCEPT !.header_state = "Decompressing", !.header_len = 0,
                                   !.header_size = s.header]
                 head == HeaderBytes(s, g, n)
             IN  IF n = head THEN {Answer(h, head, <<>>, "Continue")}
                 ELSE {[a EXCEPT !.consumed = head + @] :
                         a \in InflateToOutput(s, h, DeflateAt(s, data) + head, n - head,
                                               TRUE, room)}

InflateHeld(s, g, data, room) ==
  LET n == Len(data)
  IN  UNION {IF \/ Len(held.bytes) > 0 \/ held.self.header_state # "Decompressing"
                \/ held.status \notin {"Continue", "StreamEnd"}
             THEN {held}
             ELSE IF held.self.replay.bytes = <<>>
             THEN InflateToOutput(s, held.self, DeflateAt(s, data), n, n > 0, room)
             ELSE InflateReplay(s, [held.self EXCEPT !.replay.bytes = @ \o data], n, n > 0, room)
             : held \in InflateReplay(s, g, 0, TRUE, room)}

\* Mutation: the trailer is taken to come in one piece.
WholeTrailer(g, n) == g.trailer

TrailerBytes(g, n) == Min({g.trailer, n})

SkipTrailer(g, n) ==
  LET take == TrailerBytes(g, n)
      left == g.trailer - take
  IN  IF n = 0 THEN Answer(g, 0, <<>>, "TruncatedInput")
      ELSE IF left = 0
      THEN Answer([g EXCEPT !.trailer = 0, !.finished = TRUE, !.header_state = "Finished"],
                  take, <<>>, "StreamEnd")
      ELSE Answer([g EXCEPT !.trailer = left], take, <<>>, "Continue")

Decompress(s, g, data, room) ==
  CASE g.stage # <<>> -> {FlushStage(g, room)}
    [] g.stage = <<>> /\ g.header_state = "ReadingFixedHeader" -> ReadHeader(s, g, data, room)
    [] g.stage = <<>> /\ g.header_state = "Decompressing" ->
         IF g.replay.bytes # <<>> THEN InflateHeld(s, g, data, room)
         ELSE InflateToOutput(s, g, DeflateAt(s, data), Len(data), data # <<>>, room)
    [] g.stage = <<>> /\ g.header_state = "Trailer" -> {SkipTrailer(g, Len(data))}
    [] g.stage = <<>> /\ g.header_state = "Finished" -> {Answer(g, 0, <<>>, "StreamEnd")}
-----------------------------------------------------------------------------
(***************************************************************************)
(* checkpoint() and restore()                                              *)
(***************************************************************************)

IsNow(g, packed, unpacked) ==
  g.last_boundary.unpacked = unpacked /\ g.last_boundary.packed = packed

\* The checkpoints it may be given: one or none.
Checkpoint(s, g, packed, unpacked) ==
  IF g.stage # <<>> \/ g.replay.bytes # <<>> THEN {}
  ELSE IF g.last_boundary # NoBoundary
  THEN IF IsNow(g, packed, unpacked)
       THEN {[packed |-> packed, unpacked |-> unpacked, fresh |-> FALSE,
              header_size |-> g.header_size,
              window |-> g.last_boundary.window, inner |-> g.last_boundary.inner]}
       ELSE {}
  ELSE IF packed = 0 /\ unpacked = 0 THEN {Start} ELSE {}

Restored(s, cp) ==
  IF cp.fresh THEN New(s)
  ELSE [New(s) EXCEPT
          !.inner = cp.inner,
          !.dict_buf = [i \in DOMAIN @ |-> IF i < Len(cp.window) THEN cp.window[i + 1] ELSE @[i]],
          !.dict_pos = Len(cp.window),
          !.header_state = "Decompressing",
          !.header_size = cp.header_size,
          !.total_out = cp.unpacked]

\* What it keeps of the file and of the output.
Held(g) == Len(g.stage) + Len(g.replay.bytes)

\* It has reached the end of a block since it was made or restored, and holds nothing back.
AtBlockEnd(s, g) ==
  /\ g.deflate_in > 0 /\ g.inner[1] \in s.blocks /\ g.inner[2] = s.inflated[g.inner[1]]
  /\ g.header_state = "Decompressing" /\ Held(g) = 0
=============================================================================

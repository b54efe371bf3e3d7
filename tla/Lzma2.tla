------------------------------- MODULE Lzma2 -------------------------------
(***************************************************************************)
(* Lzma2Decoder (src/compress/lzma/lzma2.rs) and Lzma2Decompressor over it *)
(* (src/compress/lzma/mod.rs): chunks, each a header and bytes as they are *)
(* or a payload of the LZMA decoder.                                       *)
(*                                                                         *)
(* s.byte[offset] is the value of a byte of a chunk's header, s.plain      *)
(* [offset] what an uncompressed one stands for, s.codes the payloads.     *)
(***************************************************************************)
EXTENDS Codec

CONSTANTS
  DictSize, InitBytes, InMargin, OutMargin,   \* as in Lzma
  SizeBase                                    \* 256, the values of a byte of a size

L == INSTANCE Lzma

\* The control bytes (0x80 and up: the LZMA chunks, by what they reset).
EndOfChunks  == 0
PlainNewDict == 1
Plain        == 2
Packed       == 128
PackedState  == 160
PackedProps  == 192
PackedDict   == 224

IsPacked(z) == z.control >= Packed
HasProps(z) == IsPacked(z) /\ z.control >= PackedProps

NewChunks ==
  [state |-> "Control", control |-> 0, unpack_size |-> 0, pack_size |-> 0,
   decoder |-> L!NewDecoder(L!NoSize), state_initialized |-> FALSE, props_set |-> FALSE,
   chunk_in_consumed |-> 0, chunk_out_produced |-> 0]

To(z, state) == [z EXCEPT !.state = state]

\* reset_state(), by the chunk's control byte.
ResetBy(z, props_reset) ==
  IF z.control >= PackedState /\ ~ props_reset THEN L!ResetState(z.decoder) ELSE z.decoder

\* prepare_lzma_chunk()
Prepared(z, props_reset) ==
  [To(z, "Data") EXCEPT
     !.state_initialized = TRUE,
     !.decoder = [ResetBy(z, props_reset) EXCEPT
                    !.unpack_size = z.unpack_size, !.decoded_size = 0,
                    !.rc_initialized = FALSE, !.init_len = 0, !.phase = L!Phase("IsMatch")],
     !.chunk_in_consumed = 0, !.chunk_out_produced = 0]

\* The control byte.
Controlled(before, v) ==
  LET z     == [before EXCEPT !.control = v]
      fresh == [z EXCEPT !.decoder = L!ResetDict(@)]
      sized(y) == [To(y, "Unpack0") EXCEPT
                     !.unpack_size = IF IsPacked(z) THEN (v % 32) * SizeBase * SizeBase ELSE 0]
  IN  CASE v = EndOfChunks  -> To(z, "Finished")
        [] v = PlainNewDict -> sized([fresh EXCEPT !.state_initialized = FALSE])
        [] v = Plain        -> IF z.state_initialized THEN sized(z) ELSE To(z, "Error")
        [] v >= Packed      ->
             LET y == IF v >= PackedDict THEN fresh ELSE z
             IN  IF z.state_initialized \/ v >= PackedProps THEN sized(y) ELSE To(y, "Error")
        [] OTHER            -> To(z, "Error")

\* A byte of a chunk's header.
HeaderRead(z, v) ==
  CASE z.state = "Control" -> Controlled(z, v)
    [] z.state = "Unpack0" -> [To(z, "Unpack1") EXCEPT !.unpack_size = @ + v * SizeBase]
    [] z.state = "Unpack1" /\ IsPacked(z) ->
         [To(z, "Pack0") EXCEPT !.unpack_size = @ + v + 1]
    [] z.state = "Unpack1" /\ ~ IsPacked(z) ->
         [To(z, "Data") EXCEPT !.unpack_size = @ + v + 1, !.chunk_out_produced = 0]
    [] z.state = "Pack0"   -> [To(z, "Pack1") EXCEPT !.pack_size = v * SizeBase]
    [] z.state = "Pack1"   ->
         LET y == [z EXCEPT !.pack_size = @ + v + 1]
         IN  IF HasProps(z) THEN To(y, "Prop")
             ELSE IF z.props_set THEN Prepared(y, FALSE) ELSE To(y, "Error")
    [] z.state = "Prop"    ->
         Prepared([z EXCEPT !.decoder = L!ResetState(@), !.props_set = TRUE], TRUE)
-----------------------------------------------------------------------------
Stop(z, left, out, status) == [z |-> z, left |-> left, out |-> out, status |-> status]

HeaderStates == {"Control", "Unpack0", "Unpack1", "Pack0", "Pack1", "Prop"}

\* The packed bytes of a chunk that the range coder had no use for.
Skipped(z, data) ==
  LET n == Min({Len(data), z.pack_size - z.chunk_in_consumed})
      y == [z EXCEPT !.chunk_in_consumed = @ + n]
  IN  [z |-> IF y.chunk_in_consumed < y.pack_size THEN y ELSE To(y, "Control"),
       left |-> Drop(data, n)]

\* decode()'s loop: up to where the input, the room or the chunks are out.
RECURSIVE Run(_, _, _, _, _)

RunHeader(s, z, data, room, out) ==
  IF data = <<>> THEN Stop(z, data, out, "NeedInput")
  ELSE Run(s,
           IF data[1] \in DOMAIN s.byte THEN HeaderRead(z, s.byte[data[1]]) ELSE To(z, "Error"),
           Tail(data), room, out)

RunPlain(s, z, data, room, out) ==
  LET n    == Min({z.unpack_size - z.chunk_out_produced, Len(data), room - Len(out)})
      copy == [i \in 1..n |-> IF data[i] \in DOMAIN s.plain THEN s.plain[data[i]] ELSE -1]
      y    == [z EXCEPT !.decoder.window = L!PutSlice(@, copy), !.chunk_out_produced = @ + n]
      done == y.chunk_out_produced >= y.unpack_size
  IN  IF data = <<>> THEN Stop(z, data, out, "NeedInput")
      ELSE IF n = 0 THEN Stop(z, data, out, "Continue")
      ELSE Run(s, IF done THEN [To(y, "Control") EXCEPT !.state_initialized = TRUE] ELSE y,
               Drop(data, n), room, out \o copy)

RunSkip(s, z, data, room, out) ==
  LET skip == Skipped(z, data)
  IN  IF skip.z.state = "Data" THEN Stop(skip.z, skip.left, out, "NeedInput")
      ELSE Run(s, skip.z, skip.left, room, out)

RunPacked(s, z, data, room, out) ==
  LET in    == Min({Len(data), z.pack_size - z.chunk_in_consumed})
      most  == Min({room - Len(out), z.unpack_size - z.chunk_out_produced})
      r     == L!Decode(s, z.decoder, Take(data, in), most)
      used  == in - Len(r.left)
      y     == [z EXCEPT !.decoder = r.d, !.chunk_in_consumed = @ + used,
                         !.chunk_out_produced = @ + Len(r.out)]
      left  == Drop(data, used)
      given == out \o r.out
      all   == y.chunk_in_consumed >= y.pack_size
      whole == y.chunk_out_produced >= y.unpack_size
  IN  IF most = 0 THEN Stop(z, data, out, "Continue")
      ELSE CASE r.status = "Lost"          -> Stop(To(y, "Error"), left, given, "Error")
             [] r.status \in L!Finishes    -> RunSkip(s, y, left, room, given)
             [] r.status = "NeedInput"     ->
                  IF all THEN Run(s, To(y, IF whole THEN "Control" ELSE "Error"), left, room,
                                  given)
                  ELSE IF used = 0 THEN Stop(y, left, given, "NeedInput")
                  ELSE Run(s, y, left, room, given)
             [] r.status = "Continue"      ->
                  IF used > 0 \/ r.out # <<>> THEN Run(s, y, left, room, given)
                  ELSE IF all /\ whole THEN Run(s, To(y, "Control"), left, room, given)
                  ELSE Stop(y, left, given, IF in = 0 THEN "NeedInput" ELSE "Continue")

Run(s, z, data, room, out) ==
  CASE z.state \in {"Finished", "Error"} -> Stop(z, data, out, z.state)
    [] z.state \in HeaderStates          -> RunHeader(s, z, data, room, out)
    [] z.state = "Data" /\ ~ IsPacked(z) -> RunPlain(s, z, data, room, out)
    [] z.state = "Data" /\ IsPacked(z)   ->
         IF z.unpack_size = z.chunk_out_produced THEN RunSkip(s, z, data, room, out)
         ELSE RunPacked(s, z, data, room, out)

\* decode().  What was pending is not counted to its chunk.
DecodeChunks(s, before, data, room) ==
  LET dr == L!Drained(before.decoder, room, <<>>)
      z  == [before EXCEPT !.decoder = dr.d]
  IN  IF dr.stuck
      THEN Stop(z, data, dr.out, IF z.state = "Finished" THEN "Finished" ELSE "Continue")
      ELSE Run(s, z, data, room, dr.out)

\* get_state()
SavedChunks(z) == [z EXCEPT !.decoder = L!SavedDecoder(@)]
-----------------------------------------------------------------------------
(***************************************************************************)
(* Lzma2Decompressor                                                       *)
(***************************************************************************)
New(s) == [inner |-> NewChunks, finished |-> FALSE]

\* Mutation: an input that ends before the end marker is waited for.
NeverTruncated(data, r) == FALSE

Truncated(data, r) == data = <<>> /\ r.out = <<>> /\ r.status \in {"Continue", "NeedInput"}

Call(s, z, data, room) ==
  LET r    == DecodeChunks(s, z.inner, data, room)
      next == [inner |-> r.z, finished |-> r.status = "Finished"]
  IN  IF z.finished THEN Answer(z, 0, <<>>, "StreamEnd")
      ELSE Answer(next, Len(data) - Len(r.left), r.out,
                  CASE r.status = "Finished" -> "StreamEnd"
                    [] r.status = "Error"    -> "Failed"
                    [] Truncated(data, r)    -> "TruncatedInput"
                    [] OTHER                 -> "Continue")

Decompress(s, z, data, room) == {Call(s, z, data, room)}

Checkpoint(s, z, packed, unpacked) ==
  {[packed |-> packed, unpacked |-> unpacked, fresh |-> FALSE,
    decoder |-> SavedChunks(z.inner), finished |-> z.finished]}

Restored(s, cp) ==
  IF cp.fresh THEN New(s) ELSE [inner |-> cp.decoder, finished |-> cp.finished]

Held(z) == L!HeldPending(z.inner.decoder)
=============================================================================

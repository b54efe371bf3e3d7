-------------------------------- MODULE Aes --------------------------------
(***************************************************************************)
(* AesCbcDecryptor (src/compress/aes.rs): whole blocks, each decrypted     *)
(* with the one before it; s.len is the length to cut the last one's       *)
(* padding at, or NoLength.                                                *)
(***************************************************************************)
EXTENDS Codec

CONSTANT Block     \* 16

NoLength == -1

New(s) ==
  [prev |-> -1,          \* the last block decrypted, by its first byte; or the iv
   carry |-> <<>>, staged |-> <<>>, produced |-> 0, finished |-> FALSE]

Remaining(s, d) == s.len - d.produced

Known(s) == s.len # NoLength

\* emit(): what it gives out and the decryptor after it.
Emit(s, d, room) ==
  LET n    == Min({Len(d.staged), room} \cup (IF Known(s) THEN {Remaining(s, d)} ELSE {}))
      next == [d EXCEPT !.staged = Drop(@, n), !.produced = @ + n]
  IN  [bytes |-> Take(d.staged, n),
       d |-> IF Known(s) /\ Remaining(s, next) = 0
             THEN [next EXCEPT !.finished = TRUE, !.staged = <<>>] ELSE next]

\* decrypt_block(): the bytes of a block, if it and the one before it are the stream's.
DecryptBlock(d, block) ==
  LET right == /\ block = Span(block[1], Block) /\ block[1] % Block = 0
               /\ d.prev = (IF block[1] = 0 THEN -1 ELSE block[1] - Block)
  IN  [d EXCEPT !.prev = block[1], !.staged = @ \o (IF right THEN block ELSE Garbage(Block))]

RECURSIVE DecryptBlocks(_, _, _)
DecryptBlocks(d, data, n) ==
  IF n = 0 THEN d ELSE DecryptBlocks(DecryptBlock(d, Take(data, Block)), Drop(data, Block), n - 1)

\* No more than the output can take.
WantBlocks(room) == Max({room \div Block, 1})

\* The carried block, the whole ones, and what is carried on; and the input left.
Decrypt(d, data, room) ==
  LET need   == IF d.carry = <<>> THEN 0 ELSE Min({Block - Len(d.carry), Len(data)})
      carry  == d.carry \o Take(data, need)
      filled == Len(carry) = Block
      c      == IF filled THEN DecryptBlock([d EXCEPT !.carry = <<>>], carry)
                ELSE [d EXCEPT !.carry = carry]
      rest   == Drop(data, need)
      before == IF filled THEN 1 ELSE 0
      n      == Min({Max({WantBlocks(room) - before, 0}), Len(rest) \div Block})
      after  == Drop(rest, n * Block)
      b      == DecryptBlocks(c, rest, n)
  IN  IF before + n < WantBlocks(room) THEN [d |-> [b EXCEPT !.carry = @ \o after], left |-> <<>>]
      ELSE [d |-> b, left |-> after]

Call(s, d, data, room) ==
  LET first == Emit(s, d, room)
      e     == first.d
      given == Len(first.bytes)
      done  == [e EXCEPT !.finished = TRUE]
      r     == Decrypt(e, data, room - given)
      after == Emit(s, r.d, room - given)
      Says(x) == IF x.finished THEN "StreamEnd" ELSE "Continue"
  IN  CASE e.finished                  -> Answer(e, 0, first.bytes, "StreamEnd")
        [] ~ e.finished /\ data = <<>> ->
             IF \/ e.carry # <<>>
                \/ e.staged = <<>> /\ Known(s) /\ Remaining(s, e) > 0
             THEN Answer(e, 0, <<>>, "TruncatedInput")
             ELSE IF e.staged = <<>> THEN Answer(done, 0, first.bytes, "StreamEnd")
             ELSE Answer(e, 0, first.bytes, "Continue")
        [] ~ e.finished /\ data # <<>> ->
             IF given = room \/ e.staged # <<>> THEN Answer(e, 0, first.bytes, "Continue")
             ELSE Answer(after.d, Len(data) - Len(r.left), first.bytes \o after.bytes,
                         Says(after.d))

Decompress(s, d, data, room) == {Call(s, d, data, room)}

Checkpoint(s, d, packed, unpacked) ==
  {[packed |-> packed, unpacked |-> unpacked, fresh |-> FALSE, decoder |-> d]}

Restored(s, cp) == IF cp.fresh THEN New(s) ELSE cp.decoder

Held(d) == Len(d.carry) + Len(d.staged)
=============================================================================

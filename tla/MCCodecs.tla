------------------------------ MODULE MCCodecs ------------------------------
(***************************************************************************)
(* Small streams for Codecs.                                               *)
(***************************************************************************)
EXTENDS Codecs, Chain, SequencesExt

\* Four blocks: one of bursts, an empty one, one that fills the ring, the last with a header.
Deflated == [p \in 0..6 |-> <<0, 0, 3, 3, 8, 8, 12>>[p + 1]]

GzOf(inflated, blocks, magic, raw, header, tails) ==
  LET last   == Max(DOMAIN inflated)
      packed == header + last + (IF magic THEN TrailerSize ELSE 0)
  IN  [kind |-> "gzip", magic |-> magic, raw |-> raw, header |-> header,
       packed |-> packed, deflated |-> last, inflated |-> inflated, blocks |-> blocks,
       decoded |-> [p \in 0..packed |-> inflated[Min({Max({p - header, 0}), last})]],
       bytes |-> Span(0, inflated[last]), tails |-> tails]

Gz(magic, raw, header, tails) == GzOf(Deflated, {2, 3, 4}, magic, raw, header, tails)

\* A plain header, one with an optional field, no header, and a raw decoder; files
\* whole, cut at any byte, and with a byte after the end.
GzipStreams ==
  {Gz(TRUE, FALSE, 2, -10..1), Gz(TRUE, FALSE, 3, -11..1),
   Gz(FALSE, FALSE, 0, -6..0), Gz(FALSE, TRUE, 0, -6..1)}

\* Without a header: an empty block after every byte, and two empty blocks in a row.
FlushedStreams == {GzOf([p \in 0..20 |-> (p + 1) \div 2], 1..19, FALSE, FALSE, 0, {0})}
FlushedTwice   == {GzOf([p \in 0..6 |-> <<0, 0, 3, 3, 3, 8, 12>>[p + 1]], {2, 3, 4},
                        FALSE, FALSE, 0, {0})}

\* Three blocks that start at either bit of a byte, one of them empty-handed for long.
Bz(header, tails) ==
  LET b      == header * 2
      blocks == <<[start |-> b, at |-> 0, size |-> 3], [start |-> b + 5, at |-> 3, size |-> 2],
                  [start |-> b + 12, at |-> 5, size |-> 3]>>
      end    == b + 17 + 5
      ends   == <<b + 5, b + 12, b + 17>>
  IN  [kind |-> "bzip2", header |-> header, blocks |-> blocks, eos |-> b + 17, end |-> end,
       packed |-> (end + 1) \div 2,
       decoded |-> [p \in 0..((end + 1) \div 2) |->
                      MapThenSumSet(LAMBDA k : IF ends[k] <= 2 * p THEN blocks[k].size ELSE 0,
                                    1..3)],
       bytes |-> Span(0, 8), tails |-> tails]

(***************************************************************************)
(* Cut anywhere but just before the byte with a block's last bit.  There a *)
(* decoder restored at a block that starts inside a byte fills up the bits *)
(* it has shifted in with zeros, libbzip2 takes one for the block's last,  *)
(* and the file is refused as corrupt, or taken to end, although it was    *)
(* only cut.                                                               *)
(***************************************************************************)
Bzip2Streams == {Bz(1, (-11..2) \ {-3})}

-----------------------------------------------------------------------------
(***************************************************************************)
(* LZMA payloads.  A symbol is the questions it answers, those before      *)
(* which the range coder reads a byte, and what it makes of the output and *)
(* the distances.                                                          *)
(***************************************************************************)
Match == <<<<"IsMatch", 1>>, <<"IsRep", 0>>, <<"LenChoice", 0>>>>
Rep   == <<<<"IsMatch", 1>>, <<"IsRep", 1>>>>
Long  == <<<<"IsRepG0", 0>>, <<"IsRep0Long", 1>>, <<"LenChoice", 0>>>>
Rep2  == <<<<"IsRepG0", 1>>, <<"IsRepG1", 1>>, <<"IsRepG2", 0>>, <<"LenChoice", 0>>>>
Rep1  == <<<<"IsRepG0", 1>>, <<"IsRepG1", 0>>, <<"LenChoice", 0>>>>

Sym(asks, n, dist, reps, reads) ==
  [asks |-> asks, n |-> n, dist |-> dist, reps |-> reps, reads |-> reads]

Lit(reads) == Sym(<<<<"IsMatch", 0>>, <<"LiteralHigh", 0>>>>, 1, -1, <<>>, reads)
Near(n, dist, reads) ==
  Sym(Match \o <<<<"LenBits", n>>, <<"PosSlot", dist>>>>, n, dist, <<dist>>, reads)
Far(n, dist, reads) ==
  Sym(Match \o <<<<"LenBits", n>>, <<"PosSlot", LZ!More>>, <<"DistBits", dist>>>>,
      n, dist, <<dist>>, reads)
ShortRep(dist, reads) ==
  Sym(Rep \o <<<<"IsRepG0", 0>>, <<"IsRep0Long", 0>>>>, 1, dist, <<>>, reads)
LongRep(choice, n, dist, reads) ==
  Sym(Rep \o choice \o <<<<"LenBits", n>>>>, n, dist, <<>>, reads)
Marker(reads) == [Far(0, LZ!EndMark, reads) EXCEPT !.asks[4] = <<"LenBits", 2>>]

\* The output once a symbol is added to it; a literal is named by where it stands.
Extended(out, sym) ==
  IF sym.dist = -1 /\ sym.n = 1 THEN Append(out, Len(out))
  ELSE FoldLeft(LAMBDA o, i : Append(o, o[Len(o) - sym.dist]), out, [i \in 1..sym.n |-> i])

\* A payload at `from' after the output `out', for a model that has seen `model' symbols:
\* its codes, its length, and for each byte of output how much of the file it takes.
PayloadAfter(out, from, model, syms) ==
  FoldLeft(
    LAMBDA acc, sym :
      LET asks == IF sym.dist = -1 /\ sym.n = 1
                  THEN Append(sym.asks, <<"Literal", Len(acc.out)>>) ELSE sym.asks
          Before(i) == Cardinality({j \in sym.reads : j < i})
          codes == [i \in DOMAIN asks |->
                      [asks |-> asks[i][1], value |-> asks[i][2], model |-> acc.model,
                       byte |-> IF i \in sym.reads THEN acc.to + Before(i) ELSE LZ!NoByte]]
          to == acc.to + Cardinality(sym.reads)
      IN  [codes |-> acc.codes \o codes, model |-> acc.model + 1, to |-> to,
           out |-> Extended(acc.out, sym),
           avail |-> acc.avail \o [i \in 1..sym.n |-> to]],
    [codes |-> <<>>, model |-> model, to |-> from + InitBytes, out |-> out, avail |-> <<>>],
    syms)

Decodes(avail, packed) ==
  [p \in 0..packed |-> Cardinality({i \in DOMAIN avail : avail[i] <= p})]

Lzma1(syms, sized, tails) ==
  LET p == PayloadAfter(<<>>, 0, 0, syms)
  IN  [kind |-> "lzma", unpack_size |-> IF sized THEN Len(p.out) ELSE LZ!NoSize,
       codes |-> (0 :> p.codes), packed |-> p.to, decoded |-> Decodes(p.avail, p.to),
       bytes |-> p.out, tails |-> tails]

\* Every kind of symbol, with matches that overlap themselves and the ring's end.
Symbols ==
  <<Lit({1}), Near(3, 0, {3}), Lit({1}), Far(3, 1, {3, 5}), ShortRep(1, {4}), Near(2, 3, {4}),
    LongRep(Rep1, 2, 1, {2}), LongRep(Long, 3, 1, {}), LongRep(Rep2, 2, 0, {3, 6})>>

LzmaStreams ==
  {Lzma1(Symbols, TRUE, {-3, 0, 1}), Lzma1(Append(Symbols, Marker({6})), FALSE, {-1, 0, 1})}

-----------------------------------------------------------------------------
(***************************************************************************)
(* LZMA2: a chunk is its control byte and as many bytes as they are, or    *)
(* the symbols of a payload and the bytes the range coder leaves of it.    *)
(***************************************************************************)
PlainChunk(control, n) == [control |-> control, n |-> n, syms |-> <<>>, slack |-> 0]
PackedChunk(control, syms, slack) == [control |-> control, n |-> 0, syms |-> syms, slack |-> slack]

SizeBytes(n) == <<(n - 1) \div SizeBase, (n - 1) % SizeBase>>

Bytes(at, values) == [i \in at..(at + Len(values) - 1) |-> values[i - at + 1]]

Chunks(at, out, chunks) ==
  FoldLeft(
    LAMBDA acc, c :
      LET plain == c.control < L2!Packed
          model == IF c.control >= L2!PackedState THEN 0 ELSE acc.model
          head  == IF c.control >= L2!PackedProps THEN 6 ELSE 5
          pay   == PayloadAfter(acc.out, acc.at + head, model, c.syms)
          n     == Len(pay.out) - Len(acc.out)
          size  == pay.to + c.slack - (acc.at + head)
      IN  IF plain
          THEN [acc EXCEPT
                  !.at = @ + 3 + c.n,
                  !.byte = @ @@ Bytes(acc.at, <<c.control>> \o SizeBytes(c.n)),
                  !.plain = @ @@ Bytes(acc.at + 3, Span(Len(acc.out), c.n)),
                  !.out = @ \o Span(Len(@), c.n),
                  !.avail = @ \o [i \in 1..c.n |-> acc.at + 3 + i]]
          ELSE [acc EXCEPT
                  !.at = pay.to + c.slack,
                  !.byte = @ @@ Bytes(acc.at, <<c.control>> \o SizeBytes(n) \o SizeBytes(size)
                                               \o (IF head = 6 THEN <<0>> ELSE <<>>)),
                  !.codes = @ @@ ((acc.at + head) :> pay.codes),
                  !.out = pay.out,
                  !.avail = @ \o pay.avail,
                  !.model = pay.model],
    [at |-> at, byte |-> <<>>, plain |-> <<>>, codes |-> <<>>, out |-> out, avail |-> <<>>,
     model |-> 0],
    chunks)

Lzma2(chunks, tails) ==
  LET c == Chunks(0, <<>>, chunks)
  IN  [kind |-> "lzma2", byte |-> c.byte @@ (c.at :> L2!EndOfChunks), plain |-> c.plain,
       codes |-> c.codes, packed |-> c.at + 1, decoded |-> Decodes(c.avail, c.at + 1),
       bytes |-> c.out, tails |-> tails]

\* A dictionary reset, bytes as they are, a payload that goes on with the state, and one
\* that starts it anew; one that starts with bytes as they are.
Lzma2Streams ==
  {Lzma2(<<PackedChunk(L2!PackedDict, <<Lit({1}), Near(3, 0, {3})>>, 1),
           PlainChunk(L2!Plain, 2),
           PackedChunk(L2!Packed, <<ShortRep(0, {2}), Lit({})>>, 0),
           PackedChunk(L2!PackedState, <<Far(2, 3, {5})>>, 0)>>, {-9, -1, 0, 1}),
   Lzma2(<<PlainChunk(L2!PlainNewDict, 5),
           PackedChunk(L2!PackedProps, <<Near(6, 1, {})>>, 0)>>, {-2, 0})}

\* xz: blocks of one payload each, their checks and padding, the index and the footer.
Xz(blocks, check, tail, tails) ==
  LET head == 2 * Align
      b == FoldLeft(
             LAMBDA acc, chunks :
               LET c    == Chunks(acc.at + head, acc.out, chunks)
                   size == (c.at + 1 + check) - acc.at
               IN  [at    |-> acc.at + ((size + Align - 1) \div Align) * Align,
                    byte  |-> acc.byte @@ (acc.at :> 1) @@ c.byte @@ (c.at :> L2!EndOfChunks),
                    plain |-> acc.plain @@ c.plain, codes |-> acc.codes @@ c.codes,
                    out   |-> c.out, avail |-> acc.avail \o c.avail],
             [at |-> StreamHeader, byte |-> <<>>, plain |-> <<>>, codes |-> <<>>,
              out |-> <<>>, avail |-> <<>>],
             blocks)
      packed == b.at + 1 + tail
  IN  [kind |-> "xz", check |-> check, tail |-> tail, byte |-> b.byte @@ (b.at :> 0),
       plain |-> b.plain, codes |-> b.codes, packed |-> packed,
       decoded |-> Decodes(b.avail, packed), bytes |-> b.out, tails |-> tails]

\* Two blocks, the first to be padded; and a file with none.
XzStreams ==
  {Xz(<<<<PackedChunk(L2!PackedDict, <<Lit({}), Near(6, 0, {})>>, 1)>>,
        <<PlainChunk(L2!PlainNewDict, 3)>>>>, 1, 2, {-13, -3, 0}),
   Xz(<<>>, 0, 2, -5..1)}

-----------------------------------------------------------------------------
(***************************************************************************)
(* Zstandard: frames of blocks, a block [body, size of its data, output].  *)
(***************************************************************************)
RawBody(n)      == [type |-> "raw", n |-> n]
RleBody(n)      == [type |-> "rle", n |-> n]
Coded(n, treeless, repeat, seqs) ==
  [type |-> "compressed", n |-> n, treeless |-> treeless, repeat |-> repeat, seqs |-> seqs]

\* A frame's blocks, laid out from `at' after the output `out'.  A sequence is given as
\* <<literals, offset value, match length, offset>>: the last to expand it by.
FrameBlocks(at, out, blocks) ==
  FoldLeft(
    LAMBDA acc, b :
      LET new  == Span(Len(acc.out), b.n)
          huff == IF b.type = "compressed" /\ ~ b.treeless THEN acc.at ELSE acc.huffman
          fse  == IF b.type = "compressed" /\ ~ b.repeat THEN acc.at ELSE acc.coded
          body == CASE b.type = "raw" ->
                         [type |-> "raw", literals |-> new, huffman |-> ZS!None,
                          treeless |-> FALSE, repeat |-> FALSE, seqs |-> <<>>]
                    [] b.type = "rle" ->
                         [type |-> "rle", literals |-> Take(new, 1), times |-> b.n,
                          huffman |-> ZS!None, treeless |-> FALSE, repeat |-> FALSE,
                          seqs |-> <<>>]
                    [] b.type = "compressed" ->
                         [type |-> "compressed", literals |-> new, huffman |-> huff,
                          treeless |-> b.treeless, coded |-> fse, repeat |-> b.repeat,
                          seqs |-> [i \in DOMAIN b.seqs |-> Take(b.seqs[i], 3)]]
          seqd == FoldLeft(LAMBDA o, q :
                             [out |-> FoldLeft(LAMBDA x, i : Append(x, x[Len(x) + 1 - q[4]]),
                                               o.out \o Take(o.lits, q[1]),
                                               [i \in 1..q[3] |-> i]),
                              lits |-> Drop(o.lits, q[1])],
                           [out |-> acc.out, lits |-> new],
                           IF b.type = "compressed" THEN b.seqs ELSE <<>>)
          all  == CASE b.type = "rle" -> acc.out \o [i \in 1..b.n |-> new[1]]
                    [] OTHER          -> seqd.out \o seqd.lits
          size == CASE b.type = "raw" -> b.n [] b.type = "rle" -> 1 [] OTHER -> 2
          to   == acc.at + BlockHeader + size
      IN  [at |-> to, out |-> all, huffman |-> huff, coded |-> fse,
           blocks |-> acc.blocks @@ (acc.at :> [last |-> Len(acc.left) = 1, size |-> size,
                                                body |-> body]),
           left |-> Tail(acc.left),
           avail |-> acc.avail \o [i \in 1..(Len(all) - Len(acc.out)) |-> to]],
    [at |-> at, out |-> out, huffman |-> ZS!None, coded |-> ZS!None, blocks |-> <<>>,
     left |-> blocks, avail |-> <<>>],
    blocks)

\* Frames [skip, window, checksum, blocks], each after `skip' bytes of a skippable one.
Zs(frames, tails) ==
  LET z == FoldLeft(
             LAMBDA acc, f :
               LET at == acc.at + f.skip
                   b  == FrameBlocks(at + MagicSize + 1, acc.out, f.blocks)
               IN  [at |-> b.at + (IF f.checksum THEN ChecksumSize ELSE 0),
                    out |-> b.out, avail |-> acc.avail \o b.avail,
                    blocks |-> acc.blocks @@ b.blocks,
                    skips |-> IF f.skip > 0 THEN acc.skips @@ (acc.at :> f.skip) ELSE acc.skips,
                    frames |-> acc.frames @@ (at :> [size |-> MagicSize + 1,
                                                     window |-> f.window,
                                                     checksum |-> f.checksum])],
             [at |-> 0, out |-> <<>>, avail |-> <<>>, blocks |-> <<>>, skips |-> <<>>,
              frames |-> <<>>],
             frames)
  IN  [kind |-> "zstd", packed |-> z.at, frames |-> z.frames, skips |-> z.skips,
       blocks |-> z.blocks, block |-> 5, decoded |-> Decodes(z.avail, z.at), bytes |-> z.out,
       tails |-> tails]

\* A frame with every kind of block, tables used again and offsets repeated over a window
\* that is trimmed; and a second frame.
ZstdFrames(skip) ==
  <<[skip |-> 0, window |-> 2, checksum |-> TRUE,
     blocks |-> <<Coded(2, FALSE, FALSE, <<<<1, 4, 2, 1>>>>), RleBody(3),
                  Coded(1, TRUE, TRUE, <<<<1, 5, 1, 2>>, <<0, 1, 1, 1>>>>), RawBody(2)>>],
    [skip |-> skip, window |-> 2, checksum |-> FALSE, blocks |-> <<RawBody(1)>>]>>

ZstdStreams == {Zs(ZstdFrames(0), {-8, -1, 0}), Zs(ZstdFrames(3), {0})}

-----------------------------------------------------------------------------
(***************************************************************************)
(* Copies, filters, ciphers and chains.                                    *)
(***************************************************************************)
Copied(n) ==
  [kind |-> "copy", packed |-> n, decoded |-> [p \in 0..n |-> p], bytes |-> Span(0, n),
   tails |-> {0}]

\* What a filter makes of the whole file at once is what it is to make of it in pieces.
Filtered(fields, n) ==
  LET s == [kind |-> "filter", packed |-> n, decoded |-> [p \in 0..n |-> p], tails |-> {0}]
             @@ fields
  IN  s @@ [bytes |-> FI!Run(s, [FI!New(s) EXCEPT !.buf = Span(0, n)], TRUE).buf]

MCWidths == [arm |-> 4, ia64 |-> 6]

ArmStream == Filtered([filter |-> "arm", ahead |-> 4, code |-> {4}], 9)

\* Instructions that begin on any second byte; an opcode among those before it, one near
\* enough to be masked by the last, one far from it; and bytes added up.
FilterStreams ==
  {ArmStream,
   Filtered([filter |-> "thumb", ahead |-> 4, code |-> {2, 8}, steps |-> (2 :> 4 @@ 8 :> 4)], 11),
   Filtered([filter |-> "x86", ahead |-> 5, opcodes |-> {1, 3, 8, 10, 15}, msb |-> {7, 12, 14, 19}], 20),
   Filtered([filter |-> "delta", ahead |-> 0, distance |-> 2], 9)}

Aes(packed, len, tails) ==
  LET n == IF len = AE!NoLength THEN packed ELSE len
  IN  [kind |-> "aes", packed |-> packed, len |-> len, bytes |-> Span(0, n),
       decoded |-> [p \in 0..packed |-> Min({(p \div Block) * Block, n})], tails |-> tails]

AesStreams == {Aes(6, AE!NoLength, {-1, 0}), Aes(8, 7, {-2, -1, 0, 1}), Aes(0, 0, {0})}

\* Two converted jumps, and markers that were not.
Bcj2Stream ==
  LET Mark(bit, prev, from, pos) == [bit |-> bit, prev |-> prev, from |-> from, pos |-> pos]
      jumps == {1, 2, 5}
      ip == [p \in 0..6 |-> p + 4 * Cardinality({q \in jumps : q < p})]
  IN  [kind |-> "bcj2", packed |-> 7, ip |-> ip,
       marks |-> (1 :> Mark(0, 0, "call", 0) @@ 2 :> Mark(1, 5, "jump", 0)
                  @@ 4 :> Mark(2, 11, "none", 0) @@ 5 :> Mark(3, 12, "call", 4)),
       decoded |-> [p \in 0..7 |-> IF p = 7 THEN 19 ELSE ip[p]],
       bytes |-> Span(0, 19), tails |-> {0}]

Chained(stages, tails) ==
  [kind |-> "chain", stages |-> stages, packed |-> stages[1].packed,
   decoded |-> [p \in 0..stages[1].packed |->
                  FoldLeft(LAMBDA n, s : s.decoded[Min({n, s.packed})], p, stages)],
   bytes |-> Last(stages).bytes, tails |-> tails]

\* As 7z stacks them; a stage 0 that resumes behind its count; and an inner one that would.
ChainStreams ==
  {Chained(<<Aes(16, AE!NoLength, {}),
             Lzma2(<<PlainChunk(L2!PlainNewDict, 3),
                     PackedChunk(L2!PackedProps, <<Lit({})>>, 0)>>, {}),
             Filtered([filter |-> "arm", ahead |-> 4, code |-> {0}], 4)>>, {-9, -3, 0}),
   Chained(<<Bz(1, {}), Filtered([filter |-> "delta", ahead |-> 0, distance |-> 1], 8)>>,
           {-8, 0, 1}),
   Chained(<<Copied(12), Bz(1, {})>>, {-5, 0})}

MCStreams ==
  LET single == GzipStreams \cup Bzip2Streams \cup LzmaStreams \cup Lzma2Streams
                  \cup XzStreams \cup ZstdStreams \cup {Copied(3), Bcj2Stream}
                  \cup FilterStreams \cup AesStreams
  IN  single \cup ChainStreams

DecoderAtBlockEnd(s, d) == GZ!AtBlockEnd(s, d)

SkippableStreams == {Zs(ZstdFrames(3), {0})}
=============================================================================

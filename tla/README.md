# Verification of iluvatar

iluvatar gives random access into compressed streams and archives. One pass over
a compressed file *indexes* it: it lists the members of the archive inside and
saves, every so often, the decoder's state (a *checkpoint*). A later read restores
the nearest checkpoint and decodes forward to the bytes it wants. The core never
does I/O: engines are stepped, answer with a *request* (`EngineRequest`: give me
input, seek and give me input, take my output, done, error), and the caller
answers it.

This directory holds TLA+ models of that core, TLC configurations that check them
on small instances, and TLAPS proofs for instances of any size. All paths below
are relative to the repository root; `file.rs:n` is under `src/`.

    tlc -workers 2 -config StreamReaderRanges.cfg MCStreamReader   # one run
    tlapm StreamReaderProofs.tla                                   # one module of proofs

## 1. Inventory

### Components

| component | source | state it keeps | operations |
|---|---|---|---|
| stream indexer | `stream/indexer.rs` | the index being built, positions, input and output buffers with cursors, `State`, strategy, `stop_at`, `emit_output` | `new`/`resume`, `step`, `provide_data`, `signal_eof`, `read_output`, `finish` |
| stream index | `stream/index.rs`, `compress/checkpoint.rs` | the sorted checkpoint table, `indexed_to`, `complete`, known lengths | append, `thin`, `best_checkpoint_for_offset` |
| stream reader | `stream/reader.rs` | the checkpoint, target range, what is left of it, buffers, `State`, `started`, `stream_ended` | `new`, `require_full_range`, `step`, the answers, `seek_forward` |
| checkpoint strategies | `engine/checkpoint_strategy.rs` | interval, budget, last position | `start`, `should_checkpoint`, `on_checkpoint_created`, `should_thin` |
| decoder contract | `compress/decompressor.rs` | (each codec's own) | `decompress`, `checkpoint`, `restore` |
| codecs | `compress/gzip.rs`, `bzip2.rs`, `xz.rs`, `lzma/`, `zstd_dec/`, `none.rs` | framing state, windows and histories, repeat offsets, input and output held back | the contract |
| chains, filters, ciphers | `compress/chain.rs`, `codec.rs`, `filter.rs`, `aes.rs`, `bcj2.rs` | stages, inter-stage buffers, look-ahead | the contract |
| archive parsers | `tar/`, `cpio/`, `ar/`, `archive/` | an incremental state machine: header buffer, bytes remaining, pending settings, waiting links | `feed`, `end_of_stream` |
| indexing engine | `engine/state_machine.rs` | indexer, parser, detection buffer, builder, `done` | `step`, answers, `finish`, `cancel` |
| read engine | `engine/state_machine.rs` | a stream reader over one entry | `new`, `for_entry_range`, `step`, answers |
| archive index | `index/` | entries, path table, checkpoints | `get`, `get_all`, `list`, `checkpoint_for`, (de)serialize |
| drivers | `sync/`, `tokio/` | a file handle, an engine, a poll state | `read_file`, `open`, `Read`/`AsyncRead` of an entry |
| command line, errors, progress | `main.rs`, `error.rs`, `*/progress.rs` | none of their own | - |

### How they interact

The indexing engine owns a stream indexer with `emit_output` on and feeds what it
hands out through format detection into an archive parser, whose entries go to the
index builder. A read engine owns a stream reader. Every engine talks to its caller
by requests and to its decoder by `decompress(input, output)` calls. A driver owns
an engine and a file handle and loops: step, answer. The state the parts share is
passed by value (an index, a table of checkpoints, a range); what is shared for
real is the *place in the file*: the engine's idea of the packed offset and the
handle's cursor, which agree only if each request is answered as asked.

There are no threads. Concurrency is the interleaving of a caller with an engine
that suspends in the middle of its work at every request: the caller may give up at
any of them, retarget a reader, resume an index over a file that has since grown,
or (tokio) drop a reader while its handle still has an operation pending.

### What is hard, and what makes each component correct

- *Indexer.* One `step` decodes, perhaps lays a checkpoint, perhaps thins the table
  several times, moves `indexed_to`, and decides how to return. A resumed pass
  decodes again from a checkpoint *below* `indexed_to`, so a chunk can straddle it.
  Correct: totals match where the decoder is; each checkpoint's offsets are where its
  state was saved; bytes are handed out once; the input is fed in order across seeks;
  `complete` means the true end of a whole file; the budgets hold; every pass ends.
- *Reader.* Skipping overshoots into, and past, a short range; `seek_forward` may
  come at any request. Correct: the bytes served are the bytes asked for; nothing is
  decoded twice; `Done` short of the range only where the code promises no more; every
  range ends; the decoder is fed in order.
- *Parsers and engine.* Chunks are cut anywhere. Correct: the listing does not depend
  on the chunks, equals what the archive holds, and is accepted exactly when the
  archive ends where one may, the first time and on every retry.
- *Drivers.* Correct: the engine and the handle agree on the offset after any error,
  cancellation or retry; the reader ends.
- *Codecs and chains.* Input may stop at any bit of a symbol and output at any byte of a
  match; input is held back, looked ahead at and pushed between stages; a window is saved
  and laid out anew. Correct: they give out the stream's bytes however they are fed and
  wherever they are resumed; they keep the contract (progress, the end reported, perhaps
  one call late); they hold back little; they are never stuck at the end of the file.
- *Index.* Correct: an entry's checkpoint is at or before its data; a path finds the last
  member that has it.

`PROJECT.json` lists every hazard at its line, with the properties that watch it.

## 2. Modules

| module | models | role |
|---|---|---|
| `Decoder` | the `Decompressor` trait as its users see it | what one `decompress` call may answer |
| `StreamIndex` | `stream/index.rs` | the table and its operations |
| `CheckpointStrategy` | `engine/checkpoint_strategy.rs` | the four strategies |
| `StreamIndexer` | `stream/indexer.rs` | state machine; composes the three above |
| `StreamReader` | `stream/reader.rs` | state machine over `StreamIndex` and `Decoder` |
| `StreamCoverage`, `RangeServer` | - | abstract specifications the two implement |
| `EntryReader` | `EntryReader` of `sync/reader.rs` and `tokio/reader.rs` | state machine that drives `StreamReader` from a file handle |
| `Archive` | `archive/parser.rs`, `archive/entry.rs` | bytes, entries, answers shared by the parsers |
| `TarParser`, `CpioParser`, `ArParser` | the three parsers | operators on the record of a parser's fields; each ends with a reference definition of its format |
| `IndexingEngine` | `engine/state_machine.rs`, `archive/detect.rs` | state machine that runs a parser over an indexer's output |
| `ArchiveListing` | - | abstract specification of listing an archive |
| `Codec` | `compress/decompressor.rs`, `checkpoint.rs` | bytes, answers and checkpoints shared by the decoders |
| `Codecs` | the caller of a decoder | state machine: feeds one decoder, saves and restores it; holds every answer against `Decoder` |
| `Gzip`, `Bzip2`, `Lzma`, `Lzma2`, `Xz`, `Zstd` | `compress/gzip.rs`, `bzip2.rs`, `lzma/`, `xz.rs`, `zstd_dec/` | operators on the record of a decoder's fields |
| `Filter`, `Aes`, `Bcj2` | `compress/filter.rs`, `aes.rs`, `bcj2.rs` | the same |
| `Stages`, `Chain` | `compress/codec.rs`, `none.rs`, `chain.rs` | the decoder of any codec; stages as one decoder |
| `MCStreamIndexer`, `MCStreamReader`, `MCEntryReader`, `MCIndexingEngine`, `MCCodecs` | - | small instances for TLC |
| `DecoderProofs`, `StreamIndexProofs`, `StreamIndexerProofs`, `StreamReaderProofs`, `EntryReaderProofs`, `IndexingEngineProofs`, `ArchiveListingProofs`, `GzipProofs` | - | lemmas and theorems (section 5) |

### The decoder (`Decoder`)

A decoder's place is the pair *bytes taken in, bytes given out*. `Unpacked[p]` says
how much the first `p` packed bytes decode to, so a stream is a monotone function:
plateaus are headers and trailers, steps are bursts. One call takes any prefix of
its input and gives out any bytes that input has paid for; it moves if it can
(unless `Faulty`), and reports the end together with the last move or with a
later, empty call. This is the contract the codecs are to be held against, and is
where every codec's detail is abstracted. What bytes *are* does not matter to the
indexer or to the reader: a byte is its offset.

### The indexer (`StreamIndexer`)

The variables are the fields of the struct, with `input` and `out` standing for a
buffer, its length and its cursor, plus the decoder's real place, the caller's file
cursor, and `handed`, where the next byte of output should start. `step()` runs to
completion between two calls; it is a chain of actions linked by `pc`:

    call -> Decode -> lay -> Lay -> thin -> Thin* -> ThinEnd -> settle -> SettleOn
                  \-> settle                               \-> SettleEnded
                                                           \-> SettleStopped -> lay ...

`Decode` is the code around `decompress`, `Lay`/`NothingToLay`/`CheckpointError`
and `Thin`/`ThinEnd` are `try_checkpoint` and its loop, `Settle*` the rest of
`step_once`. `call` holds the locals that live across them. `Provide`, `ReadOutput`
and `Finish` are the caller; `Resume` is `StreamIndexer::resume` over a file that
may have grown. Strategies compute in exact rationals where the code uses `f64`.

### The reader (`StreamReader`)

One action per branch of `step_once` (`SkipOver` and `Skip` are the two outcomes of
`skip()`), one per answer, two for `seek_forward` (before and after the checkpoint
was restored). `remaining` is what `State`'s variants carry.

### The drivers (`EntryReader`)

`EntryReader` extends `StreamReader` and adds the file handle (`cursor`, and whether a
seek is in flight) and `poll`, which is tokio's `PollState`; for the blocking driver it
says whether `read()` is about to read its file. Every action is a step of the engine,
one answer to it, or a move of the handle; the bytes that reach the engine are those at
`cursor`, not those it asked for, and that the two agree is what is to be shown. A
failed operation ends the call, and the next one goes on. `EntrySpec` has failing reads;
`FaultySpec` adds failing seeks (finding 4). `Poll::Pending` and an error that leaves
`PollState` alone are stutters.

### The codecs (`Codecs` and the decoders)

Each decoder's module is a set of operators over the record of its struct's fields:
`New`, `Decompress(s, d, data, room)` (the answers one `decompress()` may give),
`Checkpoint`, `Restored`, `Held`. `Stages` chooses among them by the kind of stream, as
`create_stage()` does; `Chain` composes them as `ChainDecompressor` does. `Codecs` is the
machine around a decoder and knows it only through CONSTANT operators, to which the
configurations give the decoders of `Chain` (`CodecNew <- DecoderNew` and so on): its
caller feeds the file from where it has got to in pieces of any size, asks for a
checkpoint with its own counts, and restores the last one it was given into a fresh
decoder, as the indexer and the reader do.

What a *stream* is, is data: `MCCodecs` lays out small files with what they decode to. A
byte of the file is its offset and a byte of output the offset it is to have, so a window
saved or restored in the wrong order, a match copied from the wrong place, a filter's byte
converted twice or a byte lost between two stages shows in `BytesExact`. Entropy coding is
abstracted, its *control* is not:

- `Gzip`: inflate (miniz_oxide, external) goes as far as its input, the end of the block and
  of the ring allow, may stop early when the ring is full, and refuses a byte that is not
  the one it wants next.
- `Bzip2`: libbzip2 (external) reads bits; a byte shifted in is its first bit and how many
  of it are real. The magic scanner, the split at a block's end, the bit shifter and the
  restored path (header first, held input first, the checksum that cannot match) are the code's.
- `Lzma`: a payload is the sequence of questions its range coder answers (`IsMatch`,
  `LenChoice`, `PosSlot`, ...), with the byte read for each and the number of symbols the
  probabilities were adapted by. A decoder that asks another question, over another byte
  or other probabilities, is lost. Both decode paths are there: the fast one while there are
  margins of input and room, and the resumable one, with all its micro-states.
- `Lzma2`, `Xz`: chunk headers byte by byte, resets, the bytes a payload leaves to be
  skipped; block headers, checks, padding, index, the input buffer and the staged output.
- `Zstd`: frames, blocks, literals, sequences, repeat offsets, tables used again, history and
  its trimming; Huffman and FSE tables are named by the block that defined them.
- `Filter`: what is converted when, the look-ahead, x86's memory of opcodes; `Aes`: whole
  blocks chained to the one before; `Bcj2`: targets from the side streams.

A decoder that is lost (decodes over the wrong state) is taken to fail, which
`KeepsContract` refuses: it could as well give out garbage. Left out, and named where the
streams are defined: a headerless deflate stream shorter than a gzip header (the code
refuses it as truncated), bytes after one, a bzip2 header split over the first calls
(the level is then not seen and the checkpoints are unusable), and a bzip2 file cut just
before the byte of a block's last bit (restored at a block that starts inside a byte, the
decoder refuses it as corrupt). A skippable frame's header is as long as its magic in
`Codecs`, since the code misreads a longer one (finding 6).

### Archives (`IndexingEngine` and the parsers)

A byte is a token `[kind, of, at]`: the at-th byte of the header, name or data of
one member. A parser that reassembles exactly the bytes of a header gets that
member's fields; anything else is refused. So a parser that loses a byte, takes one
too many, or starts a header at the wrong place is seen to do so, while the text of
the fields stays abstract. Each parser module ends with the reference: the bytes of
an archive, what it holds and where it may end, computed straight from its members.
`Feed` is one iteration of `feed_to_parser`'s loop, `DrainOutput` is `drain_output`
up to it, `EndEmpty`/`EndUndetected`/`Judge` are `end_of_stream`. The indexer inside
is seen as its requests: it hands out the bytes in order in chunks of any length,
then ends, or was cut short. An instance pairs the archives with the places their streams are
cut at (`Archives`, `Sources`); `Take` is what one `feed` took, `Refuse` its error. The caller does not step again after a parser refused
(the drivers return the error and drop the engine); after an error at the end it
may. Magics are shorter than `MinDetect`, which is at most a block, as in the code
(6 and 8, 263, 512).

### Abstract specifications

- `StreamCoverage`: coverage only grows; points are added past all earlier ones and
  the start is never given up; bytes are delivered once, in order and only when
  covered; complete only at the stream's end. `StreamIndexer` implements it with
  `covered <- index.indexed_to`, `points <-` the checkpoints' offsets, `given <- handed`.
- `RangeServer`: owes a range, serves it in order and nothing else, says done only when
  it owes nothing or the stream holds no more, may be retargeted past what it served.
  `StreamReader` implements it.
- `ArchiveListing`: lists only what the archive holds, nothing twice, succeeds only
  with all of it listed and at a place where an archive may end, fails only elsewhere.
  `IndexingEngine` implements it for the three formats.

## 3. Runs

| run | checks | bounds and why they are enough |
|---|---|---|
| `StreamIndexerResume` | types, exact positions and checkpoints, feeding, exactly-once output, completeness, `StreamCoverage` (whose coverage only grows) | 2 passes; packed lengths 0, 2, 3 (whole) and 4 (bytes after the end mark); bursts 0, 2, 3; buffers of 2, so bursts are split and chunks straddle `indexed_to`; stop offsets 2 and 3; the decoder may stall, refuse or fail to save |
| `StreamIndexerStrategies` | budget, byte count, gaps, the stop checkpoint, how the table may change, budgets overshot by less than one checkpoint; every pass ends; a whole file is indexed | 9 bytes decoded evenly, a truncated and a whole file, checkpoints of size 1 or 2 anywhere, all strategies with small budgets: the table is thinned repeatedly, with 2, 3 and more checkpoints |
| `StreamIndexerStopBelow` | *violation*: `NoCheckpointBelowIndexed` | finding 1 |
| `StreamReaderRanges` | types, the bytes served, feeding, distances, `Done` only when delivered, no whole file taken for a cut one (of `NoFalseAlarm`, the clause on decode errors says nothing here, where the decoder may refuse: it is `EntryReaders` that checks it), nothing decoded twice, `RangeServer`; every range ends | 3 tables (a checkpoint at the start only, inside a burst, at each burst's end), ranges that start on both sides of each and run past the end, files of 1 to 4 bytes (the stream has 3: cut, whole, and followed by more), an index that claims too much, a decoder that stalls or refuses, 2 seeks at any request |
| `EntryReaders` | the driver's fields, the handle at the right place, no false alarm, `StreamReader`; every entry comes to its end | files of 0 to 4 bytes, the tables and ranges of `StreamReaderRanges`, a sound decoder, a handle left at any offset, both drivers, failing reads |
| `EntryFailedSeek` | *violation*: `FedInOrder` | finding 4 |
| `IndexArchives` | types, the parser sees every byte, `ArchiveListing`; every stream is judged | 5 tar, 2 x 3 cpio and 4 ar archives plus hard links to empty files, each cut at *every* byte, by its own end or by a cut compressed stream, read in chunks of 1 to 3 bytes, format told or detected |
| `IndexEmptyMetadata` | *violation*: `ParserSeesAll` | finding 2 |
| `IndexLostLinks` | *violation*: `DoneListsAll` | finding 3 |
| `Codecs` | types, the bytes given out, the decoder contract, what is held back; no call is in vain | 25 streams of up to 20 bytes over all kinds of decoder and chain (below) (headerless deflate without flushes only, see section 4), files whole, cut and followed by more, chunks of 1 to 3 bytes, room for 1 or 4, saved anywhere, restored once |
| `CodecsNoCheckpoint` | *violation*: `OfferedAtBlockEnds` | finding 5; the gzip streams |
| `CodecsSkippable` | *violation*: `KeepsContract` | finding 6; a zstd file with a skippable frame whose header is longer than its magic |

The streams of `Codecs`: gzip with a plain and a longer header, without one, and raw, with a
burst, an empty block, one longer than the ring of 4 and a last one, cut at every byte; three
bzip2 blocks that start at either bit of a byte (a byte has 2), cut at all but one; LZMA
with every kind of symbol, overlapping matches and a ring that wraps, of known size and with
an end marker; LZMA2 with each reset and bytes left unread; xz with two blocks, padding and
checks, and with none; zstd with every type of block, trimmed history, repeated offsets and
tables, two frames and a skippable one; ARM, Thumb, x86 and delta filters; AES with and
without a length, and empty; BCJ2; and chains of three stages (AES, LZMA2, ARM), of one that
resumes behind its count (bzip2, delta) and of an inner one that would (copy, bzip2). A room
of 1 holds every decoder up in the middle of a match; a room of 4 takes the fast paths.
The restore may happen anywhere after the checkpoint was offered. One is what the run can
afford; with `MaxRestores = 2`, where what a restored decoder saves is restored in turn, the
same instance passes as well (364,292 states).

Sizes in the codec runs are scaled the same way (`Codecs.cfg`: alignment 2, window and
dictionary 4, `decode_fast`'s margins 2 and 3, a size's digit 4, buffers 2). In the archive runs
they are scaled (block 3, newc header 4, odc header 3, ar magic
and header 3, alignment 2); the relations the code relies on are kept: a name or a
datum may or may not need padding, an odc header is shorter than a newc one, sizes
fall below, on and past a block, limits are exceeded.

`CHECK_DEADLOCK` is left on everywhere: a finished machine stutters explicitly.

### Fairness

The engines take no step unless called, so fairness is about two parties.
*The program*: `WF` of the steps inside `step()` (`StepInside`, `Step`), since a call
that was made runs. *The caller*: fairness of its answers (`Provide`, `ReadOutput`,
`Answer`, the engine's `StepAgain` at `NeedInput`): the liveness claims are about a caller that
answers, as every driver in the repository does; none of them fairly gives up or
retargets. `IndexingEngine` adds `SF(DrainOutput)`: the indexer, seen from outside,
may ask for input between any two chunks, and a packed stream that is finite makes
it hand out the next one after finitely many requests. That is
`StreamIndexer!PassEnds`, checked by `StreamIndexerStrategies`.

`StreamReader` has `SF(Answer)`: its caller may step again without answering (a driver
whose I/O failed does), so answering is enabled again and again but not always. The
drivers have `WF(Drive)`, a caller that reads to the end, and `SF(Reads)`: a read that is
tried again and again succeeds at last.

## 4. Findings

1. **A resumed pass can lay a checkpoint below what is indexed** (`stream/indexer.rs:236`):
   stopped by `stop_at` while decoding covered output, it lays its stop checkpoint
   there, against the documentation of `resume` and a comment in `step_once`.
2. **An empty metadata member makes the engine drop bytes**
   (`engine/state_machine.rs:260`): a zero-size PAX or GNU header, or an empty `//` table,
   is passed with an answer of zero bytes and `NeedData`, which `feed_to_parser` takes for
   a stall; the rest of the chunk never reaches the parser.
3. **Hard links to empty files can be lost** (`engine/state_machine.rs:252`): the links that
   wait at a cpio trailer go out one per `feed` call, and `feed` is not called once
   the bytes are used up.

4. **A failed seek is not asked for again** (`stream/reader.rs:319`): the reader has left
   `SeekToCheckpoint` before its seek is answered. If the seek fails and the caller reads
   again, the driver reads from wherever the handle stands and the restored decoder is fed
   other bytes, unnoticed.

5. **A restored gzip decoder offers no checkpoint** (`compress/gzip.rs:546`): it counts
   packed bytes from the checkpoint, and `checkpoint()` compares that with the caller's
   absolute count, so every boundary after a restore is taken for one that has passed. An
   index that is resumed or extended over a gzip stream gets no further checkpoint.

6. **A skippable frame cut by a chunk is taken for a corrupt one** (`compress/zstd_dec/mod.rs:179`):
   four bytes of a frame are enough to try it, but `check_skippable_frame` wants eight before
   it knows one; a chunk that ends in between fails the stream.

`PROJECT.json` quotes the lines.

Two more observations have no run of their own; they are of one place, the way a
headerless stream's held bytes are worked off (`compress/gzip.rs:432`), and concern streams
that put empty blocks into their data, as a flush does. Inflate stops at each block's end,
so a pass over the held bytes may produce nothing and still be a step.

- `inflate_replay` then falls through to the second pass, which takes in all the caller
  offers. With an empty block after every data block one is passed and one decoded per call,
  and `replay` grows with every read, against the comment in `decompress` ("so they never pile
  up") and the test `test_raw_fallback_holds_no_more_than_a_read`. Reproduced by `Codecs` with
  `Streams <- FlushedStreams`, which refutes `HoldsLittle`.
- At the end of the file, two empty blocks in a row among the held bytes make a call that
  neither takes nor gives anything though the stream goes on. That is what the trait tells its
  users to take for a truncated file (`idle_at_eof` of the indexer, `step_once` of the reader),
  and so the indexer refuses a whole one. Reproduced by `Codecs` with `Streams <- FlushedTwice`
  and `MaxRead = 6`, which refutes `KeepsContract`.

`NeverAskedInVain` holds of both: the decoder has moved, only its users cannot see it.

## 5. Proofs

What a run shows of one small instance, these theorems state for every value of the
constants. The proof modules are layered as the models are:

| module | about | rests on |
|---|---|---|
| `DecoderProofs` | what one decompress call can do | - |
| `StreamIndexProofs` | the table: search, `thin`, the sum of its sizes | - |
| `StreamIndexerProofs` | the indexer, that it implements `StreamCoverage`, and its strategies' budgets and gaps | both |
| `StreamReaderProofs` | the reader, and that it implements `RangeServer` | both |
| `EntryReaderProofs` | the drivers, and that they implement `StreamReader` | `StreamReaderProofs` |
| `IndexingEngineProofs` | the engine and the three archive parsers | - |
| `ArchiveListingProofs` | that the engine implements `ArchiveListing` | `IndexingEngineProofs` |
| `GzipProofs` | the gzip decoder under the caller of `Codecs` | - |

### The indexer

For every stream, sequence of file lengths, codec (faulty or not), strategy, stopping
point, buffer size and number of passes:

| theorem of `StreamIndexerProofs` | states |
|---|---|
| `InvHolds` | `Spec => []Inv`, the inductive invariant |
| `TypeCorrect` | `Spec => []TypeOK` |
| `PositionsAreExact` | `Spec => []PositionsExact` |
| `CheckpointsAreExact` | `Spec => []CheckpointsExact`; the assumption `TablesAssumption` that the reader's proofs make |
| `FeedsInOrder` | `Spec => []FedInOrder` |
| `HandsOutExactlyOnce` | `Spec => []HandedExactlyOnce` |
| `CompleteIndexIsWhole` | `Spec => []CompleteIsWhole` |
| `StopsAtCheckpoint` | `Spec => []StopLeavesCheckpoint` |
| `TableChangesByStep` | `Spec => TableSteps` |
| `NoneBelowIndexedUnlessStopped` | what is true of "lays no checkpoints" below `indexed_to`: it holds of every pass not told to stop (finding 1 is the other case) |
| `DataBytesAreExact` | `Spec => []DataBytesExact` |
| `ImplementsCoverage` | `Spec => KeepsPromise`: the indexer implements `StreamCoverage` |

No property is inductive alone, and most need most of the others; `Inv` names what each
adds.

- `Placed`: the totals are where the decoder is, and it can be there.
- `Tabled`: of *any* two checkpoints the earlier is below the later (`CheckpointsExact`
  says it of neighbours, from which `thin`, which makes new neighbours, would not
  follow); the table ends at or before the decoder, so a new checkpoint goes at its end.
- `Fed`: the caller's cursor is the decoder's place plus the unread input, but between a
  resume and the end of its seek, where instead the offset asked for is that place.
- `Accounted`: while a chunk is decided on (`Deciding`) the output buffer is empty and the
  chunk leaves no gap after what is covered; otherwise what is covered is what was handed
  out plus what waits. This is what makes a chunk that straddles `indexed_to` come out once.
- `Covered`: what was decoded is covered, but for the chunk being decided on and for one
  lost to an error, which is why a pass resumed after an error decodes it again.
- `Reported`: the locals that live across `try_checkpoint` still say of the decoder
  what they said when the call returned.
- `Concluded`: why a pass is `Done`: the end, or its stopping point with a checkpoint there.

Each action has a lemma `<Action>Inv`. The refinement maps `Lay` to `AddPoint`, `Thin` to
`DropPoints`, the three `Settle` steps to `Cover` or `Conclude`, `ReadOutput` to `Deliver`
and everything else to a stutter.

`checkpoint_data_bytes` is compared with a *sum over the table*, a fold. The fold's
definition is by a recursive function, so `StreamIndexProofs` first shows, by the library's
induction on finite sets (`SetInduction`), that a function with that recursion exists
(`FoldExists`), hence that running sums characterise it (`DataBytesSums`); from these follow
what appending adds (`DataBytesAppended`) and what thinning leaves (`DataBytesThinned`).
It also proves that the search finds a checkpoint at or before the offset
(`BestCheckpointUsable`) and what `thin` keeps: the first, the newest, and of two
neighbours at least one (`ThinnedPlaces`, `ThinnedKeepsNeighbours`).

| theorem of `StreamIndexerProofs`, on strategies | states |
|---|---|
| `StrategyInvHolds` | `Spec => []StrategyInv` |
| `ThinsToBudget` | `Spec => [](passes = 1 \/ OneSetting => ThinnedToBudget)` |
| `OvershootsAtMostByOne` | `Spec => []OvershootsByOne` |
| `GapsAreBounded` | `Spec => []GapsFollowInterval` |

`StrategyInv` adds to `Inv`: `Given` (whatever its interval has become, a strategy keeps the
kind and budget it was made with, and `BudgetRatio` has none until its first question),
`FirstPass`, `Budgeted` and `BelowBudget` (a checkpoint about to be laid finds the table
below the budget) and `Paced` (the gaps, *and* the stretch since the last checkpoint with
room for one more chunk). `Paced` survives thinning because the interval is doubled with
it: two gaps that become one are within the doubled bound (`WidestDoubles`,
`GapsThinned`). `ThinsToBudget` is stated with its condition because without it it is
false: a table laid under one budget may be resumed with a strategy of a smaller one,
which thins only after it lays something. The run that checks it has one pass.

### The reader and the drivers

For every stream, file length, checkpoint table, range, buffer size and number of seeks,
with a decoder that may be faulty:

| theorem of `StreamReaderProofs` | states |
|---|---|
| `TypeCorrect` | `Spec => []TypeOK`: no cursor leaves its buffer, no unsigned difference underflows |
| `RangeIsServed` | `Spec => []ServesTheRange` |
| `FeedIsInOrder` | `Spec => []FedInOrder` |
| `RemainingIsExact` | `Spec => []RemainingExact` |
| `DoneOnlyDelivered` | `Spec => []DoneIsDelivered` |
| `ErrorsAreReal` | `Spec => []NoFalseAlarm`: a whole file with a sound decoder raises no error of its own making |
| `NeverDecodesAgain` | `Spec => DecodesOnce` |
| `PromiseKept` | `0 \notin FileLens => (Spec => KeepsPromise)`: the reader implements `RangeServer` |

| theorem of `EntryReaderProofs`, over a handle whose seeks succeed | states |
|---|---|
| `EntryTypeCorrect` | `EntrySpec => []EntryTypeOK` |
| `HandleIsInPlace` | `EntrySpec => []ReadsWhereAsked` |
| `DriversImplementReader` | `EntrySpec => DrivesTheReader`, that is `StreamReader!Spec`: all of the above holds of an entry read through either driver |

`Inv` adds what the properties need of each other:
`CheckpointReal` (the decoder can really be at the checkpoint, so the restored one
is), `Resting` (before the first step nothing has moved and the checkpoint serves
the target, so restoring may subtract), `Live` (afterwards the decoder is at a
reachable place and past everything served, so `seek_forward` cannot go behind it),
`WaitsDry` (input is asked for only when none is left, so a new chunk may replace
the buffer), `Owing` (what is owed beyond the buffer is what the state will decode,
or the stream has ended), `Ended` (`stream_ended` is only set at the stream's end)
and `Finished` (what a `Done` that was reported leaves). What a decode call can do is
stated once (`MovesBounded`, `OutcomesBounded`, `AdvanceFacts`, `AfterDecodeFacts`).
`NoFalseAlarm` rests on `IdleOutcomes`: a sound decoder that neither takes nor gives
was offered nothing it could use. `PromiseKept` excludes an empty packed file: asked for a
non-empty range of one, the reader says Done, which `RangeServer` only allows at the end
of the stream. `EntryInv` is the reader's invariant with the handle's part: it is where
the engine counts except from the request of a seek to the seek's end.

### The indexing engine and the parsers

For every list of tar, cpio and ar archives with any members, every cut, chunking, and
format told or detected:

| theorem of `IndexingEngineProofs` | states |
|---|---|
| `InvHolds` | `Spec => []Inv` |
| `TypeCorrect` | `Spec => []TypeOK`: no header buffer overruns, no `remaining` underflows |
| `ParserSeesEverything` | `NothingIsEmpty => (Spec => []ParserSeesAll)` |

A parser's answer depends on what it was fed before, and what it is fed may be cut
anywhere, so the invariant has to say what states a parser can be in at all. For each
format a predicate on the parser's record says it (`header_buf` shorter than a header,
bytes of this archive in its buffers, at most the declared size collected, the header it
holds that of a member), and one lemma per state of the source's enum that `feed` keeps it
(`TarHeaderFed`, `ArNameTableFed`, `CpioLinkTargetFed`, ...; together `TarFed`, `ArFed`,
`CpioFed`, and `ParserFed` for any format). The archives' bytes are flattened sequences of
members' bytes; `FlattenIs` is the only induction, again by sets.

`Inv` is `Typed`; `Detecting` (before a parser is made, `detect_buf` is exactly the bytes
handed out, so what is replayed is the stream's beginning); `Parsing`; and `Feeding` (a
chunk exists exactly while it is fed). `Parsing` has two cases: the parser is of the
archive's own format, because detection reads the magic the archive's first bytes carry
(`DetectedRight`); or the stream ended before detection could decide, and `end_of_stream`
made a tar parser of a few bytes of any format, too few for a block (`ShortTar`).
`ParserSeesAll` needs in addition `Presses`: the parser is never in a state that takes
nothing and asks for more, which is what `feed_to_parser` mistakes for a stall.
`NothingIsEmpty` (no extended header, name table or cpio name of no bytes) is exactly what
excludes such states: without it the property is false and the code loses data
(finding 2). The archives of `IndexArchives` satisfy it, those of `IndexEmptyMetadata` do not.

### What is listed is what the archive holds

`ArchiveListingProofs` proves `ListingKept`: where every archive is a tar or an ar archive
that is what its headers say (`AllWell`), `Spec => KeepsListing`. `TarWell` asks that no
extended header is empty and each is stored with the size it declares, that a long name
names something or is refused, that a file is as long as is said of it (by its header, or by
the PAX record over it), and that a zero block stands alone and not last, since two of them,
or one before the end, are an end of the archive. `ArWell` asks that the name table and BSD
names are not empty and that a short or long name is not the symbol table's. The first
condition of each is `NothingIsEmpty`; the others say that the member records the
reference reads are ones the parser can tell from the bytes. Tar archives may be padded;
implausible headers, cut streams and refused members are all covered. The tar and ar
archives of `IndexArchives` satisfy both.

The invariant ties a parser's state to a *position in the member list*. Where member k's
header, name and data stand in the stream is computed from the lengths before it, and
`StartsAre` and `Stands` say which bytes are there. A parser is `TarAtHeader(k)`,
`TarAtData(k)`, `TarAtEnd`, `ArAtMagic`, `ArAtHeader(k)`, `ArAtTable(k)`, `ArAtName(k)` or
`ArAtData(k)`: its buffer is the slice of the stream from where k's header (or name) starts
to `stream_pos`, its `remaining` reaches exactly to where the next piece starts, and its PAX
settings, long names and name table are those of the members before k. `TarRight` and
`ArRight` are the disjunctions, with no header behind the parser that must be refused. One
lemma per position says that `feed` leads from one to the next and tells of an entry exactly
when `stream_pos` passes a member's `data_offset`, and then of that member's reference
entry. `Answered` and `Judged` put that for any format; `EndOfArchive` is
only answered where the reference lets the archive end.

For the engine, `ListsInv` adds to `Inv` that the parser is right about the bytes it was fed
and the chunk is what stands next (`Follows`), or that the stream ended before its format
could be told (`Stops`), and that the index holds exactly the entries whose data starts no
later than `stream_pos`. Then each step is one of `ArchiveListing`'s: `Feed` with an entry is
`List`; `Feed` at an end marker and a judgement that accepts are `Succeed`; a refusal or a
judgement that does not is `Fail`; a step after an error is `Retry`; the others stutter.

### The gzip decoder

Where every stream is a gzip or deflate one and its decoder the one of `Gzip`
(`GzipDecoders`), for every such stream, window, header and trailer size, file cut anywhere
or followed by more, size of reads, room for output, place of the checkpoints and number of
restores:

| theorem of `GzipProofs` | states |
|---|---|
| `GzipTypeOK` | `Spec => []TypeOK`; no stream makes the decoder fail |
| `GzipBytesExact` | `Spec => []BytesExact` |
| `GzipNeverAskedInVain` | `Spec => NeverAskedInVain` |
| `GzipHoldsLittle` | `AllFramed => (Spec => []HoldsLittle)` |
| `GzipKeepsContract` | `AllFramed => (Spec => []KeepsContract)` |

`GzipDecoders` is a hypothesis and not an assumption, since `Codecs` is composed of any
decoder; it says that the operators `Codecs` is given are those of `Gzip` (which is how
`Stages` defines them for kind `gzip`), and of each stream that it is what its fields say
(`GzipStream`: blocks end inside the deflate data, what is inflated only grows, the packed
length is the sum of its parts, a stream told to be raw has no header). All the gzip streams
of `MCCodecs` are such. `AllFramed` adds that a stream has a gzip header or its decoder is told
that it has none. The decoder that has to find out is excluded from the last two theorems
because of them they are false: see the two observations of section 4.

`GzipInv` says that decoder and caller are *in step* (`Right`): still looking for a header,
it has taken what was fed; past it, what was fed is the header, what inflate has taken and
what is held to be replayed (`Inflating`), or part of the trailer (`InTrailer`), or all of it
with output still staged (`AllDone`); and what is staged is the output from where the caller
has got to (`Staged`). `Core` is about the inflating part: the ring, at whatever position,
holds the output's last bytes (`RingHolds`, which distinguishes a ring not yet full, just full
and turning), and the last boundary is an end of a block with the window there
(`BoundaryRight`). Its packed offset is only bounded, since after a restore it counts from the
checkpoint (finding 5); that `IsNow` compares it with the caller's count is what makes every
checkpoint it does offer right (`CheckpointRight`, `SavedRight`, `RestoredRight`).

The argument goes from inside out. Inflate's call either moves or is at the end of its input
(`ReachedIs`, `InflateMoves`), over a window that is the output before it (`WindowIs`), so what
it makes is the next of the output, and the ring turns by as much (`RingTurns`,
`RingFilled`). `InflateIs` puts that for `inflate_to_output`, `ReplayIs` for `inflate_replay`;
`FlushAnswers`, `SkipAnswers`, `HeldAnswers` and `ReadAnswers` take the branches of
`decompress()` one by one to `DecompressAnswers`: an answer takes some of what it was offered,
gives out the next of the output, and leaves the decoder in step, or ends with everything out,
or finds the file cut. Remainders modulo the window size, which the prover does not compute
with, are reduced to sums by `RemainderIs` and `PlaceMoves`.

### Assumptions

They are the modules' named ones, and TLC evaluates them in every run.
`StreamAssumption`: `Unpacked` is monotone and starts at 0. `BoundsAssumption`: buffers
and reads have positive size. `TablesAssumption`: a reader's table is one an indexer can
have made (proved: `CheckpointsAreExact`). `StrategiesAssumption`: a pass is given a
strategy as its constructor makes it (`IsNew`); the code's is owned by one indexer.
`StrategyAssumption`, `TarAssumption`, `CpioAssumption`, `ArAssumption`: the source's
constants are numbers with the relations the code relies on (block and header sizes are
positive; a cpio magic is shorter than any header, an odc header no longer than a newc
one). `SizesAssumption`: magics are no longer than `MinDetect`, which is at most a block
(6, 8, 263 and 512 in the code). `ArchivesAssumption`: archives are made of members of
their format, and a cpio archive of at least one (its trailer). Nothing is assumed of
where a stream is cut or how it is chunked.

### Only model-checked

- Liveness: `PassEnds`, `WholeFileIndexed`, `RangeEnds`, `EntryFinishes`,
  `EveryStreamJudged`: their proofs need ENABLED.
- `KeepsListing` for cpio archives: a hard link waits for the member that carries its data,
  so what is listed is no function of the position alone.
- The properties of the decoders other than gzip, and those of chains: their loops are
  RECURSIVE operators, which the prover's arithmetic does not support.
- `HoldsLittle` and `KeepsContract` of a headerless deflate stream whose decoder is not told
  so: the runs have such streams, without flushes.

## 6. Not modelled, and why

The arithmetic of entropy decoding (Huffman and FSE tables, the range coder's), CRCs, the
block cipher itself and the address arithmetic of the filters are pure functions on data
whose correctness is a matter of test vectors; the models say when they run, over which
state, and what they may refer to. The Zstandard tables' bit readers and the detection of formats are the parts of
`compress/` with no model. Serialization, printing, progress and argument handling move no
state of the core. The old binary cpio magic and numeric field parsing are left out of the
parsers. Of the archive index, path lookup and the choice of a checkpoint per entry are not
modelled; of the drivers, the loops that index (they answer requests as the callers of
`StreamIndexer` and `IndexingEngine` do) and what a handle does with an operation that was
left pending.

## 7. Plan

In order; each step adds a module, its run, or its theorems.

1. `KeepsListing` for cpio archives, whose hard links wait (`ListingKept` without its first
   condition).
2. Theorems about the next decoder: `Aes`, with its recursion written as a fold.
3. `EntryReader`, continued: a reader dropped with an operation pending and the next one
   over the same handle (`tokio/stream.rs`, `tokio/reader.rs`); the indexing drive loops.
4. `ArchiveIndex` and the read engine: assembly, lookup, entry ranges.

--------------------------- MODULE IndexingEngine ---------------------------
(***************************************************************************)
(* IndexingEngine (src/engine/state_machine.rs): lists an archive while a  *)
(* stream indexer decodes it.  step() drains what the indexer has decoded  *)
(* through format detection into the archive's parser, and judges the end  *)
(* of the stream.                                                          *)
(*                                                                         *)
(* The indexer (module StreamIndexer) is seen from the engine only: it     *)
(* hands out the unpacked bytes in order, in chunks of any length up to    *)
(* its buffer, asks for input in between, and ends with Done or, when the  *)
(* compressed stream is cut short, with TruncatedInput.  What it asks for  *)
(* (NeedInput, SeekAndRead, a codec's error) step() passes on.             *)
(***************************************************************************)
EXTENDS TarParser, CpioParser, ArParser

CONSTANTS
  Archives,        \* a sequence of [format, members, padding]: zeros after its end
  Sources,         \* the streams: the first `end' bytes of archive `of', and
                   \*   whether the compressed stream was cut short there
  Told,            \* archive formats may be told (TRUE) or detected (FALSE)
  OutSize,         \* BUF_SIZE: most bytes a read_output call hands out
  MinDetect        \* MIN_DETECT_BYTES

ASSUME SizesAssumption ==
  /\ OutSize \in Nat \ {0} /\ MinDetect \in Nat /\ Told \subseteq BOOLEAN
  /\ MagicLen <= MinDetect /\ ArMagicLen <= MinDetect /\ MinDetect <= Block

VARIABLES
  source,          \* the one of the Sources that is listed
  told,            \* its format was given to the engine
  handed,          \* bytes the indexer has handed out
  detect_buf,
  archive_parser,  \* None, or Some of [format, self]
  chunk,           \* what feed_to_parser has not fed yet
  from_end,        \* feed_to_parser was called by end_of_stream
  index_builder,   \* the entries, in the order they were reported
  done,
  pc               \* the place in step(), or the request it returned

input == <<source, told>>
vars  == <<input, handed, detect_buf, archive_parser, chunk, from_end,
           index_builder, done, pc>>

-----------------------------------------------------------------------------
(***************************************************************************)
(* The bytes of each archive, computed once.                               *)
(***************************************************************************)
ArchiveBytes(s) ==
  CASE s.format = "Tar"  -> TarStream(s.members)
    [] s.format = "Cpio" -> CpioStream(s.members)
    [] s.format = "Ar"   -> ArStream(s.members)

Contents == [i \in 1..Len(Archives) |-> ArchiveBytes(Archives[i]) \o Zeros(Archives[i].padding)]

\* A cpio archive has its trailer at least; a stream stops in its archive.
ASSUME ArchivesAssumption ==
  /\ Archives \in Seq([format : {"Tar"}, members : Seq(TarMembers), padding : Nat]
                       \cup [format : {"Cpio"}, members : Seq(CpioMembers) \ {<<>>},
                             padding : Nat]
                       \cup [format : {"Ar"}, members : Seq(ArMembers), padding : Nat])
  /\ \A s \in Sources : /\ s.of \in DOMAIN Archives /\ s.cut \in BOOLEAN
                         /\ s.end \in 0..Len(Contents[s.of])

Format == Archives[source.of].format
End    == source.end

\* create_archive_parser().
NewParser(format) ==
  Some([format |-> format,
        self   |-> CASE format = "Tar" -> TarNew [] format = "Cpio" -> CpioNew
                     [] format = "Ar" -> ArNew])

ParserFeed(parser, data) ==
  CASE parser.format = "Tar"  -> TarFeed(parser.self, data)
    [] parser.format = "Cpio" -> CpioFeed(parser.self, data)
    [] parser.format = "Ar"   -> ArFeed(parser.self, data)

MayEnd(parser) ==
  CASE parser.format = "Tar"  -> TarMayEnd(parser.self)
    [] parser.format = "Cpio" -> CpioMayEnd(parser.self)
    [] parser.format = "Ar"   -> ArMayEnd(parser.self)

\* detect_archive_format().
Detected(bytes) ==
  CASE Len(bytes) >= ArMagicLen /\ bytes[1].kind = "arch" -> Some("Ar")
    [] Len(bytes) >= MagicLen /\ bytes[1].kind \in DOMAIN HeaderSizes -> Some("Cpio")
    [] Len(bytes) >= MinDetect /\ bytes[1].kind \notin DOMAIN HeaderSizes \cup {"arch"} ->
         Some("Tar")
    [] OTHER -> None

-----------------------------------------------------------------------------
Init ==
  /\ source \in Sources /\ told \in Told
  /\ archive_parser = IF told THEN NewParser(Format) ELSE None
  /\ handed = 0
  /\ detect_buf = <<>> /\ chunk = <<>>
  /\ from_end = FALSE
  /\ index_builder = <<>>
  /\ done = FALSE
  /\ pc = "step"

Stepping == pc = "step" /\ ~ done

StepDone ==
  /\ pc = "step" /\ done
  /\ pc' = "Done"
  /\ UNCHANGED <<input, handed, detect_buf, archive_parser, chunk, from_end,
                 index_builder, done>>

IndexerAsks ==
  /\ Stepping /\ handed < End
  /\ pc' = "NeedInput"
  /\ UNCHANGED <<input, handed, detect_buf, archive_parser, chunk, from_end,
                 index_builder, done>>

\* Mutation: the bytes the detection looked at are not replayed.
ReplayedLatest(bytes, n) == SubSeq(bytes, Len(bytes) - n + 1, Len(bytes))

\* The bytes that go through the new parser, n of them read just now.
Replayed(bytes, n) == bytes

(***************************************************************************)
(* drain_output(), up to feed_to_parser: until the format is known the     *)
(* bytes collect in detect_buf.                                            *)
(***************************************************************************)
DrainOutput ==
  /\ Stepping
  /\ \E n \in 1..Fewer(OutSize, End - handed) :
       LET data   == SubSeq(Contents[source.of], handed + 1, handed + n)
           bytes  == detect_buf \o data
           format == Detected(bytes)
       IN  /\ handed' = handed + n
           /\ \/ /\ archive_parser # None
                 /\ chunk' = data /\ pc' = "feed"
                 /\ UNCHANGED <<archive_parser, detect_buf>>
              \/ /\ archive_parser = None /\ format = None
                 /\ detect_buf' = bytes
                 /\ UNCHANGED <<archive_parser, chunk, pc>>
              \/ /\ archive_parser = None /\ format # None
                 /\ archive_parser' = NewParser(format[1])
                 /\ detect_buf' = <<>>
                 /\ chunk' = Replayed(bytes, n) /\ pc' = "feed"
  /\ UNCHANGED <<input, from_end, index_builder, done>>

\* What the loop of feed_to_parser still has to feed.
Unread(answer) ==
  IF \/ answer.event = "EndOfArchive"
     \/ answer.event = "NeedData" /\ answer.consumed = 0
    THEN <<>>
    ELSE SubSeq(chunk, answer.consumed + 1, Len(chunk))

Take(answer) ==
  /\ archive_parser' = Some([archive_parser[1] EXCEPT !.self = answer.parser])
  /\ index_builder' = index_builder \o answer.entry
  /\ chunk' = Unread(answer)
  /\ done' = (answer.event = "EndOfArchive")
  /\ pc' = IF chunk' # <<>> THEN "feed" ELSE IF from_end THEN "judge" ELSE "step"

\* The parser refuses the bytes: the rest of the chunk is gone.
Refuse ==
  /\ chunk' = <<>>
  /\ pc' = "refused"
  /\ UNCHANGED <<archive_parser, index_builder, done>>

\* One iteration of the loop of feed_to_parser.
Feed ==
  /\ pc = "feed"
  /\ \E answer \in {ParserFeed(archive_parser[1], chunk)} :
       IF answer.event = "Error" THEN Refuse ELSE Take(answer)
  /\ UNCHANGED <<input, handed, detect_buf, from_end>>

(***************************************************************************)
(* The indexer is Done: end_of_stream().  An empty stream is an empty      *)
(* archive; one too short for detection can only be a tar.                 *)
(***************************************************************************)
\* Mutation: only a stream that held something comes to its end.
StreamEndsWithBytes == Stepping /\ handed = End /\ handed > 0 /\ ~ source.cut

StreamEnds == Stepping /\ handed = End /\ ~ source.cut

EndEmpty ==
  /\ StreamEnds /\ archive_parser = None /\ detect_buf = <<>>
  /\ done' = TRUE
  /\ pc' = "Done"
  /\ UNCHANGED <<input, handed, detect_buf, archive_parser, chunk, from_end, index_builder>>

EndUndetected ==
  /\ StreamEnds /\ archive_parser = None /\ detect_buf # <<>>
  /\ archive_parser' = NewParser("Tar")
  /\ detect_buf' = <<>> /\ chunk' = detect_buf
  /\ from_end' = TRUE
  /\ pc' = "feed"
  /\ UNCHANGED <<input, handed, index_builder, done>>

DoneAtEnd == done \/ MayEnd(archive_parser[1])

Judge ==
  /\ pc = "judge" \/ StreamEnds
  /\ archive_parser # None
  /\ done' = DoneAtEnd
  /\ pc' = IF done' THEN "Done" ELSE "Error"
  /\ UNCHANGED <<input, handed, detect_buf, archive_parser, chunk, from_end, index_builder>>

\* A cut-short compressed stream is a truncated archive.
StreamCut ==
  /\ Stepping /\ handed = End /\ source.cut
  /\ pc' = "Error"
  /\ UNCHANGED <<input, handed, detect_buf, archive_parser, chunk, from_end,
                 index_builder, done>>

-----------------------------------------------------------------------------
(***************************************************************************)
(* The caller answers a request, steps again after an error at the end, or *)
(* ends (finish, cancel).  It does not step again when the parser refused. *)
(***************************************************************************)
StepAgain ==
  /\ pc \in {"NeedInput", "Error"}
  /\ pc' = "step"
  /\ UNCHANGED <<input, handed, detect_buf, archive_parser, chunk, from_end,
                 index_builder, done>>

Finish ==
  /\ pc \in {"NeedInput", "Done", "Error", "refused"}
  /\ pc' = "finished"
  /\ UNCHANGED <<input, handed, detect_buf, archive_parser, chunk, from_end,
                 index_builder, done>>

Terminated == pc = "finished" /\ UNCHANGED vars

Step ==
  \/ StepDone \/ DrainOutput \/ Feed
  \/ EndEmpty \/ EndUndetected \/ Judge \/ StreamCut

Next == Step \/ IndexerAsks \/ StepAgain \/ Finish \/ Terminated

Spec == Init /\ [][Next]_vars

(***************************************************************************)
(* step() runs when it is called, a caller answers a request, and the      *)
(* indexer does not ask for input for ever without decoding any            *)
(* (StreamIndexer!PassEnds).                                               *)
(***************************************************************************)
FairSpec ==
  Spec /\ WF_vars(Step) /\ SF_vars(DrainOutput) /\ WF_vars(pc = "NeedInput" /\ StepAgain)

-----------------------------------------------------------------------------
(***************************************************************************)
(* What must hold.                                                         *)
(***************************************************************************)

\* Every variable holds a value of the code's type, and the parsers' buffers and
\* counters stay in their bounds: header_pos and `remaining' never underflow.
TypeOK ==
  /\ source \in Sources /\ told \in Told
  /\ handed \in 0..End
  /\ Len(detect_buf) < MinDetect
  /\ from_end \in BOOLEAN /\ done \in BOOLEAN
  /\ pc \in {"step", "feed", "judge", "NeedInput", "Done", "Error", "refused", "finished"}
  /\ archive_parser # None =>
       LET self == archive_parser[1].self
       IN  self.stream_pos \in Nat /\ self.remaining \in Nat /\ Len(self.header_buf) < 
             (CASE archive_parser[1].format = "Tar"  -> Block
                [] archive_parser[1].format = "Cpio" -> HeaderSizes["newc"]
                [] archive_parser[1].format = "Ar"   -> ArHeaderSize + ArMagicLen)

(***************************************************************************)
(* The parser sees every byte the indexer hands out, once and in order,    *)
(* through detection, its replay and feed_to_parser's loop: its stream_pos,*)
(* which the entries' data offsets are taken from, is the place in the     *)
(* stream.  (After the archive's end the rest is not for the parser.)      *)
(***************************************************************************)
ParserSeesAll ==
  pc # "refused" /\ ~ done /\ pc # "finished" =>
    handed = IF archive_parser = None THEN Len(detect_buf)
             ELSE archive_parser[1].self.stream_pos + Len(chunk)

Holds(s) ==
  CASE s.format = "Tar"  -> TarHolds(s.members)
    [] s.format = "Cpio" -> CpioHolds(s.members)
    [] s.format = "Ar"   -> ArHolds(s.members)

Ends(s) ==
  CASE s.format = "Tar"  -> TarEnds(s.members)
    [] s.format = "Cpio" -> CpioEnds(s.members)
    [] s.format = "Ar"   -> ArEnds(s.members)

Refusals(s) ==
  CASE s.format = "Tar"  -> TarRefusals(s.members)
    [] s.format = "Cpio" -> CpioRefusals(s.members)
    [] s.format = "Ar"   -> ArRefusals(s.members)

HoldsOf    == [i \in 1..Len(Archives) |-> Holds(Archives[i])]
EndsOf     == [i \in 1..Len(Archives) |-> Ends(Archives[i])]
RefusalsOf == [i \in 1..Len(Archives) |-> Refusals(Archives[i])]
LengthOf   == [i \in 1..Len(Archives) |-> Len(ArchiveBytes(Archives[i]))]

Due == {e \in HoldsOf[source.of] : e.data_offset <= End}

\* The archive has an end of its own, and the stream reaches it.
Ended == Format # "Ar" /\ End >= LengthOf[source.of]

\* The archive ends where one may: "An empty stream is an empty archive."
EndsWell ==
  /\ \A place \in RefusalsOf[source.of] : End < place
  /\ \/ Ended
     \/ ~ source.cut /\ (End \in EndsOf[source.of] \/ (End = 0 /\ ~ told))

\* A step() that says Done has listed all the archive holds.
DoneListsAll == done => Due \subseteq {index_builder[i] : i \in 1..Len(index_builder)}

\* A caller that answers every request gets Done or an error.
EveryStreamJudged == <>(pc \in {"Done", "Error", "refused", "finished"})

(***************************************************************************)
(* The engine keeps the promise of ArchiveListing: whatever the chunks, it *)
(* lists exactly what the archive holds, with its names, links and data    *)
(* offsets, and says Done exactly when the archive ends where one may, the *)
(* first time and on every retry.                                          *)
(***************************************************************************)
Status == IF done THEN "done" ELSE IF pc \in {"Error", "refused"} THEN "failed" ELSE "listing"

Listing == INSTANCE ArchiveListing WITH
  holds <- HoldsOf[source.of], due <- Due, whole <- EndsWell,
  listed <- index_builder, status <- Status

KeepsListing == Listing!Spec
=============================================================================

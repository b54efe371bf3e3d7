----------------------------- MODULE CpioParser -----------------------------
(***************************************************************************)
(* CpioParser (src/cpio/parser.rs), as operators on the record of its      *)
(* fields.  A member of a cpio archive is a record                         *)
(*                                                                         *)
(*   [sub, path, namesize, type, size, link, inode, nlink]                 *)
(*                                                                         *)
(* of its header's fields, its name and, for a symbolic link, its target;  *)
(* the end of the archive is a member of type "Trailer".                   *)
(***************************************************************************)
EXTENDS Archive

CONSTANTS
  MagicLen,        \* bytes of a cpio magic
  HeaderSizes,     \* NEWC_HEADER_SIZE, ODC_HEADER_SIZE: by sub-format
  Align,           \* newc pads names and data to this
  MaxNameSize,     \* MAX_NAME_SIZE
  Inodes           \* the inode keys are 1..Inodes, in their order

ASSUME CpioAssumption ==
  /\ MagicLen \in Nat \ {0} /\ Align \in Nat \ {0}
  /\ MaxNameSize \in Nat /\ Inodes \in Nat
  /\ HeaderSizes \in [{"newc", "odc"} -> Nat]
  /\ MagicLen < HeaderSizes["odc"] /\ HeaderSizes["odc"] <= HeaderSizes["newc"]

CpioMembers ==
  [sub : DOMAIN HeaderSizes, path : STRING, namesize : Nat, type : STRING, size : Nat,
   link : Optional(STRING), inode : 1..Inodes, nlink : Nat]

CpioNew ==
  [state |-> "ReadingHeader", header_buf |-> <<>>, stream_pos |-> 0,
   sub_format |-> None, header |-> None, entry |-> None, remaining |-> 0, buf |-> <<>>,
   resolved_inodes |-> [i \in 1..Inodes |-> None],
   deferred_links  |-> [i \in 1..Inodes |-> <<>>],
   pending |-> <<>>]

\* uses_alignment() and align4: what pads n bytes of that sub-format.
CpioPad(sub, n) == IF sub = "odc" THEN 0 ELSE (Align - (n % Align)) % Align

\* The parser after it has taken k bytes, and waits for fewer of this state's.
CpioTook(p, k) == [p EXCEPT !.stream_pos = @ + k, !.remaining = @ - k]

HardLinkTo(entry, path) == [entry EXCEPT !.type = "HardLink", !.link = Some(path)]

(***************************************************************************)
(* apply_hardlink_policy(): the entry goes out now, or waits for the member*)
(* of its inode that carries the data, which sends the waiting ones.       *)
(***************************************************************************)
CpioEmit(p, consumed, entry, m) ==
  IF m.type # "Regular" \/ m.nlink <= 1 THEN Emits(p, consumed, entry)
  ELSE IF entry.size > 0
    THEN LET links == p.deferred_links[m.inode]
         IN  Emits([p EXCEPT !.resolved_inodes[m.inode] = Some(entry.path),
                             !.deferred_links[m.inode] = <<>>,
                             !.pending = @ \o [i \in 1..Len(links) |->
                                                 HardLinkTo(links[i], entry.path)]],
                   consumed, entry)
  ELSE IF p.resolved_inodes[m.inode] # None
    THEN Emits(p, consumed, HardLinkTo(entry, p.resolved_inodes[m.inode][1]))
  ELSE NeedsData([p EXCEPT !.deferred_links[m.inode] = Append(@, entry)], consumed)

\* transition_to_data() and the end of feed_skip_name_pad: the data starts here.
CpioToData(p, consumed) ==
  LET m     == p.header[1]
      entry == Entry(m.path, m.size, m.type, None, p.stream_pos)
      data  == [p EXCEPT !.state = IF m.size > 0 THEN "SkippingData" ELSE "ReadingHeader",
                         !.remaining = m.size + CpioPad(p.sub_format[1], m.size)]
  IN  CASE m.type = "SymLink" /\ m.size > MaxNameSize -> Refuses(p)
        [] m.type = "SymLink" /\ m.size \in 1..MaxNameSize ->
             NeedsData([p EXCEPT !.state = "ReadingLinkTarget", !.remaining = m.size,
                                 !.entry = Some(entry), !.buf = <<>>], consumed)
        [] OTHER -> CpioEmit(data, consumed, entry, m)

(***************************************************************************)
(* feed_header(): the sub-format is told from the first magic before more  *)
(* is read, since an odc header is shorter than a newc one.                *)
(***************************************************************************)
CpioProcessHeader(p, consumed) ==
  LET m == p.header_buf[1].of
  IN  IF \/ ~ Whole(p.header_buf, p.sub_format[1], HeaderSizes[p.sub_format[1]])
         \/ m.namesize > MaxNameSize
        THEN Refuses(p)
      ELSE NeedsData([p EXCEPT !.header_buf = <<>>, !.state = "ReadingFilename",
                               !.header = Some(m), !.remaining = m.namesize,
                               !.buf = <<>>], consumed)

\* How much of the header to buffer: the magic, then the rest.
HeaderWanted(p) == IF p.sub_format = None THEN MagicLen ELSE HeaderSizes[p.sub_format[1]]

CpioFillHeader(p, data) ==
  LET take == Fewer(Len(data), HeaderWanted(p) - Len(p.header_buf))
  IN  [p EXCEPT !.header_buf = @ \o Taken(data, take), !.stream_pos = @ + take]

CpioFeedHeader(p, data) ==
  LET q     == CpioFillHeader(p, data)
      magic == q.header_buf[1].kind
      known == IF p.sub_format # None THEN q ELSE [q EXCEPT !.sub_format = Some(magic)]
      full  == CpioFillHeader(known, SubSeq(data, q.stream_pos - p.stream_pos + 1, Len(data)))
      taken == full.stream_pos - p.stream_pos
  IN  IF data = <<>> THEN NeedsData(p, 0)
      ELSE IF Len(q.header_buf) < HeaderWanted(p)
        THEN NeedsData(q, q.stream_pos - p.stream_pos)
      ELSE IF magic \notin DOMAIN HeaderSizes THEN Refuses(q)
      ELSE IF Len(full.header_buf) < HeaderWanted(full) THEN NeedsData(full, taken)
      ELSE CpioProcessHeader(full, taken)

(***************************************************************************)
(* feed_filename(): at the trailer the links still waiting go out as the   *)
(* empty files the archive declared, in the order of their inodes.         *)
(***************************************************************************)
CpioTrailer(p, consumed) ==
  LET waiting == p.pending \o FlattenSeq(p.deferred_links)
      q == [p EXCEPT !.state = "End", !.deferred_links = [i \in 1..Inodes |-> <<>>],
                     !.pending = IF waiting = <<>> THEN <<>> ELSE Tail(waiting)]
  IN  IF waiting = <<>> THEN EndsHere(q, consumed) ELSE Emits(q, consumed, Head(waiting))

CpioFeedFilename(p, data) ==
  LET take == Fewer(Len(data), p.remaining)
      q    == [CpioTook(p, take) EXCEPT !.buf = @ \o Taken(data, take)]
      m    == p.header[1]
      sub  == p.sub_format[1]
      pad  == CpioPad(sub, HeaderSizes[sub] + m.namesize)
  IN  IF data = <<>> \/ q.remaining > 0 THEN NeedsData(q, take)
      ELSE IF ~ Whole(q.buf, "name", m.namesize) THEN Refuses(q)
      ELSE IF m.type = "Trailer" THEN CpioTrailer(q, take)
      ELSE IF pad > 0
        THEN NeedsData([q EXCEPT !.state = "SkippingNamePad", !.remaining = pad], take)
      ELSE CpioToData(q, take)

CpioFeedNamePad(p, data) ==
  LET take == Fewer(Len(data), p.remaining)
      q    == CpioTook(p, take)
  IN  IF data = <<>> \/ q.remaining > 0 THEN NeedsData(q, take) ELSE CpioToData(q, take)

\* feed_link_target(): the target is no file data, so the entry has size 0.
CpioFeedLinkTarget(p, data) ==
  LET take  == Fewer(Len(data), p.remaining)
      q     == [CpioTook(p, take) EXCEPT !.buf = @ \o Taken(data, take)]
      m     == p.header[1]
      entry == [p.entry[1] EXCEPT !.link = m.link, !.size = 0]
      pad   == CpioPad(p.sub_format[1], q.stream_pos - entry.data_offset)
      next  == [q EXCEPT !.state = IF pad > 0 THEN "SkippingDataPad" ELSE "ReadingHeader",
                         !.remaining = pad]
  IN  IF data = <<>> \/ q.remaining > 0 THEN NeedsData(q, take)
      ELSE IF ~ Whole(q.buf, "data", m.size) THEN Refuses(q)
      ELSE Emits(next, take, entry)

\* feed_skip_data() and feed_skip_data_pad().
CpioFeedSkip(p, data) ==
  LET take == Fewer(Len(data), p.remaining)
      q    == CpioTook(p, take)
  IN  NeedsData(IF q.remaining = 0 THEN [q EXCEPT !.state = "ReadingHeader"] ELSE q, take)

CpioFeedState(p, data) ==
  CASE p.state = "ReadingHeader"     -> CpioFeedHeader(p, data)
    [] p.state = "ReadingFilename"   -> CpioFeedFilename(p, data)
    [] p.state = "SkippingNamePad"   -> CpioFeedNamePad(p, data)
    [] p.state = "ReadingLinkTarget" -> CpioFeedLinkTarget(p, data)
    [] p.state \in {"SkippingData", "SkippingDataPad"} -> CpioFeedSkip(p, data)
    [] p.state = "End" -> EndsHere(p, 0)

\* feed(): the entries that wait go first.
CpioFeed(p, data) ==
  IF p.pending # <<>> THEN Emits([p EXCEPT !.pending = Tail(@)], 0, Head(p.pending))
  ELSE CpioFeedState(p, data)

\* end_of_stream(): may the archive end here?
CpioMayEnd(p) == p.state = "End"
-----------------------------------------------------------------------------
(***************************************************************************)
(* The reference: the bytes of an archive, what it holds and where it may  *)
(* end, straight from its members.                                         *)
(***************************************************************************)
CpioNameEnd(m) ==
  HeaderSizes[m.sub] + m.namesize + CpioPad(m.sub, HeaderSizes[m.sub] + m.namesize)

CpioBytes(m) ==
  LET padded(bytes) == bytes \o Zeros(CpioPad(m.sub, Len(bytes)))
      name == Bytes("name", m, m.namesize)
      head == Bytes(m.sub, m, HeaderSizes[m.sub]) \o name
  IN  IF m.type = "Trailer" THEN head ELSE padded(head) \o padded(Bytes("data", m, m.size))

CpioStream(ms) == FlattenSeq([k \in 1..Len(ms) |-> CpioBytes(ms[k])])

CpioStart(ms, k) == StartOf([i \in 1..Len(ms) |-> Len(CpioBytes(ms[i]))], k)

\* The members that carry the data of member k's file.
Carriers(ms, k) ==
  {i \in 1..Len(ms) : ms[i].type = "Regular" /\ ms[i].nlink > 1 /\ ms[i].size > 0
                      /\ ms[i].inode = ms[k].inode}

\* The one a link is told to point at: the last before it, else the first after.
Carrier(ms, k) ==
  LET before == {i \in Carriers(ms, k) : i < k}
  IN  IF before # {} THEN CHOOSE i \in before : \A j \in before : j <= i
      ELSE CHOOSE i \in Carriers(ms, k) : \A j \in Carriers(ms, k) : i <= j

CpioEntry(ms, k) ==
  LET m     == ms[k]
      plain == Entry(m.path, IF m.type = "SymLink" THEN 0 ELSE m.size, m.type, m.link,
                     CpioStart(ms, k) + CpioNameEnd(m))
  IN  IF m.type = "Regular" /\ m.nlink > 1 /\ m.size = 0 /\ Carriers(ms, k) # {}
        THEN HardLinkTo(plain, ms[Carrier(ms, k)].path)
      ELSE plain

CpioHolds(ms) == {CpioEntry(ms, k) : k \in {i \in 1..Len(ms) : ms[i].type # "Trailer"}}

\* The archive must end with its trailer.
CpioEnds(ms) == {Len(CpioStream(ms))}

\* Where a header, or the target a name announces, must be refused.
CpioRefusals(ms) ==
  {CpioStart(ms, k) + HeaderSizes[ms[k].sub] :
     k \in {i \in 1..Len(ms) : ms[i].namesize > MaxNameSize}}
  \cup {CpioStart(ms, k) + CpioNameEnd(ms[k]) :
     k \in {i \in 1..Len(ms) : ms[i].type = "SymLink" /\ ms[i].size > MaxNameSize}}
=============================================================================

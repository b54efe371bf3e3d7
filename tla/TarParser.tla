----------------------------- MODULE TarParser -----------------------------
(***************************************************************************)
(* TarParser (src/tar/parser.rs), as operators on the record of its fields.*)
(* A member of a tar archive is a record                                   *)
(*                                                                         *)
(*   [type, size, path, link, sets, stored]                                *)
(*                                                                         *)
(* of its header's fields, of what its data sets for the next entry when   *)
(* it is an extended header, and of the length of the data that follows;   *)
(* a member of type "Zeros" is a lone zero block.                          *)
(***************************************************************************)
EXTENDS Archive

CONSTANTS
  Block,           \* BLOCK_SIZE
  MaxMetadata      \* MAX_METADATA_SIZE

ASSUME TarAssumption == Block \in Nat \ {0} /\ MaxMetadata \in Nat

TarMembers ==
  [type : STRING, size : Nat, path : STRING, link : Optional(STRING),
   sets : [path : Optional(STRING), linkpath : Optional(STRING), size : Optional(Nat)],
   stored : Nat]

\* What an extended header sets: the pax_* fields.
NoSettings == [path |-> None, linkpath |-> None, size |-> None]

TarNew ==
  [state |-> "ReadingHeader", header_buf |-> <<>>, stream_pos |-> 0,
   remaining |-> 0, size |-> 0, buf |-> <<>>, is_link |-> FALSE,
   pax |-> NoSettings, gnu_long_name |-> None, gnu_long_link |-> None]

Metadata == {"PaxExtended", "PaxGlobal", "GnuLongName", "GnuLongLink"}

Padded(n) == ((n + Block - 1) \div Block) * Block

IsZeroBlock(block) == block = Zeros(Block)

\* The first of two optional values that is there.
Over(new, old) == IF new # None THEN new ELSE old

\* process_header(): `block' is the header, `p' has just consumed it.
TarProcessHeader(p, block, taken) ==
  LET m      == block[1].of
      padded == Padded(m.size)
      into(state) == [p EXCEPT !.state = state, !.remaining = padded, !.size = m.size,
                               !.buf = <<>>]
  IN  IF \/ ~ Whole(block, "head", Block)
         \/ m.type \in Metadata /\ m.size > MaxMetadata
        THEN Refuses(p)
      ELSE CASE m.type = "PaxExtended" -> NeedsData(into("ReadingPaxData"), taken)
             [] m.type = "PaxGlobal"   -> NeedsData(into("SkippingData"), taken)
             [] m.type \in {"GnuLongName", "GnuLongLink"} ->
                  NeedsData([into("ReadingGnuLong") EXCEPT !.is_link = m.type = "GnuLongLink"],
                            taken)
             [] m.type \notin Metadata ->
                  LET path == Over(p.gnu_long_name, Over(p.pax.path, Some(m.path)))[1]
                      link == Over(p.gnu_long_link, Over(p.pax.linkpath, m.link))
                      size == Over(p.pax.size, Some(m.size))[1]
                      left == Padded(size)
                  IN  Emits([p EXCEPT !.state = IF left > 0 THEN "SkippingData"
                                                ELSE "ReadingHeader",
                                      !.remaining = left,
                                      !.pax = NoSettings,
                                      !.gnu_long_name = None, !.gnu_long_link = None],
                            taken, Entry(path, size, m.type, link, p.stream_pos))

\* feed_header() and, after a zero block, feed_second_zero().
TarFeedHeader(p, data) ==
  LET take  == Fewer(Len(data), Block - Len(p.header_buf))
      block == p.header_buf \o Taken(data, take)
      q     == [p EXCEPT !.stream_pos = @ + take]
      full  == [q EXCEPT !.header_buf = <<>>]
  IN  IF Len(block) < Block THEN NeedsData([q EXCEPT !.header_buf = block], take)
      ELSE IF ~ IsZeroBlock(block) THEN TarProcessHeader(full, block, take)
      ELSE IF p.state = "OneZeroBlock" THEN EndsHere([full EXCEPT !.state = "End"], take)
      ELSE NeedsData([full EXCEPT !.state = "OneZeroBlock"], take)

\* Mutation: the data is taken without looking at what is left of the member.
TarTakeAll(p, data) ==
  [p EXCEPT !.remaining = @ - Len(data), !.stream_pos = @ + Len(data)]

\* What feed_skip, feed_pax and feed_gnu_long take of the member's data.
TarTake(p, data) ==
  LET take   == Fewer(Len(data), p.remaining)
      useful == Fewer(take, p.size - Len(p.buf))
  IN  [p EXCEPT !.remaining = @ - take, !.stream_pos = @ + take,
                !.buf = IF p.state = "SkippingData" THEN @ ELSE @ \o Taken(data, useful)]

\* parse_pax_data() and the reading of a GNU long name.
TarSettings(p) ==
  LET whole == Len(p.buf) > 0 /\ Whole(p.buf, "data", p.size)
      m     == p.buf[1].of
      name  == Some(IF whole THEN m.sets.path[1] ELSE "")
  IN  CASE p.state = "ReadingPaxData" ->
             IF ~ whole THEN p
             ELSE [p EXCEPT !.pax = [path     |-> Over(m.sets.path, p.pax.path),
                                     linkpath |-> Over(m.sets.linkpath, p.pax.linkpath),
                                     size     |-> Over(m.sets.size, p.pax.size)]]
        [] p.state = "ReadingGnuLong" ->
             IF p.is_link THEN [p EXCEPT !.gnu_long_link = name]
             ELSE [p EXCEPT !.gnu_long_name = name]
        [] p.state = "SkippingData" -> p

TarFeedData(p, data) ==
  LET q == TarTake(p, data)
  IN  NeedsData(IF data = <<>> \/ q.remaining > 0 THEN q
                ELSE [TarSettings(q) EXCEPT !.state = "ReadingHeader", !.buf = <<>>],
                p.remaining - q.remaining)

TarFeed(p, data) ==
  CASE p.state \in {"ReadingHeader", "OneZeroBlock"} -> TarFeedHeader(p, data)
    [] p.state \in {"SkippingData", "ReadingPaxData", "ReadingGnuLong"} -> TarFeedData(p, data)
    [] p.state = "End" -> EndsHere(p, 0)

\* Mutation: an extended header may be the last.
TarMayEndUnset(p) ==
  \/ p.state \in {"OneZeroBlock", "End"}
  \/ p.state = "ReadingHeader" /\ p.header_buf = <<>>

\* end_of_stream(): may the archive end here?
TarMayEnd(p) ==
  \/ p.state \in {"OneZeroBlock", "End"}
  \/ /\ p.state = "ReadingHeader" /\ p.header_buf = <<>>
     /\ p.pax = NoSettings /\ p.gnu_long_name = None /\ p.gnu_long_link = None
-----------------------------------------------------------------------------
(***************************************************************************)
(* The reference: the bytes of an archive, what it holds and where it may  *)
(* end, straight from its members.                                         *)
(***************************************************************************)
TarBytes(m) ==
  IF m.type = "Zeros" THEN Zeros(Block)
  ELSE Bytes("head", m, Block) \o Bytes("data", m, m.stored)
       \o Zeros(Padded(m.stored) - m.stored)

TarStream(ms) == FlattenSeq([k \in 1..Len(ms) |-> TarBytes(ms[k])]) \o Zeros(2 * Block)

TarStart(ms, k) == StartOf([i \in 1..Len(ms) |-> Len(TarBytes(ms[i]))], k)

Files(ms) == {k \in 1..Len(ms) : ms[k].type \notin Metadata \cup {"Zeros"}}

\* The extended headers of one kind that speak of member k, in order.
Speaking(ms, k, types) ==
  {i \in 1..(k - 1) : ms[i].type \in types /\ (i..(k - 1)) \cap Files(ms) = {}}

Pending(ms, k) ==
  \E i \in Speaking(ms, k, Metadata \ {"PaxGlobal"}) : ms[i].sets # NoSettings

\* The last value set for a member in that field, if any.
LastSet(ms, headers, field) ==
  LET setting == {i \in headers : ms[i].sets[field] # None}
  IN  IF setting = {} THEN None
      ELSE ms[CHOOSE i \in setting : \A j \in setting : j <= i].sets[field]

TarEntry(ms, k) ==
  LET said(types, field) == LastSet(ms, Speaking(ms, k, types), field)
      path == Over(said({"GnuLongName"}, "path"),
                   Over(said({"PaxExtended"}, "path"), Some(ms[k].path)))
      link == Over(said({"GnuLongLink"}, "path"),
                   Over(said({"PaxExtended"}, "linkpath"), ms[k].link))
  IN  Entry(path[1], ms[k].stored, ms[k].type, link, TarStart(ms, k) + Block)

TarHolds(ms) == {TarEntry(ms, k) : k \in Files(ms)}

\* At a boundary of two members unless an extended header waits for its entry,
\* or past a zero block.
TarEnds(ms) ==
  {TarStart(ms, k) : k \in {i \in 1..(Len(ms) + 1) : ~ Pending(ms, i)}}
    \cup {TarStart(ms, k) + n : k \in {i \in 1..Len(ms) : ms[i].type = "Zeros"},
                               n \in Block..(2 * Block - 1)}
    \cup {TarStart(ms, Len(ms) + 1) + n : n \in Block..(2 * Block)}

\* Where a header ends that must be refused.
TarRefusals(ms) ==
  {TarStart(ms, k) + Block :
     k \in {i \in 1..Len(ms) : ms[i].type \in Metadata /\ ms[i].size > MaxMetadata}}
=============================================================================

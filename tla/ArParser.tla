------------------------------ MODULE ArParser ------------------------------
(***************************************************************************)
(* ArParser (src/ar/parser.rs), as operators on the record of its fields.  *)
(* A member of an ar archive is a record                                   *)
(*                                                                         *)
(*   [naming, path, namelen, size]                                         *)
(*                                                                         *)
(* whose naming says what its header's name field holds: "short" its name, *)
(* "long" an offset in the name table, "bsd" the length of the name its    *)
(* data starts with (namelen bytes of size), "table" and "special" members *)
(* that are no file (bsd ones too may be: their path is SymbolTable).      *)
(***************************************************************************)
EXTENDS Archive

CONSTANTS
  ArMagicLen,      \* length of AR_MAGIC
  ArHeaderSize,    \* HEADER_SIZE
  MaxTableSize,    \* MAX_NAME_TABLE_SIZE
  MaxBsdName,      \* MAX_NAME_SIZE
  SymbolTable      \* the paths that start with __.SYMDEF

ASSUME ArAssumption ==
  /\ ArMagicLen \in Nat \ {0} /\ ArHeaderSize \in Nat \ {0}
  /\ MaxTableSize \in Nat /\ MaxBsdName \in Nat

ArMembers ==
  [naming : {"short", "long", "bsd", "table", "special"}, path : STRING,
   namelen : Nat, size : Nat]

ArNew ==
  [state |-> "ReadingMagic", header_buf |-> <<>>, stream_pos |-> 0,
   header |-> None, remaining |-> 0, pad |-> 0, buf |-> <<>>, name_table |-> None]

ArTook(p, k) == [p EXCEPT !.stream_pos = @ + k, !.remaining = @ - k]

\* Member data is padded to an even offset.
ArPad(m) == m.size % 2

\* skip(): `data' bytes of the member and its padding.
ArSkip(p, data, pad) ==
  [p EXCEPT !.state = IF data + pad = 0 THEN "ReadingHeader" ELSE "SkippingData",
            !.remaining = data + pad, !.pad = IF data + pad = 0 THEN 0 ELSE pad]

\* fill_header_buf(), for a header of `size' bytes.
ArFill(p, data, size) ==
  LET take == Fewer(Len(data), size - Len(p.header_buf))
  IN  [p EXCEPT !.header_buf = @ \o Taken(data, take), !.stream_pos = @ + take]

ArFeedMagic(p, data) ==
  LET q    == ArFill(p, data, ArMagicLen)
      take == q.stream_pos - p.stream_pos
  IN  IF Len(q.header_buf) < ArMagicLen THEN NeedsData(q, take)
      ELSE IF ~ Whole(q.header_buf, "arch", ArMagicLen) THEN Refuses(q)
      ELSE NeedsData([q EXCEPT !.header_buf = <<>>, !.state = "ReadingHeader"], take)

\* classify(): a long name must be one the table read so far holds.
ArRefused(p, m) ==
  \/ m.naming = "table" /\ m.size > MaxTableSize
  \/ m.naming = "bsd" /\ (m.namelen > MaxBsdName \/ m.namelen > m.size)
  \/ /\ m.naming = "long"
     /\ p.name_table = None \/ ~ Whole(p.name_table[1], "data", Len(p.name_table[1]))

ArFeedHeader(p, data) ==
  LET q    == ArFill(p, data, ArHeaderSize)
      take == q.stream_pos - p.stream_pos
      m    == q.header_buf[1].of
      full == [q EXCEPT !.header_buf = <<>>]
      into(state, n, pad) == NeedsData([full EXCEPT !.state = state, !.header = Some(m),
                                        !.remaining = n, !.pad = pad, !.buf = <<>>], take)
  IN  IF Len(q.header_buf) < ArHeaderSize THEN NeedsData(q, take)
      ELSE IF ~ Whole(q.header_buf, "head", ArHeaderSize) \/ ArRefused(p, m) THEN Refuses(q)
      ELSE CASE m.naming = "special" -> NeedsData(ArSkip(full, m.size, ArPad(m)), take)
             [] m.naming = "table"   -> into("ReadingNameTable", m.size, ArPad(m))
             [] m.naming = "bsd"     -> into("ReadingBsdName", m.namelen, 0)
             [] m.naming \in {"short", "long"} ->
                  Emits(ArSkip(full, m.size, ArPad(m)), take,
                        Entry(m.path, m.size, "Regular", None, q.stream_pos))

ArFeedNameTable(p, data) ==
  LET take == Fewer(Len(data), p.remaining)
      q    == [ArTook(p, take) EXCEPT !.buf = @ \o Taken(data, take)]
  IN  NeedsData(IF q.remaining > 0 THEN q
                ELSE ArSkip([q EXCEPT !.name_table = Some(q.buf), !.buf = <<>>], 0, p.pad),
                take)

\* feed_bsd_name(): the member's size includes its name.
ArFeedBsdName(p, data) ==
  LET take == Fewer(Len(data), p.remaining)
      q    == [ArTook(p, take) EXCEPT !.buf = @ \o Taken(data, take)]
      m    == p.header[1]
      left == m.size - m.namelen
      skip == ArSkip([q EXCEPT !.buf = <<>>], left, ArPad(m))
  IN  IF q.remaining > 0 THEN NeedsData(q, take)
      ELSE IF m.namelen = 0 \/ ~ Whole(q.buf, "name", m.namelen) THEN Refuses(q)
      ELSE IF m.path = SymbolTable THEN NeedsData(skip, take)
      ELSE Emits(skip, take, Entry(m.path, left, "Regular", None, q.stream_pos))

ArFeedSkip(p, data) ==
  LET take == Fewer(Len(data), p.remaining)
      q    == [ArTook(p, take) EXCEPT !.pad = Fewer(@, p.remaining - take)]
  IN  NeedsData(IF q.remaining = 0 THEN [q EXCEPT !.state = "ReadingHeader"] ELSE q, take)

ArFeed(p, data) ==
  CASE data = <<>> -> NeedsData(p, 0)
    [] data # <<>> /\ p.state = "ReadingMagic"     -> ArFeedMagic(p, data)
    [] data # <<>> /\ p.state = "ReadingHeader"    -> ArFeedHeader(p, data)
    [] data # <<>> /\ p.state = "ReadingNameTable" -> ArFeedNameTable(p, data)
    [] data # <<>> /\ p.state = "ReadingBsdName"   -> ArFeedBsdName(p, data)
    [] data # <<>> /\ p.state = "SkippingData"     -> ArFeedSkip(p, data)

\* end_of_stream(): may the archive end here?
ArMayEnd(p) ==
  \/ p.state = "ReadingHeader" /\ p.header_buf = <<>>
  \/ p.state = "SkippingData" /\ p.remaining <= p.pad
-----------------------------------------------------------------------------
(***************************************************************************)
(* The reference: the bytes of an archive, what it holds and where it may  *)
(* end, straight from its members.                                         *)
(***************************************************************************)
ArNameLen(m) == IF m.naming = "bsd" THEN m.namelen ELSE 0

ArBytes(m) ==
  Bytes("head", m, ArHeaderSize) \o Bytes("name", m, ArNameLen(m))
    \o Bytes("data", m, m.size - ArNameLen(m)) \o Zeros(m.size % 2)

ArStream(ms) ==
  Bytes("arch", Nobody, ArMagicLen) \o FlattenSeq([k \in 1..Len(ms) |-> ArBytes(ms[k])])

ArStart(ms, k) == ArMagicLen + StartOf([i \in 1..Len(ms) |-> Len(ArBytes(ms[i]))], k)

ArFiles(ms) ==
  {k \in 1..Len(ms) : ms[k].naming \in {"short", "long", "bsd"} /\ ms[k].path # SymbolTable}

ArHolds(ms) ==
  {Entry(ms[k].path, ms[k].size - ArNameLen(ms[k]), "Regular", None,
         ArStart(ms, k) + ArHeaderSize + ArNameLen(ms[k])) : k \in ArFiles(ms)}

\* At a boundary of two members, or before the pad byte of one.
ArEnds(ms) ==
  {ArStart(ms, k) : k \in 1..(Len(ms) + 1)}
    \cup {ArStart(ms, k + 1) - 1 : k \in {i \in 1..Len(ms) : ms[i].size % 2 = 1}}

\* A long name before any table, or a table or name too long to be one.
ArUnreadable(ms, k) ==
  \/ ms[k].naming = "table" /\ ms[k].size > MaxTableSize
  \/ ms[k].naming = "bsd" /\ ms[k].namelen > Fewer(MaxBsdName, ms[k].size)
  \/ ms[k].naming = "long" /\ \A i \in 1..(k - 1) : ms[i].naming # "table"

\* Where a header ends that must be refused.
ArRefusals(ms) ==
  {ArStart(ms, k) + ArHeaderSize : k \in {i \in 1..Len(ms) : ArUnreadable(ms, i)}}
=============================================================================

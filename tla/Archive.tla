------------------------------ MODULE Archive ------------------------------
(***************************************************************************)
(* What the archive parsers share (src/archive/parser.rs): the bytes they  *)
(* are fed, the entries they emit and what a feed call answers.            *)
(*                                                                         *)
(* A byte is a record [kind, of, at]: the at-th byte of that kind (header, *)
(* name, data, ...) of member `of' of the archive.  A field is read        *)
(* correctly from exactly the bytes it was written as, in their order.     *)
(***************************************************************************)
EXTENDS Integers, Sequences, SequencesExt

None    == <<>>
Some(x) == <<x>>

Optional(S) == {x \in Seq(S) : Len(x) <= 1}

Fewer(a, b) == IF a < b THEN a ELSE b

Nobody == [type |-> "none"]
Bytes(kind, member, n) == [i \in 1..n |-> [kind |-> kind, of |-> member, at |-> i]]
Zeros(n) == [i \in 1..n |-> [kind |-> "zero", of |-> Nobody, at |-> 0]]

\* These bytes are all n bytes of that kind of their member.
Whole(bytes, kind, n) ==
  Len(bytes) = n /\ (n > 0 => bytes = Bytes(kind, bytes[1].of, n))

Entry(path, size, type, link, offset) ==
  [path |-> path, size |-> size, type |-> type, link |-> link, data_offset |-> offset]

(***************************************************************************)
(* Answers of feed(): the parser afterwards, the bytes consumed, the event.*)
(***************************************************************************)
Answer(parser, consumed, event, entry) ==
  [parser |-> parser, consumed |-> consumed, event |-> event, entry |-> entry]

NeedsData(parser, consumed)    == Answer(parser, consumed, "NeedData", None)
Emits(parser, consumed, entry) == Answer(parser, consumed, "Entry", Some(entry))
EndsHere(parser, consumed)     == Answer(parser, consumed, "EndOfArchive", None)
Refuses(parser)                == Answer(parser, 0, "Error", None)

Taken(data, n) == SubSeq(data, 1, n)

(***************************************************************************)
(* For the reference definitions: where the k-th of pieces of these        *)
(* lengths starts.                                                         *)
(***************************************************************************)
StartOf(lens, k) == FoldLeft(LAMBDA sum, n : sum + n, 0, SubSeq(lens, 1, k - 1))
=============================================================================

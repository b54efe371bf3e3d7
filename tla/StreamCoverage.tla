--------------------------- MODULE StreamCoverage ---------------------------
(***************************************************************************)
(* What an indexer of a stream promises, whatever it decodes in what       *)
(* chunks, however often it is stopped and resumed: coverage only grows,   *)
(* the points a reader can start from are added past all earlier ones and  *)
(* the start is never given up, bytes are delivered once and in order and  *)
(* never before they are covered, and the index is declared complete only  *)
(* at the stream's end.                                                    *)
(***************************************************************************)
EXTENDS Integers

CONSTANT Total          \* unpacked length of the whole stream, a natural number

VARIABLES
  covered,      \* the stream is indexed below this offset
  points,       \* offsets decoding can start from
  given,        \* bytes below this offset have been delivered, or passed over
  complete

vars == <<covered, points, given, complete>>

Init == covered = 0 /\ points = {0} /\ given = 0 /\ complete = FALSE

Cover ==
  /\ ~ complete
  /\ \E n \in (covered + 1)..Total : covered' = n
  /\ UNCHANGED <<points, given, complete>>

AddPoint ==
  /\ ~ complete
  /\ \E n \in 1..Total :
       /\ \A p \in points : p < n
       /\ points' = points \cup {n}
  /\ UNCHANGED <<covered, given, complete>>

DropPoints ==
  /\ 0 \in points' /\ points' \subseteq points
  /\ UNCHANGED <<covered, given, complete>>

Deliver ==
  /\ \E n \in (given + 1)..covered : given' = n
  /\ UNCHANGED <<covered, points, complete>>

\* A new pass starts delivering at the end of what is covered.
PassOver ==
  /\ given' = covered
  /\ UNCHANGED <<covered, points, complete>>

\* The end is reached; a stream none of which exists yet is taken for an empty one.
Conclude ==
  /\ ~ complete /\ complete' = TRUE
  /\ \/ covered' = Total
     \/ covered = 0 /\ covered' = 0
  /\ UNCHANGED <<points, given>>

Next == Cover \/ AddPoint \/ DropPoints \/ Deliver \/ PassOver \/ Conclude

Spec == Init /\ [][Next]_vars
=============================================================================

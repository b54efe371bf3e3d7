--------------------------- MODULE MCStreamReader ---------------------------
(***************************************************************************)
(* Small streams and checkpoint tables for StreamReader.                   *)
(***************************************************************************)
EXTENDS StreamReader

\* A header that decodes to nothing, then bursts of 3 and 4 bytes.
MCBursts == [p \in 0..3 |-> <<0, 0, 3, 7>>[p + 1]]

At(packed, unpacked) ==
  [packed |-> packed, unpacked |-> unpacked, size |-> 1, at |-> <<packed, unpacked>>]

\* The start alone; one checkpoint inside a burst; one at each burst's end.
MCTables ==
  {<<At(0, 0)>>, <<At(0, 0), At(2, 2)>>, <<At(0, 0), At(2, 3), At(3, 6)>>}
=============================================================================

---------------------------- MODULE StreamIndex ----------------------------
(***************************************************************************)
(* The checkpoint table of one compressed stream (src/stream/index.rs) as  *)
(* operators on a record                                                   *)
(*                                                                         *)
(*   [checkpoints, indexed_to, complete, unpacked_len, compressed_len]     *)
(*                                                                         *)
(* A checkpoint is a record [packed, unpacked, size, at]: the two offsets  *)
(* it carries, the bytes its saved decoder state weighs, and `at', the     *)
(* position <<bytes taken in, bytes given out>> the saved decoder really   *)
(* is at.  The code never sees `at': it is what a restored decoder         *)
(* continues from, and the invariants compare the two offsets with it.     *)
(***************************************************************************)
EXTENDS Integers, Sequences, SequencesExt

CONSTANT UnknownLen      \* unpacked_len = None
ASSUME UnknownLenAssumption == UnknownLen \notin Nat

Checkpoint == [packed : Nat, unpacked : Nat, size : Nat, at : Nat \X Nat]

StartCheckpoint(size) ==
  [packed |-> 0, unpacked |-> 0, size |-> size, at |-> <<0, 0>>]

StreamIndexType ==
  [checkpoints  : Seq(Checkpoint),
   indexed_to   : Nat,
   complete     : BOOLEAN,
   unpacked_len : Nat \cup {UnknownLen},
   compressed_len : Nat]

\* An index that knows nothing yet but the start, and the lengths it was told
\* (set_unpacked_len; a compressed_len of 0 is None).
NewIndex(size, declared, packed) ==
  [checkpoints  |-> <<StartCheckpoint(size)>>,
   indexed_to   |-> 0,
   complete     |-> FALSE,
   unpacked_len |-> declared,
   compressed_len |-> packed]

LastCheckpoint(cps) == cps[Len(cps)]

\* checkpoint_data_bytes(): the estimated bytes of state the table holds.
DataBytes(cps) == FoldLeft(LAMBDA sum, cp : sum + cp.size, 0, cps)

(***************************************************************************)
(* thin(): with two checkpoints drop the later; with more, keep the even   *)
(* (zero-based) places and the last; with one there is nothing to drop.    *)
(***************************************************************************)
\* Mutation: the sole checkpoint besides the start is never dropped.
CanThinMany(cps) == Len(cps) > 2

CanThin(cps) == Len(cps) > 1

ThinnedLen(n) == IF n = 2 THEN 1 ELSE (n \div 2) + 1

\* Mutation: only the even places survive.
ThinnedEven(cps) == [i \in 1..((Len(cps) + 1) \div 2) |-> cps[2 * i - 1]]

Thinned(cps) ==
  [i \in 1..ThinnedLen(Len(cps)) |->
     IF Len(cps) # 2 /\ i = ThinnedLen(Len(cps))
       THEN LastCheckpoint(cps)
       ELSE cps[2 * i - 1]]

(***************************************************************************)
(* best_checkpoint_for_offset(): the place (from 1) of the last checkpoint *)
(* at or before an unpacked offset.  partition_point counts the prefix     *)
(* that is <= the offset and saturating_sub keeps the answer in the table. *)
(***************************************************************************)
BestCheckpoint(cps, offset) ==
  LET prefix == CHOOSE n \in 0..Len(cps) :
                  /\ \A i \in 1..n : cps[i].unpacked <= offset
                  /\ n < Len(cps) => cps[n + 1].unpacked > offset
  IN  IF prefix = 0 THEN 1 ELSE prefix

\* validate(): what is asked of a table that came from outside.
Validates(cps) ==
  /\ cps # <<>>
  /\ cps[1].unpacked = 0
  /\ \A i \in 1..(Len(cps) - 1) : cps[i].unpacked <= cps[i + 1].unpacked
=============================================================================

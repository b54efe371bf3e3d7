--------------------------- MODULE ArchiveListing ---------------------------
(***************************************************************************)
(* What listing an archive promises: every entry listed is one the archive *)
(* holds, none is listed twice, success means that all that is due was     *)
(* listed and the archive ends where an archive may, and it fails only for *)
(* an archive that does not.  After a failure it may be asked again.       *)
(***************************************************************************)
EXTENDS Integers, Sequences

VARIABLES
  holds,          \* the entries the archive holds
  due,            \* those of them that must have been listed in the end
  whole,          \* the archive ends where one may
  listed,         \* the entries listed, in order
  status

vars == <<holds, due, whole, listed, status>>

AllListed == {listed[i] : i \in 1..Len(listed)}

Init ==
  /\ whole \in BOOLEAN
  /\ listed = <<>>
  /\ status = "listing"

List ==
  /\ status = "listing"
  /\ \E e \in holds \ AllListed : listed' = Append(listed, e)
  /\ UNCHANGED <<holds, due, whole, status>>

Succeed ==
  /\ status = "listing"
  /\ whole /\ due \subseteq AllListed
  /\ status' = "done"
  /\ UNCHANGED <<holds, due, whole, listed>>

Fail ==
  /\ status = "listing"
  /\ ~ whole
  /\ status' = "failed"
  /\ UNCHANGED <<holds, due, whole, listed>>

Retry ==
  /\ status = "failed"
  /\ status' = "listing"
  /\ UNCHANGED <<holds, due, whole, listed>>

Next == List \/ Succeed \/ Fail \/ Retry

Spec == Init /\ [][Next]_vars
=============================================================================

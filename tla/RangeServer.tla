---------------------------- MODULE RangeServer ----------------------------
(***************************************************************************)
(* What a reader of unpacked ranges promises its caller.  It owes the      *)
(* bytes from `next' up to `limit', serves them in order and never serves  *)
(* another, says it is done only when it owes nothing or the stream holds  *)
(* no more, and can be pointed at any range past the bytes it has served.  *)
(* It may fail, but a failure serves nothing.                              *)
(***************************************************************************)
EXTENDS Integers

CONSTANT Total            \* unpacked bytes the stream really holds, a natural number

VARIABLES
  next, limit,    \* the bytes it owes: from `next', before `limit'
  served,         \* the end of the last bytes it served
  status

vars == <<next, limit, served, status>>

Init ==
  /\ next \in Nat /\ limit \in Nat /\ next <= limit
  /\ served = 0
  /\ status = "serving"

Serve ==
  /\ status = "serving"
  /\ \E n \in (next + 1)..limit : next' = n
  /\ next' <= Total /\ served' = next'
  /\ UNCHANGED <<limit, status>>

Complete ==
  /\ status = "serving"
  /\ next = limit \/ next >= Total
  /\ status' = "done"
  /\ UNCHANGED <<next, limit, served>>

Fail ==
  /\ status = "serving"
  /\ status' = "failed"
  /\ UNCHANGED <<next, limit, served>>

Retarget ==
  /\ next' \in Nat /\ limit' \in Nat
  /\ served <= next' /\ next' <= limit'
  /\ status' = "serving"
  /\ UNCHANGED served

Next == Serve \/ Complete \/ Fail \/ Retarget

Spec == Init /\ [][Next]_vars
=============================================================================

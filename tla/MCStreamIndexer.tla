-------------------------- MODULE MCStreamIndexer --------------------------
(***************************************************************************)
(* Small streams, strategies and files for StreamIndexer.                  *)
(***************************************************************************)
EXTENDS StreamIndexer

\* Bursts: a header that decodes to nothing, then 2, then 3 bytes; and a
\* stream that decodes evenly, long enough for the table to be thinned again.
MCBursts == [p \in 0..3 |-> <<0, 0, 2, 5>>[p + 1]]
MCLong   == [p \in 0..3 |-> 3 * p]

MCFixed    == {FixedInterval(1), FixedInterval(2)}
MCThinning == {ThinningBudget(2, 1), ThinningBudget(3, 1)}
MCStrategies == MCThinning \cup {Budget(2, 2), BudgetRatio(<<2, 3>>)}
=============================================================================

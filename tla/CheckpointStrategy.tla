------------------------ MODULE CheckpointStrategy ------------------------
(***************************************************************************)
(* When to lay a checkpoint and when to thin the table                     *)
(* (src/engine/checkpoint_strategy.rs).  A strategy is a record            *)
(*                                                                         *)
(*   [kind, interval, budget, min, ratio, started]                         *)
(*                                                                         *)
(* and its questions are operators on it and on the context the indexer    *)
(* passes: [unpacked, packed, last, count, bytes, size], size 0 being an   *)
(* unknown compressed length.  The code computes in f64; here the same     *)
(* quotients are taken in exact rationals, cleared of their denominators.  *)
(***************************************************************************)
EXTENDS Integers

CONSTANTS
  RatioFloor,     \* least budget BudgetRatio works with (1024 bytes)
  RatioFallback,  \* BudgetRatio's interval when the size is unknown
  FirstInterval,  \* Budget's interval before the first checkpoint
  RatioMin        \* the minimum interval of the Budget inside BudgetRatio

ASSUME StrategyAssumption ==
  /\ RatioFloor \in Nat /\ RatioFallback \in Nat
  /\ FirstInterval \in Nat /\ RatioMin \in Nat

Kinds == {"FixedInterval", "Budget", "BudgetRatio", "ThinningBudget"}

FixedInterval(interval) ==
  [kind |-> "FixedInterval", interval |-> interval, budget |-> 0,
   min |-> 0, ratio |-> <<0, 1>>, started |-> FALSE]

Budget(budget, min) ==
  [kind |-> "Budget", interval |-> FirstInterval, budget |-> budget,
   min |-> min, ratio |-> <<0, 1>>, started |-> FALSE]

\* ratio is the fraction <<numerator, denominator>>.
BudgetRatio(ratio) ==
  [kind |-> "BudgetRatio", interval |-> FirstInterval, budget |-> 0,
   min |-> RatioMin, ratio |-> ratio, started |-> FALSE]

ThinningBudget(budget, min) ==
  [kind |-> "ThinningBudget", interval |-> IF min > 1 THEN min ELSE 1,
   budget |-> budget, min |-> min, ratio |-> <<0, 1>>, started |-> FALSE]

Strategy ==
  [kind : Kinds, interval : Nat, budget : Nat, min : Nat,
   ratio : Nat \X (Nat \ {0}), started : BOOLEAN]

\* The strategies there are before their first question: what `new' and
\* `with_min_interval' make.
IsNew(s) ==
  /\ s \in Strategy
  /\ s \in {FixedInterval(s.interval), Budget(s.budget, s.min),
            BudgetRatio(s.ratio), ThinningBudget(s.budget, s.min)}

-----------------------------------------------------------------------------

(***************************************************************************)
(* ThinningBudget::start: on the first question of an indexer that already *)
(* has more than the offset-0 checkpoint, double the interval until it is  *)
(* within a factor sqrt(2) of the mean spacing, last / (count - 1):        *)
(* interval * sqrt(2) < last / (count - 1), squared.                       *)
(***************************************************************************)
TooFine(interval, ctx) ==
  2 * interval * interval * (ctx.count - 1) * (ctx.count - 1) < ctx.last * ctx.last

ResumedInterval(interval, ctx) ==
  LET doublings == CHOOSE k \in 0..ctx.last :
                     /\ ~ TooFine(interval * 2^k, ctx)
                     /\ \A j \in 0..(k - 1) : TooFine(interval * 2^j, ctx)
  IN  interval * 2^doublings

\* What the first question of a strategy changes in it.
Started(s, ctx) ==
  IF s.started THEN s
  ELSE CASE s.kind = "ThinningBudget" ->
              [s EXCEPT !.started = TRUE,
                        !.interval = IF ctx.count < 2 THEN @
                                     ELSE ResumedInterval(@, ctx)]
         [] s.kind = "BudgetRatio" /\ ctx.size > 0 ->
              [s EXCEPT !.started = TRUE,
                        !.budget = LET share == (ctx.size * s.ratio[1]) \div s.ratio[2]
                                   IN  IF share > RatioFloor THEN share ELSE RatioFloor]
         [] s.kind = "BudgetRatio" /\ ctx.size = 0 ->
              [s EXCEPT !.started = TRUE]
         [] OTHER -> s

\* Mutation: a spent budget does not stop it.
CheckpointUnbudgeted(s, ctx) == ctx.unpacked - ctx.last >= s.interval

\* should_checkpoint, of a strategy that has been Started.
ShouldCheckpoint(s, ctx) ==
  LET since == ctx.unpacked - ctx.last
  IN  CASE s.kind \in {"FixedInterval", "ThinningBudget"} -> since >= s.interval
        [] s.kind = "BudgetRatio" /\ ctx.size = 0 -> since >= RatioFallback
        [] OTHER -> /\ ctx.bytes < s.budget
                    /\ since >= s.interval

(***************************************************************************)
(* on_checkpoint_created: Budget spreads what is left of the budget over   *)
(* what the compression ratio so far says is left of the stream.           *)
(***************************************************************************)
AfterCheckpoint(s, ctx) ==
  LET real      == ctx.count - 1
      left      == IF s.budget > ctx.bytes THEN s.budget - ctx.bytes ELSE 0
      tail      == (ctx.size - ctx.packed) * ctx.unpacked
      optimal   == (tail * ctx.bytes) \div (ctx.packed * real * left)
  IN  IF /\ s.kind \in {"Budget", "BudgetRatio"}
         /\ real > 0 /\ ctx.packed > 0 /\ ctx.size > 0 /\ ctx.bytes > 0
         /\ left > 0 /\ tail > 0
        THEN [s EXCEPT !.interval = IF optimal > s.min THEN optimal ELSE s.min]
        ELSE s

\* should_thin, and what asking it changes: the interval doubles with every yes.
ShouldThin(s, ctx) == s.kind = "ThinningBudget" /\ ctx.bytes > s.budget

\* Mutation: the interval does not double.
AfterThinUnchanged(s, ctx) == IF s.kind = "ThinningBudget" THEN Started(s, ctx) ELSE s

AfterThinAsked(s, ctx) ==
  IF ShouldThin(s, ctx)
    THEN [Started(s, ctx) EXCEPT !.interval = 2 * @]
    ELSE IF s.kind = "ThinningBudget" THEN Started(s, ctx) ELSE s
=============================================================================

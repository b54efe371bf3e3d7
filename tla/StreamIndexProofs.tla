------------------------- MODULE StreamIndexProofs -------------------------
(***************************************************************************)
(* Lemmas on the checkpoint table's operators, for tables of any length.   *)
(***************************************************************************)
EXTENDS StreamIndex, SequenceTheorems, WellFoundedInduction, TLAPS

(***************************************************************************)
(* Every non-empty set of naturals has a least member (the principle that  *)
(* partition_point's answer exists by).                                    *)
(***************************************************************************)
LEMMA LeastMember ==
  ASSUME NEW T, T \subseteq Nat, T # {}
  PROVE  \E m \in T : \A k \in T : m <= k
<1> DEFINE Less == OpToRel(<, Nat)
<1>1. IsWellFoundedOn(Less, Nat)
  BY NatLessThanWellFounded
<1>2. PICK m \in T : \A k \in T : ~ (<<k, m>> \in Less)
  <2> HIDE DEF Less
  <2> QED BY <1>1, WFMin
<1>3. \A k \in T : ~ (k < m)
  BY <1>2 DEF OpToRel
<1> QED
  BY <1>3

(***************************************************************************)
(* best_checkpoint_for_offset gives a place in the table, and the          *)
(* checkpoint there is not past the offset, so that a reader started from  *)
(* it only has to decode forward.                                          *)
(***************************************************************************)
LEMMA BestCheckpointUsable ==
  ASSUME NEW cps \in Seq(Checkpoint), cps # <<>>, cps[1].unpacked = 0,
         NEW offset \in Nat
  PROVE  /\ BestCheckpoint(cps, offset) \in 1..Len(cps)
         /\ cps[BestCheckpoint(cps, offset)].unpacked <= offset
<1> DEFINE Prefix(n) == /\ \A i \in 1..n : cps[i].unpacked <= offset
                        /\ n < Len(cps) => cps[n + 1].unpacked > offset
           Past == {i \in 1..Len(cps) : cps[i].unpacked > offset}
<1>1. Len(cps) \in Nat \ {0} /\ \A i \in 1..Len(cps) : cps[i].unpacked \in Nat
  <2>1. Len(cps) \in Nat /\ \A i \in 1..Len(cps) : cps[i] \in Checkpoint
    OBVIOUS
  <2>2. Len(cps) # 0
    BY EmptySeq
  <2> QED BY <2>1, <2>2 DEF Checkpoint
<1>2. \E n \in 0..Len(cps) : Prefix(n)
  <2>1. CASE Past = {}
    <3>1. Prefix(Len(cps))
      BY <1>1, <2>1
    <3> QED BY <1>1, <3>1
  <2>2. CASE Past # {}
    <3>1. PICK m \in Past : \A k \in Past : m <= k
      <4>1. Past \subseteq Nat
        OBVIOUS
      <4> HIDE DEF Past
      <4> QED BY <2>2, <4>1, LeastMember
    <3>2. m - 1 \in 0..Len(cps) /\ (m - 1) + 1 = m
      BY <1>1, <3>1
    <3>3. Prefix(m - 1)
      BY <1>1, <3>1, <3>2
    <3> QED BY <3>2, <3>3
  <2> QED BY <2>1, <2>2
<1> DEFINE prefix == CHOOSE n \in 0..Len(cps) : Prefix(n)
<1>3. prefix \in 0..Len(cps) /\ Prefix(prefix)
  BY <1>2
<1>4. BestCheckpoint(cps, offset) = IF prefix = 0 THEN 1 ELSE prefix
  BY DEF BestCheckpoint
<1> HIDE DEF prefix
<1>5. CASE prefix = 0
  BY <1>1, <1>4, <1>5
<1>6. CASE prefix # 0
  BY <1>1, <1>3, <1>4, <1>6
<1> QED
  BY <1>5, <1>6

-----------------------------------------------------------------------------

(***************************************************************************)
(* The length thin() leaves: shorter, and half of it rounded up at least.  *)
(***************************************************************************)
LEMMA ThinnedLenBounds ==
  ASSUME NEW n \in Nat, n > 1
  PROVE  /\ ThinnedLen(n) \in 1..(n - 1)
         /\ n # 2 => /\ ThinnedLen(n) > 1
                     /\ 2 * (ThinnedLen(n) - 1) \in {n, n - 1}
<1>1. n \div 2 \in Nat /\ (n = 2 * (n \div 2) \/ n = 2 * (n \div 2) + 1)
  OBVIOUS
<1>2. CASE n = 2
  BY <1>2 DEF ThinnedLen
<1>3. CASE n # 2
  <2>1. ThinnedLen(n) = (n \div 2) + 1
    BY <1>3 DEF ThinnedLen
  <2> QED BY <1>1, <1>3, <2>1
<1> QED
  BY <1>2, <1>3

\* The place in the table that thin() keeps as its j-th.
KeptPlace(cps, j) ==
  IF Len(cps) # 2 /\ j = ThinnedLen(Len(cps)) THEN Len(cps) ELSE 2 * j - 1

(***************************************************************************)
(* thin() picks places of the table, in order, beginning with the start.   *)
(***************************************************************************)
LEMMA ThinnedPlaces ==
  ASSUME NEW cps \in Seq(Checkpoint), Len(cps) > 1
  PROVE  /\ Thinned(cps) \in Seq(Checkpoint)
         /\ Len(Thinned(cps)) = ThinnedLen(Len(cps))
         /\ ThinnedLen(Len(cps)) \in 1..(Len(cps) - 1)
         /\ \A j \in 1..ThinnedLen(Len(cps)) :
              /\ KeptPlace(cps, j) \in 1..Len(cps)
              /\ Thinned(cps)[j] = cps[KeptPlace(cps, j)]
         /\ \A j \in 1..(ThinnedLen(Len(cps)) - 1) :
              KeptPlace(cps, j) < KeptPlace(cps, j + 1)
         /\ KeptPlace(cps, 1) = 1
         /\ Len(cps) # 2 => KeptPlace(cps, ThinnedLen(Len(cps))) = Len(cps)
<1> DEFINE n == Len(cps)
           L == ThinnedLen(Len(cps))
<1>1. n \in Nat /\ n > 1 /\ \A i \in 1..n : cps[i] \in Checkpoint
  OBVIOUS
<1>2. L \in 1..(n - 1) /\ (n # 2 => L > 1 /\ 2 * (L - 1) \in {n, n - 1})
  BY <1>1, ThinnedLenBounds
<1>3. \A j \in 1..L : KeptPlace(cps, j) \in 1..n
  BY <1>1, <1>2 DEF KeptPlace
<1>4. \A j \in 1..(L - 1) : KeptPlace(cps, j) < KeptPlace(cps, j + 1)
  BY <1>1, <1>2 DEF KeptPlace
<1>5. KeptPlace(cps, 1) = 1 /\ (n # 2 => KeptPlace(cps, L) = n)
  BY <1>1, <1>2 DEF KeptPlace
<1>6. Thinned(cps) = [j \in 1..L |-> cps[KeptPlace(cps, j)]]
  <2>1. \A j \in 1..L :
           (IF n # 2 /\ j = L THEN LastCheckpoint(cps) ELSE cps[2 * j - 1])
             = cps[KeptPlace(cps, j)]
    BY DEF KeptPlace, LastCheckpoint
  <2> QED BY <2>1 DEF Thinned
<1>7. Thinned(cps) \in Seq(Checkpoint) /\ Len(Thinned(cps)) = L
  <2>1. Thinned(cps) \in [1..L -> Checkpoint]
    BY <1>1, <1>3, <1>6
  <2> QED BY <1>2, <2>1
<1> QED
  BY <1>2, <1>3, <1>4, <1>5, <1>6, <1>7

(***************************************************************************)
(* Of two neighbours in a table of three or more, thin() keeps one: the    *)
(* widest gap at most doubles.                                             *)
(***************************************************************************)
LEMMA ThinnedKeepsNeighbours ==
  ASSUME NEW cps \in Seq(Checkpoint), Len(cps) > 2,
         NEW i \in 1..(Len(cps) - 1)
  PROVE  \E j \in 1..Len(Thinned(cps)) : Thinned(cps)[j] \in {cps[i], cps[i + 1]}
<1> DEFINE n == Len(cps)
           L == ThinnedLen(n)
<1>1. n \in Nat /\ i \in Nat /\ L \in Nat /\ L > 1 /\ 2 * (L - 1) \in {n, n - 1}
  <2>1. n \in Nat /\ n > 2 /\ i \in Nat
    OBVIOUS
  <2> HIDE DEF n
  <2> QED BY <2>1, ThinnedLenBounds
<1>2. \A j \in 1..L : Thinned(cps)[j] = cps[KeptPlace(cps, j)]
  BY ThinnedPlaces
<1>3. \E j \in 1..L : KeptPlace(cps, j) \in {i, i + 1}
  <2>1. CASE i % 2 = 1
    <3>1. /\ (i + 1) \div 2 \in 1..L
          /\ 2 * ((i + 1) \div 2) - 1 = i
          /\ (i + 1) \div 2 = L => i + 1 = n
      BY <1>1, <2>1
    <3> QED BY <1>1, <3>1 DEF KeptPlace
  <2>2. CASE i % 2 # 1
    <3>1. /\ i \div 2 + 1 \in 1..L
          /\ 2 * (i \div 2 + 1) - 1 = i + 1
          /\ i \div 2 + 1 = L => i + 1 = n
      BY <1>1, <2>2
    <3> QED BY <1>1, <3>1 DEF KeptPlace
  <2> QED BY <2>1, <2>2
<1>4. Len(Thinned(cps)) = L
  BY ThinnedPlaces
<1> QED
  BY <1>2, <1>3, <1>4

-----------------------------------------------------------------------------
(***************************************************************************)
(* checkpoint_data_bytes: the fold over the table is the last of its       *)
(* running sums.                                                           *)
(***************************************************************************)

\* Induction over the naturals, on the set where a fact holds.
LEMMA SetInduction ==
  ASSUME NEW T, 0 \in T, \A n \in Nat : n \in T => n + 1 \in T
  PROVE  \A n \in Nat : n \in T
<1> SUFFICES ASSUME NEW k \in Nat, k \notin T PROVE FALSE
  OBVIOUS
<1> DEFINE Out == {n \in Nat : n \notin T}
<1>1. PICK m \in Out : \A n \in Out : m <= n
  <2>1. Out \subseteq Nat /\ Out # {}
    OBVIOUS
  <2> HIDE DEF Out
  <2> QED BY <2>1, LeastMember
<1>2. m - 1 \in Nat /\ m - 1 \notin Out
  BY <1>1
<1> QED
  BY <1>1, <1>2

\* sum[i] is what the first i checkpoints weigh.
RunningSums(cps, sum) ==
  /\ sum \in [0..Len(cps) -> Nat] /\ sum[0] = 0
  /\ \A i \in 1..Len(cps) : sum[i] = sum[i - 1] + cps[i].size

\* The recursion of the fold, over the sets of places of the table.
FoldStep(cps, f, s) == IF s = {} THEN 0 ELSE f[s \ {Max(s)}] + cps[Max(s)].size

\* DataBytes is a fold: a recursive function's value at the whole table.
LEMMA DataBytesUnfolds ==
  ASSUME NEW cps
  PROVE  DataBytes(cps) =
           (CHOOSE f : f = [s \in SUBSET DOMAIN cps |-> FoldStep(cps, f, s)])[DOMAIN cps]
BY DEF DataBytes, FoldLeft, MapThenFoldSet, FoldStep

\* The last of a growing sequence of checkpoints is its largest position.
LEMMA MaxIsLast ==
  ASSUME NEW n \in Nat, NEW s \in SUBSET (1..n), n \in s
  PROVE  Max(s) = n
<1>1. \A y \in s : n >= y
  OBVIOUS
<1>2. \A x \in s : (\A y \in s : x >= y) => x = n
  OBVIOUS
<1> QED
  BY <1>1, <1>2 DEF Max

\* The recursion has a solution, built up one place at a time.
LEMMA FoldExists ==
  ASSUME NEW cps \in Seq(Checkpoint)
  PROVE  \E f \in [SUBSET (1..Len(cps)) -> Nat] :
           \A s \in SUBSET (1..Len(cps)) : f[s] = FoldStep(cps, f, s)
<1> DEFINE n == Len(cps)
           Solves(k, f) == /\ f \in [SUBSET (1..k) -> Nat]
                           /\ \A s \in SUBSET (1..k) : f[s] = FoldStep(cps, f, s)
           Solvable(k) == k <= n => \E f : Solves(k, f)
           T == {k \in Nat : Solvable(k)}
<1>1. n \in Nat /\ \A i \in 1..n : cps[i].size \in Nat
  <2>1. n \in Nat /\ \A i \in 1..n : cps[i] \in Checkpoint
    OBVIOUS
  <2> QED BY <2>1 DEF Checkpoint
<1>2. 0 \in T
  <2> DEFINE f == [s \in SUBSET (1..0) |-> 0]
  <2>1. \A s \in SUBSET (1..0) : s = {}
    OBVIOUS
  <2>2. Solves(0, f)
    BY <2>1 DEF FoldStep
  <2> HIDE DEF Solves, f
  <2> QED BY <2>2
<1>3. ASSUME NEW k \in Nat, k \in T PROVE k + 1 \in T
  <2> SUFFICES ASSUME k + 1 <= n PROVE \E g : Solves(k + 1, g)
    <3> HIDE DEF Solves, n
    <3> QED OBVIOUS
  <2>1. PICK f : Solves(k, f)
    <3>1. Solvable(k)
      BY <1>3
    <3>2. k <= n
      BY <1>1
    <3> HIDE DEF Solves, n
    <3> QED BY <3>1, <3>2
  <2>2. k + 1 \in Nat /\ k + 1 \in 1..n /\ cps[k + 1].size \in Nat
    BY <1>1
  <2>3. \A s \in SUBSET (1..(k + 1)) :
          /\ k + 1 \notin s => s \in SUBSET (1..k)
          /\ s \ {k + 1} \in SUBSET (1..k)
    OBVIOUS
  <2> DEFINE g == [s \in SUBSET (1..(k + 1)) |->
                     IF k + 1 \in s THEN f[s \ {k + 1}] + cps[k + 1].size ELSE f[s]]
  <2>4. g \in [SUBSET (1..(k + 1)) -> Nat]
    BY <2>1, <2>2, <2>3
  <2>5. ASSUME NEW s \in SUBSET (1..(k + 1)) PROVE g[s] = FoldStep(cps, g, s)
    <3>1. CASE k + 1 \in s
      <4>1. Max(s) = k + 1 /\ s # {}
        BY <2>2, <3>1, MaxIsLast
      <4>2. s \ {k + 1} \in SUBSET (1..(k + 1)) /\ k + 1 \notin s \ {k + 1}
        OBVIOUS
      <4>3. g[s \ {k + 1}] = f[s \ {k + 1}]
        BY <4>2
      <4>4. g[s] = f[s \ {k + 1}] + cps[k + 1].size
        BY <3>1
      <4> QED BY <4>1, <4>3, <4>4 DEF FoldStep
    <3>2. CASE k + 1 \notin s
      <4>1. s \in SUBSET (1..k) /\ s \ {Max(s)} \in SUBSET (1..(k + 1))
            /\ k + 1 \notin s \ {Max(s)}
        BY <2>3, <3>2
      <4>2. g[s] = f[s] /\ g[s \ {Max(s)}] = f[s \ {Max(s)}]
        BY <3>2, <4>1
      <4>3. f[s] = FoldStep(cps, f, s)
        BY <2>1, <4>1
      <4> HIDE DEF g
      <4> QED BY <4>2, <4>3 DEF FoldStep
    <3> QED BY <3>1, <3>2
  <2> HIDE DEF g
  <2> QED BY <2>4, <2>5
<1>4. n \in T
  <2> HIDE DEF T
  <2> QED BY <1>1, <1>2, <1>3, SetInduction
<1>5. PICK f : Solves(n, f)
  <2>0. Solvable(n)
    <3> HIDE DEF Solvable, n
    <3> QED BY <1>4
  <2>1. n <= n
    BY <1>1
  <2> HIDE DEF Solves, n
  <2> QED BY <2>0, <2>1
<1> QED
  BY <1>5

\* The total is the last of the running sums of the sizes.
LEMMA DataBytesSums ==
  ASSUME NEW cps \in Seq(Checkpoint)
  PROVE  \E sum : RunningSums(cps, sum) /\ DataBytes(cps) = sum[Len(cps)]
<1> DEFINE n == Len(cps)
           f == CHOOSE f : f = [s \in SUBSET DOMAIN cps |-> FoldStep(cps, f, s)]
<1>1. n \in Nat /\ DOMAIN cps = 1..n
  OBVIOUS
<1>2. PICK g \in [SUBSET (1..n) -> Nat] : \A s \in SUBSET (1..n) : g[s] = FoldStep(cps, g, s)
  BY FoldExists
<1>3. f = [s \in SUBSET (1..n) |-> FoldStep(cps, f, s)]
  <2>1. g = [s \in SUBSET (1..n) |-> g[s]]
    OBVIOUS
  <2>2. g = [s \in SUBSET (1..n) |-> FoldStep(cps, g, s)]
    BY <1>2, <2>1
  <2> QED BY <1>1, <2>2
<1>4. DataBytes(cps) = f[1..n]
  BY <1>1, DataBytesUnfolds
<1> HIDE DEF f
<1> DEFINE sum == [k \in 0..n |-> f[1..k]]
<1>5. \A k \in 0..n : (1..k) \in SUBSET (1..n)
  BY <1>1
<1>6. f[1..0] = 0
  <2>1. 1..0 = {}
    OBVIOUS
  <2> QED BY <1>3, <2>1 DEF FoldStep
<1>7. \A k \in 1..n : f[1..k] = f[1..(k - 1)] + cps[k].size
  <2> TAKE k \in 1..n
  <2>1. k \in Nat /\ k \in 1..k /\ 1..k # {} /\ (1..k) \in SUBSET (1..k)
    OBVIOUS
  <2>2. Max(1..k) = k
    BY <2>1, MaxIsLast
  <2>3. (1..k) \ {k} = 1..(k - 1)
    OBVIOUS
  <2>4. f[1..k] = FoldStep(cps, f, 1..k)
    BY <1>1, <1>3, <1>5
  <2> QED BY <2>1, <2>2, <2>3, <2>4 DEF FoldStep
<1>8. \A i \in 1..n : cps[i].size \in Nat
  <2>1. \A i \in 1..n : cps[i] \in Checkpoint
    OBVIOUS
  <2> QED BY <2>1 DEF Checkpoint
<1>9. \A k \in Nat : k <= n => f[1..k] \in Nat
  <2> DEFINE T == {k \in Nat : k <= n => f[1..k] \in Nat}
  <2>1. 0 \in T
    BY <1>6
  <2>2. ASSUME NEW k \in Nat, k \in T PROVE k + 1 \in T
    <3> SUFFICES ASSUME k + 1 <= n PROVE f[1..(k + 1)] \in Nat
      OBVIOUS
    <3>1. k + 1 \in 1..n /\ (k + 1) - 1 = k /\ f[1..k] \in Nat
      BY <1>1, <2>2
    <3>2. f[1..(k + 1)] = f[1..k] + cps[k + 1].size
      BY <1>7, <3>1
    <3> QED BY <1>8, <3>1, <3>2
  <2>3. \A k \in Nat : k \in T
    <3> HIDE DEF T
    <3> QED BY <2>1, <2>2, SetInduction
  <2> QED BY <2>3
<1>10. sum \in [0..n -> Nat] /\ sum[0] = 0 /\ sum[n] = f[1..n]
  BY <1>1, <1>6, <1>9
<1>11. \A i \in 1..n : sum[i] = sum[i - 1] + cps[i].size
  BY <1>1, <1>7
<1> QED
  BY <1>4, <1>10, <1>11 DEF RunningSums

\* An empty table weighs nothing, and every table a natural number of bytes.
LEMMA DataBytesType ==
  ASSUME NEW cps \in Seq(Checkpoint)
  PROVE  DataBytes(cps) \in Nat
<1>1. PICK sum : RunningSums(cps, sum) /\ DataBytes(cps) = sum[Len(cps)]
  BY DataBytesSums
<1>2. Len(cps) \in 0..Len(cps)
  OBVIOUS
<1> QED
  BY <1>1, <1>2 DEF RunningSums

\* A table of one checkpoint holds the data of that checkpoint alone.
LEMMA DataBytesOfOne ==
  ASSUME NEW cps \in Seq(Checkpoint), Len(cps) = 1
  PROVE  DataBytes(cps) = cps[1].size
<1>1. PICK sum : RunningSums(cps, sum) /\ DataBytes(cps) = sum[Len(cps)]
  BY DataBytesSums
<1>2. sum[1] = sum[0] + cps[1].size /\ sum[0] = 0
  BY <1>1 DEF RunningSums
<1>3. cps[1].size \in Nat
  <2>1. cps[1] \in Checkpoint
    OBVIOUS
  <2> QED BY <2>1 DEF Checkpoint
<1> QED
  BY <1>1, <1>2, <1>3

\* Two tables that agree on their first k places weigh the same there.
LEMMA SumsAgree ==
  ASSUME NEW cps \in Seq(Checkpoint), NEW other \in Seq(Checkpoint),
         NEW sum, RunningSums(cps, sum), NEW acc, RunningSums(other, acc),
         Len(cps) <= Len(other), \A i \in 1..Len(cps) : other[i] = cps[i]
  PROVE  \A k \in 0..Len(cps) : sum[k] = acc[k]
<1> DEFINE n == Len(cps)
           T == {k \in Nat : k <= n => sum[k] = acc[k]}
<1>1. n \in Nat /\ Len(other) \in Nat
  OBVIOUS
<1>2. 0 \in T
  BY DEF RunningSums
<1>3. ASSUME NEW k \in Nat, k \in T PROVE k + 1 \in T
  <2> SUFFICES ASSUME k + 1 <= n PROVE sum[k + 1] = acc[k + 1]
    OBVIOUS
  <2>1. k + 1 \in 1..n /\ k + 1 \in 1..Len(other) /\ (k + 1) - 1 = k /\ sum[k] = acc[k]
    BY <1>1, <1>3
  <2>2. sum[k + 1] = sum[k] + cps[k + 1].size
    BY <2>1 DEF RunningSums
  <2>3. acc[k + 1] = acc[k] + other[k + 1].size
    BY <2>1 DEF RunningSums
  <2> QED BY <2>1, <2>2, <2>3
<1>4. \A k \in Nat : k \in T
  <2> HIDE DEF T
  <2> QED BY <1>2, <1>3, SetInduction
<1> QED
  BY <1>1, <1>4

(***************************************************************************)
(* Laying a checkpoint adds its size to the total (what try_checkpoint's   *)
(* running total relies on).                                               *)
(***************************************************************************)
LEMMA DataBytesAppended ==
  ASSUME NEW cps \in Seq(Checkpoint), NEW cp \in Checkpoint
  PROVE  DataBytes(Append(cps, cp)) = DataBytes(cps) + cp.size
<1> DEFINE new == Append(cps, cp)
           n == Len(cps)
<1>1. /\ n \in Nat /\ new \in Seq(Checkpoint) /\ Len(new) = n + 1 /\ new[n + 1] = cp
      /\ \A i \in 1..n : new[i] = cps[i]
  OBVIOUS
<1> HIDE DEF new
<1>2. PICK sum : RunningSums(cps, sum) /\ DataBytes(cps) = sum[n]
  BY DataBytesSums
<1>3. PICK acc : RunningSums(new, acc) /\ DataBytes(new) = acc[n + 1]
  BY <1>1, DataBytesSums
<1>4. sum[n] = acc[n]
  <2>1. n <= Len(new) /\ n \in 0..n
    BY <1>1
  <2>2. \A k \in 0..n : sum[k] = acc[k]
    BY <1>1, <1>2, <1>3, <2>1, SumsAgree
  <2> QED BY <2>1, <2>2
<1>5. acc[n + 1] = acc[n] + cp.size
  <2>1. n + 1 \in 1..Len(new) /\ (n + 1) - 1 = n
    BY <1>1
  <2>2. acc[n + 1] = acc[(n + 1) - 1] + new[n + 1].size
    BY <1>3, <2>1 DEF RunningSums
  <2> QED BY <1>1, <2>1, <2>2
<1> QED
  BY <1>2, <1>3, <1>4, <1>5 DEF new

\* Running sums do not fall.
LEMMA SumsGrow ==
  ASSUME NEW cps \in Seq(Checkpoint), NEW sum, RunningSums(cps, sum)
  PROVE  \A i, j \in 0..Len(cps) : i <= j => sum[i] <= sum[j]
<1> DEFINE n == Len(cps)
           T == {j \in Nat : j <= n => \A i \in 0..j : sum[i] <= sum[j]}
<1>1. n \in Nat /\ \A i \in 1..n : cps[i].size \in Nat
  <2>1. n \in Nat /\ \A i \in 1..n : cps[i] \in Checkpoint
    OBVIOUS
  <2> QED BY <2>1 DEF Checkpoint
<1>2. /\ \A i \in 0..n : sum[i] \in Nat
      /\ \A i \in 1..n : sum[i] = sum[i - 1] + cps[i].size
  BY DEF RunningSums
<1>3. 0 \in T
  BY <1>1, <1>2
<1>4. ASSUME NEW j \in Nat, j \in T PROVE j + 1 \in T
  <2> SUFFICES ASSUME j + 1 <= n, NEW i \in 0..(j + 1) PROVE sum[i] <= sum[j + 1]
    OBVIOUS
  <2>1. /\ j + 1 \in 1..n /\ (j + 1) - 1 = j /\ j \in 0..n /\ i \in 0..n
        /\ \A k \in 0..j : sum[k] <= sum[j]
    BY <1>1, <1>4
  <2>2. sum[j + 1] = sum[j] + cps[j + 1].size /\ cps[j + 1].size \in Nat
    BY <1>1, <1>2, <2>1
  <2>3. sum[i] \in Nat /\ sum[j] \in Nat /\ sum[j + 1] \in Nat
    BY <1>2, <2>1
  <2>4. CASE i = j + 1
    BY <2>3, <2>4
  <2>5. CASE i \in 0..j
    BY <2>1, <2>2, <2>3, <2>5
  <2> QED BY <2>4, <2>5
<1>5. \A j \in Nat : j \in T
  <2> HIDE DEF T
  <2> QED BY <1>3, <1>4, SetInduction
<1> QED
  BY <1>1, <1>5

(***************************************************************************)
(* thin() never makes a table heavier.                                     *)
(***************************************************************************)
LEMMA DataBytesThinned ==
  ASSUME NEW cps \in Seq(Checkpoint), Len(cps) > 1
  PROVE  DataBytes(Thinned(cps)) <= DataBytes(cps)
<1> DEFINE new == Thinned(cps)
           n == Len(cps)
           L == ThinnedLen(n)
           Place(j) == KeptPlace(cps, j)
<1>1. /\ new \in Seq(Checkpoint) /\ Len(new) = L /\ L \in 1..(n - 1) /\ n \in Nat
      /\ \A j \in 1..L : Place(j) \in 1..n /\ new[j] = cps[Place(j)]
      /\ \A j \in 1..(L - 1) : Place(j) < Place(j + 1)
  BY ThinnedPlaces
<1>2. PICK sum : RunningSums(cps, sum) /\ DataBytes(cps) = sum[n]
  BY DataBytesSums
<1> HIDE DEF new, n, L, Place
<1>3. PICK acc : RunningSums(new, acc) /\ DataBytes(new) = acc[L]
  BY <1>1, DataBytesSums
<1>4. \A i, j \in 0..n : i <= j => sum[i] <= sum[j]
  BY <1>2, SumsGrow DEF n
<1>5. /\ \A i \in 0..n : sum[i] \in Nat
      /\ \A i \in 1..n : sum[i] = sum[i - 1] + cps[i].size
      /\ \A j \in 0..L : acc[j] \in Nat
      /\ acc[0] = 0
      /\ \A j \in 1..L : acc[j] = acc[j - 1] + cps[Place(j)].size
  BY <1>1, <1>2, <1>3 DEF RunningSums, n
<1>6. \A i \in 1..n : cps[i].size \in Nat
  <2>1. \A i \in 1..n : cps[i] \in Checkpoint
    BY DEF n
  <2> QED BY <2>1 DEF Checkpoint
<1> DEFINE T == {j \in Nat : j \in 1..L => acc[j] <= sum[Place(j)]}
<1>7. 0 \in T
  OBVIOUS
<1>8. ASSUME NEW j \in Nat, j \in T PROVE j + 1 \in T
  <2> SUFFICES ASSUME j + 1 \in 1..L PROVE acc[j + 1] <= sum[Place(j + 1)]
    OBVIOUS
  <2> DEFINE q == Place(j + 1)
  <2>1. q \in 1..n /\ q - 1 \in 0..n /\ (j + 1) - 1 = j /\ j \in 0..L
    BY <1>1
  <2>2. acc[j + 1] = acc[j] + cps[q].size /\ sum[q] = sum[q - 1] + cps[q].size
    BY <1>5, <2>1
  <2>3. /\ acc[j] \in Nat /\ sum[q] \in Nat /\ sum[q - 1] \in Nat /\ cps[q].size \in Nat
    BY <1>5, <1>6, <2>1
  <2>4. acc[j] <= sum[q - 1]
    <3>1. CASE j = 0
      BY <1>5, <2>3, <3>1
    <3>2. CASE j # 0
      <4>1. j \in 1..L /\ j \in 1..(L - 1)
        BY <1>1, <3>2
      <4>2. Place(j) < q /\ Place(j) \in 1..n
        BY <1>1, <4>1
      <4>3. Place(j) <= q - 1 /\ Place(j) \in 0..n
        BY <2>1, <4>2
      <4>4. sum[Place(j)] <= sum[q - 1] /\ sum[Place(j)] \in Nat
        BY <1>4, <1>5, <2>1, <4>3
      <4>5. acc[j] <= sum[Place(j)]
        BY <1>8, <4>1
      <4> QED BY <2>3, <4>4, <4>5
    <3> QED BY <3>1, <3>2
  <2> QED BY <2>2, <2>3, <2>4
<1>9. acc[L] <= sum[Place(L)]
  <2>1. L \in Nat /\ L \in 1..L
    BY <1>1
  <2>2. L \in T
    <3> HIDE DEF T
    <3> QED BY <1>7, <1>8, <2>1, SetInduction
  <2> QED BY <2>1, <2>2
<1>10. sum[Place(L)] <= sum[n]
  <2>1. Place(L) \in 0..n /\ n \in 0..n /\ Place(L) <= n
    BY <1>1
  <2> QED BY <1>4, <2>1
<1>11. acc[L] \in Nat /\ sum[Place(L)] \in Nat /\ sum[n] \in Nat
  <2>1. L \in 0..L /\ Place(L) \in 0..n /\ n \in 0..n
    BY <1>1
  <2> QED BY <1>5, <2>1
<1>12. acc[L] <= sum[n]
  BY <1>9, <1>10, <1>11
<1> QED
  BY <1>2, <1>3, <1>12 DEF new
=============================================================================

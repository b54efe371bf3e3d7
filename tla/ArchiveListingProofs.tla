------------------------ MODULE ArchiveListingProofs ------------------------
(***************************************************************************)
(* Proof that IndexingEngine implements ArchiveListing: for every archive  *)
(* that is what its headers say, wherever its stream stops and however it  *)
(* is cut in chunks, what is listed is what the archive holds.             *)
(***************************************************************************)
EXTENDS IndexingEngineProofs

(***************************************************************************)
(* Where the pieces of an archive start: StartOf's fold is a running sum.  *)
(***************************************************************************)

\* sum[i] is what the first i of the lengths come to.
Sums(lens, sum) ==
  /\ sum \in [0..Len(lens) -> Nat] /\ sum[0] = 0
  /\ \A i \in 1..Len(lens) : sum[i] = sum[i - 1] + lens[i]

\* The recursion of the fold, over the sets of places.
SumStep(lens, f, s) == IF s = {} THEN 0 ELSE f[s \ {Max(s)}] + lens[Max(s)]

Total(lens) == FoldLeft(LAMBDA sum, n : sum + n, 0, lens)

\* The fold is a recursive function's value at all places.
LEMMA TotalUnfolds ==
  ASSUME NEW lens
  PROVE  Total(lens) =
           (CHOOSE f : f = [s \in SUBSET DOMAIN lens |-> SumStep(lens, f, s)])[DOMAIN lens]
BY DEF Total, FoldLeft, MapThenFoldSet, SumStep

\* The last place of those taken is the greatest.
LEMMA LastIsMax ==
  ASSUME NEW n \in Nat, NEW s \in SUBSET (1..n), n \in s
  PROVE  Max(s) = n
<1>1. \A y \in s : n >= y
  OBVIOUS
<1>2. \A x \in s : (\A y \in s : x >= y) => x = n
  OBVIOUS
<1> QED
  BY <1>1, <1>2 DEF Max

\* The recursion has a solution, built up one place at a time.
LEMMA SumExists ==
  ASSUME NEW lens \in Seq(Nat)
  PROVE  \E f \in [SUBSET (1..Len(lens)) -> Nat] :
           \A s \in SUBSET (1..Len(lens)) : f[s] = SumStep(lens, f, s)
<1> DEFINE n == Len(lens)
           Solves(k, f) == /\ f \in [SUBSET (1..k) -> Nat]
                           /\ \A s \in SUBSET (1..k) : f[s] = SumStep(lens, f, s)
           Solvable(k) == k <= n => \E f : Solves(k, f)
           T == {k \in Nat : Solvable(k)}
<1>1. n \in Nat /\ \A i \in 1..n : lens[i] \in Nat
  OBVIOUS
<1>2. 0 \in T
  <2> DEFINE f == [s \in SUBSET (1..0) |-> 0]
  <2>1. \A s \in SUBSET (1..0) : s = {}
    OBVIOUS
  <2>2. Solves(0, f)
    BY <2>1 DEF SumStep
  <2> HIDE DEF Solves, f
  <2> QED BY <2>2
<1>3. ASSUME NEW k \in Nat, k \in T PROVE k + 1 \in T
  <2> SUFFICES ASSUME k + 1 <= n PROVE \E g : Solves(k + 1, g)
    <3> HIDE DEF Solves, n
    <3> QED OBVIOUS
  <2>1. PICK f : Solves(k, f)
    <3>1. Solvable(k)
      BY <1>3
    <3>2. k <= n
      BY <1>1
    <3> HIDE DEF Solves, n
    <3> QED BY <3>1, <3>2
  <2>2. k + 1 \in Nat /\ k + 1 \in 1..n /\ lens[k + 1] \in Nat
    BY <1>1
  <2>3. \A s \in SUBSET (1..(k + 1)) :
          /\ k + 1 \notin s => s \in SUBSET (1..k)
          /\ s \ {k + 1} \in SUBSET (1..k)
    OBVIOUS
  <2> DEFINE g == [s \in SUBSET (1..(k + 1)) |->
                     IF k + 1 \in s THEN f[s \ {k + 1}] + lens[k + 1] ELSE f[s]]
  <2>4. g \in [SUBSET (1..(k + 1)) -> Nat]
    BY <2>1, <2>2, <2>3
  <2>5. ASSUME NEW s \in SUBSET (1..(k + 1)) PROVE g[s] = SumStep(lens, g, s)
    <3>1. CASE k + 1 \in s
      <4>1. Max(s) = k + 1 /\ s # {}
        BY <2>2, <3>1, LastIsMax
      <4>2. s \ {k + 1} \in SUBSET (1..(k + 1)) /\ k + 1 \notin s \ {k + 1}
        OBVIOUS
      <4>3. g[s \ {k + 1}] = f[s \ {k + 1}]
        BY <4>2
      <4>4. g[s] = f[s \ {k + 1}] + lens[k + 1]
        BY <3>1
      <4> QED BY <4>1, <4>3, <4>4 DEF SumStep
    <3>2. CASE k + 1 \notin s
      <4>1. s \in SUBSET (1..k) /\ s \ {Max(s)} \in SUBSET (1..(k + 1))
            /\ k + 1 \notin s \ {Max(s)}
        BY <2>3, <3>2
      <4>2. g[s] = f[s] /\ g[s \ {Max(s)}] = f[s \ {Max(s)}]
        BY <3>2, <4>1
      <4>3. f[s] = SumStep(lens, f, s)
        BY <2>1, <4>1
      <4> HIDE DEF g
      <4> QED BY <4>2, <4>3 DEF SumStep
    <3> QED BY <3>1, <3>2
  <2> HIDE DEF g
  <2> QED BY <2>4, <2>5
<1>4. n \in T
  <2> HIDE DEF T
  <2> QED BY <1>1, <1>2, <1>3, SetInduction
<1>5. PICK f : Solves(n, f)
  <2>1. Solvable(n)
    <3> HIDE DEF Solvable, n
    <3> QED BY <1>4
  <2>2. n <= n
    BY <1>1
  <2> HIDE DEF Solves, n
  <2> QED BY <2>1, <2>2
<1> QED
  BY <1>5

\* The total is the last of the running sums.
LEMMA TotalSums ==
  ASSUME NEW lens \in Seq(Nat)
  PROVE  \E sum : Sums(lens, sum) /\ Total(lens) = sum[Len(lens)]
<1> DEFINE n == Len(lens)
           f == CHOOSE f : f = [s \in SUBSET DOMAIN lens |-> SumStep(lens, f, s)]
<1>1. n \in Nat /\ DOMAIN lens = 1..n /\ \A i \in 1..n : lens[i] \in Nat
  OBVIOUS
<1>2. PICK g \in [SUBSET (1..n) -> Nat] : \A s \in SUBSET (1..n) : g[s] = SumStep(lens, g, s)
  BY SumExists
<1>3. f = [s \in SUBSET (1..n) |-> SumStep(lens, f, s)]
  <2>1. g = [s \in SUBSET (1..n) |-> g[s]]
    OBVIOUS
  <2>2. g = [s \in SUBSET (1..n) |-> SumStep(lens, g, s)]
    BY <1>2, <2>1
  <2> QED BY <1>1, <2>2
<1>4. Total(lens) = f[1..n]
  BY <1>1, TotalUnfolds
<1> HIDE DEF f
<1> DEFINE sum == [k \in 0..n |-> f[1..k]]
<1>5. \A k \in 0..n : (1..k) \in SUBSET (1..n)
  BY <1>1
<1>6. f[1..0] = 0
  <2>1. 1..0 = {}
    OBVIOUS
  <2> QED BY <1>3, <2>1 DEF SumStep
<1>7. \A k \in 1..n : f[1..k] = f[1..(k - 1)] + lens[k]
  <2> TAKE k \in 1..n
  <2>1. k \in Nat /\ k \in 1..k /\ 1..k # {} /\ (1..k) \in SUBSET (1..k)
    <3>1. k \in Nat /\ k >= 1
      BY <1>1
    <3>2. k \in 1..k
      BY <3>1
    <3> QED BY <3>1, <3>2, Zenon
  <2>2. Max(1..k) = k
    BY <2>1, LastIsMax
  <2>3. (1..k) \ {k} = 1..(k - 1)
    OBVIOUS
  <2>4. f[1..k] = SumStep(lens, f, 1..k)
    BY <1>1, <1>3, <1>5
  <2> QED BY <2>1, <2>2, <2>3, <2>4 DEF SumStep
<1>8. \A k \in Nat : k <= n => f[1..k] \in Nat
  <2> DEFINE T == {k \in Nat : k <= n => f[1..k] \in Nat}
  <2>1. 0 \in T
    BY <1>6
  <2>2. ASSUME NEW k \in Nat, k \in T PROVE k + 1 \in T
    <3> SUFFICES ASSUME k + 1 <= n PROVE f[1..(k + 1)] \in Nat
      OBVIOUS
    <3>1. k + 1 \in 1..n /\ (k + 1) - 1 = k /\ f[1..k] \in Nat
      BY <1>1, <2>2
    <3>2. f[1..(k + 1)] = f[1..k] + lens[k + 1]
      BY <1>7, <3>1
    <3> QED BY <1>1, <3>1, <3>2
  <2>3. \A k \in Nat : k \in T
    <3> HIDE DEF T
    <3> QED BY <2>1, <2>2, SetInduction
  <2> QED BY <2>3
<1>9. sum \in [0..n -> Nat] /\ sum[0] = 0 /\ sum[n] = f[1..n]
  BY <1>1, <1>6, <1>8
<1>10. \A i \in 1..n : sum[i] = sum[i - 1] + lens[i]
  BY <1>1, <1>7
<1> QED
  BY <1>4, <1>9, <1>10 DEF Sums

\* Each piece starts where the one before it ends.
LEMMA StartsAre ==
  ASSUME NEW lens \in Seq(Nat)
  PROVE  /\ StartOf(lens, 1) = 0
         /\ \A k \in 1..(Len(lens) + 1) : StartOf(lens, k) \in Nat
         /\ \A k \in 1..Len(lens) : StartOf(lens, k + 1) = StartOf(lens, k) + lens[k]
<1> DEFINE n == Len(lens)
<1>1. PICK sum : Sums(lens, sum)
  BY TotalSums
<1>2. n \in Nat /\ \A i \in 1..n : lens[i] \in Nat
  OBVIOUS
<1>3. ASSUME NEW k \in 0..n PROVE Total(SubSeq(lens, 1, k)) = sum[k]
  <2> DEFINE part == SubSeq(lens, 1, k)
  <2>1. part \in Seq(Nat) /\ Len(part) = k /\ \A i \in 1..k : part[i] = lens[i]
    <3>1. k \in Int /\ 1 \in Int /\ \A i \in 1..k : lens[i] \in Nat
      BY <1>2
    <3>2. /\ part \in Seq(Nat) /\ Len(part) = IF 1 <= k THEN k - 1 + 1 ELSE 0
          /\ \A i \in 1..(k - 1 + 1) : part[i] = lens[1 + i - 1]
      BY <3>1, SubSeqProperties
    <3> HIDE DEF part
    <3>3. k \in Nat /\ (IF 1 <= k THEN k - 1 + 1 ELSE 0) = k
      BY <1>2
    <3>4. \A i \in 1..k : i \in 1..(k - 1 + 1) /\ 1 + i - 1 = i
      BY <3>3
    <3> QED BY <3>2, <3>3, <3>4
  <2> HIDE DEF part
  <2>2. PICK acc : Sums(part, acc) /\ Total(part) = acc[k]
    BY <2>1, TotalSums
  <2> DEFINE T == {j \in Nat : j <= k => acc[j] = sum[j]}
  <2>3. 0 \in T
    BY <1>1, <2>2 DEF Sums
  <2>4. ASSUME NEW j \in Nat, j \in T PROVE j + 1 \in T
    <3> SUFFICES ASSUME j + 1 <= k PROVE acc[j + 1] = sum[j + 1]
      OBVIOUS
    <3>1. j + 1 \in 1..k /\ j + 1 \in 1..n /\ (j + 1) - 1 = j /\ acc[j] = sum[j]
      BY <1>2, <2>4
    <3>2. acc[j + 1] = acc[j] + part[j + 1]
      BY <2>1, <2>2, <3>1 DEF Sums
    <3>3. sum[j + 1] = sum[j] + lens[j + 1]
      BY <1>1, <3>1 DEF Sums
    <3> QED BY <2>1, <3>1, <3>2, <3>3
  <2>5. \A j \in Nat : j \in T
    <3> HIDE DEF T
    <3> QED BY <2>3, <2>4, SetInduction
  <2> QED BY <1>2, <2>2, <2>5 DEF part
<1>4. ASSUME NEW k \in 1..(n + 1) PROVE StartOf(lens, k) = sum[k - 1]
  <2>1. k - 1 \in 0..n
    BY <1>2
  <2> QED BY <1>3, <2>1 DEF StartOf, Total
<1>5. StartOf(lens, 1) = 0
  BY <1>1, <1>2, <1>4 DEF Sums
<1>6. ASSUME NEW k \in 1..(n + 1) PROVE StartOf(lens, k) \in Nat
  <2>1. k - 1 \in 0..n
    BY <1>2
  <2> QED BY <1>1, <1>4, <2>1 DEF Sums
<1>7. ASSUME NEW k \in 1..n PROVE StartOf(lens, k + 1) = StartOf(lens, k) + lens[k]
  <2>1. k \in 1..(n + 1) /\ k + 1 \in 1..(n + 1) /\ (k + 1) - 1 = k
    BY <1>2
  <2> QED BY <1>1, <1>4, <2>1 DEF Sums
<1> QED
  BY <1>5, <1>6, <1>7

\* A piece ends before a later one starts.
LEMMA StartsGrow ==
  ASSUME NEW lens \in Seq(Nat)
  PROVE  \A i \in 1..Len(lens) : \A j \in (i + 1)..(Len(lens) + 1) :
           StartOf(lens, i) + lens[i] <= StartOf(lens, j)
<1> DEFINE n == Len(lens)
<1>1. n \in Nat /\ \A i \in 1..n : lens[i] \in Nat
  OBVIOUS
<1> SUFFICES ASSUME NEW i \in 1..n
             PROVE  \A j \in (i + 1)..(n + 1) : StartOf(lens, i) + lens[i] <= StartOf(lens, j)
  OBVIOUS
<1> DEFINE at == [k \in 1..(n + 1) |-> StartOf(lens, k)]
           T == {d \in Nat : i + 1 + d <= n + 1 => at[i] + lens[i] <= at[i + 1 + d]}
<1>2. /\ \A k \in 1..(n + 1) : at[k] \in Nat
      /\ \A k \in 1..n : at[k + 1] = at[k] + lens[k]
  <2>1. \A k \in 1..(n + 1) : StartOf(lens, k) \in Nat
    BY StartsAre
  <2>2. \A k \in 1..n : StartOf(lens, k + 1) = StartOf(lens, k) + lens[k]
    BY StartsAre
  <2>3. \A k \in 1..n : k \in 1..(n + 1) /\ k + 1 \in 1..(n + 1)
    BY <1>1
  <2> QED BY <2>1, <2>2, <2>3
<1> HIDE DEF at
<1>3. 0 \in T
  BY <1>1, <1>2
<1>4. ASSUME NEW d \in Nat, d \in T PROVE d + 1 \in T
  <2> SUFFICES ASSUME i + 1 + (d + 1) <= n + 1 PROVE at[i] + lens[i] <= at[i + 1 + (d + 1)]
    OBVIOUS
  <2>1. /\ at[i] + lens[i] <= at[i + 1 + d] /\ i + 1 + d \in 1..n /\ i \in 1..(n + 1)
        /\ (i + 1 + d) + 1 = i + 1 + (d + 1) /\ i + 1 + d \in 1..(n + 1)
    BY <1>1, <1>4
  <2>2. at[i + 1 + (d + 1)] = at[i + 1 + d] + lens[i + 1 + d]
    BY <1>2, <2>1
  <2>3. /\ lens[i + 1 + d] \in Nat /\ lens[i] \in Nat /\ at[i] \in Nat
        /\ at[i + 1 + d] \in Nat
    BY <1>1, <1>2, <2>1
  <2> QED BY <2>1, <2>2, <2>3, SMTT(30)
<1>5. \A d \in Nat : d \in T
  <2> HIDE DEF T
  <2> QED BY <1>3, <1>4, SetInduction
<1> SUFFICES ASSUME NEW j \in (i + 1)..(n + 1)
             PROVE  StartOf(lens, i) + lens[i] <= StartOf(lens, j)
  OBVIOUS
<1>6. j - (i + 1) \in Nat /\ i + 1 + (j - (i + 1)) = j /\ j \in 1..(n + 1) /\ i \in 1..(n + 1)
  BY <1>1
<1>7. at[i] + lens[i] <= at[j]
  <2>1. j - (i + 1) \in T
    BY <1>5, <1>6
  <2>2. i + 1 + (j - (i + 1)) <= n + 1
    BY <1>1
  <2> QED BY <1>6, <2>1, <2>2
<1> QED
  BY <1>6, <1>7 DEF at

\* The bytes of the pieces put together are found where each starts.
LEMMA PiecesAre ==
  ASSUME NEW S, NEW pieces \in Seq(Seq(S))
  PROVE  LET lens == [i \in 1..Len(pieces) |-> Len(pieces[i])]
         IN  /\ lens \in Seq(Nat) /\ Len(lens) = Len(pieces)
             /\ FlattenSeq(pieces) \in Seq(S)
             /\ Len(FlattenSeq(pieces)) = StartOf(lens, Len(pieces) + 1)
             /\ \A k \in 1..Len(pieces) : \A j \in 1..Len(pieces[k]) :
                  /\ StartOf(lens, k) + j \in 1..Len(FlattenSeq(pieces))
                  /\ FlattenSeq(pieces)[StartOf(lens, k) + j] = pieces[k][j]
<1> DEFINE n == Len(pieces)
           lens == [i \in 1..Len(pieces) |-> Len(pieces[i])]
<1>1. n \in Nat /\ \A k \in 1..n : pieces[k] \in Seq(S) /\ Len(pieces[k]) \in Nat
  <2>1. n \in Nat /\ \A k \in 1..n : pieces[k] \in Seq(S)
    BY ElementOfSeq, LenProperties
  <2> QED BY <2>1, LenProperties
<1>2. lens \in Seq(Nat) /\ Len(lens) = n /\ \A k \in 1..n : lens[k] = Len(pieces[k])
  <2>1. lens \in [1..n -> Nat]
    BY <1>1
  <2> QED BY <1>1, <2>1
<1> HIDE DEF lens
<1> DEFINE at == [k \in 1..(n + 1) |-> StartOf(lens, k)]
<1>3. /\ at[1] = 0 /\ \A k \in 1..(n + 1) : at[k] \in Nat
      /\ \A k \in 1..n : at[k + 1] = at[k] + Len(pieces[k])
  <2>1. /\ StartOf(lens, 1) = 0
        /\ \A k \in 1..(n + 1) : StartOf(lens, k) \in Nat
        /\ \A k \in 1..n : StartOf(lens, k + 1) = StartOf(lens, k) + lens[k]
    BY <1>2, StartsAre
  <2>2. 1 \in 1..(n + 1) /\ \A k \in 1..n : k \in 1..(n + 1) /\ k + 1 \in 1..(n + 1)
    BY <1>1
  <2> QED BY <1>2, <2>1, <2>2
<1>4. \A k \in 1..(n + 1) : StartOf(lens, k) = at[k]
  OBVIOUS
<1> HIDE DEF at
<1>5. FlattenSeq(pieces) \in Seq(S)
  BY FlattenIs
<1> DEFINE Placed(flat, m) ==
             /\ flat \in Seq(S) /\ Len(flat) = at[m + 1]
             /\ \A k \in 1..m : \A j \in 1..Len(pieces[k]) :
                  at[k] + j \in 1..at[m + 1] /\ flat[at[k] + j] = pieces[k][j]
<1>6. Placed(FlattenSeq(pieces), n)
  <2>1. CASE pieces = <<>>
    <3>1. FlattenSeq(pieces) = <<>> /\ n = 0
      BY <2>1, EmptySeq DEF FlattenSeq
    <3> QED BY <1>3, <3>1
  <2>2. CASE pieces # <<>>
    <3>1. PICK f : /\ \A i \in 1..Len(pieces) : f[i] = FlatStep(pieces, f, i)
                   /\ FlattenSeq(pieces) = f[n]
      BY <2>2, FlattenUnfolds
    <3>2. n # 0
      BY <2>2, EmptySeq
    <3> DEFINE T == {d \in Nat : d + 1 <= n => Placed(f[d + 1], d + 1)}
    <3>3. 0 \in T
      <4>1. f[1] = pieces[1] /\ 1 \in 1..n
        BY <1>1, <3>1, <3>2 DEF FlatStep
      <4>2. at[2] = Len(pieces[1]) /\ pieces[1] \in Seq(S) /\ Len(pieces[1]) \in Nat
        BY <1>1, <1>3, <4>1
      <4>3. \A k \in 1..1 : k = 1
        OBVIOUS
      <4>4. Placed(f[1], 1)
        BY <1>3, <4>1, <4>2, <4>3
      <4> QED BY <4>4
    <3>4. ASSUME NEW d \in Nat, d \in T PROVE d + 1 \in T
      <4> SUFFICES ASSUME (d + 1) + 1 <= n PROVE Placed(f[(d + 1) + 1], (d + 1) + 1)
        BY SMTT(30)
      <4> DEFINE m == d + 1
                 old == f[m]
                 piece == pieces[m + 1]
      <4>1. /\ Placed(old, m) /\ m \in 1..n /\ m + 1 \in 1..n /\ m + 1 # 1
            /\ (m + 1) - 1 = m
        BY <1>1, <3>4
      <4>2. f[m + 1] = old \o piece
        BY <3>1, <4>1 DEF FlatStep
      <4>3. /\ piece \in Seq(S) /\ Len(piece) \in Nat /\ at[m + 1] \in Nat
            /\ at[(m + 1) + 1] = at[m + 1] + Len(piece)
        BY <1>1, <1>3, <4>1
      <4>4. /\ old \o piece \in Seq(S) /\ Len(old \o piece) = at[m + 1] + Len(piece)
            /\ \A i \in 1..(at[m + 1] + Len(piece)) :
                 (old \o piece)[i] = IF i <= at[m + 1] THEN old[i] ELSE piece[i - at[m + 1]]
        <5>1. old \in Seq(S) /\ Len(old) = at[m + 1]
          BY <4>1
        <5> HIDE DEF old, piece
        <5>2. /\ old \o piece \in Seq(S) /\ Len(old \o piece) = Len(old) + Len(piece)
              /\ \A i \in 1..(Len(old) + Len(piece)) :
                   (old \o piece)[i] = IF i <= Len(old) THEN old[i] ELSE piece[i - Len(old)]
          BY <4>3, <5>1, ConcatProperties
        <5> QED BY <5>1, <5>2
      <4>5. ASSUME NEW k \in 1..(m + 1), NEW j \in 1..Len(pieces[k])
            PROVE  /\ at[k] + j \in 1..at[(m + 1) + 1]
                   /\ (old \o piece)[at[k] + j] = pieces[k][j]
        <5>1. CASE k = m + 1
          <6>1. j \in 1..Len(piece) /\ at[k] = at[m + 1]
            BY <5>1
          <6>2. /\ at[m + 1] + j \in 1..(at[m + 1] + Len(piece))
                /\ ~ (at[m + 1] + j <= at[m + 1]) /\ (at[m + 1] + j) - at[m + 1] = j
            BY <4>3, <6>1
          <6> QED BY <4>3, <4>4, <5>1, <6>1, <6>2
        <5>2. CASE k # m + 1
          <6>1. k \in 1..m
            BY <5>2
          <6>2. at[k] + j \in 1..at[m + 1] /\ old[at[k] + j] = pieces[k][j]
            BY <4>1, <6>1
          <6>3. at[k] + j \in 1..(at[m + 1] + Len(piece)) /\ at[k] + j <= at[m + 1]
            BY <4>3, <6>2
          <6> QED BY <4>3, <4>4, <6>2, <6>3
        <5> QED BY <5>1, <5>2
      <4> HIDE DEF old, piece
      <4> QED BY <4>2, <4>3, <4>4, <4>5
    <3>5. \A d \in Nat : d \in T
      <4> HIDE DEF T
      <4> QED BY <3>3, <3>4, SetInduction
    <3>6. n - 1 \in Nat /\ (n - 1) + 1 = n
      BY <1>1, <3>2
    <3>7. Placed(f[n], n)
      <4>1. (n - 1) + 1 <= n => Placed(f[(n - 1) + 1], (n - 1) + 1)
        <5>1. n - 1 \in T
          BY <3>5, <3>6
        <5> HIDE DEF Placed
        <5> QED BY <5>1
      <4>2. n <= n
        BY <1>1
      <4> HIDE DEF Placed
      <4> QED BY <3>6, <4>1, <4>2
    <3> QED BY <3>1, <3>7
  <2> QED BY <2>1, <2>2
<1>7. n + 1 \in 1..(n + 1) /\ \A k \in 1..n : k \in 1..(n + 1)
  BY <1>1
<1> QED
  BY <1>2, <1>4, <1>5, <1>6, <1>7 DEF lens

-----------------------------------------------------------------------------
(***************************************************************************)
(* Slices of an archive's bytes: what was handed out between two places.   *)
(***************************************************************************)
Slice(c, a, b) == SubSeq(c, a + 1, b)

\* What a slice holds.
LEMMA SliceIs ==
  ASSUME NEW S, NEW c \in Seq(S), NEW a \in Nat, NEW b \in Nat, a <= b, b <= Len(c)
  PROVE  /\ Slice(c, a, b) \in Seq(S) /\ Len(Slice(c, a, b)) = b - a
         /\ \A j \in 1..(b - a) : Slice(c, a, b)[j] = c[a + j]
<1>1. PICK n \in Nat : n = Len(c) /\ b <= n
  BY LenProperties
<1>2. \A i \in (a + 1)..b : c[i] \in S
  <2>1. \A i \in (a + 1)..b : i \in 1..Len(c)
    BY <1>1
  <2> QED BY <2>1, ElementOfSeq
<1>3. /\ Slice(c, a, b) \in Seq(S)
      /\ Len(Slice(c, a, b)) = IF a + 1 <= b THEN b - (a + 1) + 1 ELSE 0
      /\ \A j \in 1..(b - (a + 1) + 1) : Slice(c, a, b)[j] = c[(a + 1) + j - 1]
  BY <1>2, SubSeqProperties DEF Slice
<1>4. /\ (IF a + 1 <= b THEN b - (a + 1) + 1 ELSE 0) = b - a
      /\ b - (a + 1) + 1 = b - a /\ \A j \in 1..(b - a) : (a + 1) + j - 1 = a + j
  OBVIOUS
<1> QED
  BY <1>3, <1>4

\* What holds the same is that slice.
LEMMA SliceEqual ==
  ASSUME NEW S, NEW c \in Seq(S), NEW a \in Nat, NEW b \in Nat, a <= b, b <= Len(c),
         NEW t \in Seq(S), Len(t) = b - a, \A j \in 1..(b - a) : t[j] = c[a + j]
  PROVE  t = Slice(c, a, b)
<1>1. /\ Slice(c, a, b) \in Seq(S) /\ Len(Slice(c, a, b)) = b - a
      /\ \A j \in 1..(b - a) : Slice(c, a, b)[j] = c[a + j]
  BY SliceIs
<1>2. \A j \in 1..Len(t) : t[j] = Slice(c, a, b)[j]
  BY <1>1
<1> QED
  BY <1>1, <1>2, SeqEqual

\* A slice goes on with the next one.
LEMMA SliceGoesOn ==
  ASSUME NEW S, NEW c \in Seq(S), NEW a \in Nat, NEW b \in Nat, NEW d \in Nat,
         a <= b, b <= d, d <= Len(c)
  PROVE  Slice(c, a, b) \o Slice(c, b, d) = Slice(c, a, d)
<1>1. PICK n \in Nat : n = Len(c) /\ d <= n
  BY LenProperties
<1>2. a + 1 \in 1..(n + 1) /\ b \in ((a + 1) - 1)..n /\ d \in b..n
  BY <1>1
<1>3. SubSeq(c, a + 1, b) \o SubSeq(c, b + 1, d) = SubSeq(c, a + 1, d)
  BY <1>1, <1>2, ConcatAdjacentSubSeq
<1> QED
  BY <1>3 DEF Slice

\* What is left of bytes that were taken from.
Left(bytes, n) == SubSeq(bytes, n + 1, Len(bytes))

\* What is taken of a slice, and what is left of it.
LEMMA SliceCut ==
  ASSUME NEW S, NEW c \in Seq(S), NEW a \in Nat, NEW b \in Nat, a <= b, b <= Len(c),
         NEW n \in Nat, n <= b - a
  PROVE  /\ Taken(Slice(c, a, b), n) = Slice(c, a, a + n)
         /\ Left(Slice(c, a, b), n) = Slice(c, a + n, b)
<1> DEFINE s == Slice(c, a, b)
<1>1. s \in Seq(S) /\ Len(s) = b - a /\ \A j \in 1..(b - a) : s[j] = c[a + j]
  BY SliceIs
<1>2. PICK k \in Nat : k = Len(c) /\ b <= k
  BY LenProperties
<1>3. PICK d \in Nat, m \in Nat : d = a + n /\ m = b - a
  OBVIOUS
<1>4. a <= d /\ d <= b /\ d <= Len(c) /\ d - a = n /\ m - n = b - d /\ n <= m /\ m = Len(s)
  BY <1>1, <1>2, <1>3
<1> HIDE DEF s
<1>5. Taken(s, n) = Slice(c, a, d)
  <2> DEFINE t == Slice(s, 0, n)
  <2>1. t \in Seq(S) /\ Len(t) = n - 0 /\ \A j \in 1..(n - 0) : t[j] = s[0 + j]
    <3>1. s \in Seq(S) /\ 0 \in Nat /\ 0 <= n /\ n <= Len(s)
      BY <1>1, <1>4
    <3> QED BY <3>1, SliceIs
  <2> HIDE DEF t
  <2>2. Len(t) = d - a /\ \A j \in 1..(d - a) : t[j] = c[a + j]
    <3>1. \A j \in 1..n : j \in 1..(b - a) /\ 0 + j = j
      BY <1>3, <1>4
    <3>2. n - 0 = n
      OBVIOUS
    <3>3. Len(t) = n /\ \A j \in 1..n : t[j] = c[a + j]
      BY <1>1, <2>1, <3>1, <3>2
    <3> QED BY <1>4, <3>3
  <2>3. Taken(s, n) = t
    BY DEF Taken, Slice, t
  <2>4. t = Slice(c, a, d)
    <3>1. a <= d /\ d <= Len(c) /\ t \in Seq(S)
      BY <1>4, <2>1
    <3> QED BY <2>2, <3>1, SliceEqual
  <2> QED BY <2>3, <2>4
<1>6. SubSeq(s, n + 1, m) = Slice(c, d, b)
  <2> DEFINE t == Slice(s, n, m)
  <2>1. t \in Seq(S) /\ Len(t) = m - n /\ \A j \in 1..(m - n) : t[j] = s[n + j]
    <3>1. s \in Seq(S) /\ n <= m /\ m <= Len(s)
      BY <1>1, <1>4
    <3> QED BY <3>1, SliceIs
  <2>2. SubSeq(s, n + 1, m) = t
    BY DEF Slice
  <2> HIDE DEF t
  <2>3. Len(t) = b - d /\ \A j \in 1..(b - d) : t[j] = c[d + j]
    <3>1. \A j \in 1..(b - d) : n + j \in 1..(b - a) /\ a + (n + j) = d + j
      BY <1>3, <1>4
    <3>2. Len(t) = b - d /\ \A j \in 1..(b - d) : t[j] = s[n + j]
      BY <1>4, <2>1
    <3> QED BY <1>1, <3>1, <3>2
  <2>4. b <= Len(c)
    OBVIOUS
  <2>5. t = Slice(c, d, b)
    BY <1>4, <2>1, <2>3, <2>4, SliceEqual
  <2> QED BY <2>2, <2>5
<1> QED
  BY <1>3, <1>4, <1>5, <1>6 DEF s, Left

\* These bytes stand in the archive from there on.
Stands(c, from, bytes) ==
  /\ from + Len(bytes) <= Len(c)
  /\ \A j \in 1..Len(bytes) : c[from + j] = bytes[j]

\* So they are that slice of it.
LEMMA StandsIs ==
  ASSUME NEW S, NEW c \in Seq(S), NEW from \in Nat, NEW bytes \in Seq(S),
         Stands(c, from, bytes)
  PROVE  Slice(c, from, from + Len(bytes)) = bytes
<1>1. PICK n \in Nat : n = Len(bytes)
  BY LenProperties
<1>2. PICK to \in Nat : to = from + n
  OBVIOUS
<1>3. from <= to /\ to - from = n
  BY <1>2
<1>4. to <= Len(c) /\ \A j \in 1..n : bytes[j] = c[from + j]
  BY <1>1, <1>2 DEF Stands
<1>5. Len(bytes) = to - from /\ \A j \in 1..(to - from) : bytes[j] = c[from + j]
  BY <1>1, <1>3, <1>4
<1>6. bytes = Slice(c, from, to)
  BY <1>3, <1>4, <1>5, SliceEqual
<1> QED
  BY <1>1, <1>2, <1>6

\* Of bytes put together each stands in its place.
LEMMA StandsApart ==
  ASSUME NEW S, NEW c \in Seq(S), NEW from \in Nat, NEW u \in Seq(S), NEW v \in Seq(S),
         Stands(c, from, u \o v)
  PROVE  Stands(c, from, u) /\ Stands(c, from + Len(u), v)
<1>1. PICK a \in Nat, b \in Nat, n \in Nat : a = Len(u) /\ b = Len(v) /\ n = Len(c)
  BY LenProperties
<1>2. /\ Len(u \o v) = a + b
      /\ \A i \in 1..(a + b) : (u \o v)[i] = IF i <= a THEN u[i] ELSE v[i - a]
  BY <1>1, ConcatProperties
<1>3. from + (a + b) <= n /\ \A j \in 1..(a + b) : c[from + j] = (u \o v)[j]
  BY <1>1, <1>2 DEF Stands
<1>4. from + a <= n /\ (from + a) + b <= n
  BY <1>3
<1>5. ASSUME NEW j \in 1..a PROVE c[from + j] = u[j]
  <2>1. j \in 1..(a + b) /\ j <= a
    OBVIOUS
  <2> QED BY <1>2, <1>3, <2>1
<1>6. ASSUME NEW j \in 1..b PROVE c[(from + a) + j] = v[j]
  <2>1. a + j \in 1..(a + b) /\ ~ (a + j <= a) /\ (a + j) - a = j
        /\ from + (a + j) = (from + a) + j
    OBVIOUS
  <2> QED BY <1>2, <1>3, <2>1
<1> QED
  BY <1>1, <1>4, <1>5, <1>6 DEF Stands

\* What stands in a part of the bytes stands in them all.
LEMMA StandsWider ==
  ASSUME NEW S, NEW u \in Seq(S), NEW t \in Seq(S), NEW v \in Seq(S),
         NEW from \in Nat, NEW bytes \in Seq(S), Stands(t, from, bytes)
  PROVE  Stands(t \o v, from, bytes) /\ Stands(u \o t, Len(u) + from, bytes)
<1>1. PICK a \in Nat, b \in Nat, d \in Nat, n \in Nat :
        a = Len(u) /\ b = Len(t) /\ d = Len(v) /\ n = Len(bytes)
  BY LenProperties
<1>2. /\ Len(t \o v) = b + d
      /\ \A i \in 1..(b + d) : (t \o v)[i] = IF i <= b THEN t[i] ELSE v[i - b]
  BY <1>1, ConcatProperties
<1>3. /\ Len(u \o t) = a + b
      /\ \A i \in 1..(a + b) : (u \o t)[i] = IF i <= a THEN u[i] ELSE t[i - a]
  BY <1>1, ConcatProperties
<1>4. from + n <= b /\ \A j \in 1..n : t[from + j] = bytes[j]
  BY <1>1 DEF Stands
<1>5. ASSUME NEW j \in 1..n
      PROVE  (t \o v)[from + j] = bytes[j] /\ (u \o t)[(a + from) + j] = bytes[j]
  <2>1. /\ from + j \in 1..(b + d) /\ from + j <= b
        /\ (a + from) + j \in 1..(a + b) /\ ~ ((a + from) + j <= a)
        /\ ((a + from) + j) - a = from + j
    BY <1>4
  <2> QED BY <1>2, <1>3, <1>4, <2>1
<1>6. from + n <= b + d /\ (a + from) + n <= a + b
  BY <1>4
<1> QED
  BY <1>1, <1>2, <1>3, <1>5, <1>6 DEF Stands

\* Each piece stands where it starts.
LEMMA PieceStands ==
  ASSUME NEW S, NEW pieces \in Seq(Seq(S)), NEW k \in 1..Len(pieces)
  PROVE  Stands(FlattenSeq(pieces),
                StartOf([i \in 1..Len(pieces) |-> Len(pieces[i])], k), pieces[k])
<1> DEFINE lens == [i \in 1..Len(pieces) |-> Len(pieces[i])]
<1>1. /\ lens \in Seq(Nat) /\ Len(lens) = Len(pieces)
      /\ FlattenSeq(pieces) \in Seq(S)
      /\ Len(FlattenSeq(pieces)) = StartOf(lens, Len(pieces) + 1)
      /\ \A i \in 1..Len(pieces) : \A j \in 1..Len(pieces[i]) :
           /\ StartOf(lens, i) + j \in 1..Len(FlattenSeq(pieces))
           /\ FlattenSeq(pieces)[StartOf(lens, i) + j] = pieces[i][j]
  BY PiecesAre
<1>2. PICK n \in Nat : n = Len(pieces)
  BY LenProperties
<1>3. lens[k] = Len(pieces[k])
  OBVIOUS
<1> HIDE DEF lens
<1>4. StartOf(lens, k) + lens[k] <= StartOf(lens, n + 1)
  <2>1. n + 1 \in (k + 1)..(n + 1)
    BY <1>2
  <2> QED BY <1>1, <1>2, <2>1, StartsGrow
<1> QED
  BY <1>1, <1>2, <1>3, <1>4 DEF Stands, lens

\* Bytes of a kind are so many, even none.
LEMMA BytesLong ==
  ASSUME NEW M, NEW m \in M, NEW kinds, NEW kind \in kinds, NEW n \in Nat
  PROVE  Bytes(kind, m, n) \in Seq(Byte(kinds, M)) /\ Len(Bytes(kind, m, n)) = n
<1>1. /\ Bytes(kind, m, n) \in Seq(Byte(kinds, M))
      /\ n > 0 => Len(Bytes(kind, m, n)) = n
  BY BytesAre
<1>2. CASE n = 0
  <2>1. Bytes(kind, m, n) \in [1..0 -> {}]
    BY <1>2 DEF Bytes
  <2>2. Bytes(kind, m, n) = <<>>
    BY <2>1
  <2> QED BY <1>1, <1>2, <2>2
<1> QED
  BY <1>1, <1>2

\* What is read where a field of a member stands is the whole of it.
LEMMA WholeRead ==
  ASSUME NEW S, NEW c \in Seq(S), NEW from \in Nat, NEW m, NEW kind, NEW n \in Nat,
         Bytes(kind, m, n) \in Seq(S), Len(Bytes(kind, m, n)) = n,
         Stands(c, from, Bytes(kind, m, n))
  PROVE  LET bytes == Slice(c, from, from + n)
         IN  /\ Len(bytes) = n /\ Whole(bytes, kind, n)
             /\ n > 0 => bytes[1].of = m /\ bytes[1].kind = kind
<1>1. Slice(c, from, from + n) = Bytes(kind, m, n)
  BY StandsIs
<1>2. n > 0 => Bytes(kind, m, n)[1].of = m /\ Bytes(kind, m, n)[1].kind = kind
  BY BytesStart
<1> QED
  BY <1>1, <1>2 DEF Whole

\* What is read where a field of a member stands, in an archive of such bytes.
LEMMA FieldRead ==
  ASSUME NEW M, NEW m \in M, NEW kinds, NEW kind \in kinds, NEW n \in Nat,
         NEW S, Byte(kinds, M) \subseteq S, NEW c \in Seq(S), NEW from \in Nat,
         Stands(c, from, Bytes(kind, m, n))
  PROVE  /\ Whole(Slice(c, from, from + n), kind, n)
         /\ n > 0 => Slice(c, from, from + n)[1].of = m
<1>1. Bytes(kind, m, n) \in Seq(Byte(kinds, M)) /\ Len(Bytes(kind, m, n)) = n
  BY BytesLong
<1>2. Bytes(kind, m, n) \in Seq(S)
  BY <1>1, SeqMonotonic
<1>3. LET bytes == Slice(c, from, from + n)
      IN  /\ Len(bytes) = n /\ Whole(bytes, kind, n)
          /\ n > 0 => bytes[1].of = m /\ bytes[1].kind = kind
  BY <1>1, <1>2, WholeRead
<1> QED
  BY <1>3

\* What is read of no bytes.
LEMMA SliceOfNone ==
  ASSUME NEW c, NEW a \in Nat
  PROVE  Slice(c, a, a) = <<>>
<1>1. a + 1 \in Int /\ a \in Int /\ a < a + 1
  OBVIOUS
<1> QED
  BY <1>1, SubSeqEmpty DEF Slice

\* A place inside one of the pieces is inside no other.
LEMMA OnlyPiece ==
  ASSUME NEW lens \in Seq(Nat), NEW i \in 1..Len(lens), NEW k \in 1..Len(lens),
         NEW place \in Int, StartOf(lens, i) < place, place <= StartOf(lens, i + 1),
         StartOf(lens, k) < place, place <= StartOf(lens, k + 1)
  PROVE  i = k
<1>1. PICK n \in Nat : n = Len(lens)
  BY LenProperties
<1>2. ASSUME NEW x \in 1..n, NEW y \in 1..n, x < y
      PROVE  StartOf(lens, x + 1) <= StartOf(lens, y)
  <2>1. y \in (x + 1)..(n + 1) /\ x \in 1..Len(lens) /\ y \in (x + 1)..(Len(lens) + 1)
    BY <1>1, <1>2
  <2>2. StartOf(lens, x) + lens[x] <= StartOf(lens, y)
    BY <2>1, StartsGrow
  <2>3. StartOf(lens, x + 1) = StartOf(lens, x) + lens[x]
    BY <2>1, StartsAre
  <2> QED BY <2>2, <2>3
<1>3. \A x \in 1..(n + 1) : StartOf(lens, x) \in Nat
  BY <1>1, StartsAre
<1>4. /\ i \in 1..n /\ k \in 1..n /\ i \in 1..(n + 1) /\ k \in 1..(n + 1)
      /\ i + 1 \in 1..(n + 1) /\ k + 1 \in 1..(n + 1)
  BY <1>1
<1>5. ~ (i < k)
  BY <1>2, <1>3, <1>4
<1>6. ~ (k < i)
  BY <1>2, <1>3, <1>4
<1> QED
  BY <1>4, <1>5, <1>6

\* The entries whose data starts after one place and not after the other.
Passed(holds, lo, hi) == {e \in holds : lo < e.data_offset /\ e.data_offset <= hi}

\* What stands in a piece stands where the piece does.
LEMMA StandsWithin ==
  ASSUME NEW S, NEW c \in Seq(S), NEW t \in Seq(S), NEW bytes \in Seq(S),
         NEW at \in Nat, NEW from \in Nat, Stands(c, at, t), Stands(t, from, bytes)
  PROVE  Stands(c, at + from, bytes)
<1>1. PICK n \in Nat, k \in Nat, d \in Nat : n = Len(bytes) /\ k = Len(t) /\ d = Len(c)
  BY LenProperties
<1>2. /\ at + k <= d /\ \A j \in 1..k : c[at + j] = t[j]
      /\ from + n <= k /\ \A j \in 1..n : t[from + j] = bytes[j]
  BY <1>1 DEF Stands
<1>3. ASSUME NEW j \in 1..n PROVE c[(at + from) + j] = bytes[j]
  <2>1. from + j \in 1..k /\ at + (from + j) = (at + from) + j
    BY <1>2
  <2> QED BY <1>2, <2>1
<1>4. (at + from) + n <= d
  BY <1>2
<1> QED
  BY <1>1, <1>3, <1>4 DEF Stands

\* Four fields put together: where each stands.
LEMMA FieldsStand ==
  ASSUME NEW S, NEW u \in Seq(S), NEW v \in Seq(S), NEW w \in Seq(S), NEW z \in Seq(S)
  PROVE  LET t == u \o v \o w \o z
         IN  /\ t \in Seq(S) /\ Len(t) = Len(u) + Len(v) + Len(w) + Len(z)
             /\ Stands(t, 0, u) /\ Stands(t, Len(u), v) /\ Stands(t, Len(u) + Len(v), w)
<1> DEFINE uv  == u \o v
           uvw == uv \o w
           t   == uvw \o z
<1>1. PICK a \in Nat, b \in Nat, d \in Nat, e \in Nat :
        a = Len(u) /\ b = Len(v) /\ d = Len(w) /\ e = Len(z)
  BY LenProperties
<1>2. uv \in Seq(S) /\ Len(uv) = a + b
  BY <1>1, ConcatProperties
<1> HIDE DEF uv
<1>3. uvw \in Seq(S) /\ Len(uvw) = (a + b) + d
  <2>1. uvw \in Seq(S) /\ Len(uvw) = Len(uv) + Len(w)
    BY <1>2, ConcatProperties
  <2> HIDE DEF uvw
  <2> QED BY <1>1, <1>2, <2>1
<1> HIDE DEF uvw
<1>4. t \in Seq(S) /\ Len(t) = ((a + b) + d) + e
  <2>1. t \in Seq(S) /\ Len(t) = Len(uvw) + Len(z)
    BY <1>3, ConcatProperties
  <2> HIDE DEF t
  <2> QED BY <1>1, <1>3, <2>1
<1>5. Stands(t, 0, t)
  <2>1. PICK n \in Nat : n = Len(t)
    BY <1>4
  <2> HIDE DEF t
  <2> QED BY <2>1 DEF Stands
<1>6. Stands(t, 0, uvw)
  BY <1>3, <1>4, <1>5, StandsApart
<1> HIDE DEF t
<1>7. Stands(t, 0, uv) /\ Stands(t, 0 + Len(uv), w)
  BY <1>2, <1>4, <1>6, StandsApart DEF uvw
<1>8. Stands(t, 0, u) /\ Stands(t, 0 + Len(u), v)
  BY <1>4, <1>7, StandsApart DEF uv
<1>9. 0 + Len(uv) = a + b /\ 0 + Len(u) = a
  BY <1>1, <1>2
<1> QED
  BY <1>1, <1>4, <1>7, <1>8, <1>9 DEF t, uvw, uv

-----------------------------------------------------------------------------
(***************************************************************************)
(* The ar archive: where its members stand in it.                          *)
(***************************************************************************)
ArLens(ms) == [i \in 1..Len(ms) |-> Len(ArBytes(ms[i]))]

\* What is read where a field of a member stands.
LEMMA ArFieldRead ==
  ASSUME NEW M, NEW m \in M, NEW kind \in {"head", "name", "data"}, NEW n \in Nat,
         NEW c \in Seq(ArByte(M)), NEW from \in Nat, Stands(c, from, Bytes(kind, m, n))
  PROVE  /\ Whole(Slice(c, from, from + n), kind, n)
         /\ n > 0 => Slice(c, from, from + n)[1].of = m
<1>1. ASSUME NEW kinds, kinds = {"head", "name", "data"}
      PROVE  /\ Whole(Slice(c, from, from + n), kind, n)
             /\ n > 0 => Slice(c, from, from + n)[1].of = m
  <2>1. Byte(kinds, M) \subseteq ArByte(M) /\ kind \in kinds
    BY <1>1 DEF ArByte
  <2> QED BY <2>1, FieldRead
<1> QED
  BY <1>1

\* Where a member's header ends, and where its data starts.
ArBody(ms, k)   == ArStart(ms, k) + ArHeaderSize
ArOffset(ms, k) == ArBody(ms, k) + ArNameLen(ms[k])

\* The bytes of a member.
LEMMA ArBytesAre ==
  ASSUME NEW M, M \subseteq ArMembers, NEW m \in M
  PROVE  /\ ArBytes(m) \in Seq(ArByte(M)) /\ Len(ArBytes(m)) \in Nat
         /\ ArHeaderSize + ArNameLen(m) + (m.size % 2) <= Len(ArBytes(m))
         /\ Stands(ArBytes(m), 0, Bytes("head", m, ArHeaderSize))
         /\ ArNameLen(m) <= m.size =>
              /\ Len(ArBytes(m)) = ArHeaderSize + m.size + (m.size % 2)
              /\ Stands(ArBytes(m), ArHeaderSize, Bytes("name", m, ArNameLen(m)))
              /\ Stands(ArBytes(m), ArHeaderSize + ArNameLen(m),
                        Bytes("data", m, m.size - ArNameLen(m)))
<1> DEFINE B == ArByte(M)
           kinds == {"head", "name", "data"}
           u == Bytes("head", m, ArHeaderSize)
           v == Bytes("name", m, ArNameLen(m))
           w == Bytes("data", m, m.size - ArNameLen(m))
           z == Zeros(m.size % 2)
<1>1. /\ ArHeaderSize \in Nat /\ m.size \in Nat /\ ArNameLen(m) \in Nat
      /\ m.size % 2 \in {0, 1} /\ m.size - ArNameLen(m) \in Int
  <2>1. m.size \in Nat /\ m.namelen \in Nat
    BY DEF ArMembers
  <2> QED BY <2>1, ArAssumption DEF ArNameLen
<1>2. Byte(kinds, M) \subseteq B /\ ZeroByte \subseteq B
  BY DEF ArByte
<1>3. u \in Seq(Byte(kinds, M)) /\ v \in Seq(Byte(kinds, M)) /\ w \in Seq(Byte(kinds, M))
  <2>1. "head" \in kinds /\ "name" \in kinds /\ "data" \in kinds
    OBVIOUS
  <2> HIDE DEF kinds
  <2>2. ArHeaderSize \in Int /\ ArNameLen(m) \in Int /\ m.size - ArNameLen(m) \in Int
    BY <1>1
  <2>3. u \in Seq(Byte(kinds, M))
    BY <2>1, <2>2, BytesAre
  <2>4. v \in Seq(Byte(kinds, M))
    BY <2>1, <2>2, BytesAre
  <2>5. w \in Seq(Byte(kinds, M))
    BY <2>1, <2>2, BytesAre
  <2> QED BY <2>3, <2>4, <2>5
<1>4. Len(u) = ArHeaderSize /\ Len(v) = ArNameLen(m)
  <2>1. "head" \in kinds /\ "name" \in kinds
    OBVIOUS
  <2> HIDE DEF kinds
  <2> QED BY <1>1, <2>1, BytesLong
<1>5. ArNameLen(m) <= m.size => Len(w) = m.size - ArNameLen(m)
  <2> HAVE ArNameLen(m) <= m.size
  <2>1. PICK n \in Nat : n = m.size - ArNameLen(m)
    BY <1>1
  <2>2. "data" \in kinds
    OBVIOUS
  <2> HIDE DEF kinds
  <2>3. Len(Bytes("data", m, n)) = n
    BY <2>2, BytesLong
  <2> QED BY <2>1, <2>3
<1>6. z \in Seq(ZeroByte) /\ Len(z) = m.size % 2
  BY <1>1, ZerosAre
<1> HIDE DEF B, kinds, u, v, w, z
<1>7. u \in Seq(B) /\ v \in Seq(B) /\ w \in Seq(B) /\ z \in Seq(B)
  BY <1>2, <1>3, <1>6, SeqMonotonic
<1>8. LET t == u \o v \o w \o z
      IN  /\ t \in Seq(B) /\ Len(t) = Len(u) + Len(v) + Len(w) + Len(z)
          /\ Stands(t, 0, u) /\ Stands(t, Len(u), v) /\ Stands(t, Len(u) + Len(v), w)
  BY <1>7, FieldsStand
<1>9. ArBytes(m) = u \o v \o w \o z
  BY DEF ArBytes, u, v, w, z
<1>10. PICK d \in Nat : d = Len(w)
  BY <1>7, LenProperties
<1>11. Len(ArBytes(m)) = ArHeaderSize + ArNameLen(m) + d + (m.size % 2)
  BY <1>4, <1>6, <1>8, <1>9, <1>10
<1>12. /\ Len(ArBytes(m)) \in Nat
       /\ ArHeaderSize + ArNameLen(m) + (m.size % 2) <= Len(ArBytes(m))
       /\ ArNameLen(m) <= m.size => Len(ArBytes(m)) = ArHeaderSize + m.size + (m.size % 2)
  BY <1>1, <1>5, <1>10, <1>11
<1>13. /\ ArBytes(m) \in Seq(B) /\ Stands(ArBytes(m), 0, u)
       /\ Stands(ArBytes(m), ArHeaderSize, v)
       /\ Stands(ArBytes(m), ArHeaderSize + ArNameLen(m), w)
  BY <1>4, <1>8, <1>9
<1> QED
  BY <1>12, <1>13 DEF B, u, v, w

\* Where member k stands in the archive, and the one after it.
ArLaid(ms, c, k) ==
  LET m == ms[k]
  IN  /\ ArStart(ms, k) \in Nat /\ ArStart(ms, k) >= ArMagicLen
      /\ ArStart(ms, k + 1) \in Nat /\ ArStart(ms, k + 1) <= Len(c)
      /\ ArOffset(ms, k) + (m.size % 2) <= ArStart(ms, k + 1)
      /\ Stands(c, ArStart(ms, k), Bytes("head", m, ArHeaderSize))
      /\ ArNameLen(m) <= m.size =>
           /\ ArStart(ms, k + 1) = ArBody(ms, k) + m.size + (m.size % 2)
           /\ Stands(c, ArBody(ms, k), Bytes("name", m, ArNameLen(m)))
           /\ Stands(c, ArOffset(ms, k), Bytes("data", m, m.size - ArNameLen(m)))

\* The members' lengths.
LEMMA ArLensAre ==
  ASSUME NEW M, NEW ms \in Seq(M), M \subseteq ArMembers
  PROVE  /\ ArLens(ms) \in Seq(Nat) /\ Len(ArLens(ms)) = Len(ms)
         /\ \A k \in 1..Len(ms) : ArLens(ms)[k] = Len(ArBytes(ms[k]))
<1>1. PICK n \in Nat : n = Len(ms) /\ ms \in [1..n -> M]
  BY LenProperties
<1>2. \A k \in 1..n : ms[k] \in M /\ Len(ArBytes(ms[k])) \in Nat
  BY <1>1, ArBytesAre
<1>3. [k \in 1..n |-> Len(ArBytes(ms[k]))] \in [1..n -> Nat]
  BY <1>2
<1> QED
  BY <1>1, <1>3 DEF ArLens

\* The magic's bytes.
LEMMA ArMagicIs ==
  ASSUME NEW M
  PROVE  LET magic == Bytes("arch", Nobody, ArMagicLen)
         IN  magic \in Seq(ArByte(M)) /\ Len(magic) = ArMagicLen
<1> DEFINE magic == Bytes("arch", Nobody, ArMagicLen)
<1>1. ASSUME NEW kinds, NEW them, NEW who \in them, NEW n \in Nat, "arch" \in kinds
      PROVE  Bytes("arch", who, n) \in Seq(Byte(kinds, them)) /\ Len(Bytes("arch", who, n)) = n
  BY <1>1, BytesLong
<1>2. magic \in Seq(Byte({"arch"}, {Nobody})) /\ Len(magic) = ArMagicLen
  <2>1. "arch" \in {"arch"} /\ Nobody \in {Nobody} /\ ArMagicLen \in Nat
    BY ArAssumption
  <2> QED BY <1>1, <2>1
<1>3. Byte({"arch"}, {Nobody}) \subseteq ArByte(M)
  BY DEF ArByte
<1> HIDE DEF magic
<1>4. magic \in Seq(ArByte(M))
  BY <1>2, <1>3, SeqMonotonic
<1> QED
  BY <1>2, <1>4 DEF magic

\* The archive is its magic and its members, one after the other.
LEMMA ArStandsIn ==
  ASSUME NEW M, NEW ms \in Seq(M), M \subseteq ArMembers
  PROVE  LET c == ArStream(ms)
         IN  /\ ArStart(ms, 1) = ArMagicLen /\ Len(c) = ArStart(ms, Len(ms) + 1)
             /\ \A k \in 1..(Len(ms) + 1) : ArStart(ms, k) \in Nat /\ ArStart(ms, k) <= Len(c)
             /\ Stands(c, 0, Bytes("arch", Nobody, ArMagicLen))
             /\ \A k \in 1..Len(ms) : ArLaid(ms, c, k)
<1> DEFINE c == ArStream(ms)
           B == ArByte(M)
           magic == Bytes("arch", Nobody, ArMagicLen)
           pieces == [k \in 1..Len(ms) |-> ArBytes(ms[k])]
           flat == FlattenSeq(pieces)
<1>1. PICK n \in Nat : n = Len(ms) /\ ms \in [1..n -> M]
  BY LenProperties
<1>2. ArMagicLen \in Nat /\ ArHeaderSize \in Nat
  BY ArAssumption
<1>3. magic \in Seq(B) /\ Len(magic) = ArMagicLen
  BY ArMagicIs
<1>4. \A k \in 1..n : ArBytes(ms[k]) \in Seq(B) /\ ms[k] \in M
  BY <1>1, ArBytesAre
<1>5. pieces \in Seq(Seq(B)) /\ Len(pieces) = n /\ \A k \in 1..n : pieces[k] = ArBytes(ms[k])
  <2>1. pieces \in [1..n -> Seq(B)]
    BY <1>1, <1>4
  <2> QED BY <1>1, <2>1
<1>6. ArLens(ms) = [i \in 1..Len(pieces) |-> Len(pieces[i])]
  BY <1>1, <1>5 DEF ArLens
<1>7. /\ ArLens(ms) \in Seq(Nat) /\ Len(ArLens(ms)) = n
      /\ \A k \in 1..n : ArLens(ms)[k] = Len(ArBytes(ms[k]))
  BY <1>1, ArLensAre
<1>8. c = magic \o flat
  BY DEF ArStream
<1> HIDE DEF magic, pieces, B
<1>9. flat \in Seq(B) /\ Len(flat) = StartOf(ArLens(ms), n + 1)
  BY <1>5, <1>6, PiecesAre
<1> HIDE DEF flat, c
<1>10. c \in Seq(B) /\ Len(c) = ArMagicLen + StartOf(ArLens(ms), n + 1)
  <2>1. c \in Seq(B) /\ Len(c) = Len(magic) + Len(flat)
    BY <1>3, <1>8, <1>9, ConcatProperties
  <2> QED BY <1>3, <1>9, <2>1
<1>11. \A k \in 1..(n + 1) : ArStart(ms, k) = ArMagicLen + StartOf(ArLens(ms), k)
  BY DEF ArStart, ArLens
<1>12. /\ StartOf(ArLens(ms), 1) = 0
       /\ \A k \in 1..(n + 1) : StartOf(ArLens(ms), k) \in Nat
       /\ \A k \in 1..n : StartOf(ArLens(ms), k + 1)
                            = StartOf(ArLens(ms), k) + ArLens(ms)[k]
  BY <1>7, StartsAre
<1>13. ASSUME NEW k \in 1..n
       PROVE  StartOf(ArLens(ms), k + 1) <= StartOf(ArLens(ms), n + 1)
  <2>1. n + 1 \in (k + 1)..(n + 1)
    OBVIOUS
  <2>2. StartOf(ArLens(ms), k) + ArLens(ms)[k] <= StartOf(ArLens(ms), n + 1)
    BY <1>7, <2>1, StartsGrow
  <2> QED BY <1>12, <2>2
<1>14. ASSUME NEW k \in 1..(n + 1)
       PROVE  ArStart(ms, k) \in Nat /\ ArStart(ms, k) <= Len(c) /\ ArStart(ms, k) >= ArMagicLen
  <2>1. StartOf(ArLens(ms), k) <= StartOf(ArLens(ms), n + 1)
    <3>1. CASE k = n + 1
      BY <1>12, <3>1
    <3>2. CASE k # n + 1
      <4>1. k \in 1..n
        BY <3>2
      <4>2. PICK x \in Nat : x = ArLens(ms)[k]
        BY <1>7, <4>1, ElementOfSeq
      <4> QED BY <1>12, <1>13, <4>1, <4>2
    <3> QED BY <3>1, <3>2
  <2> QED BY <1>2, <1>10, <1>11, <1>12, <2>1
<1>15. magic \o flat = c /\ Stands(c, 0, magic)
  <2>1. PICK k \in Nat : k = Len(c)
    BY <1>10, LenProperties
  <2>2. Stands(c, 0, c)
    BY <2>1 DEF Stands
  <2> QED BY <1>3, <1>8, <1>9, <1>10, <2>2, StandsApart
<1>16. Stands(c, ArMagicLen, flat)
  <2>1. PICK k \in Nat : k = Len(c)
    BY <1>10, LenProperties
  <2>2. Stands(c, 0, c)
    BY <2>1 DEF Stands
  <2>3. Stands(c, 0 + Len(magic), flat)
    BY <1>3, <1>8, <1>9, <1>10, <2>2, StandsApart
  <2> QED BY <1>2, <1>3, <2>3
<1>17. ASSUME NEW k \in 1..n PROVE ArLaid(ms, c, k)
  <2> DEFINE m  == ms[k]
             st == StartOf(ArLens(ms), k)
             s  == ArStart(ms, k)
             t  == ArBytes(m)
  <2>1. m \in M /\ t \in Seq(B) /\ k \in 1..(n + 1) /\ k + 1 \in 1..(n + 1)
    BY <1>4
  <2>2. Stands(flat, st, t)
    <3>1. Stands(FlattenSeq(pieces), StartOf([i \in 1..Len(pieces) |-> Len(pieces[i])], k),
                 pieces[k])
      BY <1>5, PieceStands
    <3> QED BY <1>5, <1>6, <3>1 DEF flat
  <2>3. st \in Nat /\ s = ArMagicLen + st /\ s \in Nat
    BY <1>2, <1>11, <1>12, <2>1
  <2>4. Stands(c, s, t)
    BY <1>2, <1>9, <1>10, <1>16, <2>1, <2>2, <2>3, StandsWithin
  <2>5. ArStart(ms, k + 1) = s + Len(t)
    BY <1>2, <1>7, <1>11, <1>12, <2>1, <2>3, ArBytesAre
  <2>6. /\ Len(t) \in Nat /\ ArHeaderSize + ArNameLen(m) + (m.size % 2) <= Len(t)
        /\ Stands(t, 0, Bytes("head", m, ArHeaderSize))
        /\ ArNameLen(m) <= m.size =>
             /\ Len(t) = ArHeaderSize + m.size + (m.size % 2)
             /\ Stands(t, ArHeaderSize, Bytes("name", m, ArNameLen(m)))
             /\ Stands(t, ArHeaderSize + ArNameLen(m),
                       Bytes("data", m, m.size - ArNameLen(m)))
    BY <2>1, ArBytesAre
  <2>7. /\ m.size \in Nat /\ ArNameLen(m) \in Nat /\ m.size % 2 \in Nat
        /\ m.size - ArNameLen(m) \in Int
    <3>1. m.size \in Nat /\ m.namelen \in Nat
      BY <2>1 DEF ArMembers
    <3> QED BY <3>1 DEF ArNameLen
  <2>8. /\ Bytes("head", m, ArHeaderSize) \in Seq(B)
        /\ Bytes("name", m, ArNameLen(m)) \in Seq(B)
        /\ Bytes("data", m, m.size - ArNameLen(m)) \in Seq(B)
    <3> DEFINE kinds == {"head", "name", "data"}
    <3>1. Byte(kinds, M) \subseteq B
      BY DEF ArByte, B
    <3>2. "head" \in kinds /\ "name" \in kinds /\ "data" \in kinds
      OBVIOUS
    <3> HIDE DEF kinds
    <3>3. \A kind \in kinds, i \in Int : Bytes(kind, m, i) \in Seq(B)
      <4>1. \A kind \in kinds, i \in Int : Bytes(kind, m, i) \in Seq(Byte(kinds, M))
        BY <2>1, BytesAre
      <4> QED BY <3>1, <4>1, SeqMonotonic
    <3> QED BY <1>2, <2>7, <3>2, <3>3
  <2> HIDE DEF m, s, t, st
  <2>9. Stands(c, s + 0, Bytes("head", m, ArHeaderSize))
    BY <1>10, <2>1, <2>3, <2>4, <2>6, <2>8, StandsWithin
  <2>10. ASSUME ArNameLen(m) <= m.size
         PROVE  /\ Stands(c, s + ArHeaderSize, Bytes("name", m, ArNameLen(m)))
                /\ Stands(c, s + (ArHeaderSize + ArNameLen(m)),
                          Bytes("data", m, m.size - ArNameLen(m)))
    <3>1. ArHeaderSize + ArNameLen(m) \in Nat
      BY <1>2, <2>7
    <3> QED BY <1>2, <1>10, <2>1, <2>3, <2>4, <2>6, <2>8, <2>10, <3>1, StandsWithin
  <2>11. /\ s + 0 = s /\ s + (ArHeaderSize + ArNameLen(m)) = s + ArHeaderSize + ArNameLen(m)
         /\ s + ArHeaderSize + ArNameLen(m) + (m.size % 2) <= s + Len(t)
         /\ ArNameLen(m) <= m.size =>
              s + Len(t) = s + ArHeaderSize + m.size + (m.size % 2)
    <3>1. PICK nl \in Nat, pad \in Nat, size \in Nat, len \in Nat, h \in Nat :
            /\ nl = ArNameLen(m) /\ pad = m.size % 2 /\ size = m.size /\ len = Len(t)
            /\ h = ArHeaderSize
      BY <1>2, <2>6, <2>7
    <3>2. h + nl + pad <= len /\ (nl <= size => len = h + size + pad)
      BY <2>6, <3>1
    <3>3. /\ s + 0 = s /\ s + (h + nl) = s + h + nl /\ s + h + nl + pad <= s + len
          /\ nl <= size => s + len = s + h + size + pad
      BY <2>3, <3>2
    <3> QED BY <3>1, <3>3
  <2>12. ArStart(ms, k + 1) \in Nat /\ ArStart(ms, k + 1) <= Len(c) /\ s >= ArMagicLen
    BY <1>14, <2>1 DEF s
  <2> QED BY <2>3, <2>5, <2>9, <2>10, <2>11, <2>12
          DEF ArLaid, ArBody, ArOffset, m, s
<1>18. ArStart(ms, 1) = ArMagicLen /\ Len(c) = ArStart(ms, n + 1)
  <2>1. 1 \in 1..(n + 1) /\ n + 1 \in 1..(n + 1)
    OBVIOUS
  <2> QED BY <1>2, <1>10, <1>11, <1>12, <2>1
<1> QED
  BY <1>1, <1>14, <1>15, <1>17, <1>18 DEF c, magic

\* No header that must be refused ends here or before.
ArClear(ms, pos) == \A k \in 1..Len(ms) : ArUnreadable(ms, k) => pos < ArBody(ms, k)

ArEntry(ms, k) ==
  Entry(ms[k].path, ms[k].size - ArNameLen(ms[k]), "Regular", None, ArOffset(ms, k))

\* What passes while the parser moves inside a member: its data's start, its header's end.
LEMMA ArMoves ==
  ASSUME NEW M, NEW ms \in Seq(M), M \subseteq ArMembers, NEW k \in 1..Len(ms),
         NEW lo \in Nat, NEW hi \in Nat, lo <= hi,
         ArStart(ms, k) <= lo, hi <= ArStart(ms, k + 1), ArClear(ms, lo)
  PROVE  /\ Passed(ArHolds(ms), lo, hi) =
              IF k \in ArFiles(ms) /\ lo < ArOffset(ms, k) /\ ArOffset(ms, k) <= hi
                THEN {ArEntry(ms, k)} ELSE {}
         /\ (lo < ArBody(ms, k) /\ ArBody(ms, k) <= hi => ~ ArUnreadable(ms, k)) =>
              ArClear(ms, hi)
<1> DEFINE c == ArStream(ms)
<1>1. PICK n \in Nat : n = Len(ms) /\ ms \in [1..n -> M]
  BY LenProperties
<1>2. ArHeaderSize \in Nat /\ ArHeaderSize > 0 /\ ArMagicLen \in Nat
  BY ArAssumption
<1>3. /\ \A i \in 1..(n + 1) : ArStart(ms, i) \in Nat
      /\ \A i \in 1..n : ArLaid(ms, c, i)
  BY <1>1, ArStandsIn
<1>4. /\ ArLens(ms) \in Seq(Nat) /\ Len(ArLens(ms)) = n
      /\ \A i \in 1..(n + 1) : StartOf(ArLens(ms), i) \in Nat
      /\ \A i \in 1..(n + 1) : ArStart(ms, i) = ArMagicLen + StartOf(ArLens(ms), i)
  BY <1>1, ArLensAre, StartsAre DEF ArStart, ArLens
<1>5. \A i \in 1..n : ms[i].size % 2 \in Nat /\ ArNameLen(ms[i]) \in Nat
  BY <1>1 DEF ArMembers, ArNameLen
<1>6. ASSUME NEW i \in 1..n
      PROVE  /\ ArStart(ms, i) < ArBody(ms, i) /\ ArBody(ms, i) <= ArOffset(ms, i)
             /\ ArOffset(ms, i) <= ArStart(ms, i + 1)
             /\ ArBody(ms, i) \in Nat /\ ArOffset(ms, i) \in Nat
  <2>1. /\ ArStart(ms, i) \in Nat /\ ArStart(ms, i + 1) \in Nat
        /\ ArOffset(ms, i) + (ms[i].size % 2) <= ArStart(ms, i + 1)
    BY <1>3 DEF ArLaid
  <2>2. ArBody(ms, i) \in Nat /\ ArStart(ms, i) < ArBody(ms, i)
    BY <1>2, <2>1 DEF ArBody
  <2>3. ArOffset(ms, i) \in Nat /\ ArBody(ms, i) <= ArOffset(ms, i)
    BY <1>5, <2>2 DEF ArOffset
  <2>4. PICK pad \in Nat : pad = ms[i].size % 2
    BY <1>5
  <2> QED BY <2>1, <2>2, <2>3, <2>4
<1>7. ASSUME NEW i \in 1..n, NEW place \in Nat, lo < place, place <= hi,
             ArStart(ms, i) < place, place <= ArStart(ms, i + 1)
      PROVE  i = k
  <2>1. /\ i \in 1..(n + 1) /\ i + 1 \in 1..(n + 1) /\ k \in 1..n
        /\ k \in 1..(n + 1) /\ k + 1 \in 1..(n + 1)
    BY <1>1
  <2>2. place - ArMagicLen \in Int
    BY <1>2
  <2>3. /\ StartOf(ArLens(ms), i) < place - ArMagicLen
        /\ place - ArMagicLen <= StartOf(ArLens(ms), i + 1)
        /\ StartOf(ArLens(ms), k) < place - ArMagicLen
        /\ place - ArMagicLen <= StartOf(ArLens(ms), k + 1)
    <3>1. \A j \in 1..(n + 1) : /\ StartOf(ArLens(ms), j) \in Nat
                                /\ ArStart(ms, j) = ArMagicLen + StartOf(ArLens(ms), j)
      BY <1>4
    <3>2. PICK a \in Nat, b \in Nat, d \in Nat, e \in Nat :
            /\ a = StartOf(ArLens(ms), i) /\ b = StartOf(ArLens(ms), i + 1)
            /\ d = StartOf(ArLens(ms), k) /\ e = StartOf(ArLens(ms), k + 1)
      BY <2>1, <3>1
    <3>3. /\ ArMagicLen + a < place /\ place <= ArMagicLen + b
          /\ ArMagicLen + d <= lo /\ hi <= ArMagicLen + e
      BY <1>7, <2>1, <3>1, <3>2
    <3>4. /\ a < place - ArMagicLen /\ place - ArMagicLen <= b
          /\ d < place - ArMagicLen /\ place - ArMagicLen <= e
      BY <1>2, <1>7, <3>3
    <3> QED BY <3>2, <3>4
  <2> QED BY <1>4, <2>1, <2>2, <2>3, OnlyPiece
<1>8. ArHolds(ms) = {ArEntry(ms, i) : i \in ArFiles(ms)}
  BY DEF ArHolds, ArEntry, ArOffset, ArBody
<1>9. \A i : ArEntry(ms, i).data_offset = ArOffset(ms, i)
  BY DEF ArEntry, Entry
<1>10. \A i \in ArFiles(ms) : i \in 1..n
  BY <1>1 DEF ArFiles
<1>11. \A i \in ArFiles(ms) : lo < ArOffset(ms, i) /\ ArOffset(ms, i) <= hi => i = k
  <2> SUFFICES ASSUME NEW i \in ArFiles(ms), lo < ArOffset(ms, i), ArOffset(ms, i) <= hi
               PROVE  i = k
    OBVIOUS
  <2>1. i \in 1..n
    BY <1>10
  <2>2. /\ ArOffset(ms, i) \in Nat /\ ArStart(ms, i) < ArOffset(ms, i)
        /\ ArOffset(ms, i) <= ArStart(ms, i + 1)
    <3>1. /\ ArStart(ms, i) \in Nat /\ ArBody(ms, i) \in Nat /\ ArOffset(ms, i) \in Nat
          /\ ArStart(ms, i) < ArBody(ms, i) /\ ArBody(ms, i) <= ArOffset(ms, i)
          /\ ArOffset(ms, i) <= ArStart(ms, i + 1)
      BY <1>3, <1>6, <2>1 DEF ArLaid
    <3> QED BY <3>1
  <2> QED BY <1>7, <2>1, <2>2
<1>12. Passed(ArHolds(ms), lo, hi) =
         IF k \in ArFiles(ms) /\ lo < ArOffset(ms, k) /\ ArOffset(ms, k) <= hi
           THEN {ArEntry(ms, k)} ELSE {}
  <2>1. \A e : e \in Passed(ArHolds(ms), lo, hi) <=>
                 \E i \in ArFiles(ms) : /\ e = ArEntry(ms, i)
                                        /\ lo < ArOffset(ms, i) /\ ArOffset(ms, i) <= hi
    BY <1>8, <1>9 DEF Passed
  <2> QED BY <1>11, <2>1
<1>13. ASSUME lo < ArBody(ms, k) /\ ArBody(ms, k) <= hi => ~ ArUnreadable(ms, k),
              NEW i \in 1..n, ArUnreadable(ms, i)
       PROVE  hi < ArBody(ms, i)
  <2>1. lo < ArBody(ms, i)
    BY <1>1, <1>13 DEF ArClear
  <2>2. /\ ArBody(ms, i) \in Nat /\ ArStart(ms, i) < ArBody(ms, i)
        /\ ArBody(ms, i) <= ArStart(ms, i + 1)
    <3>1. /\ ArBody(ms, i) \in Nat /\ ArOffset(ms, i) \in Nat /\ ArStart(ms, i + 1) \in Nat
          /\ ArStart(ms, i) < ArBody(ms, i) /\ ArBody(ms, i) <= ArOffset(ms, i)
          /\ ArOffset(ms, i) <= ArStart(ms, i + 1)
      BY <1>3, <1>6 DEF ArLaid
    <3> QED BY <3>1
  <2>3. ASSUME ArBody(ms, i) <= hi PROVE FALSE
    <3>1. i = k
      BY <1>7, <2>1, <2>2, <2>3
    <3> QED BY <1>13, <2>1, <2>3, <3>1
  <2> QED BY <2>2, <2>3
<1> QED
  BY <1>1, <1>12, <1>13 DEF ArClear

\* Inside a member the archive may end only before its pad byte.
LEMMA ArEndsInside ==
  ASSUME NEW M, NEW ms \in Seq(M), M \subseteq ArMembers, NEW k \in 1..Len(ms),
         NEW pos \in Nat, ArStart(ms, k) < pos, pos < ArStart(ms, k + 1)
  PROVE  pos \in ArEnds(ms) <=> pos = ArStart(ms, k + 1) - 1 /\ ms[k].size % 2 = 1
<1>1. PICK n \in Nat : n = Len(ms) /\ ms \in [1..n -> M]
  BY LenProperties
<1>2. ArHeaderSize \in Nat /\ ArHeaderSize > 0 /\ ArMagicLen \in Nat
  BY ArAssumption
<1>3. /\ \A i \in 1..(n + 1) : ArStart(ms, i) \in Nat
      /\ \A i \in 1..n : ArLaid(ms, ArStream(ms), i)
  BY <1>1, ArStandsIn
<1>4. /\ ArLens(ms) \in Seq(Nat) /\ Len(ArLens(ms)) = n
      /\ \A i \in 1..(n + 1) : StartOf(ArLens(ms), i) \in Nat
      /\ \A i \in 1..(n + 1) : ArStart(ms, i) = ArMagicLen + StartOf(ArLens(ms), i)
  BY <1>1, ArLensAre, StartsAre DEF ArStart, ArLens
<1>5. ASSUME NEW i \in 1..n
      PROVE  ArStart(ms, i) + (ms[i].size % 2) < ArStart(ms, i + 1)
  <2> DEFINE s == ArStart(ms, i)
             x == ArStart(ms, i + 1)
  <2>4. s \in Nat /\ x \in Nat
    BY <1>3 DEF ArLaid
  <2>6. ms[i].size \in Nat /\ ms[i].namelen \in Nat
    BY <1>1 DEF ArMembers
  <2>7. ArNameLen(ms[i]) \in Nat /\ ms[i].size % 2 \in Nat
    BY <2>6 DEF ArNameLen
  <2>1. PICK nl \in Nat, pad \in Nat : nl = ArNameLen(ms[i]) /\ pad = ms[i].size % 2
    BY <2>7
  <2>2. ArOffset(ms, i) + (ms[i].size % 2) <= ArStart(ms, i + 1)
    BY <1>3 DEF ArLaid
  <2>3. ((s + ArHeaderSize) + nl) + pad <= x
    BY <2>1, <2>2 DEF ArOffset, ArBody
  <2> HIDE DEF s, x
  <2>5. s + pad < x
    BY <1>2, <2>1, <2>3, <2>4, SMTT(30)
  <2> QED BY <2>1, <2>5 DEF s, x
<1>6. ASSUME NEW i \in 1..n, NEW place \in Nat,
             ArStart(ms, i) < place, place <= ArStart(ms, i + 1),
             ArStart(ms, k) < place, place <= ArStart(ms, k + 1)
      PROVE  i = k
  <2>1. /\ i \in 1..(n + 1) /\ i + 1 \in 1..(n + 1) /\ k \in 1..n
        /\ k \in 1..(n + 1) /\ k + 1 \in 1..(n + 1)
    BY <1>1
  <2>2. place - ArMagicLen \in Int
    BY <1>2
  <2>3. \A j \in 1..(n + 1) : /\ StartOf(ArLens(ms), j) \in Nat
                              /\ ArStart(ms, j) = ArMagicLen + StartOf(ArLens(ms), j)
    BY <1>4
  <2>4. PICK a \in Nat, b \in Nat, d \in Nat, e \in Nat :
          /\ a = StartOf(ArLens(ms), i) /\ b = StartOf(ArLens(ms), i + 1)
          /\ d = StartOf(ArLens(ms), k) /\ e = StartOf(ArLens(ms), k + 1)
    BY <2>1, <2>3
  <2>5. /\ ArMagicLen + a < place /\ place <= ArMagicLen + b
        /\ ArMagicLen + d < place /\ place <= ArMagicLen + e
    BY <1>6, <2>1, <2>3, <2>4
  <2>6. /\ a < place - ArMagicLen /\ place - ArMagicLen <= b
        /\ d < place - ArMagicLen /\ place - ArMagicLen <= e
    BY <1>2, <2>5
  <2> QED BY <1>4, <2>1, <2>2, <2>4, <2>6, OnlyPiece
<1>7. /\ k \in 1..n /\ \A i \in 1..n : i \in 1..(n + 1) /\ i + 1 \in 1..(n + 1)
      /\ \A i \in 1..(n + 1) : i # 1 => i - 1 \in 1..n /\ (i - 1) + 1 = i
  BY <1>1
<1>8. ASSUME NEW i \in 1..(n + 1) PROVE ArStart(ms, i) # pos
  <2>1. SUFFICES ASSUME ArStart(ms, i) = pos PROVE FALSE
    OBVIOUS
  <2>2. CASE i = 1
    <3>1. ArStart(ms, k) >= ArMagicLen /\ ArStart(ms, 1) = ArMagicLen
      BY <1>1, <1>3, <1>7, ArStandsIn DEF ArLaid
    <3> QED BY <1>2, <1>3, <1>7, <2>1, <2>2, <3>1
  <2>3. CASE i # 1
    <3>1. PICK j \in 1..n : j + 1 = i
      BY <1>7, <2>3
    <3>2. ArStart(ms, j) < pos
      <4>1. PICK s \in Nat, pad \in Nat : s = ArStart(ms, j) /\ pad = ms[j].size % 2
        BY <1>1, <1>3, <1>7, SMTT(30) DEF ArMembers
      <4> QED BY <1>5, <2>1, <3>1, <4>1
    <3>3. j = k
      BY <1>3, <1>6, <1>7, <2>1, <3>1, <3>2
    <3> QED BY <1>3, <1>7, <2>1, <3>1, <3>3
  <2> QED BY <2>2, <2>3
<1>9. ASSUME NEW i \in 1..n, ms[i].size % 2 = 1, pos = ArStart(ms, i + 1) - 1
      PROVE  i = k
  <2>1. /\ ArStart(ms, i) \in Nat /\ ArStart(ms, i + 1) \in Nat
        /\ ArStart(ms, i) + 1 < ArStart(ms, i + 1)
    BY <1>3, <1>5, <1>7, <1>9
  <2>2. ArStart(ms, i) < pos /\ pos <= ArStart(ms, i + 1)
    BY <1>9, <2>1
  <2>3. pos <= ArStart(ms, k + 1) /\ ArStart(ms, k + 1) \in Nat
    BY <1>3, <1>7
  <2> QED BY <1>6, <2>2, <2>3
<1>10. pos \in ArEnds(ms) <=>
         \/ \E i \in 1..(n + 1) : pos = ArStart(ms, i)
         \/ \E i \in 1..n : ms[i].size % 2 = 1 /\ pos = ArStart(ms, i + 1) - 1
  BY <1>1 DEF ArEnds
<1> QED
  BY <1>7, <1>8, <1>9, <1>10

\* fill_header_buf() has filled up to there.
FilledTo(c, from, p, pos, hi, size, at) ==
  /\ at = Fewer(hi, from + size) /\ pos < at /\ at <= hi /\ at <= from + size
  /\ ArFill(p, Slice(c, pos, hi), size)
       = [p EXCEPT !.header_buf = Slice(c, from, at), !.stream_pos = at]
  /\ Len(Slice(c, from, at)) = at - from

\* fill_header_buf() fills on from what is there.
LEMMA ArFillsOn ==
  ASSUME NEW S, NEW c \in Seq(S), NEW p, NEW from \in Nat, NEW pos \in Nat, NEW hi \in Nat,
         NEW size \in Nat, p.stream_pos = pos, p.header_buf = Slice(c, from, pos),
         from <= pos, pos < hi, hi <= Len(c), pos < from + size
  PROVE  \E at \in Nat : FilledTo(c, from, p, pos, hi, size, at)
<1>1. PICK len \in Nat : len = Len(c)
  BY LenProperties
<1>2. Fewer(hi, from + size) \in Nat
  BY DEF Fewer
<1>3. PICK at \in Nat : at = Fewer(hi, from + size)
  BY <1>2
<1>4. pos < at /\ at <= hi /\ at <= from + size /\ pos <= at /\ hi <= Len(c)
  BY <1>3 DEF Fewer
<1>5. /\ Len(Slice(c, pos, hi)) = hi - pos /\ Len(Slice(c, from, pos)) = pos - from
      /\ Len(Slice(c, from, at)) = at - from
      /\ Slice(c, from, pos) \o Taken(Slice(c, pos, hi), at - pos) = Slice(c, from, at)
  <2>1. PICK take \in Nat : take = at - pos
    BY <1>4
  <2>2. /\ from <= at /\ at <= Len(c) /\ pos <= hi /\ pos <= Len(c)
        /\ take <= hi - pos /\ pos + take = at
    BY <1>1, <1>4, <2>1
  <2>3. Len(Slice(c, pos, hi)) = hi - pos
    BY <2>1, <2>2, SliceIs
  <2>4. Len(Slice(c, from, at)) = at - from
    BY <2>2, SliceIs
  <2>7. Len(Slice(c, from, pos)) = pos - from
    BY <2>2, SliceIs
  <2>5. Taken(Slice(c, pos, hi), take) = Slice(c, pos, at)
    BY <2>1, <2>2, SliceCut
  <2>6. Slice(c, from, pos) \o Slice(c, pos, at) = Slice(c, from, at)
    BY <1>4, <2>2, SliceGoesOn, SMTT(30)
  <2> QED BY <2>1, <2>3, <2>4, <2>5, <2>6, <2>7
<1>6. at - pos = Fewer(hi - pos, size - (pos - from)) /\ pos + (at - pos) = at
  BY <1>3 DEF Fewer
<1>7. ArFill(p, Slice(c, pos, hi), size)
        = [p EXCEPT !.header_buf = Slice(c, from, at), !.stream_pos = at]
  BY <1>5, <1>6 DEF ArFill
<1> QED
  BY <1>3, <1>4, <1>5, <1>7 DEF FilledTo

\* So much was taken of the data: it is read up to there.
TakenTo(c, from, pos, hi, remaining, at) ==
  LET data == Slice(c, pos, hi)
      take == Fewer(Len(data), remaining)
  IN  /\ at = Fewer(hi, pos + remaining) /\ pos < at /\ at <= hi /\ at <= pos + remaining
      /\ take = at - pos
      /\ Slice(c, from, pos) \o Taken(data, take) = Slice(c, from, at)
      /\ Len(Slice(c, from, at)) = at - from

\* What is taken of a member's data is read up to its end, or to the end of the chunk.
LEMMA TakesOn ==
  ASSUME NEW S, NEW c \in Seq(S), NEW from \in Nat, NEW pos \in Nat, NEW hi \in Nat,
         NEW remaining \in Nat, from <= pos, pos < hi, hi <= Len(c), remaining > 0
  PROVE  \E at \in Nat : TakenTo(c, from, pos, hi, remaining, at)
<1>1. PICK len \in Nat : len = Len(c)
  BY LenProperties
<1>2. Fewer(hi, pos + remaining) \in Nat
  BY DEF Fewer
<1>3. PICK at \in Nat : at = Fewer(hi, pos + remaining)
  BY <1>2
<1>4. pos < at /\ at <= hi /\ at <= pos + remaining /\ pos <= at /\ hi <= Len(c)
  BY <1>3 DEF Fewer
<1>5. /\ Len(Slice(c, pos, hi)) = hi - pos
      /\ Len(Slice(c, from, at)) = at - from
      /\ Slice(c, from, pos) \o Taken(Slice(c, pos, hi), at - pos) = Slice(c, from, at)
  <2>1. PICK take \in Nat : take = at - pos
    BY <1>4
  <2>2. /\ from <= at /\ at <= Len(c) /\ pos <= hi /\ pos <= Len(c)
        /\ take <= hi - pos /\ pos + take = at
    BY <1>1, <1>4, <2>1
  <2>3. Len(Slice(c, pos, hi)) = hi - pos
    BY <2>1, <2>2, SliceIs
  <2>4. Len(Slice(c, from, at)) = at - from
    BY <2>1, <2>2, SliceIs
  <2>5. Taken(Slice(c, pos, hi), take) = Slice(c, pos, at)
    BY <2>1, <2>2, SliceCut
  <2>6. Slice(c, from, pos) \o Slice(c, pos, at) = Slice(c, from, at)
    BY <1>4, <2>2, SliceGoesOn, SMTT(30)
  <2> QED BY <2>1, <2>3, <2>4, <2>5, <2>6
<1>6. at - pos = Fewer(hi - pos, remaining)
  BY <1>3 DEF Fewer
<1> QED
  BY <1>3, <1>4, <1>5, <1>6 DEF TakenTo

-----------------------------------------------------------------------------
(***************************************************************************)
(* Where the ar parser is: which member it reads, and what it has of it.   *)
(***************************************************************************)

\* An archive whose headers say what its members are: no table or name is empty, and a
\* file is told from a symbol table by what names it.
ArWell(ms) ==
  \A k \in 1..Len(ms) :
    /\ ms[k].naming = "table" => ms[k].size > 0
    /\ ms[k].naming = "bsd" => ms[k].namelen > 0
    /\ ms[k].naming \in {"short", "long"} => ms[k].path # SymbolTable

\* The name table is there when one of the first j members is one.
TableRead(ms, p, j) ==
  IF \E i \in 1..j : ms[i].naming = "table"
    THEN p.name_table # None /\ Whole(p.name_table[1], "data", Len(p.name_table[1]))
    ELSE p.name_table = None

ArAtMagic(c, p) ==
  /\ p.state = "ReadingMagic" /\ p.stream_pos < ArMagicLen
  /\ p.header_buf = Slice(c, 0, p.stream_pos) /\ p.name_table = None

ArAtHeader(ms, c, p, k) ==
  /\ p.state = "ReadingHeader"
  /\ ArStart(ms, k) <= p.stream_pos /\ p.stream_pos < ArBody(ms, k)
  /\ p.header_buf = Slice(c, ArStart(ms, k), p.stream_pos)
  /\ TableRead(ms, p, k - 1)

ArAtTable(ms, c, p, k) ==
  /\ p.state = "ReadingNameTable" /\ ms[k].naming = "table"
  /\ p.remaining > 0 /\ ArBody(ms, k) <= p.stream_pos
  /\ p.stream_pos + p.remaining = ArBody(ms, k) + ms[k].size
  /\ p.header_buf = <<>> /\ p.buf = Slice(c, ArBody(ms, k), p.stream_pos)
  /\ p.pad = ArPad(ms[k])

ArAtName(ms, c, p, k) ==
  /\ p.state = "ReadingBsdName" /\ ms[k].naming = "bsd" /\ p.header = Some(ms[k])
  /\ ms[k].namelen <= ms[k].size
  /\ p.remaining > 0 /\ ArBody(ms, k) <= p.stream_pos
  /\ p.stream_pos + p.remaining = ArOffset(ms, k)
  /\ p.header_buf = <<>> /\ p.buf = Slice(c, ArBody(ms, k), p.stream_pos)
  /\ TableRead(ms, p, k - 1)

ArAtData(ms, p, k) ==
  /\ p.state = "SkippingData" /\ ArNameLen(ms[k]) <= ms[k].size
  /\ p.remaining > 0 /\ ArOffset(ms, k) <= p.stream_pos
  /\ p.stream_pos + p.remaining = ArStart(ms, k + 1)
  /\ p.header_buf = <<>> /\ p.pad = Fewer(ArPad(ms[k]), p.remaining)
  /\ TableRead(ms, p, k)

\* No header that must be refused is behind the parser.
ArRight(ms, c, p) ==
  /\ ArClear(ms, p.stream_pos)
  /\ \/ ArAtMagic(c, p)
     \/ \E k \in 1..(Len(ms) + 1) : ArAtHeader(ms, c, p, k)
     \/ \E k \in 1..Len(ms) :
          ArAtTable(ms, c, p, k) \/ ArAtName(ms, c, p, k) \/ ArAtData(ms, p, k)

\* It tells of an entry when it passes where its data starts, and then only.
Tells(holds, lo, a) ==
  LET passed == Passed(holds, lo, a.parser.stream_pos)
  IN  \/ a.event = "NeedData" /\ a.entry = None /\ passed = {}
      \/ a.event = "Entry" /\ \E e : a.entry = Some(e) /\ passed = {e}

\* What it answers once it is fed up to hi.
ArRightly(ms, c, p, hi, a) ==
  /\ a.event = "Error" => ~ ArClear(ms, hi)
  /\ a.event # "Error" => ArRight(ms, c, a.parser) /\ Tells(ArHolds(ms), p.stream_pos, a)

\* Before the first member there is nothing to tell of, and no header to refuse.
LEMMA ArBeforeMembers ==
  ASSUME NEW M, NEW ms \in Seq(M), M \subseteq ArMembers,
         NEW lo \in Nat, NEW hi \in Nat, hi <= ArMagicLen
  PROVE  Passed(ArHolds(ms), lo, hi) = {} /\ ArClear(ms, hi)
<1>1. PICK n \in Nat : n = Len(ms) /\ ms \in [1..n -> M]
  BY LenProperties
<1>2. ArMagicLen \in Nat /\ ArHeaderSize \in Nat /\ ArHeaderSize > 0
  BY ArAssumption
<1>3. ASSUME NEW k \in 1..n
      PROVE  hi < ArBody(ms, k) /\ hi < ArOffset(ms, k) /\ ArOffset(ms, k) \in Nat
  <2>1. ArLaid(ms, ArStream(ms), k)
    BY <1>1, ArStandsIn
  <2>2. PICK s \in Nat : s = ArStart(ms, k) /\ s >= ArMagicLen
    BY <2>1 DEF ArLaid
  <2>3. PICK l \in Nat : l = ArNameLen(ms[k])
    BY <1>1 DEF ArNameLen, ArMembers
  <2> QED BY <1>2, <2>2, <2>3 DEF ArBody, ArOffset
<1>4. ASSUME NEW e \in ArHolds(ms) PROVE ~ (e.data_offset <= hi)
  <2>1. PICK k \in 1..n : e.data_offset = ArOffset(ms, k)
    BY <1>1 DEF ArHolds, ArFiles, Entry, ArOffset, ArBody
  <2> QED BY <1>3, <2>1
<1> QED
  BY <1>1, <1>3, <1>4 DEF Passed, ArClear

\* What is left of the member is skipped, or the parser is at the next one's header.
ArGoesOn(ms, c, k, p, pos) ==
  /\ p.stream_pos = pos
  /\ ArAtData(ms, p, k) \/ ArAtHeader(ms, c, p, k + 1)

\* skip(): of a member whose data goes on to the next member's start.
LEMMA ArSkipsTo ==
  ASSUME NEW ms, NEW c, NEW k \in Nat, NEW q, NEW d \in Nat, NEW pos \in Nat,
         NEW pad \in Nat, pad = ArPad(ms[k]),
         DOMAIN q = ArFields, q.stream_pos = pos, q.header_buf = <<>>,
         TableRead(ms, q, k), ArNameLen(ms[k]) <= ms[k].size,
         ArStart(ms, k + 1) \in Nat, pos + d + pad = ArStart(ms, k + 1),
         ArOffset(ms, k) <= pos
  PROVE  ArGoesOn(ms, c, k, ArSkip(q, d, pad), pos)
<1> DEFINE r == ArSkip(q, d, pad)
<1>1. /\ DOMAIN r = ArFields /\ r.header_buf = <<>> /\ r.stream_pos = pos
      /\ r.state = IF d + pad = 0 THEN "ReadingHeader" ELSE "SkippingData"
      /\ r.remaining = d + pad /\ r.pad = IF d + pad = 0 THEN 0 ELSE pad
      /\ r.name_table = q.name_table
  BY DEF ArSkip, ArFields
<1> HIDE DEF r
<1>2. TableRead(ms, r, k)
  BY <1>1 DEF TableRead
<1>3. ASSUME d + pad = 0 PROVE ArAtHeader(ms, c, r, k + 1)
  <2>1. PICK s \in Nat : s = ArStart(ms, k + 1) /\ pos = s
    BY <1>3
  <2>2. Slice(c, s, s) = <<>>
    BY SliceOfNone
  <2>3. PICK head \in Nat : head = ArHeaderSize /\ head > 0
    BY ArAssumption
  <2>4. ArStart(ms, k + 1) <= pos /\ pos < ArBody(ms, k + 1)
    <3>1. ArBody(ms, k + 1) = s + head
      BY <2>1, <2>3 DEF ArBody
    <3>2. s <= s /\ s < s + head
      BY <2>3
    <3> QED BY <2>1, <3>1, <3>2
  <2>5. (k + 1) - 1 = k
    OBVIOUS
  <2> QED BY <1>1, <1>2, <1>3, <2>1, <2>2, <2>4, <2>5 DEF ArAtHeader
<1>4. ASSUME d + pad # 0 PROVE ArAtData(ms, r, k)
  <2>1. d + pad > 0 /\ pad = Fewer(pad, d + pad) /\ pos + (d + pad) = ArStart(ms, k + 1)
    BY <1>4 DEF Fewer
  <2> QED BY <1>1, <1>2, <1>4, <2>1 DEF ArAtData
<1> QED
  BY <1>1, <1>3, <1>4 DEF ArGoesOn, r

\* Fed the magic, the parser is at the first member's header.
LEMMA ArMagicRight ==
  ASSUME NEW M, NEW ms \in Seq(M), M \subseteq ArMembers, NEW c, c = ArStream(ms),
         NEW p, ArGood(p, M), NEW pos \in Nat, p.stream_pos = pos, NEW hi \in Nat,
         pos < hi, hi <= Len(c), ArAtMagic(c, p)
  PROVE  ArRightly(ms, c, p, hi, ArFeedMagic(p, Slice(c, pos, hi)))
<1> DEFINE q    == ArFill(p, Slice(c, pos, hi), ArMagicLen)
           next == [q EXCEPT !.header_buf = <<>>, !.state = "ReadingHeader"]
           take == q.stream_pos - p.stream_pos
           a    == ArFeedMagic(p, Slice(c, pos, hi))
<1>1. a = IF Len(q.header_buf) < ArMagicLen THEN NeedsData(q, take)
          ELSE IF ~ Whole(q.header_buf, "arch", ArMagicLen) THEN Refuses(q)
          ELSE NeedsData(next, take)
  BY DEF ArFeedMagic
<1>2. PICK size \in Nat, head \in Nat :
        size = ArMagicLen /\ size > 0 /\ head = ArHeaderSize /\ head > 0
  BY ArAssumption
<1>3. /\ p.state = "ReadingMagic" /\ pos < size /\ p.header_buf = Slice(c, 0, pos)
      /\ p.name_table = None
  BY <1>2 DEF ArAtMagic
<1>4. c \in Seq(ArByte(M)) /\ Bytes("arch", Nobody, size) \in Seq(ArByte(M))
      /\ Len(Bytes("arch", Nobody, size)) = size
  BY <1>2, ArStreamIs, ArMagicIs
<1>5. PICK at \in Nat : FilledTo(c, 0, p, pos, hi, size, at)
  <2>1. 0 \in Nat /\ 0 <= pos /\ pos < 0 + size
    BY <1>3
  <2> QED BY <1>3, <1>4, <2>1, ArFillsOn
<1>6. /\ DOMAIN q = ArFields /\ q.state = "ReadingMagic" /\ q.header_buf = Slice(c, 0, at)
      /\ q.stream_pos = at /\ q.name_table = None /\ Len(q.header_buf) = at /\ at <= size
  BY <1>2, <1>3, <1>5 DEF ArGood, ArFields, FilledTo
<1> HIDE DEF q
<1>7. /\ next.state = "ReadingHeader" /\ next.header_buf = <<>>
      /\ next.stream_pos = at /\ next.name_table = None
  BY <1>6 DEF ArFields
<1>8. Passed(ArHolds(ms), pos, at) = {} /\ ArClear(ms, at)
  BY <1>2, <1>6, ArBeforeMembers
<1> HIDE DEF next, take, a
<1>9. CASE at < size
  <2>1. a = NeedsData(q, take)
    BY <1>1, <1>2, <1>6, <1>9
  <2>2. ArAtMagic(c, q)
    BY <1>2, <1>6, <1>9 DEF ArAtMagic
  <2>3. ArRight(ms, c, q)
    BY <1>6, <1>8, <2>2 DEF ArRight
  <2> QED BY <1>6, <1>8, <2>1, <2>3
          DEF ArRightly, Tells, NeedsData, Answer, a
<1>10. CASE ~ (at < size)
  <2>1. at = size /\ ~ (Len(q.header_buf) < ArMagicLen)
    BY <1>2, <1>6, <1>10
  <2>2. Whole(q.header_buf, "arch", ArMagicLen)
    <3>1. Stands(c, 0, Bytes("arch", Nobody, size))
      BY <1>2, ArStandsIn
    <3>2. Whole(Slice(c, 0, 0 + size), "arch", size)
      BY <1>4, <3>1, WholeRead
    <3> QED BY <1>2, <1>6, <2>1, <3>2
  <2>3. a = NeedsData(next, take)
    BY <1>1, <2>1, <2>2
  <2>4. ArAtHeader(ms, c, next, 1)
    <3>1. ArStart(ms, 1) = size
      BY <1>2, ArStandsIn
    <3>2. Slice(c, size, size) = <<>>
      BY SliceOfNone
    <3>3. TableRead(ms, next, 1 - 1)
      BY <1>7 DEF TableRead
    <3>4. size <= size /\ size < size + head
      BY <1>2
    <3> QED BY <1>2, <1>7, <2>1, <3>1, <3>2, <3>3, <3>4 DEF ArAtHeader, ArBody
  <2>5. 1 \in 1..(Len(ms) + 1)
    BY LenProperties
  <2>6. ArRight(ms, c, next)
    BY <1>7, <1>8, <2>4, <2>5 DEF ArRight
  <2> QED BY <1>7, <1>8, <2>3, <2>6
          DEF ArRightly, Tells, NeedsData, Answer, a
<1> QED
  BY <1>9, <1>10

\* A header read whole: it is refused just when the archive is, and else says what follows.
LEMMA ArHeaderIs ==
  ASSUME NEW M, NEW ms \in Seq(M), M \subseteq ArMembers, NEW k \in 1..Len(ms), NEW p,
         TableRead(ms, p, k - 1)
  PROVE  /\ ArRefused(p, ms[k]) <=> ArUnreadable(ms, k)
         /\ ~ ArUnreadable(ms, k) => ArNameLen(ms[k]) <= ms[k].size
<1>1. PICK n \in Nat : n = Len(ms) /\ ms \in [1..n -> M]
  BY LenProperties
<1>2. ms[k] \in ArMembers
  BY <1>1
<1>3. /\ ms[k].size \in Nat /\ ms[k].namelen \in Nat
      /\ ms[k].naming \in {"short", "long", "bsd", "table", "special"}
  BY <1>2 DEF ArMembers
<1>4. MaxTableSize \in Nat /\ MaxBsdName \in Nat
  BY ArAssumption
<1>5. ms[k].namelen > MaxBsdName \/ ms[k].namelen > ms[k].size
        <=> ms[k].namelen > Fewer(MaxBsdName, ms[k].size)
  BY <1>3, <1>4 DEF Fewer
<1>6. (\E i \in 1..(k - 1) : ms[i].naming = "table") =>
        ~ (p.name_table = None \/ ~ Whole(p.name_table[1], "data", Len(p.name_table[1])))
  BY DEF TableRead
<1>7. ~ (\E i \in 1..(k - 1) : ms[i].naming = "table") => p.name_table = None
  BY DEF TableRead
<1>8. (p.name_table = None \/ ~ Whole(p.name_table[1], "data", Len(p.name_table[1])))
        <=> \A i \in 1..(k - 1) : ms[i].naming # "table"
  BY <1>6, <1>7
<1>9. ~ ArUnreadable(ms, k) => ArNameLen(ms[k]) <= ms[k].size
  BY <1>3, <1>5 DEF ArUnreadable, ArNameLen
<1> QED
  BY <1>5, <1>8, <1>9 DEF ArRefused, ArUnreadable

\* Fed a header, the parser is inside its member.
LEMMA ArHeaderRight ==
  ASSUME NEW M, NEW ms \in Seq(M), M \subseteq ArMembers, ArWell(ms), NEW c, c = ArStream(ms),
         NEW p, ArGood(p, M), NEW pos \in Nat, p.stream_pos = pos, NEW hi \in Nat,
         pos < hi, hi <= Len(c), ArClear(ms, pos),
         NEW k \in 1..Len(ms), ArAtHeader(ms, c, p, k)
  PROVE  ArRightly(ms, c, p, hi, ArFeedHeader(p, Slice(c, pos, hi)))
<1> DEFINE q    == ArFill(p, Slice(c, pos, hi), ArHeaderSize)
           m    == q.header_buf[1].of
           full == [q EXCEPT !.header_buf = <<>>]
           take == q.stream_pos - p.stream_pos
           into(state, n, pad) == [full EXCEPT !.state = state, !.header = Some(m),
                                               !.remaining = n, !.pad = pad, !.buf = <<>>]
           skip == ArSkip(full, m.size, ArPad(m))
           entry == Entry(m.path, m.size, "Regular", None, q.stream_pos)
           refused == ~ Whole(q.header_buf, "head", ArHeaderSize) \/ ArRefused(p, m)
           a    == ArFeedHeader(p, Slice(c, pos, hi))
<1>1. a = IF Len(q.header_buf) < ArHeaderSize THEN NeedsData(q, take)
          ELSE IF refused THEN Refuses(q)
          ELSE CASE m.naming = "special" -> NeedsData(skip, take)
                 [] m.naming = "table" ->
                      NeedsData(into("ReadingNameTable", m.size, ArPad(m)), take)
                 [] m.naming = "bsd" -> NeedsData(into("ReadingBsdName", m.namelen, 0), take)
                 [] m.naming \in {"short", "long"} -> Emits(skip, take, entry)
  BY DEF ArFeedHeader
<1>2. PICK head \in Nat : head = ArHeaderSize /\ head > 0
  BY ArAssumption
<1>3. ArLaid(ms, c, k) /\ c \in Seq(ArByte(M))
  BY ArStandsIn, ArStreamIs
<1>4. PICK from \in Nat, next \in Nat :
        from = ArStart(ms, k) /\ next = ArStart(ms, k + 1) /\ next <= Len(c)
  BY <1>3 DEF ArLaid
<1>5. ms[k] \in M /\ ms[k] \in ArMembers
  BY LenProperties
<1>6. /\ ms[k].size \in Nat /\ ms[k].namelen \in Nat
      /\ ms[k].naming \in {"short", "long", "bsd", "table", "special"}
  BY <1>5 DEF ArMembers
<1>7. PICK name \in Nat, pad \in Nat : name = ArNameLen(ms[k]) /\ pad = ArPad(ms[k])
  BY <1>6 DEF ArNameLen, ArPad
<1>8. /\ p.state = "ReadingHeader" /\ from <= pos /\ pos < from + head
      /\ p.header_buf = Slice(c, from, pos) /\ TableRead(ms, p, k - 1)
      /\ ArBody(ms, k) = from + head /\ ArOffset(ms, k) = (from + head) + name
      /\ (from + head) + name + pad <= next
  BY <1>2, <1>3, <1>4, <1>7 DEF ArAtHeader, ArBody, ArOffset, ArLaid, ArPad
<1>9. PICK at \in Nat : FilledTo(c, from, p, pos, hi, head, at)
  BY <1>3, <1>8, ArFillsOn
<1>10. pos < at /\ at <= hi /\ at <= from + head /\ (at < from + head => at = hi)
  BY <1>9 DEF FilledTo, Fewer
<1>11. /\ DOMAIN q = ArFields /\ q.state = "ReadingHeader"
       /\ q.header_buf = Slice(c, from, at) /\ Len(q.header_buf) = at - from
       /\ q.stream_pos = at /\ q.name_table = p.name_table
  BY <1>2, <1>8, <1>9 DEF ArGood, ArFields, FilledTo
<1>12. TableRead(ms, q, k - 1)
  BY <1>8, <1>11 DEF TableRead
<1> HIDE DEF q
<1>13. /\ Passed(ArHolds(ms), pos, at) =
            IF k \in ArFiles(ms) /\ pos < ArOffset(ms, k) /\ ArOffset(ms, k) <= at
              THEN {ArEntry(ms, k)} ELSE {}
       /\ (pos < ArBody(ms, k) /\ ArBody(ms, k) <= at => ~ ArUnreadable(ms, k)) =>
            ArClear(ms, at)
  <2>1. pos <= at /\ ArStart(ms, k) <= pos /\ at <= ArStart(ms, k + 1)
    BY <1>4, <1>8, <1>10, SMTT(30)
  <2> QED BY <2>1, ArMoves
<1> HIDE DEF take, a
<1>14. CASE at < from + head
  <2>1. a = NeedsData(q, take)
    BY <1>1, <1>2, <1>11, <1>14
  <2>2. ~ (ArBody(ms, k) <= at) /\ ~ (ArOffset(ms, k) <= at)
    BY <1>8, <1>14
  <2>3. ArAtHeader(ms, c, q, k)
    BY <1>4, <1>8, <1>10, <1>11, <1>12, <1>14 DEF ArAtHeader
  <2>4. k \in 1..(Len(ms) + 1)
    BY LenProperties
  <2>5. ArRight(ms, c, q) /\ Passed(ArHolds(ms), pos, at) = {}
    BY <1>11, <1>13, <2>2, <2>3, <2>4 DEF ArRight
  <2> QED BY <1>11, <2>1, <2>5 DEF ArRightly, Tells, NeedsData, Answer, a
<1>15. CASE ~ (at < from + head)
  <2>1. at = from + head /\ at = ArBody(ms, k) /\ ~ (Len(q.header_buf) < ArHeaderSize)
    BY <1>2, <1>8, <1>10, <1>11, <1>15
  <2>2. Whole(q.header_buf, "head", ArHeaderSize) /\ m = ms[k]
    <3>1. Stands(c, from, Bytes("head", ms[k], head))
      BY <1>2, <1>3, <1>4 DEF ArLaid
    <3>2. /\ Whole(Slice(c, from, from + head), "head", head)
          /\ head > 0 => Slice(c, from, from + head)[1].of = ms[k]
      BY <1>3, <1>5, <3>1, ArFieldRead
    <3> QED BY <1>2, <1>11, <2>1, <3>2
  <2> HIDE DEF m
  <2>3. refused <=> ArUnreadable(ms, k)
    BY <1>8, <2>2, ArHeaderIs
  <2>4. CASE ArUnreadable(ms, k)
    <3>1. a = Refuses(q)
      BY <1>1, <2>1, <2>3, <2>4
    <3>2. ~ (hi < ArBody(ms, k))
      BY <1>10, <2>1
    <3>3. ~ ArClear(ms, hi)
      BY <2>4, <3>2 DEF ArClear
    <3> QED BY <3>1, <3>3 DEF ArRightly, Refuses, Answer, a
  <2>5. CASE ~ ArUnreadable(ms, k)
    <3> DEFINE d == ms[k].size
    <3>1. /\ ArNameLen(ms[k]) <= ms[k].size /\ ArClear(ms, at)
          /\ next = (from + head) + d + pad
      <4>1. ArNameLen(ms[k]) <= ms[k].size
        BY <1>12, <2>5, ArHeaderIs
      <4> QED BY <1>3, <1>4, <1>7, <1>8, <1>13, <2>5, <4>1 DEF ArLaid, ArPad
    <3>2. /\ DOMAIN full = ArFields /\ full.header_buf = <<>> /\ full.stream_pos = at
          /\ full.name_table = q.name_table
      BY <1>11 DEF ArFields
    <3>3. TableRead(ms, full, k - 1)
      BY <1>12, <3>2 DEF TableRead
    <3>4. a = CASE m.naming = "special" -> NeedsData(skip, take)
                [] m.naming = "table" ->
                     NeedsData(into("ReadingNameTable", m.size, ArPad(m)), take)
                [] m.naming = "bsd" -> NeedsData(into("ReadingBsdName", m.namelen, 0), take)
                [] m.naming \in {"short", "long"} -> Emits(skip, take, entry)
      BY <1>1, <2>1, <2>3, <2>5
    <3> HIDE DEF full
    <3>5. CASE m.naming \in {"special", "short", "long"}
      <4>1. name = 0 /\ ArOffset(ms, k) = at
        BY <1>7, <1>8, <2>1, <2>2, <3>5 DEF ArNameLen
      <4>2. TableRead(ms, full, k)
        <5>1. ms[k].naming # "table" /\ k \in Nat
          BY <2>2, <3>5, LenProperties
        <5>2. \A i \in 1..k : i \in 1..(k - 1) \/ i = k
          BY <5>1
        <5>3. \A i \in 1..(k - 1) : i \in 1..k
          BY <5>1
        <5>4. (\E i \in 1..k : ms[i].naming = "table")
                <=> (\E i \in 1..(k - 1) : ms[i].naming = "table")
          BY <5>1, <5>2, <5>3
        <5> QED BY <3>3, <5>4 DEF TableRead
      <4>3. /\ skip.stream_pos = at
            /\ ArAtData(ms, skip, k) \/ ArAtHeader(ms, c, skip, k + 1)
        <5>1. at + d + pad = ArStart(ms, k + 1) /\ ArOffset(ms, k) <= at /\ d \in Nat
          BY <1>4, <1>6, <2>1, <3>1, <4>1
        <5>2. /\ pad = ArPad(ms[k]) /\ ArStart(ms, k + 1) \in Nat /\ k \in Nat
              /\ ArNameLen(ms[k]) <= ms[k].size
          BY <1>4, <1>7, <3>1, LenProperties
        <5> HIDE DEF d
        <5>3. ArGoesOn(ms, c, k, ArSkip(full, d, pad), at)
          BY <3>2, <4>2, <5>1, <5>2, ArSkipsTo
        <5> QED BY <1>7, <2>2, <5>3 DEF ArGoesOn, d
      <4> HIDE DEF skip
      <4>4. ArRight(ms, c, skip)
        <5>1. k + 1 \in 1..(Len(ms) + 1)
          BY LenProperties
        <5> QED BY <3>1, <4>3, <5>1 DEF ArRight
      <4>5. CASE m.naming = "special"
        <5>1. a = NeedsData(skip, take)
          BY <3>4, <4>5
        <5>2. k \notin ArFiles(ms)
          BY <2>2, <4>5 DEF ArFiles
        <5>3. Passed(ArHolds(ms), pos, at) = {}
          BY <1>13, <5>2
        <5> QED BY <4>3, <4>4, <5>1, <5>3 DEF ArRightly, Tells, NeedsData, Answer, a
      <4>6. CASE m.naming \in {"short", "long"}
        <5>1. a = Emits(skip, take, entry)
          BY <3>4, <4>6
        <5>2. k \in ArFiles(ms)
          BY <2>2, <4>6 DEF ArFiles, ArWell
        <5>3. entry = ArEntry(ms, k)
          <6>1. ms[k].size - 0 = ms[k].size
            BY <1>6
          <6> QED BY <1>7, <1>11, <2>2, <4>1, <6>1 DEF ArEntry
        <5>4. pos < ArOffset(ms, k) /\ ArOffset(ms, k) <= at
          BY <1>10, <4>1
        <5>5. Passed(ArHolds(ms), pos, at) = {entry}
          BY <1>13, <5>2, <5>3, <5>4
        <5> HIDE DEF entry
        <5> QED BY <4>3, <4>4, <5>1, <5>5 DEF ArRightly, Tells, Emits, Answer, a
      <4> QED BY <3>5, <4>5, <4>6
    <3>6. CASE m.naming = "table"
      <4> DEFINE r == into("ReadingNameTable", m.size, ArPad(m))
      <4>1. a = NeedsData(r, take)
        BY <3>4, <3>6
      <4>2. /\ r.state = "ReadingNameTable" /\ r.remaining = d /\ r.pad = pad
            /\ r.header_buf = <<>> /\ r.buf = <<>> /\ r.stream_pos = at
        BY <1>7, <2>2, <3>2 DEF ArFields
      <4> HIDE DEF r
      <4>3. d > 0 /\ ms[k].naming = "table"
        BY <2>2, <3>6 DEF ArWell
      <4>4. Slice(c, at, at) = <<>> /\ at <= at /\ k \in 1..Len(ms)
        BY SliceOfNone
      <4>5. ArAtTable(ms, c, r, k)
        BY <1>7, <2>1, <4>2, <4>3, <4>4 DEF ArAtTable
      <4>6. ArRight(ms, c, r)
        BY <3>1, <4>2, <4>4, <4>5 DEF ArRight
      <4>7. k \notin ArFiles(ms)
        BY <4>3 DEF ArFiles
      <4>8. Passed(ArHolds(ms), pos, at) = {}
        BY <1>13, <4>7
      <4> QED BY <4>1, <4>2, <4>6, <4>8 DEF ArRightly, Tells, NeedsData, Answer, a
    <3>7. CASE m.naming = "bsd"
      <4> DEFINE r == into("ReadingBsdName", m.namelen, 0)
      <4>1. a = NeedsData(r, take)
        BY <3>4, <3>7
      <4>2. name = ms[k].namelen /\ ms[k].naming = "bsd" /\ name > 0
        BY <1>6, <1>7, <2>2, <3>7 DEF ArNameLen, ArWell
      <4>3. /\ r.state = "ReadingBsdName" /\ r.header = Some(ms[k]) /\ r.remaining = name
            /\ r.header_buf = <<>> /\ r.buf = <<>> /\ r.stream_pos = at
            /\ r.name_table = full.name_table
        BY <2>2, <3>2, <4>2 DEF ArFields
      <4> HIDE DEF r
      <4>4. Slice(c, at, at) = <<>> /\ at <= at /\ k \in 1..Len(ms)
        BY SliceOfNone
      <4>5. TableRead(ms, r, k - 1)
        BY <3>3, <4>3 DEF TableRead
      <4>6. at + name = ArOffset(ms, k)
        BY <1>8, <2>1
      <4>7. ArAtName(ms, c, r, k)
        BY <1>7, <2>1, <3>1, <4>2, <4>3, <4>4, <4>5, <4>6 DEF ArAtName
      <4>8. ArRight(ms, c, r)
        BY <3>1, <4>3, <4>4, <4>7 DEF ArRight
      <4>9. ~ (ArOffset(ms, k) <= at)
        BY <4>2, <4>6
      <4>10. Passed(ArHolds(ms), pos, at) = {}
        BY <1>13, <4>9
      <4> QED BY <4>1, <4>3, <4>8, <4>10 DEF ArRightly, Tells, NeedsData, Answer, a
    <3> QED BY <1>6, <2>2, <3>5, <3>6, <3>7
  <2> QED BY <2>4, <2>5
<1> QED
  BY <1>14, <1>15

\* Fed a name table, the parser is inside its member or past it.
LEMMA ArNameTableRight ==
  ASSUME NEW M, NEW ms \in Seq(M), M \subseteq ArMembers, NEW c, c = ArStream(ms),
         NEW p, ArGood(p, M), NEW pos \in Nat, p.stream_pos = pos, NEW hi \in Nat,
         pos < hi, hi <= Len(c), ArClear(ms, pos),
         NEW k \in 1..Len(ms), ArAtTable(ms, c, p, k)
  PROVE  ArRightly(ms, c, p, hi, ArFeedNameTable(p, Slice(c, pos, hi)))
<1> DEFINE take == Fewer(Len(Slice(c, pos, hi)), p.remaining)
           q    == [ArTook(p, take) EXCEPT !.buf = @ \o Taken(Slice(c, pos, hi), take)]
           full == [q EXCEPT !.name_table = Some(q.buf), !.buf = <<>>]
           skip == ArSkip(full, 0, p.pad)
           a    == ArFeedNameTable(p, Slice(c, pos, hi))
<1>1. a = NeedsData(IF q.remaining > 0 THEN q ELSE skip, take)
  BY DEF ArFeedNameTable
<1>2. PICK head \in Nat : head = ArHeaderSize /\ head > 0
  BY ArAssumption
<1>3. ArLaid(ms, c, k) /\ c \in Seq(ArByte(M))
  BY ArStandsIn, ArStreamIs
<1>4. PICK start \in Nat, next \in Nat :
        start = ArStart(ms, k) /\ next = ArStart(ms, k + 1) /\ next <= Len(c)
  BY <1>3 DEF ArLaid
<1>5. ms[k] \in M /\ ms[k] \in ArMembers /\ k \in Nat
  BY LenProperties
<1>6. PICK size \in Nat, pad \in Nat : size = ms[k].size /\ pad = ArPad(ms[k])
  BY <1>5 DEF ArMembers, ArPad
<1>7. PICK from \in Nat : from = start + head
  OBVIOUS
<1>8. PICK remaining \in Nat : remaining = p.remaining
  BY DEF ArGood
<1>9. /\ p.state = "ReadingNameTable" /\ ms[k].naming = "table"
      /\ remaining > 0 /\ from <= pos /\ pos + remaining = from + size
      /\ p.header_buf = <<>> /\ p.buf = Slice(c, from, pos) /\ p.pad = pad
      /\ ArBody(ms, k) = from
  BY <1>2, <1>4, <1>6, <1>7, <1>8 DEF ArAtTable, ArBody
<1>10. ArNameLen(ms[k]) = 0 /\ k \notin ArFiles(ms) /\ ArNameLen(ms[k]) <= ms[k].size
  BY <1>6, <1>9 DEF ArNameLen, ArFiles
<1>11. next = from + size + pad /\ ArOffset(ms, k) = from
       /\ Stands(c, from, Bytes("data", ms[k], size))
  <2>1. from + 0 = from /\ size - 0 = size
    OBVIOUS
  <2> QED BY <1>3, <1>4, <1>6, <1>9, <1>10, <2>1 DEF ArLaid, ArPad, ArOffset
<1>12. PICK at \in Nat : TakenTo(c, from, pos, hi, remaining, at)
  BY <1>3, <1>9, TakesOn
<1>13. /\ at = Fewer(hi, pos + remaining) /\ pos < at /\ at <= hi /\ at <= pos + remaining
       /\ take = at - pos /\ p.buf \o Taken(Slice(c, pos, hi), take) = Slice(c, from, at)
       /\ Len(Slice(c, from, at)) = at - from
  BY <1>8, <1>9, <1>12 DEF TakenTo
<1> HIDE DEF take
<1>14. /\ DOMAIN q = ArFields /\ q.state = "ReadingNameTable" /\ q.header_buf = <<>>
       /\ q.stream_pos = p.stream_pos + take /\ q.remaining = p.remaining - take
       /\ q.pad = p.pad /\ q.buf = p.buf \o Taken(Slice(c, pos, hi), take)
  BY <1>9 DEF ArGood, ArFields, ArTook
<1> HIDE DEF q
<1>15. q.stream_pos = at /\ q.remaining = (pos + remaining) - at /\ q.buf = Slice(c, from, at)
  <2>1. pos < at /\ at <= pos + remaining
    BY <1>13
  <2>2. PICK d \in Nat : d = at - pos /\ pos + d = at /\ remaining - d = (pos + remaining) - at
    BY <2>1
  <2>3. take = d
    BY <1>13, <2>2
  <2> QED BY <1>8, <1>13, <1>14, <2>2, <2>3
<1>16. ArClear(ms, at) /\ Passed(ArHolds(ms), pos, at) = {}
  <2>1. pos <= at /\ ArStart(ms, k) <= pos /\ at <= ArStart(ms, k + 1)
    <3>1. start <= from /\ from <= pos /\ pos < at /\ at <= pos + remaining
          /\ pos + remaining = from + size /\ next = from + size + pad
      BY <1>2, <1>7, <1>9, <1>11, <1>13
    <3>2. start <= pos /\ pos <= at /\ at <= next
      BY <3>1
    <3> QED BY <1>4, <3>2
  <2>2. ~ (pos < ArBody(ms, k))
    BY <1>9
  <2> QED BY <1>10, <2>1, <2>2, ArMoves
<1> HIDE DEF a
<1>17. CASE q.remaining > 0
  <2>1. a = NeedsData(q, take)
    BY <1>1, <1>17
  <2>2. from <= at /\ at + q.remaining = from + size
    <3>1. from <= pos /\ pos < at /\ pos + remaining = from + size
      BY <1>9, <1>13
    <3>2. from <= at /\ at + ((pos + remaining) - at) = from + size
      BY <3>1
    <3> QED BY <1>15, <3>2
  <2>3. ArAtTable(ms, c, q, k)
    BY <1>6, <1>9, <1>14, <1>15, <1>17, <2>2 DEF ArAtTable
  <2>4. ArRight(ms, c, q)
    BY <1>15, <1>16, <2>3 DEF ArRight
  <2> QED BY <1>15, <1>16, <2>1, <2>4 DEF ArRightly, Tells, NeedsData, Answer, a
<1>18. CASE ~ (q.remaining > 0)
  <2>1. at = from + size
    <3>1. ~ ((pos + remaining) - at > 0)
      BY <1>15, <1>18
    <3>2. at <= pos + remaining /\ pos + remaining = from + size
      BY <1>9, <1>13
    <3> QED BY <3>1, <3>2
  <2>2. /\ DOMAIN full = ArFields /\ full.header_buf = <<>> /\ full.stream_pos = at
        /\ full.name_table = Some(q.buf)
    BY <1>14, <1>15 DEF ArFields
  <2> HIDE DEF full
  <2>3. TableRead(ms, full, k)
    <3>1. full.name_table # None /\ full.name_table[1] = q.buf
      BY <2>2 DEF Some, None
    <3>2. Whole(Slice(c, from, from + size), "data", size)
      BY <1>3, <1>5, <1>11, ArFieldRead
    <3>3. Len(q.buf) = size
      BY <1>13, <1>15, <2>1
    <3>4. Whole(q.buf, "data", Len(q.buf))
      BY <1>15, <2>1, <3>2, <3>3
    <3>5. k \in 1..k
      BY <1>5
    <3> QED BY <1>9, <3>1, <3>4, <3>5 DEF TableRead
  <2>4. ArGoesOn(ms, c, k, ArSkip(full, 0, pad), at)
    <3>1. /\ pad = ArPad(ms[k]) /\ ArStart(ms, k + 1) \in Nat /\ k \in Nat /\ 0 \in Nat
          /\ ArNameLen(ms[k]) <= ms[k].size
      BY <1>4, <1>5, <1>6, <1>10
    <3>2. at + 0 + pad = ArStart(ms, k + 1) /\ ArOffset(ms, k) <= at
      BY <1>4, <1>11, <2>1
    <3> QED BY <2>2, <2>3, <3>1, <3>2, ArSkipsTo
  <2>5. a = NeedsData(skip, take) /\ ArGoesOn(ms, c, k, skip, at)
    BY <1>1, <1>9, <1>18, <2>4
  <2> HIDE DEF skip
  <2>6. ArRight(ms, c, skip)
    <3>1. k + 1 \in 1..(Len(ms) + 1)
      BY LenProperties
    <3> QED BY <1>16, <2>5, <3>1 DEF ArRight, ArGoesOn
  <2> QED BY <1>16, <2>5, <2>6 DEF ArRightly, Tells, NeedsData, Answer, ArGoesOn, a
<1> QED
  BY <1>17, <1>18

\* Fed the name a member's data starts with, the parser is before the rest of the data.
LEMMA ArBsdNameRight ==
  ASSUME NEW M, NEW ms \in Seq(M), M \subseteq ArMembers, ArWell(ms), NEW c, c = ArStream(ms),
         NEW p, ArGood(p, M), NEW pos \in Nat, p.stream_pos = pos, NEW hi \in Nat,
         pos < hi, hi <= Len(c), ArClear(ms, pos),
         NEW k \in 1..Len(ms), ArAtName(ms, c, p, k)
  PROVE  ArRightly(ms, c, p, hi, ArFeedBsdName(p, Slice(c, pos, hi)))
<1> DEFINE take  == Fewer(Len(Slice(c, pos, hi)), p.remaining)
           q     == [ArTook(p, take) EXCEPT !.buf = @ \o Taken(Slice(c, pos, hi), take)]
           m     == p.header[1]
           left  == m.size - m.namelen
           full  == [q EXCEPT !.buf = <<>>]
           skip  == ArSkip(full, left, ArPad(m))
           entry == Entry(m.path, left, "Regular", None, q.stream_pos)
           a     == ArFeedBsdName(p, Slice(c, pos, hi))
<1>1. a = IF q.remaining > 0 THEN NeedsData(q, take)
          ELSE IF m.namelen = 0 \/ ~ Whole(q.buf, "name", m.namelen) THEN Refuses(q)
          ELSE IF m.path = SymbolTable THEN NeedsData(skip, take)
          ELSE Emits(skip, take, entry)
  BY DEF ArFeedBsdName
<1>2. PICK head \in Nat : head = ArHeaderSize /\ head > 0
  BY ArAssumption
<1>3. ArLaid(ms, c, k) /\ c \in Seq(ArByte(M))
  BY ArStandsIn, ArStreamIs
<1>4. PICK start \in Nat, next \in Nat :
        start = ArStart(ms, k) /\ next = ArStart(ms, k + 1) /\ next <= Len(c)
  BY <1>3 DEF ArLaid
<1>5. ms[k] \in M /\ ms[k] \in ArMembers /\ k \in Nat
  BY LenProperties
<1>6. PICK size \in Nat, pad \in Nat, name \in Nat :
        size = ms[k].size /\ pad = ArPad(ms[k]) /\ name = ms[k].namelen
  BY <1>5 DEF ArMembers, ArPad
<1>7. PICK from \in Nat : from = start + head
  OBVIOUS
<1>8. PICK remaining \in Nat : remaining = p.remaining
  BY DEF ArGood
<1>9. /\ p.state = "ReadingBsdName" /\ ms[k].naming = "bsd" /\ p.header = Some(ms[k])
      /\ remaining > 0 /\ from <= pos /\ p.header_buf = <<>> /\ p.buf = Slice(c, from, pos)
      /\ name <= size /\ TableRead(ms, p, k - 1) /\ ArBody(ms, k) = from
      /\ ArNameLen(ms[k]) = name /\ ArNameLen(ms[k]) <= ms[k].size
  BY <1>2, <1>4, <1>6, <1>7, <1>8 DEF ArAtName, ArBody, ArNameLen
<1>10. ArOffset(ms, k) = from + name /\ pos + remaining = from + name
  BY <1>6, <1>8, <1>9 DEF ArAtName, ArOffset, ArNameLen
<1>11. /\ next = (from + size) + pad /\ Stands(c, from, Bytes("name", ms[k], name))
  BY <1>3, <1>4, <1>6, <1>9 DEF ArLaid, ArPad
<1>12. m = ms[k] /\ name > 0
  BY <1>6, <1>9 DEF Some, ArWell
<1>13. PICK rest \in Nat : rest = size - name /\ left = rest
  BY <1>6, <1>9, <1>12
<1>14. PICK at \in Nat : TakenTo(c, from, pos, hi, remaining, at)
  BY <1>3, <1>9, TakesOn
<1>15. /\ at = Fewer(hi, pos + remaining) /\ pos < at /\ at <= hi /\ at <= pos + remaining
       /\ take = at - pos /\ p.buf \o Taken(Slice(c, pos, hi), take) = Slice(c, from, at)
       /\ Len(Slice(c, from, at)) = at - from
  BY <1>8, <1>9, <1>14 DEF TakenTo
<1> HIDE DEF take, m, left
<1>16. /\ DOMAIN q = ArFields /\ q.state = "ReadingBsdName" /\ q.header_buf = <<>>
       /\ q.stream_pos = p.stream_pos + take /\ q.remaining = p.remaining - take
       /\ q.header = p.header /\ q.buf = p.buf \o Taken(Slice(c, pos, hi), take)
       /\ q.name_table = p.name_table
  BY <1>9 DEF ArGood, ArFields, ArTook
<1> HIDE DEF q
<1>17. q.stream_pos = at /\ q.remaining = (pos + remaining) - at /\ q.buf = Slice(c, from, at)
  <2>1. pos < at /\ at <= pos + remaining
    BY <1>15
  <2>2. PICK d \in Nat : d = at - pos /\ pos + d = at /\ remaining - d = (pos + remaining) - at
    BY <2>1
  <2>3. take = d
    BY <1>15, <2>2
  <2> QED BY <1>8, <1>15, <1>16, <2>2, <2>3
<1>18. /\ ArClear(ms, at)
       /\ Passed(ArHolds(ms), pos, at) =
            IF k \in ArFiles(ms) /\ pos < ArOffset(ms, k) /\ ArOffset(ms, k) <= at
              THEN {ArEntry(ms, k)} ELSE {}
  <2>1. pos <= at /\ ArStart(ms, k) <= pos /\ at <= ArStart(ms, k + 1)
    <3>1. start <= from /\ from <= pos /\ pos < at /\ at <= pos + remaining
          /\ pos + remaining = from + name /\ next = (from + size) + pad /\ name <= size
      BY <1>2, <1>7, <1>9, <1>10, <1>11, <1>15
    <3>2. start <= pos /\ pos <= at /\ at <= next
      BY <3>1
    <3> QED BY <1>4, <3>2
  <2>2. ~ (pos < ArBody(ms, k))
    BY <1>9
  <2> QED BY <2>1, <2>2, ArMoves
<1> HIDE DEF a
<1>19. CASE q.remaining > 0
  <2>1. a = NeedsData(q, take)
    BY <1>1, <1>19
  <2>2. from <= at /\ at + q.remaining = ArOffset(ms, k) /\ at < from + name
    <3>1. from <= pos /\ pos < at /\ pos + remaining = from + name /\ (pos + remaining) - at > 0
      BY <1>9, <1>10, <1>15, <1>17, <1>19
    <3>2. from <= at /\ at + ((pos + remaining) - at) = from + name /\ at < from + name
      BY <3>1
    <3> QED BY <1>10, <1>17, <3>2
  <2>3. TableRead(ms, q, k - 1)
    BY <1>9, <1>16 DEF TableRead
  <2>4. ArAtName(ms, c, q, k)
    BY <1>6, <1>9, <1>16, <1>17, <1>19, <2>2, <2>3 DEF ArAtName
  <2>5. ArRight(ms, c, q)
    BY <1>17, <1>18, <2>4 DEF ArRight
  <2>6. Passed(ArHolds(ms), pos, at) = {}
    BY <1>10, <1>18, <2>2
  <2> QED BY <1>17, <2>1, <2>5, <2>6 DEF ArRightly, Tells, NeedsData, Answer, a
<1>20. CASE ~ (q.remaining > 0)
  <2>1. at = from + name
    BY <1>10, <1>15, <1>17, <1>20
  <2>2. /\ DOMAIN full = ArFields /\ full.header_buf = <<>> /\ full.stream_pos = at
        /\ full.name_table = q.name_table
    BY <1>16, <1>17 DEF ArFields
  <2> HIDE DEF full
  <2>3. TableRead(ms, full, k)
    <3>1. ms[k].naming # "table" /\ k \in Nat
      BY <1>5, <1>9
    <3>2. \A i \in 1..k : i \in 1..(k - 1) \/ i = k
      BY <3>1
    <3>3. \A i \in 1..(k - 1) : i \in 1..k
      BY <3>1
    <3>4. (\E i \in 1..k : ms[i].naming = "table")
            <=> (\E i \in 1..(k - 1) : ms[i].naming = "table")
      BY <3>1, <3>2, <3>3
    <3>5. full.name_table = p.name_table
      BY <1>16, <2>2
    <3> QED BY <1>9, <3>4, <3>5 DEF TableRead
  <2>4. m.namelen # 0 /\ Whole(q.buf, "name", m.namelen)
    <3>1. Whole(Slice(c, from, from + name), "name", name)
      BY <1>3, <1>5, <1>11, ArFieldRead
    <3> QED BY <1>6, <1>12, <1>17, <2>1, <3>1
  <2>5. ArGoesOn(ms, c, k, ArSkip(full, rest, pad), at)
    <3>1. /\ pad = ArPad(ms[k]) /\ ArStart(ms, k + 1) \in Nat /\ k \in Nat /\ rest \in Nat
          /\ ArNameLen(ms[k]) <= ms[k].size
      BY <1>4, <1>5, <1>6, <1>9
    <3>2. at + rest + pad = ArStart(ms, k + 1) /\ ArOffset(ms, k) <= at
      <4>1. at + rest + pad = (from + size) + pad /\ from + name <= at
        BY <1>13, <2>1
      <4> QED BY <1>4, <1>10, <1>11, <4>1
    <3> QED BY <2>2, <2>3, <3>1, <3>2, ArSkipsTo
  <2>6. ArGoesOn(ms, c, k, skip, at)
    BY <1>6, <1>12, <1>13, <2>5
  <2> HIDE DEF skip
  <2>7. ArRight(ms, c, skip)
    <3>1. k + 1 \in 1..(Len(ms) + 1)
      BY LenProperties
    <3> QED BY <1>18, <2>6, <3>1 DEF ArRight, ArGoesOn
  <2>8. CASE m.path = SymbolTable
    <3>1. a = NeedsData(skip, take)
      BY <1>1, <1>20, <2>4, <2>8
    <3>2. Passed(ArHolds(ms), pos, at) = {}
      BY <1>12, <1>18, <2>8 DEF ArFiles
    <3> QED BY <2>6, <2>7, <3>1, <3>2 DEF ArRightly, Tells, NeedsData, Answer, ArGoesOn, a
  <2>9. CASE m.path # SymbolTable
    <3>1. a = Emits(skip, take, entry)
      BY <1>1, <1>20, <2>4, <2>9
    <3>2. k \in ArFiles(ms)
      BY <1>9, <1>12, <2>9 DEF ArFiles
    <3>3. entry = ArEntry(ms, k)
      BY <1>6, <1>9, <1>10, <1>12, <1>13, <1>17, <2>1 DEF ArEntry
    <3>4. pos < ArOffset(ms, k) /\ ArOffset(ms, k) <= at
      BY <1>10, <1>15, <2>1
    <3>5. Passed(ArHolds(ms), pos, at) = {entry}
      BY <1>18, <3>2, <3>3, <3>4
    <3> HIDE DEF entry
    <3> QED BY <2>6, <2>7, <3>1, <3>5 DEF ArRightly, Tells, Emits, Answer, ArGoesOn, a
  <2> QED BY <2>8, <2>9
<1> QED
  BY <1>19, <1>20

\* Fed data that is skipped, the parser is further on in it or at the next header.
LEMMA ArSkipRight ==
  ASSUME NEW M, NEW ms \in Seq(M), M \subseteq ArMembers, NEW c, c = ArStream(ms),
         NEW p, ArGood(p, M), NEW pos \in Nat, p.stream_pos = pos, NEW hi \in Nat,
         pos < hi, hi <= Len(c), ArClear(ms, pos),
         NEW k \in 1..Len(ms), ArAtData(ms, p, k)
  PROVE  ArRightly(ms, c, p, hi, ArFeedSkip(p, Slice(c, pos, hi)))
<1> DEFINE take == Fewer(Len(Slice(c, pos, hi)), p.remaining)
           less == Fewer(p.pad, p.remaining - take)
           q    == [ArTook(p, take) EXCEPT !.pad = Fewer(@, p.remaining - take)]
           goon == [q EXCEPT !.state = "ReadingHeader"]
           a    == ArFeedSkip(p, Slice(c, pos, hi))
<1>1. a = NeedsData(IF q.remaining = 0 THEN goon ELSE q, take)
  BY DEF ArFeedSkip
<1>2. PICK head \in Nat : head = ArHeaderSize /\ head > 0
  BY ArAssumption
<1>3. ArLaid(ms, c, k) /\ c \in Seq(ArByte(M))
  BY ArStandsIn, ArStreamIs
<1>4. PICK start \in Nat, next \in Nat :
        start = ArStart(ms, k) /\ next = ArStart(ms, k + 1) /\ next <= Len(c)
  BY <1>3 DEF ArLaid
<1>5. ms[k] \in M /\ ms[k] \in ArMembers /\ k \in Nat
  BY LenProperties
<1>6. PICK pad \in Nat, name \in Nat : pad = ArPad(ms[k]) /\ name = ArNameLen(ms[k])
  BY <1>5 DEF ArMembers, ArPad, ArNameLen
<1>7. PICK offset \in Nat : offset = ArOffset(ms, k) /\ start + head <= offset
  BY <1>2, <1>4, <1>6 DEF ArOffset, ArBody
<1>8. PICK remaining \in Nat : remaining = p.remaining
  BY DEF ArGood
<1>9. /\ p.state = "SkippingData" /\ remaining > 0 /\ offset <= pos
      /\ pos + remaining = next /\ p.header_buf = <<>> /\ p.pad = Fewer(pad, remaining)
      /\ ArNameLen(ms[k]) <= ms[k].size /\ TableRead(ms, p, k)
  BY <1>4, <1>6, <1>7, <1>8 DEF ArAtData
<1>10. PICK at \in Nat : TakenTo(c, pos, pos, hi, remaining, at)
  <2>1. pos <= pos /\ pos < hi /\ hi <= Len(c) /\ remaining > 0
    BY <1>9
  <2> QED BY <1>3, <2>1, TakesOn
<1>11. pos < at /\ at <= hi /\ at <= pos + remaining /\ take = at - pos
  BY <1>8, <1>10 DEF TakenTo
<1> HIDE DEF take
<1>12. PICK left \in Nat : left = (pos + remaining) - at
  BY <1>11
<1>13. p.remaining - take = left /\ p.stream_pos + take = at /\ left <= remaining
       /\ at + left = next
  <2>1. PICK d \in Nat : d = at - pos /\ pos + d = at /\ remaining - d = left
    BY <1>11, <1>12
  <2>2. take = d
    BY <1>11, <2>1
  <2>3. left <= remaining /\ at + left = next
    BY <1>9, <1>11, <1>12
  <2> QED BY <1>8, <2>1, <2>2, <2>3
<1>14. /\ DOMAIN q = ArFields /\ q.state = "SkippingData" /\ q.header_buf = <<>>
       /\ q.stream_pos = at /\ q.remaining = left /\ q.pad = less
       /\ q.name_table = p.name_table
  BY <1>9, <1>13 DEF ArGood, ArFields, ArTook
<1>15. less = Fewer(pad, left)
  BY <1>9, <1>13 DEF Fewer
<1> HIDE DEF q, less
<1>16. ArClear(ms, at) /\ Passed(ArHolds(ms), pos, at) = {}
  <2>1. pos <= at /\ ArStart(ms, k) <= pos /\ at <= ArStart(ms, k + 1)
    <3>1. start <= pos /\ pos <= at /\ at <= next
      BY <1>2, <1>7, <1>9, <1>11
    <3> QED BY <1>4, <3>1
  <2>2. ~ (pos < ArBody(ms, k)) /\ ~ (pos < ArOffset(ms, k))
    <3>1. ArBody(ms, k) = start + head
      BY <1>2, <1>4 DEF ArBody
    <3>2. ~ (pos < start + head) /\ ~ (pos < offset)
      BY <1>7, <1>9
    <3> QED BY <1>7, <3>1, <3>2
  <2> QED BY <2>1, <2>2, ArMoves
<1>17. TableRead(ms, q, k)
  BY <1>9, <1>14 DEF TableRead
<1> HIDE DEF a
<1>18. CASE left # 0
  <2>1. a = NeedsData(q, take)
    BY <1>1, <1>14, <1>18
  <2>2. offset <= at /\ left > 0
    BY <1>9, <1>11, <1>18
  <2>3. ArAtData(ms, q, k)
    BY <1>4, <1>6, <1>7, <1>9, <1>13, <1>14, <1>15, <1>17, <2>2 DEF ArAtData
  <2>4. ArRight(ms, c, q)
    BY <1>14, <1>16, <2>3 DEF ArRight
  <2> QED BY <1>14, <1>16, <2>1, <2>4 DEF ArRightly, Tells, NeedsData, Answer, a
<1>19. CASE left = 0
  <2>1. a = NeedsData(goon, take)
    BY <1>1, <1>14, <1>19
  <2>2. /\ goon.state = "ReadingHeader" /\ goon.header_buf = <<>> /\ goon.stream_pos = at
        /\ goon.name_table = q.name_table
    BY <1>14 DEF ArFields
  <2> HIDE DEF goon
  <2>3. at = next
    BY <1>13, <1>19
  <2>4. TableRead(ms, goon, (k + 1) - 1)
    <3>1. (k + 1) - 1 = k
      BY <1>5
    <3> QED BY <1>17, <2>2, <3>1 DEF TableRead
  <2>5. next <= next /\ next < next + head /\ ArBody(ms, k + 1) = next + head
    <3>1. ArBody(ms, k + 1) = next + head
      BY <1>2, <1>4 DEF ArBody
    <3> QED BY <1>2, <3>1
  <2>6. Slice(c, next, next) = <<>>
    BY SliceOfNone
  <2>7. ArAtHeader(ms, c, goon, k + 1)
    BY <1>4, <2>2, <2>3, <2>4, <2>5, <2>6 DEF ArAtHeader
  <2>8. k + 1 \in 1..(Len(ms) + 1)
    BY LenProperties
  <2>9. ArRight(ms, c, goon)
    BY <1>16, <2>2, <2>7, <2>8 DEF ArRight
  <2> QED BY <1>16, <2>1, <2>2, <2>9 DEF ArRightly, Tells, NeedsData, Answer, a
<1> QED
  BY <1>18, <1>19

\* A slice of some bytes is not empty.
LEMMA SliceIsSome ==
  ASSUME NEW S, NEW c \in Seq(S), NEW pos \in Nat, NEW hi \in Nat, pos < hi, hi <= Len(c)
  PROVE  Slice(c, pos, hi) # <<>>
<1>1. PICK n \in Nat : n = hi - pos /\ n # 0
  OBVIOUS
<1>2. pos <= hi
  OBVIOUS
<1>3. Len(Slice(c, pos, hi)) = n
  BY <1>1, <1>2, SliceIs
<1> QED
  BY <1>1, <1>3

\* feed(): fed what stands there, the ar parser stays right, and tells of an entry when it
\* passes where its data starts.
LEMMA ArFedRight ==
  ASSUME NEW M, NEW ms \in Seq(M), M \subseteq ArMembers, ArWell(ms), NEW c, c = ArStream(ms),
         NEW p, ArGood(p, M), ArRight(ms, c, p), NEW pos \in Nat, p.stream_pos = pos,
         NEW hi \in Nat, pos < hi, hi <= Len(c)
  PROVE  ArRightly(ms, c, p, hi, ArFeed(p, Slice(c, pos, hi)))
<1> DEFINE data == Slice(c, pos, hi)
<1>1. c \in Seq(ArByte(M)) /\ ArClear(ms, pos)
  BY ArStreamIs DEF ArRight
<1>2. data # <<>>
  BY <1>1, SliceIsSome
<1>3. ArFeed(p, data) = CASE p.state = "ReadingMagic"     -> ArFeedMagic(p, data)
                          [] p.state = "ReadingHeader"    -> ArFeedHeader(p, data)
                          [] p.state = "ReadingNameTable" -> ArFeedNameTable(p, data)
                          [] p.state = "ReadingBsdName"   -> ArFeedBsdName(p, data)
                          [] p.state = "SkippingData"     -> ArFeedSkip(p, data)
  <2> HIDE DEF data
  <2> QED BY <1>2 DEF ArFeed, ArGood
<1>4. CASE ArAtMagic(c, p)
  <2>1. ArFeed(p, data) = ArFeedMagic(p, data)
    BY <1>3, <1>4 DEF ArAtMagic
  <2>2. ArRightly(ms, c, p, hi, ArFeedMagic(p, data))
    BY <1>4, ArMagicRight
  <2> QED BY <2>1, <2>2
<1>5. ASSUME NEW k \in 1..(Len(ms) + 1), ArAtHeader(ms, c, p, k)
      PROVE  ArRightly(ms, c, p, hi, ArFeed(p, data))
  <2>1. ArFeed(p, data) = ArFeedHeader(p, data)
    BY <1>3, <1>5 DEF ArAtHeader
  <2>2. k \in 1..Len(ms)
    <3>1. PICK n \in Nat : n = Len(ms)
      BY LenProperties
    <3>2. ArStart(ms, k) <= pos
      BY <1>5 DEF ArAtHeader
    <3>3. PICK len \in Nat : len = Len(c) /\ ArStart(ms, n + 1) = len
      BY <1>1, <3>1, ArStandsIn, LenProperties
    <3>4. k # n + 1
      BY <3>2, <3>3
    <3> QED BY <3>1, <3>4
  <2>3. ArRightly(ms, c, p, hi, ArFeedHeader(p, data))
    BY <1>1, <1>5, <2>2, ArHeaderRight
  <2> QED BY <2>1, <2>3
<1>6. ASSUME NEW k \in 1..Len(ms), ArAtTable(ms, c, p, k)
      PROVE  ArRightly(ms, c, p, hi, ArFeed(p, data))
  <2>1. ArFeed(p, data) = ArFeedNameTable(p, data)
    BY <1>3, <1>6 DEF ArAtTable
  <2>2. ArRightly(ms, c, p, hi, ArFeedNameTable(p, data))
    BY <1>1, <1>6, ArNameTableRight
  <2> QED BY <2>1, <2>2
<1>7. ASSUME NEW k \in 1..Len(ms), ArAtName(ms, c, p, k)
      PROVE  ArRightly(ms, c, p, hi, ArFeed(p, data))
  <2>1. ArFeed(p, data) = ArFeedBsdName(p, data)
    BY <1>3, <1>7 DEF ArAtName
  <2>2. ArRightly(ms, c, p, hi, ArFeedBsdName(p, data))
    BY <1>1, <1>7, ArBsdNameRight
  <2> QED BY <2>1, <2>2
<1>8. ASSUME NEW k \in 1..Len(ms), ArAtData(ms, p, k)
      PROVE  ArRightly(ms, c, p, hi, ArFeed(p, data))
  <2>1. ArFeed(p, data) = ArFeedSkip(p, data)
    BY <1>3, <1>8 DEF ArAtData
  <2>2. ArRightly(ms, c, p, hi, ArFeedSkip(p, data))
    BY <1>1, <1>8, ArSkipRight
  <2> QED BY <2>1, <2>2
<1> QED
  BY <1>4, <1>5, <1>6, <1>7, <1>8 DEF ArRight

\* The places of a member, its name's length and its padding.
ArPlaced(ms, k, from, name, pad, next) ==
  /\ from = ArStart(ms, k) /\ next = ArStart(ms, k + 1)
  /\ name = ArNameLen(ms[k]) /\ pad = ArPad(ms[k])
  /\ ArBody(ms, k) = from + ArHeaderSize /\ ArOffset(ms, k) = (from + ArHeaderSize) + name
  /\ ArMagicLen <= from /\ (from + ArHeaderSize) + name + pad <= next

\* end_of_stream(): the parser may end just where the archive may.
LEMMA ArEndsRight ==
  ASSUME NEW M, NEW ms \in Seq(M), M \subseteq ArMembers, NEW c, c = ArStream(ms),
         NEW p, ArGood(p, M), ArRight(ms, c, p), NEW pos \in Nat, p.stream_pos = pos,
         pos <= Len(c)
  PROVE  ArMayEnd(p) <=> pos \in ArEnds(ms)
<1>1. PICK n \in Nat : n = Len(ms) /\ ms \in [1..n -> M]
  BY LenProperties
<1>2. PICK size \in Nat, head \in Nat :
        size = ArMagicLen /\ size > 0 /\ head = ArHeaderSize /\ head > 0
  BY ArAssumption
<1>3. /\ c \in Seq(ArByte(M)) /\ ArStart(ms, n + 1) = Len(c)
      /\ \A k \in 1..n : ArLaid(ms, c, k)
      /\ \A k \in 1..(n + 1) : ArStart(ms, k) \in Nat /\ ArStart(ms, k) <= Len(c)
      /\ ArStart(ms, 1) = size
  BY <1>1, <1>2, ArStandsIn, ArStreamIs
<1>4. PICK len \in Nat : len = Len(c)
  BY <1>3, LenProperties
<1>5. ASSUME NEW k \in 1..n
      PROVE  \E from \in Nat, name \in Nat, pad \in {0, 1}, next \in Nat :
               ArPlaced(ms, k, from, name, pad, next)
  <2>1. ms[k] \in ArMembers
    BY <1>1
  <2>2. ms[k].size \in Nat /\ ArNameLen(ms[k]) \in Nat
    BY <2>1 DEF ArMembers, ArNameLen
  <2>3. ArPad(ms[k]) \in {0, 1}
    BY <2>2 DEF ArPad
  <2>4. PICK s \in Nat, name \in Nat : s = ArStart(ms, k) /\ name = ArNameLen(ms[k])
    BY <1>3, <2>2 DEF ArLaid
  <2>5. ArBody(ms, k) = s + ArHeaderSize /\ ArOffset(ms, k) = (s + ArHeaderSize) + name
    BY <1>2, <2>4 DEF ArBody, ArOffset
  <2>6. PICK pad \in {0, 1} : pad = ArPad(ms[k])
    BY <2>3
  <2>7. PICK t \in Nat : t = ArStart(ms, k + 1)
    BY <1>3 DEF ArLaid
  <2>8. ArMagicLen <= s /\ (s + ArHeaderSize) + name + pad <= t
    BY <1>3, <2>4, <2>5, <2>6, <2>7 DEF ArLaid, ArPad
  <2> QED BY <2>4, <2>5, <2>6, <2>7, <2>8 DEF ArPlaced
<1>6. CASE ArAtMagic(c, p)
  <2>1. p.state = "ReadingMagic" /\ pos < size
    BY <1>2, <1>6 DEF ArAtMagic
  <2>2. ASSUME NEW k \in 1..(n + 1) PROVE ArStart(ms, k) # pos
    <3>1. CASE k = 1
      BY <1>3, <2>1, <3>1
    <3>2. CASE k # 1
      <4>1. PICK i \in 1..n : i + 1 = k
        BY <3>2
      <4>2. PICK from \in Nat, name \in Nat, pad \in {0, 1}, next \in Nat :
              ArPlaced(ms, i, from, name, pad, next)
        BY <1>5
      <4>3. size <= from /\ (from + head) + name + pad <= next /\ next = ArStart(ms, k)
        BY <1>2, <4>1, <4>2 DEF ArPlaced
      <4>4. pos < next
        BY <2>1, <4>3
      <4> QED BY <4>3, <4>4
    <3> QED BY <3>1, <3>2
  <2>3. ASSUME NEW k \in 1..n, ms[k].size % 2 = 1 PROVE ArStart(ms, k + 1) - 1 # pos
    <3>1. PICK from \in Nat, name \in Nat, pad \in {0, 1}, next \in Nat :
            ArPlaced(ms, k, from, name, pad, next)
      BY <1>5
    <3>2. /\ size <= from /\ (from + head) + name + 1 <= next /\ next = ArStart(ms, k + 1)
      BY <1>2, <2>3, <3>1 DEF ArPlaced, ArPad
    <3>3. next - 1 # pos
      BY <1>2, <2>1, <3>2
    <3> QED BY <3>2, <3>3
  <2>4. pos \notin ArEnds(ms)
    BY <1>1, <2>2, <2>3 DEF ArEnds
  <2> QED BY <2>1, <2>4 DEF ArMayEnd
<1>7. ASSUME NEW k \in 1..n, ArStart(ms, k) < pos, pos < ArStart(ms, k + 1)
      PROVE  pos \in ArEnds(ms) <=> pos = ArStart(ms, k + 1) - 1 /\ ArPad(ms[k]) = 1
  BY <1>1, <1>7, ArEndsInside DEF ArPad
<1>8. ASSUME NEW k \in 1..(n + 1), ArAtHeader(ms, c, p, k)
      PROVE  ArMayEnd(p) <=> pos \in ArEnds(ms)
  <2>1. PICK from \in Nat : from = ArStart(ms, k)
    BY <1>3
  <2>2. /\ p.state = "ReadingHeader" /\ from <= pos /\ pos < from + head
        /\ p.header_buf = Slice(c, from, pos)
    BY <1>2, <1>8, <2>1 DEF ArAtHeader, ArBody
  <2>3. CASE pos = from
    <3>1. p.header_buf = <<>>
      BY <2>1, <2>2, <2>3, SliceOfNone
    <3>2. pos \in ArEnds(ms)
      BY <1>1, <2>1, <2>3 DEF ArEnds
    <3> QED BY <2>2, <3>1, <3>2 DEF ArMayEnd
  <2>4. CASE pos # from
    <3>1. from < pos
      BY <2>2, <2>4
    <3>2. p.header_buf # <<>>
      BY <1>3, <2>2, <3>1, SliceIsSome
    <3>3. k \in 1..n
      <4>1. k # n + 1
        BY <1>3, <1>4, <2>1, <3>1
      <4> QED BY <4>1
    <3>4. PICK start \in Nat, name \in Nat, pad \in {0, 1}, next \in Nat :
            ArPlaced(ms, k, start, name, pad, next)
      BY <1>5, <3>3
    <3>5. /\ next = ArStart(ms, k + 1) /\ pad = ArPad(ms[k])
          /\ (from + head) + name + pad <= next
      BY <1>2, <2>1, <3>4 DEF ArPlaced
    <3>6. pos < next /\ ~ (pos = next - 1 /\ pad = 1)
      BY <2>2, <3>5
    <3>7. pos \notin ArEnds(ms)
      BY <1>7, <2>1, <3>1, <3>3, <3>5, <3>6
    <3> QED BY <2>2, <3>2, <3>7 DEF ArMayEnd
  <2> QED BY <2>3, <2>4
<1>9. ASSUME NEW k \in 1..n, ArAtTable(ms, c, p, k) \/ ArAtName(ms, c, p, k)
      PROVE  ArMayEnd(p) <=> pos \in ArEnds(ms)
  <2>1. p.state \in {"ReadingNameTable", "ReadingBsdName"}
    BY <1>9 DEF ArAtTable, ArAtName
  <2>2. PICK from \in Nat, name \in Nat, pad \in {0, 1}, next \in Nat :
          ArPlaced(ms, k, from, name, pad, next)
    BY <1>5
  <2>3. PICK remaining \in Nat : remaining = p.remaining
    BY DEF ArGood
  <2>4. PICK data \in Nat : data = ms[k].size
    BY <1>1 DEF ArMembers
  <2>5. /\ next = ArStart(ms, k + 1) /\ pad = ArPad(ms[k]) /\ from = ArStart(ms, k)
        /\ (from + head) + name + pad <= next
    BY <1>2, <2>2 DEF ArPlaced
  <2>6. from + head <= pos /\ pos < next /\ ~ (pos = next - 1 /\ pad = 1)
    <3>1. CASE ArAtTable(ms, c, p, k)
      <4>1. /\ remaining > 0 /\ from + head <= pos /\ pos + remaining = (from + head) + data
            /\ name = 0
        BY <1>2, <2>2, <2>3, <2>4, <3>1 DEF ArAtTable, ArNameLen, ArPlaced
      <4>2. next = (from + head) + data + pad
        <5>1. ArNameLen(ms[k]) <= ms[k].size
          BY <2>2, <2>4, <4>1 DEF ArPlaced
        <5> QED BY <1>1, <1>2, <1>3, <2>2, <2>4, <5>1 DEF ArLaid, ArPad, ArPlaced
      <4> QED BY <4>1, <4>2
    <3>2. CASE ArAtName(ms, c, p, k)
      <4>1. remaining > 0 /\ from + head <= pos /\ pos + remaining = (from + head) + name
        BY <1>2, <2>2, <2>3, <3>2 DEF ArAtName, ArPlaced
      <4>2. pad \in Nat
        OBVIOUS
      <4>3. from + head <= pos /\ pos < (from + head) + name
        BY <4>1
      <4>4. pos < next /\ (pad = 1 => pos < next - 1)
        BY <2>5, <4>2, <4>3, SMTT(30)
      <4> QED BY <4>3, <4>4
    <3> QED BY <1>9, <3>1, <3>2
  <2>7. ArStart(ms, k) < pos
    BY <1>2, <2>6, <2>5
  <2>8. pos \notin ArEnds(ms)
    BY <1>7, <2>6, <2>7, <2>5
  <2> QED BY <2>1, <2>8 DEF ArMayEnd
<1>10. ASSUME NEW k \in 1..n, ArAtData(ms, p, k)
       PROVE  ArMayEnd(p) <=> pos \in ArEnds(ms)
  <2>1. PICK from \in Nat, name \in Nat, pad \in {0, 1}, next \in Nat :
          ArPlaced(ms, k, from, name, pad, next)
    BY <1>5
  <2>2. PICK remaining \in Nat : remaining = p.remaining
    BY DEF ArGood
  <2>3. /\ p.state = "SkippingData" /\ remaining > 0 /\ (from + head) + name <= pos
        /\ pos + remaining = next /\ p.pad = Fewer(pad, remaining)
    BY <1>2, <1>10, <2>1, <2>2 DEF ArAtData, ArPlaced
  <2>4. from < pos /\ pos < next
    BY <1>2, <2>3
  <2>5. remaining <= Fewer(pad, remaining) <=> pos = next - 1 /\ pad = 1
    BY <2>3 DEF Fewer
  <2>6. pos \in ArEnds(ms) <=> pos = next - 1 /\ pad = 1
    BY <1>7, <2>1, <2>4 DEF ArPlaced
  <2> QED BY <2>2, <2>3, <2>5, <2>6 DEF ArMayEnd
<1> QED
  BY <1>1, <1>6, <1>8, <1>9, <1>10 DEF ArRight

-----------------------------------------------------------------------------
(***************************************************************************)
(* The tar archive: where its members stand in it.                         *)
(***************************************************************************)
TarLens(ms) == [i \in 1..Len(ms) |-> Len(TarBytes(ms[i]))]

\* Where a member's header ends and its data starts.
TarBody(ms, k) == TarStart(ms, k) + Block

\* Where the archive ends.
TarLength(ms) == TarStart(ms, Len(ms) + 1) + 2 * Block

\* Padding to whole blocks leaves room for what is padded.
LEMMA PaddedFits ==
  ASSUME NEW n \in Nat
  PROVE  Padded(n) \in Nat /\ n <= Padded(n)
<1>1. Padded(n) \in Nat
  BY PaddedIs
<1>2. PICK b \in Nat : b = Block /\ b > 0
  BY TarAssumption
<1>3. PICK x \in Nat : x = n + b - 1
  BY <1>2
<1>4. x = b * (x \div b) + (x % b) /\ x % b < b /\ x % b \in Nat /\ x \div b \in Nat
  BY <1>2, SMT
<1>5. PICK k \in Nat, r \in Nat : k = x \div b /\ r = x % b
  BY <1>4
<1>6. x = b * k + r /\ r < b
  BY <1>4, <1>5
<1>7. k * b = b * k /\ b * k \in Nat
  OBVIOUS
<1>8. PICK y \in Nat : y = b * k
  BY <1>7
<1>9. n <= y
  BY <1>2, <1>3, <1>6, <1>8
<1> QED
  BY <1>1, <1>2, <1>3, <1>5, <1>7, <1>8, <1>9 DEF Padded

\* What is read where a field of a member stands.
LEMMA TarFieldRead ==
  ASSUME NEW M, NEW m \in M, NEW kind \in {"head", "data"}, NEW n \in Nat,
         NEW c \in Seq(TarByte(M)), NEW from \in Nat, Stands(c, from, Bytes(kind, m, n))
  PROVE  /\ Whole(Slice(c, from, from + n), kind, n)
         /\ n > 0 => Slice(c, from, from + n)[1].of = m
<1>1. ASSUME NEW kinds, kinds = {"head", "data"}
      PROVE  /\ Whole(Slice(c, from, from + n), kind, n)
             /\ n > 0 => Slice(c, from, from + n)[1].of = m
  <2>1. Byte(kinds, M) \subseteq TarByte(M) /\ kind \in kinds
    BY <1>1 DEF TarByte
  <2> QED BY <2>1, FieldRead
<1> QED
  BY <1>1

\* The bytes of a member.
LEMMA TarBytesAre ==
  ASSUME NEW M, M \subseteq TarMembers, NEW m \in M
  PROVE  /\ TarBytes(m) \in Seq(TarByte(M))
         /\ m.type = "Zeros" => /\ Len(TarBytes(m)) = Block
                                /\ Stands(TarBytes(m), 0, Zeros(Block))
         /\ m.type # "Zeros" => /\ Len(TarBytes(m)) = Block + Padded(m.stored)
                                /\ Stands(TarBytes(m), 0, Bytes("head", m, Block))
                                /\ Stands(TarBytes(m), Block, Bytes("data", m, m.stored))
<1> DEFINE B == TarByte(M)
           kinds == {"head", "data"}
           u == Bytes("head", m, Block)
           v == Bytes("data", m, m.stored)
           w == Zeros(Padded(m.stored) - m.stored)
<1>1. PICK b \in Nat, n \in Nat, l \in Nat :
        b = Block /\ n = m.stored /\ l = Padded(m.stored) /\ n <= l
  <2>1. m.stored \in Nat
    BY DEF TarMembers
  <2> QED BY <2>1, PaddedFits, TarAssumption
<1>2. Byte(kinds, M) \subseteq B /\ ZeroByte \subseteq B
  BY DEF TarByte
<1>3. u \in Seq(Byte(kinds, M)) /\ Len(u) = b /\ v \in Seq(Byte(kinds, M)) /\ Len(v) = n
  <2>1. "head" \in kinds /\ "data" \in kinds
    OBVIOUS
  <2> HIDE DEF kinds
  <2>2. Block \in Nat /\ m.stored \in Nat
    BY <1>1
  <2>3. Block \in Int /\ m.stored \in Int
    BY <2>2
  <2>4. u \in Seq(Byte(kinds, M))
    BY <2>1, <2>3, BytesAre
  <2>5. v \in Seq(Byte(kinds, M))
    BY <2>1, <2>3, BytesAre
  <2>6. Len(u) = Block
    BY <2>1, <2>2, BytesLong
  <2>7. Len(Bytes("data", m, n)) = n
    BY <2>1, BytesLong
  <2> QED BY <1>1, <2>4, <2>5, <2>6, <2>7
<1>4. w \in Seq(ZeroByte) /\ Len(w) = l - n
  <2>1. l - n \in Int /\ l - n >= 0
    BY <1>1
  <2> QED BY <1>1, <2>1, ZerosAre
<1>5. Zeros(Block) \in Seq(ZeroByte) /\ Len(Zeros(Block)) = Block
  BY <1>1, ZerosAre
<1> HIDE DEF B, kinds, u, v, w
<1>6. u \in Seq(B) /\ v \in Seq(B) /\ w \in Seq(B) /\ Zeros(Block) \in Seq(B)
  BY <1>2, <1>3, <1>4, <1>5, SeqMonotonic
<1>7. CASE m.type = "Zeros"
  <2>1. TarBytes(m) = Zeros(Block)
    BY <1>7 DEF TarBytes
  <2>2. Stands(Zeros(Block), 0, Zeros(Block))
    BY <1>1, <1>5 DEF Stands
  <2> QED BY <1>5, <1>6, <1>7, <2>1, <2>2 DEF B
<1>8. CASE m.type # "Zeros"
  <2> DEFINE uv == u \o v
             t  == uv \o w
  <2>1. TarBytes(m) = t
    BY <1>8 DEF TarBytes, u, v, w
  <2>2. uv \in Seq(B) /\ Len(uv) = b + n
    BY <1>3, <1>6, ConcatProperties
  <2> HIDE DEF uv
  <2>3. t \in Seq(B) /\ Len(t) = (b + n) + (l - n)
    BY <1>4, <1>6, <2>2, ConcatProperties
  <2>4. Stands(t, 0, t)
    <3>1. PICK len \in Nat : len = Len(t)
      BY <2>3, LenProperties
    <3> HIDE DEF t
    <3> QED BY <3>1 DEF Stands
  <2>5. Stands(t, 0, uv)
    BY <1>6, <2>2, <2>3, <2>4, StandsApart
  <2> HIDE DEF t
  <2>6. Stands(t, 0, u) /\ Stands(t, 0 + Len(u), v)
    BY <1>6, <2>3, <2>5, StandsApart DEF uv
  <2>7. 0 + Len(u) = b /\ (b + n) + (l - n) = b + l
    BY <1>1, <1>3
  <2> QED BY <1>1, <1>8, <2>1, <2>3, <2>6, <2>7 DEF B, u, v
<1> QED
  BY <1>7, <1>8

\* Where member k stands in the archive, and the one after it.
TarLaid(ms, c, k) ==
  /\ ms[k].type = "Zeros" =>
       /\ TarStart(ms, k + 1) = TarBody(ms, k)
       /\ Stands(c, TarStart(ms, k), Zeros(Block))
  /\ ms[k].type # "Zeros" =>
       /\ TarStart(ms, k + 1) = TarBody(ms, k) + Padded(ms[k].stored)
       /\ Stands(c, TarStart(ms, k), Bytes("head", ms[k], Block))
       /\ Stands(c, TarBody(ms, k), Bytes("data", ms[k], ms[k].stored))

\* The members stand in the archive one after the other, then its two zero blocks.
TarSits(ms, c) ==
  /\ TarStart(ms, 1) = 0
  /\ \A k \in 1..(Len(ms) + 1) : TarStart(ms, k) \in Nat
  /\ \A k \in 1..Len(ms) : TarLaid(ms, c, k)
  /\ TarLength(ms) \in Nat /\ TarLength(ms) <= Len(c)
  /\ Stands(c, TarStart(ms, Len(ms) + 1), Zeros(2 * Block))

\* The members' lengths.
LEMMA TarLensAre ==
  ASSUME NEW M, NEW ms \in Seq(M), M \subseteq TarMembers
  PROVE  /\ TarLens(ms) \in Seq(Nat) /\ Len(TarLens(ms)) = Len(ms)
         /\ \A k \in 1..Len(ms) : /\ TarLens(ms)[k] = Len(TarBytes(ms[k]))
                                  /\ TarLens(ms)[k] >= Block
<1>1. PICK n \in Nat : n = Len(ms) /\ ms \in [1..n -> M]
  BY LenProperties
<1>2. PICK b \in Nat : b = Block
  BY TarAssumption
<1>3. ASSUME NEW m \in M PROVE Len(TarBytes(m)) \in Nat /\ Len(TarBytes(m)) >= b
  <2>1. PICK l \in Nat : l = Padded(m.stored)
    BY PaddedFits DEF TarMembers
  <2>2. Len(TarBytes(m)) = b \/ Len(TarBytes(m)) = b + l
    BY <1>2, <2>1, TarBytesAre
  <2> QED BY <2>2
<1>4. \A k \in 1..n : ms[k] \in M
  BY <1>1
<1>5. [k \in 1..n |-> Len(TarBytes(ms[k]))] \in [1..n -> Nat]
  BY <1>3, <1>4
<1>6. TarLens(ms) \in Seq(Nat) /\ Len(TarLens(ms)) = n
  BY <1>1, <1>5 DEF TarLens
<1>7. \A k \in 1..n : TarLens(ms)[k] = Len(TarBytes(ms[k]))
  BY <1>1 DEF TarLens
<1> QED
  BY <1>1, <1>2, <1>3, <1>4, <1>6, <1>7

\* A member is a block long at least, and a later one starts past it.
LEMMA TarStartsGrow ==
  ASSUME NEW M, NEW ms \in Seq(M), M \subseteq TarMembers
  PROVE  /\ TarStart(ms, 1) = 0
         /\ \A k \in 1..(Len(ms) + 1) : TarStart(ms, k) \in Nat
         /\ \A k \in 1..Len(ms) : TarBody(ms, k) <= TarStart(ms, k + 1)
         /\ \A i \in 1..Len(ms), j \in 1..(Len(ms) + 1) :
              i < j => TarStart(ms, i + 1) <= TarStart(ms, j)
<1>1. PICK n \in Nat : n = Len(ms)
  BY LenProperties
<1>2. PICK b \in Nat : b = Block
  BY TarAssumption
<1>3. /\ TarLens(ms) \in Seq(Nat) /\ Len(TarLens(ms)) = n
      /\ \A k \in 1..n : TarLens(ms)[k] >= b
  BY <1>1, <1>2, TarLensAre
<1>4. \A k : TarStart(ms, k) = StartOf(TarLens(ms), k)
  BY DEF TarStart, TarLens
<1>5. /\ TarStart(ms, 1) = 0
      /\ \A k \in 1..(n + 1) : TarStart(ms, k) \in Nat
      /\ \A k \in 1..n : TarStart(ms, k + 1) = TarStart(ms, k) + TarLens(ms)[k]
  BY <1>3, <1>4, StartsAre
<1>6. \A k \in 1..n : TarLens(ms)[k] \in Nat
  BY <1>3, ElementOfSeq
<1>7. ASSUME NEW k \in 1..n PROVE TarBody(ms, k) <= TarStart(ms, k + 1)
  <2>1. k \in 1..(n + 1)
    OBVIOUS
  <2>2. PICK s \in Nat, l \in Nat : s = TarStart(ms, k) /\ l = TarLens(ms)[k] /\ l >= b
    BY <1>3, <1>5, <1>6, <2>1
  <2>3. TarStart(ms, k + 1) = s + l /\ TarBody(ms, k) = s + b
    BY <1>2, <1>5, <2>2 DEF TarBody
  <2> QED BY <2>2, <2>3
<1>8. ASSUME NEW i \in 1..n, NEW j \in 1..(n + 1), i < j
      PROVE  TarStart(ms, i + 1) <= TarStart(ms, j)
  <2>1. j \in (i + 1)..(n + 1)
    BY <1>8
  <2>2. StartOf(TarLens(ms), i) + TarLens(ms)[i] <= StartOf(TarLens(ms), j)
    BY <1>3, <2>1, StartsGrow
  <2> QED BY <1>4, <1>5, <2>2
<1> QED
  BY <1>1, <1>5, <1>7, <1>8

\* The archive is its members and two zero blocks; what follows does not move them.
LEMMA TarStandsIn ==
  ASSUME NEW M, NEW ms \in Seq(M), M \subseteq TarMembers, NEW padding \in Nat,
         NEW c, c = TarStream(ms) \o Zeros(padding)
  PROVE  c \in Seq(TarByte(M)) /\ TarSits(ms, c) /\ Len(TarStream(ms)) = TarLength(ms)
<1> DEFINE B == TarByte(M)
           pieces == [k \in 1..Len(ms) |-> TarBytes(ms[k])]
           flat == FlattenSeq(pieces)
           tail == Zeros(2 * Block)
           more == Zeros(padding)
           stream == TarStream(ms)
<1>1. PICK n \in Nat : n = Len(ms) /\ ms \in [1..n -> M]
  BY LenProperties
<1>2. PICK b \in Nat : b = Block
  BY TarAssumption
<1>3. tail \in Seq(B) /\ Len(tail) = 2 * b /\ more \in Seq(B) /\ Len(more) = padding
  <2>1. ZeroByte \subseteq B
    BY DEF TarByte
  <2>2. 2 * b \in Int /\ 2 * b >= 0
    OBVIOUS
  <2>3. Zeros(2 * b) \in Seq(ZeroByte) /\ Len(Zeros(2 * b)) = 2 * b
    BY <2>2, ZerosAre
  <2>4. Zeros(padding) \in Seq(ZeroByte) /\ Len(Zeros(padding)) = padding
    BY ZerosAre
  <2> HIDE DEF B
  <2> QED BY <1>2, <2>1, <2>3, <2>4, SeqMonotonic
<1>4. \A k \in 1..n : TarBytes(ms[k]) \in Seq(B) /\ ms[k] \in M
  BY <1>1, TarBytesAre
<1>5. pieces \in Seq(Seq(B)) /\ Len(pieces) = n /\ \A k \in 1..n : pieces[k] = TarBytes(ms[k])
  <2>1. pieces \in [1..n -> Seq(B)]
    BY <1>1, <1>4
  <2> QED BY <1>1, <2>1
<1>6. TarLens(ms) = [i \in 1..Len(pieces) |-> Len(pieces[i])]
  BY <1>1, <1>5 DEF TarLens
<1>7. \A k : TarStart(ms, k) = StartOf(TarLens(ms), k)
  BY DEF TarStart, TarLens
<1>8. stream = flat \o tail
  BY DEF TarStream
<1> HIDE DEF pieces, B
<1>9. flat \in Seq(B) /\ Len(flat) = TarStart(ms, n + 1)
  <2>1. flat \in Seq(B) /\ Len(flat) = StartOf(TarLens(ms), n + 1)
    BY <1>5, <1>6, PiecesAre
  <2> QED BY <1>7, <2>1
<1>10. /\ TarStart(ms, 1) = 0 /\ \A k \in 1..(n + 1) : TarStart(ms, k) \in Nat
  BY <1>1, TarStartsGrow
<1> HIDE DEF flat, tail, more, stream
<1>11. PICK end \in Nat : end = TarStart(ms, n + 1)
  <2>1. n + 1 \in 1..(n + 1)
    OBVIOUS
  <2> QED BY <1>10, <2>1
<1>12. stream \in Seq(B) /\ Len(stream) = end + 2 * b
  <2>1. stream \in Seq(B) /\ Len(stream) = Len(flat) + Len(tail)
    BY <1>3, <1>8, <1>9, ConcatProperties
  <2> QED BY <1>3, <1>9, <1>11, <2>1
<1>13. c \in Seq(B) /\ Len(c) = (end + 2 * b) + padding
  <2>1. c = stream \o more
    BY DEF stream, more
  <2>2. c \in Seq(B) /\ Len(c) = Len(stream) + Len(more)
    BY <1>3, <1>12, <2>1, ConcatProperties
  <2> QED BY <1>3, <1>12, <2>2
<1>14. Stands(c, 0, flat) /\ Stands(c, end, tail)
  <2>1. Stands(c, 0, c) /\ c = stream \o more
    BY <1>13 DEF Stands, stream, more
  <2>2. Stands(c, 0, stream)
    <3>1. 0 \in Nat /\ Stands(c, 0, stream \o more)
      BY <2>1
    <3> QED BY <1>3, <1>12, <1>13, <3>1, StandsApart
  <2>3. Stands(c, 0, flat) /\ Stands(c, 0 + Len(flat), tail)
    BY <1>3, <1>8, <1>9, <1>13, <2>2, StandsApart
  <2>4. 0 + Len(flat) = end
    BY <1>9, <1>11
  <2> QED BY <2>3, <2>4
<1>15. ASSUME NEW k \in 1..n PROVE TarLaid(ms, c, k)
  <2> DEFINE m == ms[k]
             s == TarStart(ms, k)
             t == TarBytes(m)
  <2>1. m \in M /\ m \in TarMembers /\ t \in Seq(B) /\ k \in 1..(n + 1)
    BY <1>4
  <2>2. Stands(flat, s, t)
    <3>1. Stands(FlattenSeq(pieces), StartOf([i \in 1..Len(pieces) |-> Len(pieces[i])], k),
                 pieces[k])
      BY <1>5, PieceStands
    <3> QED BY <1>5, <1>6, <1>7, <3>1 DEF flat
  <2>3. s \in Nat
    BY <1>10, <2>1
  <2>4. Stands(c, 0 + s, t) /\ 0 + s = s
    <3>1. 0 \in Nat
      OBVIOUS
    <3> HIDE DEF s, t
    <3>2. Stands(c, 0 + s, t)
      BY <1>9, <1>13, <1>14, <2>1, <2>2, <2>3, <3>1, StandsWithin
    <3> QED BY <2>3, <3>2
  <2>5. TarStart(ms, k + 1) = s + Len(t)
    <3>1. TarLens(ms) \in Seq(Nat) /\ Len(TarLens(ms)) = n /\ TarLens(ms)[k] = Len(t)
      BY <1>1, TarLensAre
    <3>2. StartOf(TarLens(ms), k + 1) = StartOf(TarLens(ms), k) + TarLens(ms)[k]
      BY <3>1, StartsAre
    <3> QED BY <1>7, <3>1, <3>2
  <2>6. /\ m.type = "Zeros" => Len(t) = Block /\ Stands(t, 0, Zeros(Block))
        /\ m.type # "Zeros" => /\ Len(t) = Block + Padded(m.stored)
                               /\ Stands(t, 0, Bytes("head", m, Block))
                               /\ Stands(t, Block, Bytes("data", m, m.stored))
    BY <2>1, TarBytesAre
  <2>7. /\ Bytes("head", m, Block) \in Seq(B) /\ Bytes("data", m, m.stored) \in Seq(B)
        /\ Zeros(Block) \in Seq(B)
    <3>1. Block \in Int /\ m.stored \in Int
      BY <1>2, <2>1 DEF TarMembers
    <3>2. Byte({"head", "data"}, M) \subseteq B /\ ZeroByte \subseteq B
      BY DEF TarByte, B
    <3>3. \A kind \in {"head", "data"}, i \in Int :
            Bytes(kind, m, i) \in Seq(Byte({"head", "data"}, M))
      BY <2>1, BytesAre
    <3>4. Zeros(Block) \in Seq(ZeroByte)
      BY <3>1, ZerosAre
    <3> QED BY <3>1, <3>2, <3>3, <3>4, SeqMonotonic
  <2>8. PICK pad \in Nat : pad = Padded(m.stored)
    BY <2>1, PaddedFits DEF TarMembers
  <2> HIDE DEF m, s, t
  <2>9. \A bytes \in Seq(B), from \in Nat : Stands(t, from, bytes) => Stands(c, s + from, bytes)
    BY <1>13, <2>1, <2>3, <2>4, StandsWithin
  <2>10. ASSUME m.type = "Zeros"
         PROVE  TarStart(ms, k + 1) = s + Block /\ Stands(c, s, Zeros(Block))
    <3>1. Stands(c, s + 0, Zeros(Block)) /\ s + 0 = s
      BY <2>3, <2>6, <2>7, <2>9, <2>10
    <3> QED BY <2>5, <2>6, <2>10, <3>1
  <2>11. ASSUME m.type # "Zeros"
         PROVE  /\ TarStart(ms, k + 1) = s + Block + Padded(m.stored)
                /\ Stands(c, s, Bytes("head", m, Block))
                /\ Stands(c, s + Block, Bytes("data", m, m.stored))
    <3>1. s + 0 = s /\ s + (Block + pad) = s + Block + pad /\ Block \in Nat
      BY <1>2, <2>3, <2>8
    <3>2. Stands(c, s + 0, Bytes("head", m, Block))
      BY <2>6, <2>7, <2>9, <2>11
    <3>3. Stands(c, s + Block, Bytes("data", m, m.stored))
      BY <2>6, <2>7, <2>9, <2>11, <3>1
    <3> QED BY <2>5, <2>6, <2>8, <2>11, <3>1, <3>2, <3>3
  <2> QED BY <2>10, <2>11 DEF TarLaid, TarBody, m, s
<1>16. TarLength(ms) = end + 2 * b
  BY <1>1, <1>2, <1>11 DEF TarLength
<1>17. TarSits(ms, c)
  <2>1. end + 2 * b \in Nat /\ end + 2 * b <= (end + 2 * b) + padding
    OBVIOUS
  <2> QED BY <1>1, <1>10, <1>11, <1>13, <1>14, <1>15, <1>16, <2>1 DEF TarSits, tail
<1> QED
  BY <1>12, <1>13, <1>16, <1>17 DEF B, stream

\* A header that must be refused.
TarRefused(m) == m.type \in Metadata /\ m.size > MaxMetadata

\* No header that must be refused ends here or before.
TarClear(ms, pos) == \A k \in 1..Len(ms) : TarRefused(ms[k]) => pos < TarBody(ms, k)

\* Which header a place in its block belongs to.
LEMMA TarLocates ==
  ASSUME NEW M, NEW ms \in Seq(M), M \subseteq TarMembers, NEW pos \in Nat,
         NEW j \in 1..(Len(ms) + 1), NEW k \in 1..(Len(ms) + 1),
         TarStart(ms, j) <= pos, pos < TarBody(ms, j), TarStart(ms, k) <= pos,
         k \in 1..Len(ms) => pos < TarStart(ms, k + 1)
  PROVE  j = k
<1>1. PICK n \in Nat : n = Len(ms)
  BY LenProperties
<1>2. /\ \A i \in 1..(n + 1) : TarStart(ms, i) \in Nat
      /\ \A i \in 1..n : TarBody(ms, i) <= TarStart(ms, i + 1)
      /\ \A x \in 1..n, y \in 1..(n + 1) : x < y => TarStart(ms, x + 1) <= TarStart(ms, y)
  BY <1>1, TarStartsGrow
<1>3. PICK b \in Nat : b = Block
  BY TarAssumption
<1>4. PICK sj \in Nat, sk \in Nat : sj = TarStart(ms, j) /\ sk = TarStart(ms, k)
  BY <1>1, <1>2
<1>5. TarBody(ms, j) = sj + b
  BY <1>3, <1>4 DEF TarBody
<1>6. j \in 1..(n + 1) /\ k \in 1..(n + 1)
  BY <1>1
<1>7. ~ (j < k)
  <2> SUFFICES ASSUME j < k PROVE FALSE
    OBVIOUS
  <2>1. j \in 1..n /\ j + 1 \in 1..(n + 1)
    BY <1>6
  <2>2. PICK next \in Nat : next = TarStart(ms, j + 1)
    BY <1>2, <2>1
  <2>3. sj + b <= next /\ next <= sk
    BY <1>2, <1>4, <1>5, <1>6, <2>1, <2>2
  <2> QED BY <1>4, <1>5, <2>3
<1>8. ~ (k < j)
  <2> SUFFICES ASSUME k < j PROVE FALSE
    OBVIOUS
  <2>1. k \in 1..n /\ k + 1 \in 1..(n + 1)
    BY <1>6
  <2>2. PICK next \in Nat : next = TarStart(ms, k + 1)
    BY <1>2, <2>1
  <2>3. next <= sj
    BY <1>2, <1>4, <1>6, <2>1, <2>2
  <2>4. pos < next
    BY <1>1, <2>1, <2>2
  <2> QED BY <1>4, <2>3, <2>4
<1> QED
  BY <1>6, <1>7, <1>8

\* What passes while the parser moves inside a member: its header's end, its data's start.
LEMMA TarMoves ==
  ASSUME NEW M, NEW ms \in Seq(M), M \subseteq TarMembers, NEW k \in 1..Len(ms),
         NEW lo \in Nat, NEW hi \in Nat, lo <= hi,
         TarStart(ms, k) <= lo, hi <= TarStart(ms, k + 1), TarClear(ms, lo)
  PROVE  /\ Passed(TarHolds(ms), lo, hi) =
              IF k \in Files(ms) /\ lo < TarBody(ms, k) /\ TarBody(ms, k) <= hi
                THEN {TarEntry(ms, k)} ELSE {}
         /\ (lo < TarBody(ms, k) /\ TarBody(ms, k) <= hi => ~ TarRefused(ms[k])) =>
              TarClear(ms, hi)
<1>1. PICK n \in Nat : n = Len(ms) /\ ms \in [1..n -> M]
  BY LenProperties
<1>2. PICK b \in Nat : b = Block /\ b > 0
  BY TarAssumption
<1>3. /\ \A i \in 1..(n + 1) : TarStart(ms, i) \in Nat
      /\ \A i \in 1..n : TarBody(ms, i) <= TarStart(ms, i + 1)
      /\ \A x \in 1..n, y \in 1..(n + 1) : x < y => TarStart(ms, x + 1) <= TarStart(ms, y)
  BY <1>1, TarStartsGrow
<1>4. ASSUME NEW i \in 1..n
      PROVE  /\ TarBody(ms, i) \in Nat /\ TarStart(ms, i) < TarBody(ms, i)
             /\ lo < TarBody(ms, i) /\ TarBody(ms, i) <= hi => i = k
  <2>1. /\ k \in 1..n /\ i \in 1..(n + 1) /\ k \in 1..(n + 1)
        /\ i + 1 \in 1..(n + 1) /\ k + 1 \in 1..(n + 1)
    BY <1>1
  <2>2. PICK si \in Nat, sk \in Nat : si = TarStart(ms, i) /\ sk = TarStart(ms, k)
    BY <1>3, <2>1
  <2>3. PICK ni \in Nat, nk \in Nat : ni = TarStart(ms, i + 1) /\ nk = TarStart(ms, k + 1)
    BY <1>3, <2>1
  <2>4. TarBody(ms, i) = si + b /\ si + b <= ni
    BY <1>2, <1>3, <2>2, <2>3 DEF TarBody
  <2>5. i < k => ni <= sk
    BY <1>3, <2>1, <2>2, <2>3
  <2>6. k < i => nk <= si
    BY <1>3, <2>1, <2>2, <2>3
  <2>7. lo < si + b /\ si + b <= hi => i = k
    <3>1. sk <= lo /\ hi <= nk
      BY <2>2, <2>3
    <3> QED BY <1>2, <2>1, <2>4, <2>5, <2>6, <3>1
  <2> QED BY <1>2, <2>2, <2>4, <2>7
<1>5. \A i \in Files(ms) : i \in 1..n
  BY <1>1 DEF Files
<1>6. \A i : TarEntry(ms, i).data_offset = TarBody(ms, i)
  BY DEF TarEntry, Entry, TarBody
<1>7. Passed(TarHolds(ms), lo, hi) =
        IF k \in Files(ms) /\ lo < TarBody(ms, k) /\ TarBody(ms, k) <= hi
          THEN {TarEntry(ms, k)} ELSE {}
  <2>1. \A e : e \in Passed(TarHolds(ms), lo, hi) <=>
                 \E i \in Files(ms) : /\ e = TarEntry(ms, i)
                                      /\ lo < TarBody(ms, i) /\ TarBody(ms, i) <= hi
    BY <1>6 DEF Passed, TarHolds
  <2>2. \A i \in Files(ms) : lo < TarBody(ms, i) /\ TarBody(ms, i) <= hi => i = k
    BY <1>4, <1>5
  <2> QED BY <2>1, <2>2
<1>8. ASSUME lo < TarBody(ms, k) /\ TarBody(ms, k) <= hi => ~ TarRefused(ms[k]),
             NEW i \in 1..n, TarRefused(ms[i])
      PROVE  hi < TarBody(ms, i)
  <2>1. lo < TarBody(ms, i) /\ TarBody(ms, i) \in Nat
    BY <1>1, <1>4, <1>8 DEF TarClear
  <2>2. ASSUME TarBody(ms, i) <= hi PROVE FALSE
    <3>1. i = k
      BY <1>4, <2>1, <2>2
    <3> QED BY <1>8, <2>1, <2>2, <3>1
  <2> QED BY <2>1, <2>2
<1> QED
  BY <1>1, <1>7, <1>8 DEF TarClear

\* Past the last member nothing is to be told of or refused.
LEMMA TarPastMembers ==
  ASSUME NEW M, NEW ms \in Seq(M), M \subseteq TarMembers,
         NEW lo \in Nat, NEW hi \in Nat, TarStart(ms, Len(ms) + 1) <= lo
  PROVE  /\ \A e \in TarHolds(ms) : e.data_offset \in Nat /\ e.data_offset <= lo
         /\ Passed(TarHolds(ms), lo, hi) = {}
         /\ TarClear(ms, lo) => TarClear(ms, hi) /\ TarRefusals(ms) = {}
<1>1. PICK n \in Nat : n = Len(ms) /\ ms \in [1..n -> M]
  BY LenProperties
<1>2. PICK b \in Nat : b = Block /\ b > 0
  BY TarAssumption
<1>3. /\ \A i \in 1..(n + 1) : TarStart(ms, i) \in Nat
      /\ \A i \in 1..n : TarBody(ms, i) <= TarStart(ms, i + 1)
      /\ \A x \in 1..n, y \in 1..(n + 1) : x < y => TarStart(ms, x + 1) <= TarStart(ms, y)
  BY <1>1, TarStartsGrow
<1>4. ASSUME NEW i \in 1..n PROVE TarBody(ms, i) \in Nat /\ TarBody(ms, i) <= lo
  <2>1. i \in 1..(n + 1) /\ n + 1 \in 1..(n + 1) /\ i + 1 \in 1..(n + 1) /\ i < n + 1
    OBVIOUS
  <2>2. PICK si \in Nat, ni \in Nat, e \in Nat :
          si = TarStart(ms, i) /\ ni = TarStart(ms, i + 1) /\ e = TarStart(ms, n + 1)
    BY <1>3, <2>1
  <2>3. si + b <= ni /\ ni <= e /\ TarBody(ms, i) = si + b
    BY <1>2, <1>3, <2>1, <2>2 DEF TarBody
  <2> QED BY <1>1, <1>2, <2>2, <2>3
<1>5. \A e \in TarHolds(ms) : e.data_offset \in Nat /\ e.data_offset <= lo
  BY <1>1, <1>4 DEF TarHolds, Files, TarEntry, Entry, TarBody
<1>6. Passed(TarHolds(ms), lo, hi) = {}
  BY <1>5 DEF Passed
<1>7. ASSUME TarClear(ms, lo) PROVE \A i \in 1..n : ~ TarRefused(ms[i])
  BY <1>1, <1>4, <1>7 DEF TarClear
<1> QED
  BY <1>1, <1>5, <1>6, <1>7 DEF TarClear, TarRefusals, TarRefused

\* In a header's block the archive may end at its start, unless an extended header waits,
\* and after a zero block.
LEMMA TarEndsInHeader ==
  ASSUME NEW M, NEW ms \in Seq(M), M \subseteq TarMembers, NEW pos \in Nat,
         NEW k \in 1..(Len(ms) + 1), TarStart(ms, k) <= pos, pos < TarBody(ms, k)
  PROVE  pos \in TarEnds(ms) <=> \/ pos = TarStart(ms, k) /\ ~ Pending(ms, k)
                                 \/ k # 1 /\ ms[k - 1].type = "Zeros"
<1>1. PICK n \in Nat : n = Len(ms) /\ ms \in [1..n -> M]
  BY LenProperties
<1>2. PICK b \in Nat : b = Block /\ b > 0
  BY TarAssumption
<1>3. /\ TarStart(ms, 1) = 0 /\ \A i \in 1..(n + 1) : TarStart(ms, i) \in Nat
      /\ \A i \in 1..n : TarBody(ms, i) <= TarStart(ms, i + 1)
      /\ \A x \in 1..n, y \in 1..(n + 1) : x < y => TarStart(ms, x + 1) <= TarStart(ms, y)
  BY <1>1, TarStartsGrow
<1>4. \A i \in 1..(n + 1) : TarBody(ms, i) = TarStart(ms, i) + b
  BY <1>2 DEF TarBody
<1>5. ASSUME NEW j \in 1..(n + 1), TarStart(ms, j) <= pos, pos < TarBody(ms, j)
      PROVE  j = k
  <2>1. k \in 1..Len(ms) => pos < TarStart(ms, k + 1)
    <3> SUFFICES ASSUME k \in 1..n PROVE pos < TarStart(ms, k + 1)
      BY <1>1
    <3>1. k + 1 \in 1..(n + 1) /\ k \in 1..(n + 1)
      OBVIOUS
    <3>2. PICK s \in Nat, next \in Nat : s = TarStart(ms, k) /\ next = TarStart(ms, k + 1)
      BY <1>3, <3>1
    <3> QED BY <1>3, <1>4, <3>1, <3>2
  <2> QED BY <1>1, <1>5, <2>1, TarLocates
<1>6. k \in 1..(n + 1)
  BY <1>1
<1>7. ASSUME NEW i \in 1..(n + 1), pos = TarStart(ms, i)
      PROVE  i = k
  BY <1>2, <1>3, <1>4, <1>5, <1>7
<1>8. ASSUME NEW i \in 1..n, ms[i].type = "Zeros"
      PROVE  TarStart(ms, i + 1) = TarStart(ms, i) + b
  <2>1. TarLaid(ms, TarStream(ms) \o Zeros(0), i)
    BY <1>1, TarStandsIn DEF TarSits
  <2> QED BY <1>2, <1>8, <2>1 DEF TarLaid, TarBody
<1>9. ASSUME NEW i \in 1..n, ms[i].type = "Zeros", NEW d \in Block..(2 * Block - 1),
             pos = TarStart(ms, i) + d
      PROVE  i + 1 = k
  <2>1. i + 1 \in 1..(n + 1) /\ i \in 1..(n + 1)
    OBVIOUS
  <2>2. PICK s \in Nat : s = TarStart(ms, i) /\ TarStart(ms, i + 1) = s + b
    BY <1>3, <1>8, <1>9, <2>1
  <2>3. d \in b..(2 * b - 1)
    BY <1>2
  <2>4. s + b <= pos /\ pos < (s + b) + b
    BY <1>9, <2>2, <2>3
  <2> QED BY <1>4, <1>5, <2>1, <2>2, <2>4
<1>10. ASSUME k # 1, ms[k - 1].type = "Zeros"
       PROVE  \E d \in Block..(2 * Block - 1) : pos = TarStart(ms, k - 1) + d
  <2>1. k - 1 \in 1..n /\ (k - 1) + 1 = k /\ k - 1 \in 1..(n + 1)
    BY <1>6, <1>10
  <2>2. PICK s \in Nat : s = TarStart(ms, k - 1) /\ TarStart(ms, k) = s + b
    BY <1>3, <1>8, <1>10, <2>1
  <2>3. s + b <= pos /\ pos < (s + b) + b
    BY <1>4, <1>6, <2>2
  <2>4. PICK d \in b..(2 * b - 1) : pos = s + d
    <3>1. pos - s \in b..(2 * b - 1) /\ pos = s + (pos - s)
      BY <2>3
    <3> QED BY <3>1
  <2> QED BY <1>2, <2>2, <2>4
<1>11. ASSUME NEW d \in Block..(2 * Block) PROVE pos # TarStart(ms, n + 1) + d
  <2>1. n + 1 \in 1..(n + 1)
    OBVIOUS
  <2>2. PICK e \in Nat, s \in Nat : e = TarStart(ms, n + 1) /\ s = TarStart(ms, k)
    BY <1>3, <1>6, <2>1
  <2>3. s <= e
    <3>1. CASE k = n + 1
      BY <2>2, <3>1
    <3>2. CASE k # n + 1
      <4>1. k \in 1..n /\ k < n + 1 /\ k + 1 \in 1..(n + 1)
        BY <1>6, <3>2
      <4>2. PICK next \in Nat : next = TarStart(ms, k + 1)
        BY <1>3, <4>1
      <4>3. s + b <= next /\ next <= e
        BY <1>3, <1>4, <1>6, <2>1, <2>2, <4>1, <4>2
      <4> QED BY <4>3
    <3> QED BY <3>1, <3>2
  <2>4. pos < s + b /\ d \in b..(2 * b)
    BY <1>2, <1>4, <1>6, <2>2
  <2> QED BY <2>2, <2>3, <2>4
<1>12. pos \in TarEnds(ms) <=>
         \/ \E i \in 1..(n + 1) : ~ Pending(ms, i) /\ pos = TarStart(ms, i)
         \/ \E i \in 1..n : ms[i].type = "Zeros"
                            /\ \E d \in Block..(2 * Block - 1) : pos = TarStart(ms, i) + d
         \/ \E d \in Block..(2 * Block) : pos = TarStart(ms, n + 1) + d
  BY <1>1 DEF TarEnds
<1>13. k # 1 => k - 1 \in 1..n
  BY <1>6
<1>14. \A i \in 1..n : i + 1 = k => k # 1 /\ i = k - 1
  BY <1>6
<1> QED
  BY <1>6, <1>7, <1>9, <1>10, <1>11, <1>12, <1>13, <1>14

\* In a member's data the archive may not end; past the first of its zero blocks it may.
LEMMA TarEndsOutside ==
  ASSUME NEW M, NEW ms \in Seq(M), M \subseteq TarMembers, NEW pos \in Nat
  PROVE  /\ \A k \in 1..Len(ms) :
              TarBody(ms, k) <= pos /\ pos < TarStart(ms, k + 1) => pos \notin TarEnds(ms)
         /\ TarBody(ms, Len(ms) + 1) <= pos /\ pos <= TarLength(ms) => pos \in TarEnds(ms)
<1>1. PICK n \in Nat : n = Len(ms) /\ ms \in [1..n -> M]
  BY LenProperties
<1>2. PICK b \in Nat : b = Block /\ b > 0
  BY TarAssumption
<1>3. /\ \A i \in 1..(n + 1) : TarStart(ms, i) \in Nat
      /\ \A i \in 1..n : TarBody(ms, i) <= TarStart(ms, i + 1)
      /\ \A x \in 1..n, y \in 1..(n + 1) : x < y => TarStart(ms, x + 1) <= TarStart(ms, y)
  BY <1>1, TarStartsGrow
<1>4. \A i \in 1..(n + 1) : TarBody(ms, i) = TarStart(ms, i) + b
  BY <1>2 DEF TarBody
<1>5. ASSUME NEW k \in 1..n, TarBody(ms, k) <= pos, pos < TarStart(ms, k + 1)
      PROVE  pos \notin TarEnds(ms)
  <2>1. k \in 1..(n + 1) /\ k + 1 \in 1..(n + 1)
    OBVIOUS
  <2>2. PICK s \in Nat, next \in Nat : s = TarStart(ms, k) /\ next = TarStart(ms, k + 1)
    BY <1>3, <2>1
  <2>3. s + b <= pos /\ pos < next
    BY <1>4, <1>5, <2>1, <2>2
  <2>4. ASSUME NEW j \in 1..(n + 1), TarStart(ms, j) <= pos, pos < TarBody(ms, j)
        PROVE  FALSE
    <3>1. TarStart(ms, k) <= pos
      BY <2>2, <2>3
    <3>2. j = k
      BY <1>1, <1>5, <2>1, <2>4, <3>1, TarLocates
    <3> QED BY <1>4, <2>1, <2>2, <2>3, <2>4, <3>2
  <2>5. ASSUME NEW i \in 1..n, ms[i].type = "Zeros", NEW d \in Block..(2 * Block - 1),
               pos = TarStart(ms, i) + d
        PROVE  FALSE
    <3>1. TarLaid(ms, TarStream(ms) \o Zeros(0), i)
      BY <1>1, TarStandsIn DEF TarSits
    <3>2. i + 1 \in 1..(n + 1) /\ i \in 1..(n + 1)
      OBVIOUS
    <3>3. PICK si \in Nat : si = TarStart(ms, i) /\ TarStart(ms, i + 1) = si + b
      BY <1>2, <1>3, <2>5, <3>1, <3>2 DEF TarLaid, TarBody
    <3>4. d \in b..(2 * b - 1)
      BY <1>2
    <3>5. si + b <= pos /\ pos < (si + b) + b
      BY <2>5, <3>3, <3>4
    <3> QED BY <1>4, <2>4, <3>2, <3>3, <3>5
  <2>6. ASSUME NEW i \in 1..(n + 1), pos = TarStart(ms, i) PROVE FALSE
    BY <1>2, <1>3, <1>4, <2>4, <2>6
  <2>7. ASSUME NEW d \in Block..(2 * Block), pos = TarStart(ms, n + 1) + d PROVE FALSE
    <3>1. n + 1 \in 1..(n + 1) /\ k < n + 1 /\ d \in b..(2 * b)
      BY <1>2
    <3>2. PICK e \in Nat : e = TarStart(ms, n + 1)
      BY <1>3, <3>1
    <3>3. next <= e
      BY <1>3, <2>2, <3>1, <3>2
    <3> QED BY <2>3, <2>7, <3>1, <3>2, <3>3
  <2> QED BY <1>1, <2>5, <2>6, <2>7 DEF TarEnds
<1>6. ASSUME TarBody(ms, n + 1) <= pos, pos <= TarLength(ms) PROVE pos \in TarEnds(ms)
  <2>1. n + 1 \in 1..(n + 1)
    OBVIOUS
  <2>2. PICK e \in Nat : e = TarStart(ms, n + 1)
    BY <1>3, <2>1
  <2>3. e + b <= pos /\ pos <= e + 2 * b
    BY <1>1, <1>2, <1>6, <2>2 DEF TarBody, TarLength
  <2>4. pos - e \in b..(2 * b) /\ pos = e + (pos - e)
    BY <2>3
  <2>5. PICK d \in Block..(2 * Block) : pos = TarStart(ms, n + 1) + d
    BY <1>2, <2>2, <2>4
  <2> QED BY <1>1, <2>5 DEF TarEnds
<1> QED
  BY <1>1, <1>5, <1>6

-----------------------------------------------------------------------------
(***************************************************************************)
(* What the extended headers before a member set for it.                   *)
(***************************************************************************)
PaxSet(ms, k, field) == LastSet(ms, Speaking(ms, k, {"PaxExtended"}), field)

PaxSettings(ms, k) ==
  [path |-> PaxSet(ms, k, "path"), linkpath |-> PaxSet(ms, k, "linkpath"),
   size |-> PaxSet(ms, k, "size")]

LongName(ms, k, type) == LastSet(ms, Speaking(ms, k, {type}), "path")

\* Which of them speak of the next member.
LEMMA SpeakingNext ==
  ASSUME NEW ms, Len(ms) \in Nat, NEW k \in 1..Len(ms), NEW types
  PROVE  /\ Speaking(ms, 1, types) = {}
         /\ Speaking(ms, k, types) \subseteq 1..(k - 1)
         /\ k \in Files(ms) => Speaking(ms, k + 1, types) = {}
         /\ k \notin Files(ms) =>
              Speaking(ms, k + 1, types) =
                Speaking(ms, k, types) \cup (IF ms[k].type \in types THEN {k} ELSE {})
<1>1. (k + 1) - 1 = k /\ k \in Nat
  OBVIOUS
<1>2. Speaking(ms, k + 1, types) =
        {i \in 1..k : ms[i].type \in types /\ (i..k) \cap Files(ms) = {}}
  BY <1>1 DEF Speaking
<1>3. Speaking(ms, 1, types) = {}
  BY DEF Speaking
<1>4. ASSUME k \in Files(ms) PROVE Speaking(ms, k + 1, types) = {}
  <2>1. \A i \in 1..k : k \in i..k
    OBVIOUS
  <2> QED BY <1>2, <1>4, <2>1
<1>5. ASSUME k \notin Files(ms)
      PROVE  Speaking(ms, k + 1, types) =
               Speaking(ms, k, types) \cup (IF ms[k].type \in types THEN {k} ELSE {})
  <2>1. \A i \in 1..k : i..k = (i..(k - 1)) \cup {k}
    OBVIOUS
  <2>2. \A i \in 1..k : (i..k) \cap Files(ms) = (i..(k - 1)) \cap Files(ms)
    BY <1>5, <2>1
  <2>3. \A i : i \in 1..k <=> i \in 1..(k - 1) \/ i = k
    OBVIOUS
  <2>4. k..(k - 1) = {}
    OBVIOUS
  <2>5. \A i : i \in Speaking(ms, k + 1, types) <=>
                 \/ i \in Speaking(ms, k, types)
                 \/ i = k /\ ms[k].type \in types
    BY <1>2, <2>2, <2>3, <2>4 DEF Speaking
  <2> QED BY <2>5
<1> QED
  BY <1>3, <1>4, <1>5 DEF Speaking

\* A later header's setting goes over the earlier ones'.
LEMMA LastSetNext ==
  ASSUME NEW ms, NEW field, NEW k \in Nat, NEW headers \in SUBSET (1..(k - 1))
  PROVE  /\ LastSet(ms, {}, field) = None
         /\ LastSet(ms, headers \cup {k}, field)
              = Over(ms[k].sets[field], LastSet(ms, headers, field))
<1> DEFINE old == {i \in headers : ms[i].sets[field] # None}
           new == {i \in headers \cup {k} : ms[i].sets[field] # None}
           last(s) == CHOOSE i \in s : \A j \in s : j <= i
<1>1. LastSet(ms, {}, field) = None
  BY DEF LastSet
<1>2. /\ LastSet(ms, headers, field)
           = IF old = {} THEN None ELSE ms[last(old)].sets[field]
      /\ LastSet(ms, headers \cup {k}, field)
           = IF new = {} THEN None ELSE ms[last(new)].sets[field]
  BY DEF LastSet
<1>3. CASE ms[k].sets[field] = None
  <2>1. new = old
    BY <1>3
  <2> HIDE DEF new, old, last
  <2> QED BY <1>1, <1>2, <1>3, <2>1 DEF Over
<1>4. CASE ms[k].sets[field] # None
  <2>1. k \in new /\ \A j \in new : j <= k /\ j \in Nat
    BY <1>4
  <2> HIDE DEF new, old
  <2>2. \A i \in new : (\A j \in new : j <= i) => i = k
    <3>1. ASSUME NEW i \in new, \A j \in new : j <= i PROVE i = k
      <4>1. k <= i /\ i <= k /\ i \in Nat
        BY <2>1, <3>1
      <4> QED BY <4>1
    <3> QED BY <3>1
  <2>3. last(new) = k
    BY <2>1, <2>2
  <2> HIDE DEF last
  <2> QED BY <1>1, <1>2, <1>4, <2>1, <2>3 DEF Over
<1> QED
  BY <1>1, <1>3, <1>4

\* Nothing is set just when no header sets it.
LEMMA NothingSet ==
  ASSUME NEW ms, NEW field, NEW k \in Nat, NEW headers \in SUBSET (1..k)
  PROVE  LastSet(ms, headers, field) = None <=> \A i \in headers : ms[i].sets[field] = None
<1> DEFINE setting == {i \in headers : ms[i].sets[field] # None}
           last == CHOOSE i \in setting : \A j \in setting : j <= i
<1>1. LastSet(ms, headers, field) = IF setting = {} THEN None ELSE ms[last].sets[field]
  BY DEF LastSet
<1>2. \A i \in setting : i \in 1..k
  OBVIOUS
<1>3. ASSUME setting # {} PROVE last \in setting
  <2> HIDE DEF setting
  <2> DEFINE Found == \E m \in setting : \A j \in setting : j <= m
             T == {x \in Nat : x <= k => ((\E i \in setting : i >= k - x) => Found)}
  <2>1. 0 \in T
    <3>1. \A i \in setting : i >= k - 0 => \A j \in setting : j <= i
      BY <1>2
    <3> QED BY <3>1
  <2>2. ASSUME NEW x \in Nat, x \in T PROVE x + 1 \in T
    <3> SUFFICES ASSUME x + 1 <= k, NEW i \in setting, i >= k - (x + 1) PROVE Found
      OBVIOUS
    <3>1. CASE \E m \in setting : m >= k - x
      BY <2>2, <3>1
    <3>2. CASE ~ \E m \in setting : m >= k - x
      <4>1. \A j \in setting : j <= i
        BY <1>2, <3>2
      <4> QED BY <4>1
    <3> QED BY <3>1, <3>2
  <2>3. \A x \in Nat : x \in T
    <3> HIDE DEF T
    <3> QED BY <2>1, <2>2, SetInduction
  <2>4. k \in T
    BY <2>3
  <2>5. \E i \in setting : i >= k - k
    BY <1>2, <1>3
  <2>6. Found
    BY <2>4, <2>5
  <2> QED BY <2>6
<1> HIDE DEF last
<1> QED
  BY <1>1, <1>3

\* The parser has what they set.
Said(ms, p, k) ==
  /\ p.pax = PaxSettings(ms, k)
  /\ p.gnu_long_name = LongName(ms, k, "GnuLongName")
  /\ p.gnu_long_link = LongName(ms, k, "GnuLongLink")

\* What is set for the first member, and for the next one.
LEMMA SaidNext ==
  ASSUME NEW ms, Len(ms) \in Nat, NEW k \in 1..Len(ms)
  PROVE  /\ PaxSettings(ms, 1) = NoSettings
         /\ k \in Files(ms) => PaxSettings(ms, k + 1) = NoSettings
         /\ k \notin Files(ms) =>
              PaxSettings(ms, k + 1) =
                IF ms[k].type # "PaxExtended" THEN PaxSettings(ms, k)
                ELSE [path     |-> Over(ms[k].sets.path, PaxSettings(ms, k).path),
                      linkpath |-> Over(ms[k].sets.linkpath, PaxSettings(ms, k).linkpath),
                      size     |-> Over(ms[k].sets.size, PaxSettings(ms, k).size)]
         /\ \A type \in {"GnuLongName", "GnuLongLink"} :
              /\ LongName(ms, 1, type) = None
              /\ k \in Files(ms) => LongName(ms, k + 1, type) = None
              /\ k \notin Files(ms) =>
                   LongName(ms, k + 1, type) =
                     IF ms[k].type # type THEN LongName(ms, k, type)
                     ELSE Over(ms[k].sets.path, LongName(ms, k, type))
<1>1. ASSUME NEW type, NEW field
      PROVE  LET Set(j) == LastSet(ms, Speaking(ms, j, {type}), field)
             IN  /\ Set(1) = None
                 /\ k \in Files(ms) => Set(k + 1) = None
                 /\ k \notin Files(ms) =>
                      Set(k + 1) = IF ms[k].type # type THEN Set(k)
                                   ELSE Over(ms[k].sets[field], Set(k))
  <2> DEFINE before == Speaking(ms, k, {type})
  <2>1. /\ Speaking(ms, 1, {type}) = {}
        /\ before \subseteq 1..(k - 1)
        /\ k \in Files(ms) => Speaking(ms, k + 1, {type}) = {}
        /\ k \notin Files(ms) =>
             Speaking(ms, k + 1, {type})
               = before \cup (IF ms[k].type \in {type} THEN {k} ELSE {})
    BY SpeakingNext
  <2> HIDE DEF before
  <2>2. /\ LastSet(ms, {}, field) = None
        /\ LastSet(ms, before \cup {k}, field)
             = Over(ms[k].sets[field], LastSet(ms, before, field))
    <3>1. k \in Nat /\ before \in SUBSET (1..(k - 1))
      BY <2>1
    <3> QED BY <3>1, LastSetNext
  <2>3. k \notin Files(ms) =>
          Speaking(ms, k + 1, {type}) = IF ms[k].type # type THEN before ELSE before \cup {k}
    BY <2>1
  <2> QED BY <2>1, <2>2, <2>3 DEF before
<1>2. ASSUME NEW field \in {"path", "linkpath", "size"}
      PROVE  /\ PaxSet(ms, 1, field) = None
             /\ k \in Files(ms) => PaxSet(ms, k + 1, field) = None
             /\ k \notin Files(ms) =>
                  PaxSet(ms, k + 1, field) =
                    IF ms[k].type # "PaxExtended" THEN PaxSet(ms, k, field)
                    ELSE Over(ms[k].sets[field], PaxSet(ms, k, field))
  BY <1>1 DEF PaxSet
<1>3. ASSUME NEW type \in {"GnuLongName", "GnuLongLink"}
      PROVE  /\ LongName(ms, 1, type) = None
             /\ k \in Files(ms) => LongName(ms, k + 1, type) = None
             /\ k \notin Files(ms) =>
                  LongName(ms, k + 1, type) =
                    IF ms[k].type # type THEN LongName(ms, k, type)
                    ELSE Over(ms[k].sets.path, LongName(ms, k, type))
  BY <1>1 DEF LongName
<1>4. PaxSettings(ms, 1) = NoSettings
      /\ (k \in Files(ms) => PaxSettings(ms, k + 1) = NoSettings)
  BY <1>2 DEF PaxSettings, NoSettings
<1>5. ASSUME k \notin Files(ms)
      PROVE  PaxSettings(ms, k + 1) =
                IF ms[k].type # "PaxExtended" THEN PaxSettings(ms, k)
                ELSE [path     |-> Over(ms[k].sets.path, PaxSettings(ms, k).path),
                      linkpath |-> Over(ms[k].sets.linkpath, PaxSettings(ms, k).linkpath),
                      size     |-> Over(ms[k].sets.size, PaxSettings(ms, k).size)]
  BY <1>2, <1>5 DEF PaxSettings
<1> QED
  BY <1>3, <1>4, <1>5

\* An archive whose extended headers say what they are: none is empty, a long name names,
\* a file is as long as is said of it, and a zero block stands between two members.
TarWell(ms) ==
  \A k \in 1..Len(ms) :
    /\ ms[k].type \in Metadata => ms[k].size > 0 /\ ms[k].stored = ms[k].size
    /\ ms[k].type \in {"GnuLongName", "GnuLongLink"} =>
         TarRefused(ms[k]) \/ ms[k].sets.path # None
    /\ k \in Files(ms) => Over(PaxSet(ms, k, "size"), Some(ms[k].size))[1] = ms[k].stored
    /\ ms[k].type = "Zeros" => k # Len(ms) /\ ms[k + 1].type # "Zeros"

\* An extended header waits for its entry just when something is set.
LEMMA PendingIs ==
  ASSUME NEW M, NEW ms \in Seq(M), M \subseteq TarMembers, TarWell(ms),
         NEW k \in 1..(Len(ms) + 1), TarClear(ms, TarStart(ms, k))
  PROVE  ~ Pending(ms, k) <=> /\ PaxSettings(ms, k) = NoSettings
                              /\ LongName(ms, k, "GnuLongName") = None
                              /\ LongName(ms, k, "GnuLongLink") = None
<1>1. PICK n \in Nat : n = Len(ms) /\ ms \in [1..n -> M]
  BY LenProperties
<1>2. \A types : Speaking(ms, k, types) \in SUBSET (1..k) /\ k \in Nat
                 /\ Speaking(ms, k, types) \subseteq 1..n
  BY <1>1 DEF Speaking
<1>3. \A field, types : LastSet(ms, Speaking(ms, k, types), field) = None
                        <=> \A i \in Speaking(ms, k, types) : ms[i].sets[field] = None
  BY <1>2, NothingSet
<1>4. ASSUME NEW i \in 1..n
      PROVE  ms[i].sets = NoSettings <=>
               /\ ms[i].sets.path = None /\ ms[i].sets.linkpath = None
               /\ ms[i].sets.size = None
  <2>1. ms[i].sets = [path |-> ms[i].sets.path, linkpath |-> ms[i].sets.linkpath,
                      size |-> ms[i].sets.size]
    BY <1>1 DEF TarMembers
  <2> QED BY <2>1 DEF NoSettings
<1>5. ASSUME NEW i \in 1..n, i < k, ms[i].type \in {"GnuLongName", "GnuLongLink"}
      PROVE  ms[i].sets.path # None
  <2>1. ~ TarRefused(ms[i])
    <3>1. TarStart(ms, i + 1) <= TarStart(ms, k) /\ TarBody(ms, i) <= TarStart(ms, i + 1)
      BY <1>1, <1>5, TarStartsGrow
    <3>2. i \in 1..(n + 1) /\ i + 1 \in 1..(n + 1) /\ k \in 1..(n + 1)
      BY <1>1
    <3>3. PICK next \in Nat, s \in Nat, b \in Nat, si \in Nat :
            /\ next = TarStart(ms, i + 1) /\ s = TarStart(ms, k) /\ b = Block
            /\ si = TarStart(ms, i)
      BY <1>1, <3>2, TarStartsGrow, TarAssumption
    <3>4. ~ (TarStart(ms, k) < TarBody(ms, i))
      BY <3>1, <3>3 DEF TarBody
    <3> QED BY <1>1, <3>4 DEF TarClear
  <2> QED BY <1>1, <1>5, <2>1 DEF TarWell
<1>6. \A i : i \in Speaking(ms, k, Metadata \ {"PaxGlobal"}) <=>
               \/ i \in Speaking(ms, k, {"PaxExtended"})
               \/ i \in Speaking(ms, k, {"GnuLongName"})
               \/ i \in Speaking(ms, k, {"GnuLongLink"})
  BY DEF Speaking, Metadata
<1>7. ASSUME NEW type \in {"GnuLongName", "GnuLongLink"}, NEW i \in Speaking(ms, k, {type})
      PROVE  ms[i].sets.path # None /\ ms[i].sets # NoSettings
  <2>1. i \in 1..n /\ i < k /\ ms[i].type = type
    BY <1>1 DEF Speaking
  <2>2. ms[i].sets.path # None
    BY <1>5, <2>1
  <2> QED BY <1>4, <2>1, <2>2
<1>8. PaxSettings(ms, k) = NoSettings <=>
        \A i \in Speaking(ms, k, {"PaxExtended"}) : ms[i].sets = NoSettings
  <2>1. PaxSettings(ms, k) = NoSettings <=>
          /\ PaxSet(ms, k, "path") = None /\ PaxSet(ms, k, "linkpath") = None
          /\ PaxSet(ms, k, "size") = None
    BY DEF PaxSettings, NoSettings
  <2>2. \A field : PaxSet(ms, k, field) = None <=>
                     \A i \in Speaking(ms, k, {"PaxExtended"}) : ms[i].sets[field] = None
    BY <1>3 DEF PaxSet
  <2> QED BY <1>2, <1>4, <2>1, <2>2
<1>9. ASSUME NEW type \in {"GnuLongName", "GnuLongLink"}
      PROVE  LongName(ms, k, type) = None <=> Speaking(ms, k, {type}) = {}
  <2>1. LongName(ms, k, type) = None <=>
          \A i \in Speaking(ms, k, {type}) : ms[i].sets.path = None
    BY <1>3 DEF LongName
  <2> QED BY <1>7, <2>1
<1> QED
  BY <1>6, <1>7, <1>8, <1>9 DEF Pending

-----------------------------------------------------------------------------
(***************************************************************************)
(* Feeding the tar parser.                                                 *)
(***************************************************************************)

\* The parser once it is at another place, with that header read.
TarPart(p, buf, at) == [p EXCEPT !.header_buf = buf, !.stream_pos = at]

\* What it does with a whole block.
TarTreats(full, block, taken) ==
  IF ~ IsZeroBlock(block) THEN TarProcessHeader(full, block, taken)
  ELSE IF full.state = "OneZeroBlock" THEN EndsHere([full EXCEPT !.state = "End"], taken)
  ELSE NeedsData([full EXCEPT !.state = "OneZeroBlock"], taken)

\* The header is read up to its end, or to the end of the chunk.
TarFilledTo(c, from, p, pos, hi, at) ==
  LET a == TarFeedHeader(p, Slice(c, pos, hi))
  IN  /\ at = Fewer(hi, from + Block) /\ pos < at /\ at <= hi /\ at <= from + Block
      /\ at < from + Block => a = NeedsData(TarPart(p, Slice(c, from, at), at), at - pos)
      /\ at = from + Block =>
           a = TarTreats(TarPart(p, <<>>, at), Slice(c, from, at), at - pos)

\* feed_header() reads on from what is there.
LEMMA TarFillsOn ==
  ASSUME NEW M, NEW c \in Seq(TarByte(M)), NEW p, TarGood(p, M), NEW from \in Nat,
         NEW pos \in Nat, NEW hi \in Nat, p.stream_pos = pos,
         p.header_buf = Slice(c, from, pos), from <= pos, pos < hi, hi <= Len(c),
         pos < from + Block
  PROVE  \E at \in Nat : TarFilledTo(c, from, p, pos, hi, at)
<1> DEFINE data  == Slice(c, pos, hi)
           take  == Fewer(Len(data), Block - Len(p.header_buf))
           block == p.header_buf \o Taken(data, take)
           q     == [p EXCEPT !.stream_pos = @ + take]
           full  == [q EXCEPT !.header_buf = <<>>]
           part  == [q EXCEPT !.header_buf = block]
<1>1. PICK b \in Nat, len \in Nat : b = Block /\ len = Len(c)
  BY TarAssumption, LenProperties
<1>2. PICK remaining \in Nat : pos + remaining = from + b /\ remaining > 0
  <2>1. (from + b) - pos \in Nat /\ (from + b) - pos > 0
    BY <1>1
  <2>2. pos + ((from + b) - pos) = from + b
    BY <1>1
  <2> QED BY <2>1, <2>2
<1>3. PICK at \in Nat : TakenTo(c, from, pos, hi, remaining, at)
  BY <1>2, TakesOn
<1>4. PICK h \in Nat : h = Len(p.header_buf) /\ from + h = pos
  <2>1. Len(Slice(c, from, pos)) = pos - from
    BY <1>1, SliceIs
  <2>2. pos - from \in Nat /\ from + (pos - from) = pos
    OBVIOUS
  <2> QED BY <2>1, <2>2
<1>5. Block - Len(p.header_buf) = remaining
  BY <1>1, <1>2, <1>4
<1>6. /\ at = Fewer(hi, from + b) /\ pos < at /\ at <= hi /\ at <= from + b
      /\ take = at - pos /\ block = Slice(c, from, at) /\ Len(Slice(c, from, at)) = at - from
  BY <1>2, <1>3, <1>5 DEF TakenTo
<1>7. TarFeedHeader(p, data)
        = IF Len(block) < Block THEN NeedsData(part, take)
          ELSE IF ~ IsZeroBlock(block) THEN TarProcessHeader(full, block, take)
          ELSE IF p.state = "OneZeroBlock" THEN EndsHere([full EXCEPT !.state = "End"], take)
          ELSE NeedsData([full EXCEPT !.state = "OneZeroBlock"], take)
  BY DEF TarFeedHeader
<1> HIDE DEF take, block, data
<1>8. pos + take = at
  BY <1>6
<1>9. /\ part = TarPart(p, block, at) /\ full = TarPart(p, <<>>, at)
      /\ full.state = p.state
  BY <1>8 DEF TarPart, TarGood, TarFields
<1> HIDE DEF q, full, part
<1>10. Len(block) < Block <=> at < from + b
  BY <1>1, <1>6
<1>11. at = from + b => ~ (at < from + b)
  BY <1>1
<1>12. /\ at < from + b =>
            TarFeedHeader(p, data) = NeedsData(TarPart(p, Slice(c, from, at), at), at - pos)
       /\ at = from + b =>
            TarFeedHeader(p, data)
              = TarTreats(TarPart(p, <<>>, at), Slice(c, from, at), at - pos)
  BY <1>6, <1>7, <1>9, <1>10, <1>11 DEF TarTreats
<1> QED
  BY <1>1, <1>6, <1>12 DEF TarFilledTo, data

\* The state in which a member's data is read.
TarReading(type) ==
  CASE type = "PaxExtended" -> "ReadingPaxData"
    [] type \in {"GnuLongName", "GnuLongLink"} -> "ReadingGnuLong"
    [] OTHER -> "SkippingData"

\* What there is of a member's data at a place of its data and padding.
TarData(c, body, stored, pos) == Slice(c, body, Fewer(pos, body + stored))

(***************************************************************************)
(* Where the parser is, at the place its stream_pos says: in the header of *)
(* a member, or in the first of the two last blocks; in the second one; in *)
(* a member's data.                                                        *)
(***************************************************************************)
TarAtHeader(ms, c, p, k) ==
  /\ p.state = IF k # 1 /\ ms[k - 1].type = "Zeros" THEN "OneZeroBlock" ELSE "ReadingHeader"
  /\ TarStart(ms, k) <= p.stream_pos /\ p.stream_pos < TarBody(ms, k)
  /\ p.header_buf = Slice(c, TarStart(ms, k), p.stream_pos)
  /\ Said(ms, p, k)

TarAtEnd(ms, c, p) ==
  LET body == TarBody(ms, Len(ms) + 1)
  IN  /\ p.state = "OneZeroBlock"
      /\ body <= p.stream_pos /\ p.stream_pos < body + Block
      /\ p.header_buf = Slice(c, body, p.stream_pos)

TarAtData(ms, c, p, k) ==
  LET m == ms[k]
  IN  /\ m.type # "Zeros" /\ p.state = TarReading(m.type)
      /\ p.remaining > 0 /\ TarBody(ms, k) <= p.stream_pos
      /\ p.stream_pos + p.remaining = TarStart(ms, k + 1)
      /\ p.header_buf = <<>>
      /\ p.state = "SkippingData" => Said(ms, p, k + 1)
      /\ p.state # "SkippingData" =>
           /\ Said(ms, p, k) /\ p.size = m.stored
           /\ p.buf = TarData(c, TarBody(ms, k), m.stored, p.stream_pos)
      /\ p.state = "ReadingGnuLong" => (p.is_link <=> m.type = "GnuLongLink")

\* No header that must be refused is behind the parser.
TarRight(ms, c, p) ==
  /\ TarClear(ms, p.stream_pos)
  /\ \/ \E k \in 1..(Len(ms) + 1) : TarAtHeader(ms, c, p, k)
     \/ TarAtEnd(ms, c, p)
     \/ \E k \in 1..Len(ms) : TarAtData(ms, c, p, k)

\* What it answers once it is fed up to hi.
TarRightly(ms, c, p, hi, a) ==
  /\ a.event = "Error" => ~ TarClear(ms, hi)
  /\ a.event \in {"NeedData", "Entry"} =>
       TarRight(ms, c, a.parser) /\ Tells(TarHolds(ms), p.stream_pos, a)
  /\ a.event = "EndOfArchive" =>
       a.entry = None /\ TarLength(ms) <= hi /\ TarBody(ms, Len(ms) + 1) <= p.stream_pos

\* The fields of a member's header, whole in its block.
LEMMA TarHeaderIs ==
  ASSUME NEW M, NEW ms \in Seq(M), M \subseteq TarMembers, NEW c \in Seq(TarByte(M)),
         TarSits(ms, c), NEW k \in 1..Len(ms), ms[k].type # "Zeros"
  PROVE  LET block == Slice(c, TarStart(ms, k), TarBody(ms, k))
         IN  /\ block \in Seq(TarByte(M)) /\ Whole(block, "head", Block)
             /\ block[1].of = ms[k] /\ ~ IsZeroBlock(block)
<1> DEFINE block == Slice(c, TarStart(ms, k), TarBody(ms, k))
<1>1. PICK b \in Nat : b = Block /\ b > 0
  BY TarAssumption
<1>2. PICK n \in Nat : n = Len(ms) /\ ms \in [1..n -> M]
  BY LenProperties
<1>3. ms[k] \in M /\ k \in 1..(n + 1)
  BY <1>2
<1>4. PICK s \in Nat : s = TarStart(ms, k)
  BY <1>2, <1>3 DEF TarSits
<1>5. Stands(c, s, Bytes("head", ms[k], b))
  BY <1>1, <1>2, <1>4 DEF TarSits, TarLaid
<1>6. Byte({"head", "data"}, M) \subseteq TarByte(M) /\ "head" \in {"head", "data"}
  BY DEF TarByte
<1>7. Whole(Slice(c, s, s + b), "head", b) /\ Slice(c, s, s + b)[1].of = ms[k]
  BY <1>1, <1>3, <1>5, TarFieldRead
<1>8. s + b <= Len(c)
  <2> DEFINE kinds == {"head", "data"}
  <2>1. "head" \in kinds
    BY <1>6
  <2> HIDE DEF kinds
  <2> DEFINE m == ms[k]
  <2>2. m \in M
    BY <1>3
  <2> HIDE DEF m
  <2>3. \A kind \in kinds : Len(Bytes(kind, m, b)) = b
    BY <2>2, BytesLong
  <2> QED BY <1>5, <2>1, <2>3 DEF Stands, m
<1>9. Slice(c, s, s + b) \in Seq(TarByte(M))
  <2>1. s <= s + b /\ s + b \in Nat
    BY <1>1
  <2> QED BY <1>8, <2>1, SliceIs
<1>10. block = Slice(c, s, s + b)
  BY <1>1, <1>4 DEF TarBody
<1> HIDE DEF block
<1>11. ~ IsZeroBlock(block)
  <2>1. block[1].kind = "head"
    BY <1>1, <1>7, <1>10, WholeIs
  <2>2. 1 \in 1..b
    BY <1>1
  <2>3. Zeros(b)[1].kind = "zero"
    BY <2>2 DEF Zeros
  <2> QED BY <1>1, <2>1, <2>3 DEF IsZeroBlock
<1> QED
  BY <1>1, <1>7, <1>9, <1>10, <1>11 DEF block

\* process_header(): what it says of a header is what the member is.
LEMMA TarMemberRight ==
  ASSUME NEW M, NEW ms \in Seq(M), M \subseteq TarMembers, TarWell(ms),
         NEW c \in Seq(TarByte(M)), TarSits(ms, c),
         NEW k \in 1..Len(ms), ms[k].type # "Zeros",
         NEW full, TarGood(full, M), full.header_buf = <<>>, full.stream_pos = TarBody(ms, k),
         Said(ms, full, k),
         NEW lo \in Nat, TarStart(ms, k) <= lo, lo < TarBody(ms, k), TarClear(ms, lo),
         NEW hi \in Nat, TarBody(ms, k) <= hi, NEW p, p.stream_pos = lo, NEW taken
  PROVE  TarRightly(ms, c, p, hi,
                    TarTreats(full, Slice(c, TarStart(ms, k), TarBody(ms, k)), taken))
<1> DEFINE block == Slice(c, TarStart(ms, k), TarBody(ms, k))
           a == TarTreats(full, block, taken)
           m == ms[k]
           into(state) == [full EXCEPT !.state = state, !.remaining = Padded(m.size),
                                       !.size = m.size, !.buf = <<>>]
           long == into("ReadingGnuLong")
           link == [long EXCEPT !.is_link = m.type = "GnuLongLink"]
           entry ==
             Entry(Over(full.gnu_long_name, Over(full.pax.path, Some(m.path)))[1],
                   Over(full.pax.size, Some(m.size))[1], m.type,
                   Over(full.gnu_long_link, Over(full.pax.linkpath, m.link)), full.stream_pos)
           left == Padded(Over(full.pax.size, Some(m.size))[1])
           past == [full EXCEPT !.state = IF left > 0 THEN "SkippingData" ELSE "ReadingHeader",
                                !.remaining = left, !.pax = NoSettings,
                                !.gnu_long_name = None, !.gnu_long_link = None]
<1>1. /\ block \in Seq(TarByte(M)) /\ Whole(block, "head", Block) /\ block[1].of = m
      /\ ~ IsZeroBlock(block)
  BY TarHeaderIs
<1>2. a = TarProcessHeader(full, block, taken)
  BY <1>1 DEF TarTreats
<1>3. PICK n \in Nat : n = Len(ms) /\ ms \in [1..n -> M]
  BY LenProperties
<1>4. m \in M /\ m \in TarMembers /\ k \in 1..n /\ k \in 1..(n + 1) /\ k + 1 \in 1..(n + 1)
      /\ (k + 1) - 1 = k
  BY <1>3
<1>5. PICK b \in Nat : b = Block /\ b > 0
  BY TarAssumption
<1>6. PICK start \in Nat, next \in Nat : start = TarStart(ms, k) /\ next = TarStart(ms, k + 1)
  BY <1>3, <1>4 DEF TarSits
<1>7. PICK body \in Nat : body = TarBody(ms, k) /\ body = start + b
  BY <1>5, <1>6 DEF TarBody
<1>8. PICK pad \in Nat : pad = Padded(m.stored) /\ next = body + pad
  <2>1. Padded(m.stored) \in Nat
    BY <1>4, PaddedIs DEF TarMembers
  <2> QED BY <1>3, <1>4, <1>6, <1>7, <2>1 DEF TarSits, TarLaid
<1>9. m.type \notin Metadata <=> k \in Files(ms)
  BY <1>3, <1>4 DEF Files
<1>10. /\ Passed(TarHolds(ms), lo, body) = IF k \in Files(ms) THEN {TarEntry(ms, k)} ELSE {}
       /\ ~ TarRefused(m) => TarClear(ms, body)
  <2>1. TarStart(ms, k) <= lo /\ body <= TarStart(ms, k + 1) /\ lo <= body
    BY <1>6, <1>7, <1>8, SMTT(30)
  <2>2. lo < TarBody(ms, k) /\ TarBody(ms, k) <= body
    BY <1>7
  <2> QED BY <2>1, <2>2, TarMoves
<1>11. full.stream_pos = body /\ Slice(c, body, body) = <<>>
  BY <1>7, SliceOfNone
<1>12. DOMAIN full = TarFields
  BY DEF TarGood
<1>13. /\ Said(ms, full, k)
       /\ full.pax = PaxSettings(ms, k)
       /\ full.gnu_long_name = LongName(ms, k, "GnuLongName")
       /\ full.gnu_long_link = LongName(ms, k, "GnuLongLink")
  BY DEF Said
<1> HIDE DEF a, block
<1>14. CASE TarRefused(m)
  <2>1. a = Refuses(full)
    BY <1>1, <1>2, <1>14 DEF TarProcessHeader, TarRefused
  <2>2. ~ TarClear(ms, hi)
    <3>1. ~ (hi < TarBody(ms, k))
      BY <1>7
    <3> QED BY <1>3, <1>4, <1>14, <3>1 DEF TarClear
  <2> QED BY <2>1, <2>2 DEF TarRightly, Refuses, Answer, a, block
<1>15. CASE ~ TarRefused(m) /\ m.type \in Metadata
  <2>1. m.size \in Nat /\ m.size > 0 /\ m.stored = m.size /\ Padded(m.size) = pad /\ pad > 0
    <3>1. m.size \in Nat /\ m.size > 0 /\ m.stored = m.size
      BY <1>3, <1>4, <1>15 DEF TarWell, TarMembers
    <3> QED BY <1>8, <3>1, PaddedIs
  <2> DEFINE Reads(q) ==
               /\ q.state = TarReading(m.type) /\ q.remaining = pad /\ q.header_buf = <<>>
               /\ q.stream_pos = body /\ q.size = m.size /\ q.buf = <<>>
               /\ q.pax = full.pax /\ q.gnu_long_name = full.gnu_long_name
               /\ q.gnu_long_link = full.gnu_long_link
               /\ q.state = "ReadingGnuLong" => (q.is_link <=> m.type = "GnuLongLink")
  <2>2. \E q : Reads(q) /\ a = NeedsData(q, taken)
    <3>1. /\ Whole(block, "head", Block) /\ block[1].of = m
          /\ ~ (m.type \in Metadata /\ m.size > MaxMetadata)
      BY <1>1, <1>15 DEF TarRefused
    <3>2. ASSUME NEW s PROVE
          LET q == into(s)
          IN  /\ DOMAIN q = TarFields /\ q.state = s /\ q.remaining = pad
              /\ q.header_buf = <<>> /\ q.stream_pos = body /\ q.size = m.size /\ q.buf = <<>>
              /\ q.pax = full.pax /\ q.gnu_long_name = full.gnu_long_name
              /\ q.gnu_long_link = full.gnu_long_link
      BY <1>11, <1>12, <2>1 DEF TarFields
    <3>3. CASE m.type = "PaxExtended"
      <4>1. a = NeedsData(into("ReadingPaxData"), taken)
        <5>1. m.type # "PaxGlobal" /\ m.type \notin {"GnuLongName", "GnuLongLink"}
          BY <3>3
        <5> QED BY <1>2, <1>15, <3>1, <3>3, <5>1 DEF TarProcessHeader
      <4>2. TarReading(m.type) = "ReadingPaxData"
        BY <3>3 DEF TarReading
      <4> HIDE DEF into
      <4>3. Reads(into("ReadingPaxData"))
        BY <3>2, <4>2
      <4> HIDE DEF Reads
      <4> QED BY <4>1, <4>3
    <3>4. CASE m.type = "PaxGlobal"
      <4>1. a = NeedsData(into("SkippingData"), taken)
        <5>1. m.type # "PaxExtended" /\ m.type \notin {"GnuLongName", "GnuLongLink"}
          BY <3>4
        <5> QED BY <1>2, <1>15, <3>1, <3>4, <5>1 DEF TarProcessHeader
      <4>2. TarReading(m.type) = "SkippingData"
        BY <3>4 DEF TarReading
      <4> HIDE DEF into
      <4>3. Reads(into("SkippingData"))
        BY <3>2, <4>2
      <4> HIDE DEF Reads
      <4> QED BY <4>1, <4>3
    <3>5. CASE m.type \in {"GnuLongName", "GnuLongLink"}
      <4>1. a = NeedsData(link, taken)
        <5>1. m.type # "PaxExtended" /\ m.type # "PaxGlobal"
          BY <3>5
        <5> QED BY <1>2, <1>15, <3>1, <3>5, <5>1 DEF TarProcessHeader
      <4>2. TarReading(m.type) = "ReadingGnuLong"
        BY <3>5 DEF TarReading
      <4>3. LET q == long
            IN  /\ DOMAIN q = TarFields /\ q.state = "ReadingGnuLong" /\ q.remaining = pad
                /\ q.header_buf = <<>> /\ q.stream_pos = body /\ q.size = m.size
                /\ q.buf = <<>>
                /\ q.pax = full.pax /\ q.gnu_long_name = full.gnu_long_name
                /\ q.gnu_long_link = full.gnu_long_link
        BY <3>2
      <4> HIDE DEF into, long
      <4>4. Reads(link)
        BY <4>2, <4>3 DEF TarFields
      <4> HIDE DEF Reads, link
      <4> QED BY <4>1, <4>4
    <3> QED BY <1>15, <3>3, <3>4, <3>5 DEF Metadata
  <2>3. PICK q : Reads(q) /\ a = NeedsData(q, taken)
    BY <2>2
  <2>4. k \notin Files(ms) /\ TarClear(ms, body)
    BY <1>9, <1>10, <1>15
  <2>5. Said(ms, q, k)
    BY <1>13, <2>3 DEF Said
  <2>6. q.state = "SkippingData" => Said(ms, q, k + 1)
    <3>1. q.state = "SkippingData" =>
            m.type # "PaxExtended" /\ m.type # "GnuLongName" /\ m.type # "GnuLongLink"
      BY <2>3 DEF TarReading
    <3>2. Len(ms) \in Nat
      BY <1>3
    <3> QED BY <2>4, <2>5, <3>1, <3>2, SaidNext DEF Said
  <2>7. TarAtData(ms, c, q, k)
    <3>1. Fewer(body, body + m.stored) = body /\ body + pad = next
      BY <1>8, <2>1 DEF Fewer
    <3>2. q.buf = TarData(c, TarBody(ms, k), m.stored, q.stream_pos)
      BY <1>7, <1>11, <2>3, <3>1 DEF TarData
    <3>3. /\ q.remaining > 0 /\ TarBody(ms, k) <= q.stream_pos
          /\ q.stream_pos + q.remaining = TarStart(ms, k + 1)
      BY <1>6, <1>7, <2>1, <2>3, <3>1
    <3> QED BY <2>1, <2>3, <2>5, <2>6, <3>2, <3>3 DEF TarAtData
  <2>8. TarRight(ms, c, q)
    BY <1>3, <1>4, <2>3, <2>4, <2>7 DEF TarRight
  <2> QED BY <1>10, <2>3, <2>4, <2>8 DEF TarRightly, Tells, NeedsData, Answer, a, block
<1>16. CASE ~ TarRefused(m) /\ m.type \notin Metadata
  <2>1. k \in Files(ms) /\ TarClear(ms, body)
    BY <1>9, <1>10, <1>16
  <2>2. a = Emits(past, taken, entry)
    <3>1. /\ m.type # "PaxExtended" /\ m.type # "PaxGlobal"
          /\ m.type \notin {"GnuLongName", "GnuLongLink"}
      BY <1>16 DEF Metadata
    <3> QED BY <1>1, <1>2, <1>16, <3>1 DEF TarProcessHeader
  <2>3. Over(full.pax.size, Some(m.size))[1] = m.stored
    <3>1. full.pax.size = PaxSet(ms, k, "size")
      BY <1>13 DEF PaxSettings
    <3>2. Over(PaxSet(ms, k, "size"), Some(ms[k].size))[1] = ms[k].stored
      BY <1>3, <1>4, <2>1 DEF TarWell
    <3> QED BY <3>1, <3>2
  <2>4. entry = TarEntry(ms, k)
    BY <1>7, <1>11, <1>13, <2>3 DEF TarEntry, PaxSettings, PaxSet, LongName, TarBody
  <2>5. left = pad
    BY <1>8, <2>3
  <2> HIDE DEF left, entry
  <2>6. /\ past.state = IF left > 0 THEN "SkippingData" ELSE "ReadingHeader"
        /\ past.remaining = left /\ past.pax = NoSettings /\ past.gnu_long_name = None
        /\ past.gnu_long_link = None /\ past.header_buf = <<>> /\ past.stream_pos = body
    BY <1>11, <1>12 DEF TarFields
  <2> HIDE DEF past
  <2>7. Said(ms, past, k + 1)
    <3>1. Len(ms) \in Nat
      BY <1>3
    <3> QED BY <2>1, <2>6, <3>1, SaidNext DEF Said
  <2>8. TarRight(ms, c, past)
    <3>1. CASE pad > 0
      <4>1. TarReading(m.type) = "SkippingData"
        BY <1>16 DEF TarReading, Metadata
      <4>2. /\ past.state = "SkippingData" /\ past.remaining > 0
            /\ TarBody(ms, k) <= past.stream_pos
            /\ past.stream_pos + past.remaining = TarStart(ms, k + 1)
        BY <1>6, <1>7, <1>8, <2>5, <2>6, <3>1
      <4>3. TarAtData(ms, c, past, k)
        BY <2>6, <2>7, <4>1, <4>2 DEF TarAtData
      <4> QED BY <1>3, <1>4, <2>1, <2>6, <4>3 DEF TarRight
    <3>2. CASE ~ (pad > 0)
      <4>1. body = next /\ next <= next /\ next < next + b
        BY <1>5, <1>8, <3>2
      <4>2. past.state = "ReadingHeader" /\ past.stream_pos = next
        BY <2>5, <2>6, <3>2, <4>1
      <4>3. past.header_buf = Slice(c, next, next)
        BY <1>11, <2>6, <4>1
      <4>4. TarAtHeader(ms, c, past, k + 1)
        BY <1>4, <1>5, <1>6, <2>7, <4>1, <4>2, <4>3 DEF TarAtHeader, TarBody
      <4> QED BY <1>3, <1>4, <2>1, <2>6, <4>4 DEF TarRight
    <3> QED BY <3>1, <3>2
  <2> QED BY <1>10, <2>1, <2>2, <2>4, <2>6, <2>8 DEF TarRightly, Tells, Emits, Answer, a, block
<1> QED
  BY <1>14, <1>15, <1>16

\* What is read where zeros stand.
LEMMA ZerosRead ==
  ASSUME NEW S, ZeroByte \subseteq S, NEW c \in Seq(S), NEW from \in Nat, NEW n \in Nat,
         Stands(c, from, Zeros(n)), NEW a \in Nat, NEW m \in Nat,
         from <= a, a + m <= from + n
  PROVE  Slice(c, a, a + m) = Zeros(m)
<1>1. PICK len \in Nat : len = Len(c)
  BY LenProperties
<1>2. Len(Zeros(n)) = n /\ Zeros(m) \in Seq(ZeroByte) /\ Len(Zeros(m)) = m
  BY ZerosAre
<1>3. from + n <= len /\ \A j \in 1..n : c[from + j] = Zeros(n)[j]
  BY <1>1, <1>2 DEF Stands
<1>4. PICK d \in Nat : a = from + d
  <2>1. a - from \in Nat /\ a = from + (a - from)
    OBVIOUS
  <2> QED BY <2>1
<1>5. \A j \in 1..m : Zeros(m)[j] = c[a + j]
  <2> TAKE j \in 1..m
  <2>1. d + j \in 1..n /\ a + j = from + (d + j)
    BY <1>4
  <2>2. Zeros(n)[d + j] = Zeros(m)[j]
    BY <2>1 DEF Zeros
  <2> QED BY <1>3, <2>1, <2>2
<1>6. Zeros(m) \in Seq(S)
  BY <1>2, SeqMonotonic
<1>7. PICK e \in Nat : e = a + m /\ a <= e /\ e <= len /\ e - a = m
  BY <1>3
<1> DEFINE t == Zeros(m)
<1>8. t \in Seq(S) /\ Len(t) = e - a /\ \A j \in 1..(e - a) : t[j] = c[a + j]
  BY <1>2, <1>5, <1>6, <1>7
<1> HIDE DEF t
<1>9. t = Slice(c, a, e)
  <2>1. e <= Len(c)
    BY <1>1, <1>7
  <2>2. e \in Nat /\ a <= e
    BY <1>7
  <2>3. t \in Seq(S) /\ Len(t) = e - a
    BY <1>8
  <2>4. \A j \in 1..(e - a) : t[j] = c[a + j]
    BY <1>8
  <2> QED BY <2>1, <2>2, <2>3, <2>4, SliceEqual, Zenon
<1> QED
  BY <1>7, <1>9 DEF t

\* feed_header(), in the header of a member or in the first of the last blocks.
LEMMA TarHeaderRight ==
  ASSUME NEW M, NEW ms \in Seq(M), M \subseteq TarMembers, TarWell(ms),
         NEW c \in Seq(TarByte(M)), TarSits(ms, c),
         NEW p, TarGood(p, M), NEW pos \in Nat, p.stream_pos = pos, NEW hi \in Nat,
         pos < hi, hi <= Len(c), TarClear(ms, pos),
         NEW k \in 1..(Len(ms) + 1), TarAtHeader(ms, c, p, k)
  PROVE  TarRightly(ms, c, p, hi, TarFeedHeader(p, Slice(c, pos, hi)))
<1> DEFINE a == TarFeedHeader(p, Slice(c, pos, hi))
<1>1. PICK n \in Nat : n = Len(ms) /\ ms \in [1..n -> M]
  BY LenProperties
<1>2. PICK b \in Nat : b = Block /\ b > 0
  BY TarAssumption
<1>3. PICK start \in Nat : start = TarStart(ms, k)
  BY DEF TarSits
<1>4. PICK body \in Nat : body = TarBody(ms, k) /\ body = start + b
  BY <1>2, <1>3 DEF TarBody
<1>5. start <= pos /\ pos < body /\ p.header_buf = Slice(c, start, pos) /\ Said(ms, p, k)
  BY <1>3, <1>4 DEF TarAtHeader
<1>6. PICK at \in Nat : TarFilledTo(c, start, p, pos, hi, at)
  BY <1>2, <1>4, <1>5, TarFillsOn
<1>7. pos < at /\ at <= hi /\ at <= body
  BY <1>2, <1>4, <1>6 DEF TarFilledTo
<1>8. ASSUME NEW buf
      PROVE  LET q == TarPart(p, buf, at)
             IN  /\ DOMAIN q = TarFields /\ q.state = p.state /\ q.header_buf = buf
                 /\ q.stream_pos = at /\ Said(ms, q, k)
                 /\ buf = <<>> => TarGood(q, M)
  <2> DEFINE q == TarPart(p, buf, at)
  <2>1. /\ DOMAIN q = TarFields /\ q.state = p.state /\ q.header_buf = buf
        /\ q.stream_pos = at /\ q.remaining = p.remaining /\ q.size = p.size
        /\ q.buf = p.buf /\ q.is_link = p.is_link /\ q.pax = p.pax
        /\ q.gnu_long_name = p.gnu_long_name /\ q.gnu_long_link = p.gnu_long_link
    BY DEF TarPart, TarGood, TarFields
  <2> HIDE DEF q
  <2>2. Said(ms, q, k)
    BY <1>5, <2>1 DEF Said
  <2>3. ASSUME buf = <<>> PROVE TarGood(q, M)
    <3>1. buf \in Seq(TarByte(M)) /\ Len(buf) < Block
      BY <1>2, <2>3
    <3> QED BY <2>1, <3>1 DEF TarGood
  <2> QED BY <2>1, <2>2, <2>3 DEF q
<1>9. ASSUME at < body \/ k = n + 1 \/ (k \notin Files(ms) /\ ~ TarRefused(ms[k]))
      PROVE  TarClear(ms, at) /\ Passed(TarHolds(ms), pos, at) = {}
  <2>1. CASE k = n + 1
    BY <1>1, <1>3, <1>5, <2>1, TarPastMembers
  <2>2. CASE k # n + 1
    <3>1. k \in 1..n
      BY <1>1, <2>2
    <3>2. PICK next \in Nat : next = TarStart(ms, k + 1) /\ body <= next
      <4>1. k + 1 \in 1..(n + 1)
        BY <3>1
      <4> QED BY <1>1, <1>4, <3>1, <4>1, TarStartsGrow
    <3>3. pos <= at /\ TarStart(ms, k) <= pos /\ at <= TarStart(ms, k + 1)
      BY <1>3, <1>5, <1>7, <3>2
    <3>4. TarBody(ms, k) <= at => ~ (at < body)
      BY <1>4
    <3>5. k \in 1..Len(ms)
      BY <1>1, <3>1
    <3>6. /\ Passed(TarHolds(ms), pos, at) =
               IF k \in Files(ms) /\ pos < TarBody(ms, k) /\ TarBody(ms, k) <= at
                 THEN {TarEntry(ms, k)} ELSE {}
          /\ (pos < TarBody(ms, k) /\ TarBody(ms, k) <= at => ~ TarRefused(ms[k])) =>
               TarClear(ms, at)
      BY <3>3, <3>5, TarMoves
    <3> QED BY <1>9, <2>2, <3>4, <3>6
  <2> QED BY <2>1, <2>2
<1>10. CASE at < body
  <2> DEFINE q == TarPart(p, Slice(c, start, at), at)
  <2>1. a = NeedsData(q, at - pos)
    BY <1>2, <1>4, <1>6, <1>10 DEF TarFilledTo
  <2>2. /\ q.state = p.state /\ q.header_buf = Slice(c, start, at)
        /\ q.stream_pos = at /\ Said(ms, q, k)
    BY <1>8
  <2> HIDE DEF q, a
  <2>3. start <= at
    BY <1>5, <1>7
  <2>4. TarAtHeader(ms, c, q, k)
    BY <1>3, <1>4, <1>10, <2>2, <2>3 DEF TarAtHeader
  <2>5. TarClear(ms, at) /\ Passed(TarHolds(ms), pos, at) = {}
    BY <1>9, <1>10
  <2>6. TarRight(ms, c, q)
    BY <2>2, <2>4, <2>5 DEF TarRight
  <2> QED BY <2>1, <2>2, <2>5, <2>6 DEF TarRightly, Tells, NeedsData, Answer, a
<1>11. CASE at = body
  <2> DEFINE full  == TarPart(p, <<>>, at)
             one   == [full EXCEPT !.state = "OneZeroBlock"]
             block == Slice(c, start, at)
             taken == at - pos
  <2>1. a = TarTreats(full, block, taken)
    BY <1>2, <1>4, <1>6, <1>11 DEF TarFilledTo
  <2>2. /\ DOMAIN full = TarFields /\ full.state = p.state /\ full.header_buf = <<>>
        /\ full.stream_pos = body /\ Said(ms, full, k) /\ TarGood(full, M)
    BY <1>8, <1>11
  <2>3. block = Slice(c, start, body)
    BY <1>11
  <2> HIDE DEF full, block, taken, a
  <2>4. CASE k \in 1..n /\ ms[k].type # "Zeros"
    <3>1. block = Slice(c, TarStart(ms, k), TarBody(ms, k))
      BY <1>3, <1>4, <2>3
    <3>2. TarStart(ms, k) <= pos /\ pos < TarBody(ms, k) /\ TarBody(ms, k) <= hi
      BY <1>3, <1>4, <1>5, <1>7, <1>11
    <3>3. full.stream_pos = TarBody(ms, k)
      BY <1>4, <2>2
    <3>4. TarRightly(ms, c, p, hi,
                     TarTreats(full, Slice(c, TarStart(ms, k), TarBody(ms, k)), taken))
      BY <1>1, <2>2, <2>4, <3>2, <3>3, TarMemberRight
    <3> QED BY <2>1, <3>1, <3>4 DEF a
  <2>5. ASSUME (k \in 1..n /\ ms[k].type = "Zeros") \/ k = n + 1
        PROVE  TarRightly(ms, c, p, hi, a)
    <3>1. full.state = "ReadingHeader"
      <4>1. ~ (k # 1 /\ ms[k - 1].type = "Zeros")
        <5>1. SUFFICES ASSUME k # 1, ms[k - 1].type = "Zeros" PROVE FALSE
          OBVIOUS
        <5>2. PICK i \in 1..n : i = k - 1 /\ i + 1 = k
          BY <1>1, <5>1
        <5>3. ms[i].type = "Zeros"
          BY <5>1, <5>2
        <5>4. i # n /\ ms[i + 1].type # "Zeros"
          BY <1>1, <5>3 DEF TarWell
        <5> QED BY <2>5, <5>2, <5>4
      <4> QED BY <2>2, <4>1 DEF TarAtHeader
    <3>2. IsZeroBlock(block)
      <4>1. ZeroByte \subseteq TarByte(M) /\ start <= start /\ start + b <= start + 2 * b
            /\ 2 * b \in Nat /\ start + b <= start + b
        BY <1>2 DEF TarByte
      <4>2. CASE k = n + 1
        <5>1. Stands(c, start, Zeros(2 * b))
          BY <1>1, <1>2, <1>3, <4>2 DEF TarSits
        <5>2. Slice(c, start, start + b) = Zeros(b)
          BY <4>1, <5>1, ZerosRead
        <5> QED BY <1>2, <1>4, <2>3, <5>2 DEF IsZeroBlock
      <4>3. CASE k \in 1..n /\ ms[k].type = "Zeros"
        <5>1. Stands(c, start, Zeros(b))
          BY <1>1, <1>2, <1>3, <4>3 DEF TarSits, TarLaid
        <5>2. Slice(c, start, start + b) = Zeros(b)
          BY <4>1, <5>1, ZerosRead
        <5> QED BY <1>2, <1>4, <2>3, <5>2 DEF IsZeroBlock
      <4> QED BY <2>5, <4>2, <4>3
    <3>3. a = NeedsData(one, taken)
      BY <2>1, <3>1, <3>2 DEF TarTreats
    <3>4. /\ one.state = "OneZeroBlock" /\ one.header_buf = <<>> /\ one.stream_pos = body
          /\ one.pax = full.pax /\ one.gnu_long_name = full.gnu_long_name
          /\ one.gnu_long_link = full.gnu_long_link
      BY <2>2 DEF TarFields
    <3> HIDE DEF one
    <3>5. TarClear(ms, body) /\ Passed(TarHolds(ms), pos, body) = {}
      <4>1. k # n + 1 => k \notin Files(ms) /\ ~ TarRefused(ms[k])
        BY <2>5 DEF Files, TarRefused, Metadata
      <4>2. k = n + 1 \/ (k \notin Files(ms) /\ ~ TarRefused(ms[k]))
        BY <4>1
      <4>3. TarClear(ms, at) /\ Passed(TarHolds(ms), pos, at) = {}
        BY <1>9, <4>2
      <4> QED BY <1>11, <4>3
    <3>6. Slice(c, body, body) = <<>>
      BY SliceOfNone
    <3>7. CASE k = n + 1
      <4>1. TarAtEnd(ms, c, one)
        <5>1. body <= body /\ body < body + b
          BY <1>2
        <5> QED BY <1>1, <1>2, <1>4, <3>4, <3>6, <3>7, <5>1 DEF TarAtEnd
      <4>2. TarRight(ms, c, one)
        BY <3>4, <3>5, <4>1 DEF TarRight
      <4> QED BY <3>3, <3>4, <3>5, <4>2 DEF TarRightly, Tells, NeedsData, Answer
    <3>8. CASE k \in 1..n /\ ms[k].type = "Zeros"
      <4>1. /\ k + 1 \in 1..(n + 1) /\ k + 1 # 1 /\ (k + 1) - 1 = k
            /\ body <= body /\ body < body + b
        BY <1>2, <3>8
      <4>2. body = TarStart(ms, k + 1) /\ TarBody(ms, k + 1) = body + b
        <5>1. body = TarStart(ms, k + 1)
          BY <1>1, <1>4, <3>8 DEF TarSits, TarLaid
        <5> QED BY <1>2, <5>1 DEF TarBody
      <4>3. Said(ms, one, k + 1)
        <5>1. k \notin Files(ms) /\ Len(ms) \in Nat
          BY <1>1, <3>8 DEF Files
        <5>2. ms[k].type # "PaxExtended" /\ ms[k].type # "GnuLongName"
              /\ ms[k].type # "GnuLongLink"
          BY <3>8
        <5> QED BY <1>1, <2>2, <3>4, <3>8, <5>1, <5>2, SaidNext DEF Said
      <4>4. TarAtHeader(ms, c, one, k + 1)
        BY <3>4, <3>6, <3>8, <4>1, <4>2, <4>3 DEF TarAtHeader
      <4>5. TarRight(ms, c, one)
        BY <1>1, <3>4, <3>5, <4>1, <4>4 DEF TarRight
      <4> QED BY <3>3, <3>4, <3>5, <4>5 DEF TarRightly, Tells, NeedsData, Answer
    <3> QED BY <2>5, <3>7, <3>8
  <2>6. k \in 1..n \/ k = n + 1
    BY <1>1
  <2> QED BY <2>4, <2>5, <2>6 DEF a
<1> QED
  BY <1>7, <1>10, <1>11

\* feed_second_zero(), in the second of the last blocks.
LEMMA TarEndRight ==
  ASSUME NEW M, NEW ms \in Seq(M), M \subseteq TarMembers,
         NEW c \in Seq(TarByte(M)), TarSits(ms, c),
         NEW p, TarGood(p, M), NEW pos \in Nat, p.stream_pos = pos, NEW hi \in Nat,
         pos < hi, hi <= Len(c), TarClear(ms, pos), TarAtEnd(ms, c, p)
  PROVE  TarRightly(ms, c, p, hi, TarFeedHeader(p, Slice(c, pos, hi)))
<1> DEFINE a == TarFeedHeader(p, Slice(c, pos, hi))
<1>1. PICK n \in Nat : n = Len(ms) /\ ms \in [1..n -> M]
  BY LenProperties
<1>2. PICK b \in Nat : b = Block /\ b > 0
  BY TarAssumption
<1>3. PICK last \in Nat : last = TarStart(ms, n + 1)
  <2>1. n + 1 \in 1..(n + 1)
    OBVIOUS
  <2> QED BY <1>1, <2>1 DEF TarSits
<1>4. PICK from \in Nat : from = TarBody(ms, n + 1) /\ from = last + b
  BY <1>2, <1>3 DEF TarBody
<1>5. /\ p.state = "OneZeroBlock" /\ from <= pos /\ pos < from + b
      /\ p.header_buf = Slice(c, from, pos)
  BY <1>1, <1>2, <1>4 DEF TarAtEnd
<1>6. PICK at \in Nat : TarFilledTo(c, from, p, pos, hi, at)
  BY <1>2, <1>5, TarFillsOn
<1>7. pos < at /\ at <= hi /\ at <= from + b
  BY <1>2, <1>6 DEF TarFilledTo
<1>8. CASE at < from + b
  <2> DEFINE q == TarPart(p, Slice(c, from, at), at)
  <2>1. a = NeedsData(q, at - pos)
    BY <1>2, <1>6, <1>8 DEF TarFilledTo
  <2>2. q.state = "OneZeroBlock" /\ q.header_buf = Slice(c, from, at) /\ q.stream_pos = at
    BY <1>5 DEF TarPart, TarGood, TarFields
  <2> HIDE DEF q, a
  <2>3. from <= at
    BY <1>5, <1>7
  <2>4. TarAtEnd(ms, c, q)
    BY <1>1, <1>2, <1>4, <1>8, <2>2, <2>3 DEF TarAtEnd
  <2>5. TarClear(ms, at) /\ Passed(TarHolds(ms), pos, at) = {}
    <3>1. TarStart(ms, Len(ms) + 1) <= pos
      BY <1>1, <1>3, <1>4, <1>5
    <3> QED BY <3>1, TarPastMembers
  <2>6. TarRight(ms, c, q)
    BY <2>2, <2>4, <2>5 DEF TarRight
  <2> QED BY <2>1, <2>2, <2>5, <2>6 DEF TarRightly, Tells, NeedsData, Answer, a
<1>9. CASE at = from + b
  <2> DEFINE full  == TarPart(p, <<>>, at)
             block == Slice(c, from, at)
  <2>1. a = TarTreats(full, block, at - pos)
    BY <1>2, <1>6, <1>9 DEF TarFilledTo
  <2>2. full.state = "OneZeroBlock"
    BY <1>5 DEF TarPart, TarGood, TarFields
  <2>3. IsZeroBlock(block)
    <3>1. ZeroByte \subseteq TarByte(M) /\ last <= from /\ from + b <= last + 2 * b
          /\ 2 * b \in Nat
      BY <1>4 DEF TarByte
    <3>2. Stands(c, last, Zeros(2 * b))
      BY <1>1, <1>2, <1>3 DEF TarSits
    <3> QED BY <1>2, <1>9, <3>1, <3>2, ZerosRead DEF IsZeroBlock
  <2> HIDE DEF full, block
  <2>4. a = EndsHere([full EXCEPT !.state = "End"], at - pos)
    BY <2>1, <2>2, <2>3 DEF TarTreats
  <2>5. TarLength(ms) = at
    BY <1>1, <1>2, <1>3, <1>4, <1>9 DEF TarLength
  <2> HIDE DEF a
  <2>6. TarLength(ms) <= hi /\ TarBody(ms, Len(ms) + 1) <= p.stream_pos
    BY <1>1, <1>4, <1>5, <1>7, <2>5
  <2> QED BY <2>4, <2>6 DEF TarRightly, EndsHere, Answer, a
<1> QED
  BY <1>7, <1>8, <1>9

\* Data is taken up to where the next member starts, and kept up to where it ends itself.
TarGrown(c, body, stored, pos, hi, next, remaining, at) ==
  LET data   == Slice(c, pos, hi)
      buf    == TarData(c, body, stored, pos)
      take   == Fewer(Len(data), remaining)
      useful == Fewer(take, stored - Len(buf))
  IN  /\ at = Fewer(hi, next) /\ pos < at /\ at <= hi /\ at <= next /\ take = at - pos
      /\ buf \o Taken(data, useful) = TarData(c, body, stored, at)

\* feed_pax() and feed_gnu_long() read on from what is there.
LEMMA TarGrows ==
  ASSUME NEW S, NEW c \in Seq(S), NEW body \in Nat, NEW stored \in Nat, NEW pos \in Nat,
         NEW hi \in Nat, NEW next \in Nat, NEW remaining \in Nat, body <= pos, pos < hi,
         hi <= Len(c), body + stored <= next, pos + remaining = next, remaining > 0
  PROVE  \E at \in Nat : TarGrown(c, body, stored, pos, hi, next, remaining, at)
<1> DEFINE data   == Slice(c, pos, hi)
           buf    == TarData(c, body, stored, pos)
           take   == Fewer(Len(data), remaining)
           useful == Fewer(take, stored - Len(buf))
<1>1. PICK len \in Nat : len = Len(c)
  BY LenProperties
<1>2. PICK at \in Nat : TakenTo(c, pos, pos, hi, remaining, at)
  <2>1. pos <= pos
    OBVIOUS
  <2> QED BY <2>1, TakesOn
<1>3. /\ at = Fewer(hi, next) /\ pos < at /\ at <= hi /\ at <= next /\ take = at - pos
  BY <1>2 DEF TakenTo
<1>4. PICK end \in Nat : end = body + stored /\ end <= next
  OBVIOUS
<1>5. CASE pos < end
  <2>1. PICK rest \in Nat : pos + rest = end /\ rest > 0
    <3>1. end - pos \in Nat /\ pos + (end - pos) = end /\ end - pos > 0
      BY <1>5
    <3> QED BY <3>1
  <2>2. PICK upto \in Nat : TakenTo(c, body, pos, hi, rest, upto)
    BY <2>1, TakesOn
  <2>3. buf = Slice(c, body, pos)
    BY <1>4, <1>5 DEF TarData, Fewer
  <2>4. Len(Slice(c, body, pos)) = pos - body
    BY <1>1, SliceIs
  <2>5. stored - Len(buf) = rest
    BY <1>4, <2>1, <2>3, <2>4
  <2>6. PICK d \in Nat : d = hi - pos
    OBVIOUS
  <2>7. Len(data) = d
    BY <1>1, <2>6, SliceIs
  <2>8. useful = Fewer(Len(data), rest)
    <3>1. rest <= remaining
      BY <1>4, <2>1
    <3>2. Fewer(Fewer(d, remaining), rest) = Fewer(d, rest)
      BY <3>1 DEF Fewer
    <3> HIDE DEF data, buf
    <3> QED BY <2>5, <2>7, <3>2
  <2>9. buf \o Taken(data, useful) = Slice(c, body, upto)
    <3> HIDE DEF data
    <3>1. Slice(c, body, pos) \o Taken(Slice(c, pos, hi), Fewer(Len(Slice(c, pos, hi)), rest))
            = Slice(c, body, upto)
      BY <2>2 DEF TakenTo
    <3> QED BY <2>3, <2>8, <3>1 DEF data
  <2>10. upto = Fewer(hi, end)
    BY <2>1, <2>2 DEF TakenTo
  <2>11. upto = Fewer(at, end)
    BY <1>3, <1>4, <2>10 DEF Fewer
  <2> HIDE DEF data, buf, take, useful
  <2> QED BY <1>3, <1>4, <2>9, <2>11 DEF TarGrown, TarData, data, buf, take, useful
<1>6. CASE ~ (pos < end)
  <2>1. body <= end /\ end <= pos /\ Fewer(pos, end) = end /\ Fewer(at, end) = end
    BY <1>3, <1>4, <1>6 DEF Fewer
  <2>2. buf = Slice(c, body, end)
    BY <1>4, <2>1 DEF TarData
  <2>3. end <= len /\ end <= Len(c) /\ body <= end
    BY <1>1, <2>1
  <2>4. Len(Slice(c, body, end)) = end - body
    <3> HIDE DEF data, buf, take, useful
    <3> QED BY <2>3, SliceIs
  <2>5. useful = 0
    <3>1. stored - Len(buf) = 0
      BY <1>4, <2>2, <2>4
    <3>2. take > 0 /\ take \in Nat
      BY <1>3
    <3> HIDE DEF take, buf
    <3> QED BY <3>1, <3>2 DEF Fewer
  <2>6. Taken(data, 0) = Slice(c, pos, pos + 0)
    <3>1. pos <= hi /\ 0 \in Nat /\ 0 <= hi - pos
      OBVIOUS
    <3> QED BY <3>1, SliceCut
  <2>7. Slice(c, pos, pos + 0) = <<>> /\ Slice(c, end, end) = <<>>
    <3>1. pos + 0 = pos
      OBVIOUS
    <3> QED BY <3>1, SliceOfNone
  <2>8. Slice(c, body, end) \o Slice(c, end, end) = Slice(c, body, end)
    <3>1. end <= end
      OBVIOUS
    <3> QED BY <1>1, <2>1, <2>3, <3>1, SliceGoesOn
  <2> HIDE DEF useful, data, buf
  <2>9. buf \o Taken(data, useful) = Slice(c, body, end)
    BY <2>2, <2>5, <2>6, <2>7, <2>8
  <2>10. TarData(c, body, stored, at) = Slice(c, body, end)
    BY <1>4, <2>1 DEF TarData
  <2> HIDE DEF take
  <2> QED BY <1>3, <2>9, <2>10 DEF TarGrown, data, buf, take, useful
<1> QED
  BY <1>5, <1>6

\* What the parser has set once an extended header's data is whole.
LEMMA TarSaysNext ==
  ASSUME NEW M, NEW ms \in Seq(M), M \subseteq TarMembers, TarWell(ms),
         NEW c \in Seq(TarByte(M)), TarSits(ms, c),
         NEW k \in 1..Len(ms), ms[k].type \in Metadata, ~ TarRefused(ms[k]),
         NEW q, TarGood(q, M), q.state = TarReading(ms[k].type),
         q.state = "SkippingData" => Said(ms, q, k + 1),
         q.state # "SkippingData" =>
           /\ Said(ms, q, k) /\ q.size = ms[k].stored
           /\ q.buf = Slice(c, TarBody(ms, k), TarBody(ms, k) + ms[k].stored),
         q.state = "ReadingGnuLong" => (q.is_link <=> ms[k].type = "GnuLongLink")
  PROVE  Said(ms, TarSettings(q), k + 1)
<1> DEFINE m == ms[k]
           whole == Len(q.buf) > 0 /\ Whole(q.buf, "data", q.size)
           said  == q.buf[1].of
           name  == Some(IF whole THEN said.sets.path[1] ELSE "")
<1>1. PICK n \in Nat : n = Len(ms) /\ ms \in [1..n -> M]
  BY LenProperties
<1>2. m \in M /\ m \in TarMembers
  BY <1>1
<1>3. PICK body \in Nat : body = TarBody(ms, k)
  BY <1>1, TarAssumption DEF TarSits, TarBody
<1>4. PICK stored \in Nat : stored = m.stored /\ stored > 0
  BY <1>2 DEF TarWell, TarMembers
<1>5. ASSUME q.state # "SkippingData" PROVE whole /\ said = m
  <2>1. Stands(c, body, Bytes("data", m, stored))
    <3>1. m.type # "Zeros"
      BY DEF Metadata
    <3> QED BY <1>3, <1>4, <3>1 DEF TarSits, TarLaid
  <2>4. /\ Whole(Slice(c, body, body + stored), "data", stored)
        /\ Slice(c, body, body + stored)[1].of = m
    BY <1>2, <1>4, <2>1, TarFieldRead
  <2>5. q.buf = Slice(c, body, body + stored) /\ q.size = stored
    BY <1>3, <1>4, <1>5 DEF m
  <2>6. Len(q.buf) = stored
    BY <2>4, <2>5 DEF Whole
  <2> QED BY <1>4, <2>4, <2>5, <2>6 DEF m
<1>6. k \notin Files(ms) /\ Len(ms) \in Nat
  BY <1>1 DEF Files
<1>7. DOMAIN q = TarFields
  BY DEF TarGood
<1>8. CASE m.type = "PaxGlobal"
  <2>1. q.state = "SkippingData"
    BY <1>8 DEF TarReading
  <2>2. TarSettings(q) = q
    BY <2>1 DEF TarSettings
  <2> QED BY <2>1, <2>2
<1>9. CASE m.type = "PaxExtended"
  <2>1. q.state = "ReadingPaxData"
    BY <1>9 DEF TarReading
  <2>2. Said(ms, q, k)
    BY <2>1
  <2> DEFINE set == [path     |-> Over(m.sets.path, q.pax.path),
                     linkpath |-> Over(m.sets.linkpath, q.pax.linkpath),
                     size     |-> Over(m.sets.size, q.pax.size)]
  <2>3. TarSettings(q) = [q EXCEPT !.pax = set]
    BY <1>5, <2>1 DEF TarSettings
  <2>4. /\ set = PaxSettings(ms, k + 1)
        /\ LongName(ms, k + 1, "GnuLongName") = LongName(ms, k, "GnuLongName")
        /\ LongName(ms, k + 1, "GnuLongLink") = LongName(ms, k, "GnuLongLink")
    <3>1. m.type # "GnuLongName" /\ m.type # "GnuLongLink"
      BY <1>9
    <3>2. q.pax = PaxSettings(ms, k)
      BY <2>2 DEF Said
    <3> QED BY <1>6, <1>9, <3>1, <3>2, SaidNext
  <2> HIDE DEF set
  <2> QED BY <1>7, <2>2, <2>3, <2>4 DEF Said, TarFields
<1>10. CASE m.type \in {"GnuLongName", "GnuLongLink"}
  <2>1. q.state = "ReadingGnuLong" /\ q.state # "SkippingData" /\ q.state # "ReadingPaxData"
    BY <1>10 DEF TarReading
  <2>2. Said(ms, q, k)
    BY <2>1
  <2>3. m.sets.path # None /\ name = m.sets.path
    <3>1. m.sets.path # None
      BY <1>10 DEF TarWell
    <3>2. m.sets.path \in Optional(STRING)
      BY <1>2 DEF TarMembers
    <3>3. m.sets.path = Some(m.sets.path[1])
      BY <3>1, <3>2, OptionalIs
    <3> QED BY <1>5, <2>1, <3>1, <3>3
  <2>4. \A old : Over(m.sets.path, old) = m.sets.path
    BY <2>3 DEF Over
  <2>5. m.type # "PaxExtended"
    BY <1>10
  <2>6. PaxSettings(ms, k + 1) = PaxSettings(ms, k)
    BY <1>6, <2>5, SaidNext
  <2>7. \A type \in {"GnuLongName", "GnuLongLink"} :
          LongName(ms, k + 1, type) = IF m.type # type THEN LongName(ms, k, type)
                                      ELSE Over(m.sets.path, LongName(ms, k, type))
    BY <1>6, SaidNext
  <2>8. TarSettings(q) = IF q.is_link THEN [q EXCEPT !.gnu_long_link = name]
                         ELSE [q EXCEPT !.gnu_long_name = name]
    BY <2>1 DEF TarSettings
  <2> HIDE DEF name
  <2>9. q.is_link <=> m.type = "GnuLongLink"
    BY <2>1
  <2>10. CASE m.type = "GnuLongLink"
    <3>1. TarSettings(q) = [q EXCEPT !.gnu_long_link = m.sets.path]
      BY <2>3, <2>8, <2>9, <2>10
    <3>2. /\ LongName(ms, k + 1, "GnuLongLink") = m.sets.path
          /\ LongName(ms, k + 1, "GnuLongName") = LongName(ms, k, "GnuLongName")
      <4>1. m.type # "GnuLongName"
        BY <2>10
      <4> QED BY <2>4, <2>7, <2>10, <4>1
    <3> HIDE DEF m
    <3> QED BY <1>7, <2>2, <2>6, <3>1, <3>2 DEF Said, TarFields
  <2>11. CASE m.type = "GnuLongName"
    <3>1. TarSettings(q) = [q EXCEPT !.gnu_long_name = m.sets.path]
      <4>1. ~ q.is_link
        BY <2>9, <2>11
      <4> QED BY <2>3, <2>8, <4>1
    <3>2. /\ LongName(ms, k + 1, "GnuLongName") = m.sets.path
          /\ LongName(ms, k + 1, "GnuLongLink") = LongName(ms, k, "GnuLongLink")
      <4>1. m.type # "GnuLongLink"
        BY <2>11
      <4> QED BY <2>4, <2>7, <2>11, <4>1
    <3> HIDE DEF m
    <3> QED BY <1>7, <2>2, <2>6, <3>1, <3>2 DEF Said, TarFields
  <2> QED BY <1>10, <2>10, <2>11
<1> QED
  BY <1>8, <1>9, <1>10 DEF Metadata

\* feed_skip(), feed_pax() and feed_gnu_long(), in a member's data.
LEMMA TarDataRight ==
  ASSUME NEW M, NEW ms \in Seq(M), M \subseteq TarMembers, TarWell(ms),
         NEW c \in Seq(TarByte(M)), TarSits(ms, c),
         NEW p, TarGood(p, M), NEW pos \in Nat, p.stream_pos = pos, NEW hi \in Nat,
         pos < hi, hi <= Len(c), TarClear(ms, pos),
         NEW k \in 1..Len(ms), TarAtData(ms, c, p, k)
  PROVE  TarRightly(ms, c, p, hi, TarFeedData(p, Slice(c, pos, hi)))
<1> DEFINE data   == Slice(c, pos, hi)
           take   == Fewer(Len(data), p.remaining)
           useful == Fewer(take, p.size - Len(p.buf))
           buf    == IF p.state = "SkippingData" THEN p.buf ELSE p.buf \o Taken(data, useful)
           q      == TarTake(p, data)
           set    == TarSettings(q)
           idle   == [set EXCEPT !.state = "ReadingHeader", !.buf = <<>>]
           a      == TarFeedData(p, data)
           m      == ms[k]
<1>1. PICK n \in Nat : n = Len(ms) /\ ms \in [1..n -> M]
  BY LenProperties
<1>2. m \in M /\ m \in TarMembers /\ k \in 1..n /\ k \in 1..(n + 1) /\ k + 1 \in 1..(n + 1)
      /\ (k + 1) - 1 = k
  BY <1>1
<1>3. PICK b \in Nat : b = Block /\ b > 0
  BY TarAssumption
<1>4. PICK start \in Nat, next \in Nat : start = TarStart(ms, k) /\ next = TarStart(ms, k + 1)
  BY <1>1, <1>2 DEF TarSits
<1>5. PICK body \in Nat : body = TarBody(ms, k) /\ start <= body
  BY <1>3, <1>4 DEF TarBody
<1>6. PICK stored \in Nat : stored = m.stored
  BY <1>2 DEF TarMembers
<1>7. m.type # "Zeros" /\ body + stored <= next
  <2>1. m.type # "Zeros"
    BY DEF TarAtData
  <2>2. PICK pad \in Nat : pad = Padded(stored) /\ stored <= pad
    BY PaddedFits
  <2>3. next = body + pad
    BY <1>1, <1>2, <1>4, <1>5, <1>6, <2>1, <2>2 DEF TarSits, TarLaid
  <2> QED BY <2>1, <2>2, <2>3
<1>8. PICK remaining \in Nat : remaining = p.remaining
  BY DEF TarGood
<1>9. remaining > 0 /\ body <= pos /\ pos + remaining = next
  BY <1>4, <1>5, <1>8 DEF TarAtData
<1>10. PICK at \in Nat : TarGrown(c, body, stored, pos, hi, next, remaining, at)
  BY <1>7, <1>9, TarGrows
<1>11. pos < at /\ at <= hi /\ at <= next /\ take = at - pos
  BY <1>8, <1>10 DEF TarGrown
<1>12. q = [p EXCEPT !.remaining = @ - take, !.stream_pos = @ + take, !.buf = buf]
  BY DEF TarTake
<1>13. data # <<>>
  BY SliceIsSome
<1>14. a = NeedsData(IF q.remaining > 0 THEN q ELSE idle, p.remaining - q.remaining)
  <2> HIDE DEF q, data
  <2> QED BY <1>13 DEF TarFeedData, q
<1>15. p.state # "SkippingData" =>
         /\ Said(ms, p, k) /\ p.size = stored
         /\ p.buf = TarData(c, body, stored, pos)
  BY <1>5, <1>6 DEF TarAtData
<1>16. p.state # "SkippingData" => buf = TarData(c, body, stored, at)
  <2> SUFFICES ASSUME p.state # "SkippingData" PROVE buf = TarData(c, body, stored, at)
    OBVIOUS
  <2>1. buf = p.buf \o Taken(data, useful)
    OBVIOUS
  <2>2. p.buf = TarData(c, body, stored, pos) /\ p.size = stored
    BY <1>15
  <2> QED BY <1>8, <1>10, <2>1, <2>2 DEF TarGrown
<1> HIDE DEF take, useful, buf, data
<1>17. PICK left \in Nat : left = next - at /\ p.remaining - take = left
  <2>1. PICK d \in Nat : d = at - pos /\ take = d
    BY <1>11
  <2>2. next - at \in Nat /\ remaining - d = next - at
    BY <1>9, <1>11, <2>1
  <2> QED BY <1>8, <2>1, <2>2
<1>18. p.stream_pos + take = at
  BY <1>11
<1>19. /\ DOMAIN q = TarFields /\ q.state = p.state /\ q.header_buf = <<>>
       /\ q.stream_pos = at /\ q.remaining = left /\ q.size = p.size /\ q.buf = buf
       /\ q.is_link = p.is_link /\ q.pax = p.pax
       /\ q.gnu_long_name = p.gnu_long_name /\ q.gnu_long_link = p.gnu_long_link
  BY <1>12, <1>17, <1>18 DEF TarGood, TarFields, TarAtData
<1>20. TarGood(q, M)
  <2>1. data \in Seq(TarByte(M))
    <3>1. pos <= hi
      OBVIOUS
    <3> QED BY <3>1, SliceIs DEF data
  <2> HIDE DEF q
  <2> QED BY <2>1, TarTaken DEF q
<1> HIDE DEF q
<1>21. TarClear(ms, at) /\ Passed(TarHolds(ms), pos, at) = {}
  <2>1. pos <= at /\ TarStart(ms, k) <= pos /\ at <= TarStart(ms, k + 1)
    BY <1>4, <1>5, <1>9, <1>11
  <2>2. ~ (pos < TarBody(ms, k))
    BY <1>5, <1>9
  <2> QED BY <2>1, <2>2, TarMoves
<1>22. p.state = TarReading(m.type)
  BY DEF TarAtData
<1>23. q.state = "ReadingGnuLong" => (q.is_link <=> m.type = "GnuLongLink")
  BY <1>19 DEF TarAtData
<1>24. q.state = "SkippingData" => Said(ms, q, k + 1)
  BY <1>19 DEF TarAtData, Said
<1>25. q.state # "SkippingData" =>
         /\ Said(ms, q, k) /\ q.size = stored /\ q.buf = TarData(c, body, stored, at)
  BY <1>15, <1>16, <1>19 DEF Said
<1>26. CASE left > 0
  <2>1. a = NeedsData(q, p.remaining - q.remaining)
    BY <1>14, <1>19, <1>26
  <2>2. body <= at /\ at + left = next
    BY <1>9, <1>11, <1>17
  <2>3. /\ q.remaining > 0 /\ TarBody(ms, k) <= q.stream_pos
        /\ q.stream_pos + q.remaining = TarStart(ms, k + 1)
    BY <1>4, <1>5, <1>19, <1>26, <2>2
  <2>4. TarAtData(ms, c, q, k)
    BY <1>5, <1>6, <1>7, <1>19, <1>22, <1>23, <1>24, <1>25, <2>3 DEF TarAtData
  <2>5. TarRight(ms, c, q)
    BY <1>19, <1>21, <2>4 DEF TarRight
  <2> HIDE DEF a
  <2> QED BY <1>19, <1>21, <2>1, <2>5 DEF TarRightly, Tells, NeedsData, Answer, a, data
<1>27. CASE left = 0
  <2>1. a = NeedsData(idle, p.remaining - q.remaining)
    BY <1>14, <1>19, <1>27
  <2>2. at = next
    BY <1>11, <1>17, <1>27
  <2>3. Said(ms, set, k + 1)
    <3>1. CASE m.type \in Metadata
      <4>1. ~ TarRefused(m)
        <5>1. ~ (pos < TarBody(ms, k))
          BY <1>5, <1>9
        <5> QED BY <5>1 DEF TarClear
      <4>2. q.state # "SkippingData" =>
              q.buf = Slice(c, TarBody(ms, k), TarBody(ms, k) + m.stored)
        <5>1. Fewer(at, body + stored) = body + stored
          BY <1>7, <2>2 DEF Fewer
        <5> QED BY <1>5, <1>6, <1>25, <5>1 DEF TarData
      <4> QED BY <1>6, <1>19, <1>20, <1>22, <1>23, <1>24, <1>25, <3>1, <4>1, <4>2, TarSaysNext
    <3>2. CASE m.type \notin Metadata
      <4>1. q.state = "SkippingData"
        BY <1>19, <1>22, <3>2 DEF TarReading, Metadata
      <4>2. set = q
        BY <4>1 DEF TarSettings
      <4> QED BY <1>24, <4>1, <4>2
    <3> QED BY <3>1, <3>2
  <2>4. TarGood(set, M) /\ set.stream_pos = at /\ set.header_buf = <<>>
    <3>1. q.state \in TarReads
      BY <1>19, <1>22 DEF TarReading, TarReads
    <3>2. TarGood(set, M) /\ set.stream_pos = q.stream_pos
      BY <1>20, <3>1, TarSet
    <3>3. set.header_buf = q.header_buf
      BY <1>19, <3>1 DEF TarSettings, TarReads, TarFields
    <3> QED BY <1>19, <3>2, <3>3
  <2> HIDE DEF set
  <2>5. /\ idle.state = "ReadingHeader" /\ idle.header_buf = <<>> /\ idle.stream_pos = at
        /\ idle.pax = set.pax /\ idle.gnu_long_name = set.gnu_long_name
        /\ idle.gnu_long_link = set.gnu_long_link
    BY <2>4 DEF TarGood, TarFields
  <2> HIDE DEF idle, a
  <2>6. Said(ms, idle, k + 1)
    BY <2>3, <2>5 DEF Said
  <2>7. next <= next /\ next < next + b /\ Slice(c, next, next) = <<>>
    BY <1>3, SliceOfNone
  <2>8. TarAtHeader(ms, c, idle, k + 1)
    BY <1>2, <1>3, <1>4, <1>7, <2>2, <2>5, <2>6, <2>7 DEF TarAtHeader, TarBody
  <2>9. TarRight(ms, c, idle)
    BY <1>1, <1>2, <1>21, <2>5, <2>8 DEF TarRight
  <2> QED BY <1>21, <2>1, <2>5, <2>9 DEF TarRightly, Tells, NeedsData, Answer, a, data
<1> QED
  BY <1>26, <1>27

\* feed(): fed what stands there, the tar parser stays right, and tells of an entry when it
\* passes where its data starts.
LEMMA TarFedRight ==
  ASSUME NEW M, NEW ms \in Seq(M), M \subseteq TarMembers, TarWell(ms),
         NEW c \in Seq(TarByte(M)), TarSits(ms, c),
         NEW p, TarGood(p, M), TarRight(ms, c, p), NEW pos \in Nat, p.stream_pos = pos,
         NEW hi \in Nat, pos < hi, hi <= Len(c)
  PROVE  TarRightly(ms, c, p, hi, TarFeed(p, Slice(c, pos, hi)))
<1> DEFINE data == Slice(c, pos, hi)
<1>1. TarClear(ms, pos)
  BY DEF TarRight
<1>2. ASSUME NEW k \in 1..(Len(ms) + 1), TarAtHeader(ms, c, p, k)
      PROVE  TarRightly(ms, c, p, hi, TarFeed(p, data))
  <2>1. TarFeed(p, data) = TarFeedHeader(p, data)
    <3>1. p.state \in {"ReadingHeader", "OneZeroBlock"}
      BY <1>2 DEF TarAtHeader
    <3> QED BY <3>1 DEF TarFeed
  <2>2. TarRightly(ms, c, p, hi, TarFeedHeader(p, data))
    BY <1>1, <1>2, TarHeaderRight
  <2> QED BY <2>1, <2>2
<1>3. ASSUME TarAtEnd(ms, c, p) PROVE TarRightly(ms, c, p, hi, TarFeed(p, data))
  <2>1. TarFeed(p, data) = TarFeedHeader(p, data)
    <3>1. p.state \in {"ReadingHeader", "OneZeroBlock"}
      BY <1>3 DEF TarAtEnd
    <3> QED BY <3>1 DEF TarFeed
  <2>2. TarRightly(ms, c, p, hi, TarFeedHeader(p, data))
    BY <1>1, <1>3, TarEndRight
  <2> QED BY <2>1, <2>2
<1>4. ASSUME NEW k \in 1..Len(ms), TarAtData(ms, c, p, k)
      PROVE  TarRightly(ms, c, p, hi, TarFeed(p, data))
  <2>1. TarFeed(p, data) = TarFeedData(p, data)
    <3>1. /\ p.state \in {"SkippingData", "ReadingPaxData", "ReadingGnuLong"}
          /\ p.state \notin {"ReadingHeader", "OneZeroBlock"}
      BY <1>4 DEF TarAtData, TarReading
    <3> QED BY <3>1 DEF TarFeed
  <2>2. TarRightly(ms, c, p, hi, TarFeedData(p, data))
    BY <1>1, <1>4, TarDataRight
  <2> QED BY <2>1, <2>2
<1> QED
  BY <1>2, <1>3, <1>4 DEF TarRight

\* The places of the archive's last blocks.
LEMMA TarLastIs ==
  ASSUME NEW M, NEW ms \in Seq(M), M \subseteq TarMembers
  PROVE  \E last \in Nat, b \in Nat :
           /\ b = Block /\ b > 0 /\ last = TarStart(ms, Len(ms) + 1)
           /\ TarBody(ms, Len(ms) + 1) = last + b /\ TarLength(ms) = last + 2 * b
<1>1. PICK n \in Nat : n = Len(ms)
  BY LenProperties
<1>2. PICK b \in Nat : b = Block /\ b > 0
  BY TarAssumption
<1>3. n + 1 \in 1..(n + 1)
  OBVIOUS
<1>4. PICK last \in Nat : last = TarStart(ms, Len(ms) + 1)
  BY <1>1, <1>3, TarStartsGrow
<1> QED
  BY <1>2, <1>4 DEF TarBody, TarLength

\* A parser that has not ended is before the archive's end.
LEMMA TarInside ==
  ASSUME NEW M, NEW ms \in Seq(M), M \subseteq TarMembers, NEW c,
         NEW p, TarGood(p, M), TarRight(ms, c, p), NEW pos \in Nat, p.stream_pos = pos
  PROVE  pos < TarLength(ms) /\ TarLength(ms) \in Nat
<1>1. PICK n \in Nat : n = Len(ms)
  BY LenProperties
<1>2. PICK last \in Nat, b \in Nat :
        /\ b = Block /\ b > 0 /\ last = TarStart(ms, n + 1)
        /\ TarBody(ms, n + 1) = last + b /\ TarLength(ms) = last + 2 * b
  BY <1>1, TarLastIs
<1>3. ASSUME NEW k \in 1..n
      PROVE  \E next \in Nat : /\ next = TarStart(ms, k + 1) /\ next <= last
                               /\ TarBody(ms, k) <= next /\ TarBody(ms, k) \in Nat
  <2>1. k + 1 \in 1..(n + 1) /\ n + 1 \in 1..(n + 1) /\ k < n + 1 /\ k \in 1..(n + 1)
    OBVIOUS
  <2>2. PICK start \in Nat, next \in Nat : start = TarStart(ms, k) /\ next = TarStart(ms, k + 1)
    BY <1>1, <2>1, TarStartsGrow
  <2>3. TarStart(ms, k + 1) <= TarStart(ms, n + 1) /\ TarBody(ms, k) <= TarStart(ms, k + 1)
    BY <1>1, <2>1, TarStartsGrow
  <2> QED BY <1>2, <2>2, <2>3 DEF TarBody
<1>4. ASSUME NEW k \in 1..(n + 1), TarAtHeader(ms, c, p, k) PROVE pos < last + 2 * b
  <2>1. pos < TarBody(ms, k)
    BY <1>4 DEF TarAtHeader
  <2>2. CASE k = n + 1
    BY <1>2, <2>1, <2>2
  <2>3. CASE k # n + 1
    <3>1. k \in 1..n
      BY <2>3
    <3>2. PICK next \in Nat : /\ next <= last /\ TarBody(ms, k) <= next
                              /\ TarBody(ms, k) \in Nat
      BY <1>3, <3>1
    <3> QED BY <2>1, <3>2
  <2> QED BY <2>2, <2>3
<1>5. ASSUME TarAtEnd(ms, c, p) PROVE pos < last + 2 * b
  BY <1>1, <1>2, <1>5 DEF TarAtEnd
<1>6. ASSUME NEW k \in 1..n, TarAtData(ms, c, p, k) PROVE pos < last + 2 * b
  <2>1. PICK next \in Nat : next = TarStart(ms, k + 1) /\ next <= last
    BY <1>3
  <2>2. PICK remaining \in Nat : remaining = p.remaining
    BY DEF TarGood
  <2>3. remaining > 0 /\ pos + remaining = next
    BY <1>6, <2>1, <2>2 DEF TarAtData
  <2> QED BY <2>1, <2>3
<1>7. pos < last + 2 * b
  BY <1>1, <1>4, <1>5, <1>6 DEF TarRight
<1> QED
  BY <1>2, <1>7

\* end_of_stream(): the parser may end just where the archive may.
LEMMA TarEndsRight ==
  ASSUME NEW M, NEW ms \in Seq(M), M \subseteq TarMembers, TarWell(ms),
         NEW c \in Seq(TarByte(M)), TarSits(ms, c),
         NEW p, TarGood(p, M), TarRight(ms, c, p), NEW pos \in Nat, p.stream_pos = pos,
         pos <= Len(c)
  PROVE  TarMayEnd(p) <=> pos \in TarEnds(ms)
<1>1. PICK n \in Nat : n = Len(ms) /\ ms \in [1..n -> M]
  BY LenProperties
<1>2. PICK b \in Nat : b = Block /\ b > 0
  BY TarAssumption
<1>3. ASSUME NEW k \in 1..(n + 1), TarAtHeader(ms, c, p, k)
      PROVE  TarMayEnd(p) <=> pos \in TarEnds(ms)
  <2>1. PICK start \in Nat : start = TarStart(ms, k)
    BY <1>1 DEF TarSits
  <2>2. start <= pos /\ pos < TarBody(ms, k) /\ p.header_buf = Slice(c, start, pos)
    BY <1>3, <2>1 DEF TarAtHeader
  <2>3. pos \in TarEnds(ms) <=> \/ pos = start /\ ~ Pending(ms, k)
                                \/ k # 1 /\ ms[k - 1].type = "Zeros"
    <3>1. TarStart(ms, k) <= pos /\ pos < TarBody(ms, k)
      BY <2>1, <2>2
    <3> QED BY <1>1, <2>1, <3>1, TarEndsInHeader
  <2>4. p.header_buf = <<>> <=> pos = start
    <3>1. pos = start => p.header_buf = <<>>
      BY <2>1, <2>2, SliceOfNone
    <3>2. start < pos => p.header_buf # <<>>
      BY <2>1, <2>2, SliceIsSome
    <3> QED BY <2>1, <2>2, <3>1, <3>2
  <2>5. p.state = IF k # 1 /\ ms[k - 1].type = "Zeros" THEN "OneZeroBlock"
                  ELSE "ReadingHeader"
    BY <1>3 DEF TarAtHeader
  <2>6. ASSUME pos = start
        PROVE  ~ Pending(ms, k) <=> /\ p.pax = NoSettings
                                    /\ p.gnu_long_name = None /\ p.gnu_long_link = None
    <3>1. TarClear(ms, TarStart(ms, k))
      BY <2>1, <2>6 DEF TarRight
    <3>2. Said(ms, p, k)
      BY <1>3 DEF TarAtHeader
    <3> QED BY <1>1, <3>1, <3>2, PendingIs DEF Said
  <2> QED BY <2>3, <2>4, <2>5, <2>6 DEF TarMayEnd
<1>4. ASSUME TarAtEnd(ms, c, p) PROVE TarMayEnd(p) <=> pos \in TarEnds(ms)
  <2>1. TarMayEnd(p)
    BY <1>4 DEF TarAtEnd, TarMayEnd
  <2>2. PICK last \in Nat :
          /\ last = TarStart(ms, n + 1)
          /\ TarBody(ms, n + 1) = last + b /\ TarLength(ms) = last + 2 * b
    BY <1>1, <1>2, TarLastIs
  <2>3. last + b <= pos /\ pos < (last + b) + b
    BY <1>1, <1>2, <1>4, <2>2 DEF TarAtEnd
  <2>4. TarBody(ms, n + 1) <= pos /\ pos <= TarLength(ms)
    BY <2>2, <2>3
  <2>5. pos \in TarEnds(ms)
    BY <1>1, <2>4, TarEndsOutside
  <2> QED BY <2>1, <2>5
<1>5. ASSUME NEW k \in 1..n, TarAtData(ms, c, p, k)
      PROVE  TarMayEnd(p) <=> pos \in TarEnds(ms)
  <2>1. p.state \notin {"OneZeroBlock", "End", "ReadingHeader"}
    BY <1>5 DEF TarAtData, TarReading
  <2>2. PICK remaining \in Nat : remaining = p.remaining
    BY DEF TarGood
  <2>3. PICK next \in Nat : next = TarStart(ms, k + 1)
    <3>1. k + 1 \in 1..(n + 1)
      OBVIOUS
    <3> QED BY <1>1, <3>1 DEF TarSits
  <2>4. TarBody(ms, k) <= pos /\ remaining > 0 /\ pos + remaining = next
    BY <1>5, <2>2, <2>3 DEF TarAtData
  <2>5. pos < TarStart(ms, k + 1)
    BY <2>3, <2>4
  <2>6. pos \notin TarEnds(ms)
    BY <1>1, <2>4, <2>5, TarEndsOutside
  <2> QED BY <2>1, <2>6 DEF TarMayEnd
<1> QED
  BY <1>1, <1>3, <1>4, <1>5 DEF TarRight

\* A new tar parser is at the start.
LEMMA TarFirstRight ==
  ASSUME NEW M, NEW ms \in Seq(M), M \subseteq TarMembers, NEW c
  PROVE  TarRight(ms, c, TarNew)
<1>1. PICK n \in Nat : n = Len(ms) /\ ms \in [1..n -> M]
  BY LenProperties
<1>2. PICK b \in Nat : b = Block /\ b > 0
  BY TarAssumption
<1>3. TarStart(ms, 1) = 0 /\ 1 \in 1..(n + 1)
  BY <1>1, TarStartsGrow
<1>4. TarClear(ms, 0)
  <2>1. ASSUME NEW k \in 1..n PROVE 0 < TarBody(ms, k)
    <3>1. PICK start \in Nat : start = TarStart(ms, k)
      <4>1. k \in 1..(n + 1)
        OBVIOUS
      <4> QED BY <1>1, <4>1, TarStartsGrow
    <3> QED BY <1>2, <3>1 DEF TarBody
  <2> QED BY <1>1, <2>1 DEF TarClear
<1>5. Said(ms, TarNew, 1)
  <2>1. \A types : Speaking(ms, 1, types) = {}
    BY DEF Speaking
  <2>2. \A types, field : LastSet(ms, Speaking(ms, 1, types), field) = None
    BY <2>1 DEF LastSet
  <2> QED BY <2>2 DEF Said, TarNew, NoSettings, PaxSettings, PaxSet, LongName
<1>6. TarAtHeader(ms, c, TarNew, 1)
  <2>1. Slice(c, 0, 0) = <<>>
    BY SliceOfNone
  <2>2. 0 <= 0 /\ 0 < 0 + b
    BY <1>2
  <2> QED BY <1>2, <1>3, <1>5, <2>1, <2>2 DEF TarAtHeader, TarNew, TarBody
<1> QED
  BY <1>1, <1>3, <1>4, <1>6 DEF TarRight, TarNew

\* The entries and the refusals of an archive are after its first byte.
LEMMA TarPlacesAre ==
  ASSUME NEW M, NEW ms \in Seq(M), M \subseteq TarMembers
  PROVE  /\ \A e \in TarHolds(ms) : e.data_offset \in Nat /\ e.data_offset > 0
         /\ \A place \in TarRefusals(ms) : place \in Nat /\ place > 0
<1>1. PICK n \in Nat : n = Len(ms) /\ ms \in [1..n -> M]
  BY LenProperties
<1>2. PICK b \in Nat : b = Block /\ b > 0
  BY TarAssumption
<1>3. ASSUME NEW k \in 1..n
      PROVE  TarStart(ms, k) + Block \in Nat /\ TarStart(ms, k) + Block > 0
  <2>1. PICK start \in Nat : start = TarStart(ms, k)
    <3>1. k \in 1..(n + 1)
      OBVIOUS
    <3> QED BY <1>1, <3>1, TarStartsGrow
  <2> QED BY <1>2, <2>1
<1>4. ASSUME NEW e \in TarHolds(ms) PROVE e.data_offset \in Nat /\ e.data_offset > 0
  <2>1. PICK k \in 1..n : e.data_offset = TarStart(ms, k) + Block
    BY <1>1 DEF TarHolds, Files, TarEntry, Entry
  <2> QED BY <1>3, <2>1
<1>5. ASSUME NEW place \in TarRefusals(ms) PROVE place \in Nat /\ place > 0
  <2>1. PICK k \in 1..n : place = TarStart(ms, k) + Block
    BY <1>1 DEF TarRefusals
  <2> QED BY <1>3, <2>1
<1> QED
  BY <1>4, <1>5

\* No header is to be refused up to a place where none of the refusals is.
LEMMA TarClearIs ==
  ASSUME NEW ms, NEW pos
  PROVE  TarClear(ms, pos) <=> \A place \in TarRefusals(ms) : pos < place
BY DEF TarClear, TarRefusals, TarBody, TarRefused

\* Once the parser ends, it has told of all there is.
LEMMA TarEndIsAll ==
  ASSUME NEW M, NEW ms \in Seq(M), M \subseteq TarMembers, NEW pos \in Nat,
         TarClear(ms, pos), TarBody(ms, Len(ms) + 1) <= pos
  PROVE  /\ TarRefusals(ms) = {}
         /\ \A e \in TarHolds(ms) : e.data_offset \in Nat /\ e.data_offset <= pos
<1>1. PICK last \in Nat, b \in Nat :
        b = Block /\ last = TarStart(ms, Len(ms) + 1) /\ TarBody(ms, Len(ms) + 1) = last + b
  BY TarLastIs
<1>2. TarStart(ms, Len(ms) + 1) <= pos
  BY <1>1
<1> QED
  BY <1>2, TarPastMembers

\* An archive is a header long at least, and ends nowhere inside its first one.
LEMMA TarStartsLong ==
  ASSUME NEW M, NEW ms \in Seq(M), M \subseteq TarMembers, NEW pos \in Nat, pos < Block
  PROVE  (pos > 0 => pos \notin TarEnds(ms)) /\ TarLength(ms) \in Nat /\ pos < TarLength(ms)
<1>1. PICK n \in Nat : n = Len(ms)
  BY LenProperties
<1>2. PICK last \in Nat, b \in Nat : b = Block /\ b > 0 /\ TarLength(ms) = last + 2 * b
  BY TarLastIs
<1>3. TarStart(ms, 1) = 0 /\ 1 \in 1..(n + 1)
  BY <1>1, TarStartsGrow
<1>4. TarStart(ms, 1) <= pos /\ pos < TarBody(ms, 1)
  BY <1>2, <1>3 DEF TarBody
<1>5. pos \in TarEnds(ms) <=> \/ pos = TarStart(ms, 1) /\ ~ Pending(ms, 1)
                              \/ 1 # 1 /\ ms[1 - 1].type = "Zeros"
  <2>1. 1 \in 1..(Len(ms) + 1)
    BY <1>1, <1>3
  <2> QED BY <1>4, <2>1, TarEndsInHeader
<1>6. pos > 0 => pos \notin TarEnds(ms)
  BY <1>3, <1>5
<1>7. TarLength(ms) \in Nat /\ pos < TarLength(ms)
  BY <1>2
<1> QED
  BY <1>6, <1>7

-----------------------------------------------------------------------------
(***************************************************************************)
(* What the engine needs of every parser.                                  *)
(***************************************************************************)

\* An archive that is written as its format wants it.
Well(s) ==
  /\ s.format \in {"Tar", "Ar"}
  /\ s.format = "Tar" => TarWell(s.members)
  /\ s.format = "Ar" => ArWell(s.members) /\ s.padding = 0

\* The parser is where the bytes it has read put it.
Right(s, c, parser) ==
  /\ s.format = "Tar" => TarRight(s.members, c, parser.self)
  /\ s.format = "Ar" => ArRight(s.members, c, parser.self)

\* The entries whose data starts no later than that.
Reached(holds, pos) == {e \in holds : e.data_offset <= pos}

\* The entries the parser has told of.
Listed(s, parser) == Reached(Holds(s), parser.self.stream_pos)

\* The parser came to the archive's own end, and has told of all it holds.
ToldAll(s, parser, hi) ==
  /\ s.format # "Ar" /\ Len(ArchiveBytes(s)) \in 0..hi
  /\ Refusals(s) = {} /\ Holds(s) \subseteq Listed(s, parser)

\* What feed() answers when it is fed what stands there, up to hi.
Answered(s, c, parser, hi, answer) ==
  LET next == [parser EXCEPT !.self = answer.parser]
  IN  /\ answer.event = "Error" => \E place \in Refusals(s) : place <= hi
      /\ answer.event \in {"NeedData", "Entry"} => Right(s, c, next)
      /\ answer.event = "NeedData" =>
           answer.entry = None /\ Listed(s, next) = Listed(s, parser)
      /\ answer.event = "Entry" =>
           \E e \in Holds(s) \ Listed(s, parser) :
             answer.entry = Some(e) /\ Listed(s, next) = Listed(s, parser) \cup {e}
      /\ answer.event = "EndOfArchive" => answer.entry = None /\ ToldAll(s, parser, hi)

\* What is so when the stream ends where the parser is.
Judged(s, parser, pos) ==
  /\ MayEnd(parser) <=> pos \in Ends(s)
  /\ MayEnd(parser) => Reached(Holds(s), pos) \subseteq Listed(s, parser)
  /\ \A place \in Refusals(s) : pos < place
  /\ s.format # "Ar" => Len(ArchiveBytes(s)) \in Nat /\ pos < Len(ArchiveBytes(s))

\* An archive's entries and refusals are after its first byte.
LEMMA ArPlacesAre ==
  ASSUME NEW M, NEW ms \in Seq(M), M \subseteq ArMembers
  PROVE  /\ \A e \in ArHolds(ms) : e.data_offset \in Nat /\ e.data_offset > 0
         /\ \A place \in ArRefusals(ms) : place \in Nat /\ place > 0
<1>1. PICK n \in Nat : n = Len(ms) /\ ms \in [1..n -> M]
  BY LenProperties
<1>2. ArMagicLen \in Nat /\ ArHeaderSize \in Nat /\ ArHeaderSize > 0
  BY ArAssumption
<1>3. ASSUME NEW k \in 1..n
      PROVE  /\ ArBody(ms, k) \in Nat /\ ArBody(ms, k) > 0
             /\ ArOffset(ms, k) \in Nat /\ ArOffset(ms, k) > 0
  <2>1. ArLaid(ms, ArStream(ms), k)
    BY <1>1, ArStandsIn
  <2>2. PICK s \in Nat : s = ArStart(ms, k)
    BY <2>1 DEF ArLaid
  <2>3. PICK l \in Nat : l = ArNameLen(ms[k])
    BY <1>1 DEF ArNameLen, ArMembers
  <2> QED BY <1>2, <2>2, <2>3 DEF ArBody, ArOffset
<1>4. ASSUME NEW e \in ArHolds(ms) PROVE e.data_offset \in Nat /\ e.data_offset > 0
  <2>1. PICK k \in 1..n : e.data_offset = ArOffset(ms, k)
    BY <1>1 DEF ArHolds, ArFiles, Entry, ArOffset, ArBody
  <2> QED BY <1>3, <2>1
<1>5. ASSUME NEW place \in ArRefusals(ms) PROVE place \in Nat /\ place > 0
  <2>1. PICK k \in 1..n : place = ArBody(ms, k)
    BY <1>1 DEF ArRefusals, ArBody
  <2> QED BY <1>3, <2>1
<1> QED
  BY <1>4, <1>5

\* No header is to be refused up to a place where none of the refusals is.
LEMMA ArClearIs ==
  ASSUME NEW ms, NEW pos
  PROVE  ArClear(ms, pos) <=> \A place \in ArRefusals(ms) : pos < place
BY DEF ArClear, ArRefusals, ArBody

\* So is a well written archive: nothing of it is empty, and its bytes are its contents.
LEMMA WellIs ==
  ASSUME NEW i \in DOMAIN Archives, Well(Archives[i])
  PROVE  /\ NothingEmpty(Archives[i])
         /\ Archives[i].format = "Tar" =>
              /\ Contents[i] \in Seq(TarByte(MembersOf(Archives[i])))
              /\ TarSits(Archives[i].members, Contents[i])
              /\ Len(ArchiveBytes(Archives[i])) = TarLength(Archives[i].members)
         /\ Archives[i].format = "Ar" => Contents[i] = ArStream(Archives[i].members)
<1> DEFINE s == Archives[i]
           M == MembersOf(s)
<1>1. s.format \in Formats /\ s.members \in Seq(M) /\ i \in 1..Len(Archives)
  BY ArchiveIs, ArchivesAssumption, LenProperties
<1>2. Contents[i] = ArchiveBytes(s) \o Zeros(s.padding)
  BY <1>1 DEF Contents
<1>3. ASSUME s.format = "Ar"
      PROVE  ArFull(M) /\ Contents[i] = ArStream(s.members)
  <2>1. ArWell(s.members) /\ s.padding = 0 /\ M \subseteq ArMembers
    BY <1>3, ArchiveIs DEF Well
  <2>2. ArFull(M)
    BY <2>1 DEF ArFull, ArWell, MembersOf
  <2>3. ArStream(s.members) \in Seq(ArByte(M)) /\ ArchiveBytes(s) = ArStream(s.members)
    BY <1>1, <1>3, <2>1, ArStreamIs DEF ArchiveBytes
  <2>4. Zeros(0) = <<>>
    BY DEF Zeros
  <2> HIDE DEF s, M
  <2>5. ArStream(s.members) \o Zeros(s.padding) = ArStream(s.members)
    BY <2>1, <2>3, <2>4, ConcatEmptySeq
  <2> QED BY <1>2, <2>2, <2>3, <2>5
<1>4. ASSUME s.format = "Tar"
      PROVE  /\ TarFull(M) /\ Contents[i] \in Seq(TarByte(M)) /\ TarSits(s.members, Contents[i])
             /\ Len(ArchiveBytes(s)) = TarLength(s.members)
  <2>1. TarWell(s.members) /\ s.padding \in Nat /\ M \subseteq TarMembers
    BY <1>4, ArchiveIs DEF Well
  <2>2. TarFull(M)
    BY <2>1 DEF TarFull, TarWell, MembersOf
  <2>3. ArchiveBytes(s) = TarStream(s.members)
    BY <1>4 DEF ArchiveBytes
  <2>4. Contents[i] = TarStream(s.members) \o Zeros(s.padding)
    BY <1>2, <2>3
  <2> HIDE DEF s, M
  <2> QED BY <1>1, <2>1, <2>2, <2>3, <2>4, TarStandsIn
<1> QED
  BY <1>3, <1>4 DEF NothingEmpty, Well

\* A new parser is at the start of the archive.
LEMMA FirstRight ==
  ASSUME NEW i \in DOMAIN Archives, Well(Archives[i]), NEW parser,
         NewParser(Archives[i].format) = Some(parser)
  PROVE  Right(Archives[i], Contents[i], parser) /\ Listed(Archives[i], parser) = {}
<1> DEFINE s == Archives[i]
           c == Contents[i]
           M == MembersOf(s)
<1>1. s.format \in Formats /\ s.members \in Seq(M)
  BY ArchiveIs
<1>2. parser = [format |-> s.format,
                self   |-> CASE s.format = "Tar" -> TarNew [] s.format = "Cpio" -> CpioNew
                             [] s.format = "Ar" -> ArNew]
  BY DEF NewParser, Some
<1> HIDE DEF s, c, M
<1>3. ASSUME s.format = "Ar"
      PROVE  Right(s, c, parser) /\ Listed(s, parser) = {}
  <2>1. M \subseteq ArMembers /\ c = ArStream(s.members)
    BY <1>3, ArchiveIs, WellIs DEF s, c, M
  <2>2. parser.self = ArNew
    BY <1>2, <1>3
  <2>3. /\ ArNew.state = "ReadingMagic" /\ ArNew.stream_pos = 0
        /\ ArNew.header_buf = <<>> /\ ArNew.name_table = None
    BY DEF ArNew
  <2>4. 0 < ArMagicLen /\ 0 <= ArMagicLen
    BY ArAssumption
  <2>5. Slice(c, 0, 0) = <<>>
    BY SliceOfNone
  <2>6. ArAtMagic(c, ArNew)
    BY <2>3, <2>4, <2>5 DEF ArAtMagic
  <2>7. ArClear(s.members, 0)
    BY <1>1, <2>1, <2>4, ArBeforeMembers
  <2>8. ArRight(s.members, c, ArNew)
    BY <2>3, <2>6, <2>7 DEF ArRight
  <2>9. \A e \in ArHolds(s.members) : e.data_offset \in Nat /\ e.data_offset > 0
    BY <1>1, <2>1, ArPlacesAre
  <2>10. Listed(s, parser) = {}
    BY <1>3, <2>2, <2>3, <2>9 DEF Listed, Reached, Holds
  <2> QED BY <1>3, <2>2, <2>8, <2>10 DEF Right
<1>4. ASSUME s.format = "Tar"
      PROVE  Right(s, c, parser) /\ Listed(s, parser) = {}
  <2>1. M \subseteq TarMembers
    BY <1>4, ArchiveIs DEF s, M
  <2>2. parser.self = TarNew /\ TarNew.stream_pos = 0
    BY <1>2, <1>4 DEF TarNew
  <2>3. TarRight(s.members, c, TarNew)
    BY <1>1, <2>1, TarFirstRight
  <2>4. \A e \in TarHolds(s.members) : e.data_offset \in Nat /\ e.data_offset > 0
    BY <1>1, <2>1, TarPlacesAre
  <2>5. Listed(s, parser) = {}
    BY <1>4, <2>2, <2>4 DEF Listed, Reached, Holds
  <2> QED BY <1>4, <2>2, <2>3, <2>5 DEF Right
<1> QED
  BY <1>3, <1>4 DEF Well, s, c

\* feed(), of an archive's parser, fed what stands there.
LEMMA FedRight ==
  ASSUME NEW i \in DOMAIN Archives, Well(Archives[i]),
         NEW parser, Own(Archives[i], parser), Right(Archives[i], Contents[i], parser),
         NEW pos \in Nat, parser.self.stream_pos = pos,
         NEW hi \in Nat, pos < hi, hi <= Len(Contents[i]),
         NEW answer, answer = ParserFeed(parser, Slice(Contents[i], pos, hi))
  PROVE  Answered(Archives[i], Contents[i], parser, hi, answer)
<1> DEFINE s == Archives[i]
           c == Contents[i]
           M == MembersOf(s)
           data == Slice(c, pos, hi)
           next == [parser EXCEPT !.self = answer.parser]
<1>1. s.format \in Formats /\ s.members \in Seq(M) /\ c \in Seq(ByteOf(s))
  BY ArchiveIs, ContentsAre
<1>2. /\ DOMAIN parser = {"format", "self"} /\ parser.format = s.format
      /\ next.format = s.format /\ next.self = answer.parser
  BY DEF Own
<1>3. data \in Seq(ByteOf(s)) /\ data # <<>> /\ Len(data) = hi - pos
  <2> HIDE DEF c
  <2>1. pos <= hi /\ hi <= Len(c)
    BY DEF c
  <2>2. c \in Seq(ByteOf(s))
    BY <1>1 DEF c
  <2>3. Slice(c, pos, hi) \in Seq(ByteOf(s)) /\ Len(Slice(c, pos, hi)) = hi - pos
    BY <2>1, <2>2, SliceIs
  <2>4. Slice(c, pos, hi) # <<>>
    BY <2>1, <2>2, SliceIsSome
  <2> QED BY <2>3, <2>4 DEF c
<1>4. Answers(parser.self, data, answer)
  BY <1>3, ParserFed
<1> HIDE DEF s, c, M, data, next
<1>5. ASSUME Tells(Holds(s), pos, answer), \A e \in Holds(s) : e.data_offset \in Nat,
             Right(s, c, next)
      PROVE  Answered(s, c, parser, hi, answer)
  <2>1. PICK at \in Nat : at = answer.parser.stream_pos /\ pos <= at
    <3>1. answer.event # "Error"
      BY <1>5 DEF Tells
    <3>2. answer.consumed \in 0..Len(data) /\ answer.parser.stream_pos = pos + answer.consumed
      BY <1>4, <3>1 DEF Answers
    <3> QED BY <1>3, <3>2
  <2>2. /\ Reached(Holds(s), at) = Reached(Holds(s), pos) \cup Passed(Holds(s), pos, at)
        /\ Passed(Holds(s), pos, at) \subseteq Holds(s) \ Reached(Holds(s), pos)
    BY <1>5, <2>1 DEF Reached, Passed
  <2>3. Listed(s, next) = Reached(Holds(s), at) /\ Listed(s, parser) = Reached(Holds(s), pos)
    BY <1>2, <2>1 DEF Listed
  <2>4. CASE answer.event = "NeedData" /\ answer.entry = None /\ Passed(Holds(s), pos, at) = {}
    BY <1>5, <2>2, <2>3, <2>4 DEF Answered, next
  <2>5. CASE answer.event = "Entry"
             /\ \E e : answer.entry = Some(e) /\ Passed(Holds(s), pos, at) = {e}
    <3>1. PICK e : answer.entry = Some(e) /\ Passed(Holds(s), pos, at) = {e}
      BY <2>5
    <3>2. e \in Holds(s) \ Listed(s, parser) /\ Listed(s, next) = Listed(s, parser) \cup {e}
      BY <2>2, <2>3, <3>1
    <3> QED BY <1>5, <2>5, <3>1, <3>2 DEF Answered, next
  <2> QED BY <1>5, <2>1, <2>4, <2>5 DEF Tells
<1>6. ASSUME s.format = "Ar" PROVE Answered(s, c, parser, hi, answer)
  <2>1. /\ M \subseteq ArMembers /\ c = ArStream(s.members) /\ ArWell(s.members)
        /\ ArGood(parser.self, M) /\ ArRight(s.members, c, parser.self)
        /\ Holds(s) = ArHolds(s.members) /\ Refusals(s) = ArRefusals(s.members)
    BY <1>6, ArchiveIs, WellIs DEF s, c, M, Own, Right, Well, Holds, Refusals
  <2>2. answer = ArFeed(parser.self, data)
    BY <1>2, <1>6 DEF ParserFeed, data, c
  <2>3. ArRightly(s.members, c, parser.self, hi, answer)
    <3>1. hi <= Len(c)
      BY DEF c
    <3> QED BY <1>1, <2>1, <2>2, <3>1, ArFedRight DEF data
  <2>4. CASE answer.event = "Error"
    <3>1. ~ \A place \in Refusals(s) : hi < place
      BY <2>1, <2>3, <2>4, ArClearIs DEF ArRightly
    <3>2. \A place \in Refusals(s) : place \in Nat
      BY <1>1, <2>1, ArPlacesAre
    <3>3. \E place \in Refusals(s) : place <= hi
      BY <3>1, <3>2
    <3> QED BY <2>4, <3>3 DEF Answered
  <2>5. CASE answer.event # "Error"
    <3>1. Right(s, c, next)
      BY <1>2, <1>6, <2>3, <2>5 DEF ArRightly, Right
    <3>2. \A e \in Holds(s) : e.data_offset \in Nat
      BY <1>1, <2>1, ArPlacesAre
    <3>3. Tells(Holds(s), pos, answer)
      BY <2>1, <2>3, <2>5 DEF ArRightly
    <3> QED BY <1>5, <3>1, <3>2, <3>3
  <2> QED BY <2>4, <2>5
<1>7. ASSUME s.format = "Tar" PROVE Answered(s, c, parser, hi, answer)
  <2>1. /\ M \subseteq TarMembers /\ c \in Seq(TarByte(M)) /\ TarSits(s.members, c)
        /\ Len(ArchiveBytes(s)) = TarLength(s.members) /\ TarWell(s.members)
        /\ TarGood(parser.self, M) /\ TarRight(s.members, c, parser.self)
        /\ Holds(s) = TarHolds(s.members) /\ Refusals(s) = TarRefusals(s.members)
    BY <1>7, ArchiveIs, WellIs DEF s, c, M, Own, Right, Well, Holds, Refusals
  <2>2. answer = TarFeed(parser.self, data)
    BY <1>2, <1>7 DEF ParserFeed, data, c
  <2>3. TarRightly(s.members, c, parser.self, hi, answer)
    <3>1. hi <= Len(c)
      BY DEF c
    <3> QED BY <1>1, <2>1, <2>2, <3>1, TarFedRight DEF data
  <2>4. answer.event \in {"NeedData", "Entry", "EndOfArchive", "Error"}
    BY <1>4 DEF Answers
  <2>5. CASE answer.event = "Error"
    <3>1. ~ \A place \in Refusals(s) : hi < place
      BY <2>1, <2>3, <2>5, TarClearIs DEF TarRightly
    <3>2. \A place \in Refusals(s) : place \in Nat
      BY <1>1, <2>1, TarPlacesAre
    <3>3. \E place \in Refusals(s) : place <= hi
      BY <3>1, <3>2
    <3> QED BY <2>5, <3>3 DEF Answered
  <2>6. CASE answer.event \in {"NeedData", "Entry"}
    <3>1. Right(s, c, next)
      BY <1>2, <1>7, <2>3, <2>6 DEF TarRightly, Right
    <3>2. \A e \in Holds(s) : e.data_offset \in Nat
      BY <1>1, <2>1, TarPlacesAre
    <3>3. Tells(Holds(s), pos, answer)
      BY <2>1, <2>3, <2>6 DEF TarRightly
    <3> QED BY <1>5, <3>1, <3>2, <3>3
  <2>7. CASE answer.event = "EndOfArchive"
    <3>1. /\ answer.entry = None /\ TarLength(s.members) <= hi
          /\ TarBody(s.members, Len(s.members) + 1) <= pos
      BY <2>3, <2>7 DEF TarRightly
    <3>2. TarLength(s.members) \in Nat
      BY <1>1, <2>1, TarInside
    <3>3. /\ Refusals(s) = {}
          /\ \A e \in Holds(s) : e.data_offset \in Nat /\ e.data_offset <= pos
      <4>1. TarClear(s.members, pos)
        BY <2>1 DEF TarRight
      <4> QED BY <1>1, <2>1, <3>1, <4>1, TarEndIsAll
    <3>4. Holds(s) \subseteq Listed(s, parser)
      BY <3>3 DEF Listed, Reached
    <3>5. ToldAll(s, parser, hi)
      BY <1>7, <2>1, <3>1, <3>2, <3>3, <3>4 DEF ToldAll
    <3> QED BY <2>7, <3>1, <3>5 DEF Answered
  <2> QED BY <2>4, <2>5, <2>6, <2>7
<1> QED
  BY <1>6, <1>7 DEF Well, s, c

\* end_of_stream(), of an archive's parser.
LEMMA JudgedRight ==
  ASSUME NEW i \in DOMAIN Archives, Well(Archives[i]),
         NEW parser, Own(Archives[i], parser), Right(Archives[i], Contents[i], parser),
         NEW pos \in Nat, parser.self.stream_pos = pos, pos <= Len(Contents[i])
  PROVE  Judged(Archives[i], parser, pos)
<1> DEFINE s == Archives[i]
           c == Contents[i]
           M == MembersOf(s)
<1>1. s.format \in Formats /\ s.members \in Seq(M) /\ parser.format = s.format
  BY ArchiveIs DEF Own
<1>2. Listed(s, parser) = Reached(Holds(s), pos)
  BY DEF Listed
<1> HIDE DEF s, c, M
<1>3. ASSUME s.format = "Ar" PROVE Judged(s, parser, pos)
  <2>1. /\ M \subseteq ArMembers /\ c = ArStream(s.members)
        /\ ArGood(parser.self, M) /\ ArRight(s.members, c, parser.self)
        /\ Ends(s) = ArEnds(s.members) /\ Refusals(s) = ArRefusals(s.members)
        /\ MayEnd(parser) = ArMayEnd(parser.self)
    BY <1>1, <1>3, ArchiveIs, WellIs DEF s, c, M, Own, Right, Ends, Refusals, MayEnd
  <2>2. MayEnd(parser) <=> pos \in Ends(s)
    <3>1. pos <= Len(c)
      BY DEF c
    <3> QED BY <1>1, <2>1, <3>1, ArEndsRight
  <2>3. \A place \in Refusals(s) : pos < place
    BY <2>1, ArClearIs DEF ArRight
  <2> QED BY <1>2, <1>3, <2>2, <2>3 DEF Judged
<1>4. ASSUME s.format = "Tar" PROVE Judged(s, parser, pos)
  <2>1. /\ M \subseteq TarMembers /\ c \in Seq(TarByte(M)) /\ TarSits(s.members, c)
        /\ Len(ArchiveBytes(s)) = TarLength(s.members) /\ TarWell(s.members)
        /\ TarGood(parser.self, M) /\ TarRight(s.members, c, parser.self)
        /\ Ends(s) = TarEnds(s.members) /\ Refusals(s) = TarRefusals(s.members)
        /\ MayEnd(parser) = TarMayEnd(parser.self)
    BY <1>1, <1>4, ArchiveIs, WellIs DEF s, c, M, Own, Right, Well, Ends, Refusals, MayEnd
  <2>2. MayEnd(parser) <=> pos \in Ends(s)
    <3>1. pos <= Len(c)
      BY DEF c
    <3> QED BY <1>1, <2>1, <3>1, TarEndsRight
  <2>3. \A place \in Refusals(s) : pos < place
    BY <2>1, TarClearIs DEF TarRight
  <2>4. pos < TarLength(s.members) /\ TarLength(s.members) \in Nat
    BY <1>1, <2>1, TarInside
  <2> QED BY <1>2, <2>1, <2>2, <2>3, <2>4 DEF Judged
<1> QED
  BY <1>3, <1>4 DEF Well, s

\* An archive too short to tell its format does not end well, nor has it come to its end.
LEMMA TooShort ==
  ASSUME NEW i \in DOMAIN Archives, Well(Archives[i]),
         NEW n \in Nat, n < Threshold(Archives[i].format)
  PROVE  /\ n > 0 => n \notin Ends(Archives[i])
         /\ Archives[i].format # "Ar" =>
              Len(ArchiveBytes(Archives[i])) \in Nat /\ n < Len(ArchiveBytes(Archives[i]))
<1> DEFINE s == Archives[i]
           ms == s.members
           M == MembersOf(s)
<1>1. s.format \in Formats /\ ms \in Seq(M)
  BY ArchiveIs
<1>2. ASSUME s.format = "Ar" PROVE n \notin Ends(s)
  <2>1. M \subseteq ArMembers /\ Ends(s) = ArEnds(ms) /\ n < ArMagicLen
    BY <1>2, ArchiveIs DEF Ends, Threshold
  <2> HIDE DEF M, ms, s
  <2>2. PICK len \in Nat : len = Len(ms) /\ ms \in [1..len -> M]
    BY <1>1, LenProperties
  <2>3. ArMagicLen \in Nat /\ ArHeaderSize \in Nat /\ ArHeaderSize > 0
    BY ArAssumption
  <2>4. ASSUME NEW k \in 1..len
        PROVE  ArStart(ms, k + 1) > ArMagicLen /\ ArStart(ms, k + 1) \in Nat
    <3>1. ArLaid(ms, ArStream(ms), k)
      BY <1>1, <2>1, <2>2, ArStandsIn
    <3>2. PICK at \in Nat : at = ArStart(ms, k) /\ at >= ArMagicLen
      BY <3>1 DEF ArLaid
    <3>3. PICK next \in Nat : next = ArStart(ms, k + 1)
      BY <3>1 DEF ArLaid
    <3>4. PICK name \in Nat : name = ArNameLen(ms[k])
      BY <2>1, <2>2 DEF ArNameLen, ArMembers
    <3>5. PICK pad \in Nat : pad = ms[k].size % 2
      BY <2>1, <2>2 DEF ArMembers
    <3>6. (at + ArHeaderSize) + name + pad <= next
      BY <2>3, <3>1, <3>2, <3>3, <3>4, <3>5 DEF ArLaid, ArOffset, ArBody
    <3> QED BY <2>3, <3>2, <3>3, <3>6
  <2>5. ArStart(ms, 1) = ArMagicLen
    BY <1>1, <2>1, ArStandsIn
  <2>6. ASSUME NEW k \in 1..(len + 1) PROVE ArStart(ms, k) # n
    <3>1. CASE k = 1
      BY <2>1, <2>3, <2>5, <3>1
    <3>2. CASE k # 1
      <4>1. PICK j \in 1..len : j + 1 = k
        BY <3>2
      <4>2. ArStart(ms, k) > ArMagicLen /\ ArStart(ms, k) \in Nat
        BY <2>4, <4>1
      <4> QED BY <2>1, <2>3, <4>2
    <3> QED BY <3>1, <3>2
  <2>7. ASSUME NEW k \in 1..len PROVE ArStart(ms, k + 1) - 1 # n
    BY <2>1, <2>3, <2>4
  <2> QED BY <2>1, <2>2, <2>6, <2>7 DEF ArEnds
<1>3. ASSUME s.format = "Tar"
      PROVE  /\ n > 0 => n \notin Ends(s)
             /\ Len(ArchiveBytes(s)) \in Nat /\ n < Len(ArchiveBytes(s))
  <2>1. /\ M \subseteq TarMembers /\ Ends(s) = TarEnds(ms)
        /\ Len(ArchiveBytes(s)) = TarLength(ms)
    BY <1>3, ArchiveIs, WellIs DEF Ends
  <2>2. n < Block
    <3>1. n < MinDetect
      BY <1>3 DEF Threshold
    <3> QED BY <3>1, SizesAssumption, TarAssumption
  <2> HIDE DEF M, ms, s
  <2> QED BY <1>1, <2>1, <2>2, TarStartsLong
<1> QED
  BY <1>2, <1>3 DEF Well

\* The entries and the refusals of an archive are after its first byte.
LEMMA PlacesAre ==
  ASSUME NEW i \in DOMAIN Archives, Well(Archives[i])
  PROVE  /\ \A e \in Holds(Archives[i]) : e.data_offset \in Nat /\ e.data_offset > 0
         /\ \A place \in Refusals(Archives[i]) : place \in Nat /\ place > 0
<1> DEFINE s == Archives[i]
           M == MembersOf(s)
<1>1. s.format \in Formats /\ s.members \in Seq(M)
  BY ArchiveIs
<1>2. ASSUME s.format = "Ar"
      PROVE  /\ \A e \in Holds(s) : e.data_offset \in Nat /\ e.data_offset > 0
             /\ \A place \in Refusals(s) : place \in Nat /\ place > 0
  <2>1. /\ M \subseteq ArMembers /\ Holds(s) = ArHolds(s.members)
        /\ Refusals(s) = ArRefusals(s.members)
    BY <1>2, ArchiveIs DEF Holds, Refusals
  <2> QED BY <1>1, <2>1, ArPlacesAre
<1>3. ASSUME s.format = "Tar"
      PROVE  /\ \A e \in Holds(s) : e.data_offset \in Nat /\ e.data_offset > 0
             /\ \A place \in Refusals(s) : place \in Nat /\ place > 0
  <2>1. /\ M \subseteq TarMembers /\ Holds(s) = TarHolds(s.members)
        /\ Refusals(s) = TarRefusals(s.members)
    BY <1>3, ArchiveIs DEF Holds, Refusals
  <2> QED BY <1>1, <2>1, TarPlacesAre
<1> QED
  BY <1>2, <1>3 DEF Well

-----------------------------------------------------------------------------
(***************************************************************************)
(* The engine: its index holds what the parser has told of.                *)
(***************************************************************************)
AllWell == \A i \in DOMAIN Archives : Well(Archives[i])

\* The entries in the index.
Named == {index_builder[i] : i \in 1..Len(index_builder)}

\* The parser is right about what it was fed, the rest is what stands there next.
Follows(parser) ==
  /\ archive_parser = Some(parser) /\ ~ from_end
  /\ Own(Archives[source.of], parser)
  /\ Right(Archives[source.of], Contents[source.of], parser)
  /\ parser.self.stream_pos <= handed
  /\ chunk = Slice(Contents[source.of], parser.self.stream_pos, handed)
  /\ Named = Listed(Archives[source.of], parser)

\* The stream was too short to tell its format: it ends inside a first header.
Stops(parser) ==
  /\ archive_parser = Some(parser) /\ from_end
  /\ ShortTar(parser, chunk) /\ (chunk = <<>> => parser.self.header_buf # <<>>)
  /\ handed = End /\ handed < Threshold(Format) /\ ~ source.cut /\ ~ told

Lists ==
  /\ index_builder \in Seq(HoldsOf[source.of])
  /\ archive_parser = None =>
       index_builder = <<>> /\ ~ told /\ ~ from_end /\ handed < Threshold(Format)
  /\ archive_parser # None /\ ~ told => handed > 0
  /\ archive_parser # None /\ ~ done /\ pc \notin {"refused", "finished"} =>
       \E parser : Follows(parser) \/ Stops(parser)
  /\ pc = "judge" => from_end /\ archive_parser # None

ListsInv == SeesInv /\ Lists

\* What a step of the engine is in the specification of what it promises.
Promised == [Listing!Next]_(Listing!vars)

\* What a step cannot change: which archive is listed, and how its stream ends.
LEMMA InputStays ==
  ASSUME UNCHANGED input
  PROVE  /\ source' = source /\ told' = told /\ Format' = Format /\ End' = End
         /\ HoldsOf[source.of]' = HoldsOf[source.of] /\ Due' = Due
         /\ EndsWell' = EndsWell
BY DEF input, Format, End, Due, EndsWell, Ended

\* What the tables of the archives say.
LEMMA TablesAre ==
  ASSUME source \in Sources
  PROVE  /\ HoldsOf[source.of] = Holds(Archives[source.of])
         /\ EndsOf[source.of] = Ends(Archives[source.of])
         /\ RefusalsOf[source.of] = Refusals(Archives[source.of])
         /\ LengthOf[source.of] = Len(ArchiveBytes(Archives[source.of]))
<1>1. source.of \in 1..Len(Archives)
  BY SourceIs, ArchivesAssumption, LenProperties
<1> QED
  BY <1>1 DEF HoldsOf, EndsOf, RefusalsOf, LengthOf

\* A step that changes nothing of the index or the verdict.
LEMMA Stutters ==
  ASSUME UNCHANGED <<input, index_builder>>, Status' = Status
  PROVE  Promised
BY InputStays DEF Promised, Listing!vars

\* Nothing is listed at first.
LEMMA ListsFirst ==
  ASSUME AllWell, Init
  PROVE  ListsInv /\ Listing!Init
<1> DEFINE s == Archives[source.of]
           c == Contents[source.of]
<1>1. /\ source \in Sources /\ handed = 0 /\ chunk = <<>> /\ from_end = FALSE
      /\ index_builder = <<>> /\ done = FALSE /\ pc = "step"
      /\ archive_parser = IF told THEN NewParser(Format) ELSE None
      /\ told \in BOOLEAN
  BY SizesAssumption DEF Init
<1>2. source.of \in DOMAIN Archives /\ Format \in Formats
  BY <1>1, SourceIs
<1>3. Well(s)
  BY <1>2 DEF AllWell
<1>4. PICK parser : /\ NewParser(Format) = Some(parser) /\ Own(s, parser)
                    /\ parser.self.stream_pos = 0
  BY <1>2, NewParserIs DEF Format
<1>5. Right(s, c, parser) /\ Listed(s, parser) = {}
  BY <1>2, <1>3, <1>4, FirstRight DEF Format
<1>6. Named = {}
  BY <1>1 DEF Named
<1>7. Some(parser) # None
  BY DEF Some, None
<1>8. told => Follows(parser)
  <2>1. Slice(c, 0, 0) = <<>>
    BY SliceOfNone
  <2> QED BY <1>1, <1>4, <1>5, <1>6, <2>1 DEF Follows
<1>9. 0 < Threshold(Format)
  BY <1>2, SizesAssumption, CpioAssumption, ArAssumption DEF Threshold, Formats
<1>10. Lists
  BY <1>1, <1>4, <1>7, <1>8, <1>9 DEF Lists
<1>11. Listing!Init
  BY <1>1 DEF Listing!Init, EndsWell, Status
<1> QED
  BY <1>10, <1>11, SeesFirst DEF ListsInv

\* The parser that follows has read all that was handed out but the chunk, and what the
\* archive promises is kept there.
LEMMA FollowsAt ==
  ASSUME AllWell, ListsInv, pc \notin {"refused", "finished"}, ~ done,
         NEW parser, Follows(parser)
  PROVE  \E pos \in Nat : /\ parser.self.stream_pos = pos /\ pos <= handed
                          /\ handed \in Nat /\ handed <= Len(Contents[source.of])
                          /\ chunk = Slice(Contents[source.of], pos, handed)
                          /\ chunk = <<>> => pos = handed
                          /\ chunk # <<>> => pos < handed
<1> DEFINE c == Contents[source.of]
<1>1. /\ source \in Sources /\ handed \in 0..End
  BY DEF ListsInv, SeesInv, Inv, Typed
<1>2. /\ source.of \in DOMAIN Archives /\ End \in Nat /\ End <= Len(c)
      /\ c \in Seq(ByteOf(Archives[source.of]))
  BY <1>1, SourceIs
<1>3. PICK len \in Nat : len = Len(c) /\ handed \in Nat /\ handed <= len
  BY <1>1, <1>2, LenProperties
<1>4. PICK pos \in Nat : pos = parser.self.stream_pos
  BY <1>2, HeadersFit DEF Follows
<1>5. pos <= handed /\ chunk = Slice(c, pos, handed)
  BY <1>4 DEF Follows
<1> HIDE DEF c
<1>6. chunk = <<>> => pos = handed
  <2>1. Len(chunk) = handed - pos
    <3>1. handed <= Len(c)
      BY <1>3
    <3>2. chunk = Slice(c, pos, handed) /\ pos <= handed
      BY <1>5
    <3> QED BY <1>2, <1>3, <3>1, <3>2, SliceIs
  <2> QED BY <1>3, <1>5, <2>1
<1>7. chunk # <<>> => pos < handed
  <2>1. pos = handed => chunk = <<>>
    BY <1>5, SliceOfNone
  <2> QED BY <1>3, <1>5, <2>1
<1> QED
  BY <1>3, <1>4, <1>5, <1>6, <1>7 DEF c

\* drain_output() adds nothing to the index.
LEMMA ListsDrained ==
  ASSUME AllWell, ListsInv, DrainOutput
  PROVE  Lists' /\ Promised
<1> DEFINE s == Archives[source.of]
           c == Contents[source.of]
<1>1. Inv /\ ParserSeesAll /\ Stepping /\ pc = "step" /\ ~ done /\ chunk = <<>>
  BY DEF ListsInv, SeesInv, DrainOutput, Stepping, Inv, Feeding
<1>2. PICK n \in 1..Fewer(OutSize, End - handed) :
        LET data   == SubSeq(c, handed + 1, handed + n)
            bytes  == detect_buf \o data
            format == Detected(bytes)
        IN  /\ handed' = handed + n
            /\ \/ /\ archive_parser # None
                  /\ chunk' = data /\ pc' = "feed"
                  /\ UNCHANGED <<archive_parser, detect_buf>>
               \/ /\ archive_parser = None /\ format = None
                  /\ detect_buf' = bytes
                  /\ UNCHANGED <<archive_parser, chunk, pc>>
               \/ /\ archive_parser = None /\ format # None
                  /\ archive_parser' = NewParser(format[1])
                  /\ detect_buf' = <<>>
                  /\ chunk' = Replayed(bytes, n) /\ pc' = "feed"
  BY DEF DrainOutput
<1> DEFINE data   == SubSeq(c, handed + 1, handed + n)
           bytes  == detect_buf \o data
           format == Detected(bytes)
<1>3. /\ n \in Nat /\ n > 0 /\ handed \in Nat /\ handed + n \in 1..Len(c) /\ handed # End
      /\ archive_parser = None => bytes = SubSeq(c, 1, handed + n)
  BY <1>1, Drained
<1>4. /\ source.of \in DOMAIN Archives /\ Format \in Formats /\ source \in Sources
  BY <1>1, SourceIs DEF Inv, Typed
<1>5. Well(s)
  BY <1>4 DEF AllWell
<1>6. /\ UNCHANGED input /\ from_end' = from_end /\ index_builder' = index_builder
      /\ done' = done /\ source' = source /\ told' = told /\ Format' = Format /\ End' = End
      /\ HoldsOf[source.of]' = HoldsOf[source.of]
  BY InputStays DEF DrainOutput
<1>7. Named' = Named /\ handed' = handed + n /\ index_builder' \in Seq(HoldsOf[source.of]')
  BY <1>2, <1>6 DEF Named, ListsInv, Lists
<1>8. pc' \in {"feed", "step"}
  BY <1>1, <1>2
<1>9. Promised
  <2>1. Status' = Status
    BY <1>1, <1>6, <1>8 DEF Status
  <2> QED BY <1>6, <2>1, Stutters
<1>10. handed' > 0 /\ handed' \in Nat
  BY <1>3, <1>7
<1> HIDE DEF c, s
<1>11. CASE archive_parser # None /\ chunk' = data /\ archive_parser' = archive_parser
  <2>1. PICK parser : Follows(parser)
    BY <1>1, <1>3, <1>11 DEF ListsInv, Lists, Stops
  <2>2. PICK pos \in Nat : parser.self.stream_pos = pos /\ pos = handed
    BY <1>1, <2>1, FollowsAt
  <2>3. chunk' = Slice(c, pos, handed')
    BY <1>7, <1>11, <2>2 DEF Slice
  <2>4. parser.self.stream_pos <= handed'
    BY <1>3, <1>7, <2>2
  <2>5. Follows(parser)'
    BY <1>6, <1>7, <1>11, <2>1, <2>2, <2>3, <2>4 DEF Follows, c
  <2> QED BY <1>6, <1>7, <1>8, <1>9, <1>10, <1>11, <2>5 DEF Lists
<1>12. CASE /\ archive_parser = None /\ format = None
            /\ UNCHANGED <<archive_parser, chunk, pc>>
  <2>1. handed' < Threshold(Format)
    BY <1>3, <1>4, <1>7, <1>12, DetectedRight DEF c, Format
  <2>2. index_builder = <<>> /\ ~ told /\ ~ from_end
    BY <1>12 DEF ListsInv, Lists
  <2> QED BY <1>1, <1>6, <1>7, <1>9, <1>12, <2>1, <2>2 DEF Lists
<1>13. CASE /\ archive_parser = None /\ format # None
            /\ archive_parser' = NewParser(format[1])
            /\ chunk' = Replayed(bytes, n)
  <2>1. index_builder = <<>> /\ ~ told /\ ~ from_end
    BY <1>13 DEF ListsInv, Lists
  <2>2. chunk' = Slice(c, 0, handed')
    BY <1>3, <1>7, <1>13 DEF Replayed, Slice
  <2>3. format[1] = s.format
    BY <1>3, <1>4, <1>13, DetectedRight DEF c, s
  <2>4. PICK parser : /\ NewParser(s.format) = Some(parser) /\ Own(s, parser)
                      /\ parser.self.stream_pos = 0
    BY <1>4, NewParserIs DEF Format, s
  <2>5. Right(s, c, parser) /\ Listed(s, parser) = {}
    BY <1>4, <1>5, <2>4, FirstRight DEF s, c
  <2>6. Named = {}
    BY <2>1 DEF Named
  <2>7. Follows(parser)'
    <3>1. archive_parser' = Some(parser)
      BY <1>13, <2>3, <2>4
    <3>2. parser.self.stream_pos <= handed'
      BY <1>10, <2>4
    <3> QED BY <1>6, <1>7, <2>1, <2>2, <2>4, <2>5, <2>6, <3>1, <3>2 DEF Follows, s, c
  <2>8. archive_parser' # None
    BY <2>7 DEF Follows, Some, None
  <2> QED BY <1>6, <1>7, <1>8, <1>9, <1>10, <2>7, <2>8 DEF Lists
<1> QED
  BY <1>2, <1>11, <1>12, <1>13 DEF c

\* An entry appended to the index.
LEMMA AppendsEntry ==
  ASSUME NEW S, NEW seq \in Seq(S), NEW e \in S
  PROVE  /\ seq \o Some(e) = Append(seq, e) /\ Append(seq, e) \in Seq(S)
         /\ {Append(seq, e)[i] : i \in 1..Len(Append(seq, e))}
              = {seq[i] : i \in 1..Len(seq)} \cup {e}
<1> DEFINE t == Append(seq, e)
<1>1. PICK n \in Nat : n = Len(seq)
  BY LenProperties
<1>2. t \in Seq(S) /\ Len(t) = n + 1 /\ (\A i \in 1..n : t[i] = seq[i]) /\ t[n + 1] = e
  BY <1>1, AppendProperties
<1>3. seq \o <<e>> = t
  BY AppendIsConcat
<1> HIDE DEF t
<1>4. {t[i] : i \in 1..(n + 1)} = {seq[i] : i \in 1..n} \cup {e}
  <2>1. \A i \in 1..(n + 1) : i \in 1..n \/ i = n + 1
    OBVIOUS
  <2>2. n + 1 \in 1..(n + 1) /\ \A i \in 1..n : i \in 1..(n + 1)
    OBVIOUS
  <2> QED BY <1>2, <2>1, <2>2
<1> QED
  BY <1>1, <1>2, <1>3, <1>4 DEF Some, t

\* The archive does not end well when its stream goes past a header to refuse.
LEMMA EndsPast ==
  ASSUME Inv, NEW place \in Refusals(Archives[source.of]), place \in Nat, place <= handed
  PROVE  ~ EndsWell
<1>1. source \in Sources /\ handed \in 0..End
  BY DEF Inv, Typed
<1>2. End \in Nat
  BY <1>1, SourceIs
<1>3. place \in RefusalsOf[source.of] /\ ~ (End < place)
  BY <1>1, <1>2, TablesAre
<1> QED
  BY <1>3 DEF EndsWell

\* feed_to_parser adds to the index what the parser tells of, and comes to the archive's
\* end when all is told.
LEMMA FollowsFed ==
  ASSUME AllWell, ListsInv, Feed, NEW parser, NEW answer, FedBy(parser, answer),
         Follows(parser)
  PROVE  Lists' /\ Promised
<1> DEFINE s == Archives[source.of]
           c == Contents[source.of]
           next == [parser EXCEPT !.self = answer.parser]
           rest == SubSeq(chunk, answer.consumed + 1, Len(chunk))
<1>1. /\ Inv /\ Presses /\ pc = "feed" /\ ~ done /\ chunk # <<>>
      /\ archive_parser # None
  BY DEF ListsInv, SeesInv, Feed, Inv, Feeding
<1>2. source \in Sources /\ source.of \in DOMAIN Archives /\ handed \in 0..End /\ End \in Nat
  BY <1>1, SourceIs DEF Inv, Typed
<1>3. Well(s) /\ NothingEmpty(s) /\ HoldsOf[source.of] = Holds(s)
  BY <1>2, WellIs, TablesAre DEF AllWell
<1>4. PICK pos \in Nat : /\ parser.self.stream_pos = pos /\ pos < handed
                         /\ handed \in Nat /\ handed <= Len(c)
                         /\ chunk = Slice(c, pos, handed)
  BY <1>1, FollowsAt
<1>5. /\ Own(s, parser) /\ Right(s, c, parser) /\ ~ from_end
      /\ Named = Listed(s, parser) /\ archive_parser = Some(parser)
  BY DEF Follows
<1>6. answer = ParserFeed(parser, Slice(c, pos, handed))
  BY <1>4 DEF FedBy
<1>7. Answered(s, c, parser, handed, answer)
  BY <1>2, <1>3, <1>4, <1>5, <1>6, FedRight
<1>8. /\ UNCHANGED input /\ from_end' = from_end /\ handed' = handed
      /\ source' = source /\ told' = told /\ Format' = Format /\ End' = End
      /\ HoldsOf[source.of]' = HoldsOf[source.of]
      /\ Due' = Due /\ EndsWell' = EndsWell
  BY InputStays DEF Feed
<1>9. index_builder \in Seq(Holds(s)) /\ (~ told => handed > 0)
  BY <1>1, <1>3 DEF ListsInv, Lists
<1>10. c \in Seq(ByteOf(s))
  BY <1>2, SourceIs
<1> HIDE DEF s, c, next, rest
<1>11. Status = "listing"
  BY <1>1 DEF Status
<1>12. CASE answer.event = "Error" /\ Refuse
  <2>1. PICK place \in Refusals(s) : place <= handed
    BY <1>7, <1>12 DEF Answered
  <2>2. place \in Nat
    BY <1>2, <1>3, PlacesAre DEF s
  <2>3. ~ EndsWell
    BY <1>1, <2>1, <2>2, EndsPast DEF s
  <2>4. /\ pc' = "refused" /\ done' = done /\ index_builder' = index_builder
        /\ archive_parser' = archive_parser
    BY <1>12 DEF Refuse
  <2>5. Listing!Fail
    BY <1>1, <1>8, <1>11, <2>3, <2>4 DEF Listing!Fail, Status
  <2>6. Lists'
    BY <1>1, <1>3, <1>8, <1>9, <2>4 DEF Lists
  <2> QED BY <2>5, <2>6 DEF Promised, Listing!Next
<1>13. CASE /\ answer.event \in {"NeedData", "Entry", "EndOfArchive"}
            /\ archive_parser' = Some(next)
            /\ done' = (answer.event = "EndOfArchive")
            /\ index_builder' = index_builder \o answer.entry
            /\ answer.consumed \in 0..Len(chunk)
            /\ next.self = answer.parser
            /\ answer.parser.stream_pos = parser.self.stream_pos + answer.consumed
            /\ \/ chunk' = rest
               \/ answer.event = "EndOfArchive"
               \/ answer.event = "NeedData" /\ answer.consumed = 0
            /\ answer.event = "EndOfArchive" => chunk' = <<>>
            /\ pc' = IF chunk' # <<>> THEN "feed" ELSE IF from_end THEN "judge" ELSE "step"
  <2>1. pc' \in {"feed", "step"} /\ archive_parser' # None
    BY <1>5, <1>13 DEF Some, None
  <2>2. ASSUME answer.event # "EndOfArchive", Named' = Listed(s, next)
        PROVE  Follows(next)'
    <3>1. Pressing(parser) /\ chunk \in Seq(ByteOf(s)) /\ chunk # <<>>
      BY <1>1, <1>5 DEF Presses, Some, Inv, Typed, s
    <3>2. Moved(answer) /\ Own(s, next)
      <4>1. answer = ParserFeed(parser, chunk) /\ answer.event # "Error"
        BY <1>4, <1>6, <1>13
      <4> QED BY <1>2, <1>3, <1>5, <3>1, <4>1, ParserFed DEF s, next
    <3>3. chunk' = rest
      BY <1>13, <2>2, <3>2 DEF Moved
    <3>4. Len(chunk) = handed - pos
      <4>1. pos <= handed
        BY <1>4
      <4> QED BY <1>4, <1>10, <4>1, SliceIs
    <3>5. PICK k \in Nat : k = answer.consumed /\ k <= handed - pos
      BY <1>4, <1>13, <3>4
    <3>6. rest = Slice(c, pos + k, handed)
      <4>1. pos <= handed /\ handed <= Len(c) /\ handed \in Nat
        BY <1>4
      <4>2. Left(Slice(c, pos, handed), k) = Slice(c, pos + k, handed)
        BY <1>10, <3>5, <4>1, SliceCut
      <4> QED BY <1>4, <3>5, <4>2 DEF rest, Left
    <3>7. next.self.stream_pos = pos + k /\ pos + k <= handed
      BY <1>4, <1>13, <3>5
    <3>8. Right(s, c, next)
      BY <1>7, <1>13, <2>2 DEF Answered, next
    <3> QED BY <1>5, <1>8, <1>13, <2>2, <3>2, <3>3, <3>6, <3>7, <3>8 DEF Follows, s, c
  <2>3. CASE answer.event = "NeedData"
    <3>1. answer.entry = <<>> /\ Listed(s, next) = Named
      BY <1>5, <1>7, <2>3 DEF Answered, next, None
    <3>2. index_builder' = index_builder
      BY <1>9, <1>13, <3>1, ConcatEmptySeq
    <3>3. Named' = Listed(s, next)
      BY <3>1, <3>2 DEF Named
    <3>4. ~ done' /\ Status' = Status
      BY <1>11, <1>13, <2>1, <2>3 DEF Status
    <3>5. Lists'
      BY <1>3, <1>8, <1>9, <2>1, <2>2, <2>3, <3>2, <3>3 DEF Lists
    <3> QED BY <1>8, <3>2, <3>4, <3>5, Stutters
  <2>4. CASE answer.event = "Entry"
    <3>1. PICK e \in Holds(s) \ Named :
            answer.entry = Some(e) /\ Listed(s, next) = Named \cup {e}
      BY <1>5, <1>7, <2>4 DEF Answered, next
    <3>2. /\ index_builder' = Append(index_builder, e) /\ index_builder' \in Seq(Holds(s))
          /\ Named' = Named \cup {e}
      <4>1. index_builder \o Some(e) = Append(index_builder, e)
        BY <1>9, <3>1, AppendsEntry
      <4>2. Append(index_builder, e) \in Seq(Holds(s))
        BY <1>9, <3>1, AppendsEntry
      <4>3. index_builder' = Append(index_builder, e)
        BY <1>13, <3>1, <4>1
      <4>4. {Append(index_builder, e)[i] : i \in 1..Len(Append(index_builder, e))}
              = {index_builder[i] : i \in 1..Len(index_builder)} \cup {e}
        BY <1>9, <3>1, AppendsEntry
      <4> QED BY <4>2, <4>3, <4>4 DEF Named
    <3>3. ~ done' /\ Status' = Status
      BY <1>11, <1>13, <2>1, <2>4 DEF Status
    <3>4. Lists'
      BY <1>3, <1>8, <2>1, <2>2, <1>9, <2>4, <3>1, <3>2 DEF Lists
    <3>5. Listing!List
      <4>1. Listing!AllListed = Named
        BY DEF Listing!AllListed, Named
      <4>2. e \in HoldsOf[source.of] \ Listing!AllListed
        BY <1>3, <3>1, <4>1
      <4> QED BY <1>8, <1>11, <3>2, <3>3, <4>2 DEF Listing!List
    <3> QED BY <3>4, <3>5 DEF Promised, Listing!Next
  <2>5. CASE answer.event = "EndOfArchive"
    <3>1. answer.entry = <<>> /\ ToldAll(s, parser, handed)
      BY <1>7, <2>5 DEF Answered, None
    <3>2. index_builder' = index_builder
      BY <1>9, <1>13, <3>1, ConcatEmptySeq
    <3>3. done' = TRUE /\ Status' = "done"
      BY <1>13, <2>5 DEF Status
    <3>4. EndsWell
      <4>1. /\ RefusalsOf[source.of] = Refusals(s)
            /\ LengthOf[source.of] = Len(ArchiveBytes(s))
        BY <1>2, TablesAre DEF s
      <4>2. /\ Format # "Ar" /\ LengthOf[source.of] \in 0..handed
            /\ RefusalsOf[source.of] = {}
        BY <3>1, <4>1 DEF ToldAll, Format, s
      <4>3. End >= LengthOf[source.of]
        BY <1>2, <4>2
      <4> QED BY <4>2, <4>3 DEF EndsWell, Ended
    <3>5. Due \subseteq Listing!AllListed
      <4>1. Listing!AllListed = Named
        BY DEF Listing!AllListed, Named
      <4> QED BY <1>3, <1>5, <3>1, <4>1 DEF Due, ToldAll
    <3>6. Listing!Succeed
      BY <1>8, <1>11, <3>2, <3>3, <3>4, <3>5 DEF Listing!Succeed
    <3>7. Lists'
      BY <1>3, <1>8, <1>9, <2>1, <3>2, <3>3 DEF Lists
    <3> QED BY <3>6, <3>7 DEF Promised, Listing!Next
  <2> QED BY <1>13, <2>3, <2>4, <2>5
<1> QED
  BY <1>12, <1>13, Zenon DEF FedBy, next, rest

\* A tar parser of too short a stream only buffers it.
LEMMA StopsFed ==
  ASSUME AllWell, ListsInv, Feed, NEW parser, NEW answer, FedBy(parser, answer),
         Stops(parser)
  PROVE  Lists' /\ Promised
<1> DEFINE B == ByteOf(Archives[source.of])
           next == [parser EXCEPT !.self = answer.parser]
           rest == SubSeq(chunk, answer.consumed + 1, Len(chunk))
<1>1. /\ Inv /\ pc = "feed" /\ ~ done /\ chunk # <<>> /\ chunk \in Seq(B)
      /\ archive_parser # None
  BY DEF ListsInv, SeesInv, Feed, Inv, Feeding, Typed
<1>2. /\ UNCHANGED input /\ from_end' = from_end /\ handed' = handed
      /\ source' = source /\ told' = told /\ Format' = Format /\ End' = End
      /\ HoldsOf[source.of]' = HoldsOf[source.of]
  BY InputStays DEF Feed
<1>3. /\ index_builder \in Seq(HoldsOf[source.of]) /\ (~ told => handed > 0)
  BY <1>1 DEF ListsInv, Lists
<1>4. /\ answer = ParserFeed(parser, chunk) /\ ShortTar(parser, chunk) /\ from_end
      /\ handed = End /\ handed < Threshold(Format) /\ ~ source.cut /\ ~ told
  BY DEF FedBy, Stops
<1>5. /\ answer.event = "NeedData" /\ answer.consumed = Len(chunk) /\ answer.entry = None
      /\ answer.parser.header_buf = chunk /\ ShortTar(next, <<>>)
  BY <1>1, <1>4, ShortTarFed
<1>6. PICK k \in Nat : k = Len(chunk)
  BY <1>1, LenProperties
<1>7. rest = <<>>
  <2>1. rest = SubSeq(chunk, k + 1, k) /\ k + 1 \in Int /\ k \in Int /\ k < k + 1
    BY <1>5, <1>6
  <2> QED BY <2>1, SubSeqEmpty
<1> HIDE DEF B, next, rest
<1>8. /\ archive_parser' = Some(next) /\ ~ done' /\ chunk' = <<>>
      /\ index_builder' = index_builder \o <<>> /\ next.self = answer.parser
      /\ pc' \in {"judge", "step"}
  BY <1>4, <1>5, <1>7 DEF FedBy, next, rest, None
<1>9. index_builder' = index_builder
  BY <1>3, <1>8, ConcatEmptySeq
<1>10. Status' = Status
  BY <1>1, <1>8 DEF Status
<1>11. Stops(next)'
  BY <1>1, <1>2, <1>4, <1>5, <1>8 DEF Stops
<1>12. archive_parser' # None
  BY <1>8 DEF Some, None
<1>13. Lists'
  BY <1>2, <1>3, <1>4, <1>8, <1>9, <1>11, <1>12 DEF Lists
<1> QED
  BY <1>2, <1>9, <1>10, <1>13, Stutters

\* So it is whatever the parser.
LEMMA ListsFed ==
  ASSUME AllWell, ListsInv, Feed
  PROVE  Lists' /\ Promised
<1>1. Inv /\ pc = "feed" /\ ~ done /\ archive_parser # None
  BY DEF ListsInv, SeesInv, Feed, Inv, Feeding
<1>2. PICK parser, answer : FedBy(parser, answer)
  BY <1>1, Fed
<1>3. archive_parser = Some(parser)
  BY <1>2 DEF FedBy
<1>4. PICK other : Follows(other) \/ Stops(other)
  BY <1>1 DEF ListsInv, Lists
<1>5. other = parser
  BY <1>3, <1>4 DEF Follows, Stops, Some
<1> QED
  BY <1>2, <1>4, <1>5, FollowsFed, StopsFed

\* A stream too short for detection is given to a tar parser.
LEMMA ListsUndetected ==
  ASSUME AllWell, ListsInv, EndUndetected
  PROVE  Lists' /\ Promised
<1>1. /\ Inv /\ ParserSeesAll /\ pc = "step" /\ ~ done /\ archive_parser = None
      /\ detect_buf # <<>> /\ handed = End /\ ~ source.cut
      /\ archive_parser' = NewParser("Tar") /\ chunk' = detect_buf
      /\ from_end' = TRUE /\ pc' = "feed" /\ handed' = handed /\ done' = done
      /\ index_builder' = index_builder
  BY DEF ListsInv, SeesInv, EndUndetected, StreamEnds, Stepping
<1>2. /\ UNCHANGED input /\ source' = source /\ told' = told /\ Format' = Format /\ End' = End
      /\ HoldsOf[source.of]' = HoldsOf[source.of]
  BY InputStays DEF EndUndetected
<1>3. /\ index_builder \in Seq(HoldsOf[source.of]) /\ ~ told /\ handed < Threshold(Format)
  BY <1>1 DEF ListsInv, Lists
<1>4. /\ source \in Sources /\ detect_buf \in Seq(ByteOf(Archives[source.of]))
      /\ Len(detect_buf) < MinDetect
  BY <1>1 DEF Inv, Typed
<1>5. PICK n \in Nat : n = Len(detect_buf) /\ n > 0
  BY <1>1, <1>4, LenProperties, EmptySeq
<1>6. handed = n /\ handed > 0
  BY <1>1, <1>5 DEF ParserSeesAll
<1> DEFINE parser == [format |-> "Tar", self |-> TarNew]
<1>7. archive_parser' = Some(parser) /\ archive_parser' # None
  BY <1>1 DEF NewParser, Some, None
<1>8. ShortTar(parser, detect_buf)
  <2>1. Len(detect_buf) < Block
    BY <1>4, <1>5, SourceIs, TarAssumption
  <2>2. /\ TarNew.state = "ReadingHeader" /\ TarNew.header_buf = <<>>
        /\ TarNew.stream_pos = 0 /\ TarNew.remaining = 0
    BY DEF TarNew
  <2>3. Len(TarNew.header_buf) < Block
    BY <2>2, TarAssumption
  <2> QED BY <2>1, <2>2, <2>3 DEF ShortTar
<1> HIDE DEF parser
<1>9. Stops(parser)'
  BY <1>1, <1>2, <1>3, <1>7, <1>8 DEF Stops
<1>10. Lists'
  BY <1>1, <1>2, <1>3, <1>6, <1>7, <1>9 DEF Lists
<1>11. Status' = Status
  BY <1>1 DEF Status
<1> QED
  BY <1>1, <1>2, <1>10, <1>11, Stutters

\* A step that leaves what is read and parsed alone leaves the index right.
LEMMA ListsAside ==
  ASSUME ListsInv, Aside
  PROVE  Lists'
<1>1. /\ source' = source /\ told' = told /\ handed' = handed /\ chunk' = chunk
      /\ archive_parser' = archive_parser /\ from_end' = from_end
      /\ index_builder' = index_builder /\ pc' # "judge"
  BY DEF Aside
<1>2. Format' = Format /\ End' = End /\ HoldsOf[source.of]' = HoldsOf[source.of]
      /\ Named' = Named
  BY <1>1 DEF Format, End, Named
<1>3. ASSUME archive_parser # None, ~ done', pc' \notin {"refused", "finished"}
      PROVE  \E parser : Follows(parser)' \/ Stops(parser)'
  <2>1. PICK parser : Follows(parser) \/ Stops(parser)
    BY <1>3 DEF ListsInv, Lists, Aside
  <2>2. Follows(parser) => Follows(parser)'
    BY <1>1, <1>2 DEF Follows
  <2>3. Stops(parser) => Stops(parser)'
    BY <1>1, <1>2 DEF Stops
  <2> QED BY <2>1, <2>2, <2>3
<1> QED
  BY <1>1, <1>2, <1>3 DEF ListsInv, Lists

\* Where the stream ends the parser has read all of it, and knows whether it may.
LEMMA EndJudged ==
  ASSUME AllWell, ListsInv, pc \notin {"refused", "finished"}, ~ done, chunk = <<>>,
         handed = End, NEW parser, Follows(parser)
  PROVE  /\ archive_parser[1] = parser
         /\ MayEnd(parser) /\ ~ source.cut => EndsWell /\ Due \subseteq Listing!AllListed
         /\ ~ MayEnd(parser) \/ source.cut => ~ EndsWell
<1> DEFINE s == Archives[source.of]
<1>1. source \in Sources
  BY DEF ListsInv, SeesInv, Inv, Typed
<1>2. source.of \in DOMAIN Archives /\ End \in Nat /\ End <= Len(Contents[source.of])
  BY <1>1, SourceIs
<1>3. Well(s)
  BY <1>2 DEF AllWell
<1>4. parser.self.stream_pos = End
  <2>1. PICK pos \in Nat : parser.self.stream_pos = pos /\ (chunk = <<>> => pos = handed)
    BY FollowsAt
  <2> QED BY <2>1
<1>5. Judged(s, parser, End)
  BY <1>2, <1>3, <1>4, JudgedRight DEF Follows
<1>6. /\ HoldsOf[source.of] = Holds(s) /\ EndsOf[source.of] = Ends(s)
      /\ RefusalsOf[source.of] = Refusals(s)
      /\ LengthOf[source.of] = Len(ArchiveBytes(s))
  BY <1>1, TablesAre
<1>7. archive_parser[1] = parser /\ archive_parser # None
  BY DEF Follows, Some, None
<1>8. Listing!AllListed = Listed(s, parser)
  BY DEF Listing!AllListed, Follows, Named
<1>9. Due = Reached(Holds(s), End)
  BY <1>6 DEF Due, Reached
<1>10. ~ Ended
  <2>1. Format # "Ar" => \E len \in Nat : len = LengthOf[source.of] /\ End < len
    BY <1>2, <1>5, <1>6 DEF Judged, Format
  <2> QED BY <1>2, <2>1 DEF Ended
<1>11. ~ told => End # 0
  BY <1>2, <1>7 DEF ListsInv, Lists
<1> HIDE DEF s
<1>12. EndsWell <=> MayEnd(parser) /\ ~ source.cut
  BY <1>5, <1>6, <1>10, <1>11 DEF EndsWell, Judged
<1> QED
  BY <1>5, <1>7, <1>8, <1>9, <1>12 DEF Judged

\* A stream that ends before its format is known does not end well, unless it is empty.
LEMMA UndetectedEnds ==
  ASSUME AllWell, source \in Sources, handed = End, handed < Threshold(Format)
  PROVE  /\ End = 0 /\ ~ told /\ ~ source.cut => EndsWell /\ Due = {}
         /\ End > 0 \/ source.cut => ~ EndsWell
<1> DEFINE s == Archives[source.of]
<1>1. source.of \in DOMAIN Archives /\ End \in Nat
  BY SourceIs
<1>2. Well(s)
  BY <1>1 DEF AllWell
<1>3. /\ HoldsOf[source.of] = Holds(s) /\ EndsOf[source.of] = Ends(s)
      /\ RefusalsOf[source.of] = Refusals(s)
      /\ LengthOf[source.of] = Len(ArchiveBytes(s))
  BY TablesAre
<1>4. /\ End > 0 => End \notin Ends(s)
      /\ s.format # "Ar" =>
           Len(ArchiveBytes(s)) \in Nat /\ End < Len(ArchiveBytes(s))
  BY <1>1, <1>2, TooShort DEF Format
<1>5. /\ \A e \in Holds(s) : e.data_offset \in Nat /\ e.data_offset > 0
      /\ \A place \in Refusals(s) : place \in Nat /\ place > 0
  BY <1>1, <1>2, PlacesAre
<1>6. ~ Ended
  <2>1. Format # "Ar" => \E len \in Nat : len = LengthOf[source.of] /\ End < len
    BY <1>3, <1>4 DEF Format
  <2> QED BY <1>1, <2>1 DEF Ended
<1> HIDE DEF s
<1>7. ASSUME End = 0, ~ told, ~ source.cut PROVE EndsWell /\ Due = {}
  <2>1. \A place \in RefusalsOf[source.of] : End < place
    BY <1>3, <1>5, <1>7
  <2>2. Due = {}
    BY <1>3, <1>5, <1>7 DEF Due
  <2> QED BY <1>7, <2>1, <2>2 DEF EndsWell
<1>8. End > 0 => End # 0
  BY <1>1
<1> QED
  BY <1>3, <1>4, <1>6, <1>7, <1>8 DEF EndsWell

\* end_of_stream() says Done just when the archive ends where one may.
LEMMA JudgeKeeps ==
  ASSUME AllWell, ListsInv, Judge
  PROVE  Promised
<1>1. /\ Inv /\ archive_parser # None /\ done' = DoneAtEnd /\ index_builder' = index_builder
      /\ pc' = (IF done' THEN "Done" ELSE "Error") /\ done \in BOOLEAN
      /\ pc = "judge" \/ StreamEnds
  BY DEF ListsInv, SeesInv, Judge, Inv, Typed
<1>2. UNCHANGED input
  BY DEF Judge
<1>3. /\ HoldsOf[source.of]' = HoldsOf[source.of] /\ Due' = Due /\ EndsWell' = EndsWell
  BY <1>2, InputStays
<1>4. pc \in {"judge", "step"} /\ chunk = <<>>
  BY <1>1 DEF Inv, Feeding, StreamEnds, Stepping
<1>5. CASE done
  <2>1. Status = "done" /\ Status' = "done"
    BY <1>1, <1>5 DEF DoneAtEnd, Status
  <2> QED BY <1>1, <1>2, <2>1, Stutters
<1>6. CASE ~ done
  <2>1. Status = "listing"
    BY <1>4, <1>6 DEF Status
  <2>2. PICK parser : Follows(parser) \/ Stops(parser)
    BY <1>1, <1>4, <1>6 DEF ListsInv, Lists
  <2>3. archive_parser[1] = parser
    BY <2>2 DEF Follows, Stops, Some
  <2>4. done' <=> MayEnd(parser)
    BY <1>1, <1>6, <2>3 DEF DoneAtEnd
  <2>5. CASE Follows(parser)
    <3>1. handed = End /\ ~ source.cut
      <4>1. pc # "judge"
        BY <2>5 DEF ListsInv, Lists, Follows
      <4> QED BY <1>1, <4>1 DEF StreamEnds
    <3>2. /\ MayEnd(parser) => EndsWell /\ Due \subseteq Listing!AllListed
          /\ ~ MayEnd(parser) => ~ EndsWell
      BY <1>4, <1>6, <2>5, <3>1, EndJudged
    <3>3. CASE MayEnd(parser)
      <4>1. Status' = "done"
        BY <2>4, <3>3 DEF Status
      <4>2. Listing!Succeed
        BY <1>1, <1>3, <2>1, <3>2, <3>3, <4>1 DEF Listing!Succeed
      <4> QED BY <4>2 DEF Promised, Listing!Next
    <3>4. CASE ~ MayEnd(parser)
      <4>1. Status' = "failed"
        BY <1>1, <2>4, <3>4 DEF Status
      <4>2. Listing!Fail
        BY <1>1, <1>3, <2>1, <3>2, <3>4, <4>1 DEF Listing!Fail
      <4> QED BY <4>2 DEF Promised, Listing!Next
    <3> QED BY <3>3, <3>4
  <2>6. CASE Stops(parser)
    <3>1. /\ ShortTar(parser, chunk) /\ parser.self.header_buf # <<>>
          /\ handed = End /\ handed < Threshold(Format) /\ source \in Sources
      BY <1>1, <1>4, <2>6 DEF Stops, Inv, Typed
    <3>2. ~ MayEnd(parser)
      BY <3>1 DEF ShortTar, MayEnd, TarMayEnd
    <3>3. ~ EndsWell
      <4>1. End > 0 \/ told
        BY <1>1, <3>1 DEF ListsInv, Lists
      <4>2. End > 0 => ~ EndsWell
        BY <3>1, UndetectedEnds
      <4>3. told => ~ EndsWell
        BY <2>6 DEF Stops
      <4> QED BY <4>1, <4>2, <4>3
    <3>4. Status' = "failed"
      BY <1>1, <2>4, <3>2 DEF Status
    <3>5. Listing!Fail
      BY <1>1, <1>3, <2>1, <3>3, <3>4 DEF Listing!Fail
    <3> QED BY <3>5 DEF Promised, Listing!Next
  <2> QED BY <2>2, <2>5, <2>6
<1> QED
  BY <1>1, <1>5, <1>6

\* The other steps that only judge or wait.
LEMMA AsideListed ==
  ASSUME AllWell, ListsInv, Aside, [Next]_vars, ~ DrainOutput, ~ Feed, ~ EndUndetected
  PROVE  Promised
<1>1. /\ Inv /\ ParserSeesAll /\ pc # "feed" /\ index_builder' = index_builder
      /\ source \in Sources /\ done \in BOOLEAN /\ chunk = <<>>
  BY DEF ListsInv, SeesInv, Aside, Inv, Typed, Feeding
<1>2. CASE StepDone \/ IndexerAsks \/ Finish \/ Terminated \/ UNCHANGED vars
  <2>1. UNCHANGED input /\ done' = done
    BY <1>2 DEF StepDone, IndexerAsks, Finish, Terminated, vars
  <2>2. \/ Status' = Status
        \/ Status = "failed" /\ Status' = "listing"
    BY <1>1, <1>2, <2>1
       DEF StepDone, IndexerAsks, Stepping, Finish, Terminated, vars, Status
  <2>3. CASE Status = "failed" /\ Status' = "listing"
    <3>1. Listing!Retry
      BY <1>1, <2>1, <2>3, InputStays DEF Listing!Retry
    <3> QED BY <3>1 DEF Promised, Listing!Next
  <2> QED BY <1>1, <2>1, <2>2, <2>3, Stutters
<1>3. CASE StepAgain
  <2>1. UNCHANGED input /\ done' = done /\ pc' = "step" /\ pc \in {"NeedInput", "Error"}
    BY <1>3 DEF StepAgain
  <2>2. \/ Status' = Status
        \/ Status = "failed" /\ Status' = "listing"
    BY <1>1, <2>1 DEF Status
  <2>3. CASE Status = "failed" /\ Status' = "listing"
    <3>1. Listing!Retry
      BY <1>1, <2>1, <2>3, InputStays DEF Listing!Retry
    <3> QED BY <3>1 DEF Promised, Listing!Next
  <2> QED BY <1>1, <2>1, <2>2, <2>3, Stutters
<1>4. CASE EndEmpty
  <2>1. /\ UNCHANGED input /\ done' /\ ~ done /\ pc = "step" /\ handed = End /\ ~ source.cut
        /\ archive_parser = None /\ detect_buf = <<>>
    BY <1>4 DEF EndEmpty, StreamEnds, Stepping
  <2>2. ~ told /\ handed < Threshold(Format)
    BY <2>1 DEF ListsInv, Lists
  <2>3. End = 0
    BY <1>1, <2>1 DEF ParserSeesAll
  <2>4. EndsWell /\ Due = {}
    BY <1>1, <2>1, <2>2, <2>3, UndetectedEnds
  <2>5. Status = "listing" /\ Status' = "done"
    BY <2>1 DEF Status
  <2>6. Listing!Succeed
    BY <1>1, <2>1, <2>4, <2>5, InputStays DEF Listing!Succeed
  <2> QED BY <2>6 DEF Promised, Listing!Next
<1>5. CASE StreamCut
  <2>1. /\ UNCHANGED input /\ done' = done /\ ~ done /\ pc = "step" /\ pc' = "Error"
        /\ handed = End /\ source.cut
    BY <1>5 DEF StreamCut, Stepping
  <2>2. ~ EndsWell
    <3>1. CASE archive_parser = None
      <4>1. handed < Threshold(Format)
        BY <3>1 DEF ListsInv, Lists
      <4> QED BY <1>1, <2>1, <4>1, UndetectedEnds
    <3>2. CASE archive_parser # None
      <4>1. PICK parser : Follows(parser) \/ Stops(parser)
        BY <2>1, <3>2 DEF ListsInv, Lists
      <4>2. Follows(parser)
        BY <2>1, <4>1 DEF Stops
      <4> QED BY <1>1, <2>1, <4>2, EndJudged
    <3> QED BY <3>1, <3>2
  <2>3. Status = "listing" /\ Status' = "failed"
    BY <2>1 DEF Status
  <2>4. Listing!Fail
    BY <1>1, <2>1, <2>2, <2>3, InputStays DEF Listing!Fail
  <2> QED BY <2>4 DEF Promised, Listing!Next
<1>6. CASE Judge
  BY <1>6, JudgeKeeps
<1> QED
  BY <1>2, <1>3, <1>4, <1>5, <1>6 DEF Next, Step

\* Every step does what listing promises.
LEMMA ListsNext ==
  ASSUME AllWell, ListsInv, [Next]_vars
  PROVE  ListsInv' /\ Promised
<1>1. SeesInv'
  <2>1. NothingIsEmpty
    BY WellIs DEF AllWell, NothingIsEmpty
  <2> QED BY <2>1, SeesNext DEF ListsInv
<1>2. CASE DrainOutput
  BY <1>1, <1>2, ListsDrained DEF ListsInv
<1>3. CASE Feed
  BY <1>1, <1>3, ListsFed DEF ListsInv
<1>4. CASE EndUndetected
  BY <1>1, <1>4, ListsUndetected DEF ListsInv
<1>5. CASE Aside /\ ~ DrainOutput /\ ~ Feed /\ ~ EndUndetected
  BY <1>1, <1>5, ListsAside, AsideListed DEF ListsInv
<1>6. CASE UNCHANGED vars
  <2>1. UNCHANGED <<input, index_builder>> /\ Status' = Status
    BY <1>6 DEF vars, Status
  <2>2. Lists'
    <3>1. /\ Format' = Format /\ End' = End /\ HoldsOf[source.of]' = HoldsOf[source.of]
          /\ Named' = Named /\ source' = source
      BY <2>1, InputStays DEF Named
    <3> QED BY <1>6, <3>1 DEF vars, input, ListsInv, Lists, Follows, Stops
  <2> QED BY <1>1, <2>1, <2>2, Stutters DEF ListsInv
<1> QED
  BY <1>2, <1>3, <1>4, <1>5, <1>6, OthersAside DEF ListsInv, SeesInv

\* The engine keeps the promise of ArchiveListing.
THEOREM ListingKept ==
  ASSUME AllWell
  PROVE  Spec => KeepsListing
<1>1. Init => ListsInv /\ Listing!Init
  BY ListsFirst
<1>2. ListsInv /\ [Next]_vars => ListsInv' /\ [Listing!Next]_(Listing!vars)
  BY ListsNext DEF Promised
<1> QED
  BY <1>1, <1>2, PTL DEF Spec, KeepsListing, Listing!Spec
=============================================================================

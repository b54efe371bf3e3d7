------------------------------ MODULE GzipProofs ------------------------------
(***************************************************************************)
(* Proofs about the gzip decoder under the caller of Codecs, for every     *)
(* gzip or deflate stream, file cut anywhere, window, size of the reads,   *)
(* room for output and number of restores.                                 *)
(*                                                                         *)
(* The invariant (GzipInv) is that decoder and caller are in step: what    *)
(* the caller fed is what the decoder took in or still holds, what it has  *)
(* staged follows what the caller got, the ring is the output's last       *)
(* bytes, and a boundary kept for a checkpoint is an end of a block with   *)
(* the window there.  It is shown of inflate's call first, then of each    *)
(* branch of decompress(), then of checkpoint() and restore().             *)
(***************************************************************************)
EXTENDS Codecs, Gzip, SequenceTheorems, WellFoundedInduction, TLAPS

-----------------------------------------------------------------------------
(***************************************************************************)
(* Arithmetic and runs of bytes.                                           *)
(***************************************************************************)

\* A remainder is what is left over.
LEMMA RemainderIs ==
  ASSUME NEW w \in Nat \ {0}, NEW q \in Int, NEW r \in 0..(w - 1)
  PROVE  (w * q + r) % w = r
<1> DEFINE n == w * q + r
           d == n \div w
           m == n % w
<1>1. w \in Int /\ q \in Int /\ w * q \in Int /\ n \in Int
  OBVIOUS
<1>2. d \in Int /\ m \in 0..(w - 1) /\ n = w * d + m
  BY <1>1
<1>3. d - q \in Int /\ w * (d - q) = r - m
  BY <1>1, <1>2
<1>4. CASE d - q >= 1
  <2>1. w * (d - q) >= w
    BY <1>3, <1>4
  <2> QED BY <1>2, <1>3, <2>1
<1>5. CASE d - q <= -1
  <2>1. w * (d - q) <= -w
    BY <1>3, <1>5
  <2> QED BY <1>2, <1>3, <2>1
<1>6. CASE d - q = 0
  BY <1>2, <1>3, <1>6
<1> QED
  BY <1>3, <1>4, <1>5, <1>6

\* How a place in the ring moves with the count of its bytes.
LEMMA PlaceMoves ==
  ASSUME NEW w \in Nat \ {0}, NEW n \in Int
  PROVE  /\ n % w \in 0..(w - 1)
         /\ n \in 0..(w - 1) => n % w = n
         /\ \A k \in Int :
              /\ (n % w) + k \in 0..(w - 1) => (n + k) % w = (n % w) + k
              /\ (n % w) + k \in w..(2 * w - 1) => (n + k) % w = (n % w) + k - w
<1> DEFINE d == n \div w
           r == n % w
<1>1. d \in Int /\ r \in 0..(w - 1) /\ n = w * d + r
  OBVIOUS
<1>2. ASSUME NEW k \in Int, r + k \in 0..(w - 1) PROVE (n + k) % w = r + k
  <2>1. n + k = w * d + (r + k)
    BY <1>1
  <2> HIDE DEF d, r
  <2> QED BY <1>1, <1>2, <2>1, RemainderIs
<1>3. ASSUME NEW k \in Int, r + k \in w..(2 * w - 1) PROVE (n + k) % w = r + k - w
  <2>1. n + k = w * (d + 1) + (r + k - w)
    BY <1>1
  <2>2. d + 1 \in Int /\ r + k - w \in 0..(w - 1)
    BY <1>1, <1>3
  <2> HIDE DEF d, r
  <2> QED BY <2>1, <2>2, RemainderIs
<1>4. ASSUME n \in 0..(w - 1) PROVE r = n
  <2>1. n = w * 0 + n
    OBVIOUS
  <2> QED BY <1>4, <2>1, RemainderIs
<1> QED
  BY <1>1, <1>2, <1>3, <1>4

\* The lesser and the greater of two numbers.
LEMMA MinMaxIs ==
  ASSUME NEW a \in Int, NEW b \in Int
  PROVE  /\ Min({a, b}) = IF a <= b THEN a ELSE b
         /\ Max({a, b}) = IF a <= b THEN b ELSE a
<1>1. \A x : x = (IF a <= b THEN a ELSE b) <=> x \in {a, b} /\ \A y \in {a, b} : x <= y
  OBVIOUS
<1>2. \A x : x = (IF a <= b THEN b ELSE a) <=> x \in {a, b} /\ \A y \in {a, b} : x >= y
  OBVIOUS
<1> QED
  BY <1>1, <1>2 DEF Min, Max

\* The least of some naturals.
LEMMA LeastIs ==
  ASSUME NEW S \in SUBSET Nat, S # {}
  PROVE  Min(S) \in S /\ \A x \in S : Min(S) <= x
<1> DEFINE Less == OpToRel(<, Nat)
<1>1. PICK m \in S : \A n \in S : ~ (<<n, m>> \in Less)
  <2>1. IsWellFoundedOn(Less, Nat)
    BY NatLessThanWellFounded
  <2> HIDE DEF Less
  <2> QED BY <2>1, WFMin
<1>2. \A n \in S : m <= n
  <2>1. \A n \in S : n \in Nat /\ m \in Nat
    OBVIOUS
  <2>2. \A n \in S : ~ (n < m)
    BY <1>1, <2>1 DEF OpToRel
  <2> QED BY <2>1, <2>2
<1> QED
  BY <1>2 DEF Min

(***************************************************************************)
(* Runs of bytes.                                                          *)
(***************************************************************************)

\* A run's bytes.
LEMMA SpanIs ==
  ASSUME NEW at \in Int, NEW n \in Nat
  PROVE  /\ Span(at, n) \in Seq(Int) /\ Len(Span(at, n)) = n
         /\ \A i \in 1..n : Span(at, n)[i] = at + i - 1
         /\ Span(at, n) = <<>> <=> n = 0
         /\ n > 0 => Span(at, n)[1] = at
<1>1. Span(at, n) \in [1..n -> Int]
  BY DEF Span
<1>2. Span(at, n) \in Seq(Int) /\ Len(Span(at, n)) = n
  BY <1>1
<1>3. \A i \in 1..n : Span(at, n)[i] = at + i - 1
  BY DEF Span
<1>4. Span(at, n) = <<>> <=> n = 0
  BY <1>2, EmptySeq
<1> QED
  BY <1>2, <1>3, <1>4

\* A sequence that reads like a run is the run.
LEMMA SpanSame ==
  ASSUME NEW at \in Int, NEW n \in Nat, NEW q \in Seq(Int), Len(q) = n,
         \A i \in 1..n : q[i] = at + i - 1
  PROVE  q = Span(at, n)
<1>1. /\ Span(at, n) \in Seq(Int) /\ Len(Span(at, n)) = n
      /\ \A i \in 1..n : Span(at, n)[i] = at + i - 1
  BY SpanIs
<1> QED
  BY <1>1, SeqEqual

\* What is taken from a run, and what is left of it, are runs.
LEMMA SpanCut ==
  ASSUME NEW at \in Int, NEW n \in Nat, NEW k \in Nat
  PROVE  /\ k <= n => /\ Take(Span(at, n), k) = Span(at, k)
                      /\ Drop(Span(at, n), k) = Span(at + k, n - k)
         /\ k >= n => Drop(Span(at, n), k) = <<>>
<1> DEFINE q == Span(at, n)
<1>1. q \in Seq(Int) /\ Len(q) = n /\ \A i \in 1..n : q[i] = at + i - 1
  BY SpanIs
<1> HIDE DEF q
<1>2. ASSUME k <= n PROVE Take(q, k) = Span(at, k)
  <2>1. \A i \in 1..k : q[i] \in Int
    BY <1>1, <1>2
  <2>2. /\ SubSeq(q, 1, k) \in Seq(Int)
        /\ Len(SubSeq(q, 1, k)) = IF 1 <= k THEN k - 1 + 1 ELSE 0
        /\ \A i \in 1..(k - 1 + 1) : SubSeq(q, 1, k)[i] = q[1 + i - 1]
    BY <2>1, SubSeqProperties
  <2>3. Len(SubSeq(q, 1, k)) = k
    BY <2>2
  <2>4. \A i \in 1..k : SubSeq(q, 1, k)[i] = at + i - 1
    BY <1>1, <1>2, <2>2
  <2> QED BY <2>2, <2>3, <2>4, SpanSame DEF Take
<1>3. ASSUME k <= n PROVE Drop(q, k) = Span(at + k, n - k)
  <2>1. \A i \in (k + 1)..n : q[i] \in Int
    BY <1>1
  <2>2. /\ SubSeq(q, k + 1, n) \in Seq(Int)
        /\ Len(SubSeq(q, k + 1, n)) = IF k + 1 <= n THEN n - (k + 1) + 1 ELSE 0
        /\ \A i \in 1..(n - (k + 1) + 1) : SubSeq(q, k + 1, n)[i] = q[k + 1 + i - 1]
    BY <2>1, SubSeqProperties
  <2>3. Len(SubSeq(q, k + 1, n)) = n - k /\ n - k \in Nat /\ at + k \in Int
    BY <1>3, <2>2
  <2>4. \A i \in 1..(n - k) : SubSeq(q, k + 1, n)[i] = (at + k) + i - 1
    BY <1>1, <1>3, <2>2
  <2> QED BY <1>1, <2>2, <2>3, <2>4, SpanSame DEF Drop
<1>4. ASSUME k >= n PROVE Drop(q, k) = <<>>
  BY <1>1, <1>4, SubSeqEmpty DEF Drop
<1> QED
  BY <1>2, <1>3, <1>4 DEF q

\* Two runs in a row are one.
LEMMA SpanJoins ==
  ASSUME NEW at \in Int, NEW n \in Nat, NEW k \in Nat
  PROVE  Span(at, n) \o Span(at + n, k) = Span(at, n + k)
<1> DEFINE a == Span(at, n)
           b == Span(at + n, k)
<1>1. a \in Seq(Int) /\ Len(a) = n /\ \A i \in 1..n : a[i] = at + i - 1
  BY SpanIs
<1>2. b \in Seq(Int) /\ Len(b) = k /\ \A i \in 1..k : b[i] = at + n + i - 1
  BY SpanIs
<1> HIDE DEF a, b
<1>3. /\ a \o b \in Seq(Int) /\ Len(a \o b) = n + k
      /\ \A i \in 1..(n + k) : (a \o b)[i] = IF i <= n THEN a[i] ELSE b[i - n]
  BY <1>1, <1>2, ConcatProperties
<1>4. \A i \in 1..(n + k) : (a \o b)[i] = at + i - 1
  BY <1>1, <1>2, <1>3
<1>5. n + k \in Nat
  OBVIOUS
<1>6. a \o b = Span(at, n + k)
  BY <1>3, <1>4, <1>5, SpanSame
<1> QED
  BY <1>6 DEF a, b

\* The last of a run's bytes.
LEMMA SpanLast ==
  ASSUME NEW n \in Nat, NEW w \in Nat
  PROVE  LastOf(Span(0, n), w) = IF n <= w THEN Span(0, n) ELSE Span(n - w, w)
<1>1. Len(Span(0, n)) = n
  BY SpanIs
<1>2. Max({n - w, 0}) = IF n <= w THEN 0 ELSE n - w
  <2>1. n - w \in Int /\ 0 \in Int
    OBVIOUS
  <2>2. Max({n - w, 0}) = IF n - w <= 0 THEN 0 ELSE n - w
    BY <2>1, MinMaxIs
  <2> QED BY <2>2
<1>3. CASE n <= w
  <2>1. 0 \in Nat /\ 0 <= n /\ 0 + 0 = 0 /\ n - 0 = n
    OBVIOUS
  <2>2. Drop(Span(0, n), 0) = Span(0, n)
    BY <2>1, SpanCut
  <2> QED BY <1>1, <1>2, <1>3, <2>2 DEF LastOf
<1>4. CASE ~ (n <= w)
  <2>1. n - w \in Nat /\ n - w <= n
    BY <1>4
  <2>2. 0 + (n - w) = n - w /\ n - (n - w) = w
    OBVIOUS
  <2>3. Drop(Span(0, n), n - w) = Span(n - w, w)
    BY <2>1, <2>2, SpanCut
  <2> QED BY <1>1, <1>2, <1>4, <2>3 DEF LastOf
<1> QED
  BY <1>3, <1>4

-----------------------------------------------------------------------------
(***************************************************************************)
(* The streams, and the decoder of all of them.                            *)
(***************************************************************************)

\* The bytes of a stream's trailer.
TrailerOf(s) == IF s.magic THEN TrailerSize ELSE 0

\* A gzip or deflate stream that is what it says: blocks end inside the deflate data, what
\* is inflated only grows, and a decoder is told a stream is raw only where it has no header.
GzipStream(s) ==
  /\ s.magic \in BOOLEAN /\ s.raw \in BOOLEAN
  /\ s.magic => ~ s.raw
  /\ s.header \in Nat /\ (s.magic <=> s.header > 0)
  /\ s.deflated \in Nat \ {0}
  /\ s.inflated \in [0..s.deflated -> Nat] /\ s.inflated[0] = 0
  /\ \A p, q \in 0..s.deflated : p <= q => s.inflated[p] <= s.inflated[q]
  /\ s.blocks \in SUBSET (1..(s.deflated - 1))
  /\ s.packed = s.header + s.deflated + TrailerOf(s)
  /\ s.decoded = [p \in 0..s.packed |-> s.inflated[Min({Max({p - s.header, 0}), s.deflated})]]
  /\ s.bytes = Span(0, s.inflated[s.deflated])
  /\ \A t \in s.tails : t \in Int /\ s.packed + t >= 0

\* Its decoder need not look for a header that may not be there.
Framed(s) == s.magic \/ s.raw

Sizes == MinHeader \in Nat \ {0} /\ TrailerSize \in Nat \ {0} /\ WindowSize \in Nat \ {0}

\* The constants are of their kinds, and every stream's decoder is the gzip one.
GzipDecoders ==
  /\ Sizes
  /\ MaxRead \in Nat /\ Rooms \in SUBSET (Nat \ {0}) /\ MaxRestores \in Nat
  /\ \A s \in Streams :
       /\ GzipStream(s)
       /\ CodecNew(s) = New(s)
       /\ \A d, data, room : CodecDecompress(s, d, data, room) = Decompress(s, d, data, room)
       /\ \A d, p, u : CodecCheckpoint(s, d, p, u) = Checkpoint(s, d, p, u)
       /\ \A cp : CodecRestored(s, cp) = Restored(s, cp)
       /\ \A d : CodecHeld(s, d) = Held(d)
       /\ \A n, m : CodecHolds(s, n, m) = Max({WindowSize, MinHeader + n})

(***************************************************************************)
(* The decoder's fields.                                                   *)
(***************************************************************************)

Boundaries == [packed : Nat, unpacked : Nat, window : Seq(Int), inner : Nat \X Nat]

Fields ==
  [inner : Nat \X Nat, dict_buf : [0..(WindowSize - 1) -> Int], dict_pos : Nat,
   finished : BOOLEAN, stage : Seq(Int),
   header_state : {"ReadingFixedHeader", "Decompressing", "Trailer", "Finished"},
   trailer : Nat, header_len : Nat, header_size : Nat, deflate_in : Nat, total_out : Nat,
   last_boundary : {NoBoundary} \cup Boundaries,
   replay : [at : Int, bytes : Seq(Int)]]

\* The output's last bytes, as far as the window goes.
History(n) == LastOf(Span(0, n), WindowSize)

\* The ring, next written at `w', holds the last of the `out' bytes put out.
RingAt(buf, pos, out, w) ==
  /\ pos < WindowSize => pos = out
  /\ pos >= WindowSize => out >= WindowSize
  /\ \A i \in 0..(w - 1) : buf[i] = (out - w) + i
  /\ pos >= WindowSize => \A i \in w..(WindowSize - 1) : buf[i] = (out - w - WindowSize) + i

RingHolds(buf, pos, out) == RingAt(buf, pos, out, pos % WindowSize)

\* The ring with the `made' bytes of the output after the first `out' put in at `pos'.
Filled(buf, pos, out, made) ==
  [i \in DOMAIN buf |-> IF \E k \in 0..(made - 1) : i = (pos + k) % WindowSize
                        THEN Span(out, made)[1 + ((i - pos) % WindowSize)] ELSE buf[i]]

\* A boundary is an end of a block, with the window there; its count of the file is too low
\* in a decoder that was restored.
BoundaryRight(s, b) ==
  /\ b \in Boundaries
  /\ b.inner[1] \in s.blocks
  /\ b.inner[2] = b.unpacked /\ b.unpacked = s.inflated[b.inner[1]]
  /\ b.packed <= s.header + b.inner[1]
  /\ b.window = History(b.unpacked)

AllInflated(s) == <<s.deflated, s.inflated[s.deflated]>>

\* What holds of the inflating part, wherever it is past the header.
Core(s, g) ==
  /\ g \in Fields
  /\ g.inner[1] <= s.deflated /\ g.inner[2] <= s.inflated[g.inner[1]]
  /\ RingHolds(g.dict_buf, g.dict_pos, g.inner[2])
  /\ g.total_out = g.inner[2] /\ g.deflate_in <= g.inner[1]
  /\ g.header_size = s.header
  /\ g.last_boundary # NoBoundary =>
       BoundaryRight(s, g.last_boundary) /\ g.last_boundary.inner[1] <= g.inner[1]
  /\ g.finished <=> g.header_state = "Finished"
  /\ g.header_state = "Decompressing" <=> g.inner # AllInflated(s)

\* What it has staged follows what the caller has got.
Staged(g, taken_) ==
  /\ taken_ <= g.inner[2] /\ g.inner[2] - taken_ <= WindowSize
  /\ g.stage = Span(taken_, g.inner[2] - taken_)

InHeader(s, g, fed_, taken_) ==
  /\ ~ s.raw /\ fed_ = g.header_len /\ taken_ = 0 /\ ~ HeaderSettled(s, g.header_len)
  /\ g = [New(s) EXCEPT !.header_len = fed_]

\* Inflating the file itself or the bytes held while a header was looked for.
Inflating(s, g, fed_) ==
  /\ g.header_state = "Decompressing"
  /\ fed_ = s.header + g.inner[1] + Len(g.replay.bytes)
  /\ g.replay.bytes # <<>> =>
       /\ ~ Framed(s)
       /\ g.replay = [at |-> g.inner[1], bytes |-> Span(g.inner[1], Len(g.replay.bytes))]

InTrailer(s, g, fed_) ==
  /\ g.header_state = "Trailer" /\ s.magic /\ g.replay.bytes = <<>>
  /\ g.trailer \in 1..TrailerSize
  /\ fed_ = s.header + s.deflated + (TrailerSize - g.trailer)

\* Finished, with output staged: only a stream without a trailer gets there.
AllDone(s, g, fed_) ==
  /\ g.header_state = "Finished" /\ ~ s.magic /\ g.stage # <<>>
  /\ fed_ = s.deflated + Len(g.replay.bytes)
  /\ g.replay.bytes # <<>> => ~ Framed(s)

\* What holds of a decoder of `s' that a caller with these counts goes on with.
Right(s, g, fed_, taken_) ==
  \/ InHeader(s, g, fed_, taken_)
  \/ /\ Core(s, g) /\ Staged(g, taken_)
     /\ Inflating(s, g, fed_) \/ InTrailer(s, g, fed_) \/ AllDone(s, g, fed_)

\* What may be saved.
SavedRight(s, cp) ==
  \/ cp = Start
  \/ /\ cp.fresh = FALSE
     /\ cp.packed \in Nat /\ cp.unpacked \in Nat
     /\ cp.inner = <<cp.packed - s.header, cp.unpacked>>
     /\ cp.inner[1] \in s.blocks /\ cp.unpacked = s.inflated[cp.inner[1]]
     /\ cp.header_size = s.header
     /\ cp.window = History(cp.unpacked)

\* What it may hold once it was asked anything.
HoldsAWindow(s, g) ==
  /\ g.stage \in Seq(Int) /\ Len(g.stage) <= WindowSize
  /\ Framed(s) => g.replay.bytes = <<>>

GzipInv ==
  /\ stream \in Streams
  /\ file_len \in Nat
  /\ fed \in 0..file_len /\ taken \in Nat
  /\ Calling => Right(stream, codec, fed, taken)
  /\ SavedRight(stream, saved) /\ saved.packed <= file_len
  /\ HoldsAWindow(stream, codec)

-----------------------------------------------------------------------------
(***************************************************************************)
(* The ring.                                                               *)
(***************************************************************************)

\* The history of a length is a run.
LEMMA HistoryIs ==
  ASSUME WindowSize \in Nat \ {0}, NEW n \in Nat
  PROVE  /\ History(n) = IF n < WindowSize THEN Span(0, n) ELSE Span(n - WindowSize, WindowSize)
         /\ History(n) \in Seq(Int)
         /\ Len(History(n)) = IF n < WindowSize THEN n ELSE WindowSize
<1>1. History(n) = IF n <= WindowSize THEN Span(0, n) ELSE Span(n - WindowSize, WindowSize)
  BY SpanLast DEF History
<1>2. n = WindowSize => n - WindowSize = 0
  OBVIOUS
<1>3. History(n) = IF n < WindowSize THEN Span(0, n) ELSE Span(n - WindowSize, WindowSize)
  BY <1>1, <1>2
<1>4. CASE n < WindowSize
  BY <1>3, <1>4, SpanIs
<1>5. CASE ~ (n < WindowSize)
  <2>1. n - WindowSize \in Int
    OBVIOUS
  <2> QED BY <1>3, <1>5, <2>1, SpanIs
<1> QED
  BY <1>3, <1>4, <1>5

\* get_window() is the history of what was put out.
LEMMA WindowIs ==
  ASSUME WindowSize \in Nat \ {0},
         NEW g, g \in Fields, NEW out \in Nat,
         RingHolds(g.dict_buf, g.dict_pos, out)
  PROVE  Window(g) = History(out)
<1> DEFINE w   == g.dict_pos % WindowSize
           pos == g.dict_pos
           buf == g.dict_buf
<1>1. pos \in Nat /\ pos \in Int /\ buf \in [0..(WindowSize - 1) -> Int]
  BY DEF Fields
<1>2. /\ w \in 0..(WindowSize - 1)
      /\ pos \in 0..(WindowSize - 1) => w = pos
      /\ \A k \in Int : /\ w + k \in 0..(WindowSize - 1) => (pos + k) % WindowSize = w + k
                        /\ w + k \in WindowSize..(2 * WindowSize - 1) =>
                             (pos + k) % WindowSize = w + k - WindowSize
  BY <1>1, PlaceMoves, Zenon
<1>3. CASE pos < WindowSize
  <2>1. pos = out /\ w = pos
    BY <1>1, <1>2, <1>3 DEF RingHolds, RingAt
  <2>2. Window(g) = [i \in 1..pos |-> buf[i - 1]]
    BY <1>3 DEF Window
  <2>3. \A i \in 1..pos : buf[i - 1] = 0 + i - 1
    <3>1. \A j \in 0..(w - 1) : buf[j] = (out - w) + j
      BY DEF RingHolds, RingAt
    <3> HIDE DEF buf, pos, w
    <3> QED BY <1>1, <2>1, <3>1
  <2>4. Window(g) = Span(0, pos)
    BY <2>2, <2>3 DEF Span
  <2> QED BY <1>3, <2>1, <2>4, HistoryIs
<1>4. CASE ~ (pos < WindowSize)
  <2>1. /\ out >= WindowSize
        /\ \A j \in 0..(w - 1) : buf[j] = (out - w) + j
        /\ \A j \in w..(WindowSize - 1) : buf[j] = (out - w - WindowSize) + j
    BY <1>1, <1>4 DEF RingHolds, RingAt
  <2>2. Window(g) = [i \in 1..WindowSize |-> buf[(pos + i - 1) % WindowSize]]
    BY <1>4 DEF Window
  <2>3. ASSUME NEW i \in 1..WindowSize
        PROVE  buf[(pos + i - 1) % WindowSize] = (out - WindowSize) + i - 1
    <3> HIDE DEF buf, pos, w
    <3>1. i - 1 \in Int /\ pos + i - 1 = pos + (i - 1)
      BY <1>1
    <3>2. CASE w + (i - 1) <= WindowSize - 1
      <4>1. (pos + i - 1) % WindowSize = w + (i - 1)
        BY <1>2, <3>1, <3>2
      <4> QED BY <1>2, <2>1, <3>2, <4>1
    <3>3. CASE ~ (w + (i - 1) <= WindowSize - 1)
      <4>1. w + (i - 1) \in WindowSize..(2 * WindowSize - 1)
        BY <1>2, <3>3
      <4>2. (pos + i - 1) % WindowSize = w + (i - 1) - WindowSize
        BY <1>2, <3>1, <4>1
      <4> QED BY <1>2, <2>1, <3>3, <4>2
    <3> QED BY <3>2, <3>3
  <2>4. Window(g) = Span(out - WindowSize, WindowSize)
    BY <2>2, <2>3 DEF Span
  <2> QED BY <1>4, <2>1, <2>4, HistoryIs
<1> QED
  BY <1>3, <1>4

\* The ring `after' is `buf' with `made' bytes written over it from `w' on.
Written(buf, after, out, made, w) ==
  \A i \in 0..(WindowSize - 1) :
    after[i] = IF i \in w..(w + made - 1) THEN out + i - w ELSE buf[i]

\* How the ring's bytes lie once some are written.
LEMMA RingTurns ==
  ASSUME WindowSize \in Nat \ {0},
         NEW buf \in [0..(WindowSize - 1) -> Int], NEW after,
         NEW pos \in Nat, NEW out \in Nat, NEW made \in Nat,
         NEW w \in 0..(WindowSize - 1), w + made <= WindowSize,
         pos < WindowSize => w = pos,
         RingAt(buf, pos, out, w), Written(buf, after, out, made, w)
  PROVE  RingAt(after, pos + made, out + made, IF w + made < WindowSize THEN w + made ELSE 0)
<1> DEFINE w2 == IF w + made < WindowSize THEN w + made ELSE 0
<1>3. /\ pos < WindowSize => pos = out
      /\ pos >= WindowSize => out >= WindowSize
      /\ \A i \in 0..(w - 1) : buf[i] = (out - w) + i
      /\ pos >= WindowSize => \A i \in w..(WindowSize - 1) : buf[i] = (out - w - WindowSize) + i
  BY DEF RingAt
<1>4. \A i \in 0..(WindowSize - 1) :
        after[i] = IF i \in w..(w + made - 1) THEN out + i - w ELSE buf[i]
  BY DEF Written
<1>5. w2 = IF w + made < WindowSize THEN w + made ELSE 0
  OBVIOUS
<1> HIDE DEF w2
<1> SUFFICES /\ pos + made < WindowSize => pos + made = out + made
             /\ pos + made >= WindowSize => out + made >= WindowSize
             /\ \A i \in 0..(w2 - 1) : after[i] = ((out + made) - w2) + i
             /\ pos + made >= WindowSize =>
                  \A i \in w2..(WindowSize - 1) : after[i] = ((out + made) - w2 - WindowSize) + i
  BY DEF RingAt, w2
<1> USE <1>3, <1>4, <1>5
<1>1. CASE w + made < WindowSize
  <2>1. w2 = w + made /\ (pos + made >= WindowSize => pos >= WindowSize)
    BY <1>1
  <2>2. /\ pos + made < WindowSize => pos + made = out + made
        /\ pos + made >= WindowSize => out + made >= WindowSize
    BY <2>1
  <2>3. ASSUME NEW i \in 0..(w2 - 1) PROVE after[i] = ((out + made) - w2) + i
    <3>1. i \in 0..(WindowSize - 1) /\ (i \in w..(w + made - 1) \/ i \in 0..(w - 1))
      BY <1>1, <2>1
    <3>2. CASE i \in w..(w + made - 1)
      <4>1. after[i] = out + i - w
        BY <3>1, <3>2
      <4> QED BY <2>1, <4>1
    <3>3. CASE ~ (i \in w..(w + made - 1))
      <4>1. after[i] = buf[i] /\ buf[i] = (out - w) + i
        BY <3>1, <3>3
      <4> QED BY <2>1, <4>1
    <3> QED BY <3>2, <3>3
  <2>4. ASSUME pos + made >= WindowSize, NEW i \in w2..(WindowSize - 1)
        PROVE  after[i] = ((out + made) - w2 - WindowSize) + i
    <3>1. i \in 0..(WindowSize - 1) /\ ~ (i \in w..(w + made - 1)) /\ i \in w..(WindowSize - 1)
      BY <2>1
    <3>2. after[i] = buf[i]
      BY <3>1
    <3>3. buf[i] = (out - w - WindowSize) + i
      BY <2>1, <2>4, <3>1
    <3> QED BY <2>1, <3>2, <3>3
  <2> QED BY <2>2, <2>3, <2>4, Zenon
<1>2. CASE ~ (w + made < WindowSize)
  <2>1. w2 = 0 /\ w + made = WindowSize
    BY <1>2
  <2>2. /\ pos + made < WindowSize => pos + made = out + made
        /\ pos + made >= WindowSize => out + made >= WindowSize
    BY <2>1
  <2>3. ASSUME NEW i \in 0..(w2 - 1) PROVE after[i] = ((out + made) - w2) + i
    BY <2>1
  <2>4. ASSUME NEW i \in w2..(WindowSize - 1)
        PROVE  after[i] = ((out + made) - w2 - WindowSize) + i
    <3>1. CASE i \in w..(w + made - 1)
      <4>1. after[i] = out + i - w
        BY <2>1, <3>1
      <4> QED BY <2>1, <4>1
    <3>2. CASE ~ (i \in w..(w + made - 1))
      <4>1. after[i] = buf[i] /\ buf[i] = (out - w) + i
        BY SMTT(30), <2>1, <3>2
      <4> QED BY <2>1, <4>1
    <3> QED BY <3>1, <3>2
  <2> QED BY <2>2, <2>3, <2>4, Zenon
<1> QED
  BY <1>1, <1>2

\* Bytes put in the ring up to its end at most.
LEMMA RingFilled ==
  ASSUME WindowSize \in Nat \ {0},
         NEW buf \in [0..(WindowSize - 1) -> Int], NEW pos \in Nat, NEW out \in Nat,
         RingHolds(buf, pos, out),
         NEW made \in 0..(WindowSize - (pos % WindowSize)),
         NEW after, after = Filled(buf, pos, out, made)
  PROVE  /\ after \in [0..(WindowSize - 1) -> Int]
         /\ RingHolds(after, pos + made, out + made)
<1>1. PICK w \in 0..(WindowSize - 1) : w = pos % WindowSize
  <2>1. pos % WindowSize \in 0..(WindowSize - 1)
    OBVIOUS
  <2> QED BY <2>1, Zenon
<1>2. PICK d \in Int : pos = WindowSize * d + w
  <2>1. pos \div WindowSize \in Int /\ pos = WindowSize * (pos \div WindowSize) + w
    BY <1>1
  <2> QED BY <2>1, Zenon
<1>3. made \in Nat /\ w + made <= WindowSize
  BY <1>1
<1>4. /\ pos < WindowSize => w = pos
      /\ \A k \in Int : /\ w + k \in 0..(WindowSize - 1) => (pos + k) % WindowSize = w + k
                        /\ w + k \in WindowSize..(2 * WindowSize - 1) =>
                             (pos + k) % WindowSize = w + k - WindowSize
  <2>1. pos \in Int /\ (pos < WindowSize => pos \in 0..(WindowSize - 1))
    OBVIOUS
  <2> QED BY <1>1, <2>1, PlaceMoves, Zenon
<1>5. ASSUME NEW k \in 0..(made - 1) PROVE (pos + k) % WindowSize = w + k
  <2>1. w + k \in 0..(WindowSize - 1) /\ k \in Int
    BY <1>3
  <2> QED BY <1>4, <2>1
<1>6. ASSUME NEW i \in w..(w + made - 1) PROVE (i - pos) % WindowSize = i - w
  <2>1. i - pos = WindowSize * (-d) + (i - w)
    <3>1. WindowSize * (-d) = -(WindowSize * d) /\ WindowSize * d \in Int
      OBVIOUS
    <3> QED BY <1>2, <3>1
  <2>2. i - w \in 0..(WindowSize - 1) /\ -d \in Int
    BY <1>3
  <2> QED BY <2>1, <2>2, RemainderIs
<1>7. ASSUME NEW i \in 0..(WindowSize - 1)
      PROVE  after[i] = IF i \in w..(w + made - 1) THEN out + i - w ELSE buf[i]
  <2>1. ASSUME i \in w..(w + made - 1) PROVE \E k \in 0..(made - 1) : i = (pos + k) % WindowSize
    <3>1. i - w \in 0..(made - 1) /\ i = w + (i - w)
      BY <1>3, <2>1
    <3> QED BY <1>5, <3>1
  <2>2. ASSUME NEW k \in 0..(made - 1), i = (pos + k) % WindowSize PROVE i \in w..(w + made - 1)
    <3>1. i = w + k
      BY <1>5, <2>2
    <3> QED BY <1>3, <3>1
  <2>3. ASSUME i \in w..(w + made - 1)
        PROVE  Span(out, made)[1 + ((i - pos) % WindowSize)] = out + i - w
    <3>1. (i - pos) % WindowSize = i - w
      BY <1>6, <2>3
    <3>2. 1 + (i - w) \in 1..made
      BY <1>3, <2>3
    <3>3. Span(out, made)[1 + (i - w)] = out + (1 + (i - w)) - 1
      BY <1>3, <3>2, SpanIs
    <3>4. out + (1 + (i - w)) - 1 = out + i - w
      OBVIOUS
    <3> QED BY <3>1, <3>3, <3>4
  <2>4. after[i] = IF \E k \in 0..(made - 1) : i = (pos + k) % WindowSize
                   THEN Span(out, made)[1 + ((i - pos) % WindowSize)] ELSE buf[i]
    BY DEF Filled
  <2>5. CASE i \in w..(w + made - 1)
    BY <2>1, <2>3, <2>4, <2>5
  <2>6. CASE ~ (i \in w..(w + made - 1))
    BY <2>2, <2>4, <2>6
  <2> QED BY <2>5, <2>6
<1>8. after \in [0..(WindowSize - 1) -> Int]
  <2>1. ASSUME NEW i \in 0..(WindowSize - 1) PROVE after[i] \in Int
    <3>1. out + i - w \in Int /\ buf[i] \in Int
      OBVIOUS
    <3> QED BY <1>7, <3>1
  <2>2. after = [i \in 0..(WindowSize - 1) |-> after[i]]
    BY DEF Filled
  <2> QED BY <2>1, <2>2
<1> DEFINE w2 == IF w + made < WindowSize THEN w + made ELSE 0
<1>10. (pos + made) % WindowSize = w2
  <2>1. made \in Int
    BY <1>3
  <2>2. CASE w + made < WindowSize
    <3>1. w + made \in 0..(WindowSize - 1)
      BY <1>3, <2>2
    <3> QED BY <1>4, <2>1, <2>2, <3>1
  <2>3. CASE ~ (w + made < WindowSize)
    <3>1. w + made = WindowSize
      BY <1>3, <2>3
    <3>2. w + made \in WindowSize..(2 * WindowSize - 1) /\ w + made - WindowSize = 0
      BY <3>1
    <3> QED BY <1>4, <2>1, <2>3, <3>2
  <2> QED BY <2>2, <2>3
<1> HIDE DEF w2
<1>11. RingAt(after, pos + made, out + made, w2)
  <2>1. pos < WindowSize => w = pos
    BY <1>4
  <2>2. Written(buf, after, out, made, w)
    BY <1>7 DEF Written
  <2>3. RingAt(buf, pos, out, w)
    BY <1>1 DEF RingHolds
  <2> QED BY <1>3, <2>1, <2>2, <2>3, RingTurns DEF w2
<1> QED
  BY <1>8, <1>10, <1>11 DEF RingHolds

\* The ring of a new decoder, and that of one given the window at its place.
LEMMA RingStarts ==
  ASSUME WindowSize \in Nat \ {0}, NEW buf
  PROVE  RingHolds(buf, 0, 0)
<1>1. 0 % WindowSize = 0
  <2>1. 0 \in Int /\ 0 \in 0..(WindowSize - 1)
    OBVIOUS
  <2> QED BY <2>1, PlaceMoves
<1> QED
  BY <1>1 DEF RingHolds, RingAt

\* restore(): the window is laid at the ring's start.
LEMMA RingRestored ==
  ASSUME WindowSize \in Nat \ {0}, NEW out \in Nat,
         NEW buf, \A i \in 0..(Len(History(out)) - 1) : buf[i] = History(out)[i + 1]
  PROVE  RingHolds(buf, Len(History(out)), out)
<1>1. /\ Len(History(out)) = IF out < WindowSize THEN out ELSE WindowSize
      /\ History(out) = IF out < WindowSize THEN Span(0, out)
                        ELSE Span(out - WindowSize, WindowSize)
  BY HistoryIs
<1>2. CASE out < WindowSize
  <2>1. out % WindowSize = out
    <3>1. out \in Int /\ out \in 0..(WindowSize - 1)
      BY <1>2
    <3> QED BY <3>1, PlaceMoves
  <2>2. ASSUME NEW i \in 0..(out - 1) PROVE buf[i] = (out - out) + i
    <3>1. buf[i] = Span(0, out)[i + 1]
      BY <1>1, <1>2
    <3>2. i + 1 \in 1..out /\ 0 \in Int
      OBVIOUS
    <3>3. Span(0, out)[i + 1] = 0 + (i + 1) - 1
      BY <3>2, SpanIs
    <3> QED BY <3>1, <3>3
  <2> QED BY <1>1, <1>2, <2>1, <2>2 DEF RingHolds, RingAt
<1>3. CASE ~ (out < WindowSize)
  <2>1. WindowSize % WindowSize = 0
    <3>1. WindowSize = WindowSize * 1 + 0 /\ 1 \in Int /\ 0 \in 0..(WindowSize - 1)
      OBVIOUS
    <3> QED BY <3>1, RemainderIs
  <2>2. ASSUME NEW i \in 0..(WindowSize - 1) PROVE buf[i] = (out - 0 - WindowSize) + i
    <3>1. buf[i] = Span(out - WindowSize, WindowSize)[i + 1]
      BY <1>1, <1>3
    <3>2. i + 1 \in 1..WindowSize /\ out - WindowSize \in Int
      OBVIOUS
    <3>3. Span(out - WindowSize, WindowSize)[i + 1] = (out - WindowSize) + (i + 1) - 1
      BY <3>2, SpanIs
    <3> QED BY <3>1, <3>3
  <2>3. Len(History(out)) = WindowSize /\ out >= WindowSize
    BY <1>1, <1>3
  <2>4. \A i \in 0..(0 - 1) : buf[i] = (out - 0) + i
    OBVIOUS
  <2> QED BY <2>1, <2>2, <2>3, <2>4 DEF RingHolds, RingAt
<1> QED
  BY <1>2, <1>3

(***************************************************************************)
(* One call of inflate.                                                    *)
(***************************************************************************)

\* The end of the block inflate is in lies ahead of it.
LEMMA BlockEndIs ==
  ASSUME NEW s, GzipStream(s),
         NEW q \in 0..s.deflated, NEW o \in 0..s.inflated[q],
         <<q, o>> # AllInflated(s),
         NEW e, e = BlockEnd(s, <<q, o>>)
  PROVE  /\ e \in q..s.deflated /\ e \in s.blocks \cup {s.deflated}
         /\ e = q => o < s.inflated[e]
<1> DEFINE Ends == {x \in s.blocks \cup {s.deflated} :
                      q < x \/ (q = x /\ o < s.inflated[x])}
<1>1. /\ s.deflated \in Nat /\ s.blocks \in SUBSET (1..(s.deflated - 1))
      /\ s.inflated \in [0..s.deflated -> Nat]
  BY DEF GzipStream
<1>2. s.deflated \in Ends
  <2>1. q < s.deflated \/ (q = s.deflated /\ o < s.inflated[s.deflated])
    BY <1>1 DEF AllInflated
  <2> QED BY <2>1
<1>3. Ends \in SUBSET Nat /\ Ends \subseteq 0..s.deflated
  BY <1>1
<1>4. e = Min(Ends)
  BY DEF BlockEnd
<1>5. e \in Ends
  <2> HIDE DEF Ends
  <2> QED BY <1>2, <1>3, <1>4, LeastIs
<1> QED
  BY <1>1, <1>3, <1>5

\* Where inflate gets to with `n' bytes.
LEMMA ReachedIs ==
  ASSUME WindowSize \in Nat \ {0}, NEW s, GzipStream(s), NEW g, Core(s, g),
         g.inner # AllInflated(s), NEW n \in Nat, NEW to \in Reached(s, g, n)
  PROVE  /\ to \in Nat \X Nat
         /\ to[1] \in g.inner[1]..s.deflated /\ to[1] <= g.inner[1] + n
         /\ to[2] \in g.inner[2]..s.inflated[to[1]]
         /\ to[2] <= g.inner[2] + Room(g)
         /\ to[1] <= BlockEnd(s, g.inner)
         /\ to[2] < g.inner[2] + Room(g) =>
              /\ to[2] = s.inflated[to[1]]
              /\ to[1] = g.inner[1] + n \/ to[1] = BlockEnd(s, g.inner)
<1> DEFINE q == g.inner[1]
           o == g.inner[2]
           e == BlockEnd(s, g.inner)
           reach == Min({q + n, e})
           limit == o + Room(g)
<1>1. /\ q \in Nat /\ o \in Nat /\ g.inner = <<q, o>> /\ g.dict_pos \in Nat
      /\ q \in 0..s.deflated /\ o \in 0..s.inflated[q]
  <2>1. s.deflated \in Nat /\ s.inflated \in [0..s.deflated -> Nat]
    BY DEF GzipStream
  <2>2. g.inner \in Nat \X Nat /\ g.dict_pos \in Nat
    BY DEF Core, Fields
  <2>3. q <= s.deflated /\ o <= s.inflated[q]
    BY DEF Core
  <2> QED BY <2>1, <2>2, <2>3
<1>2. /\ s.deflated \in Nat /\ s.inflated \in [0..s.deflated -> Nat]
      /\ \A x, y \in 0..s.deflated : x <= y => s.inflated[x] <= s.inflated[y]
  BY DEF GzipStream
<1>3. Room(g) \in 1..WindowSize
  <2>1. g.dict_pos % WindowSize \in 0..(WindowSize - 1)
    BY <1>1
  <2> QED BY <2>1 DEF Room
<1> HIDE DEF q, o
<1>4. e \in q..s.deflated
  BY <1>1, BlockEndIs
<1> HIDE DEF e
<1>5. reach = IF q + n <= e THEN q + n ELSE e
  <2>1. q + n \in Int /\ e \in Int
    BY <1>1, <1>2, <1>4
  <2> QED BY <2>1, MinMaxIs
<1>6. reach \in q..s.deflated /\ reach <= q + n /\ reach <= e /\ (reach = q + n \/ reach = e)
  BY <1>1, <1>2, <1>4, <1>5
<1> HIDE DEF reach
<1>7. s.inflated[reach] \in Nat /\ s.inflated[reach] >= o /\ limit \in Nat /\ limit > o
  <2>1. reach \in 0..s.deflated /\ q \in 0..s.deflated /\ q <= reach
    BY <1>1, <1>2, <1>6
  <2>2. s.inflated[reach] \in Nat /\ s.inflated[q] \in Nat /\ s.inflated[q] <= s.inflated[reach]
    BY <1>2, <2>1
  <2>3. limit \in Nat /\ limit > o
    BY <1>1, <1>3
  <2> QED BY <1>1, <2>2, <2>3
<1>8. Reached(s, g, n) =
        IF s.inflated[reach] <= limit THEN {<<reach, s.inflated[reach]>>}
        ELSE {<<p, limit>> : p \in {x \in q..reach : s.inflated[x] >= limit}}
  BY DEF Reached, q, o, e, reach
<1> HIDE DEF limit
<1>9. CASE s.inflated[reach] <= limit
  <2>1. to = <<reach, s.inflated[reach]>>
    BY <1>8, <1>9
  <2> QED BY <1>1, <1>6, <1>7, <1>9, <2>1 DEF q, o, e, limit
<1>10. CASE ~ (s.inflated[reach] <= limit)
  <2>1. PICK p \in q..reach : to = <<p, limit>> /\ s.inflated[p] >= limit
    BY <1>8, <1>10
  <2>2. p \in q..s.deflated /\ p <= q + n /\ p <= e
    <3>1. q \in Int /\ reach \in Int /\ e \in Int /\ s.deflated \in Int /\ q + n \in Int
      BY <1>1, <1>2, <1>4, <1>6
    <3>2. p \in Int /\ q <= p /\ p <= reach
      BY <2>1, <3>1
    <3>3. reach <= q + n /\ reach <= e /\ reach <= s.deflated
      BY <1>6, <3>1
    <3> QED BY <3>1, <3>2, <3>3
  <2> QED BY <1>1, <1>2, <1>7, <2>1, <2>2 DEF q, o, e, limit
<1> QED
  BY <1>9, <1>10

-----------------------------------------------------------------------------
(***************************************************************************)
(* One call of inflate.                                                    *)
(***************************************************************************)

\* do_inflate() leaves a decoder's fields of their types.
LEMMA InflatedFields ==
  ASSUME NEW g \in Fields, NEW to \in Nat \X Nat, NEW buf \in [0..(WindowSize - 1) -> Int],
         NEW pos \in Nat, NEW out \in Nat, NEW in \in Nat
  PROVE  [g EXCEPT !.inner = to, !.dict_buf = buf, !.dict_pos = pos, !.total_out = out,
                   !.deflate_in = in] \in Fields
  BY DEF Fields

\* The fields do_inflate() leaves, where inflate got to `to'.
InflatedTo(s, g, to, h) ==
  /\ h \in Fields
  /\ h.inner = to
  /\ RingHolds(h.dict_buf, h.dict_pos, to[2])
  /\ h.total_out = to[2] /\ h.deflate_in <= to[1]
  /\ h.header_size = s.header
  /\ h.last_boundary # NoBoundary =>
       BoundaryRight(s, h.last_boundary) /\ h.last_boundary.inner[1] <= to[1]
  /\ h.finished = FALSE /\ h.header_state = "Decompressing"
  /\ h.replay = g.replay

\* do_inflate(), where what it makes is the next of the output.
LEMMA DoInflateIs ==
  ASSUME Sizes, NEW s, GzipStream(s), NEW g, Core(s, g), g.header_state = "Decompressing",
         NEW to \in Nat \X Nat, to[1] \in g.inner[1]..s.deflated,
         to[2] \in g.inner[2]..s.inflated[to[1]], to[2] <= g.inner[2] + Room(g),
         NEW status,
         status = "BlockBoundary" => to[1] \in s.blocks /\ to[2] = s.inflated[to[1]],
         NEW h, h = DoInflate(g, to, Span(g.inner[2], to[2] - g.inner[2]), status)
  PROVE  InflatedTo(s, g, to, h)
<1> DEFINE made  == to[2] - g.inner[2]
           bytes == Span(g.inner[2], made)
           buf   == [i \in DOMAIN g.dict_buf |->
                       IF \E k \in 0..(made - 1) : i = (g.dict_pos + k) % WindowSize
                       THEN bytes[1 + ((i - g.dict_pos) % WindowSize)] ELSE g.dict_buf[i]]
           h1    == [g EXCEPT !.inner = to, !.dict_buf = buf, !.dict_pos = @ + made,
                              !.total_out = @ + made,
                              !.deflate_in = @ + (to[1] - g.inner[1])]
           b     == [packed |-> h1.header_size + h1.deflate_in, unpacked |-> h1.total_out,
                     window |-> Window(h1), inner |-> to]
<1>1. /\ g \in Fields /\ g.total_out = g.inner[2] /\ g.deflate_in <= g.inner[1]
      /\ g.header_size = s.header /\ RingHolds(g.dict_buf, g.dict_pos, g.inner[2])
      /\ g.last_boundary # NoBoundary =>
           BoundaryRight(s, g.last_boundary) /\ g.last_boundary.inner[1] <= g.inner[1]
      /\ g.finished <=> g.header_state = "Finished"
  BY DEF Core
<1>2. /\ g.inner[1] \in Nat /\ g.inner[2] \in Nat /\ g.dict_pos \in Nat /\ g.total_out \in Nat
      /\ g.deflate_in \in Nat /\ g.dict_buf \in [0..(WindowSize - 1) -> Int]
      /\ g.finished \in BOOLEAN
      /\ WindowSize \in Nat \ {0}
      /\ s.header \in Nat /\ s.deflated \in Nat
  <2>1. g.inner \in Nat \X Nat
    BY <1>1 DEF Fields
  <2> QED BY <1>1, <2>1 DEF Fields, Sizes, GzipStream
<1>13. PICK w \in 0..(WindowSize - 1) : w = g.dict_pos % WindowSize
  <2>1. g.dict_pos \in Int
    BY <1>2
  <2>2. g.dict_pos % WindowSize \in 0..(WindowSize - 1)
    BY <1>2, <2>1, PlaceMoves
  <2> QED BY <2>2, Zenon
<1>14. Room(g) = WindowSize - w /\ Room(g) \in Int
  BY <1>2, <1>13 DEF Room
<1>3. /\ to[1] \in Nat /\ to[2] \in Nat /\ made \in Nat /\ made <= Room(g)
      /\ g.inner[2] + made = to[2] /\ to[1] - g.inner[1] \in Nat
      /\ g.inner[1] <= to[1] /\ to[1] <= s.deflated
  <2>1. to[1] \in Nat /\ to[2] \in Nat
    OBVIOUS
  <2>2. g.inner[1] <= to[1] /\ to[1] <= s.deflated /\ g.inner[2] <= to[2]
    <3>1. g.inner[1] <= to[1] /\ to[1] <= s.deflated
      BY <1>2, <2>1
    <3>2. to[1] \in 0..s.deflated
      BY <1>2, <2>1, <3>1
    <3>3. s.inflated[to[1]] \in Nat
      BY <3>2 DEF GzipStream
    <3>4. g.inner[2] <= to[2]
      BY <1>2, <2>1, <3>3
    <3> QED BY <3>1, <3>4
  <2>3. PICK o \in Nat : o = g.inner[2]
    BY <1>2, Zenon
  <2>4. PICK q \in Nat : q = g.inner[1]
    BY <1>2, Zenon
  <2>5. made \in Nat /\ made <= Room(g) /\ o + made = to[2]
    BY <1>14, <2>1, <2>2, <2>3
  <2>6. to[1] - q \in Nat /\ q <= to[1] /\ to[1] <= s.deflated
    BY <2>1, <2>2, <2>4
  <2> HIDE DEF bytes, buf, h1, b, made
  <2> QED BY <2>1, <2>3, <2>4, <2>5, <2>6
<1>4. Len(bytes) = made /\ bytes = Span(g.inner[2], made)
  <2>1. g.inner[2] \in Int /\ made \in Nat
    BY <1>2, <1>3
  <2> HIDE DEF made
  <2> QED BY <2>1, SpanIs
<1>5. made \in 0..(WindowSize - (g.dict_pos % WindowSize))
  <2>1. made \in 0..(WindowSize - w)
    <3> HIDE DEF made
    <3> QED BY <1>2, <1>3, <1>14
  <2> HIDE DEF made
  <2> QED BY <1>13, <2>1
<1>6. buf \in [0..(WindowSize - 1) -> Int] /\ RingHolds(buf, g.dict_pos + made, to[2])
  <2>1. buf = Filled(g.dict_buf, g.dict_pos, g.inner[2], made)
    BY DEF Filled
  <2> HIDE DEF buf, made, bytes, h1, b
  <2>2. /\ buf \in [0..(WindowSize - 1) -> Int]
        /\ RingHolds(buf, g.dict_pos + made, g.inner[2] + made)
    <3>1. WindowSize \in Nat \ {0} /\ g.dict_buf \in [0..(WindowSize - 1) -> Int]
      BY <1>2
    <3> QED BY <1>1, <1>2, <1>5, <2>1, <3>1, RingFilled
  <2>3. g.inner[2] + made = to[2]
    BY <1>3
  <2> QED BY <2>2, <2>3
<1>7. h = IF status # "BlockBoundary" THEN h1 ELSE [h1 EXCEPT !.last_boundary = b]
  BY <1>4 DEF DoInflate
<1> HIDE DEF buf, made, bytes
<1>8. /\ h1 \in Fields
      /\ h1.inner = to /\ h1.dict_buf = buf /\ h1.dict_pos = g.dict_pos + made
      /\ h1.total_out = g.total_out + made
      /\ h1.deflate_in = g.deflate_in + (to[1] - g.inner[1])
      /\ h1.header_size = g.header_size /\ h1.last_boundary = g.last_boundary
      /\ h1.finished = g.finished /\ h1.header_state = g.header_state
      /\ h1.replay = g.replay /\ h1.stage = g.stage
  <2>1. g \in Fields
    BY <1>1
  <2>2. /\ g.dict_pos + made \in Nat /\ g.total_out + made \in Nat
        /\ g.deflate_in + (to[1] - g.inner[1]) \in Nat
    <3>1. /\ g.dict_pos \in Nat /\ g.total_out \in Nat /\ g.deflate_in \in Nat
          /\ made \in Nat /\ to[1] - g.inner[1] \in Nat
      BY <1>2, <1>3
    <3> QED BY <3>1
  <2>3. /\ h1.inner = to /\ h1.dict_buf = buf /\ h1.dict_pos = g.dict_pos + made
        /\ h1.total_out = g.total_out + made
        /\ h1.deflate_in = g.deflate_in + (to[1] - g.inner[1])
        /\ h1.header_size = g.header_size /\ h1.last_boundary = g.last_boundary
        /\ h1.finished = g.finished /\ h1.header_state = g.header_state
        /\ h1.replay = g.replay /\ h1.stage = g.stage
        /\ h1.header_len = g.header_len /\ h1.trailer = g.trailer
    BY <2>1 DEF Fields
  <2>4. h1 \in Fields
    <3>1. PICK pos \in Nat : pos = g.dict_pos + made
      BY <2>2, Zenon
    <3>2. PICK out \in Nat : out = g.total_out + made
      BY <2>2, Zenon
    <3>3. PICK in \in Nat : in = g.deflate_in + (to[1] - g.inner[1])
      BY <2>2, Zenon
    <3>4. h1 = [g EXCEPT !.inner = to, !.dict_buf = buf, !.dict_pos = pos, !.total_out = out,
                         !.deflate_in = in]
      BY <3>1, <3>2, <3>3
    <3> HIDE DEF h1
    <3> QED BY <1>6, <2>1, <3>4, InflatedFields
  <2> QED BY <2>3, <2>4
<1> HIDE DEF h1
<1>11. /\ h1.total_out = to[2] /\ h1.deflate_in \in Nat /\ h1.deflate_in <= to[1]
  <2>1. PICK o \in Nat : o = g.inner[2]
    BY <1>2, Zenon
  <2>2. PICK q \in Nat : q = g.inner[1]
    BY <1>2, Zenon
  <2>3. h1.total_out = o + made /\ o + made = to[2]
    BY <1>1, <1>3, <1>8, <2>1
  <2>4. h1.deflate_in = g.deflate_in + (to[1] - q) /\ g.deflate_in \in Nat /\ g.deflate_in <= q
    BY <1>1, <1>2, <1>8, <2>2
  <2>5. to[1] \in Nat /\ q <= to[1]
    BY <1>3, <2>2
  <2> QED BY <2>2, <2>3, <2>4, <2>5
<1>12. g.last_boundary # NoBoundary =>
         BoundaryRight(s, g.last_boundary) /\ g.last_boundary.inner[1] <= to[1]
  <2>1. SUFFICES ASSUME g.last_boundary # NoBoundary
                 PROVE  BoundaryRight(s, g.last_boundary) /\ g.last_boundary.inner[1] <= to[1]
    OBVIOUS
  <2>2. BoundaryRight(s, g.last_boundary) /\ g.last_boundary.inner[1] <= g.inner[1]
    BY <1>1, <2>1
  <2>3. g.last_boundary.inner[1] \in Nat
    BY <2>2 DEF BoundaryRight, Boundaries
  <2>4. PICK x \in Nat : x = g.last_boundary.inner[1]
    BY <2>3, Zenon
  <2>5. PICK q \in Nat : q = g.inner[1]
    BY <1>2, Zenon
  <2>6. x <= q /\ q <= to[1] /\ to[1] \in Nat
    BY <1>3, <2>2, <2>4, <2>5
  <2>7. x <= to[1]
    BY <2>6
  <2> QED BY <2>2, <2>4, <2>7
<1>9. CASE status # "BlockBoundary"
  <2>1. h = h1
    BY <1>7, <1>9
  <2>2. h1.finished = FALSE /\ h1.header_state = "Decompressing"
    BY <1>1, <1>2, <1>8
  <2> QED BY <1>1, <1>6, <1>8, <1>11, <1>12, <2>1, <2>2, Zenon DEF InflatedTo
<1>10. CASE status = "BlockBoundary"
  <2>1. Window(h1) = History(to[2])
    <3>1. RingHolds(h1.dict_buf, h1.dict_pos, to[2])
      BY <1>6, <1>8
    <3> QED BY <1>2, <1>3, <1>8, <3>1, WindowIs
  <2>2. BoundaryRight(s, b) /\ b.inner[1] <= to[1] /\ b \in Boundaries
    <3>1. History(to[2]) \in Seq(Int)
      BY <1>2, <1>3, HistoryIs
    <3>2. b = [packed |-> s.header + h1.deflate_in, unpacked |-> to[2],
               window |-> History(to[2]), inner |-> to]
      BY <1>1, <1>8, <1>11, <2>1
    <3> HIDE DEF b
    <3>3. /\ b.packed = s.header + h1.deflate_in /\ b.unpacked = to[2]
          /\ b.window = History(to[2]) /\ b.inner = to
      BY <3>2
    <3>4. s.header + h1.deflate_in \in Nat /\ s.header + h1.deflate_in <= s.header + to[1]
      <4>1. s.header \in Nat /\ to[1] \in Nat /\ h1.deflate_in \in Nat /\ h1.deflate_in <= to[1]
        BY <1>2, <1>3, <1>11
      <4> QED BY <4>1
    <3>5. b \in Boundaries
      BY <1>3, <3>1, <3>2, <3>4 DEF Boundaries
    <3>6. to[1] \in s.blocks /\ to[2] = s.inflated[to[1]]
      BY <1>10
    <3>7. to[1] <= to[1]
      BY <1>3
    <3> QED BY <3>3, <3>4, <3>5, <3>6, <3>7 DEF BoundaryRight
  <2> HIDE DEF b
  <2>3. h = [h1 EXCEPT !.last_boundary = b]
    BY <1>7, <1>10
  <2>4. /\ h \in Fields /\ h.inner = h1.inner /\ h.dict_buf = h1.dict_buf
        /\ h.dict_pos = h1.dict_pos /\ h.total_out = h1.total_out
        /\ h.deflate_in = h1.deflate_in /\ h.header_size = h1.header_size
        /\ h.last_boundary = b
        /\ h.finished = h1.finished /\ h.header_state = h1.header_state
        /\ h.replay = h1.replay /\ h.stage = h1.stage
    BY <1>8, <2>2, <2>3 DEF Fields
  <2>5. h1.finished = FALSE /\ h1.header_state = "Decompressing"
    BY <1>1, <1>2, <1>8
  <2> QED BY <1>1, <1>6, <1>8, <1>11, <2>2, <2>4, <2>5, Zenon DEF InflatedTo
<1> QED
  BY <1>9, <1>10

\* What inflate may say of a call given the byte it wants.
LEMMA StatusIs ==
  ASSUME NEW s, NEW g, NEW at, NEW n \in Nat, n > 0 => at = g.inner[1], NEW more \in BOOLEAN,
         NEW to, NEW status, status = InflateStatus(s, g, at, n, more, to)
  PROVE  /\ status \in {"Done", "BlockBoundary", "CannotMakeProgress", "More"}
         /\ status = "Done" <=> to = AllInflated(s)
         /\ status = "BlockBoundary" =>
              to[1] \in s.blocks /\ to[2] = s.inflated[to[1]] /\ to[1] = BlockEnd(s, g.inner)
         /\ status = "CannotMakeProgress" => n = 0 /\ to[2] < g.inner[2] + Room(g)
         /\ status = "More" => ~ (n = 0 /\ ~ more /\ to[2] < g.inner[2] + Room(g))
<1>1. status = IF to = AllInflated(s) THEN "Done"
               ELSE IF to[1] \in s.blocks /\ to[2] = s.inflated[to[1]]
                       /\ to[1] = BlockEnd(s, g.inner)
               THEN "BlockBoundary"
               ELSE IF n = 0 /\ ~ more /\ to[2] < g.inner[2] + Room(g)
               THEN "CannotMakeProgress" ELSE "More"
  BY DEF InflateStatus, AllInflated
<1> QED
  BY <1>1

\* A call of inflate that takes nothing in and makes nothing has nothing to go on with.
LEMMA InflateMoves ==
  ASSUME Sizes, NEW s, GzipStream(s), NEW g, Core(s, g), g.header_state = "Decompressing",
         NEW at, NEW n \in Nat, n > 0 => at = g.inner[1],
         NEW more \in BOOLEAN, n = 0 => ~ more,
         NEW to \in Reached(s, g, n),
         NEW status, status = InflateStatus(s, g, at, n, more, to)
  PROVE  /\ status = "CannotMakeProgress" => to[1] = g.inner[1] /\ g.inner[1] < s.deflated
         /\ status # "CannotMakeProgress" => to # g.inner
<1> DEFINE q == g.inner[1]
           o == g.inner[2]
<1>1. /\ WindowSize \in Nat \ {0} /\ g.inner # AllInflated(s) /\ g \in Fields
      /\ q <= s.deflated /\ o <= s.inflated[q]
  BY DEF Core, Sizes
<1>2. g.inner \in Nat \X Nat /\ g.dict_pos \in Nat /\ g.inner = <<q, o>>
  BY <1>1 DEF Fields
<1>3. q \in 0..s.deflated /\ s.inflated[q] \in Nat /\ o \in 0..s.inflated[q] /\ s.deflated \in Nat
  BY <1>1, <1>2 DEF GzipStream
<1>4. Room(g) \in Nat \ {0}
  <2>1. g.dict_pos \in Int
    BY <1>2
  <2>2. PICK w \in 0..(WindowSize - 1) : w = g.dict_pos % WindowSize
    <3>1. g.dict_pos % WindowSize \in 0..(WindowSize - 1)
      BY <1>1, <2>1, PlaceMoves
    <3> QED BY <3>1, Zenon
  <2>3. Room(g) = WindowSize - w
    BY <2>2 DEF Room
  <2> QED BY <1>1, <2>3
<1>5. /\ to \in Nat \X Nat
      /\ to[1] \in q..s.deflated /\ to[1] <= q + n
      /\ to[2] \in o..s.inflated[to[1]]
      /\ to[2] < o + Room(g) =>
           /\ to[2] = s.inflated[to[1]]
           /\ to[1] = q + n \/ to[1] = BlockEnd(s, g.inner)
  BY <1>1, ReachedIs
<1>6. BlockEnd(s, g.inner) = q => o < s.inflated[q]
  <2>1. <<q, o>> # AllInflated(s)
    BY <1>1, <1>2
  <2>2. BlockEnd(s, <<q, o>>) = q => o < s.inflated[q]
    BY <1>3, <2>1, BlockEndIs
  <2> QED BY <1>2, <2>2
<1>7. /\ status \in {"Done", "BlockBoundary", "CannotMakeProgress", "More"}
      /\ status = "Done" <=> to = AllInflated(s)
      /\ status = "BlockBoundary" =>
           to[2] = s.inflated[to[1]] /\ to[1] = BlockEnd(s, g.inner)
      /\ status = "CannotMakeProgress" => n = 0 /\ to[2] < o + Room(g)
      /\ status = "More" => ~ (n = 0 /\ ~ more /\ to[2] < o + Room(g))
  BY StatusIs
<1>8. ASSUME status = "CannotMakeProgress" PROVE to[1] = q /\ q < s.deflated
  <2>1. n = 0 /\ to[2] < o + Room(g) /\ to # AllInflated(s)
    BY <1>7, <1>8
  <2>2. to[1] = q
    BY <1>3, <1>5, <2>1
  <2>3. q # s.deflated
    <3>1. to = <<to[1], to[2]>>
      BY <1>5
    <3> QED BY <1>5, <2>1, <2>2, <3>1 DEF AllInflated
  <2> QED BY <1>3, <2>2, <2>3
<1>9. ASSUME status # "CannotMakeProgress", to = g.inner PROVE FALSE
  <2>1. to[1] = q /\ to[2] = o
    BY <1>9
  <2>2. o < o + Room(g)
    BY <1>3, <1>4
  <2>3. o = s.inflated[q] /\ (q = q + n \/ q = BlockEnd(s, g.inner))
    BY <1>5, <2>1, <2>2
  <2>4. n = 0
    BY <1>3, <1>6, <2>3
  <2>5. status \notin {"Done", "BlockBoundary", "More"}
    <3>1. status # "Done"
      BY <1>1, <1>7, <1>9
    <3>2. status # "BlockBoundary"
      BY <1>6, <1>7, <2>1, <2>3, <1>3
    <3>3. status # "More"
      BY <1>7, <2>1, <2>2, <2>4
    <3> QED BY <3>1, <3>2, <3>3
  <2> QED BY <1>7, <1>9, <2>5
<1> QED
  BY <1>8, <1>9

-----------------------------------------------------------------------------
(***************************************************************************)
(* What inflating does, whether of the caller's bytes or of held ones.     *)
(***************************************************************************)

\* Having inflated `c' more bytes of the deflate data, it gives out the next of what it has
\* made as far as the room goes, and stages the rest; whatever it does, it has moved.
Moved(s, g, c, room, a) ==
  /\ Core(s, a.self) /\ a.self.inner[1] = g.inner[1] + c
  /\ Len(a.self.stage) <= WindowSize
  /\ \E k \in 0..room : /\ a.bytes = Span(g.inner[2], k) /\ Staged(a.self, g.inner[2] + k)
                        /\ k = 0 => c > 0 /\ a.self.stage = <<>>
  /\ \/ a.self.header_state = "Decompressing" /\ a.status = "Continue"
     \/ /\ a.self.header_state = "Trailer" /\ s.magic /\ a.self.trailer = TrailerSize
        /\ a.status = "Continue"
     \/ /\ a.self.header_state = "Finished" /\ ~ s.magic
        /\ a.status = IF a.self.stage = <<>> THEN "StreamEnd" ELSE "Continue"

\* inflate_to_output() with the `n' bytes it wants next, or with none at the end of the file.
Inflates(s, g, n, room, a) ==
  \/ /\ a.status = "TruncatedInput" /\ n = 0 /\ a.consumed = 0 /\ a.bytes = <<>>
     /\ g.inner[1] < s.deflated
     /\ a.self.stage \in Seq(Int) /\ Len(a.self.stage) <= WindowSize
     /\ a.self.replay = g.replay
  \/ /\ a.consumed \in 0..n /\ a.self.replay = g.replay
     /\ Moved(s, g, a.consumed, room, a)

\* What is made of the bytes to `to': what was to come next.
LEMMA InflatedIs ==
  ASSUME Sizes, NEW s, NEW g, Core(s, g), NEW to
  PROVE  Inflated(g, to) = Span(g.inner[2], to[2] - g.inner[2])
<1>1. /\ WindowSize \in Nat \ {0} /\ g \in Fields
      /\ RingHolds(g.dict_buf, g.dict_pos, g.inner[2])
  BY DEF Core, Sizes
<1>2. g.inner[2] \in Nat
  BY <1>1 DEF Fields
<1>3. Window(g) = History(g.inner[2])
  BY <1>1, <1>2, WindowIs
<1> QED
  BY <1>3 DEF Inflated, History

\* The fields inflate_to_output() leaves as inflate left them.
SameInflated(g, h) ==
  /\ g \in Fields /\ g.inner = h.inner /\ g.dict_buf = h.dict_buf
  /\ g.dict_pos = h.dict_pos /\ g.total_out = h.total_out
  /\ g.deflate_in = h.deflate_in /\ g.header_size = h.header_size
  /\ g.last_boundary = h.last_boundary /\ g.replay = h.replay

\* inflate_to_output(): what it changes.
LEMMA StagedIs ==
  ASSUME NEW h \in Fields, NEW q \in Seq(Int), NEW g, g = [h EXCEPT !.stage = q]
  PROVE  /\ SameInflated(g, h) /\ g.stage = q
         /\ g.header_state = h.header_state /\ g.finished = h.finished
  BY DEF Fields, SameInflated

\* ... and where a trailer is to come.
LEMMA TrailerToCome ==
  ASSUME NEW h \in Fields, TrailerSize \in Nat,
         NEW g, g = [h EXCEPT !.header_state = "Trailer", !.trailer = TrailerSize]
  PROVE  /\ SameInflated(g, h) /\ g.stage = h.stage /\ g.trailer = TrailerSize
         /\ g.header_state = "Trailer" /\ g.finished = h.finished
  BY DEF Fields, SameInflated

\* ... and at the end.
LEMMA EndReached ==
  ASSUME NEW h \in Fields,
         NEW g, g = [h EXCEPT !.finished = TRUE, !.header_state = "Finished"]
  PROVE  /\ SameInflated(g, h) /\ g.stage = h.stage
         /\ g.header_state = "Finished" /\ g.finished = TRUE
  BY DEF Fields, SameInflated

\* inflate_to_output(), given the byte it wants next: it moves, or the file is cut short.
LEMMA InflateIs ==
  ASSUME Sizes, NEW s, GzipStream(s), NEW g, Core(s, g), g.header_state = "Decompressing",
         NEW at, NEW n \in Nat, n > 0 => at = g.inner[1],
         NEW more \in BOOLEAN, n = 0 => ~ more, NEW room \in Nat \ {0},
         NEW a \in InflateToOutput(s, g, at, n, more, room)
  PROVE  Inflates(s, g, n, room, a)
<1> DEFINE q == g.inner[1]
           o == g.inner[2]
<1>1. PICK to \in Reached(s, g, n) :
        a = InflateAnswer(s, g, to, room, InflateStatus(s, g, at, n, more, to))
  BY DEF InflateToOutput
<1>2. PICK status : status = InflateStatus(s, g, at, n, more, to)
  OBVIOUS
<1>3. /\ to \in Nat \X Nat
      /\ to[1] \in q..s.deflated /\ to[1] <= q + n
      /\ to[2] \in o..s.inflated[to[1]] /\ to[2] <= o + Room(g)
  BY ReachedIs DEF Core, Sizes
<1>4. /\ status \in {"Done", "BlockBoundary", "CannotMakeProgress", "More"}
      /\ status = "Done" <=> to = AllInflated(s)
      /\ status = "BlockBoundary" => to[1] \in s.blocks /\ to[2] = s.inflated[to[1]]
      /\ status = "CannotMakeProgress" => n = 0
  BY <1>2, StatusIs
<1>5. /\ status = "CannotMakeProgress" => to[1] = q /\ q < s.deflated
      /\ status # "CannotMakeProgress" => to # g.inner
  BY <1>2, InflateMoves
<1>6. PICK made \in Nat : made = to[2] - o
  <2>1. o \in Nat /\ to[2] \in Nat /\ to[2] >= o
    BY <1>3 DEF Core, Fields
  <2>2. to[2] - o \in Nat
    BY <2>1
  <2> QED BY <2>2
<1>7. Inflated(g, to) = Span(o, made)
  BY <1>6, InflatedIs
<1>8. PICK h : h = DoInflate(g, to, Span(o, to[2] - o), status)
  OBVIOUS
<1>9. InflatedTo(s, g, to, h)
  <2>1. /\ to \in Nat \X Nat /\ to[1] \in g.inner[1]..s.deflated
        /\ to[2] \in g.inner[2]..s.inflated[to[1]] /\ to[2] <= g.inner[2] + Room(g)
        /\ status = "BlockBoundary" => to[1] \in s.blocks /\ to[2] = s.inflated[to[1]]
        /\ h = DoInflate(g, to, Span(g.inner[2], to[2] - g.inner[2]), status)
    BY <1>3, <1>4, <1>8
  <2> HIDE DEF q, o
  <2> QED BY <2>1, DoInflateIs
<1>10. /\ q \in Nat /\ o \in Nat /\ to[1] \in Nat /\ to[2] \in Nat
       /\ o + made = to[2] /\ WindowSize \in Nat /\ made <= WindowSize
       /\ to[1] - q \in 0..n /\ q + (to[1] - q) = to[1] /\ to[1] <= s.deflated
       /\ to[2] <= s.inflated[to[1]]
  <2>1. g.inner \in Nat \X Nat /\ g.dict_pos \in Nat
    BY DEF Core, Fields
  <2>2. s.deflated \in Nat /\ s.inflated \in [0..s.deflated -> Nat]
    BY DEF GzipStream
  <2>3. q \in Nat /\ o \in Nat /\ to[1] \in Nat /\ to[2] \in Nat
    BY <1>3, <2>1
  <2>4. to[1] \in 0..s.deflated /\ q <= to[1]
    BY <1>3, <2>2, <2>3
  <2>5. s.inflated[to[1]] \in Nat
    BY <2>2, <2>4
  <2>6. WindowSize \in Nat \ {0} /\ g.dict_pos \in Int
    BY <2>1 DEF Sizes
  <2>7. PICK w \in 0..(WindowSize - 1) : w = g.dict_pos % WindowSize
    <3>1. g.dict_pos % WindowSize \in 0..(WindowSize - 1)
      BY <2>6, PlaceMoves
    <3> QED BY <3>1, Zenon
  <2>8. Room(g) = WindowSize - w
    BY <2>7 DEF Room
  <2>9. made <= Room(g) /\ o + made = to[2] /\ to[2] <= s.inflated[to[1]]
    BY <1>3, <1>6, <2>3, <2>5, <2>6, <2>8
  <2>10. made <= WindowSize
    BY <2>6, <2>8, <2>9
  <2>11. to[1] - q \in 0..n /\ q + (to[1] - q) = to[1] /\ to[1] <= s.deflated
    BY <1>3, <2>3, <2>4
  <2> QED BY <2>3, <2>6, <2>9, <2>10, <2>11
<1>11. PICK k \in 0..room : k = Min({room, made})
  <2>1. Min({room, made}) = IF room <= made THEN room ELSE made
    BY MinMaxIs
  <2>2. Min({room, made}) \in 0..room
    BY <2>1
  <2> QED BY <2>2, Zenon
<1>12. /\ k <= made /\ made - k \in Nat
       /\ k = 0 => made = 0
       /\ Take(Span(o, made), k) = Span(o, k)
       /\ Drop(Span(o, made), room) = Span(o + k, made - k)
       /\ o + k \in Nat
  <2>1. k = IF room <= made THEN room ELSE made
    BY <1>11, MinMaxIs
  <2>2. k \in Nat /\ k <= made /\ o \in Int
    BY <1>10, <2>1
  <2>3. Take(Span(o, made), k) = Span(o, k)
    BY <2>2, SpanCut
  <2>6. room \in Nat /\ made \in Nat /\ k \in Nat
    OBVIOUS
  <2> HIDE DEF o
  <2>4. CASE room <= made
    <3>1. k = room /\ made - k \in Nat
      BY <2>1, <2>4, <2>6
    <3>2. Drop(Span(o, made), k) = Span(o + k, made - k)
      BY <2>2, <2>6, SpanCut
    <3> QED BY <1>10, <2>2, <2>3, <3>1, <3>2
  <2>5. CASE ~ (room <= made)
    <3>1. k = made /\ room >= made /\ made - k = 0
      BY <2>1, <2>5
    <3>2. Drop(Span(o, made), room) = <<>>
      BY <2>2, <2>6, <3>1, SpanCut
    <3>3. Span(o + k, 0) = <<>>
      <4>1. o + k \in Int /\ 0 \in Nat
        BY <2>2
      <4> QED BY <4>1, SpanIs
    <3> QED BY <1>10, <2>2, <2>3, <3>1, <3>2, <3>3
  <2> QED BY <2>4, <2>5
<1>13. PICK stage \in Seq(Int) : /\ stage = Span(o + k, made - k) /\ Len(stage) <= WindowSize
                                 /\ k = 0 => stage = <<>>
  <2>1. /\ Span(o + k, made - k) \in Seq(Int) /\ Len(Span(o + k, made - k)) = made - k
        /\ Span(o + k, made - k) = <<>> <=> made - k = 0
    <3>1. o + k \in Int /\ made - k \in Nat
      BY <1>12
    <3> HIDE DEF o
    <3> QED BY <3>1, SpanIs
  <2>2. made - k <= WindowSize
    BY <1>10, <1>12
  <2>3. k = 0 => made - k = 0
    BY <1>12
  <2> QED BY <2>1, <2>2, <2>3
<1>14. PICK out : out = Span(o, k)
  OBVIOUS
<1>15. EndsHere(s, g) <=> ~ s.magic
  <2>1. /\ s.magic \in BOOLEAN /\ s.raw \in BOOLEAN /\ (s.magic => ~ s.raw)
        /\ s.header \in Nat /\ (s.magic <=> s.header > 0) /\ g.header_size = s.header
    BY DEF GzipStream, Core
  <2> QED BY <2>1 DEF EndsHere
<1>25. PICK left : left = [h EXCEPT !.stage = stage]
  OBVIOUS
<1>16. a = CASE status = "Done" /\ ~ EndsHere(s, g) ->
                  Answer([left EXCEPT !.header_state = "Trailer", !.trailer = TrailerSize],
                         to[1] - q, out, "Continue")
             [] status = "Done" /\ EndsHere(s, g) ->
                  Answer([left EXCEPT !.finished = TRUE, !.header_state = "Finished"],
                         to[1] - q, out, IF left.stage = <<>> THEN "StreamEnd" ELSE "Continue")
             [] status \in {"BlockBoundary", "More"} ->
                  Answer(left, to[1] - q, out, "Continue")
             [] status = "CannotMakeProgress" -> Answer(left, 0, <<>>, "TruncatedInput")
             [] status = "Failed" -> Answer(g, 0, <<>>, "Failed")
  <2>1. h = DoInflate(g, to, Inflated(g, to), status)
    BY <1>6, <1>7, <1>8
  <2>2. stage = Drop(Inflated(g, to), room)
    BY <1>7, <1>12, <1>13
  <2>3. Len(Inflated(g, to)) = made
    <3>1. o \in Int
      BY <1>10
    <3> HIDE DEF o
    <3> QED BY <1>7, <3>1, SpanIs
  <2>4. out = Take(Inflated(g, to), Min({room, Len(Inflated(g, to))}))
    BY <1>7, <1>11, <1>12, <1>14, <2>3
  <2> QED BY <1>1, <1>2, <1>25, <2>1, <2>2, <2>4 DEF InflateAnswer
<1> DEFINE c == to[1] - q
\* What it gives out and stages, whatever the state it goes on in.
<1>17. ASSUME NEW self, self.inner = to, self.stage = stage
       PROVE  \E j \in 0..room : /\ out = Span(o, j) /\ Staged(self, o + j)
                                 /\ j = 0 /\ to # g.inner => c > 0 /\ self.stage = <<>>
  <2>1. k = 0 /\ to # g.inner => c > 0
    <3>1. SUFFICES ASSUME k = 0, to # g.inner, ~ (c > 0) PROVE FALSE
      OBVIOUS
    <3>2. to[2] = o /\ to[1] = q
      BY <1>10, <1>12, <3>1
    <3>3. to = <<to[1], to[2]>> /\ g.inner = <<q, o>>
      <4>1. g.inner \in Nat \X Nat
        BY DEF Core, Fields
      <4> QED BY <1>3, <4>1
    <3> QED BY <3>1, <3>2, <3>3
  <2>2. Staged(self, o + k)
    <3>1. to[2] - (o + k) = made - k /\ o + k <= to[2]
      BY SMTT(30), <1>10, <1>12
    <3>2. made - k <= WindowSize
      BY <1>10, <1>12
    <3> QED BY <1>13, <1>17, <3>1, <3>2 DEF Staged
  <2> QED BY <1>13, <1>14, <1>17, <2>1, <2>2
\* The fields, with the state it goes on in.
<1>18. ASSUME NEW self, SameInflated(self, h),
              self.finished <=> self.header_state = "Finished",
              self.header_state = "Decompressing" <=> status # "Done"
       PROVE  Core(s, self)
  <2>1. /\ self.inner[1] <= s.deflated /\ self.inner[2] <= s.inflated[self.inner[1]]
    BY <1>9, <1>10, <1>18 DEF SameInflated, InflatedTo
  <2>2. self.header_state = "Decompressing" <=> self.inner # AllInflated(s)
    BY <1>4, <1>9, <1>18 DEF SameInflated, InflatedTo
  <2> QED BY <1>9, <1>18, <2>1, <2>2 DEF Core, InflatedTo, SameInflated
<1> HIDE DEF c
<1>23. /\ h \in Fields /\ h.header_state = "Decompressing" /\ h.finished = FALSE
       /\ h.inner = to /\ h.replay = g.replay /\ h.trailer \in Nat
  BY <1>9 DEF InflatedTo, Fields
<1>24. c \in 0..n /\ q + c = to[1]
  BY <1>10 DEF c
<1>26. /\ SameInflated(left, h) /\ left.stage = stage
       /\ left.header_state = "Decompressing" /\ left.finished = FALSE
  BY <1>23, <1>25, StagedIs
<1>19. CASE status = "Done" /\ s.magic
  <2>1. PICK self : self = [left EXCEPT !.header_state = "Trailer", !.trailer = TrailerSize]
    OBVIOUS
  <2>2. a = Answer(self, c, out, "Continue")
    BY <1>15, <1>16, <1>19, <2>1 DEF c
  <2>3. TrailerSize \in Nat /\ FALSE \in BOOLEAN
    BY DEF Sizes
  <2>4. /\ SameInflated(self, h) /\ self.stage = stage /\ self.trailer = TrailerSize
        /\ self.header_state = "Trailer" /\ self.finished = FALSE
    <3>1. left \in Fields
      BY <1>26 DEF SameInflated
    <3>2. /\ SameInflated(self, left) /\ self.stage = left.stage /\ self.trailer = TrailerSize
          /\ self.header_state = "Trailer" /\ self.finished = left.finished
      BY <2>1, <2>3, <3>1, TrailerToCome
    <3>3. SameInflated(self, h)
      BY <1>26, <3>2 DEF SameInflated
    <3> QED BY <1>26, <3>2, <3>3
  <2>5. Core(s, self)
    BY <1>18, <1>19, <1>23, <2>4 DEF SameInflated
  <2>6. /\ a.self = self /\ a.consumed = c /\ a.bytes = out /\ a.status = "Continue"
    BY <2>2 DEF Answer
  <2>7. \E j \in 0..room : /\ out = Span(o, j) /\ Staged(self, o + j)
                           /\ j = 0 => c > 0 /\ self.stage = <<>>
    BY <1>5, <1>17, <1>19, <1>23, <2>4 DEF SameInflated
  <2>8. self.inner[1] = q + c
    BY <1>23, <1>24, <2>4 DEF SameInflated
  <2> QED BY <1>13, <1>19, <1>23, <1>24, <2>4, <2>5, <2>6, <2>7, <2>8
         DEF Inflates, Moved, SameInflated
<1>20. CASE status = "Done" /\ ~ s.magic
  <2>1. PICK self : self = [left EXCEPT !.finished = TRUE, !.header_state = "Finished"]
    OBVIOUS
  <2>2. left.stage = stage
    BY <1>26
  <2>3. a = Answer(self, c, out, IF stage = <<>> THEN "StreamEnd" ELSE "Continue")
    BY <1>15, <1>16, <1>20, <2>1, <2>2 DEF c
  <2>4. /\ SameInflated(self, h) /\ self.stage = stage
        /\ self.header_state = "Finished" /\ self.finished = TRUE
    <3>1. left \in Fields
      BY <1>26 DEF SameInflated
    <3>2. /\ SameInflated(self, left) /\ self.stage = left.stage
          /\ self.header_state = "Finished" /\ self.finished = TRUE
      BY <2>1, <3>1, EndReached
    <3>3. SameInflated(self, h)
      BY <1>26, <3>2 DEF SameInflated
    <3> QED BY <1>26, <3>2, <3>3
  <2>5. Core(s, self)
    BY <1>18, <1>20, <1>23, <2>4 DEF SameInflated
  <2>6. /\ a.self = self /\ a.consumed = c /\ a.bytes = out
        /\ a.status = IF self.stage = <<>> THEN "StreamEnd" ELSE "Continue"
    BY <2>3, <2>4 DEF Answer
  <2>7. \E j \in 0..room : /\ out = Span(o, j) /\ Staged(self, o + j)
                           /\ j = 0 => c > 0 /\ self.stage = <<>>
    BY <1>5, <1>17, <1>20, <1>23, <2>4 DEF SameInflated
  <2>8. self.inner[1] = q + c
    BY <1>23, <1>24, <2>4 DEF SameInflated
  <2> QED BY <1>13, <1>20, <1>23, <1>24, <2>4, <2>5, <2>6, <2>7, <2>8
         DEF Inflates, Moved, SameInflated
<1>21. CASE status \in {"BlockBoundary", "More"}
  <2>1. a = Answer(left, c, out, "Continue")
    BY <1>16, <1>21 DEF c
  <2>2. Core(s, left)
    BY <1>18, <1>21, <1>23, <1>26 DEF SameInflated
  <2>3. /\ a.self = left /\ a.consumed = c /\ a.bytes = out /\ a.status = "Continue"
    BY <2>1 DEF Answer
  <2>4. \E j \in 0..room : /\ out = Span(o, j) /\ Staged(left, o + j)
                           /\ j = 0 => c > 0 /\ left.stage = <<>>
    BY <1>5, <1>17, <1>21, <1>23, <1>26 DEF SameInflated
  <2>5. left.inner[1] = q + c
    BY <1>23, <1>24, <1>26 DEF SameInflated
  <2> QED BY <1>13, <1>23, <1>24, <1>26, <2>2, <2>3, <2>4, <2>5 DEF Inflates, Moved, SameInflated
<1>22. CASE status = "CannotMakeProgress"
  <2>1. a = Answer(left, 0, <<>>, "TruncatedInput")
    BY <1>16, <1>22
  <2>2. n = 0 /\ q < s.deflated
    BY <1>4, <1>5, <1>22
  <2> QED BY <1>13, <1>23, <1>26, <2>1, <2>2 DEF Inflates, Answer, SameInflated
<1> QED
  BY <1>4, <1>19, <1>20, <1>21, <1>22

\* An answer of inflate_to_output() is one.
LEMMA AnswerShape ==
  ASSUME NEW s, NEW g, NEW at, NEW n, NEW more, NEW room,
         NEW a \in InflateToOutput(s, g, at, n, more, room)
  PROVE  a = Answer(a.self, a.consumed, a.bytes, a.status)
<1>1. PICK to \in Reached(s, g, n) :
        a = InflateAnswer(s, g, to, room, InflateStatus(s, g, at, n, more, to))
  BY DEF InflateToOutput
<1>2. PICK status : status = InflateStatus(s, g, at, n, more, to)
  OBVIOUS
<1>3. status \in {"Done", "BlockBoundary", "CannotMakeProgress", "More", "Failed"}
  BY <1>2 DEF InflateStatus
<1>4. \E self, consumed, bytes, st : a = Answer(self, consumed, bytes, st)
  <2>1. CASE status = "Done"
    BY <1>1, <1>2, <2>1 DEF InflateAnswer
  <2>2. CASE status \in {"BlockBoundary", "More"}
    BY <1>1, <1>2, <2>2 DEF InflateAnswer
  <2>3. CASE status = "CannotMakeProgress"
    BY <1>1, <1>2, <2>3 DEF InflateAnswer
  <2>4. CASE status = "Failed"
    BY <1>1, <1>2, <2>4 DEF InflateAnswer
  <2> QED BY <1>3, <2>1, <2>2, <2>3, <2>4
<1> QED
  BY <1>4 DEF Answer

\* What is inflated does not depend on what is held of the file.
LEMMA HoldingChanges ==
  ASSUME NEW s, NEW g, Core(s, g), NEW r \in [at : Int, bytes : Seq(Int)],
         NEW h, h = [g EXCEPT !.replay = r]
  PROVE  /\ Core(s, h) /\ h.replay = r
         /\ h.inner = g.inner /\ h.stage = g.stage /\ h.trailer = g.trailer
         /\ h.header_state = g.header_state
<1>1. g \in Fields
  BY DEF Core
<1>2. h \in Fields
  BY <1>1 DEF Fields
<1>3. /\ h.replay = r
      /\ h.inner = g.inner /\ h.stage = g.stage /\ h.trailer = g.trailer
      /\ h.header_state = g.header_state
      /\ h.dict_buf = g.dict_buf /\ h.dict_pos = g.dict_pos /\ h.total_out = g.total_out
      /\ h.deflate_in = g.deflate_in /\ h.header_size = g.header_size
      /\ h.last_boundary = g.last_boundary /\ h.finished = g.finished
  BY <1>1 DEF Fields
<1> QED
  BY <1>2, <1>3 DEF Core

\* inflate_replay() with `n' bytes held: some are inflated and the rest are held still.
Replays(s, g, n, consumed, room, a) ==
  /\ a.consumed = consumed
  /\ \E c \in 0..n : /\ Moved(s, g, c, room, a)
                     /\ a.self.replay = [at |-> g.inner[1] + c,
                                         bytes |-> Span(g.inner[1] + c, n - c)]

\* What inflating the held bytes answers.
LEMMA ReplayIs ==
  ASSUME Sizes, NEW s, GzipStream(s), NEW g, Core(s, g), g.header_state = "Decompressing",
         NEW n \in Nat \ {0},
         g.replay = [at |-> g.inner[1], bytes |-> Span(g.inner[1], n)],
         NEW consumed, NEW more \in BOOLEAN, NEW room \in Nat \ {0},
         NEW a \in InflateReplay(s, g, consumed, more, room)
  PROVE  Replays(s, g, n, consumed, room, a)
<1> DEFINE q == g.inner[1]
<1>1. q \in Nat
  BY DEF Core, Fields
<1>2. g.replay.at = q /\ g.replay.bytes = Span(q, n) /\ Len(g.replay.bytes) = n
  <2>1. q \in Int
    BY <1>1
  <2>2. Len(Span(q, n)) = n
    <3> HIDE DEF q
    <3> QED BY <2>1, SpanIs
  <2> QED BY <2>2
<1>3. PICK g0 : g0 = [g EXCEPT !.replay = NoBytes]
  OBVIOUS
<1>4. /\ Core(s, g0) /\ g0.inner = g.inner /\ g0.header_state = "Decompressing"
  <2>1. NoBytes \in [at : Int, bytes : Seq(Int)]
    BY DEF NoBytes
  <2> QED BY <1>3, <2>1, HoldingChanges
<1>5. PICK b \in InflateToOutput(s, g0, q, n, more, room) :
        a = [b EXCEPT !.consumed = consumed,
                      !.self.replay = [at |-> q + b.consumed,
                                       bytes |-> Drop(Span(q, n), b.consumed)]]
  BY <1>2, <1>3 DEF InflateReplay
<1>6. Inflates(s, g0, n, room, b)
  <2>1. n \in Nat /\ (n > 0 => q = g0.inner[1]) /\ (n = 0 => ~ more)
    BY <1>4
  <2> HIDE DEF q
  <2> QED BY <1>4, <1>5, <2>1, InflateIs
<1>7. b.consumed \in 0..n /\ Moved(s, g0, b.consumed, room, b)
  BY <1>6 DEF Inflates
<1>8. PICK c \in 0..n : c = b.consumed
  BY <1>7, Zenon
<1>9. PICK r : r = [at |-> q + c, bytes |-> Span(q + c, n - c)]
  OBVIOUS
<1>10. r \in [at : Int, bytes : Seq(Int)] /\ Drop(Span(q, n), c) = Span(q + c, n - c)
  <2>1. q \in Int /\ q + c \in Int /\ n - c \in Nat /\ c \in Nat /\ c <= n /\ n \in Nat
    BY <1>1
  <2> HIDE DEF q
  <2>2. Span(q + c, n - c) \in Seq(Int)
    BY <2>1, SpanIs
  <2>3. Drop(Span(q, n), c) = Span(q + c, n - c)
    BY <2>1, SpanCut
  <2> QED BY <1>9, <2>1, <2>2, <2>3
<1>11. PICK self : self = [b.self EXCEPT !.replay = r]
  OBVIOUS
<1>12. a = Answer(self, consumed, b.bytes, b.status)
  <2>1. b = Answer(b.self, b.consumed, b.bytes, b.status)
    BY <1>5, AnswerShape
  <2>2. a = [b EXCEPT !.consumed = consumed, !.self.replay = r]
    BY <1>5, <1>8, <1>9, <1>10
  <2> QED BY <1>11, <2>1, <2>2 DEF Answer
<1>13. /\ a.self = self /\ a.consumed = consumed /\ a.bytes = b.bytes /\ a.status = b.status
  BY <1>12 DEF Answer
<1>14. /\ Core(s, self) /\ self.replay = r
       /\ self.inner = b.self.inner /\ self.stage = b.self.stage
       /\ self.trailer = b.self.trailer /\ self.header_state = b.self.header_state
  <2>1. Core(s, b.self)
    BY <1>7 DEF Moved
  <2> QED BY <1>10, <1>11, <2>1, HoldingChanges
<1>15. Moved(s, g, c, room, a)
  <2>1. \A t : Staged(b.self, t) <=> Staged(self, t)
    BY <1>14 DEF Staged
  <2> QED BY <1>4, <1>7, <1>8, <1>13, <1>14, <2>1 DEF Moved
<1> QED
  BY <1>9, <1>13, <1>14, <1>15 DEF Replays

-----------------------------------------------------------------------------
(***************************************************************************)
(* How a call moves the decoder and the caller together.                   *)
(***************************************************************************)

\* What a stream has in front of its deflate data and behind it.
LEMMA FramingIs ==
  ASSUME Sizes, NEW s, GzipStream(s)
  PROVE  /\ s.magic \in BOOLEAN /\ s.raw \in BOOLEAN /\ (s.magic => ~ s.raw)
         /\ s.header \in Nat /\ s.deflated \in Nat \ {0} /\ s.packed \in Int
         /\ s.magic => s.header > 0 /\ s.packed = s.header + s.deflated + TrailerSize
         /\ ~ s.magic => s.header = 0 /\ s.packed = s.deflated
         /\ Framed(s) <=> s.magic \/ s.raw
         /\ s.inflated[s.deflated] \in Nat
         /\ \A q \in Nat : q <= s.deflated =>
              s.inflated[q] \in Nat /\ s.inflated[q] <= s.inflated[s.deflated]
<1>1. /\ s.magic \in BOOLEAN /\ s.raw \in BOOLEAN /\ (s.magic => ~ s.raw)
      /\ s.header \in Nat /\ (s.magic <=> s.header > 0)
      /\ s.deflated \in Nat \ {0} /\ s.inflated \in [0..s.deflated -> Nat]
      /\ s.packed = s.header + s.deflated + TrailerOf(s)
      /\ \A p, q \in 0..s.deflated : p <= q => s.inflated[p] <= s.inflated[q]
  BY DEF GzipStream
<1>2. s.deflated \in 0..s.deflated
  BY <1>1
<1>3. ASSUME NEW q \in Nat, q <= s.deflated
      PROVE  s.inflated[q] \in Nat /\ s.inflated[q] <= s.inflated[s.deflated]
  <2>1. q \in 0..s.deflated
    BY <1>1, <1>3
  <2>2. s.inflated[q] \in Nat
    BY <1>1, <2>1
  <2>3. s.inflated[q] <= s.inflated[s.deflated]
    BY <1>1, <1>2, <1>3, <2>1
  <2> QED BY <2>2, <2>3
<1>4. s.inflated[s.deflated] \in Nat
  BY <1>1, <1>2
<1>5. s.magic => s.header > 0 /\ s.packed = s.header + s.deflated + TrailerSize
  BY <1>1 DEF TrailerOf
<1>6. ~ s.magic => s.header = 0 /\ s.packed = s.deflated
  <2>1. SUFFICES ASSUME ~ s.magic PROVE s.header = 0 /\ s.packed = s.deflated
    OBVIOUS
  <2>2. s.header = 0 /\ s.packed = s.header + s.deflated + 0
    BY <1>1, <2>1 DEF TrailerOf
  <2> QED BY <1>1, <2>2
<1>7. s.packed \in Int
  <2>1. TrailerSize \in Nat
    BY DEF Sizes
  <2> QED BY <1>1, <1>5, <1>6, <2>1
<1> QED
  BY <1>1, <1>3, <1>4, <1>5, <1>6, <1>7 DEF Framed

\* What a decoder that has moved answers, of a caller that had got all it had made: the next
\* bytes, and it goes on in step with its caller, or has ended.
Goes(s, at, c, to, room, a) ==
  /\ HoldsAWindow(s, a.self)
  /\ \E k \in 0..room :
       /\ a.bytes = Span(at, k) /\ at + k <= s.inflated[s.deflated]
       /\ k = 0 => c > 0
       /\ \/ a.status = "Continue" /\ Right(s, a.self, to, at + k)
          \/ /\ a.status = "StreamEnd"
             /\ Framed(s) => to = s.packed /\ at + k = s.inflated[s.deflated]

\* An inflating that has moved has moved the caller's counts with it.
LEMMA MovedIs ==
  ASSUME Sizes, NEW s, GzipStream(s), NEW g, Core(s, g),
         NEW c \in Nat, NEW room \in Nat, NEW a, Moved(s, g, c, room, a),
         NEW held \in Nat, Len(a.self.replay.bytes) = held,
         held = 0 => a.self.replay.bytes = <<>>,
         held > 0 => /\ ~ Framed(s)
                     /\ a.self.replay = [at |-> g.inner[1] + c,
                                         bytes |-> Span(g.inner[1] + c, held)],
         NEW to, to = s.header + (g.inner[1] + c) + held
  PROVE  Goes(s, g.inner[2], c, to, room, a)
<1> DEFINE q == g.inner[1]
           o == g.inner[2]
           h == a.self
<1>1. /\ Core(s, h) /\ h.inner[1] = q + c /\ Len(h.stage) <= WindowSize
      /\ \/ h.header_state = "Decompressing" /\ a.status = "Continue"
         \/ /\ h.header_state = "Trailer" /\ s.magic /\ h.trailer = TrailerSize
            /\ a.status = "Continue"
         \/ /\ h.header_state = "Finished" /\ ~ s.magic
            /\ a.status = IF h.stage = <<>> THEN "StreamEnd" ELSE "Continue"
  BY DEF Moved
<1>2. PICK k \in 0..room : /\ a.bytes = Span(o, k) /\ Staged(h, o + k)
                           /\ k = 0 => c > 0 /\ h.stage = <<>>
  BY DEF Moved
<1>3. /\ q \in Nat /\ o \in Nat /\ h \in Fields
      /\ h.inner[1] \in Nat /\ h.inner[2] \in Nat
      /\ h.inner[1] <= s.deflated /\ h.inner[2] <= s.inflated[h.inner[1]]
  <2>1. g.inner \in Nat \X Nat /\ h.inner \in Nat \X Nat
    BY <1>1 DEF Core, Fields
  <2> QED BY <1>1, <2>1 DEF Core
<1>4. /\ s.magic \in BOOLEAN /\ s.header \in Nat /\ s.deflated \in Nat \ {0}
      /\ s.magic => Framed(s)
      /\ ~ s.magic => s.header = 0 /\ s.packed = s.deflated
      /\ s.inflated[s.deflated] \in Nat
      /\ s.inflated[h.inner[1]] \in Nat
      /\ s.inflated[h.inner[1]] <= s.inflated[s.deflated]
  BY <1>3, FramingIs
<1>5. /\ o + k <= h.inner[2] /\ h.inner[2] - (o + k) \in Nat
      /\ h.stage = Span(o + k, h.inner[2] - (o + k))
  BY SMTT(30), <1>2, <1>3 DEF Staged
<1>6. o + k <= s.inflated[s.deflated] /\ h.inner[2] <= s.inflated[s.deflated]
  <2>1. PICK x \in Nat : x = h.inner[2]
    BY <1>3, Zenon
  <2>2. PICK y \in Nat : y = s.inflated[h.inner[1]]
    BY <1>4, Zenon
  <2>3. PICK z \in Nat : z = s.inflated[s.deflated]
    BY <1>4, Zenon
  <2>4. x <= y /\ y <= z /\ o + k <= x /\ o + k \in Nat
    <3>1. x <= y
      BY <1>3, <2>1, <2>2
    <3>2. y <= z
      BY <1>4, <2>2, <2>3
    <3>3. o + k <= x
      BY <1>5, <2>1
    <3>4. o + k \in Nat
      BY SMTT(30), <1>3
    <3> QED BY <3>1, <3>2, <3>3, <3>4
  <2> HIDE DEF o, h
  <2>5. x <= z /\ o + k <= z
    BY <2>4
  <2> QED BY <2>1, <2>3, <2>5
<1>7. HoldsAWindow(s, h)
  BY <1>1, <1>3 DEF HoldsAWindow, Fields
<1>8. h.header_state # "Decompressing" =>
        h.inner[1] = s.deflated /\ h.inner[2] = s.inflated[s.deflated]
  BY <1>1 DEF Core, AllInflated
<1>9. CASE h.header_state = "Decompressing" /\ a.status = "Continue"
  <2>1. Inflating(s, h, to)
    <3>1. to = s.header + h.inner[1] + Len(h.replay.bytes)
      BY <1>1
    <3>2. h.replay.bytes # <<>> => held > 0
      OBVIOUS
    <3> QED BY <1>1, <1>9, <3>1, <3>2 DEF Inflating
  <2> QED BY <1>1, <1>2, <1>6, <1>7, <1>9, <2>1 DEF Right, Goes
<1>10. CASE /\ h.header_state = "Trailer" /\ s.magic /\ h.trailer = TrailerSize
            /\ a.status = "Continue"
  <2>1. InTrailer(s, h, to)
    <3>1. held = 0 /\ h.replay.bytes = <<>>
      BY <1>4, <1>10
    <3>2. TrailerSize \in Nat \ {0} /\ h.trailer = TrailerSize
      BY <1>10 DEF Sizes
    <3>3. to = s.header + s.deflated + (TrailerSize - h.trailer)
      BY <1>1, <1>4, <1>8, <1>10, <3>1, <3>2
    <3> QED BY <1>10, <3>1, <3>2, <3>3 DEF InTrailer
  <2> QED BY <1>1, <1>2, <1>6, <1>7, <1>10, <2>1 DEF Right, Goes
<1>11. CASE /\ h.header_state = "Finished" /\ ~ s.magic
            /\ a.status = IF h.stage = <<>> THEN "StreamEnd" ELSE "Continue"
  <2>1. to = s.deflated + held /\ h.inner[2] = s.inflated[s.deflated]
    BY <1>1, <1>4, <1>8, <1>11
  <2>2. CASE h.stage # <<>>
    <3>1. AllDone(s, h, to)
      BY <1>11, <2>1, <2>2 DEF AllDone
    <3> QED BY <1>1, <1>2, <1>6, <1>7, <1>11, <2>2, <3>1 DEF Right, Goes
  <2>3. CASE h.stage = <<>>
    <3>1. Framed(s) => to = s.packed
      <4>1. SUFFICES ASSUME Framed(s) PROVE to = s.packed
        OBVIOUS
      <4>2. held = 0
        BY <4>1
      <4> QED BY <1>4, <1>11, <2>1, <4>2
    <3>2. h.inner[2] - (o + k) = 0
      <4>1. o + k \in Int /\ h.inner[2] - (o + k) \in Nat
        BY <1>3, <1>5
      <4> HIDE DEF o
      <4> QED BY <1>5, <2>3, <4>1, SpanIs
    <3>3. o + k = s.inflated[s.deflated]
      <4>1. o + k \in Int
        BY <1>3
      <4> QED BY <1>3, <2>1, <3>2, <4>1
    <3> QED BY <1>2, <1>6, <1>7, <1>11, <2>3, <3>1, <3>3 DEF Goes
  <2> QED BY <2>2, <2>3
<1> QED
  BY <1>1, <1>9, <1>10, <1>11

\* It has inflated some of what it held.
WorksOn(g, a) == \E x \in Nat \ {0} : a.self.inner[1] = g.inner[1] + x

\* A decoder's answer to a caller with these counts: it takes some of what it is offered,
\* gives out the next of the output, and goes on in step with the caller, having moved, or ends
\* where the stream does, or finds the file cut.
Answered(s, g, fed_, taken_, n, room, a) ==
  /\ a.consumed \in 0..n /\ HoldsAWindow(s, a.self)
  /\ \E k \in 0..room :
       /\ a.bytes = Span(taken_, k) /\ taken_ + k <= s.inflated[s.deflated]
       /\ \/ /\ a.status = "Continue" /\ Right(s, a.self, fed_ + a.consumed, taken_ + k)
             /\ a.consumed = 0 /\ k = 0 => ~ Framed(s) /\ WorksOn(g, a)
          \/ /\ a.status = "StreamEnd"
             /\ Framed(s) /\ (n > 0 \/ fed_ > 0) =>
                  /\ fed_ + a.consumed = s.packed /\ taken_ + k = s.inflated[s.deflated]
                  /\ a.consumed > 0 \/ k > 0
          \/ /\ a.status = "TruncatedInput" /\ n = 0 /\ a.consumed = 0 /\ k = 0
             /\ Framed(s) => fed_ < s.packed

\* A decoder that has moved has answered.
LEMMA GoesAnswers ==
  ASSUME NEW s, NEW g, NEW fed_, NEW taken_ \in Nat, NEW n \in Nat, NEW room \in Nat,
         NEW a, a.consumed \in 0..n, NEW c \in Nat,
         Goes(s, taken_, c, fed_ + a.consumed, room, a),
         c > 0 => a.consumed > 0 \/ (~ Framed(s) /\ WorksOn(g, a))
  PROVE  Answered(s, g, fed_, taken_, n, room, a)
<1>1. PICK k \in 0..room :
        /\ a.bytes = Span(taken_, k) /\ taken_ + k <= s.inflated[s.deflated]
        /\ k = 0 => c > 0
        /\ \/ a.status = "Continue" /\ Right(s, a.self, fed_ + a.consumed, taken_ + k)
           \/ /\ a.status = "StreamEnd"
              /\ Framed(s) => /\ fed_ + a.consumed = s.packed
                              /\ taken_ + k = s.inflated[s.deflated]
  BY DEF Goes
<1>2. /\ a.consumed = 0 /\ k = 0 => ~ Framed(s) /\ WorksOn(g, a)
      /\ Framed(s) => a.consumed > 0 \/ k > 0
  BY <1>1
<1>3. HoldsAWindow(s, a.self)
  BY DEF Goes
<1> QED
  BY <1>1, <1>2, <1>3 DEF Answered

\* decompress() inflating the caller's bytes.
LEMMA InflateAnswers ==
  ASSUME Sizes, NEW s, GzipStream(s), NEW g, Core(s, g), g.header_state = "Decompressing",
         g.replay.bytes = <<>>,
         NEW fed_, fed_ = s.header + g.inner[1],
         NEW at, NEW n \in Nat, n > 0 => at = g.inner[1],
         NEW more \in BOOLEAN, n = 0 => ~ more, NEW room \in Nat \ {0},
         NEW a \in InflateToOutput(s, g, at, n, more, room)
  PROVE  Answered(s, g, fed_, g.inner[2], n, room, a)
<1>1. Inflates(s, g, n, room, a)
  BY InflateIs
<1>2. g.inner[1] \in Nat /\ g.inner[2] \in Nat /\ g.inner[1] <= s.deflated
      /\ g.inner[2] <= s.inflated[g.inner[1]]
  BY DEF Core, Fields
<1>3. /\ s.header \in Nat /\ s.deflated \in Nat \ {0} /\ s.magic \in BOOLEAN
      /\ s.magic => s.packed = s.header + s.deflated + TrailerSize
      /\ ~ s.magic => s.header = 0 /\ s.packed = s.deflated
      /\ s.inflated[s.deflated] \in Nat
      /\ s.inflated[g.inner[1]] \in Nat
      /\ s.inflated[g.inner[1]] <= s.inflated[s.deflated]
      /\ TrailerSize \in Nat
  BY <1>2, FramingIs DEF Sizes
<1>4. CASE /\ a.status = "TruncatedInput" /\ n = 0 /\ a.consumed = 0 /\ a.bytes = <<>>
           /\ g.inner[1] < s.deflated
           /\ a.self.stage \in Seq(Int) /\ Len(a.self.stage) <= WindowSize
           /\ a.self.replay = g.replay
  <2>1. HoldsAWindow(s, a.self)
    BY <1>4 DEF HoldsAWindow
  <2>2. fed_ < s.packed
    BY <1>2, <1>3, <1>4
  <2>3. Span(g.inner[2], 0) = <<>>
    BY DEF Span
  <2>4. g.inner[2] + 0 <= s.inflated[s.deflated]
    <3>1. PICK x \in Nat : x = g.inner[2]
      BY <1>2, Zenon
    <3>2. PICK y \in Nat : y = s.inflated[g.inner[1]]
      BY <1>3, Zenon
    <3>3. PICK z \in Nat : z = s.inflated[s.deflated]
      BY <1>3, Zenon
    <3>4. x <= y /\ y <= z
      BY <1>2, <1>3, <3>1, <3>2, <3>3
    <3>5. x + 0 <= z
      BY <3>4
    <3> QED BY <3>1, <3>3, <3>5
  <2> QED BY <1>4, <2>1, <2>2, <2>3, <2>4 DEF Answered
<1>5. CASE /\ a.consumed \in 0..n /\ a.self.replay = g.replay
           /\ Moved(s, g, a.consumed, room, a)
  <2>1. PICK c \in 0..n : c = a.consumed
    BY <1>5, Zenon
  <2>2. PICK q \in Nat : q = g.inner[1]
    BY <1>2, Zenon
  <2>3. c \in Nat /\ fed_ + c = s.header + (q + c) + 0
    BY <1>3, <2>2
  <2>4. a.self.replay.bytes = <<>> /\ Len(a.self.replay.bytes) = 0
    BY <1>5
  <2>5. Moved(s, g, c, room, a)
    BY <1>5, <2>1
  <2>6. Goes(s, g.inner[2], c, fed_ + c, room, a)
    <3>1. PICK to : to = fed_ + c
      OBVIOUS
    <3>2. PICK held \in Nat : held = 0
      OBVIOUS
    <3>3. to = s.header + (g.inner[1] + c) + held
      BY <2>2, <2>3, <3>1, <3>2
    <3>4. /\ Len(a.self.replay.bytes) = held /\ (held = 0 => a.self.replay.bytes = <<>>)
          /\ ~ (held > 0) /\ room \in Nat
      BY <2>4, <3>2
    <3>5. Goes(s, g.inner[2], c, to, room, a)
      BY <2>3, <2>5, <3>3, <3>4, MovedIs
    <3> QED BY <3>1, <3>5
  <2> QED BY <1>2, <1>5, <2>1, <2>3, <2>6, GoesAnswers
<1> QED
  BY <1>1, <1>4, <1>5 DEF Inflates

-----------------------------------------------------------------------------
(***************************************************************************)
(* The branches of decompress(): what is staged and the trailer,           *)
(***************************************************************************)

\* Past the header, in one of its states.
Past(s, g, fed_) == Inflating(s, g, fed_) \/ InTrailer(s, g, fed_) \/ AllDone(s, g, fed_)

\* flush_stage()
LEMMA FlushAnswers ==
  ASSUME Sizes, NEW s, GzipStream(s), NEW g, Core(s, g), g.stage # <<>>,
         NEW fed_ \in Nat, NEW taken_ \in Nat, Staged(g, taken_), Past(s, g, fed_),
         NEW n \in Nat, NEW room \in Nat \ {0}
  PROVE  Answered(s, g, fed_, taken_, n, room, FlushStage(g, room))
<1> DEFINE len == g.inner[2] - taken_
<1>1. /\ g \in Fields /\ g.inner[2] \in Nat /\ len \in Nat /\ len <= WindowSize
      /\ taken_ + len = g.inner[2] /\ g.stage = Span(taken_, len)
      /\ g.finished <=> g.header_state = "Finished"
      /\ WindowSize \in Nat
  <2>1. g.inner[2] \in Nat
    BY DEF Core, Fields
  <2> QED BY <2>1 DEF Core, Staged, Sizes
<1>2. Len(g.stage) = len /\ len > 0
  <2>1. taken_ \in Int
    OBVIOUS
  <2> HIDE DEF len
  <2>2. Len(Span(taken_, len)) = len /\ (Span(taken_, len) = <<>> <=> len = 0)
    BY <1>1, <2>1, SpanIs
  <2> QED BY <1>1, <2>2
<1> HIDE DEF len
<1>3. PICK m \in 1..len : m = Min({Len(g.stage), room})
  <2>1. Min({len, room}) = IF len <= room THEN len ELSE room
    BY <1>1, MinMaxIs
  <2>2. Min({Len(g.stage), room}) \in 1..len
    BY <1>1, <1>2, <2>1
  <2> QED BY <2>2, Zenon
<1>4. m <= room
  <2>1. Min({len, room}) = IF len <= room THEN len ELSE room
    BY <1>1, MinMaxIs
  <2> QED BY <1>1, <1>2, <1>3, <2>1
<1>5. /\ Take(g.stage, m) = Span(taken_, m)
      /\ Drop(g.stage, m) = Span(taken_ + m, len - m)
      /\ Span(taken_ + m, len - m) \in Seq(Int) /\ Len(Span(taken_ + m, len - m)) = len - m
      /\ Span(taken_ + m, len - m) = <<>> <=> len - m = 0
  <2>1. taken_ \in Int /\ taken_ + m \in Int /\ m \in Nat /\ m <= len /\ len - m \in Nat
    BY <1>1
  <2>2. /\ Take(Span(taken_, len), m) = Span(taken_, m)
        /\ Drop(Span(taken_, len), m) = Span(taken_ + m, len - m)
    <3>1. taken_ \in Int /\ len \in Nat /\ m \in Nat /\ m <= len
      BY <1>1, <2>1
    <3> QED BY ONLY <3>1, SpanCut
  <2>3. /\ Span(taken_ + m, len - m) \in Seq(Int) /\ Len(Span(taken_ + m, len - m)) = len - m
        /\ Span(taken_ + m, len - m) = <<>> <=> len - m = 0
    BY <2>1, SpanIs
  <2> QED BY <1>1, <2>2, <2>3
<1>6. PICK rest \in Seq(Int) : rest = Drop(g.stage, m)
  BY <1>5
<1>7. PICK h : h = [g EXCEPT !.stage = rest]
  OBVIOUS
<1>8. PICK a : a = FlushStage(g, room)
  OBVIOUS
<1>9. /\ a.self = h /\ a.consumed = 0 /\ a.bytes = Span(taken_, m)
      /\ a.status = IF g.finished /\ m = len THEN "StreamEnd" ELSE "Continue"
  BY <1>2, <1>3, <1>5, <1>6, <1>7, <1>8 DEF FlushStage, Answer, LastFlushed
<1>10. /\ SameInflated(h, g) /\ h.stage = rest /\ h.header_state = g.header_state
       /\ h.finished = g.finished /\ h.trailer = g.trailer
  BY <1>1, <1>6, <1>7 DEF Fields, SameInflated
<1>11. Core(s, h)
  BY <1>10 DEF Core, SameInflated
<1>12. Staged(h, taken_ + m) /\ Len(rest) <= WindowSize
  <2>1. h.inner[2] = g.inner[2]
    BY <1>10 DEF SameInflated
  <2>2. g.inner[2] - (taken_ + m) = len - m /\ taken_ + m <= g.inner[2] /\ len - m <= WindowSize
    BY <1>1
  <2> QED BY <1>5, <1>6, <1>10, <2>1, <2>2 DEF Staged
<1>13. HoldsAWindow(s, h)
  <2>1. h.replay = g.replay /\ (g.replay.bytes # <<>> => ~ Framed(s))
    BY <1>10 DEF SameInflated, Past, Inflating, InTrailer, AllDone
  <2> QED BY <1>10, <1>12, <2>1 DEF HoldsAWindow
<1>14. taken_ + m <= s.inflated[s.deflated]
  <2>1. /\ g.inner[1] \in Nat /\ g.inner[1] <= s.deflated
        /\ g.inner[2] <= s.inflated[g.inner[1]]
    BY DEF Core, Fields
  <2>2. PICK x \in Nat : x = s.inflated[g.inner[1]]
    BY <2>1, FramingIs, Zenon
  <2>3. PICK y \in Nat : y = s.inflated[s.deflated]
    BY FramingIs, Zenon
  <2>4. x <= y
    BY <2>1, <2>2, <2>3, FramingIs
  <2>5. taken_ + m <= g.inner[2] /\ g.inner[2] <= x
    BY <1>1, <2>1, <2>2
  <2>6. taken_ + m <= y
    BY <1>1, <2>4, <2>5
  <2> QED BY <2>3, <2>6
<1>15. m \in 0..room /\ m > 0 /\ a.consumed \in 0..n
  BY <1>1, <1>4, <1>9
<1>16. CASE ~ (g.finished /\ m = len)
  <2>1. rest = <<>> => ~ g.finished
    BY <1>1, <1>5, <1>6, <1>16
  <2>2. Past(s, h, fed_)
    <3>1. CASE Inflating(s, g, fed_)
      BY <1>10, <3>1 DEF SameInflated, Past, Inflating
    <3>2. CASE InTrailer(s, g, fed_)
      BY <1>10, <3>2 DEF SameInflated, Past, InTrailer
    <3>3. CASE AllDone(s, g, fed_)
      BY <1>1, <1>10, <2>1, <3>3 DEF SameInflated, Past, AllDone
    <3> QED BY <3>1, <3>2, <3>3 DEF Past
  <2>3. fed_ + a.consumed = fed_
    BY <1>9
  <2>4. Right(s, h, fed_ + a.consumed, taken_ + m)
    BY <1>11, <1>12, <2>2, <2>3 DEF Right, Past
  <2> QED BY <1>8, <1>9, <1>13, <1>14, <1>15, <1>16, <2>4 DEF Answered
<1>17. CASE g.finished /\ m = len
  <2>1. AllDone(s, g, fed_)
    BY <1>1, <1>17 DEF Past, Inflating, InTrailer
  <2>2. ASSUME Framed(s) PROVE fed_ + a.consumed = s.packed
    <3>1. ~ s.magic /\ g.replay.bytes = <<>> /\ fed_ = s.deflated + Len(g.replay.bytes)
      BY <2>1, <2>2 DEF AllDone
    <3>2. fed_ = s.deflated + 0 /\ s.deflated \in Nat /\ s.packed = s.deflated
      BY <3>1, FramingIs
    <3> QED BY <1>9, <3>2
  <2>3. taken_ + m = s.inflated[s.deflated]
    BY <1>1, <1>17, <2>1 DEF Core, AllInflated, AllDone
  <2> QED BY <1>8, <1>9, <1>13, <1>14, <1>15, <1>17, <2>2, <2>3 DEF Answered
<1> QED
  BY <1>16, <1>17

\* decompress() in the trailer.
LEMMA SkipAnswers ==
  ASSUME Sizes, NEW s, GzipStream(s), NEW g, Core(s, g), g.stage = <<>>,
         NEW fed_, NEW taken_ \in Nat, Staged(g, taken_), InTrailer(s, g, fed_),
         NEW n \in Nat, NEW room \in Nat \ {0}
  PROVE  Answered(s, g, fed_, taken_, n, room, SkipTrailer(g, n))
<1>1. /\ g \in Fields /\ g.inner = AllInflated(s) /\ g.inner[2] \in Nat
      /\ g.header_state = "Trailer" /\ s.magic /\ g.replay.bytes = <<>>
      /\ g.trailer \in 1..TrailerSize /\ TrailerSize \in Nat \ {0}
      /\ fed_ = s.header + s.deflated + (TrailerSize - g.trailer)
      /\ g.finished = FALSE
  <2>1. g.inner[2] \in Nat /\ g.finished \in BOOLEAN
    BY DEF Core, Fields
  <2> QED BY <2>1 DEF Core, InTrailer, Sizes
<1>2. /\ s.header \in Nat /\ s.deflated \in Nat
      /\ s.packed = s.header + s.deflated + TrailerSize
      /\ s.inflated[s.deflated] \in Nat
  BY <1>1, FramingIs
<1>3. taken_ = s.inflated[s.deflated]
  <2>1. g.inner[2] = s.inflated[s.deflated]
    BY <1>1 DEF AllInflated
  <2>2. taken_ <= g.inner[2] /\ g.stage = Span(taken_, g.inner[2] - taken_)
    BY DEF Staged
  <2>3. g.inner[2] - taken_ = 0
    <3>1. taken_ \in Int /\ g.inner[2] - taken_ \in Nat
      BY <1>1, <2>2
    <3> QED BY <2>2, <3>1, SpanIs
  <2> QED BY <1>1, <2>1, <2>3
<1>4. Span(taken_, 0) = <<>> /\ taken_ + 0 = taken_
  BY DEF Span
<1>5. HoldsAWindow(s, g)
  BY <1>1 DEF HoldsAWindow, Sizes
<1>6. CASE n = 0
  <2>1. SkipTrailer(g, n) = Answer(g, 0, <<>>, "TruncatedInput")
    BY <1>6 DEF SkipTrailer
  <2>2. fed_ < s.packed
    BY <1>1, <1>2
  <2> QED BY <1>3, <1>4, <1>5, <1>6, <1>2, <2>1, <2>2 DEF Answered, Answer
<1>7. CASE n > 0
  <2>1. PICK take \in 1..n : take = TrailerBytes(g, n) /\ take <= g.trailer
    <3>1. Min({g.trailer, n}) = IF g.trailer <= n THEN g.trailer ELSE n
      <4>1. g.trailer \in Int /\ n \in Int
        BY <1>1
      <4> QED BY <4>1, MinMaxIs
    <3>2. TrailerBytes(g, n) \in 1..n /\ TrailerBytes(g, n) <= g.trailer
      BY <1>1, <1>7, <3>1 DEF TrailerBytes
    <3> QED BY <3>2, Zenon
  <2>2. PICK left \in Nat : left = g.trailer - take
    <3>1. g.trailer - take \in Nat
      BY <1>1, <2>1
    <3> QED BY <3>1, Zenon
  <2>3. CASE left = 0
    <3>1. PICK h : h = [g EXCEPT !.trailer = 0, !.finished = TRUE,
                                 !.header_state = "Finished"]
      OBVIOUS
    <3>2. SkipTrailer(g, n) = Answer(h, take, <<>>, "StreamEnd")
      BY <1>7, <2>1, <2>2, <2>3, <3>1 DEF SkipTrailer
    <3>3. h.stage = <<>> /\ h.replay = g.replay
      BY <1>1, <3>1 DEF Fields
    <3>4. HoldsAWindow(s, h)
      BY <1>5, <3>3 DEF HoldsAWindow
    <3>5. fed_ + take = s.packed
      BY <1>1, <1>2, <2>1, <2>2, <2>3
    <3> QED BY <1>2, <1>3, <1>4, <2>1, <3>2, <3>4, <3>5 DEF Answered, Answer
  <2>4. CASE left > 0
    <3>1. PICK h : h = [g EXCEPT !.trailer = left]
      OBVIOUS
    <3>2. SkipTrailer(g, n) = Answer(h, take, <<>>, "Continue")
      BY <1>7, <2>1, <2>2, <2>4, <3>1 DEF SkipTrailer
    <3>3. /\ SameInflated(h, g) /\ h.stage = <<>> /\ h.trailer = left
          /\ h.header_state = g.header_state /\ h.finished = g.finished
      BY <1>1, <3>1 DEF Fields, SameInflated
    <3>4. Core(s, h)
      BY <3>3 DEF Core, SameInflated
    <3>5. HoldsAWindow(s, h)
      BY <1>5, <3>3 DEF HoldsAWindow, SameInflated
    <3>6. fed_ + take = s.header + s.deflated + (TrailerSize - left) /\ left \in 1..TrailerSize
      <4>1. PICK t \in 1..TrailerSize : t = g.trailer
        BY <1>1, Zenon
      <4>2. left = t - take /\ take >= 1
        BY <2>1, <2>2, <4>1
      <4>3. left \in 1..TrailerSize /\ TrailerSize - left = (TrailerSize - t) + take
        BY SMTT(30), <1>1, <2>1, <2>4, <4>1, <4>2
      <4>4. fed_ = s.header + s.deflated + (TrailerSize - t)
        BY <1>1, <4>1
      <4>5. PICK x \in Nat : x = s.header + s.deflated
        BY <1>2
      <4>6. PICK y \in Nat : y = TrailerSize - t
        BY <1>1, <4>1
      <4>7. fed_ = x + y
        BY <4>4, <4>5, <4>6
      <4>8. fed_ + take = x + (TrailerSize - left)
        BY <1>1, <2>1, <4>3, <4>5, <4>6, <4>7
      <4> QED BY <4>3, <4>5, <4>8
    <3>7. InTrailer(s, h, fed_ + take)
      BY <1>1, <3>3, <3>6 DEF InTrailer, SameInflated
    <3>8. Staged(h, taken_ + 0)
      BY <1>1, <1>4, <3>3 DEF Staged, SameInflated
    <3>9. Right(s, h, fed_ + take, taken_ + 0)
      BY <3>4, <3>7, <3>8 DEF Right
    <3> QED BY <1>2, <1>3, <1>4, <2>1, <3>2, <3>5, <3>9 DEF Answered, Answer
  <2> QED BY <2>2, <2>3, <2>4
<1> QED
  BY <1>6, <1>7

-----------------------------------------------------------------------------
(***************************************************************************)
(* the bytes held while a header was looked for,                           *)
(***************************************************************************)

\* With nothing staged, the caller has got all that was made.
LEMMA NothingStaged ==
  ASSUME NEW g \in Fields, NEW taken_ \in Nat, Staged(g, taken_), g.stage = <<>>
  PROVE  taken_ = g.inner[2]
<1>1. g.inner[2] \in Nat
  BY DEF Fields
<1>2. taken_ <= g.inner[2] /\ g.stage = Span(taken_, g.inner[2] - taken_)
  BY DEF Staged
<1>3. taken_ \in Int /\ g.inner[2] - taken_ \in Nat
  BY <1>1, <1>2
<1>4. g.inner[2] - taken_ = 0
  BY <1>2, <1>3, SpanIs
<1> QED
  BY <1>1, <1>4

\* decompress() with bytes held from the search for a header.
LEMMA HeldAnswers ==
  ASSUME Sizes, NEW s, GzipStream(s), NEW g, Core(s, g), g.stage = <<>>,
         g.replay.bytes # <<>>,
         NEW fed_ \in Nat, NEW taken_ \in Nat, Staged(g, taken_), Inflating(s, g, fed_),
         NEW n \in Nat, NEW room \in Nat \ {0},
         NEW a \in InflateHeld(s, g, Span(fed_, n), room)
  PROVE  Answered(s, g, fed_, taken_, n, room, a)
<1>1. PICK q \in Nat : q = g.inner[1]
  <2>1. g.inner[1] \in Nat
    BY DEF Core, Fields
  <2> QED BY <2>1, Zenon
<1>2. PICK len \in Nat \ {0} : len = Len(g.replay.bytes)
  <2>1. g.replay.bytes \in Seq(Int)
    BY DEF Core, Fields
  <2>2. Len(g.replay.bytes) \in Nat \ {0}
    BY <2>1
  <2> QED BY <2>2, Zenon
<1>3. /\ ~ Framed(s) /\ ~ s.magic /\ s.header = 0
      /\ g.replay = [at |-> q, bytes |-> Span(q, len)] /\ fed_ = q + len
      /\ g.header_state = "Decompressing"
  <2>1. /\ ~ Framed(s) /\ g.header_state = "Decompressing"
        /\ g.replay = [at |-> q, bytes |-> Span(q, len)] /\ fed_ = s.header + q + len
    BY <1>1, <1>2 DEF Inflating
  <2>2. ~ s.magic /\ s.header = 0
    BY <2>1, FramingIs
  <2> QED BY <2>1, <2>2
<1>4. taken_ = g.inner[2] /\ g.inner[2] \in Nat
  <2>1. g \in Fields
    BY DEF Core
  <2> QED BY <2>1, NothingStaged
<1>5. PICK held \in InflateReplay(s, g, 0, TRUE, room) :
        a \in IF \/ Len(held.bytes) > 0 \/ held.self.header_state # "Decompressing"
                 \/ held.status \notin {"Continue", "StreamEnd"}
              THEN {held}
              ELSE IF held.self.replay.bytes = <<>>
              THEN InflateToOutput(s, held.self, DeflateAt(s, Span(fed_, n)), n, n > 0, room)
              ELSE InflateReplay(s, [held.self EXCEPT !.replay.bytes = @ \o Span(fed_, n)],
                                 n, n > 0, room)
  <2>1. Len(Span(fed_, n)) = n
    <3>1. fed_ \in Int
      OBVIOUS
    <3> QED BY <3>1, SpanIs
  <2> QED BY <2>1 DEF InflateHeld
<1>6. Replays(s, g, len, 0, room, held)
  <2>1. g.replay = [at |-> g.inner[1], bytes |-> Span(g.inner[1], len)]
    BY <1>1, <1>3
  <2> QED BY <1>3, <1>5, <2>1, ReplayIs
<1>7. PICK c \in 0..len : /\ Moved(s, g, c, room, held)
                          /\ held.self.replay = [at |-> q + c, bytes |-> Span(q + c, len - c)]
  BY <1>1, <1>6 DEF Replays
<1>8. held.consumed = 0 /\ held.self.inner[1] = q + c /\ Core(s, held.self)
  BY <1>1, <1>6, <1>7 DEF Replays, Moved
<1>9. /\ Len(held.self.replay.bytes) = len - c
      /\ held.self.replay.bytes = <<>> <=> len - c = 0
      /\ q + c \in Int /\ len - c \in Nat
  <2>1. q + c \in Int /\ len - c \in Nat
    OBVIOUS
  <2>2. /\ Len(Span(q + c, len - c)) = len - c
        /\ Span(q + c, len - c) = <<>> <=> len - c = 0
    BY <2>1, SpanIs
  <2> QED BY <1>7, <2>1, <2>2
<1>10. CASE a = held
  <2>1. PICK rest \in Nat : rest = len - c
    BY <1>9, Zenon
  <2>2. fed_ = s.header + (g.inner[1] + c) + rest
    BY <1>1, <1>3, <2>1
  <2>3. /\ Len(a.self.replay.bytes) = rest /\ (rest = 0 => a.self.replay.bytes = <<>>)
        /\ a.self.replay = [at |-> g.inner[1] + c, bytes |-> Span(g.inner[1] + c, rest)]
        /\ Moved(s, g, c, room, a)
    BY <1>1, <1>7, <1>9, <1>10, <2>1
  <2>4. Goes(s, g.inner[2], c, fed_, room, a)
    BY <1>3, <2>2, <2>3, MovedIs
  <2>5. a.consumed = 0 /\ fed_ + a.consumed = fed_
    BY <1>8, <1>10
  <2>6. c > 0 => ~ Framed(s) /\ WorksOn(g, a)
    BY <1>1, <1>3, <1>8, <1>10 DEF WorksOn
  <2> QED BY <1>4, <2>4, <2>5, <2>6, GoesAnswers
<1>11. CASE /\ ~ (\/ Len(held.bytes) > 0 \/ held.self.header_state # "Decompressing"
                  \/ held.status \notin {"Continue", "StreamEnd"})
  <2>1. PICK k \in 0..room :
          /\ held.bytes = Span(g.inner[2], k) /\ Staged(held.self, g.inner[2] + k)
          /\ k = 0 => c > 0 /\ held.self.stage = <<>>
    BY <1>7 DEF Moved
  <2>2. k = 0
    <3>1. g.inner[2] \in Int /\ k \in Nat
      BY <1>4
    <3>2. Len(held.bytes) = k
      <4>1. PICK o \in Int : o = g.inner[2]
        BY <3>1, Zenon
      <4>2. Len(Span(o, k)) = k
        BY <3>1, SpanIs
      <4> QED BY <2>1, <4>1, <4>2
    <3> QED BY <1>11, <3>1, <3>2
  <2>3. PICK g1 : g1 = held.self
    OBVIOUS
  <2>4. /\ Core(s, g1) /\ g1.header_state = "Decompressing" /\ g1.inner[1] = q + c /\ c > 0
        /\ g1.stage = <<>> /\ g1.replay = [at |-> q + c, bytes |-> Span(q + c, len - c)]
    BY <1>7, <1>8, <1>11, <2>1, <2>2, <2>3
  <2>5. g1.inner[2] = taken_
    <3>1. Staged(g1, taken_)
      BY <1>4, <2>1, <2>2, <2>3
    <3>2. g1 \in Fields
      BY <2>4 DEF Core
    <3> QED BY <2>4, <3>1, <3>2, NothingStaged
  <2>6. CASE g1.replay.bytes = <<>>
    <3>1. len - c = 0
      BY <1>9, <2>3, <2>6
    <3>2. a \in InflateToOutput(s, g1, DeflateAt(s, Span(fed_, n)), n, n > 0, room)
      BY <1>5, <1>11, <2>3, <2>6
    <3>3. n > 0 => DeflateAt(s, Span(fed_, n)) = g1.inner[1]
      <4>1. SUFFICES ASSUME n > 0 PROVE DeflateAt(s, Span(fed_, n)) = g1.inner[1]
        OBVIOUS
      <4>2. fed_ \in Int
        OBVIOUS
      <4>3. Span(fed_, n) # <<>> /\ Span(fed_, n)[1] = fed_
        BY <4>1, <4>2, SpanIs
      <4>4. DeflateAt(s, Span(fed_, n)) = fed_ - 0
        BY <1>3, <4>3 DEF DeflateAt
      <4> QED BY <1>3, <2>4, <3>1, <4>4
    <3>4. fed_ = s.header + g1.inner[1]
      BY <1>3, <2>4, <3>1
    <3>5. PICK more \in BOOLEAN : more = (n > 0)
      <4>1. (n > 0) \in BOOLEAN
        OBVIOUS
      <4> QED BY <4>1, Zenon
    <3>6. a \in InflateToOutput(s, g1, DeflateAt(s, Span(fed_, n)), n, more, room)
      BY <3>2, <3>5
    <3>7. Answered(s, g1, fed_, g1.inner[2], n, room, a)
      <4>1. PICK at : at = DeflateAt(s, Span(fed_, n))
        OBVIOUS
      <4>2. /\ n > 0 => at = g1.inner[1]
            /\ n = 0 => ~ more
            /\ a \in InflateToOutput(s, g1, at, n, more, room)
        <5>1. n > 0 => at = g1.inner[1]
          BY <3>3, <4>1
        <5>2. n = 0 => ~ more
          <6>1. n = 0 => ~ (n > 0)
            OBVIOUS
          <6> QED BY <3>5, <6>1, Zenon
        <5>3. a \in InflateToOutput(s, g1, at, n, more, room)
          BY <3>6, <4>1
        <5> QED BY <5>1, <5>2, <5>3
      <4> QED BY <2>4, <2>6, <3>4, <4>2, InflateAnswers
    <3>8. ASSUME WorksOn(g1, a) PROVE WorksOn(g, a)
      <4>1. PICK x \in Nat \ {0} : a.self.inner[1] = g1.inner[1] + x
        BY <3>8 DEF WorksOn
      <4>2. a.self.inner[1] = q + (c + x) /\ c + x \in Nat \ {0}
        BY <2>4, <4>1
      <4> QED BY <1>1, <4>2 DEF WorksOn
    <3>9. Answered(s, g1, fed_, taken_, n, room, a)
      BY <2>5, <3>7
    <3> QED BY <3>8, <3>9 DEF Answered
  <2>7. CASE g1.replay.bytes # <<>>
    <3>1. PICK m \in Nat \ {0} : m = len - c + n
      <4>1. len - c + n \in Nat \ {0}
        BY <1>9, <2>3, <2>7
      <4> QED BY <4>1, Zenon
    <3>2. PICK r : r = [at |-> q + c, bytes |-> Span(q + c, m)]
      OBVIOUS
    <3>3. r \in [at : Int, bytes : Seq(Int)]
      <4>1. q + c \in Int /\ m \in Nat
        OBVIOUS
      <4>2. Span(q + c, m) \in Seq(Int)
        BY <4>1, SpanIs
      <4> QED BY <3>2, <4>1, <4>2
    <3>4. [g1 EXCEPT !.replay.bytes = @ \o Span(fed_, n)] = [g1 EXCEPT !.replay = r]
      <4>1. Span(q + c, len - c) \o Span(fed_, n) = Span(q + c, m)
        <5>1. q + c \in Int /\ len - c \in Nat /\ n \in Nat /\ fed_ = (q + c) + (len - c)
              /\ m = (len - c) + n
          BY <1>3, <1>9, <3>1
        <5>2. PICK x \in Int : x = q + c
          BY <5>1, Zenon
        <5>3. PICK y \in Nat : y = len - c
          BY <5>1, Zenon
        <5>4. Span(x, y) \o Span(x + y, n) = Span(x, y + n)
          BY SpanJoins
        <5>5. fed_ = x + y /\ m = y + n
          BY <5>1, <5>2, <5>3
        <5> QED BY <5>2, <5>3, <5>4, <5>5
      <4>2. g1 \in Fields
        BY <2>4 DEF Core
      <4>3. DOMAIN g1 \cap {"replay"} = {"replay"}
        BY <4>2 DEF Fields
      <4>4. [g1.replay EXCEPT !.bytes = @ \o Span(fed_, n)] = r
        <5>1. PICK x, y, z : /\ x = q + c /\ y = Span(q + c, len - c)
                             /\ z = y \o Span(fed_, n)
          OBVIOUS
        <5>2. g1.replay = [at |-> x, bytes |-> y] /\ r = [at |-> x, bytes |-> z]
              /\ g1.replay.bytes = y
          <6>1. z = Span(q + c, m)
            BY <4>1, <5>1
          <6>2. g1.replay = [at |-> x, bytes |-> y]
            BY <2>4, <5>1
          <6>3. r = [at |-> x, bytes |-> z]
            BY <3>2, <5>1, <6>1
          <6>4. g1.replay.bytes = y
            BY ONLY <6>2
          <6> QED BY <6>2, <6>3, <6>4
        <5>3. [g1.replay EXCEPT !.bytes = z] = r
          BY <5>2
        <5> QED BY <5>1, <5>2, <5>3
      <4> QED BY <4>4
    <3>5. PICK g2 : g2 = [g1 EXCEPT !.replay = r]
      OBVIOUS
    <3>6. /\ Core(s, g2) /\ g2.replay = r /\ g2.inner = g1.inner
          /\ g2.header_state = "Decompressing"
      BY <2>4, <3>3, <3>5, HoldingChanges
    <3>7. PICK more \in BOOLEAN : more = (n > 0)
      <4>1. (n > 0) \in BOOLEAN
        OBVIOUS
      <4> QED BY <4>1, Zenon
    <3>8. a \in InflateReplay(s, g2, n, more, room)
      BY <1>5, <1>11, <2>3, <2>7, <3>4, <3>5, <3>7
    <3>9. Replays(s, g2, m, n, room, a)
      <4>1. g2.replay = [at |-> g2.inner[1], bytes |-> Span(g2.inner[1], m)]
        BY <2>4, <3>2, <3>6
      <4> QED BY <3>6, <3>8, <4>1, ReplayIs
    <3>10. PICK d \in 0..m :
             /\ a.consumed = n /\ Moved(s, g2, d, room, a)
             /\ a.self.replay = [at |-> g2.inner[1] + d, bytes |-> Span(g2.inner[1] + d, m - d)]
      BY <3>9 DEF Replays
    <3>11. PICK rest \in Nat : rest = m - d
      <4>1. m - d \in Nat
        OBVIOUS
      <4> QED BY <4>1, Zenon
    <3>12. fed_ + n = s.header + (g2.inner[1] + d) + rest
      BY <1>3, <2>4, <3>1, <3>6, <3>11
    <3>13. /\ Len(a.self.replay.bytes) = rest /\ (rest = 0 => a.self.replay.bytes = <<>>)
      <4>1. g2.inner[1] + d \in Int
        BY <2>4, <3>6
      <4>2. /\ Len(Span(g2.inner[1] + d, rest)) = rest
            /\ rest = 0 => Span(g2.inner[1] + d, rest) = <<>>
        BY <4>1, SpanIs
      <4> QED BY <3>10, <3>11, <4>2
    <3>14. PICK to : to = fed_ + n
      OBVIOUS
    <3>15. Goes(s, g2.inner[2], d, to, room, a)
      <4>1. a.self.replay = [at |-> g2.inner[1] + d, bytes |-> Span(g2.inner[1] + d, rest)]
        BY <3>10, <3>11
      <4>2. d \in Nat /\ room \in Nat /\ to = s.header + (g2.inner[1] + d) + rest
        BY <3>12, <3>14
      <4> QED BY <1>3, <3>6, <3>10, <3>13, <4>1, <4>2, MovedIs
    <3>16. WorksOn(g, a)
      <4>1. a.self.inner[1] = q + (c + d) /\ c + d \in Nat \ {0}
        BY <2>4, <3>6, <3>10 DEF Moved
      <4> QED BY <1>1, <4>1 DEF WorksOn
    <3>17. Goes(s, taken_, d, fed_ + a.consumed, room, a) /\ a.consumed \in 0..n
      BY <2>5, <3>6, <3>10, <3>14, <3>15
    <3> QED BY <1>3, <3>16, <3>17, GoesAnswers
  <2> QED BY <2>6, <2>7
<1> QED
  BY <1>5, <1>10, <1>11

-----------------------------------------------------------------------------
(***************************************************************************)
(* and the header; new().                                                  *)
(***************************************************************************)

\* A decoder at the first byte of the deflate data.
LEMMA CoreStarts ==
  ASSUME Sizes, NEW s, GzipStream(s), NEW h \in Fields,
         h.inner = <<0, 0>>, h.dict_pos = 0, h.total_out = 0, h.deflate_in = 0,
         h.header_size = s.header, h.last_boundary = NoBoundary,
         h.finished = FALSE, h.header_state = "Decompressing"
  PROVE  Core(s, h)
<1>1. RingHolds(h.dict_buf, h.dict_pos, 0)
  BY RingStarts DEF Sizes
<1>2. s.deflated \in Nat \ {0} /\ 0 <= s.deflated
  BY DEF GzipStream
<1>3. s.inflated[0] = 0
  BY DEF GzipStream
<1>4. h.inner # AllInflated(s)
  BY <1>2 DEF AllInflated
<1> QED
  BY <1>1, <1>2, <1>3, <1>4 DEF Core

\* new(), new_raw() and reset()
LEMMA NewIs ==
  ASSUME Sizes, NEW s, GzipStream(s)
  PROVE  /\ New(s) \in Fields
         /\ New(s).inner = <<0, 0>> /\ New(s).dict_pos = 0 /\ New(s).total_out = 0
         /\ New(s).deflate_in = 0 /\ New(s).last_boundary = NoBoundary
         /\ New(s).finished = FALSE /\ New(s).stage = <<>> /\ New(s).replay = NoBytes
         /\ New(s).header_size = 0 /\ New(s).header_len = 0
         /\ New(s).header_state = IF s.raw THEN "Decompressing" ELSE "ReadingFixedHeader"
<1>1. [i \in 0..(WindowSize - 1) |-> -1] \in [0..(WindowSize - 1) -> Int]
  OBVIOUS
<1>2. NoBytes \in [at : Int, bytes : Seq(Int)]
  BY DEF NoBytes
<1> QED
  BY <1>1, <1>2 DEF New, Fields

\* A decoder still reading the header.
LEMMA InHeaderIs ==
  ASSUME Sizes, NEW s, GzipStream(s), NEW g, NEW fed_ \in Nat, NEW taken_,
         InHeader(s, g, fed_, taken_)
  PROVE  /\ g \in Fields
         /\ g.inner = <<0, 0>> /\ g.dict_pos = 0 /\ g.total_out = 0
         /\ g.deflate_in = 0 /\ g.last_boundary = NoBoundary
         /\ g.finished = FALSE /\ g.stage = <<>> /\ g.replay = NoBytes
         /\ g.header_size = 0 /\ g.header_len = fed_
         /\ g.header_state = "ReadingFixedHeader"
<1>1. /\ New(s) \in Fields /\ g = [New(s) EXCEPT !.header_len = fed_] /\ ~ s.raw
  BY NewIs DEF InHeader
<1>2. /\ New(s).inner = <<0, 0>> /\ New(s).dict_pos = 0 /\ New(s).total_out = 0
      /\ New(s).deflate_in = 0 /\ New(s).last_boundary = NoBoundary
      /\ New(s).finished = FALSE /\ New(s).stage = <<>> /\ New(s).replay = NoBytes
      /\ New(s).header_size = 0
      /\ New(s).header_state = "ReadingFixedHeader"
  BY <1>1, NewIs
<1> QED
  BY <1>1, <1>2 DEF Fields

\* decompress() reading the header.
LEMMA ReadAnswers ==
  ASSUME Sizes, NEW s, GzipStream(s), NEW g, NEW fed_ \in Nat, NEW taken_,
         InHeader(s, g, fed_, taken_),
         NEW n \in Nat, NEW room \in Nat \ {0},
         NEW a \in ReadHeader(s, g, Span(fed_, n), room)
  PROVE  Answered(s, g, fed_, taken_, n, room, a)
<1>1. /\ g \in Fields
      /\ g.inner = <<0, 0>> /\ g.dict_pos = 0 /\ g.total_out = 0
      /\ g.deflate_in = 0 /\ g.last_boundary = NoBoundary
      /\ g.finished = FALSE /\ g.stage = <<>> /\ g.replay = NoBytes
      /\ g.header_size = 0 /\ g.header_len = fed_
      /\ g.header_state = "ReadingFixedHeader"
  BY InHeaderIs
<1>2. /\ ~ s.raw /\ taken_ = 0 /\ ~ HeaderSettled(s, fed_)
      /\ g = [New(s) EXCEPT !.header_len = fed_]
  BY <1>1 DEF InHeader
<1>3. /\ s.header \in Nat /\ s.deflated \in Nat \ {0} /\ s.magic \in BOOLEAN
      /\ s.magic => s.packed = s.header + s.deflated + TrailerSize
      /\ ~ s.magic => s.header = 0 /\ s.packed = s.deflated
      /\ Framed(s) <=> s.magic
      /\ s.inflated[s.deflated] \in Nat /\ TrailerSize \in Nat /\ MinHeader \in Nat \ {0}
  BY <1>2, FramingIs DEF Sizes
<1>4. /\ Len(Span(fed_, n)) = n
      /\ n > 0 => Span(fed_, n)[1] = fed_ /\ Span(fed_, n) # <<>>
  <2>1. fed_ \in Int
    OBVIOUS
  <2> QED BY <2>1, SpanIs
<1>5. Span(0, 0) = <<>> /\ 0 + 0 = 0 /\ 0 + 0 <= s.inflated[s.deflated]
  BY <1>3 DEF Span
<1>6. HoldsAWindow(s, g)
  BY <1>1 DEF HoldsAWindow, Sizes, NoBytes
<1>7. CASE n = 0
  <2>1. a = Answer(g, 0, <<>>, IF fed_ > 0 THEN "TruncatedInput" ELSE "StreamEnd")
    BY <1>1, <1>4, <1>7 DEF ReadHeader
  <2>2. Framed(s) => fed_ < s.packed
    BY <1>2, <1>3 DEF HeaderSettled
  <2>3. /\ a.self = g /\ a.consumed = 0 /\ a.bytes = <<>>
        /\ a.status = IF fed_ > 0 THEN "TruncatedInput" ELSE "StreamEnd"
    BY <2>1 DEF Answer
  <2>6. /\ a.consumed \in 0..n /\ HoldsAWindow(s, a.self) /\ 0 \in 0..room
        /\ a.bytes = Span(taken_, 0) /\ taken_ + 0 <= s.inflated[s.deflated]
    BY <1>2, <1>5, <1>6, <1>7, <2>3
  <2>4. CASE fed_ > 0
    <3>1. a.status = "TruncatedInput" /\ n = 0 /\ a.consumed = 0
      BY <1>7, <2>3, <2>4
    <3> QED BY <2>2, <2>6, <3>1 DEF Answered
  <2>5. CASE ~ (fed_ > 0)
    BY <1>2, <1>5, <1>6, <1>7, <2>3, <2>5 DEF Answered
  <2> QED BY <2>4, <2>5
<1>8. CASE n > 0 /\ ~ HeaderSettled(s, fed_ + n)
  <2>1. PICK h : h = [g EXCEPT !.header_len = fed_ + n]
    OBVIOUS
  <2>2. a = Answer(h, n, <<>>, "Continue")
    BY <1>1, <1>4, <1>8, <2>1 DEF ReadHeader
  <2>3. h = [New(s) EXCEPT !.header_len = fed_ + n] /\ h.header_len = fed_ + n
    BY <1>1, <1>2, <2>1 DEF Fields
  <2>4. InHeader(s, h, fed_ + n, 0)
    BY <1>2, <1>8, <2>3 DEF InHeader
  <2>5. HoldsAWindow(s, h)
    <3>1. h.stage = g.stage /\ h.replay = g.replay
      BY <1>1, <2>1 DEF Fields
    <3> QED BY <1>6, <3>1 DEF HoldsAWindow
  <2>6. /\ a.self = h /\ a.consumed = n /\ a.bytes = <<>> /\ a.status = "Continue"
    BY <2>2 DEF Answer
  <2>7. Right(s, h, fed_ + n, 0 + 0)
    BY <1>5, <2>4 DEF Right
  <2>8. /\ a.consumed \in 0..n /\ a.consumed # 0 /\ HoldsAWindow(s, a.self)
        /\ a.bytes = Span(taken_, 0) /\ taken_ + 0 <= s.inflated[s.deflated]
        /\ a.status = "Continue" /\ Right(s, a.self, fed_ + a.consumed, taken_ + 0)
    BY <1>2, <1>5, <1>8, <2>5, <2>6, <2>7
  <2>9. 0 \in 0..room
    OBVIOUS
  <2> QED BY <2>8, <2>9 DEF Answered
<1>9. CASE n > 0 /\ HeaderSettled(s, fed_ + n) /\ ~ s.magic
  <2>1. PICK len \in Nat \ {0} : len = fed_ + n
    <3>1. fed_ + n \in Nat \ {0}
      BY <1>9
    <3> QED BY <3>1, Zenon
  <2>2. PICK r : r = [at |-> 0, bytes |-> Span(0, len)]
    OBVIOUS
  <2>3. PICK h : h = [g EXCEPT !.header_state = "Decompressing", !.header_len = 0,
                               !.replay = r]
    OBVIOUS
  <2>4. a \in InflateReplay(s, h, n, TRUE, room)
    <3>1. Span(fed_, n)[1] - g.header_len = 0
      BY <1>1, <1>4, <1>9
    <3>2. g.header_len + n = len
      BY <1>1, <2>1
    <3>3. h = [g EXCEPT !.header_state = "Decompressing", !.header_len = 0,
                        !.replay = [at |-> Span(fed_, n)[1] - g.header_len,
                                    bytes |-> Span(Span(fed_, n)[1] - g.header_len, len)]]
      BY <2>2, <2>3, <3>1
    <3>4. Len(Span(fed_, n)) = n /\ n # 0 /\ n > 0 /\ HeaderSettled(s, g.header_len + n)
      BY <1>4, <1>9, <2>1, <3>2
    <3>5. ReadHeader(s, g, Span(fed_, n), room) =
            InflateReplay(s, [g EXCEPT !.header_state = "Decompressing", !.header_len = 0,
                                !.replay = [at |-> Span(fed_, n)[1] - g.header_len,
                                            bytes |-> Span(Span(fed_, n)[1] - g.header_len,
                                                           g.header_len + n)]],
                          n, TRUE, room)
      BY <1>9, <3>4 DEF ReadHeader
    <3> QED BY <3>2, <3>3, <3>5
  <2>5. r \in [at : Int, bytes : Seq(Int)]
    <3>1. 0 \in Int /\ len \in Nat
      OBVIOUS
    <3>2. Span(0, len) \in Seq(Int)
      BY <3>1, SpanIs
    <3> QED BY <2>2, <3>1, <3>2
  <2>6. /\ h \in Fields
        /\ h.inner = <<0, 0>> /\ h.dict_pos = 0 /\ h.total_out = 0
        /\ h.deflate_in = 0 /\ h.last_boundary = NoBoundary
        /\ h.finished = FALSE /\ h.stage = <<>> /\ h.replay = r
        /\ h.header_size = 0 /\ h.header_state = "Decompressing"
    BY <1>1, <2>3, <2>5 DEF Fields
  <2>7. Core(s, h)
    BY <1>3, <1>9, <2>6, CoreStarts
  <2>8. Replays(s, h, len, n, room, a)
    <3>1. h.replay = [at |-> h.inner[1], bytes |-> Span(h.inner[1], len)]
      BY <2>2, <2>6
    <3>2. TRUE \in BOOLEAN
      OBVIOUS
    <3> QED BY <2>4, <2>6, <2>7, <3>1, <3>2, ReplayIs
  <2>9. PICK c \in 0..len :
          /\ a.consumed = n /\ Moved(s, h, c, room, a)
          /\ a.self.replay = [at |-> h.inner[1] + c, bytes |-> Span(h.inner[1] + c, len - c)]
    BY <2>8 DEF Replays
  <2>10. PICK rest \in Nat : rest = len - c
    <3>1. len - c \in Nat
      OBVIOUS
    <3> QED BY <3>1, Zenon
  <2>11. PICK to : to = fed_ + n
    OBVIOUS
  <2>12. Goes(s, h.inner[2], c, to, room, a)
    <3>1. a.self.replay = [at |-> h.inner[1] + c, bytes |-> Span(h.inner[1] + c, rest)]
      BY <2>9, <2>10
    <3>2. /\ Len(a.self.replay.bytes) = rest /\ (rest = 0 => a.self.replay.bytes = <<>>)
      <4>1. h.inner[1] + c \in Int
        BY <2>6
      <4>2. /\ Len(Span(h.inner[1] + c, rest)) = rest
            /\ rest = 0 => Span(h.inner[1] + c, rest) = <<>>
        BY <4>1, SpanIs
      <4> QED BY <3>1, <4>2
    <3>3. to = s.header + (h.inner[1] + c) + rest
      BY <1>3, <1>9, <2>1, <2>6, <2>10, <2>11
    <3>4. c \in Nat /\ room \in Nat /\ ~ Framed(s)
      BY <1>3, <1>9
    <3> QED BY <2>7, <2>9, <3>1, <3>2, <3>3, <3>4, MovedIs
  <2>13. Goes(s, taken_, c, fed_ + a.consumed, room, a)
    BY <1>2, <2>6, <2>9, <2>11, <2>12
  <2>14. taken_ \in Nat /\ a.consumed \in 0..n /\ a.consumed > 0
    BY <1>2, <1>9, <2>9
  <2> QED BY <2>13, <2>14, GoesAnswers
<1>10. CASE n > 0 /\ HeaderSettled(s, fed_ + n) /\ s.magic
  <2>1. PICK head \in 1..n : head = s.header - fed_
    <3>1. s.header - fed_ \in 1..n
      BY <1>2, <1>3, <1>10 DEF HeaderSettled
    <3> QED BY <3>1, Zenon
  <2>2. PICK h : h = [g EXCEPT !.header_state = "Decompressing", !.header_len = 0,
                               !.header_size = s.header]
    OBVIOUS
  <2>3. /\ h \in Fields
        /\ h.inner = <<0, 0>> /\ h.dict_pos = 0 /\ h.total_out = 0
        /\ h.deflate_in = 0 /\ h.last_boundary = NoBoundary
        /\ h.finished = FALSE /\ h.stage = <<>> /\ h.replay = NoBytes
        /\ h.header_size = s.header /\ h.header_state = "Decompressing"
    BY <1>1, <1>3, <2>2 DEF Fields
  <2>4. Core(s, h)
    BY <2>3, CoreStarts
  <2>5. HoldsAWindow(s, h)
    BY <2>3 DEF HoldsAWindow, Sizes, NoBytes
  <2>6. a \in IF n = head THEN {Answer(h, head, <<>>, "Continue")}
              ELSE {[b EXCEPT !.consumed = head + @] :
                      b \in InflateToOutput(s, h, DeflateAt(s, Span(fed_, n)) + head, n - head,
                                            TRUE, room)}
    <3>1. s.header - g.header_len = head /\ g.header_len + n = fed_ + n
      BY <1>1, <2>1
    <3>2. Len(Span(fed_, n)) = n /\ n # 0 /\ n > 0
      BY <1>4, <1>10
    <3>3. ReadHeader(s, g, Span(fed_, n), room) =
            LET h_ == [g EXCEPT !.header_state = "Decompressing", !.header_len = 0,
                                !.header_size = s.header]
            IN  IF n = s.header - g.header_len
                THEN {Answer(h_, s.header - g.header_len, <<>>, "Continue")}
                ELSE {[b EXCEPT !.consumed = (s.header - g.header_len) + @] :
                        b \in InflateToOutput(s, h_, DeflateAt(s, Span(fed_, n))
                                                      + (s.header - g.header_len),
                                              n - (s.header - g.header_len), TRUE, room)}
      BY <1>10, <3>1, <3>2 DEF ReadHeader, HeaderBytes
    <3> QED BY <2>2, <3>1, <3>3
  <2>7. CASE n = head
    <3>1. /\ a.self = h /\ a.consumed = head /\ a.bytes = <<>> /\ a.status = "Continue"
      BY <2>6, <2>7 DEF Answer
    <3>2. Staged(h, 0 + 0)
      BY <1>5, <2>3 DEF Staged, Sizes
    <3>3. fed_ + head = s.header /\ s.header = s.header + 0 + 0
      BY <1>3, <2>1
    <3>4. Inflating(s, h, fed_ + head)
      BY <2>3, <3>3 DEF Inflating, NoBytes
    <3>5. Right(s, h, fed_ + head, 0 + 0)
      BY <2>4, <3>2, <3>4 DEF Right
    <3>6. /\ a.consumed \in 0..n /\ a.consumed # 0 /\ HoldsAWindow(s, a.self)
          /\ a.bytes = Span(taken_, 0) /\ taken_ + 0 <= s.inflated[s.deflated]
          /\ a.status = "Continue" /\ Right(s, a.self, fed_ + a.consumed, taken_ + 0)
      BY <1>2, <1>5, <2>5, <3>1, <3>5
    <3>7. 0 \in 0..room
      OBVIOUS
    <3> QED BY <3>6, <3>7 DEF Answered
  <2>8. CASE n # head
    <3>1. PICK m \in Nat \ {0} : m = n - head
      <4>1. n - head \in Nat \ {0}
        BY <2>8
      <4> QED BY <4>1, Zenon
    <3>2. DeflateAt(s, Span(fed_, n)) + head = 0
      BY <1>3, <1>4, <1>10, <2>1 DEF DeflateAt
    <3>3. PICK b \in InflateToOutput(s, h, 0, m, TRUE, room) :
            a = [b EXCEPT !.consumed = head + @]
      BY <2>6, <2>8, <3>1, <3>2
    <3>4. Inflates(s, h, m, room, b)
      <4>1. /\ m \in Nat /\ (m > 0 => 0 = h.inner[1]) /\ TRUE \in BOOLEAN
            /\ (m = 0 => ~ TRUE)
        BY <2>3
      <4> QED BY <2>3, <2>4, <4>1, InflateIs
    <3>5. b.consumed \in 0..m /\ b.self.replay = NoBytes /\ Moved(s, h, b.consumed, room, b)
      BY <2>3, <3>4 DEF Inflates
    <3>6. PICK c \in 0..m : c = b.consumed
      BY <3>5, Zenon
    <3>7. b = Answer(b.self, b.consumed, b.bytes, b.status)
      BY AnswerShape
    <3>8. /\ a.self = b.self /\ a.consumed = head + c /\ a.bytes = b.bytes
          /\ a.status = b.status
      BY <3>3, <3>6, <3>7 DEF Answer
    <3>9. Moved(s, h, c, room, a)
      BY <3>5, <3>6, <3>8 DEF Moved
    <3>10. PICK to : to = fed_ + (head + c)
      OBVIOUS
    <3>11. PICK none \in Nat : none = 0
      OBVIOUS
    <3>12. Goes(s, h.inner[2], c, to, room, a)
      <4>1. a.self.replay.bytes = <<>> /\ Len(a.self.replay.bytes) = none
        BY <3>5, <3>8, <3>11 DEF NoBytes
      <4>2. to = s.header + (h.inner[1] + c) + none
        BY <1>3, <2>1, <2>3, <3>10, <3>11
      <4>3. c \in Nat /\ room \in Nat /\ ~ (none > 0)
        BY <3>11
      <4> QED BY <2>4, <3>9, <4>1, <4>2, <4>3, MovedIs
    <3>13. Goes(s, taken_, c, fed_ + a.consumed, room, a)
      BY <1>2, <2>3, <3>8, <3>10, <3>12
    <3>14. taken_ \in Nat /\ a.consumed \in 0..n /\ a.consumed > 0 /\ c \in Nat
      BY <1>2, <3>1, <3>8
    <3> QED BY <3>13, <3>14, GoesAnswers
  <2> QED BY <2>7, <2>8
<1> QED
  BY <1>3, <1>7, <1>8, <1>9, <1>10

-----------------------------------------------------------------------------
(***************************************************************************)
(* decompress(), checkpoint() and restore().                               *)
(***************************************************************************)

\* decompress(), of a decoder in step with its caller.
LEMMA DecompressAnswers ==
  ASSUME Sizes, NEW s, GzipStream(s), NEW g, NEW fed_ \in Nat, NEW taken_ \in Nat,
         Right(s, g, fed_, taken_),
         NEW n \in Nat, NEW room \in Nat \ {0},
         NEW a \in Decompress(s, g, Span(fed_, n), room)
  PROVE  Answered(s, g, fed_, taken_, n, room, a)
<1>1. /\ Len(Span(fed_, n)) = n
      /\ Span(fed_, n) = <<>> <=> n = 0
      /\ n > 0 => Span(fed_, n)[1] = fed_
  <2>1. fed_ \in Int
    OBVIOUS
  <2> QED BY <2>1, SpanIs
<1>2. CASE InHeader(s, g, fed_, taken_)
  <2>1. g.stage = <<>> /\ g.header_state = "ReadingFixedHeader"
    BY <1>2, InHeaderIs
  <2>2. a \in ReadHeader(s, g, Span(fed_, n), room)
    BY <2>1 DEF Decompress
  <2> QED BY <1>2, <2>2, ReadAnswers
<1>3. CASE Core(s, g) /\ Staged(g, taken_) /\ Past(s, g, fed_)
  <2>1. CASE g.stage # <<>>
    <3>1. a = FlushStage(g, room)
      BY <2>1 DEF Decompress
    <3>2. Answered(s, g, fed_, taken_, n, room, FlushStage(g, room))
      BY <1>3, <2>1, FlushAnswers
    <3> QED BY <3>1, <3>2
  <2>2. CASE g.stage = <<>> /\ Inflating(s, g, fed_)
    <3>1. g.header_state = "Decompressing" /\ taken_ = g.inner[2]
      <4>1. g \in Fields
        BY <1>3 DEF Core
      <4> QED BY <1>3, <2>2, <4>1, NothingStaged DEF Inflating
    <3>2. a \in IF g.replay.bytes # <<>> THEN InflateHeld(s, g, Span(fed_, n), room)
                ELSE InflateToOutput(s, g, DeflateAt(s, Span(fed_, n)), n,
                                     Span(fed_, n) # <<>>, room)
      BY <1>1, <2>2, <3>1 DEF Decompress
    <3>3. CASE g.replay.bytes # <<>>
      BY <1>3, <2>2, <3>2, <3>3, HeldAnswers
    <3>4. CASE g.replay.bytes = <<>>
      <4>1. g.inner[1] \in Nat /\ s.header \in Nat
        <5>1. g.inner[1] \in Nat
          BY <1>3 DEF Core, Fields
        <5> QED BY <5>1 DEF GzipStream
      <4>2. fed_ = s.header + g.inner[1]
        <5>1. fed_ = s.header + g.inner[1] + Len(g.replay.bytes)
          BY <2>2 DEF Inflating
        <5> QED BY <3>4, <4>1, <5>1
      <4>3. PICK at : at = DeflateAt(s, Span(fed_, n))
        OBVIOUS
      <4>4. PICK more \in BOOLEAN : more = (Span(fed_, n) # <<>>)
        <5>1. (Span(fed_, n) # <<>>) \in BOOLEAN
          OBVIOUS
        <5> QED BY <5>1, Zenon
      <4>5. n > 0 => at = g.inner[1]
        BY <1>1, <4>1, <4>2, <4>3 DEF DeflateAt
      <4>6. n = 0 => ~ more
        BY <1>1, <4>4, Zenon
      <4>7. a \in InflateToOutput(s, g, at, n, more, room)
        BY <3>2, <3>4, <4>3, <4>4
      <4>8. Answered(s, g, fed_, g.inner[2], n, room, a)
        BY <1>3, <3>1, <3>4, <4>2, <4>5, <4>6, <4>7, InflateAnswers
      <4> QED BY <3>1, <4>8
    <3> QED BY <3>3, <3>4
  <2>3. CASE g.stage = <<>> /\ InTrailer(s, g, fed_)
    <3>1. g.header_state = "Trailer"
      BY <2>3 DEF InTrailer
    <3>2. a = SkipTrailer(g, n)
      BY <1>1, <2>3, <3>1 DEF Decompress
    <3>3. Answered(s, g, fed_, taken_, n, room, SkipTrailer(g, n))
      BY <1>3, <2>3, SkipAnswers
    <3> QED BY <3>2, <3>3
  <2>4. ~ (g.stage = <<>> /\ AllDone(s, g, fed_))
    BY DEF AllDone
  <2> QED BY <1>3, <2>1, <2>2, <2>3, <2>4 DEF Past
<1> QED
  BY <1>2, <1>3 DEF Right, Past

\* checkpoint(): what it offers is where it is, at the end of a block.
LEMMA CheckpointRight ==
  ASSUME Sizes, NEW s, GzipStream(s), NEW g, NEW fed_ \in Nat, NEW taken_ \in Nat,
         Right(s, g, fed_, taken_), NEW cp \in Checkpoint(s, g, fed_, taken_)
  PROVE  SavedRight(s, cp) /\ cp.packed = IF cp = Start THEN 0 ELSE fed_
<1>1. g.stage = <<>> /\ g.replay.bytes = <<>>
  BY DEF Checkpoint
<1>2. CASE g.last_boundary = NoBoundary
  BY <1>1, <1>2 DEF Checkpoint, SavedRight, Start
<1>3. CASE g.last_boundary # NoBoundary
  <2>1. cp = [packed |-> fed_, unpacked |-> taken_, fresh |-> FALSE,
              header_size |-> g.header_size,
              window |-> g.last_boundary.window, inner |-> g.last_boundary.inner]
    BY <1>1, <1>3 DEF Checkpoint
  <2>2. IsNow(g, fed_, taken_)
    BY <1>1, <1>3 DEF Checkpoint
  <2>3. Core(s, g) /\ Past(s, g, fed_)
    <3>1. ~ InHeader(s, g, fed_, taken_)
      BY <1>3, InHeaderIs
    <3> QED BY <3>1 DEF Right, Past
  <2>4. PICK b : b = g.last_boundary
    OBVIOUS
  <2>5. /\ BoundaryRight(s, b) /\ b.inner[1] <= g.inner[1] /\ g.header_size = s.header
        /\ g.inner[1] <= s.deflated /\ g \in Fields
    BY <1>3, <2>3, <2>4 DEF Core
  <2>6. /\ b \in Boundaries /\ b.inner[1] \in s.blocks /\ b.inner[2] = b.unpacked
        /\ b.unpacked = s.inflated[b.inner[1]] /\ b.packed <= s.header + b.inner[1]
        /\ b.window = History(b.unpacked)
    BY <2>5 DEF BoundaryRight
  <2>7. /\ b.inner \in Nat \X Nat /\ b.inner[1] \in Nat /\ g.inner[1] \in Nat
        /\ s.header \in Nat /\ s.deflated \in Nat
        /\ b.inner[1] < s.deflated
    <3>1. b.inner \in Nat \X Nat /\ g.inner \in Nat \X Nat
      BY <2>5, <2>6 DEF Boundaries, Fields
    <3>2. b.inner[1] \in 1..(s.deflated - 1) /\ s.deflated \in Nat /\ s.header \in Nat
      BY <2>6 DEF GzipStream
    <3> QED BY <3>1, <3>2
  <2>8. b.packed = fed_ /\ b.unpacked = taken_
    BY <2>2, <2>4 DEF IsNow
  <2>9. fed_ <= s.header + b.inner[1]
    BY <2>6, <2>8
  <2>10. fed_ = s.header + b.inner[1]
    <3>1. CASE Inflating(s, g, fed_)
      <4>1. fed_ = s.header + g.inner[1]
        <5>1. fed_ = s.header + g.inner[1] + Len(g.replay.bytes)
          BY <3>1 DEF Inflating
        <5> QED BY <1>1, <2>7, <5>1
      <4> QED BY <2>5, <2>7, <2>9, <4>1
    <3>2. CASE InTrailer(s, g, fed_)
      <4>1. g.trailer \in 1..TrailerSize /\ TrailerSize \in Nat
            /\ fed_ = s.header + s.deflated + (TrailerSize - g.trailer)
        BY <3>2 DEF InTrailer, Sizes
      <4> QED BY <2>7, <2>9, <4>1
    <3>3. CASE AllDone(s, g, fed_)
      BY <1>1, <3>3 DEF AllDone
    <3> QED BY <2>3, <3>1, <3>2, <3>3 DEF Past
  <2>11. b.inner = <<fed_ - s.header, taken_>>
    <3>1. b.inner = <<b.inner[1], b.inner[2]>>
      BY <2>7
    <3>2. b.inner[1] = fed_ - s.header /\ b.inner[2] = taken_
      BY <2>6, <2>7, <2>8, <2>10
    <3> QED BY <3>1, <3>2
  <2>12. /\ cp.fresh = FALSE /\ cp.packed = fed_ /\ cp.unpacked = taken_
         /\ cp.inner = b.inner /\ cp.header_size = s.header /\ cp.window = b.window
    BY <2>1, <2>4, <2>5
  <2>13. SavedRight(s, cp)
    BY <2>6, <2>8, <2>11, <2>12 DEF SavedRight
  <2>14. cp # Start
    BY <2>12 DEF Start
  <2> QED BY <2>12, <2>13, <2>14
<1> QED
  BY <1>2, <1>3

\* A new decoder is in step with a caller at the start of the file.
LEMMA NewRight ==
  ASSUME Sizes, NEW s, GzipStream(s)
  PROVE  Right(s, New(s), 0, 0) /\ HoldsAWindow(s, New(s))
<1>1. /\ New(s) \in Fields
      /\ New(s).inner = <<0, 0>> /\ New(s).dict_pos = 0 /\ New(s).total_out = 0
      /\ New(s).deflate_in = 0 /\ New(s).last_boundary = NoBoundary
      /\ New(s).finished = FALSE /\ New(s).stage = <<>> /\ New(s).replay = NoBytes
      /\ New(s).header_size = 0 /\ New(s).header_len = 0
      /\ New(s).header_state = IF s.raw THEN "Decompressing" ELSE "ReadingFixedHeader"
  BY NewIs
<1>2. HoldsAWindow(s, New(s))
  BY <1>1 DEF HoldsAWindow, NoBytes, Sizes
<1>3. CASE s.raw
  <2>1. s.header = 0
    BY <1>3, FramingIs
  <2>2. Core(s, New(s))
    BY <1>1, <1>3, <2>1, CoreStarts
  <2>3. Staged(New(s), 0)
    <3>1. Span(0, 0) = <<>>
      BY DEF Span
    <3> QED BY <1>1, <3>1 DEF Staged, Sizes
  <2>4. Inflating(s, New(s), 0)
    BY <1>1, <1>3, <2>1 DEF Inflating, NoBytes
  <2> QED BY <1>2, <2>2, <2>3, <2>4 DEF Right
<1>4. CASE ~ s.raw
  <2>1. ~ HeaderSettled(s, 0)
    <3>1. s.header \in Nat /\ (s.magic => s.header > 0) /\ MinHeader \in Nat \ {0}
      BY FramingIs DEF Sizes
    <3> QED BY <3>1 DEF HeaderSettled
  <2>2. New(s) = [New(s) EXCEPT !.header_len = 0]
    BY <1>1 DEF Fields
  <2>3. InHeader(s, New(s), 0, 0)
    BY <1>1, <1>4, <2>1, <2>2 DEF InHeader
  <2> QED BY <1>2, <2>3 DEF Right
<1> QED
  BY <1>3, <1>4

\* restore(): in step with a caller there.
LEMMA RestoredRight ==
  ASSUME Sizes, NEW s, GzipStream(s), NEW cp, SavedRight(s, cp)
  PROVE  /\ Right(s, Restored(s, cp), cp.packed, cp.unpacked)
         /\ HoldsAWindow(s, Restored(s, cp))
         /\ cp.packed \in Nat /\ cp.unpacked \in Nat
<1>1. CASE cp = Start
  <2>1. cp.fresh /\ cp.packed = 0 /\ cp.unpacked = 0
    BY <1>1 DEF Start
  <2> QED BY <2>1, NewRight DEF Restored
<1>2. CASE cp # Start
  <2>1. /\ cp.fresh = FALSE
        /\ cp.packed \in Nat /\ cp.unpacked \in Nat
        /\ cp.inner = <<cp.packed - s.header, cp.unpacked>>
        /\ cp.inner[1] \in s.blocks /\ cp.unpacked = s.inflated[cp.inner[1]]
        /\ cp.header_size = s.header /\ cp.window = History(cp.unpacked)
    BY <1>2 DEF SavedRight
  <2>2. PICK q \in 1..(s.deflated - 1) : q = cp.inner[1] /\ q = cp.packed - s.header
    <3>1. cp.inner[1] \in 1..(s.deflated - 1)
      BY <2>1 DEF GzipStream
    <3>2. cp.inner[1] = cp.packed - s.header
      BY <2>1
    <3> QED BY <3>1, <3>2, Zenon
  <2>3. PICK o \in Nat : o = cp.unpacked
    BY <2>1, Zenon
  <2>4. s.header \in Nat /\ s.deflated \in Nat /\ WindowSize \in Nat \ {0}
    BY DEF GzipStream, Sizes
  <2>5. /\ History(o) \in Seq(Int) /\ Len(History(o)) \in Nat
        /\ Len(History(o)) <= WindowSize
    <3>1. /\ History(o) \in Seq(Int)
          /\ Len(History(o)) = IF o < WindowSize THEN o ELSE WindowSize
      BY <2>4, HistoryIs
    <3> QED BY <2>4, <3>1
  <2>6. PICK buf : buf = [i \in 0..(WindowSize - 1) |->
                            IF i < Len(History(o)) THEN History(o)[i + 1] ELSE -1]
    OBVIOUS
  <2>7. buf \in [0..(WindowSize - 1) -> Int]
    <3>1. ASSUME NEW i \in 0..(WindowSize - 1)
          PROVE  (IF i < Len(History(o)) THEN History(o)[i + 1] ELSE -1) \in Int
      <4>1. i < Len(History(o)) => i + 1 \in 1..Len(History(o))
        BY <2>4, <2>5
      <4> QED BY <2>5, <4>1
    <3> QED BY <2>6, <3>1
  <2>8. RingHolds(buf, Len(History(o)), o)
    <3>1. \A i \in 0..(Len(History(o)) - 1) : buf[i] = History(o)[i + 1]
      <4>1. ASSUME NEW i \in 0..(Len(History(o)) - 1)
            PROVE  i \in 0..(WindowSize - 1) /\ i < Len(History(o))
        BY <2>4, <2>5
      <4> QED BY <2>6, <4>1
    <3> QED BY <2>4, <3>1, RingRestored
  <2>9. PICK pos \in Nat : pos = Len(History(o))
    BY <2>5, Zenon
  <2>10. PICK n : n = New(s)
    OBVIOUS
  <2>11. /\ n \in Fields
         /\ n.deflate_in = 0 /\ n.last_boundary = NoBoundary
         /\ n.finished = FALSE /\ n.stage = <<>> /\ n.replay = NoBytes
         /\ n.dict_buf = [i \in 0..(WindowSize - 1) |-> -1]
    BY <2>10, NewIs DEF New
  <2>12. PICK h : h = [n EXCEPT !.inner = <<q, o>>, !.dict_buf = buf, !.dict_pos = pos,
                                !.header_state = "Decompressing", !.header_size = s.header,
                                !.total_out = o]
    OBVIOUS
  <2>13. Restored(s, cp) = h
    <3>1. cp.inner = <<q, o>> /\ cp.window = History(o)
      BY <2>1, <2>2, <2>3
    <3>2. buf = [i \in DOMAIN n.dict_buf |->
                   IF i < Len(cp.window) THEN cp.window[i + 1] ELSE n.dict_buf[i]]
      BY <2>6, <2>11, <3>1
    <3> QED BY <2>1, <2>3, <2>9, <2>10, <2>12, <3>1, <3>2 DEF Restored
  <2>14. /\ h \in Fields
         /\ h.inner = <<q, o>> /\ h.dict_buf = buf /\ h.dict_pos = pos
         /\ h.header_state = "Decompressing" /\ h.header_size = s.header /\ h.total_out = o
         /\ h.deflate_in = 0 /\ h.last_boundary = NoBoundary
         /\ h.finished = FALSE /\ h.stage = <<>> /\ h.replay = NoBytes
    <3>1. q \in Nat
      BY <2>4
    <3> QED BY <2>4, <2>7, <2>11, <2>12, <3>1 DEF Fields
  <2>15. Core(s, h)
    <3>1. q <= s.deflated /\ o <= s.inflated[q] /\ q # s.deflated /\ 0 <= q
      BY <2>1, <2>2, <2>3, <2>4
    <3>2. <<q, o>> # AllInflated(s)
      BY <3>1 DEF AllInflated
    <3>3. RingHolds(h.dict_buf, h.dict_pos, h.inner[2])
      BY <2>8, <2>9, <2>14
    <3> QED BY <2>14, <3>1, <3>2, <3>3 DEF Core
  <2>16. Staged(h, o)
    <3>1. Span(o, o - o) = <<>>
      BY DEF Span
    <3> QED BY <2>4, <2>14, <3>1 DEF Staged
  <2>17. Inflating(s, h, cp.packed)
    <3>1. h.replay.bytes = <<>>
      BY <2>14 DEF NoBytes
    <3>2. cp.packed = s.header + q + 0
      BY <2>1, <2>2, <2>4
    <3>3. cp.packed = s.header + h.inner[1] + Len(h.replay.bytes)
      BY <2>14, <3>1, <3>2
    <3> QED BY <2>14, <3>1, <3>3 DEF Inflating
  <2>18. HoldsAWindow(s, h)
    BY <2>4, <2>14 DEF HoldsAWindow, NoBytes
  <2>19. Right(s, h, cp.packed, cp.unpacked)
    BY <2>3, <2>15, <2>16, <2>17 DEF Right
  <2> QED BY <2>1, <2>13, <2>18, <2>19
<1> QED
  BY <1>1, <1>2

-----------------------------------------------------------------------------
(***************************************************************************)
(* The steps of the caller keep the invariant.                             *)
(***************************************************************************)

\* The invariant, with what it says of the last call.
IInv == GzipInv /\ TypeOK /\ BytesExact

\* What a Decode step does.
Decoded(n, room, a) ==
  /\ n = 0 => fed = file_len
  /\ codec' = a.self
  /\ fed' = fed + a.consumed /\ taken' = taken + Len(a.bytes)
  /\ call' = [from |-> <<fed, taken>>, offered |-> n, room |-> room,
              consumed |-> a.consumed, bytes |-> a.bytes, status |-> a.status]
  /\ UNCHANGED <<caller, saved, restores>>

\* A call is one whose answer is right.
LEMMA DecodeIs ==
  ASSUME GzipDecoders, GzipInv, Decode
  PROVE  \E n \in Nat, room \in Nat \ {0} : \E a :
           /\ n <= file_len - fed
           /\ Decoded(n, room, a) /\ Answered(stream, codec, fed, taken, n, room, a)
<1>1. /\ Sizes /\ stream \in Streams /\ GzipStream(stream)
      /\ Right(stream, codec, fed, taken) /\ file_len \in Nat
      /\ fed \in 0..file_len /\ taken \in Nat /\ MaxRead \in Nat
      /\ Rooms \in SUBSET (Nat \ {0})
      /\ \A d, data, room :
           CodecDecompress(stream, d, data, room) = Decompress(stream, d, data, room)
  BY DEF GzipDecoders, GzipInv, Decode
<1>2. PICK n \in 0..Min({MaxRead, file_len - fed}), room \in Rooms :
        /\ n = 0 => fed = file_len
        /\ \E a \in CodecDecompress(stream, codec, Span(fed, n), room) :
             /\ codec' = a.self
             /\ fed' = fed + a.consumed
             /\ taken' = taken + Len(a.bytes)
             /\ call' = [from |-> <<fed, taken>>, offered |-> n, room |-> room,
                         consumed |-> a.consumed, bytes |-> a.bytes, status |-> a.status]
  BY DEF Decode
<1>3. n \in Nat /\ n <= file_len - fed
  <2>1. MaxRead \in Int /\ file_len - fed \in Int
    BY <1>1
  <2>2. Min({MaxRead, file_len - fed}) =
          IF MaxRead <= file_len - fed THEN MaxRead ELSE file_len - fed
    BY <2>1, MinMaxIs
  <2> QED BY <1>1, <1>2, <2>1, <2>2
<1>4. PICK a \in Decompress(stream, codec, Span(fed, n), room) :
        /\ codec' = a.self
        /\ fed' = fed + a.consumed
        /\ taken' = taken + Len(a.bytes)
        /\ call' = [from |-> <<fed, taken>>, offered |-> n, room |-> room,
                    consumed |-> a.consumed, bytes |-> a.bytes, status |-> a.status]
  BY <1>1, <1>2
<1>5. fed \in Nat /\ room \in Nat \ {0}
  BY <1>1
<1>6. Answered(stream, codec, fed, taken, n, room, a)
  BY <1>1, <1>3, <1>4, <1>5, DecompressAnswers
<1>7. Decoded(n, room, a)
  BY <1>2, <1>4 DEF Decoded, Decode
<1> QED
  BY <1>3, <1>5, <1>6, <1>7

\* The bytes a call gave out.
LEMMA GivenIs ==
  ASSUME NEW n, NEW room \in Nat, NEW a, Decoded(n, room, a), taken \in Nat,
         Answered(stream, codec, fed, taken, n, room, a), stream.inflated[stream.deflated] \in Nat
  PROVE  \E k \in 0..room :
           /\ a.bytes = Span(taken, k) /\ Len(a.bytes) = k /\ taken' = taken + k
           /\ taken + k <= stream.inflated[stream.deflated]
           /\ \/ /\ a.status = "Continue" /\ Right(stream, codec', fed', taken')
                 /\ a.consumed = 0 /\ k = 0 => ~ Framed(stream) /\ WorksOn(codec, a)
              \/ /\ a.status = "StreamEnd"
                 /\ Framed(stream) /\ (n > 0 \/ fed > 0) =>
                      /\ fed + a.consumed = stream.packed
                      /\ taken + k = stream.inflated[stream.deflated]
                      /\ a.consumed > 0 \/ k > 0
              \/ /\ a.status = "TruncatedInput" /\ n = 0 /\ a.consumed = 0 /\ k = 0
                 /\ Framed(stream) => fed < stream.packed
<1>1. PICK k \in 0..room :
        /\ a.bytes = Span(taken, k) /\ taken + k <= stream.inflated[stream.deflated]
        /\ \/ /\ a.status = "Continue"
              /\ Right(stream, a.self, fed + a.consumed, taken + k)
              /\ a.consumed = 0 /\ k = 0 => ~ Framed(stream) /\ WorksOn(codec, a)
           \/ /\ a.status = "StreamEnd"
              /\ Framed(stream) /\ (n > 0 \/ fed > 0) =>
                   /\ fed + a.consumed = stream.packed
                   /\ taken + k = stream.inflated[stream.deflated]
                   /\ a.consumed > 0 \/ k > 0
           \/ /\ a.status = "TruncatedInput" /\ n = 0 /\ a.consumed = 0 /\ k = 0
              /\ Framed(stream) => fed < stream.packed
  BY DEF Answered
<1>2. Len(a.bytes) = k
  <2>1. taken \in Int /\ k \in Nat
    OBVIOUS
  <2> QED BY <1>1, <2>1, SpanIs
<1>3. codec' = a.self /\ fed' = fed + a.consumed /\ taken' = taken + k
  BY <1>2 DEF Decoded
<1> QED
  BY <1>1, <1>2, <1>3

\* A call keeps the invariant.
LEMMA DecodeKeeps ==
  ASSUME GzipDecoders, IInv, Decode
  PROVE  IInv'
<1>1. /\ GzipInv /\ stream \in Streams /\ GzipStream(stream) /\ Sizes
      /\ file_len \in Nat /\ fed \in 0..file_len /\ taken \in Nat
      /\ restores \in 0..MaxRestores
      /\ SavedRight(stream, saved) /\ saved.packed <= file_len
  BY DEF IInv, GzipInv, GzipDecoders, TypeOK
<1>2. PICK n \in Nat, room \in Nat \ {0} : \E a :
        /\ n <= file_len - fed
        /\ Decoded(n, room, a) /\ Answered(stream, codec, fed, taken, n, room, a)
  BY <1>1, DecodeIs
<1>3. PICK a : /\ n <= file_len - fed
               /\ Decoded(n, room, a) /\ Answered(stream, codec, fed, taken, n, room, a)
  BY <1>2
<1>4. stream.inflated[stream.deflated] \in Nat
  BY <1>1, FramingIs
<1>5. PICK k \in 0..room :
        /\ a.bytes = Span(taken, k) /\ Len(a.bytes) = k /\ taken' = taken + k
        /\ taken + k <= stream.inflated[stream.deflated]
        /\ \/ a.status = "Continue" /\ Right(stream, codec', fed', taken')
           \/ a.status \in {"StreamEnd", "TruncatedInput"}
  <2>1. PICK k \in 0..room :
          /\ a.bytes = Span(taken, k) /\ Len(a.bytes) = k /\ taken' = taken + k
          /\ taken + k <= stream.inflated[stream.deflated]
          /\ \/ /\ a.status = "Continue" /\ Right(stream, codec', fed', taken')
                /\ a.consumed = 0 /\ k = 0 => ~ Framed(stream) /\ WorksOn(codec, a)
             \/ /\ a.status = "StreamEnd"
                /\ Framed(stream) /\ (n > 0 \/ fed > 0) =>
                     /\ fed + a.consumed = stream.packed
                     /\ taken + k = stream.inflated[stream.deflated]
                     /\ a.consumed > 0 \/ k > 0
             \/ /\ a.status = "TruncatedInput" /\ n = 0 /\ a.consumed = 0 /\ k = 0
                /\ Framed(stream) => fed < stream.packed
    <3>1. room \in Nat
      OBVIOUS
    <3> QED BY <1>1, <1>3, <1>4, <3>1, GivenIs
  <2> QED BY <2>1
<1>6. a.consumed \in 0..n /\ HoldsAWindow(stream, codec')
  BY <1>3 DEF Answered, Decoded
<1>7. /\ fed' = fed + a.consumed
      /\ call' = [from |-> <<fed, taken>>, offered |-> n, room |-> room,
                  consumed |-> a.consumed, bytes |-> a.bytes, status |-> a.status]
      /\ stream' = stream /\ file_len' = file_len /\ saved' = saved /\ restores' = restores
  BY <1>3 DEF Decoded, caller
<1>8. fed' \in 0..file_len /\ taken' \in Nat
  BY <1>1, <1>3, <1>5, <1>6, <1>7
<1>9. Calling' => Right(stream', codec', fed', taken')
  BY <1>5, <1>7 DEF Calling
<1>10. GzipInv'
  BY <1>1, <1>6, <1>7, <1>8, <1>9 DEF GzipInv
<1>11. TypeOK'
  BY <1>1, <1>5, <1>6, <1>7, <1>8 DEF TypeOK
<1>12. BytesExact'
  <2>1. SUFFICES ASSUME NEW i \in 1..k
                 PROVE  /\ taken + i <= Len(stream.bytes)
                        /\ Span(taken, k)[i] = stream.bytes[taken + i]
    <3>1. Span(taken, k) = a.bytes /\ DOMAIN Span(taken, k) = 1..k
      BY <1>5 DEF Span
    <3> QED BY <1>7, <3>1 DEF BytesExact
  <2>2. stream.bytes = Span(0, stream.inflated[stream.deflated])
    BY <1>1 DEF GzipStream
  <2>3. /\ Len(stream.bytes) = stream.inflated[stream.deflated]
        /\ \A j \in 1..stream.inflated[stream.deflated] : stream.bytes[j] = 0 + j - 1
    <3>1. PICK z \in Nat : z = stream.inflated[stream.deflated]
      BY <1>4
    <3>2. 0 \in Int
      OBVIOUS
    <3>3. Len(Span(0, z)) = z /\ \A j \in 1..z : Span(0, z)[j] = 0 + j - 1
      BY <3>2, SpanIs
    <3> QED BY <2>2, <3>1, <3>3, Zenon
  <2>4. Span(taken, k)[i] = taken + i - 1
    <3>1. taken \in Int /\ k \in Nat
      BY <1>1
    <3> QED BY <3>1, SpanIs
  <2>5. taken + i \in 1..stream.inflated[stream.deflated]
    BY <1>1, <1>4, <1>5
  <2>6. stream.bytes[taken + i] = 0 + (taken + i) - 1
    BY <2>3, <2>5
  <2> QED BY <1>1, <2>3, <2>4, <2>5, <2>6
<1> QED
  BY <1>10, <1>11, <1>12 DEF IInv

\* So does a checkpoint the caller is given (checkpoint()),
LEMMA SaveKeeps ==
  ASSUME GzipDecoders, IInv, Save
  PROVE  IInv'
<1>1. /\ GzipInv /\ stream \in Streams /\ GzipStream(stream) /\ Sizes
      /\ file_len \in Nat /\ fed \in 0..file_len /\ taken \in Nat
      /\ Calling => Right(stream, codec, fed, taken)
      /\ HoldsAWindow(stream, codec)
      /\ \A d, p, u : CodecCheckpoint(stream, d, p, u) = Checkpoint(stream, d, p, u)
  BY DEF IInv, GzipInv, GzipDecoders
<1>2. PICK cp \in CodecCheckpoint(stream, codec, fed, taken) : saved' = cp
  BY DEF Save
<1>3. /\ Calling /\ codec' = codec /\ stream' = stream /\ file_len' = file_len
      /\ fed' = fed /\ taken' = taken /\ call' = call /\ restores' = restores
  BY DEF Save, caller
<1>4. cp \in Checkpoint(stream, codec, fed, taken) /\ fed \in Nat
  BY <1>1, <1>2
<1>5. SavedRight(stream, cp) /\ cp.packed = IF cp = Start THEN 0 ELSE fed
  BY <1>1, <1>3, <1>4, CheckpointRight
<1>6. cp.packed <= file_len
  BY <1>1, <1>5
<1>7. Calling' <=> Calling
  BY <1>3 DEF Calling
<1>8. GzipInv'
  BY <1>1, <1>2, <1>3, <1>5, <1>6, <1>7 DEF GzipInv
<1>9. TypeOK' /\ BytesExact'
  BY <1>3 DEF IInv, TypeOK, BytesExact
<1> QED
  BY <1>8, <1>9 DEF IInv

\* and a decoder restored from one (restore()).
LEMMA RestoreKeeps ==
  ASSUME GzipDecoders, IInv, Restore
  PROVE  IInv'
<1>1. /\ GzipInv /\ stream \in Streams /\ GzipStream(stream) /\ Sizes
      /\ file_len \in Nat /\ SavedRight(stream, saved) /\ saved.packed <= file_len
      /\ MaxRestores \in Nat
      /\ \A cp : CodecRestored(stream, cp) = Restored(stream, cp)
  BY DEF IInv, GzipInv, GzipDecoders
<1>2. /\ restores < MaxRestores /\ restores' = restores + 1
      /\ codec' = Restored(stream, saved)
      /\ fed' = saved.packed /\ taken' = saved.unpacked /\ call' = NoCall
      /\ stream' = stream /\ file_len' = file_len /\ saved' = saved
  BY <1>1 DEF Restore, caller
<1>3. /\ Right(stream, codec', fed', taken') /\ HoldsAWindow(stream, codec')
      /\ fed' \in Nat /\ taken' \in Nat
  BY <1>1, <1>2, RestoredRight
<1>4. GzipInv'
  BY <1>1, <1>2, <1>3 DEF GzipInv
<1>5. TypeOK'
  <2>1. restores \in 0..MaxRestores
    BY DEF IInv, TypeOK
  <2>2. /\ call'.consumed = 0 /\ call'.offered = 0 /\ call'.bytes = <<>> /\ call'.room = 0
        /\ call'.status = "none"
    BY <1>2 DEF NoCall
  <2>3. fed' \in 0..file_len /\ restores' \in 0..MaxRestores
    BY <1>1, <1>2, <1>3, <2>1
  <2> QED BY <1>1, <1>2, <1>3, <2>2, <2>3 DEF TypeOK
<1>6. BytesExact'
  BY <1>2 DEF BytesExact, NoCall
<1> QED
  BY <1>4, <1>5, <1>6 DEF IInv

\* It holds at the start.
LEMMA InitHolds ==
  ASSUME GzipDecoders, Init
  PROVE  IInv
<1>1. /\ stream \in Streams /\ GzipStream(stream) /\ Sizes
      /\ MaxRestores \in Nat /\ CodecNew(stream) = New(stream)
  BY DEF Init, GzipDecoders
<1>2. PICK t \in stream.tails : file_len = stream.packed + t
  BY DEF Init, PackedLen
<1>3. file_len \in Nat
  <2>1. stream.packed \in Int
    BY <1>1, FramingIs
  <2>2. t \in Int /\ stream.packed + t >= 0
    BY <1>1, <1>2 DEF GzipStream
  <2> QED BY <1>2, <2>1, <2>2
<1>4. /\ codec = New(stream) /\ fed = 0 /\ taken = 0 /\ call = NoCall /\ saved = Start
      /\ restores = 0
  BY <1>1 DEF Init
<1>5. Right(stream, codec, fed, taken) /\ HoldsAWindow(stream, codec)
  BY <1>1, <1>4, NewRight
<1>6. SavedRight(stream, saved) /\ saved.packed <= file_len
  BY <1>3, <1>4 DEF SavedRight, Start
<1>7. GzipInv
  BY <1>1, <1>3, <1>4, <1>5, <1>6 DEF GzipInv
<1>8. TypeOK
  <2>1. /\ call.consumed = 0 /\ call.offered = 0 /\ call.bytes = <<>> /\ call.room = 0
        /\ call.status = "none"
    BY <1>4 DEF NoCall
  <2> QED BY <1>1, <1>3, <1>4, <2>1 DEF TypeOK
<1>9. BytesExact
  BY <1>4 DEF BytesExact, NoCall
<1> QED
  BY <1>7, <1>8, <1>9 DEF IInv

\* Every step keeps it.
LEMMA NextKeeps ==
  ASSUME GzipDecoders, IInv, [Next]_vars
  PROVE  IInv'
<1>1. CASE Decode
  BY <1>1, DecodeKeeps
<1>2. CASE Save
  BY <1>2, SaveKeeps
<1>3. CASE Restore
  BY <1>3, RestoreKeeps
<1>4. CASE UNCHANGED vars
  BY <1>4 DEF IInv, GzipInv, TypeOK, BytesExact, vars, caller, Calling
<1> QED
  BY <1>1, <1>2, <1>3, <1>4 DEF Next, Terminated

\* The decoder and the caller are in step in every state.
LEMMA Invariant ==
  ASSUME GzipDecoders
  PROVE  Spec => []IInv
<1>1. Init => IInv
  BY InitHolds
<1>2. IInv /\ [Next]_vars => IInv'
  BY NextKeeps
<1> QED
  BY <1>1, <1>2, PTL DEF Spec

-----------------------------------------------------------------------------
(***************************************************************************)
(* A decoder that answers nothing at the end of the file.                  *)
(***************************************************************************)

\* Where a decoder is in its deflate data.
LEMMA PlaceIs ==
  ASSUME NEW s, GzipStream(s), Sizes, NEW g, NEW fed_ \in Nat, NEW taken_,
         Right(s, g, fed_, taken_)
  PROVE  g.inner[1] \in Nat
<1>1. CASE InHeader(s, g, fed_, taken_)
  <2>1. g.inner = <<0, 0>>
    BY <1>1, InHeaderIs
  <2> QED BY <2>1
<1>2. CASE Core(s, g)
  BY <1>2 DEF Core, Fields
<1> QED
  BY <1>1, <1>2 DEF Right

\* At the end of the file, a decoder that answers nothing is another one.
LEMMA AskedOnce ==
  ASSUME GzipDecoders, IInv, Decode, call'.status = "Continue", call'.offered = 0,
         call'.bytes = <<>>
  PROVE  codec' # codec
<1>1. /\ GzipInv /\ stream \in Streams /\ GzipStream(stream) /\ Sizes
      /\ file_len \in Nat /\ fed \in 0..file_len /\ taken \in Nat
      /\ Calling => Right(stream, codec, fed, taken)
  BY DEF IInv, GzipInv, GzipDecoders
<1>2. PICK n \in Nat, room \in Nat \ {0} : \E a :
        /\ n <= file_len - fed
        /\ Decoded(n, room, a) /\ Answered(stream, codec, fed, taken, n, room, a)
  BY <1>1, DecodeIs
<1>3. PICK a : Decoded(n, room, a) /\ Answered(stream, codec, fed, taken, n, room, a)
  BY <1>2
<1>4. /\ codec' = a.self /\ n = 0 /\ a.bytes = <<>> /\ a.status = "Continue"
  BY <1>3 DEF Decoded
<1>5. a.consumed = 0
  BY <1>3, <1>4 DEF Answered
<1>6. PICK k \in 0..room :
        /\ a.bytes = Span(taken, k)
        /\ a.status = "Continue"
        /\ a.consumed = 0 /\ k = 0 => ~ Framed(stream) /\ WorksOn(codec, a)
  BY <1>3, <1>4 DEF Answered
<1>7. k = 0
  <2>1. taken \in Int /\ k \in Nat
    BY <1>1
  <2> QED BY <1>4, <1>6, <2>1, SpanIs
<1>8. PICK x \in Nat \ {0} : codec'.inner[1] = codec.inner[1] + x
  BY <1>4, <1>5, <1>6, <1>7 DEF WorksOn
<1>9. codec.inner[1] \in Nat
  <2>1. fed \in Nat
    BY <1>1
  <2> QED BY <1>1, <2>1, PlaceIs DEF Decode
<1> QED
  <2>1. codec.inner[1] + x # codec.inner[1]
    BY <1>9
  <2> QED BY <1>8, <2>1

\* At the end of the file, inflate_replay() and flush_stage() move a decoder that answers
\* nothing, framed or not: it is never asked the same for ever.
THEOREM GzipNeverAskedInVain ==
  ASSUME GzipDecoders
  PROVE  Spec => NeverAskedInVain
<1>1. IInv /\ [Next]_vars =>
        [call' # call /\ call'.status = "Continue" /\ call'.offered = 0 /\ call'.bytes = <<>>
           /\ file_len > 0 => codec' # codec]_vars
  <2>1. ASSUME Save PROVE call' = call
    BY <2>1 DEF Save
  <2>2. ASSUME Restore PROVE call'.status = "none"
    BY <2>2 DEF Restore, NoCall
  <2> QED BY AskedOnce, <2>1, <2>2 DEF Next, Terminated
<1> QED
  BY <1>1, Invariant, PTL DEF Spec, NeverAskedInVain

\* What the first bytes of the file decode to.
LEMMA DecodedIs ==
  ASSUME Sizes, NEW s, GzipStream(s), NEW p \in Nat, p <= s.packed
  PROVE  /\ s.decoded[p] = IF p <= s.header THEN 0
                           ELSE IF p - s.header <= s.deflated THEN s.inflated[p - s.header]
                           ELSE s.inflated[s.deflated]
         /\ s.decoded[p] \in Nat
<1>1. /\ s.header \in Nat /\ s.deflated \in Nat \ {0} /\ s.packed \in Int
      /\ s.inflated[0] = 0
      /\ \A q \in Nat : q <= s.deflated => s.inflated[q] \in Nat
  BY FramingIs DEF GzipStream
<1>2. s.decoded[p] = s.inflated[Min({Max({p - s.header, 0}), s.deflated})]
  BY <1>1 DEF GzipStream
<1>3. PICK d \in Int : d = p - s.header
  BY <1>1
<1>4. PICK m \in Nat : m = Max({p - s.header, 0}) /\ m = IF d <= 0 THEN 0 ELSE d
  <2>1. Max({d, 0}) = IF d <= 0 THEN 0 ELSE d
    BY MinMaxIs
  <2> QED BY <1>3, <2>1
<1>5. PICK e \in Nat : e = Min({m, s.deflated}) /\ e = IF m <= s.deflated THEN m ELSE s.deflated
  <2>1. Min({m, s.deflated}) = IF m <= s.deflated THEN m ELSE s.deflated
    BY <1>1, MinMaxIs
  <2> QED BY <1>1, <2>1
<1>6. s.decoded[p] = s.inflated[e] /\ e <= s.deflated
  <2>1. s.decoded[p] = s.inflated[e]
    BY <1>2, <1>4, <1>5, Zenon
  <2>2. e <= s.deflated
    BY <1>1, <1>5
  <2> QED BY <2>1, <2>2
<1> QED
  BY <1>1, <1>3, <1>4, <1>5, <1>6

-----------------------------------------------------------------------------
(***************************************************************************)
(* Streams with a header, or told to be raw.                               *)
(***************************************************************************)

\* A framed stream's decoder is inside its stream, and what it gave out is what it took.
InStep(s, fed_, taken_) == fed_ <= s.packed /\ taken_ <= s.decoded[fed_]

\* A decoder of one is in step.
LEMMA InStepIs ==
  ASSUME Sizes, NEW s, GzipStream(s), Framed(s), NEW g, NEW fed_ \in Nat, NEW taken_ \in Nat,
         Right(s, g, fed_, taken_), HoldsAWindow(s, g)
  PROVE  InStep(s, fed_, taken_)
<1>1. /\ s.header \in Nat /\ s.deflated \in Nat \ {0} /\ s.packed \in Int
      /\ s.magic \in BOOLEAN /\ (s.magic => ~ s.raw) /\ s.raw \in BOOLEAN
      /\ s.magic => s.header > 0 /\ s.packed = s.header + s.deflated + TrailerSize
      /\ ~ s.magic => s.header = 0 /\ s.packed = s.deflated
      /\ s.inflated[s.deflated] \in Nat /\ s.inflated[0] = 0
      /\ \A q \in Nat : q <= s.deflated =>
           s.inflated[q] \in Nat /\ s.inflated[q] <= s.inflated[s.deflated]
      /\ s.magic \/ s.raw
      /\ TrailerSize \in Nat
  BY FramingIs DEF GzipStream, Sizes
<1>2. CASE InHeader(s, g, fed_, taken_)
  <2>1. s.magic /\ taken_ = 0 /\ fed_ < s.header
    BY <1>1, <1>2 DEF InHeader, HeaderSettled
  <2>2. fed_ <= s.packed
    BY <1>1, <2>1
  <2>3. s.decoded[fed_] \in Nat
    BY <2>2, DecodedIs
  <2> QED BY <2>1, <2>2, <2>3 DEF InStep
<1>3. ASSUME Core(s, g), Staged(g, taken_)
      PROVE  /\ g.inner[1] \in Nat /\ g.inner[1] <= s.deflated
             /\ taken_ <= s.inflated[g.inner[1]]
             /\ s.inflated[g.inner[1]] \in Nat
             /\ s.inflated[g.inner[1]] <= s.inflated[s.deflated]
  <2>1. g.inner[1] \in Nat /\ g.inner[2] \in Nat /\ g.inner[1] <= s.deflated
        /\ g.inner[2] <= s.inflated[g.inner[1]] /\ taken_ <= g.inner[2]
    BY <1>3 DEF Core, Fields, Staged
  <2> QED BY <1>1, <2>1
<1>4. g.replay.bytes = <<>> /\ Len(g.replay.bytes) = 0
  <2>1. g.replay.bytes = <<>>
    BY DEF HoldsAWindow
  <2> QED BY <2>1, EmptySeq
<1>5. CASE Core(s, g) /\ Staged(g, taken_) /\ Inflating(s, g, fed_)
  <2>1. PICK x \in Nat : x = g.inner[1] /\ fed_ = s.header + x
    BY <1>1, <1>3, <1>4, <1>5 DEF Inflating
  <2>2. fed_ <= s.packed
    BY <1>1, <1>3, <1>5, <2>1
  <2>3. s.decoded[fed_] = s.inflated[x]
    <3>1. s.decoded[fed_] = IF fed_ <= s.header THEN 0
                            ELSE IF fed_ - s.header <= s.deflated THEN s.inflated[fed_ - s.header]
                            ELSE s.inflated[s.deflated]
      BY <2>2, DecodedIs
    <3>2. fed_ - s.header = x /\ x <= s.deflated
      BY <1>1, <1>3, <1>5, <2>1
    <3>3. fed_ <= s.header => x = 0
      BY <1>1, <2>1
    <3> QED BY <1>1, <3>1, <3>2, <3>3
  <2> QED BY <1>3, <1>5, <2>1, <2>2, <2>3 DEF InStep
<1>6. ASSUME Core(s, g), Staged(g, taken_), fed_ >= s.header + s.deflated, fed_ <= s.packed
      PROVE  InStep(s, fed_, taken_)
  <2>1. s.decoded[fed_] = s.inflated[s.deflated]
    <3>1. s.decoded[fed_] = IF fed_ <= s.header THEN 0
                            ELSE IF fed_ - s.header <= s.deflated THEN s.inflated[fed_ - s.header]
                            ELSE s.inflated[s.deflated]
      BY <1>6, DecodedIs
    <3>2. fed_ - s.header <= s.deflated => fed_ - s.header = s.deflated
      BY <1>1, <1>6
    <3>3. ~ (fed_ <= s.header)
      BY <1>1, <1>6
    <3> QED BY <3>1, <3>2, <3>3
  <2>2. taken_ <= s.inflated[s.deflated]
    BY <1>1, <1>3, <1>6
  <2> QED BY <1>6, <2>1, <2>2 DEF InStep
<1>7. CASE Core(s, g) /\ Staged(g, taken_) /\ InTrailer(s, g, fed_)
  <2>1. fed_ >= s.header + s.deflated /\ fed_ <= s.packed
    BY <1>1, <1>7 DEF InTrailer
  <2> QED BY <1>6, <1>7, <2>1
<1>8. CASE Core(s, g) /\ Staged(g, taken_) /\ AllDone(s, g, fed_)
  <2>1. fed_ >= s.header + s.deflated /\ fed_ <= s.packed
    BY <1>1, <1>4, <1>8 DEF AllDone
  <2> QED BY <1>6, <1>8, <2>1
<1> QED
  BY <1>2, <1>5, <1>7, <1>8 DEF Right

\* A call that moved to a place inside the stream is one the contract allows.
LEMMA AllowedIs ==
  ASSUME stream.packed \in Nat, stream.decoded[stream.packed] \in Nat,
         NEW at \in Nat, NEW out \in Nat, NEW n \in Nat, NEW room \in Nat,
         NEW c \in 0..n, NEW k \in 0..room, c > 0 \/ k > 0,
         at + c <= stream.packed, out + k <= stream.decoded[at + c],
         NEW ended \in BOOLEAN,
         ended => at + c = stream.packed /\ out + k = stream.decoded[stream.packed]
  PROVE  [consumed |-> c, produced |-> k, ended |-> ended]
           \in Contract!Outcomes(<<at, out>>, n, room)
<1> DEFINE moves == {m \in Contract!Moves(<<at, out>>, n, room) : m # <<0, 0>>}
           legal == IF moves = {} \/ FALSE THEN moves \cup {<<0, 0>>} ELSE moves
<1>1. <<c, k>> \in Contract!Moves(<<at, out>>, n, room)
  <2>1. c <= (IF n < stream.packed - at THEN n ELSE stream.packed - at)
    OBVIOUS
  <2>2. c \in 0..(IF n < stream.packed - at THEN n ELSE stream.packed - at)
    BY <2>1
  <2> QED BY <2>2 DEF Contract!Moves, Contract!Smaller, PackedLen
<1>2. <<c, k>> \in moves /\ moves # {}
  BY <1>1
<1>3. <<c, k>> \in legal /\ <<c, k>> # <<0, 0>>
  BY <1>2
<1>4. ended => Contract!AtEnd(Contract!After(<<at, out>>, <<c, k>>))
  BY DEF Contract!AtEnd, Contract!After, Contract!UnpackedLen, PackedLen
<1>5. Contract!Outcomes(<<at, out>>, n, room) =
        {[consumed |-> m[1], produced |-> m[2], ended |-> FALSE] :
           m \in {x \in legal : x # <<0, 0>> \/ ~ Contract!AtEnd(<<at, out>>)}}
        \cup
        {[consumed |-> m[1], produced |-> m[2], ended |-> TRUE] :
           m \in {x \in legal : Contract!AtEnd(Contract!After(<<at, out>>, x))}}
  BY DEF Contract!Outcomes
<1> HIDE DEF legal
<1>6. CASE ended
  BY <1>3, <1>4, <1>5, <1>6
<1>7. CASE ~ ended
  BY <1>3, <1>5, <1>7
<1> QED
  BY <1>6, <1>7

-----------------------------------------------------------------------------
(***************************************************************************)
(* The theorems.                                                           *)
(***************************************************************************)

\* decompress() takes no more than it is offered, gives out no more than there is room for,
\* and no stream, whole or cut, makes it fail.
THEOREM GzipTypeOK ==
  ASSUME GzipDecoders
  PROVE  Spec => []TypeOK
<1>1. IInv => TypeOK
  BY DEF IInv
<1> QED
  BY <1>1, Invariant, PTL

\* Through stage, the replayed header bytes, the ring and the windows restored from
\* checkpoints, a gzip decoder gives out the stream's bytes, each once and in order.
THEOREM GzipBytesExact ==
  ASSUME GzipDecoders
  PROVE  Spec => []BytesExact
<1>1. IInv => BytesExact
  BY DEF IInv
<1> QED
  BY <1>1, Invariant, PTL

AllFramed == \A s \in Streams : Framed(s)

\* Framed, it never holds more than its window: inflate_to_output() stages what one turn of
\* the ring leaves over, and nothing is held to be replayed.
THEOREM GzipHoldsLittle ==
  ASSUME GzipDecoders, AllFramed
  PROVE  Spec => []HoldsLittle
<1>1. ASSUME IInv PROVE HoldsLittle
  <2>1. /\ stream \in Streams /\ Sizes /\ MaxRead \in Nat /\ Framed(stream)
        /\ HoldsAWindow(stream, codec)
        /\ CodecHeld(stream, codec) = Held(codec)
        /\ CodecHolds(stream, MaxRead, Max(Rooms)) = Max({WindowSize, MinHeader + MaxRead})
    BY <1>1 DEF IInv, GzipInv, GzipDecoders, AllFramed
  <2>2. WindowSize \in Nat /\ MinHeader + MaxRead \in Nat
    BY <2>1 DEF Sizes
  <2>3. Max({WindowSize, MinHeader + MaxRead}) =
          IF WindowSize <= MinHeader + MaxRead THEN MinHeader + MaxRead ELSE WindowSize
    BY <2>2, MinMaxIs
  <2>4. codec.stage \in Seq(Int) /\ Len(codec.stage) <= WindowSize /\ codec.replay.bytes = <<>>
    BY <2>1 DEF HoldsAWindow
  <2>5. Held(codec) = Len(codec.stage) /\ Len(codec.stage) \in Nat
    BY <2>4 DEF Held
  <2> QED BY <2>1, <2>2, <2>3, <2>4, <2>5 DEF HoldsLittle
<1> QED
  BY <1>1, Invariant, PTL

\* The contract's outcomes, for a stream of this length that decodes like this.
OutcomesOf(packed, decoded, place, offered, room) ==
  LET moves == {m \in {m \in (0..(IF offered < packed - place[1] THEN offered
                                  ELSE packed - place[1])) \X (0..room) :
                         place[2] + m[2] <= decoded[place[1] + m[1]]} : m # <<0, 0>>}
      legal == IF moves = {} \/ FALSE THEN moves \cup {<<0, 0>>} ELSE moves
  IN  {[consumed |-> m[1], produced |-> m[2], ended |-> FALSE] :
         m \in {x \in legal : x # <<0, 0>> \/ ~ (place = <<packed, decoded[packed]>>)}}
      \cup
      {[consumed |-> m[1], produced |-> m[2], ended |-> TRUE] :
         m \in {x \in legal :
                  <<place[1] + x[1], place[2] + x[2]>> = <<packed, decoded[packed]>>}}

\* They are what the contract allows.
LEMMA OutcomesAre ==
  ASSUME NEW place, NEW offered, NEW room
  PROVE  Contract!Outcomes(place, offered, room) =
           OutcomesOf(stream.packed, stream.decoded, place, offered, room)
  BY Zenon
  DEF OutcomesOf, PackedLen, Contract!Outcomes, Contract!Moves, Contract!After,
      Contract!AtEnd, Contract!UnpackedLen, Contract!Smaller

\* What the contract asks of the answer to a call.
AnsweredWithin(s, len, c) ==
  len > 0 /\ c.status # "none" =>
    IF c.status \in {"none", "Continue", "StreamEnd"}
      THEN LET at == Min({c.from[1], s.packed})
               to == Min({c.from[1] + c.consumed, s.packed})
           IN  [consumed |-> to - at, produced |-> Len(c.bytes),
                ended |-> c.status = "StreamEnd"]
                 \in OutcomesOf(s.packed, s.decoded, <<at, c.from[2]>>, c.offered, c.room)
      ELSE c.status = "TruncatedInput" /\ len < s.packed

\* That is KeepsContract after a step,
LEMMA KeepsIs == KeepsContract' <=> AnsweredWithin(stream', file_len', call')
  BY Zenon
  DEF KeepsContract, AnsweredWithin, Going, OutcomesOf, PackedLen, Contract!Outcomes,
      Contract!Moves, Contract!After, Contract!AtEnd, Contract!UnpackedLen, Contract!Smaller

\* and before it.
LEMMA KeepsNow == KeepsContract <=> AnsweredWithin(stream, file_len, call)
  BY Zenon
  DEF KeepsContract, AnsweredWithin, Going, OutcomesOf, PackedLen, Contract!Outcomes,
      Contract!Moves, Contract!After, Contract!AtEnd, Contract!UnpackedLen, Contract!Smaller

\* Framed, a call answers as the contract has it.
LEMMA DecodeAllowed ==
  ASSUME GzipDecoders, AllFramed, IInv, Decode
  PROVE  KeepsContract'
<1>1. /\ GzipInv /\ stream \in Streams /\ GzipStream(stream) /\ Sizes /\ Framed(stream)
      /\ file_len \in Nat /\ fed \in 0..file_len /\ fed \in Nat /\ taken \in Nat
      /\ Right(stream, codec, fed, taken) /\ HoldsAWindow(stream, codec)
  BY DEF IInv, GzipInv, GzipDecoders, AllFramed, Decode
<1>2. PICK n \in Nat, room \in Nat \ {0} : \E a :
        /\ n <= file_len - fed
        /\ Decoded(n, room, a) /\ Answered(stream, codec, fed, taken, n, room, a)
  BY <1>1, DecodeIs
<1>3. PICK a : /\ n <= file_len - fed
               /\ Decoded(n, room, a) /\ Answered(stream, codec, fed, taken, n, room, a)
  BY <1>2
<1>4. stream.inflated[stream.deflated] \in Nat /\ stream.packed \in Nat
      /\ stream.decoded[stream.packed] = stream.inflated[stream.deflated]
  <2>1. /\ stream.header \in Nat /\ stream.deflated \in Nat \ {0} /\ stream.packed \in Int
        /\ stream.magic \in BOOLEAN /\ TrailerSize \in Nat
        /\ stream.magic => stream.packed = stream.header + stream.deflated + TrailerSize
        /\ ~ stream.magic => stream.header = 0 /\ stream.packed = stream.deflated
        /\ stream.inflated[stream.deflated] \in Nat
    BY <1>1, FramingIs DEF Sizes
  <2>2. stream.packed \in Nat /\ stream.packed >= stream.header + stream.deflated
    BY <2>1
  <2>3. stream.decoded[stream.packed] =
          IF stream.packed <= stream.header THEN 0
          ELSE IF stream.packed - stream.header <= stream.deflated
               THEN stream.inflated[stream.packed - stream.header]
          ELSE stream.inflated[stream.deflated]
    BY <1>1, <2>2, DecodedIs
  <2>4. /\ ~ (stream.packed <= stream.header)
        /\ stream.packed - stream.header <= stream.deflated =>
             stream.packed - stream.header = stream.deflated
    BY <2>1, <2>2
  <2> QED BY <2>1, <2>2, <2>3, <2>4
<1>5. PICK k \in 0..room :
        /\ a.bytes = Span(taken, k) /\ Len(a.bytes) = k /\ taken' = taken + k
        /\ taken + k <= stream.inflated[stream.deflated]
        /\ \/ /\ a.status = "Continue" /\ Right(stream, codec', fed', taken')
              /\ a.consumed = 0 /\ k = 0 => ~ Framed(stream) /\ WorksOn(codec, a)
           \/ /\ a.status = "StreamEnd"
              /\ Framed(stream) /\ (n > 0 \/ fed > 0) =>
                   /\ fed + a.consumed = stream.packed
                   /\ taken + k = stream.inflated[stream.deflated]
                   /\ a.consumed > 0 \/ k > 0
           \/ /\ a.status = "TruncatedInput" /\ n = 0 /\ a.consumed = 0 /\ k = 0
              /\ Framed(stream) => fed < stream.packed
  <2>1. room \in Nat
    OBVIOUS
  <2> QED BY <1>1, <1>3, <1>4, <2>1, GivenIs
<1>6. /\ n = 0 => fed = file_len
      /\ fed' = fed + a.consumed
      /\ call' = [from |-> <<fed, taken>>, offered |-> n, room |-> room,
                  consumed |-> a.consumed, bytes |-> a.bytes, status |-> a.status]
      /\ stream' = stream /\ file_len' = file_len
  BY <1>3 DEF Decoded, caller
<1>7. PICK c \in 0..n : c = a.consumed
  BY <1>3 DEF Answered
<1>8. fed <= stream.packed
  BY <1>1, InStepIs DEF InStep
<1>9. CASE a.status = "TruncatedInput"
  <2>1. n = 0 /\ fed < stream.packed
    BY <1>1, <1>5, <1>9
  <2>2. file_len' < stream'.packed
    BY <1>6, <2>1
  <2> QED BY <1>6, <1>9, <2>2 DEF KeepsContract, Going, PackedLen
<1>10. ASSUME a.status \in {"Continue", "StreamEnd"}, file_len > 0
       PROVE  /\ c > 0 \/ k > 0
              /\ fed + c <= stream.packed /\ taken + k <= stream.decoded[fed + c]
              /\ a.status = "StreamEnd" =>
                   fed + c = stream.packed /\ taken + k = stream.decoded[stream.packed]
  <2>1. CASE a.status = "Continue"
    <3>1. Right(stream, codec', fed', taken') /\ (c > 0 \/ k > 0)
      BY <1>1, <1>5, <1>7, <2>1
    <3>2. fed' \in Nat /\ taken' \in Nat /\ HoldsAWindow(stream, codec')
      BY SMTT(30), <1>1, <1>3, <1>5, <1>6, <1>7 DEF Answered, Decoded
    <3>3. fed' <= stream.packed /\ taken' <= stream.decoded[fed']
      BY <1>1, <3>1, <3>2, InStepIs DEF InStep
    <3> QED BY <1>5, <1>6, <1>7, <2>1, <3>1, <3>3
  <2>2. CASE a.status = "StreamEnd"
    <3>1. n > 0 \/ fed > 0
      BY <1>1, <1>6, <1>10
    <3>2. /\ fed + c = stream.packed /\ taken + k = stream.inflated[stream.deflated]
          /\ c > 0 \/ k > 0
      BY <1>1, <1>5, <1>7, <2>2, <3>1
    <3> QED BY <1>4, <3>2
  <2> QED BY <1>10, <2>1, <2>2
<1>11. ASSUME a.status \in {"Continue", "StreamEnd"}, file_len > 0
       PROVE  [consumed |-> c, produced |-> k, ended |-> a.status = "StreamEnd"]
                \in Contract!Outcomes(<<fed, taken>>, n, room)
  <2>1. PICK ended \in BOOLEAN : ended = (a.status = "StreamEnd")
    <3>1. (a.status = "StreamEnd") \in BOOLEAN
      OBVIOUS
    <3> QED BY <3>1, Zenon
  <2>2. stream.decoded[stream.packed] \in Nat /\ room \in Nat
    BY <1>4
  <2>3. /\ c > 0 \/ k > 0
        /\ fed + c <= stream.packed /\ taken + k <= stream.decoded[fed + c]
        /\ ended => fed + c = stream.packed /\ taken + k = stream.decoded[stream.packed]
    BY <1>10, <1>11, <2>1
  <2>4. [consumed |-> c, produced |-> k, ended |-> ended]
          \in Contract!Outcomes(<<fed, taken>>, n, room)
    BY <1>1, <1>4, <2>2, <2>3, AllowedIs
  <2> QED BY <2>1, <2>4, Zenon
<1>12. ASSUME a.status \in {"Continue", "StreamEnd"}, file_len > 0
       PROVE  /\ Min({fed, stream.packed}) = fed
              /\ Min({fed + c, stream.packed}) = fed + c
              /\ (fed + c) - fed = c
  <2>1. fed + c <= stream.packed /\ fed \in Int /\ fed + c \in Int /\ stream.packed \in Int
        /\ (fed + c) - fed = c
    BY <1>1, <1>4, <1>10, <1>12
  <2>2. /\ Min({fed, stream.packed}) = IF fed <= stream.packed THEN fed ELSE stream.packed
        /\ Min({fed + c, stream.packed}) =
             IF fed + c <= stream.packed THEN fed + c ELSE stream.packed
    BY <2>1, MinMaxIs
  <2> QED BY <1>8, <2>1, <2>2
<1>13. CASE a.status \in {"Continue", "StreamEnd"}
  <2>1. SUFFICES ASSUME file_len > 0 PROVE KeepsContract'
    BY <1>6 DEF KeepsContract
  <2>2. /\ call'.from = <<fed, taken>> /\ call'.consumed = c /\ Len(call'.bytes) = k
        /\ call'.status = a.status /\ call'.offered = n /\ call'.room = room
    BY <1>5, <1>6, <1>7
  <2>3. [consumed |-> c, produced |-> k, ended |-> a.status = "StreamEnd"]
          \in Contract!Outcomes(<<fed, taken>>, n, room)
    BY <1>11, <1>13, <2>1
  <2>4. /\ Min({fed, stream.packed}) = fed
        /\ Min({fed + c, stream.packed}) = fed + c
        /\ (fed + c) - fed = c
    BY <1>12, <1>13, <2>1
  <2> QED
    <3>1. [consumed |-> c, produced |-> k, ended |-> a.status = "StreamEnd"]
            \in OutcomesOf(stream.packed, stream.decoded, <<fed, taken>>, n, room)
      BY <2>3, OutcomesAre
    <3>2. AnsweredWithin(stream, file_len, call')
      BY <1>13, <2>1, <2>2, <2>4, <3>1 DEF AnsweredWithin
    <3> QED BY <1>6, <3>2, KeepsIs
<1> QED
  BY <1>5, <1>9, <1>13

\* Framed, a gzip decoder answers every call as the Decompressor trait asks, and refuses no
\* file but one that was cut.
THEOREM GzipKeepsContract ==
  ASSUME GzipDecoders, AllFramed
  PROVE  Spec => []KeepsContract
<1>1. Init => IInv /\ KeepsContract
  BY InitHolds DEF Init, KeepsContract, NoCall
<1>2. ASSUME IInv /\ KeepsContract, [Next]_vars PROVE IInv' /\ KeepsContract'
  <2>1. IInv'
    BY <1>2, NextKeeps
  <2>2. CASE Decode
    BY <1>2, <2>1, <2>2, DecodeAllowed
  <2>3. ASSUME UNCHANGED <<stream, file_len, call>> PROVE KeepsContract'
    <3>1. AnsweredWithin(stream, file_len, call)
      BY <1>2, KeepsNow
    <3> QED BY <2>3, <3>1, KeepsIs
  <2>4. CASE Save
    BY <2>1, <2>3, <2>4 DEF Save, caller
  <2>5. CASE Restore
    <3>1. call'.status = "none"
      BY <2>5 DEF Restore, NoCall
    <3> QED BY <2>1, <3>1 DEF KeepsContract
  <2>6. CASE UNCHANGED vars
    BY <2>1, <2>3, <2>6 DEF vars, caller
  <2> QED BY <1>2, <2>1, <2>2, <2>4, <2>5, <2>6 DEF Next, Terminated
<1> QED
  BY <1>1, <1>2, PTL DEF Spec
==============================================================================

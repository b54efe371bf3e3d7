------------------------ MODULE IndexingEngineProofs ------------------------
(***************************************************************************)
(* Proofs about IndexingEngine and the archive parsers, for every archive, *)
(* every place its stream may stop and every way it is cut in chunks.      *)
(***************************************************************************)
EXTENDS IndexingEngine, SequenceTheorems, WellFoundedInduction, TLAPS

(***************************************************************************)
(* Sequences.                                                              *)
(***************************************************************************)

\* A set of naturals with 0 and every successor is all of them.
LEMMA SetInduction ==
  ASSUME NEW T, 0 \in T, \A n \in Nat : n \in T => n + 1 \in T
  PROVE  \A n \in Nat : n \in T
<1> SUFFICES ASSUME NEW k \in Nat, k \notin T PROVE FALSE
  OBVIOUS
<1> DEFINE Less == OpToRel(<, Nat)
           Out  == {n \in Nat : n \notin T}
<1>1. IsWellFoundedOn(Less, Nat)
  BY NatLessThanWellFounded
<1>2. PICK m \in Out : \A n \in Out : ~ (<<n, m>> \in Less)
  <2>1. Out \subseteq Nat /\ Out # {}
    OBVIOUS
  <2> HIDE DEF Less, Out
  <2> QED BY <1>1, <2>1, WFMin
<1>3. \A n \in Out : ~ (n < m)
  BY <1>2 DEF OpToRel
<1>4. m # 0
  OBVIOUS
<1>5. m - 1 \in Nat /\ m - 1 \notin Out
  BY <1>3, <1>4
<1> QED
  BY <1>5

\* What an optional value is.
LEMMA OptionalIs ==
  ASSUME NEW S, NEW x \in Optional(S)
  PROVE  /\ x # None => x[1] \in S /\ x = Some(x[1])
         /\ Len(x) \in 0..1
<1>1. x \in Seq(S) /\ Len(x) <= 1
  BY DEF Optional
<1>2. PICK n \in Nat : n = Len(x)
  BY <1>1, LenProperties
<1>3. n \in 0..1
  BY <1>1, <1>2
<1>4. ASSUME x # None PROVE x[1] \in S /\ x = <<x[1]>>
  <2>1. n # 0
    BY <1>1, <1>2, <1>4, EmptySeq DEF None
  <2>2. n = 1
    BY <1>3, <2>1
  <2>3. x \in [1..1 -> S]
    BY <1>1, <1>2, <2>2, LenProperties
  <2> QED BY <2>3
<1> QED
  BY <1>2, <1>3, <1>4 DEF Some

\* None and Some are optional values.
LEMMA OptionalHas ==
  ASSUME NEW S
  PROVE  None \in Optional(S) /\ \A x \in S : Some(x) \in Optional(S)
BY DEF Optional, None, Some

\* Fewer is one of the two, and no more than either.
LEMMA FewerBounds ==
  ASSUME NEW a \in Int, NEW b \in Int
  PROVE  /\ Fewer(a, b) \in Int
         /\ Fewer(a, b) <= a /\ Fewer(a, b) <= b
         /\ Fewer(a, b) = a \/ Fewer(a, b) = b
BY DEF Fewer

\* What is taken of the data is its first bytes.
LEMMA TakenIs ==
  ASSUME NEW S, NEW data \in Seq(S), NEW n \in 0..Len(data)
  PROVE  Taken(data, n) \in Seq(S) /\ Len(Taken(data, n)) = n
<1>1. \A i \in 1..n : data[i] \in S
  BY ElementOfSeq
<1>2. n \in Int /\ n >= 0
  OBVIOUS
<1> QED
  BY <1>1, <1>2, SubSeqProperties DEF Taken

\* A sequence that goes on starts as it did.
LEMMA ConcatStarts ==
  ASSUME NEW S, NEW s \in Seq(S), NEW t \in Seq(S)
  PROVE  /\ s \o t \in Seq(S)
         /\ s # <<>> => s \o t # <<>> /\ (s \o t)[1] = s[1]
<1>1. PICK m \in Nat, n \in Nat : m = Len(s) /\ n = Len(t)
  BY LenProperties
<1>2. /\ s \o t \in Seq(S) /\ Len(s \o t) = m + n
      /\ \A i \in 1..(m + n) : (s \o t)[i] = IF i <= m THEN s[i] ELSE t[i - m]
  BY <1>1, ConcatProperties
<1>3. ASSUME s # <<>> PROVE s \o t # <<>> /\ (s \o t)[1] = s[1]
  <2>1. m # 0
    BY <1>1, <1>3, EmptySeq
  <2>2. 1 \in 1..(m + n) /\ 1 <= m /\ m + n # 0
    BY <2>1
  <2>3. s \o t # <<>>
    BY <1>2, <2>2, EmptySeq
  <2> QED BY <1>2, <2>2, <2>3
<1> QED
  BY <1>2, <1>3

\* The step of FlattenSeq's recursive function.
FlatStep(seqs, f, i) == IF i = 1 THEN seqs[i] ELSE f[i - 1] \o seqs[i]

\* FlattenSeq is the last value of a function that follows the step.
LEMMA FlattenUnfolds ==
  ASSUME NEW S, NEW seqs \in Seq(Seq(S)), seqs # <<>>
  PROVE  \E f : /\ \A i \in 1..Len(seqs) : f[i] = FlatStep(seqs, f, i)
                /\ FlattenSeq(seqs) = f[Len(seqs)]
<1> DEFINE n == Len(seqs)
           Solves(k, f) == f = [i \in 1..k |-> FlatStep(seqs, f, i)]
           T == {k \in Nat : k <= n => \E f : Solves(k, f)}
<1>1. n \in Nat \ {0}
  BY EmptySeq
<1>2. 0 \in T
  <2> DEFINE f == [i \in 1..0 |-> 0]
  <2>1. f = [i \in 1..0 |-> FlatStep(seqs, f, i)]
    OBVIOUS
  <2> HIDE DEF f
  <2> QED BY <2>1
<1>3. ASSUME NEW k \in Nat, k \in T PROVE k + 1 \in T
  <2> SUFFICES ASSUME k + 1 <= n PROVE \E g : Solves(k + 1, g)
    OBVIOUS
  <2>1. PICK f : Solves(k, f)
    BY <1>1, <1>3
  <2> DEFINE g == [i \in 1..(k + 1) |-> FlatStep(seqs, f, i)]
  <2>2. \A i \in 1..k : g[i] = f[i]
    BY <2>1
  <2>3. \A i \in 1..(k + 1) : i # 1 => i - 1 \in 1..k
    OBVIOUS
  <2>4. \A i \in 1..(k + 1) : FlatStep(seqs, g, i) = FlatStep(seqs, f, i)
    <3> HIDE DEF g
    <3> QED BY <2>2, <2>3 DEF FlatStep
  <2>5. Solves(k + 1, g)
    BY <2>4, Zenon
  <2> QED BY <2>5
<1>4. n \in T
  <2> HIDE DEF T
  <2> QED BY <1>1, <1>2, <1>3, SetInduction
<1>5. PICK g : Solves(n, g)
  BY <1>1, <1>4
<1> DEFINE flatten ==
      CHOOSE f : f = [i \in 1..Len(seqs) |-> IF i = 1 THEN seqs[i] ELSE f[i - 1] \o seqs[i]]
<1>6. g = [i \in 1..Len(seqs) |-> IF i = 1 THEN seqs[i] ELSE g[i - 1] \o seqs[i]]
  BY <1>5 DEF FlatStep
<1>7. flatten = [i \in 1..Len(seqs) |->
                   IF i = 1 THEN seqs[i] ELSE flatten[i - 1] \o seqs[i]]
  BY <1>6, Zenon
<1>8. FlattenSeq(seqs) = flatten[Len(seqs)]
  BY <1>1, Zenon DEF FlattenSeq
<1> HIDE DEF flatten
<1>9. \A i \in 1..Len(seqs) : flatten[i] = FlatStep(seqs, flatten, i)
  BY <1>7 DEF FlatStep
<1> QED
  BY <1>8, <1>9

\* FlattenSeq gives a sequence of their elements, that starts as the first of them does.
LEMMA FlattenIs ==
  ASSUME NEW S, NEW seqs \in Seq(Seq(S))
  PROVE  /\ FlattenSeq(seqs) \in Seq(S)
         /\ seqs # <<>> /\ seqs[1] # <<>> =>
              /\ FlattenSeq(seqs) # <<>> /\ FlattenSeq(seqs)[1] = seqs[1][1]
<1>1. CASE seqs = <<>>
  BY <1>1, EmptySeq DEF FlattenSeq
<1>2. CASE seqs # <<>>
  <2>1. PICK f : /\ \A i \in 1..Len(seqs) : f[i] = FlatStep(seqs, f, i)
                 /\ FlattenSeq(seqs) = f[Len(seqs)]
    BY <1>2, FlattenUnfolds
  <2>2. Len(seqs) \in Nat \ {0} /\ \A i \in 1..Len(seqs) : seqs[i] \in Seq(S)
    BY <1>2, EmptySeq, ElementOfSeq
  <2> DEFINE Good(s) == /\ s \in Seq(S)
                        /\ seqs[1] # <<>> => s # <<>> /\ s[1] = seqs[1][1]
             T == {k \in Nat : k + 1 <= Len(seqs) => Good(f[k + 1])}
  <2>3. 0 \in T
    <3>1. f[1] = seqs[1]
      BY <2>1, <2>2 DEF FlatStep
    <3> QED BY <2>2, <3>1
  <2>4. ASSUME NEW k \in Nat, k \in T PROVE k + 1 \in T
    <3> SUFFICES ASSUME (k + 1) + 1 <= Len(seqs) PROVE Good(f[(k + 1) + 1])
      OBVIOUS
    <3>1. Good(f[k + 1])
      BY <2>2, <2>4
    <3>2. f[(k + 1) + 1] = f[k + 1] \o seqs[(k + 1) + 1]
      <4>1. (k + 1) + 1 \in 1..Len(seqs) /\ (k + 1) + 1 # 1 /\ ((k + 1) + 1) - 1 = k + 1
        BY <2>2
      <4> QED BY <2>1, <4>1 DEF FlatStep
    <3>3. f[k + 1] \in Seq(S) /\ seqs[(k + 1) + 1] \in Seq(S)
      BY <2>2, <3>1
    <3>4. /\ f[k + 1] \o seqs[(k + 1) + 1] \in Seq(S)
          /\ f[k + 1] # <<>> => /\ f[k + 1] \o seqs[(k + 1) + 1] # <<>>
                                /\ (f[k + 1] \o seqs[(k + 1) + 1])[1] = f[k + 1][1]
      BY <3>3, ConcatStarts
    <3> QED BY <3>1, <3>2, <3>4
  <2>5. \A k \in Nat : k \in T
    <3> HIDE DEF T
    <3> QED BY <2>3, <2>4, SetInduction
  <2>6. Good(f[(Len(seqs) - 1) + 1])
    BY <2>2, <2>5
  <2>7. (Len(seqs) - 1) + 1 = Len(seqs)
    BY <2>2
  <2> QED BY <1>2, <2>1, <2>6, <2>7
<1> QED
  BY <1>1, <1>2

-----------------------------------------------------------------------------
(***************************************************************************)
(* The bytes of the archives, whose members are all in M.                  *)
(***************************************************************************)
ZeroByte == [kind : {"zero"}, of : {Nobody}, at : Nat]

Byte(kinds, M) == [kind : kinds, of : M, at : Nat]

TarByte(M)  == Byte({"head", "data"}, M) \cup ZeroByte
CpioByte(M) == Byte({"newc", "odc", "name", "data"}, M) \cup ZeroByte
ArByte(M)   == Byte({"head", "name", "data"}, M) \cup Byte({"arch"}, {Nobody}) \cup ZeroByte

\* The bytes of a kind are that.
LEMMA BytesAre ==
  ASSUME NEW M, NEW m \in M, NEW kinds, NEW kind \in kinds, NEW n \in Int
  PROVE  /\ Bytes(kind, m, n) \in Seq(Byte(kinds, M))
         /\ n > 0 => /\ Bytes(kind, m, n) # <<>> /\ Len(Bytes(kind, m, n)) = n
                     /\ Bytes(kind, m, n)[1].kind = kind
                     /\ Bytes(kind, m, n)[1].of = m
<1> DEFINE b == [i \in 1..n |-> [kind |-> kind, of |-> m, at |-> i]]
<1>1. b = Bytes(kind, m, n)
  BY DEF Bytes
<1>2. CASE n > 0
  <2>1. \A i \in 1..n : [kind |-> kind, of |-> m, at |-> i] \in Byte(kinds, M)
    BY DEF Byte
  <2>2. b \in [1..n -> Byte(kinds, M)] /\ n \in Nat
    BY <1>2, <2>1
  <2>3. b \in Seq(Byte(kinds, M)) /\ Len(b) = n
    BY <2>2
  <2>4. b # <<>>
    BY <1>2, <2>3
  <2>5. 1 \in 1..n
    BY <1>2
  <2>6. b[1] = [kind |-> kind, of |-> m, at |-> 1]
    BY <2>5
  <2> HIDE DEF b
  <2> QED BY <1>1, <2>3, <2>4, <2>6
<1>3. CASE n <= 0
  <2>1. 1..n = {}
    BY <1>3
  <2>2. b = <<>>
    BY <2>1
  <2> HIDE DEF b
  <2> QED BY <1>1, <1>3, <2>2
<1> QED
  BY <1>2, <1>3

\* And the first of them is.
LEMMA BytesStart ==
  ASSUME NEW m, NEW kind, NEW n \in Int, n > 0
  PROVE  /\ Bytes(kind, m, n) # <<>> /\ Len(Bytes(kind, m, n)) = n
         /\ Bytes(kind, m, n)[1].kind = kind /\ Bytes(kind, m, n)[1].of = m
<1>1. m \in {m} /\ kind \in {kind}
  OBVIOUS
<1>2. n > 0 => /\ Bytes(kind, m, n) # <<>> /\ Len(Bytes(kind, m, n)) = n
               /\ Bytes(kind, m, n)[1].kind = kind
               /\ Bytes(kind, m, n)[1].of = m
  BY <1>1, BytesAre, ZenonT(30)
<1> QED
  BY <1>2

\* Zeros are zero bytes.
LEMMA ZerosAre ==
  ASSUME NEW n \in Int
  PROVE  Zeros(n) \in Seq(ZeroByte) /\ (n >= 0 => Len(Zeros(n)) = n)
<1>1. CASE n >= 0
  <2>1. [i \in 1..n |-> [kind |-> "zero", of |-> Nobody, at |-> 0]] \in [1..n -> ZeroByte]
    BY DEF ZeroByte
  <2> QED BY <1>1, <2>1 DEF Zeros
<1>2. CASE n < 0
  <2>1. 1..n = {}
    BY <1>2
  <2>2. [i \in 1..n |-> [kind |-> "zero", of |-> Nobody, at |-> 0]] = <<>>
    BY <2>1
  <2> QED BY <1>2, <2>2 DEF Zeros
<1> QED
  BY <1>1, <1>2

\* Bytes that are whole are of their kind, and so is what they belong to.
LEMMA WholeIs ==
  ASSUME NEW bytes, NEW kind, NEW n \in Nat, n > 0, Whole(bytes, kind, n)
  PROVE  bytes[1].kind = kind
<1>1. bytes = Bytes(kind, bytes[1].of, n)
  BY DEF Whole
<1>2. 1 \in 1..n
  OBVIOUS
<1>3. Bytes(kind, bytes[1].of, n)[1].kind = kind
  BY <1>2 DEF Bytes
<1> QED
  BY <1>1, <1>3

\* A tar archive is of its members' bytes.
LEMMA TarStreamIs ==
  ASSUME NEW M, NEW ms \in Seq(M), M \subseteq TarMembers
  PROVE  TarStream(ms) \in Seq(TarByte(M))
<1>1. Block \in Nat \ {0}
  BY TarAssumption
<1>2. ZeroByte \subseteq TarByte(M) /\ Byte({"head", "data"}, M) \subseteq TarByte(M)
  BY DEF TarByte
<1>3. \A n \in Int : Zeros(n) \in Seq(TarByte(M))
  BY <1>2, ZerosAre, SeqMonotonic
<1>4. ASSUME NEW m \in M, NEW k \in {"head", "data"}, NEW n \in Int
      PROVE  Bytes(k, m, n) \in Seq(TarByte(M))
  BY <1>2, BytesAre, SeqMonotonic
<1>5. ASSUME NEW m \in M PROVE TarBytes(m) \in Seq(TarByte(M))
  <2>1. m.stored \in Int /\ Padded(m.stored) - m.stored \in Int
    BY <1>1 DEF TarMembers, Padded
  <2>2. Bytes("head", m, Block) \in Seq(TarByte(M))
    BY <1>1, <1>4
  <2>3. Bytes("data", m, m.stored) \in Seq(TarByte(M))
    BY <1>4, <2>1
  <2>4. /\ Zeros(Padded(m.stored) - m.stored) \in Seq(TarByte(M))
        /\ Zeros(Block) \in Seq(TarByte(M))
    BY <1>1, <1>3, <2>1
  <2> QED BY <2>2, <2>3, <2>4, ConcatProperties DEF TarBytes
<1>6. [k \in 1..Len(ms) |-> TarBytes(ms[k])] \in Seq(Seq(TarByte(M)))
  <2>1. Len(ms) \in Nat /\ \A k \in 1..Len(ms) : ms[k] \in M
    BY ElementOfSeq, LenProperties
  <2>2. [k \in 1..Len(ms) |-> TarBytes(ms[k])] \in [1..Len(ms) -> Seq(TarByte(M))]
    BY <1>5, <2>1
  <2> QED BY <2>1, <2>2
<1>7. FlattenSeq([k \in 1..Len(ms) |-> TarBytes(ms[k])]) \in Seq(TarByte(M))
  BY <1>6, FlattenIs
<1>8. Zeros(2 * Block) \in Seq(TarByte(M))
  BY <1>1, <1>3
<1> QED
  BY <1>7, <1>8, ConcatProperties DEF TarStream

\* A cpio archive is of its members' bytes, and opens with a header.
LEMMA CpioStreamIs ==
  ASSUME NEW M, NEW ms \in Seq(M), M \subseteq CpioMembers
  PROVE  /\ CpioStream(ms) \in Seq(CpioByte(M))
         /\ ms # <<>> => /\ CpioStream(ms) # <<>>
                         /\ CpioStream(ms)[1].kind \in DOMAIN HeaderSizes
<1> DEFINE B == CpioByte(M)
           Kinds == {"newc", "odc", "name", "data"}
<1>1. /\ DOMAIN HeaderSizes = {"newc", "odc"} /\ Align \in Nat \ {0}
      /\ \A sub \in {"newc", "odc"} : HeaderSizes[sub] \in Nat /\ HeaderSizes[sub] > 0
  BY CpioAssumption
<1>2. ZeroByte \subseteq B /\ Byte(Kinds, M) \subseteq B
  BY DEF CpioByte
<1>3. \A n \in Int : Zeros(n) \in Seq(B)
  BY <1>2, ZerosAre, SeqMonotonic
<1>4. ASSUME NEW m \in M, NEW k \in Kinds, NEW n \in Int
      PROVE  Bytes(k, m, n) \in Seq(B)
  BY <1>2, BytesAre, SeqMonotonic
<1> HIDE DEF B
<1>5. ASSUME NEW m \in M
      PROVE  /\ CpioBytes(m) \in Seq(B) /\ CpioBytes(m) # <<>>
             /\ CpioBytes(m)[1].kind = m.sub
  <2> DEFINE Pad(s) == Zeros(CpioPad(m.sub, Len(s)))
             first == Bytes(m.sub, m, HeaderSizes[m.sub])
             head == first \o Bytes("name", m, m.namesize)
             data == Bytes("data", m, m.size)
  <2>1. m.sub \in {"newc", "odc"} /\ m.namesize \in Nat /\ m.size \in Nat
    BY <1>1 DEF CpioMembers
  <2>2. \A n \in Nat : CpioPad(m.sub, n) \in Int
    BY <1>1 DEF CpioPad
  <2>3. \A s \in Seq(B) : Pad(s) \in Seq(B)
    BY <1>3, <2>2, LenProperties
  <2>4. first \in Seq(B) /\ first # <<>> /\ first[1].kind = m.sub
    <3>1. HeaderSizes[m.sub] \in Int /\ HeaderSizes[m.sub] > 0 /\ m.sub \in Kinds
      BY <1>1, <2>1
    <3>2. first # <<>> /\ first[1].kind = m.sub
      BY <3>1, BytesStart
    <3> QED BY <1>4, <3>1, <3>2
  <2>5. Bytes("name", m, m.namesize) \in Seq(B) /\ data \in Seq(B)
    <3>1. m.namesize \in Int /\ m.size \in Int /\ "name" \in Kinds /\ "data" \in Kinds
      BY <2>1
    <3> QED BY <1>4, <3>1
  <2> HIDE DEF Pad, first, data
  <2>6. head \in Seq(B) /\ head # <<>> /\ head[1] = first[1]
    BY <2>4, <2>5, ConcatStarts
  <2> HIDE DEF head
  <2>7. Pad(head) \in Seq(B) /\ Pad(data) \in Seq(B)
    BY <2>3, <2>5, <2>6
  <2>8. /\ head \o Pad(head) \in Seq(B) /\ head \o Pad(head) # <<>>
        /\ (head \o Pad(head))[1] = head[1]
    BY <2>6, <2>7, ConcatStarts
  <2>9. data \o Pad(data) \in Seq(B)
    BY <2>5, <2>7, ConcatProperties
  <2>10. /\ (head \o Pad(head)) \o (data \o Pad(data)) \in Seq(B)
         /\ (head \o Pad(head)) \o (data \o Pad(data)) # <<>>
         /\ ((head \o Pad(head)) \o (data \o Pad(data)))[1] = head[1]
    <3> DEFINE a == head \o Pad(head)
               d == data \o Pad(data)
    <3>1. a \in Seq(B) /\ a # <<>> /\ a[1] = head[1] /\ d \in Seq(B)
      BY <2>8, <2>9
    <3> HIDE DEF a, d
    <3>2. a \o d \in Seq(B) /\ a \o d # <<>> /\ (a \o d)[1] = a[1]
      BY <3>1, ConcatStarts
    <3> QED BY <3>1, <3>2 DEF a, d
  <2>11. CpioBytes(m) = IF m.type = "Trailer" THEN head
                        ELSE (head \o Pad(head)) \o (data \o Pad(data))
    BY DEF CpioBytes, head, first, data, Pad
  <2> QED BY <2>4, <2>6, <2>10, <2>11
<1>6. Len(ms) \in Nat /\ \A k \in 1..Len(ms) : ms[k] \in M
  BY ElementOfSeq, LenProperties
<1> DEFINE seqs == [k \in 1..Len(ms) |-> CpioBytes(ms[k])]
<1>7. seqs \in Seq(Seq(B)) /\ Len(seqs) = Len(ms)
  <2>1. seqs \in [1..Len(ms) -> Seq(B)]
    BY <1>5, <1>6
  <2> QED BY <1>6, <2>1
<1>8. ASSUME ms # <<>>
      PROVE  seqs # <<>> /\ seqs[1] # <<>> /\ seqs[1][1].kind \in DOMAIN HeaderSizes
  <2>1. Len(ms) # 0
    BY <1>8, EmptySeq
  <2>2. 1 \in 1..Len(ms)
    BY <1>6, <2>1
  <2>3. seqs[1] = CpioBytes(ms[1]) /\ ms[1] \in M
    BY <1>6, <2>2
  <2>4. seqs # <<>>
    BY <1>7, <2>1, EmptySeq
  <2>5. ms[1].sub \in DOMAIN HeaderSizes
    BY <2>3 DEF CpioMembers
  <2> HIDE DEF seqs
  <2> QED BY <1>5, <2>3, <2>4, <2>5
<1>9. CpioStream(ms) = FlattenSeq(seqs)
  BY DEF CpioStream
<1> HIDE DEF seqs
<1> QED
  BY <1>7, <1>8, <1>9, FlattenIs DEF B

\* An ar archive is of its members' bytes, and opens with its magic.
LEMMA ArStreamIs ==
  ASSUME NEW M, NEW ms \in Seq(M), M \subseteq ArMembers
  PROVE  /\ ArStream(ms) \in Seq(ArByte(M)) /\ ArStream(ms) # <<>>
         /\ ArStream(ms)[1].kind = "arch"
<1> DEFINE B == ArByte(M)
           magic == Bytes("arch", Nobody, ArMagicLen)
<1>1. ArMagicLen \in Int /\ ArMagicLen > 0 /\ ArHeaderSize \in Nat
  BY ArAssumption
<1>2. /\ ZeroByte \subseteq B /\ Byte({"head", "name", "data"}, M) \subseteq B
      /\ Byte({"arch"}, {Nobody}) \subseteq B
  BY DEF ArByte
<1>3. \A n \in Int : Zeros(n) \in Seq(B)
  BY <1>2, ZerosAre, SeqMonotonic
<1>4. ASSUME NEW m \in M, NEW k \in {"head", "name", "data"}, NEW n \in Int
      PROVE  Bytes(k, m, n) \in Seq(B)
  <2>1. Bytes(k, m, n) \in Seq(Byte({"head", "name", "data"}, M))
    BY BytesAre
  <2> QED BY <1>2, <2>1, SeqMonotonic
<1>5. magic \in Seq(B) /\ magic # <<>> /\ magic[1].kind = "arch"
  <2>1. magic \in Seq(Byte({"arch"}, {Nobody}))
    <3>1. "arch" \in {"arch"} /\ Nobody \in {Nobody}
      OBVIOUS
    <3> QED BY <1>1, <3>1, BytesAre
  <2>2. magic # <<>> /\ magic[1].kind = "arch"
    BY <1>1, BytesStart
  <2> HIDE DEF magic, B
  <2> QED BY <1>2, <2>1, <2>2, SeqMonotonic
<1> HIDE DEF B, magic
<1>6. ASSUME NEW m \in M PROVE ArBytes(m) \in Seq(B)
  <2>1. m.size \in Nat /\ ArNameLen(m) \in Nat
    BY DEF ArMembers, ArNameLen
  <2>2. m.size - ArNameLen(m) \in Int /\ m.size % 2 \in Int
    BY <2>1
  <2>3. Bytes("head", m, ArHeaderSize) \in Seq(B)
    BY <1>1, <1>4
  <2>4. Bytes("name", m, ArNameLen(m)) \in Seq(B)
    BY <1>4, <2>1
  <2>5. Bytes("data", m, m.size - ArNameLen(m)) \in Seq(B)
    BY <1>4, <2>2
  <2>6. Zeros(m.size % 2) \in Seq(B)
    BY <1>3, <2>2
  <2> QED BY <2>3, <2>4, <2>5, <2>6, ConcatProperties DEF ArBytes
<1>7. [k \in 1..Len(ms) |-> ArBytes(ms[k])] \in Seq(Seq(B))
  <2>1. Len(ms) \in Nat /\ \A k \in 1..Len(ms) : ms[k] \in M
    BY ElementOfSeq, LenProperties
  <2>2. [k \in 1..Len(ms) |-> ArBytes(ms[k])] \in [1..Len(ms) -> Seq(B)]
    BY <1>6, <2>1
  <2> QED BY <2>1, <2>2
<1>8. FlattenSeq([k \in 1..Len(ms) |-> ArBytes(ms[k])]) \in Seq(B)
  BY <1>7, FlattenIs
<1>9. ArStream(ms) = magic \o FlattenSeq([k \in 1..Len(ms) |-> ArBytes(ms[k])])
  BY DEF ArStream, magic
<1> QED
  BY <1>5, <1>8, <1>9, ConcatStarts DEF B

-----------------------------------------------------------------------------
(***************************************************************************)
(* What every parser answers: it takes bytes it was fed, and its           *)
(* stream_pos counts them.                                                 *)
(***************************************************************************)
Answers(p, data, a) ==
  /\ a.event \in {"NeedData", "Entry", "EndOfArchive", "Error"}
  /\ a.event # "Error" => /\ a.consumed \in 0..Len(data)
                          /\ a.parser.stream_pos = p.stream_pos + a.consumed

\* It asks for more only after it has taken some.
Moved(a) == a.event = "NeedData" => a.consumed > 0

(***************************************************************************)
(* The tar parser.                                                         *)
(***************************************************************************)
TarFields == {"state", "header_buf", "stream_pos", "remaining", "size", "buf", "is_link",
              "pax", "gnu_long_name", "gnu_long_link"}

TarReads == {"SkippingData", "ReadingPaxData", "ReadingGnuLong"}

TarGood(p, M) ==
  /\ DOMAIN p = TarFields
  /\ p.state \in {"ReadingHeader", "OneZeroBlock", "End"} \cup TarReads
  /\ p.header_buf \in Seq(TarByte(M)) /\ Len(p.header_buf) < Block
  /\ p.stream_pos \in Nat /\ p.remaining \in Nat /\ p.size \in Nat
  /\ p.buf \in Seq(TarByte(M)) /\ Len(p.buf) <= p.size
  /\ p.pax.size \in Optional(Nat)

\* A member whose data is read has some left.
TarPressing(p) == p.state \in TarReads => p.remaining > 0

\* No extended header of the archive is empty.
TarFull(M) == \A m \in M : m.type \in Metadata => m.size > 0

\* Padding to whole blocks keeps what there is.
LEMMA PaddedIs ==
  ASSUME NEW n \in Nat
  PROVE  Padded(n) \in Nat /\ (n > 0 => Padded(n) > 0)
<1>1. Block \in Nat /\ Block > 0
  BY TarAssumption
<1>2. (n + Block - 1) \div Block \in Nat /\ (n > 0 => (n + Block - 1) \div Block > 0)
  BY <1>1
<1> DEFINE k == (n + Block - 1) \div Block
<1>3. \A x, y \in Nat : x * y \in Nat /\ (x > 0 /\ y > 0 => x * y > 0)
  OBVIOUS
<1> HIDE DEF k
<1>4. k * Block \in Nat /\ (k > 0 => k * Block > 0)
  BY <1>1, <1>2, <1>3 DEF k
<1> QED
  BY <1>2, <1>4 DEF Padded, k

\* A header is taken for what it says (process_header).
LEMMA TarProcessed ==
  ASSUME NEW M, M \subseteq TarMembers, NEW p, TarGood(p, M), p.header_buf = <<>>,
         NEW block \in Seq(TarByte(M)), NEW taken \in Nat, taken > 0,
         NEW a, a = TarProcessHeader(p, block, taken)
  PROVE  /\ a.event \in {"NeedData", "Entry", "Error"}
         /\ a.event # "Error" =>
              /\ a.consumed = taken /\ a.parser.stream_pos = p.stream_pos
              /\ TarGood(a.parser, M)
              /\ TarFull(M) => TarPressing(a.parser)
<1> DEFINE m == block[1].of
           refused == \/ ~ Whole(block, "head", Block)
                      \/ m.type \in Metadata /\ m.size > MaxMetadata
<1>1. CASE refused
  BY <1>1 DEF TarProcessHeader, Refuses, Answer
<1>2. CASE ~ refused
  <2>1. Block \in Nat /\ Block > 0
    BY TarAssumption
  <2>2. Whole(block, "head", Block) /\ Len(block) = Block
    BY <1>2 DEF Whole
  <2>3. block[1].kind = "head" /\ block[1] \in TarByte(M)
    BY <2>1, <2>2, WholeIs, ElementOfSeq
  <2>4. m \in M
    BY <2>3 DEF TarByte, Byte, ZeroByte
  <2>5. m.size \in Nat /\ Padded(m.size) \in Nat /\ (m.size > 0 => Padded(m.size) > 0)
    BY <2>4, PaddedIs DEF TarMembers
  <2> DEFINE into(s) == [p EXCEPT !.state = s, !.remaining = Padded(m.size), !.size = m.size,
                                  !.buf = <<>>]
  <2>6. ASSUME NEW s \in TarReads, m.type \in Metadata
        PROVE  /\ TarGood(into(s), M) /\ into(s).stream_pos = p.stream_pos
               /\ TarFull(M) => TarPressing(into(s))
    <3>1. <<>> \in Seq(TarByte(M)) /\ Len(<<>>) = 0
      OBVIOUS
    <3>2. into(s) = [p EXCEPT !.state = s, !.remaining = Padded(m.size), !.size = m.size,
                              !.buf = <<>>]
      OBVIOUS
    <3>3. /\ DOMAIN into(s) = TarFields /\ into(s).state = s
          /\ into(s).remaining = Padded(m.size)
          /\ into(s).size = m.size /\ into(s).buf = <<>>
          /\ into(s).header_buf = p.header_buf /\ into(s).stream_pos = p.stream_pos
          /\ into(s).pax = p.pax
      BY DEF TarGood, TarFields
    <3> HIDE DEF into
    <3> QED BY <2>4, <2>5, <2>6, <3>1, <3>3 DEF TarGood, TarFull, TarPressing
  <2>7. CASE m.type = "PaxExtended"
    <3>1. a = NeedsData(into("ReadingPaxData"), taken)
      <4>1. /\ m.type \in Metadata /\ m.type # "PaxGlobal"
            /\ m.type \notin {"GnuLongName", "GnuLongLink"}
        BY <2>7 DEF Metadata
      <4> QED BY <1>2, <2>7, <4>1 DEF TarProcessHeader
    <3>2. "ReadingPaxData" \in TarReads /\ m.type \in Metadata
      BY <2>7 DEF TarReads, Metadata
    <3> HIDE DEF into
    <3> QED BY <2>6, <3>1, <3>2 DEF NeedsData, Answer
  <2>8. CASE m.type = "PaxGlobal"
    <3>1. a = NeedsData(into("SkippingData"), taken)
      <4>1. /\ m.type \in Metadata /\ m.type # "PaxExtended"
            /\ m.type \notin {"GnuLongName", "GnuLongLink"}
        BY <2>8 DEF Metadata
      <4> QED BY <1>2, <2>8, <4>1 DEF TarProcessHeader
    <3>2. "SkippingData" \in TarReads /\ m.type \in Metadata
      BY <2>8 DEF TarReads, Metadata
    <3> HIDE DEF into
    <3> QED BY <2>6, <3>1, <3>2 DEF NeedsData, Answer
  <2>9. CASE m.type \in {"GnuLongName", "GnuLongLink"}
    <3>1. a = NeedsData([into("ReadingGnuLong") EXCEPT !.is_link = m.type = "GnuLongLink"],
                        taken)
      <4>1. m.type \in Metadata /\ m.type # "PaxExtended" /\ m.type # "PaxGlobal"
        BY <2>9 DEF Metadata
      <4> QED BY <1>2, <2>9, <4>1 DEF TarProcessHeader
    <3>2. "ReadingGnuLong" \in TarReads /\ m.type \in Metadata
      BY <2>9 DEF TarReads, Metadata
    <3> DEFINE long == into("ReadingGnuLong")
               link == [long EXCEPT !.is_link = m.type = "GnuLongLink"]
    <3>3. /\ TarGood(long, M) /\ long.stream_pos = p.stream_pos
          /\ TarFull(M) => TarPressing(long)
      BY <2>6, <3>2
    <3> HIDE DEF long, into
    <3>4. /\ DOMAIN link = DOMAIN long /\ link.state = long.state
          /\ link.header_buf = long.header_buf /\ link.stream_pos = long.stream_pos
          /\ link.remaining = long.remaining /\ link.size = long.size
          /\ link.buf = long.buf /\ link.pax = long.pax
      BY <3>3 DEF TarGood, TarFields
    <3>5. a = NeedsData(link, taken)
      BY <3>1 DEF long
    <3> HIDE DEF link
    <3> QED BY <3>3, <3>4, <3>5 DEF TarGood, TarPressing, NeedsData, Answer
  <2>10. CASE m.type \notin Metadata
    <3> DEFINE path == Over(p.gnu_long_name, Over(p.pax.path, Some(m.path)))[1]
               link == Over(p.gnu_long_link, Over(p.pax.linkpath, m.link))
               size == Over(p.pax.size, Some(m.size))[1]
               left == Padded(size)
               next == [p EXCEPT !.state = IF left > 0 THEN "SkippingData"
                                           ELSE "ReadingHeader",
                                 !.remaining = left,
                                 !.pax = NoSettings,
                                 !.gnu_long_name = None, !.gnu_long_link = None]
    <3>1. a = Emits(next, taken, Entry(path, size, m.type, link, p.stream_pos))
      <4>1. m.type # "PaxExtended" /\ m.type # "PaxGlobal"
            /\ m.type \notin {"GnuLongName", "GnuLongLink"}
        BY <2>10 DEF Metadata
      <4> QED BY <1>2, <2>10, <4>1 DEF TarProcessHeader
    <3>2. left \in Nat
      <4>1. size \in Nat
        <5>1. p.pax.size # None => p.pax.size[1] \in Nat
          BY OptionalIs DEF TarGood
        <5> QED BY <2>5, <5>1 DEF Over, Some
      <4> QED BY <4>1, PaddedIs
    <3>3. NoSettings.size \in Optional(Nat)
      BY OptionalHas DEF NoSettings
    <3> HIDE DEF left
    <3>4. /\ DOMAIN next = TarFields
          /\ next.state = IF left > 0 THEN "SkippingData" ELSE "ReadingHeader"
          /\ next.remaining = left /\ next.pax = NoSettings
          /\ next.header_buf = p.header_buf /\ next.stream_pos = p.stream_pos
          /\ next.size = p.size /\ next.buf = p.buf
      BY DEF TarGood, TarFields
    <3> HIDE DEF next
    <3>5. TarGood(next, M) /\ TarPressing(next)
      BY <3>2, <3>3, <3>4 DEF TarGood, TarPressing, TarReads
    <3> QED BY <3>1, <3>4, <3>5 DEF Emits, Answer
  <2> QED BY <2>7, <2>8, <2>9, <2>10 DEF Metadata
<1> QED
  BY <1>1, <1>2

\* feed_header and feed_second_zero take bytes up to a block.
LEMMA TarHeaderFed ==
  ASSUME NEW M, M \subseteq TarMembers, NEW p, TarGood(p, M),
         p.state \in {"ReadingHeader", "OneZeroBlock"},
         NEW data \in Seq(TarByte(M)), data # <<>>,
         NEW a, a = TarFeedHeader(p, data)
  PROVE  /\ Answers(p, data, a) /\ Moved(a)
         /\ a.event # "Error" => /\ TarGood(a.parser, M)
                                 /\ TarFull(M) => TarPressing(a.parser)
<1> DEFINE take  == Fewer(Len(data), Block - Len(p.header_buf))
           block == p.header_buf \o Taken(data, take)
           q     == [p EXCEPT !.stream_pos = @ + take]
           full  == [q EXCEPT !.header_buf = <<>>]
           part  == [q EXCEPT !.header_buf = block]
           one   == [full EXCEPT !.state = "OneZeroBlock"]
           end   == [full EXCEPT !.state = "End"]
<1>1. PICK n \in Nat, h \in Nat : n = Len(data) /\ h = Len(p.header_buf) /\ h < Block /\ n # 0
  BY LenProperties, EmptySeq DEF TarGood
<1>2. Block \in Nat /\ Block > 0
  BY TarAssumption
<1>3. take \in 0..n /\ take > 0 /\ take \in Nat /\ h + take <= Block
  <2>1. take = Fewer(n, Block - h)
    BY <1>1
  <2> HIDE DEF take
  <2>2. n \in Nat /\ h \in Nat /\ h < Block /\ n > 0
    BY <1>1
  <2> QED BY <1>2, <2>1, <2>2 DEF Fewer
<1>4. Taken(data, take) \in Seq(TarByte(M)) /\ Len(Taken(data, take)) = take
  BY <1>1, <1>3, TakenIs
<1> HIDE DEF take
<1>5. block \in Seq(TarByte(M)) /\ Len(block) = h + take
  BY <1>1, <1>4, ConcatProperties DEF TarGood
<1> HIDE DEF block
<1>6. p.stream_pos + take \in Nat /\ <<>> \in Seq(TarByte(M)) /\ Len(<<>>) = 0
  BY <1>3 DEF TarGood
<1>7. /\ DOMAIN full = TarFields /\ full.state = p.state /\ full.header_buf = <<>>
      /\ full.stream_pos = p.stream_pos + take
      /\ full.remaining = p.remaining /\ full.size = p.size /\ full.buf = p.buf
      /\ full.pax = p.pax
  BY DEF TarGood, TarFields
<1>8. /\ DOMAIN part = TarFields /\ part.state = p.state /\ part.header_buf = block
      /\ part.stream_pos = p.stream_pos + take
      /\ part.remaining = p.remaining /\ part.size = p.size /\ part.buf = p.buf
      /\ part.pax = p.pax
  BY DEF TarGood, TarFields
<1>9. a = IF Len(block) < Block THEN NeedsData(part, take)
          ELSE IF ~ IsZeroBlock(block) THEN TarProcessHeader(full, block, take)
          ELSE IF p.state = "OneZeroBlock" THEN EndsHere(end, take)
          ELSE NeedsData(one, take)
  BY DEF TarFeedHeader, take, block
<1> HIDE DEF part, full, q
<1>10. TarGood(full, M)
  BY <1>2, <1>6, <1>7 DEF TarGood
<1>11. /\ DOMAIN one = TarFields /\ one.state = "OneZeroBlock" /\ one.header_buf = <<>>
       /\ one.stream_pos = p.stream_pos + take
       /\ one.remaining = p.remaining /\ one.size = p.size /\ one.buf = p.buf
       /\ one.pax = p.pax
  BY <1>7 DEF TarFields
<1>12. /\ DOMAIN end = TarFields /\ end.state = "End" /\ end.header_buf = <<>>
       /\ end.stream_pos = p.stream_pos + take
       /\ end.remaining = p.remaining /\ end.size = p.size /\ end.buf = p.buf
       /\ end.pax = p.pax
  BY <1>7 DEF TarFields
<1> HIDE DEF one, end
<1>13. CASE Len(block) < Block
  <2>1. a = NeedsData(part, take)
    BY <1>9, <1>13
  <2>2. TarGood(part, M) /\ TarPressing(part)
    BY <1>5, <1>6, <1>8, <1>13 DEF TarGood, TarPressing, TarReads
  <2> QED
    BY <1>1, <1>3, <1>8, <2>1, <2>2 DEF Answers, Moved, NeedsData, Answer
<1>14. CASE ~ (Len(block) < Block) /\ ~ IsZeroBlock(block)
  <2>1. a = TarProcessHeader(full, block, take)
    BY <1>9, <1>14
  <2> QED
    BY <1>1, <1>3, <1>5, <1>7, <1>10, <2>1, TarProcessed DEF Answers, Moved
<1>15. CASE ~ (Len(block) < Block) /\ IsZeroBlock(block) /\ p.state = "OneZeroBlock"
  <2>1. a = EndsHere(end, take)
    BY <1>9, <1>15
  <2>2. TarGood(end, M) /\ TarPressing(end)
    BY <1>2, <1>6, <1>12 DEF TarGood, TarPressing, TarReads
  <2> QED
    BY <1>1, <1>3, <1>12, <2>1, <2>2 DEF Answers, Moved, EndsHere, Answer
<1>16. CASE ~ (Len(block) < Block) /\ IsZeroBlock(block) /\ p.state # "OneZeroBlock"
  <2>1. a = NeedsData(one, take)
    BY <1>9, <1>16
  <2>2. TarGood(one, M) /\ TarPressing(one)
    BY <1>2, <1>6, <1>11 DEF TarGood, TarPressing, TarReads
  <2> QED
    BY <1>1, <1>3, <1>11, <2>1, <2>2 DEF Answers, Moved, NeedsData, Answer
<1> QED
  BY <1>13, <1>14, <1>15, <1>16

\* What feed_skip, feed_pax and feed_gnu_long take.
LEMMA TarTaken ==
  ASSUME NEW M, NEW p, TarGood(p, M), NEW data \in Seq(TarByte(M)),
         NEW q, q = TarTake(p, data)
  PROVE  /\ TarGood(q, M) /\ q.state = p.state
         /\ q.remaining <= p.remaining
         /\ p.remaining - q.remaining \in 0..Len(data)
         /\ q.stream_pos = p.stream_pos + (p.remaining - q.remaining)
         /\ data # <<>> /\ p.remaining > 0 => p.remaining - q.remaining > 0
<1> DEFINE take   == Fewer(Len(data), p.remaining)
           useful == Fewer(take, p.size - Len(p.buf))
           buf    == IF p.state = "SkippingData" THEN p.buf ELSE p.buf \o Taken(data, useful)
<1>1. PICK n \in Nat, b \in Nat : n = Len(data) /\ b = Len(p.buf) /\ b <= p.size
  BY LenProperties DEF TarGood
<1>2. p.remaining \in Nat /\ p.stream_pos \in Nat /\ p.size \in Nat
  BY DEF TarGood
<1>3. take \in 0..n /\ take <= p.remaining
      /\ (n > 0 /\ p.remaining > 0 => take > 0)
  BY <1>1, <1>2 DEF Fewer
<1> HIDE DEF take
<1>4. useful \in 0..n /\ useful <= p.size - b
  BY <1>1, <1>2, <1>3 DEF Fewer
<1>5. Taken(data, useful) \in Seq(TarByte(M)) /\ Len(Taken(data, useful)) = useful
  BY <1>1, <1>4, TakenIs
<1> HIDE DEF useful
<1>6. /\ p.buf \o Taken(data, useful) \in Seq(TarByte(M))
      /\ Len(p.buf \o Taken(data, useful)) = b + useful
  <2> DEFINE s == p.buf
             t == Taken(data, useful)
  <2>1. s \in Seq(TarByte(M)) /\ t \in Seq(TarByte(M)) /\ Len(s) = b /\ Len(t) = useful
    BY <1>1, <1>5 DEF TarGood
  <2> HIDE DEF s, t
  <2>2. s \o t \in Seq(TarByte(M)) /\ Len(s \o t) = b + useful
    BY <2>1, ConcatProperties
  <2> QED BY <2>2 DEF s, t
<1>7. buf \in Seq(TarByte(M)) /\ Len(buf) <= p.size
  <2>1. b + useful <= p.size
    BY <1>1, <1>2, <1>4
  <2> QED BY <1>6, <2>1 DEF TarGood
<1>8. q = [p EXCEPT !.remaining = @ - take, !.stream_pos = @ + take, !.buf = buf]
  BY DEF TarTake, take, useful
<1> HIDE DEF buf
<1>9. /\ DOMAIN q = TarFields /\ q.state = p.state /\ q.header_buf = p.header_buf
      /\ q.stream_pos = p.stream_pos + take /\ q.remaining = p.remaining - take
      /\ q.size = p.size /\ q.buf = buf /\ q.pax = p.pax
  BY <1>8 DEF TarGood, TarFields
<1>10. q.stream_pos \in Nat /\ q.remaining \in Nat /\ p.remaining - q.remaining = take
  BY <1>2, <1>3, <1>9
<1>11. TarGood(q, M)
  BY <1>7, <1>9, <1>10 DEF TarGood
<1>12. data # <<>> => n > 0
  BY <1>1, EmptySeq
<1>13. q.remaining <= p.remaining
  BY <1>2, <1>3, <1>9
<1>14. p.remaining - q.remaining \in 0..Len(data)
  BY <1>1, <1>3, <1>10
<1>15. data # <<>> /\ p.remaining > 0 => p.remaining - q.remaining > 0
  BY <1>3, <1>10, <1>12
<1> QED
  BY <1>9, <1>10, <1>11, <1>13, <1>14, <1>15

\* What an extended header sets are settings.
LEMMA TarSet ==
  ASSUME NEW M, M \subseteq TarMembers, NEW p, TarGood(p, M), p.state \in TarReads,
         NEW q, q = TarSettings(p)
  PROVE  TarGood(q, M) /\ q.stream_pos = p.stream_pos
<1> DEFINE whole == Len(p.buf) > 0 /\ Whole(p.buf, "data", p.size)
           m     == p.buf[1].of
           name  == Some(IF whole THEN m.sets.path[1] ELSE "")
           pax   == [path     |-> Over(m.sets.path, p.pax.path),
                     linkpath |-> Over(m.sets.linkpath, p.pax.linkpath),
                     size     |-> Over(m.sets.size, p.pax.size)]
           set   == [p EXCEPT !.pax = pax]
           link  == [p EXCEPT !.gnu_long_link = name]
           long  == [p EXCEPT !.gnu_long_name = name]
<1>1. q \in {p, link, long} \/ (whole /\ q = set)
  BY DEF TarSettings, TarReads
<1>2. ASSUME whole PROVE pax.size \in Optional(Nat)
  <2>1. PICK n \in Nat : n = Len(p.buf) /\ n > 0 /\ n = p.size
    BY <1>2, LenProperties DEF TarGood, Whole
  <2>2. p.buf[1].kind = "data"
    BY <1>2, <2>1, WholeIs
  <2>3. p.buf[1] \in TarByte(M)
    <3>1. p.buf \in Seq(TarByte(M)) /\ 1 \in 1..Len(p.buf)
      BY <2>1 DEF TarGood
    <3> QED BY <3>1, ElementOfSeq
  <2>4. m \in M
    BY <2>2, <2>3 DEF TarByte, Byte, ZeroByte
  <2>5. m.sets.size \in Optional(Nat)
    BY <2>4 DEF TarMembers
  <2> QED BY <2>5 DEF Over, TarGood
<1> HIDE DEF pax, name
<1>3. CASE q = p
  BY <1>3
<1>4. CASE q \in {link, long}
  <2>1. /\ DOMAIN q = TarFields /\ q.state = p.state /\ q.header_buf = p.header_buf
        /\ q.stream_pos = p.stream_pos /\ q.remaining = p.remaining
        /\ q.size = p.size /\ q.buf = p.buf /\ q.pax = p.pax
    BY <1>4 DEF TarGood, TarFields
  <2> QED BY <2>1 DEF TarGood
<1>5. CASE whole /\ q = set
  <2>1. /\ DOMAIN q = TarFields /\ q.state = p.state /\ q.header_buf = p.header_buf
        /\ q.stream_pos = p.stream_pos /\ q.remaining = p.remaining
        /\ q.size = p.size /\ q.buf = p.buf /\ q.pax = pax
    BY <1>5 DEF TarGood, TarFields
  <2> QED BY <1>2, <1>5, <2>1 DEF TarGood
<1> QED
  BY <1>1, <1>3, <1>4, <1>5

\* feed(): the tar parser counts what it takes, and does not stand still unless an
\* extended header is empty.
LEMMA TarFed ==
  ASSUME NEW M, M \subseteq TarMembers, NEW p, TarGood(p, M),
         NEW data \in Seq(TarByte(M)), data # <<>>,
         NEW a, a = TarFeed(p, data)
  PROVE  /\ Answers(p, data, a)
         /\ a.event # "Error" => TarGood(a.parser, M)
         /\ TarFull(M) /\ TarPressing(p) =>
              Moved(a) /\ (a.event # "Error" => TarPressing(a.parser))
<1>1. CASE p.state \in {"ReadingHeader", "OneZeroBlock"}
  <2>1. a = TarFeedHeader(p, data)
    BY <1>1 DEF TarFeed
  <2> QED BY <1>1, <2>1, TarHeaderFed
<1>2. CASE p.state \in TarReads
  <2> DEFINE q == TarTake(p, data)
             set == TarSettings(q)
             idle == [set EXCEPT !.state = "ReadingHeader", !.buf = <<>>]
             taken == p.remaining - q.remaining
  <2>1. a = NeedsData(IF q.remaining > 0 THEN q ELSE idle, taken)
    BY <1>2 DEF TarFeed, TarFeedData, TarReads
  <2>2. /\ TarGood(q, M) /\ q.state = p.state
        /\ taken \in 0..Len(data) /\ q.stream_pos = p.stream_pos + taken
        /\ p.remaining > 0 => taken > 0
    BY TarTaken
  <2> HIDE DEF q
  <2>3. TarGood(set, M) /\ set.stream_pos = q.stream_pos
    BY <1>2, <2>2, TarSet
  <2> HIDE DEF set
  <2>4. /\ DOMAIN idle = TarFields /\ idle.state = "ReadingHeader"
        /\ idle.header_buf = set.header_buf /\ idle.stream_pos = set.stream_pos
        /\ idle.remaining = set.remaining /\ idle.size = set.size /\ idle.buf = <<>>
        /\ idle.pax = set.pax
    BY <2>3 DEF TarGood, TarFields
  <2>5. <<>> \in Seq(TarByte(M)) /\ Len(<<>>) = 0
    OBVIOUS
  <2> HIDE DEF idle
  <2>6. TarGood(idle, M) /\ TarPressing(idle)
    BY <2>3, <2>4, <2>5 DEF TarGood, TarPressing, TarReads
  <2>7. a.event = "NeedData" /\ a.consumed = taken
        /\ a.parser = IF q.remaining > 0 THEN q ELSE idle
    BY <2>1 DEF NeedsData, Answer
  <2> HIDE DEF taken
  <2>8. q.remaining > 0 => TarPressing(q)
    BY DEF TarPressing
  <2> QED
    BY <1>2, <2>2, <2>3, <2>4, <2>6, <2>7, <2>8 DEF Answers, Moved, TarPressing
<1>3. CASE p.state = "End"
  <2>1. a = EndsHere(p, 0)
    BY <1>3 DEF TarFeed
  <2> QED
    BY <1>3, <2>1, LenProperties DEF EndsHere, Answer, Answers, Moved, TarPressing, TarReads,
       TarGood
<1> QED
  BY <1>1, <1>2, <1>3 DEF TarGood

-----------------------------------------------------------------------------
(***************************************************************************)
(* The ar parser.                                                          *)
(***************************************************************************)
ArFields == {"state", "header_buf", "stream_pos", "header", "remaining", "pad", "buf",
             "name_table"}

ArGood(p, M) ==
  /\ DOMAIN p = ArFields
  /\ p.state \in {"ReadingMagic", "ReadingHeader", "ReadingNameTable", "ReadingBsdName",
                  "SkippingData"}
  /\ p.header_buf \in Seq(ArByte(M))
  /\ Len(p.header_buf) < IF p.state = "ReadingMagic" THEN ArMagicLen ELSE ArHeaderSize
  /\ p.stream_pos \in Nat /\ p.remaining \in Nat /\ p.pad \in Nat
  /\ p.state = "ReadingBsdName" =>
       \E m \in M : /\ p.header = Some(m) /\ m.namelen <= m.size
                    /\ m.namelen > 0 => p.remaining > 0

\* A member whose data is read has some left (a bsd name of no bytes is refused).
ArPressing(p) == p.state \in {"ReadingNameTable", "SkippingData"} => p.remaining > 0

\* No name table of the archive is empty.
ArFull(M) == \A m \in M : m.naming = "table" => m.size > 0

\* What a buffer takes of the data to hold `size' bytes.
LEMMA FillIs ==
  ASSUME NEW S, NEW buf \in Seq(S), NEW data \in Seq(S),
         NEW size \in Nat, Len(buf) <= size
  PROVE  LET take == Fewer(Len(data), size - Len(buf))
         IN  /\ take \in Nat /\ take <= Len(data)
             /\ data # <<>> /\ Len(buf) < size => take > 0
             /\ buf \o Taken(data, take) \in Seq(S)
             /\ Len(buf \o Taken(data, take)) <= size
<1> DEFINE take == Fewer(Len(data), size - Len(buf))
<1>1. PICK n \in Nat, b \in Nat : n = Len(data) /\ b = Len(buf)
  BY LenProperties
<1>2. take = Fewer(n, size - b) /\ b <= size
  BY <1>1
<1> HIDE DEF take
<1>3. /\ take \in Nat /\ take <= n /\ b + take <= size
      /\ n > 0 /\ b < size => take > 0
  BY <1>2 DEF Fewer
<1>4. take \in 0..Len(data)
  BY <1>1, <1>3
<1> DEFINE t == Taken(data, take)
<1>5. t \in Seq(S) /\ Len(t) = take
  BY <1>4, TakenIs
<1>6. data # <<>> => n > 0
  BY <1>1, EmptySeq
<1> HIDE DEF t
<1>7. buf \o t \in Seq(S) /\ Len(buf \o t) = b + take
  BY <1>1, <1>5, ConcatProperties
<1> QED
  BY <1>1, <1>3, <1>6, <1>7 DEF t, take

\* What a member takes of the data when so much of it remains.
LEMMA TakeIs ==
  ASSUME NEW S, NEW data \in Seq(S), NEW remaining \in Nat,
         NEW take, take = Fewer(Len(data), remaining)
  PROVE  /\ take \in Nat /\ take <= Len(data) /\ take <= remaining
         /\ remaining - take \in Nat
         /\ data # <<>> /\ remaining > 0 => take > 0
<1>1. PICK n \in Nat : n = Len(data)
  BY LenProperties
<1>2. take = Fewer(n, remaining)
  BY <1>1
<1>3. /\ take \in Nat /\ take <= n /\ take <= remaining /\ remaining - take \in Nat
      /\ n > 0 /\ remaining > 0 => take > 0
  BY <1>2 DEF Fewer
<1>4. data # <<>> => n > 0
  BY <1>1, EmptySeq
<1> QED
  BY <1>1, <1>3, <1>4

\* fill_header_buf() takes bytes up to the header's size.
LEMMA ArFilled ==
  ASSUME NEW M, NEW p, ArGood(p, M), NEW data \in Seq(ArByte(M)), data # <<>>,
         NEW size \in Nat, Len(p.header_buf) < size,
         NEW q, q = ArFill(p, data, size)
  PROVE  /\ DOMAIN q = ArFields /\ q.state = p.state /\ q.header = p.header
         /\ q.remaining = p.remaining /\ q.pad = p.pad
         /\ q.header_buf \in Seq(ArByte(M)) /\ Len(q.header_buf) <= size
         /\ q.stream_pos \in Nat /\ q.stream_pos > p.stream_pos
         /\ q.stream_pos - p.stream_pos <= Len(data)
<1> DEFINE take == Fewer(Len(data), size - Len(p.header_buf))
           buf  == p.header_buf \o Taken(data, take)
<1>1. /\ take \in Nat /\ take <= Len(data) /\ take > 0
      /\ buf \in Seq(ArByte(M)) /\ Len(buf) <= size
  <2>1. p.header_buf \in Seq(ArByte(M))
    BY DEF ArGood
  <2>2. /\ take \in Nat /\ take <= Len(data)
        /\ data # <<>> /\ Len(p.header_buf) < size => take > 0
        /\ p.header_buf \o Taken(data, take) \in Seq(ArByte(M))
        /\ Len(p.header_buf \o Taken(data, take)) <= size
    <3>1. Len(p.header_buf) <= size
      <4>1. PICK b \in Nat : b = Len(p.header_buf)
        BY <2>1, LenProperties
      <4> QED BY <4>1
    <3> QED BY <2>1, <3>1, FillIs
  <2> QED BY <2>2
<1>2. q = [p EXCEPT !.header_buf = buf, !.stream_pos = @ + take]
  BY DEF ArFill
<1> HIDE DEF take, buf
<1>3. /\ DOMAIN q = ArFields /\ q.state = p.state /\ q.header = p.header
      /\ q.remaining = p.remaining /\ q.pad = p.pad /\ q.header_buf = buf
      /\ q.stream_pos = p.stream_pos + take
  BY <1>2 DEF ArGood, ArFields
<1>4. PICK n \in Nat : n = Len(data)
  BY LenProperties
<1>5. p.stream_pos \in Nat
  BY DEF ArGood
<1> QED
  BY <1>1, <1>3, <1>4, <1>5

\* skip() leaves data to skip, or the next header to read.
LEMMA ArSkips ==
  ASSUME NEW M, NEW p, DOMAIN p = ArFields,
         p.header_buf \in Seq(ArByte(M)), Len(p.header_buf) < ArHeaderSize,
         p.stream_pos \in Nat,
         NEW n \in Nat, NEW pad \in Nat
  PROVE  /\ ArGood(ArSkip(p, n, pad), M) /\ ArPressing(ArSkip(p, n, pad))
         /\ ArSkip(p, n, pad).stream_pos = p.stream_pos
<1> DEFINE q == ArSkip(p, n, pad)
<1>1. /\ DOMAIN q = ArFields /\ q.header_buf = p.header_buf /\ q.stream_pos = p.stream_pos
      /\ q.state = IF n + pad = 0 THEN "ReadingHeader" ELSE "SkippingData"
      /\ q.remaining = n + pad /\ q.pad = IF n + pad = 0 THEN 0 ELSE pad
  BY DEF ArSkip, ArFields
<1>2. n + pad \in Nat /\ (n + pad # 0 => n + pad > 0)
  OBVIOUS
<1> HIDE DEF q
<1>3. q.state \in {"ReadingHeader", "SkippingData"} /\ q.pad \in Nat
  BY <1>1
<1>4. q.state # "ReadingMagic" /\ q.state # "ReadingBsdName"
  BY <1>3
<1>5. ArGood(q, M)
  BY <1>1, <1>2, <1>3, <1>4 DEF ArGood
<1>6. ArPressing(q)
  BY <1>1, <1>2 DEF ArPressing
<1> QED
  BY <1>1, <1>5, <1>6 DEF q

\* What the ar parser answers, and the state it is left in.
ArOutcome(p, M, data, a) ==
  /\ Answers(p, data, a)
  /\ a.event # "Error" => ArGood(a.parser, M)
  /\ ArFull(M) /\ ArPressing(p) => Moved(a) /\ (a.event # "Error" => ArPressing(a.parser))

\* feed_magic() reads the magic of the archive.
LEMMA ArMagicFed ==
  ASSUME NEW M, NEW p, ArGood(p, M), p.state = "ReadingMagic",
         NEW data \in Seq(ArByte(M)), data # <<>>,
         NEW a, a = ArFeedMagic(p, data)
  PROVE  ArOutcome(p, M, data, a)
<1> DEFINE q    == ArFill(p, data, ArMagicLen)
           next == [q EXCEPT !.header_buf = <<>>, !.state = "ReadingHeader"]
           take == q.stream_pos - p.stream_pos
<1>1. a = IF Len(q.header_buf) < ArMagicLen THEN NeedsData(q, take)
          ELSE IF ~ Whole(q.header_buf, "arch", ArMagicLen) THEN Refuses(q)
          ELSE NeedsData(next, take)
  BY DEF ArFeedMagic
<1>2. ArMagicLen \in Nat /\ ArHeaderSize \in Nat /\ ArHeaderSize > 0
  BY ArAssumption
<1>3. Len(p.header_buf) < ArMagicLen
  BY DEF ArGood
<1>4. /\ DOMAIN q = ArFields /\ q.state = p.state /\ q.header = p.header
      /\ q.remaining = p.remaining /\ q.pad = p.pad
      /\ q.header_buf \in Seq(ArByte(M)) /\ Len(q.header_buf) <= ArMagicLen
      /\ q.stream_pos \in Nat /\ q.stream_pos > p.stream_pos
      /\ q.stream_pos - p.stream_pos <= Len(data)
  <2> HIDE DEF q
  <2> QED BY <1>2, <1>3, ArFilled DEF q
<1> HIDE DEF q
<1>5. PICK n \in Nat : n = Len(data)
  BY LenProperties
<1>6. p.stream_pos \in Nat /\ take \in 0..Len(data) /\ take > 0
      /\ q.stream_pos = p.stream_pos + take
  BY <1>4, <1>5 DEF ArGood
<1>7. /\ DOMAIN next = ArFields /\ next.state = "ReadingHeader" /\ next.header_buf = <<>>
      /\ next.stream_pos = q.stream_pos /\ next.remaining = q.remaining /\ next.pad = q.pad
  BY <1>4 DEF ArFields
<1>8. <<>> \in Seq(ArByte(M)) /\ Len(<<>>) = 0
  OBVIOUS
<1> HIDE DEF take, next
<1>9. ArGood(next, M) /\ ArPressing(next)
  BY <1>2, <1>4, <1>7, <1>8 DEF ArGood, ArPressing
<1>10. CASE Len(q.header_buf) < ArMagicLen
  <2>1. ArGood(q, M) /\ ArPressing(q)
    BY <1>4, <1>10 DEF ArGood, ArPressing
  <2>2. a = NeedsData(q, take)
    BY <1>1, <1>10
  <2> QED BY <1>6, <2>1, <2>2 DEF ArOutcome, Answers, Moved, NeedsData, Answer
<1>11. CASE a = Refuses(q)
  BY <1>11 DEF ArOutcome, Answers, Moved, Refuses, Answer
<1>12. CASE a = NeedsData(next, take)
  BY <1>6, <1>7, <1>9, <1>12 DEF ArOutcome, Answers, Moved, NeedsData, Answer
<1> QED
  BY <1>1, <1>10, <1>11, <1>12

\* feed_header() reads a header, and knows what its member is (classify).
LEMMA ArHeaderFed ==
  ASSUME NEW M, M \subseteq ArMembers, NEW p, ArGood(p, M), p.state = "ReadingHeader",
         NEW data \in Seq(ArByte(M)), data # <<>>,
         NEW a, a = ArFeedHeader(p, data)
  PROVE  ArOutcome(p, M, data, a)
<1> DEFINE q    == ArFill(p, data, ArHeaderSize)
           m    == q.header_buf[1].of
           full == [q EXCEPT !.header_buf = <<>>]
           take == q.stream_pos - p.stream_pos
           into(state, n, pad) == [full EXCEPT !.state = state, !.header = Some(m),
                                               !.remaining = n, !.pad = pad, !.buf = <<>>]
           skip == ArSkip(full, m.size, ArPad(m))
           refused == ~ Whole(q.header_buf, "head", ArHeaderSize) \/ ArRefused(p, m)
<1>1. ArHeaderSize \in Nat /\ ArHeaderSize > 0
  BY ArAssumption
<1>2. Len(p.header_buf) < ArHeaderSize
  BY DEF ArGood
<1>3. /\ DOMAIN q = ArFields /\ q.state = p.state /\ q.header = p.header
      /\ q.remaining = p.remaining /\ q.pad = p.pad
      /\ q.header_buf \in Seq(ArByte(M)) /\ Len(q.header_buf) <= ArHeaderSize
      /\ q.stream_pos \in Nat /\ q.stream_pos > p.stream_pos
      /\ q.stream_pos - p.stream_pos <= Len(data)
  <2> HIDE DEF q
  <2> QED BY <1>1, <1>2, ArFilled DEF q
<1>4. a = IF Len(q.header_buf) < ArHeaderSize THEN NeedsData(q, take)
          ELSE IF refused THEN Refuses(q)
          ELSE CASE m.naming = "special" -> NeedsData(skip, take)
                 [] m.naming = "table" ->
                      NeedsData(into("ReadingNameTable", m.size, ArPad(m)), take)
                 [] m.naming = "bsd" -> NeedsData(into("ReadingBsdName", m.namelen, 0), take)
                 [] m.naming \in {"short", "long"} ->
                      Emits(skip, take, Entry(m.path, m.size, "Regular", None, q.stream_pos))
  BY DEF ArFeedHeader
<1> HIDE DEF q
<1>5. PICK n \in Nat : n = Len(data)
  BY LenProperties
<1>6. p.stream_pos \in Nat /\ take \in 0..Len(data) /\ take > 0
      /\ q.stream_pos = p.stream_pos + take
  BY <1>3, <1>5 DEF ArGood
<1>7. /\ DOMAIN full = ArFields /\ full.state = "ReadingHeader" /\ full.header_buf = <<>>
      /\ full.stream_pos = q.stream_pos /\ full.remaining = q.remaining /\ full.pad = q.pad
  BY <1>3 DEF ArFields
<1>8. <<>> \in Seq(ArByte(M)) /\ Len(<<>>) = 0
  OBVIOUS
<1> HIDE DEF take, full
<1>9. CASE Len(q.header_buf) < ArHeaderSize
  <2>1. q.state # "ReadingMagic" /\ q.state # "ReadingBsdName"
    BY <1>3
  <2>2. ArGood(q, M) /\ ArPressing(q)
    BY <1>3, <1>9, <2>1 DEF ArGood, ArPressing
  <2>3. a = NeedsData(q, take)
    BY <1>4, <1>9
  <2> QED BY <1>6, <2>2, <2>3 DEF ArOutcome, Answers, Moved, NeedsData, Answer
<1>10. CASE a = Refuses(q)
  BY <1>10 DEF ArOutcome, Answers, Moved, Refuses, Answer
<1>11. CASE ~ (Len(q.header_buf) < ArHeaderSize) /\ ~ refused
  <2>1. Whole(q.header_buf, "head", ArHeaderSize)
    BY <1>11
  <2>2. q.header_buf[1].kind = "head"
    BY <1>1, <2>1, WholeIs
  <2>3. q.header_buf[1] \in ArByte(M)
    <3>1. 1 \in 1..Len(q.header_buf)
      BY <1>1, <2>1 DEF Whole
    <3> QED BY <1>3, <3>1, ElementOfSeq
  <2>4. m \in M
    BY <2>2, <2>3 DEF ArByte, Byte, ZeroByte
  <2>5. /\ m.size \in Nat /\ m.namelen \in Nat /\ ArPad(m) \in Nat
        /\ m.naming \in {"short", "long", "bsd", "table", "special"}
    BY <2>4 DEF ArMembers, ArPad
  <2>6. m.naming = "bsd" => m.namelen <= m.size
    BY <1>11, <2>5 DEF ArRefused
  <2> HIDE DEF m
  <2>7. ArGood(skip, M) /\ ArPressing(skip) /\ skip.stream_pos = q.stream_pos
    <3>1. /\ full.header_buf \in Seq(ArByte(M)) /\ Len(full.header_buf) < ArHeaderSize
          /\ full.stream_pos \in Nat /\ DOMAIN full = ArFields
      BY <1>1, <1>3, <1>7, <1>8
    <3>2. ArGood(skip, M) /\ ArPressing(skip) /\ skip.stream_pos = full.stream_pos
      BY <2>5, <3>1, ArSkips
    <3> QED BY <1>7, <3>2
  <2> HIDE DEF skip
  <2>8. ASSUME NEW s \in {"ReadingNameTable", "ReadingBsdName"}, NEW k \in Nat,
               NEW pad \in Nat,
               s = "ReadingBsdName" => m.namelen <= m.size /\ k = m.namelen
        PROVE  /\ ArGood(into(s, k, pad), M) /\ into(s, k, pad).stream_pos = q.stream_pos
               /\ into(s, k, pad).state = s /\ into(s, k, pad).remaining = k
    <3> DEFINE r == into(s, k, pad)
    <3>1. /\ DOMAIN r = ArFields /\ r.state = s /\ r.header = Some(m) /\ r.remaining = k
          /\ r.pad = pad /\ r.header_buf = <<>> /\ r.stream_pos = q.stream_pos
      BY <1>7 DEF ArFields
    <3> HIDE DEF r
    <3>2. s # "ReadingMagic" /\ s \in {"ReadingMagic", "ReadingHeader", "ReadingNameTable",
                                       "ReadingBsdName", "SkippingData"}
      OBVIOUS
    <3>3. ArGood(r, M)
      BY <1>1, <1>3, <1>8, <2>4, <2>8, <3>1, <3>2 DEF ArGood
    <3> QED BY <3>1, <3>3 DEF r
  <2> HIDE DEF into
  <2>9. CASE m.naming \in {"special", "short", "long"}
    <3>1. \/ a = NeedsData(skip, take)
          \/ a = Emits(skip, take, Entry(m.path, m.size, "Regular", None, q.stream_pos))
      BY <1>4, <1>11, <2>9
    <3> QED BY <1>6, <2>7, <3>1
            DEF ArOutcome, Answers, Moved, NeedsData, Emits, Answer
  <2>10. CASE m.naming = "table"
    <3> DEFINE r == into("ReadingNameTable", m.size, ArPad(m))
    <3>1. a = NeedsData(r, take)
      BY <1>4, <1>11, <2>10
    <3>2. /\ ArGood(r, M) /\ r.stream_pos = q.stream_pos
          /\ r.state = "ReadingNameTable" /\ r.remaining = m.size
      <4>1. "ReadingNameTable" # "ReadingBsdName"
        OBVIOUS
      <4> QED BY <2>5, <2>8, <4>1
    <3>3. ArFull(M) => ArPressing(r)
      BY <2>4, <2>10, <3>2 DEF ArFull, ArPressing
    <3> HIDE DEF r
    <3> QED BY <1>6, <3>1, <3>2, <3>3 DEF ArOutcome, Answers, Moved, NeedsData, Answer
  <2>11. CASE m.naming = "bsd"
    <3> DEFINE r == into("ReadingBsdName", m.namelen, 0)
    <3>1. a = NeedsData(r, take)
      BY <1>4, <1>11, <2>11
    <3>2. ArGood(r, M) /\ r.stream_pos = q.stream_pos /\ r.state = "ReadingBsdName"
      BY <2>5, <2>6, <2>8, <2>11
    <3>3. ArPressing(r)
      BY <3>2 DEF ArPressing
    <3> HIDE DEF r
    <3> QED BY <1>6, <3>1, <3>2, <3>3 DEF ArOutcome, Answers, Moved, NeedsData, Answer
  <2> QED BY <2>5, <2>9, <2>10, <2>11
<1> QED
  BY <1>4, <1>9, <1>10, <1>11

\* What the ar parser takes of a member leaves it the rest.
LEMMA ArTaken ==
  ASSUME NEW M, NEW p, ArGood(p, M), NEW data \in Seq(ArByte(M)), data # <<>>
  PROVE  LET take == Fewer(Len(data), p.remaining)
         IN  /\ take \in 0..Len(data) /\ p.remaining - take \in Nat
             /\ p.stream_pos + take \in Nat
             /\ p.remaining > 0 => take > 0
<1> DEFINE take == Fewer(Len(data), p.remaining)
<1>1. p.remaining \in Nat /\ p.stream_pos \in Nat
  BY DEF ArGood
<1>2. PICK n \in Nat : n = Len(data) /\ n > 0
  BY LenProperties, EmptySeq
<1>3. take = Fewer(n, p.remaining)
  BY <1>2
<1> HIDE DEF take
<1>4. take \in 0..n /\ p.remaining - take \in Nat /\ (p.remaining > 0 => take > 0)
  <2>1. n \in Nat /\ n > 0
    BY <1>2
  <2> QED BY <1>1, <1>3, <2>1 DEF Fewer
<1> QED
  BY <1>1, <1>2, <1>4 DEF take

\* feed_name_table() collects the table.
LEMMA ArNameTableFed ==
  ASSUME NEW M, NEW p, ArGood(p, M), p.state = "ReadingNameTable",
         NEW data \in Seq(ArByte(M)), data # <<>>,
         NEW a, a = ArFeedNameTable(p, data)
  PROVE  ArOutcome(p, M, data, a)
<1> DEFINE take == Fewer(Len(data), p.remaining)
           q    == [ArTook(p, take) EXCEPT !.buf = @ \o Taken(data, take)]
           full == [q EXCEPT !.name_table = Some(q.buf), !.buf = <<>>]
           skip == ArSkip(full, 0, p.pad)
<1>1. a = NeedsData(IF q.remaining > 0 THEN q ELSE skip, take)
  BY DEF ArFeedNameTable
<1>2. /\ take \in 0..Len(data) /\ p.remaining - take \in Nat
      /\ p.stream_pos + take \in Nat
      /\ p.remaining > 0 => take > 0
  BY ArTaken
<1> HIDE DEF take
<1>3. /\ DOMAIN q = ArFields /\ q.state = p.state /\ q.header_buf = p.header_buf
      /\ q.stream_pos = p.stream_pos + take /\ q.remaining = p.remaining - take
      /\ q.pad = p.pad
  BY DEF ArGood, ArFields, ArTook
<1> HIDE DEF q
<1>4. /\ DOMAIN full = ArFields /\ full.header_buf = p.header_buf
      /\ full.stream_pos = q.stream_pos
  BY <1>3 DEF ArFields
<1> HIDE DEF full
<1>5. ArGood(skip, M) /\ ArPressing(skip) /\ skip.stream_pos = q.stream_pos
  <2>1. /\ full.header_buf \in Seq(ArByte(M)) /\ Len(full.header_buf) < ArHeaderSize
        /\ full.stream_pos \in Nat /\ p.pad \in Nat /\ 0 \in Nat
    BY <1>2, <1>3, <1>4 DEF ArGood
  <2> QED BY <1>4, <2>1, ArSkips
<1> HIDE DEF skip
<1>6. ArGood(q, M)
  BY <1>2, <1>3 DEF ArGood
<1>7. q.remaining > 0 => ArPressing(q)
  BY DEF ArPressing
<1>8. ArPressing(p) => p.remaining > 0
  BY DEF ArPressing
<1> QED
  BY <1>1, <1>2, <1>3, <1>5, <1>6, <1>7, <1>8
     DEF ArOutcome, Answers, Moved, NeedsData, Answer

\* feed_bsd_name() reads the name a member's data starts with.
LEMMA ArBsdNameFed ==
  ASSUME NEW M, M \subseteq ArMembers, NEW p, ArGood(p, M), p.state = "ReadingBsdName",
         NEW data \in Seq(ArByte(M)), data # <<>>,
         NEW a, a = ArFeedBsdName(p, data)
  PROVE  ArOutcome(p, M, data, a)
<1> DEFINE take  == Fewer(Len(data), p.remaining)
           q     == [ArTook(p, take) EXCEPT !.buf = @ \o Taken(data, take)]
           m     == p.header[1]
           left  == m.size - m.namelen
           full  == [q EXCEPT !.buf = <<>>]
           skip  == ArSkip(full, left, ArPad(m))
           entry == Entry(m.path, left, "Regular", None, q.stream_pos)
<1>1. a = IF q.remaining > 0 THEN NeedsData(q, take)
          ELSE IF m.namelen = 0 \/ ~ Whole(q.buf, "name", m.namelen) THEN Refuses(q)
          ELSE IF m.path = SymbolTable THEN NeedsData(skip, take)
          ELSE Emits(skip, take, entry)
  BY DEF ArFeedBsdName
<1>2. /\ take \in 0..Len(data) /\ p.remaining - take \in Nat
      /\ p.stream_pos + take \in Nat
      /\ p.remaining > 0 => take > 0
  BY ArTaken
<1>3. PICK x \in M : /\ p.header = Some(x) /\ x.namelen <= x.size
                     /\ x.namelen > 0 => p.remaining > 0
  BY DEF ArGood
<1>4. /\ m = x /\ left \in Nat /\ ArPad(m) \in Nat
      /\ m.namelen # 0 => m.namelen > 0
  BY <1>3 DEF Some, ArMembers, ArPad
<1> HIDE DEF take, m, left, entry
<1>5. /\ DOMAIN q = ArFields /\ q.state = p.state /\ q.header_buf = p.header_buf
      /\ q.stream_pos = p.stream_pos + take /\ q.remaining = p.remaining - take
      /\ q.pad = p.pad /\ q.header = p.header
      /\ q.buf = p.buf \o Taken(data, take)
  BY DEF ArGood, ArFields, ArTook
<1> HIDE DEF q
<1>6. /\ DOMAIN full = ArFields /\ full.header_buf = p.header_buf
      /\ full.stream_pos = q.stream_pos
  BY <1>5 DEF ArFields
<1> HIDE DEF full
<1>7. ArGood(skip, M) /\ ArPressing(skip) /\ skip.stream_pos = q.stream_pos
  <2>1. /\ full.header_buf \in Seq(ArByte(M)) /\ Len(full.header_buf) < ArHeaderSize
        /\ full.stream_pos \in Nat
    BY <1>2, <1>5, <1>6 DEF ArGood
  <2> QED BY <1>4, <1>6, <2>1, ArSkips
<1> HIDE DEF skip
<1>8. ArPressing(q) /\ (q.remaining > 0 => ArGood(q, M))
  BY <1>2, <1>5 DEF ArGood, ArPressing
<1>9. p.remaining \in Nat
  BY DEF ArGood
<1>10. CASE q.remaining > 0
  <2>1. p.remaining # 0
    BY <1>2, <1>5, <1>9, <1>10
  <2>2. a = NeedsData(q, take) /\ take > 0
    BY <1>1, <1>2, <1>9, <1>10, <2>1
  <2> QED BY <1>2, <1>5, <1>8, <1>10, <2>2 DEF ArOutcome, Answers, Moved, NeedsData, Answer
<1>11. CASE a = Refuses(q)
  BY <1>11 DEF ArOutcome, Answers, Moved, Refuses, Answer
<1>12. CASE a = Emits(skip, take, entry)
  BY <1>2, <1>5, <1>7, <1>12 DEF ArOutcome, Answers, Moved, Emits, Answer
<1>13. CASE ~ (q.remaining > 0) /\ m.namelen # 0 /\ Whole(q.buf, "name", m.namelen)
            /\ a = NeedsData(skip, take)
  <2>1. take > 0
    BY <1>2, <1>3, <1>4, <1>13
  <2> QED BY <1>2, <1>5, <1>7, <1>13, <2>1 DEF ArOutcome, Answers, Moved, NeedsData, Answer
<1> QED
  BY <1>1, <1>10, <1>11, <1>12, <1>13

\* feed_skip() passes over data and padding.
LEMMA ArSkipFed ==
  ASSUME NEW M, NEW p, ArGood(p, M), p.state = "SkippingData",
         NEW data \in Seq(ArByte(M)), data # <<>>,
         NEW a, a = ArFeedSkip(p, data)
  PROVE  ArOutcome(p, M, data, a)
<1> DEFINE take == Fewer(Len(data), p.remaining)
           pad  == Fewer(p.pad, p.remaining - take)
           q    == [ArTook(p, take) EXCEPT !.pad = Fewer(@, p.remaining - take)]
           next == [q EXCEPT !.state = "ReadingHeader"]
<1>1. a = NeedsData(IF q.remaining = 0 THEN next ELSE q, take)
  BY DEF ArFeedSkip
<1>2. /\ take \in 0..Len(data) /\ p.remaining - take \in Nat
      /\ p.stream_pos + take \in Nat
      /\ p.remaining > 0 => take > 0
  BY ArTaken
<1> HIDE DEF take
<1>3. pad \in Nat
  <2>1. p.pad \in Nat
    BY DEF ArGood
  <2> QED BY <1>2, <2>1 DEF Fewer
<1>4. /\ DOMAIN q = ArFields /\ q.state = p.state /\ q.header_buf = p.header_buf
      /\ q.stream_pos = p.stream_pos + take /\ q.remaining = p.remaining - take
      /\ q.pad = pad
  BY DEF ArGood, ArFields, ArTook
<1> HIDE DEF q, pad
<1>5. /\ DOMAIN next = ArFields /\ next.state = "ReadingHeader"
      /\ next.header_buf = p.header_buf /\ next.stream_pos = q.stream_pos
      /\ next.remaining = q.remaining /\ next.pad = pad
  BY <1>4 DEF ArFields
<1> HIDE DEF next
<1>6. ArGood(q, M) /\ ArGood(next, M) /\ ArPressing(next)
  BY <1>2, <1>3, <1>4, <1>5 DEF ArGood, ArPressing
<1>7. q.remaining # 0 => ArPressing(q)
  BY <1>2, <1>4 DEF ArPressing
<1>8. ArPressing(p) => p.remaining > 0
  BY DEF ArPressing
<1> QED
  BY <1>1, <1>2, <1>4, <1>5, <1>6, <1>7, <1>8
     DEF ArOutcome, Answers, Moved, NeedsData, Answer

\* feed(): the ar parser counts what it takes, and does not stand still unless a name
\* table is empty.
LEMMA ArFed ==
  ASSUME NEW M, M \subseteq ArMembers, NEW p, ArGood(p, M),
         NEW data \in Seq(ArByte(M)), data # <<>>,
         NEW a, a = ArFeed(p, data)
  PROVE  ArOutcome(p, M, data, a)
<1>1. CASE p.state = "ReadingMagic"
  <2>1. a = ArFeedMagic(p, data)
    BY <1>1 DEF ArFeed
  <2> QED BY <1>1, <2>1, ArMagicFed
<1>2. CASE p.state = "ReadingHeader"
  <2>1. a = ArFeedHeader(p, data)
    BY <1>2 DEF ArFeed
  <2> QED BY <1>2, <2>1, ArHeaderFed
<1>3. CASE p.state = "ReadingNameTable"
  <2>1. a = ArFeedNameTable(p, data)
    BY <1>3 DEF ArFeed
  <2> QED BY <1>3, <2>1, ArNameTableFed
<1>4. CASE p.state = "ReadingBsdName"
  <2>1. a = ArFeedBsdName(p, data)
    BY <1>4 DEF ArFeed
  <2> QED BY <1>4, <2>1, ArBsdNameFed
<1>5. CASE p.state = "SkippingData"
  <2>1. a = ArFeedSkip(p, data)
    BY <1>5 DEF ArFeed
  <2> QED BY <1>5, <2>1, ArSkipFed
<1> QED
  BY <1>1, <1>2, <1>3, <1>4, <1>5 DEF ArGood

-----------------------------------------------------------------------------
(***************************************************************************)
(* The cpio parser.                                                        *)
(***************************************************************************)
CpioFields == {"state", "header_buf", "stream_pos", "sub_format", "header", "entry",
               "remaining", "buf", "resolved_inodes", "deferred_links", "pending"}

CpioReads == {"ReadingFilename", "SkippingNamePad", "ReadingLinkTarget", "SkippingData",
              "SkippingDataPad"}

CpioGood(p, M) ==
  /\ DOMAIN p = CpioFields
  /\ p.state \in {"ReadingHeader", "End"} \cup CpioReads
  /\ p.sub_format = None \/ \E sub \in DOMAIN HeaderSizes : p.sub_format = Some(sub)
  /\ p.header_buf \in Seq(CpioByte(M)) /\ Len(p.header_buf) < HeaderWanted(p)
  /\ p.stream_pos \in Nat /\ p.remaining \in Nat
  /\ p.state \in CpioReads => p.sub_format # None /\ \E m \in M : p.header = Some(m)
  /\ p.state = "ReadingLinkTarget" =>
       "data_offset" \in DOMAIN p.entry[1] /\ p.entry[1].data_offset \in Int

\* A member whose name or data is read has some left.
CpioPressing(p) == p.state \in CpioReads => p.remaining > 0

\* No name of the archive is empty: it holds the zero at its end at least.
CpioFull(M) == \A m \in M : m.namesize > 0

\* What the cpio parser answers, and the state it is left in.
CpioOutcome(p, M, data, a) ==
  /\ Answers(p, data, a)
  /\ a.event # "Error" => CpioGood(a.parser, M)
  /\ CpioFull(M) /\ CpioPressing(p) =>
       Moved(a) /\ (a.event # "Error" => CpioPressing(a.parser))

\* What is left of the data after some of it was taken.
LEMMA RestIs ==
  ASSUME NEW S, NEW data \in Seq(S), NEW n \in 0..Len(data)
  PROVE  /\ SubSeq(data, n + 1, Len(data)) \in Seq(S)
         /\ Len(SubSeq(data, n + 1, Len(data))) = Len(data) - n
<1>1. PICK k \in Nat : k = Len(data) /\ n \in 0..k
  BY LenProperties
<1>2. \A i \in (n + 1)..k : data[i] \in S
  BY <1>1, ElementOfSeq
<1>3. n + 1 \in Int /\ k \in Int
  BY <1>1
<1>4. /\ SubSeq(data, n + 1, k) \in Seq(S)
      /\ Len(SubSeq(data, n + 1, k)) = IF n + 1 <= k THEN k - (n + 1) + 1 ELSE 0
  BY <1>2, <1>3, SubSeqProperties
<1>5. (IF n + 1 <= k THEN k - (n + 1) + 1 ELSE 0) = k - n
  BY <1>1
<1> QED
  BY <1>1, <1>4, <1>5

\* What pads n bytes.
LEMMA CpioPadIs ==
  ASSUME NEW sub, NEW n \in Int
  PROVE  CpioPad(sub, n) \in Nat
<1>1. Align \in Nat /\ Align > 0
  BY CpioAssumption
<1>2. n % Align \in 0..(Align - 1)
  BY <1>1
<1>3. Align - (n % Align) \in Int
  BY <1>1, <1>2
<1> DEFINE k == Align - (n % Align)
<1> HIDE DEF k
<1>4. k % Align \in Nat
  BY <1>1, <1>3 DEF k
<1> QED
  BY <1>4 DEF CpioPad, k

\* How much of a header is wanted.
LEMMA WantedIs ==
  ASSUME NEW p, p.sub_format = None \/ \E sub \in DOMAIN HeaderSizes : p.sub_format = Some(sub)
  PROVE  HeaderWanted(p) \in Nat /\ HeaderWanted(p) > 0
<1>1. /\ MagicLen \in Nat /\ MagicLen > 0
      /\ \A sub \in DOMAIN HeaderSizes : HeaderSizes[sub] \in Nat /\ HeaderSizes[sub] > 0
  BY CpioAssumption
<1> QED
  BY <1>1 DEF HeaderWanted, Some, None

\* The fields a parser keeps while it buffers.
CpioKeeps(p, q) ==
  /\ DOMAIN q = CpioFields /\ q.state = p.state /\ q.sub_format = p.sub_format
  /\ q.header = p.header /\ q.entry = p.entry /\ q.remaining = p.remaining

\* feed_header() buffers bytes up to what is wanted.
LEMMA CpioFilled ==
  ASSUME NEW M, NEW p, DOMAIN p = CpioFields, HeaderWanted(p) \in Nat,
         p.header_buf \in Seq(CpioByte(M)), Len(p.header_buf) <= HeaderWanted(p),
         p.stream_pos \in Nat, NEW data \in Seq(CpioByte(M))
  PROVE  LET q == CpioFillHeader(p, data)
         IN  /\ CpioKeeps(p, q)
             /\ q.header_buf \in Seq(CpioByte(M)) /\ Len(q.header_buf) <= HeaderWanted(p)
             /\ q.stream_pos \in Nat /\ q.stream_pos >= p.stream_pos
             /\ q.stream_pos - p.stream_pos <= Len(data)
             /\ data # <<>> /\ Len(p.header_buf) < HeaderWanted(p) =>
                  q.stream_pos > p.stream_pos
<1> DEFINE q    == CpioFillHeader(p, data)
           size == HeaderWanted(p)
           take == Fewer(Len(data), size - Len(p.header_buf))
           buf  == p.header_buf \o Taken(data, take)
<1>1. q = [p EXCEPT !.header_buf = buf, !.stream_pos = @ + take]
  BY DEF CpioFillHeader
<1> HIDE DEF size
<1>2. /\ take \in Nat /\ take <= Len(data)
      /\ data # <<>> /\ Len(p.header_buf) < size => take > 0
      /\ buf \in Seq(CpioByte(M)) /\ Len(buf) <= size
  <2>1. size \in Nat /\ Len(p.header_buf) <= size
    BY DEF size
  <2> QED BY <2>1, FillIs
<1> HIDE DEF take, buf, q
<1>3. CpioKeeps(p, q) /\ q.header_buf = buf /\ q.stream_pos = p.stream_pos + take
  BY <1>1 DEF CpioKeeps, CpioFields
<1>4. PICK n \in Nat : n = Len(data)
  BY LenProperties
<1>5. /\ q.stream_pos \in Nat /\ q.stream_pos >= p.stream_pos
      /\ q.stream_pos - p.stream_pos <= Len(data)
      /\ take > 0 => q.stream_pos > p.stream_pos
  BY <1>2, <1>3, <1>4
<1> QED
  BY <1>2, <1>3, <1>5 DEF q, size

\* A whole header is taken for what it says.
LEMMA CpioProcessed ==
  ASSUME NEW M, M \subseteq CpioMembers, NEW p, DOMAIN p = CpioFields,
         NEW sub \in DOMAIN HeaderSizes, p.sub_format = Some(sub),
         p.header_buf \in Seq(CpioByte(M)), p.stream_pos \in Nat,
         NEW taken \in Nat, NEW a, a = CpioProcessHeader(p, taken)
  PROVE  /\ a.event \in {"NeedData", "Error"}
         /\ a.event # "Error" =>
              /\ a.consumed = taken /\ a.parser.stream_pos = p.stream_pos
              /\ CpioGood(a.parser, M)
              /\ CpioFull(M) => CpioPressing(a.parser)
<1> DEFINE m    == p.header_buf[1].of
           next == [p EXCEPT !.header_buf = <<>>, !.state = "ReadingFilename",
                             !.header = Some(m), !.remaining = m.namesize, !.buf = <<>>]
           refused == ~ Whole(p.header_buf, sub, HeaderSizes[sub]) \/ m.namesize > MaxNameSize
<1>1. a = IF refused THEN Refuses(p) ELSE NeedsData(next, taken)
  <2>1. p.sub_format[1] = sub
    BY DEF Some
  <2> QED BY <2>1 DEF CpioProcessHeader
<1>2. CASE refused
  <2>1. a = Refuses(p)
    BY <1>1, <1>2
  <2> QED BY <2>1 DEF Refuses, Answer
<1>3. CASE ~ refused
  <2>1. HeaderSizes[sub] \in Nat /\ HeaderSizes[sub] > 0 /\ sub \in {"newc", "odc"}
    BY CpioAssumption
  <2>2. Whole(p.header_buf, sub, HeaderSizes[sub])
    BY <1>3
  <2>3. p.header_buf[1].kind = sub
    BY <2>1, <2>2, WholeIs
  <2>4. p.header_buf[1] \in CpioByte(M)
    <3>1. 1 \in 1..Len(p.header_buf)
      BY <2>1, <2>2 DEF Whole
    <3> QED BY <3>1, ElementOfSeq
  <2>5. m \in M
    BY <2>1, <2>3, <2>4 DEF CpioByte, Byte, ZeroByte
  <2>6. m.namesize \in Nat
    BY <2>5 DEF CpioMembers
  <2>7. a = NeedsData(next, taken)
    BY <1>1, <1>3
  <2> HIDE DEF m
  <2>8. /\ DOMAIN next = CpioFields /\ next.state = "ReadingFilename"
        /\ next.header_buf = <<>> /\ next.header = Some(m) /\ next.remaining = m.namesize
        /\ next.stream_pos = p.stream_pos /\ next.sub_format = p.sub_format
    BY DEF CpioFields
  <2> HIDE DEF next
  <2>9. HeaderWanted(next) > 0
    BY <2>8, WantedIs
  <2>10. <<>> \in Seq(CpioByte(M)) /\ Len(<<>>) = 0
    OBVIOUS
  <2>11. next.sub_format # None
    BY <2>8 DEF Some, None
  <2>12. CpioGood(next, M)
    BY <2>5, <2>6, <2>8, <2>9, <2>10, <2>11 DEF CpioGood, CpioReads
  <2>13. CpioFull(M) => CpioPressing(next)
    BY <2>5, <2>8 DEF CpioFull, CpioPressing
  <2> QED
    BY <2>7, <2>8, <2>12, <2>13 DEF NeedsData, Answer
<1> QED
  BY <1>2, <1>3

\* What is buffered of a header that is not whole yet keeps the parser good.
LEMMA CpioBuffered ==
  ASSUME NEW M, NEW q, DOMAIN q = CpioFields, q.state = "ReadingHeader",
         q.sub_format = None \/ \E sub \in DOMAIN HeaderSizes : q.sub_format = Some(sub),
         q.header_buf \in Seq(CpioByte(M)), Len(q.header_buf) < HeaderWanted(q),
         q.stream_pos \in Nat, q.remaining \in Nat
  PROVE  CpioGood(q, M) /\ CpioPressing(q)
BY DEF CpioGood, CpioPressing, CpioReads

\* feed_header() reads the magic, tells the sub-format from it, and reads the rest.
LEMMA CpioHeaderFed ==
  ASSUME NEW M, M \subseteq CpioMembers, NEW p, CpioGood(p, M), p.state = "ReadingHeader",
         NEW data \in Seq(CpioByte(M)), data # <<>>,
         NEW a, a = CpioFeedHeader(p, data)
  PROVE  CpioOutcome(p, M, data, a)
<1> DEFINE q     == CpioFillHeader(p, data)
           magic == q.header_buf[1].kind
           known == IF p.sub_format # None THEN q ELSE [q EXCEPT !.sub_format = Some(magic)]
           rest  == SubSeq(data, q.stream_pos - p.stream_pos + 1, Len(data))
           full  == CpioFillHeader(known, rest)
           taken == full.stream_pos - p.stream_pos
<1>1. a = IF Len(q.header_buf) < HeaderWanted(p)
            THEN NeedsData(q, q.stream_pos - p.stream_pos)
          ELSE IF magic \notin DOMAIN HeaderSizes THEN Refuses(q)
          ELSE IF Len(full.header_buf) < HeaderWanted(full) THEN NeedsData(full, taken)
          ELSE CpioProcessHeader(full, taken)
  BY DEF CpioFeedHeader
<1>2. HeaderWanted(p) \in Nat
  BY WantedIs DEF CpioGood
<1>3. /\ CpioKeeps(p, q)
      /\ q.header_buf \in Seq(CpioByte(M)) /\ Len(q.header_buf) <= HeaderWanted(p)
      /\ q.stream_pos \in Nat /\ q.stream_pos >= p.stream_pos
      /\ q.stream_pos - p.stream_pos <= Len(data)
      /\ q.stream_pos > p.stream_pos
  <2>1. /\ DOMAIN p = CpioFields /\ p.header_buf \in Seq(CpioByte(M))
        /\ Len(p.header_buf) < HeaderWanted(p) /\ p.stream_pos \in Nat
    BY DEF CpioGood
  <2>2. Len(p.header_buf) <= HeaderWanted(p)
    BY <1>2, <2>1, LenProperties
  <2> QED BY <1>2, <2>1, <2>2, CpioFilled
<1> HIDE DEF q
<1>4. PICK n \in Nat : n = Len(data)
  BY LenProperties
<1>5. p.stream_pos \in Nat /\ q.stream_pos - p.stream_pos \in 0..Len(data)
  BY <1>3, <1>4 DEF CpioGood
<1>6. rest \in Seq(CpioByte(M)) /\ Len(rest) = Len(data) - (q.stream_pos - p.stream_pos)
  BY <1>5, RestIs
<1> HIDE DEF rest
<1>7. CASE Len(q.header_buf) < HeaderWanted(p)
  <2>1. HeaderWanted(q) = HeaderWanted(p)
    BY <1>3 DEF CpioKeeps, HeaderWanted
  <2>2. CpioGood(q, M) /\ CpioPressing(q)
    BY <1>3, <1>7, <2>1, CpioBuffered DEF CpioKeeps, CpioGood
  <2> DEFINE k == q.stream_pos - p.stream_pos
  <2>3. k \in 0..Len(data) /\ k > 0 /\ q.stream_pos = p.stream_pos + k
    BY <1>3, <1>5
  <2>4. a = NeedsData(q, k)
    BY <1>1, <1>7
  <2> HIDE DEF k
  <2> QED BY <2>2, <2>3, <2>4 DEF CpioOutcome, Answers, Moved, NeedsData, Answer
<1>8. CASE a = Refuses(q)
  BY <1>8 DEF CpioOutcome, Answers, Moved, Refuses, Answer
<1>9. CASE ~ (Len(q.header_buf) < HeaderWanted(p)) /\ magic \in DOMAIN HeaderSizes
  <2>1. PICK sub \in DOMAIN HeaderSizes :
          /\ known.sub_format = Some(sub)
          /\ Len(q.header_buf) <= HeaderSizes[sub]
    <3>1. CASE p.sub_format # None
      <4>1. known.sub_format = p.sub_format
        BY <1>3, <3>1 DEF CpioKeeps
      <4>2. PICK sub \in DOMAIN HeaderSizes : p.sub_format = Some(sub)
        BY <3>1 DEF CpioGood
      <4>3. HeaderWanted(p) = HeaderSizes[sub]
        BY <3>1, <4>2 DEF HeaderWanted, Some
      <4> QED BY <1>3, <4>1, <4>2, <4>3
    <3>2. CASE p.sub_format = None
      <4>1. known.sub_format = Some(magic)
        BY <1>3, <3>2 DEF CpioKeeps, CpioFields
      <4>2. HeaderWanted(p) = MagicLen
        BY <3>2 DEF HeaderWanted
      <4>3. MagicLen \in Nat /\ HeaderSizes[magic] \in Nat /\ MagicLen <= HeaderSizes[magic]
        BY <1>9, CpioAssumption
      <4>4. PICK k \in Nat : k = Len(q.header_buf)
        BY <1>3, LenProperties
      <4> QED BY <1>3, <1>9, <4>1, <4>2, <4>3, <4>4
    <3> QED BY <3>1, <3>2
  <2>2. /\ DOMAIN known = CpioFields /\ known.state = "ReadingHeader"
        /\ known.header_buf = q.header_buf /\ known.stream_pos = q.stream_pos
        /\ known.remaining = p.remaining
    BY <1>3 DEF CpioKeeps, CpioFields
  <2> HIDE DEF known, magic
  <2>3. HeaderWanted(known) = HeaderSizes[sub] /\ HeaderSizes[sub] \in Nat
    BY <2>1, CpioAssumption DEF HeaderWanted, Some, None
  <2>4. /\ CpioKeeps(known, full)
        /\ full.header_buf \in Seq(CpioByte(M))
        /\ full.stream_pos \in Nat /\ full.stream_pos >= known.stream_pos
        /\ full.stream_pos - known.stream_pos <= Len(rest)
    <3>1. Len(known.header_buf) <= HeaderWanted(known)
      BY <2>1, <2>2, <2>3
    <3>2. /\ HeaderWanted(known) \in Nat /\ known.header_buf \in Seq(CpioByte(M))
          /\ known.stream_pos \in Nat
      BY <1>3, <2>2, <2>3
    <3> QED BY <1>6, <2>2, <3>1, <3>2, CpioFilled
  <2> HIDE DEF full
  <2>5. /\ taken \in Nat /\ taken > 0 /\ taken <= n
        /\ full.stream_pos = p.stream_pos + taken
    <3>1. full.stream_pos - q.stream_pos <= n - (q.stream_pos - p.stream_pos)
      BY <1>4, <1>6, <2>2, <2>4
    <3>2. full.stream_pos \in Nat /\ full.stream_pos >= q.stream_pos
      BY <2>2, <2>4
    <3>3. q.stream_pos \in Nat /\ p.stream_pos \in Nat /\ q.stream_pos > p.stream_pos
      BY <1>3, <1>5
    <3> QED BY <3>1, <3>2, <3>3, SMTT(30)
  <2>6. taken \in 0..Len(data)
    BY <1>4, <2>5
  <2> HIDE DEF taken
  <2>7. /\ DOMAIN full = CpioFields /\ full.state = "ReadingHeader"
        /\ full.sub_format = Some(sub) /\ full.remaining = p.remaining
    BY <2>1, <2>2, <2>4 DEF CpioKeeps
  <2>8. CASE Len(full.header_buf) < HeaderWanted(full)
    <3>1. CpioGood(full, M) /\ CpioPressing(full)
      <4>1. p.remaining \in Nat
        BY DEF CpioGood
      <4> QED BY <2>4, <2>7, <2>8, <4>1, CpioBuffered
    <3>2. a = NeedsData(full, taken)
      BY <1>1, <1>9, <2>8
    <3> QED BY <2>5, <2>6, <3>1, <3>2 DEF CpioOutcome, Answers, Moved, NeedsData, Answer
  <2>9. CASE ~ (Len(full.header_buf) < HeaderWanted(full))
    <3>1. a = CpioProcessHeader(full, taken)
      BY <1>1, <1>9, <2>9
    <3>2. /\ a.event \in {"NeedData", "Error"}
          /\ a.event # "Error" =>
               /\ a.consumed = taken /\ a.parser.stream_pos = full.stream_pos
               /\ CpioGood(a.parser, M)
               /\ CpioFull(M) => CpioPressing(a.parser)
      BY <2>4, <2>5, <2>7, <3>1, CpioProcessed
    <3> QED BY <2>5, <2>6, <3>2 DEF CpioOutcome, Answers, Moved
  <2> QED BY <2>8, <2>9
<1> QED
  BY <1>1, <1>7, <1>8, <1>9

\* The fields that tell a good parser from another: all but the hard links.
CpioSame(p, q) ==
  CpioKeeps(p, q) /\ q.header_buf = p.header_buf /\ q.stream_pos = p.stream_pos

\* A parser that differs in its hard links only is as good.
LEMMA CpioSameIsGood ==
  ASSUME NEW M, NEW p, CpioGood(p, M), NEW q, CpioSame(p, q)
  PROVE  CpioGood(q, M) /\ (CpioPressing(p) => CpioPressing(q))
<1>1. HeaderWanted(q) = HeaderWanted(p)
  BY DEF CpioSame, CpioKeeps, HeaderWanted
<1> QED
  BY <1>1 DEF CpioSame, CpioKeeps, CpioGood, CpioPressing

\* apply_hardlink_policy() changes what it knows of links, and nothing else.
LEMMA CpioEmitted ==
  ASSUME NEW p, DOMAIN p = CpioFields, NEW taken, NEW entry, NEW m,
         NEW a, a = CpioEmit(p, taken, entry, m)
  PROVE  /\ a.event \in {"NeedData", "Entry"} /\ a.consumed = taken
         /\ CpioSame(p, a.parser)
<1> DEFINE links == p.deferred_links[m.inode]
           carried == [p EXCEPT !.resolved_inodes[m.inode] = Some(entry.path),
                                !.deferred_links[m.inode] = <<>>,
                                !.pending = @ \o [i \in 1..Len(links) |->
                                                    HardLinkTo(links[i], entry.path)]]
           waits == [p EXCEPT !.deferred_links[m.inode] = Append(@, entry)]
<1>1. \/ a = Emits(p, taken, entry)
      \/ a = Emits(carried, taken, entry)
      \/ a = Emits(p, taken, HardLinkTo(entry, p.resolved_inodes[m.inode][1]))
      \/ a = NeedsData(waits, taken)
  BY DEF CpioEmit
<1>2. CpioSame(p, p)
  BY DEF CpioSame, CpioKeeps
<1>3. CpioSame(p, carried)
  BY DEF CpioSame, CpioKeeps, CpioFields
<1>4. CpioSame(p, waits)
  BY DEF CpioSame, CpioKeeps, CpioFields
<1> HIDE DEF carried, waits
<1> QED
  BY <1>1, <1>2, <1>3, <1>4 DEF Emits, NeedsData, Answer

\* transition_to_data() leaves data to read or skip, or the next header.
LEMMA CpioDataReached ==
  ASSUME NEW M, M \subseteq CpioMembers, NEW p, CpioGood(p, M), p.state \in CpioReads,
         NEW taken, NEW a, a = CpioToData(p, taken)
  PROVE  /\ a.event \in {"NeedData", "Entry", "Error"}
         /\ a.event # "Error" =>
              /\ a.consumed = taken /\ a.parser.stream_pos = p.stream_pos
              /\ CpioGood(a.parser, M) /\ CpioPressing(a.parser)
<1> DEFINE m     == p.header[1]
           entry == Entry(m.path, m.size, m.type, None, p.stream_pos)
           left  == m.size + CpioPad(p.sub_format[1], m.size)
           data  == [p EXCEPT !.state = IF m.size > 0 THEN "SkippingData" ELSE "ReadingHeader",
                              !.remaining = left]
           link  == [p EXCEPT !.state = "ReadingLinkTarget", !.remaining = m.size,
                              !.entry = Some(entry), !.buf = <<>>]
<1>1. m \in M
  <2>1. PICK x \in M : p.header = Some(x)
    BY DEF CpioGood
  <2> QED BY <2>1 DEF Some
<1>2. m.size \in Nat
  BY <1>1 DEF CpioMembers
<1> HIDE DEF m
<1>3. left \in Nat /\ (m.size > 0 => left > 0)
  BY <1>2, CpioPadIs
<1> HIDE DEF left
<1>4. \/ a = Refuses(p)
      \/ m.size > 0 /\ a = NeedsData(link, taken)
      \/ a = CpioEmit(data, taken, entry, m)
  <2>1. CASE m.type = "SymLink" /\ m.size > MaxNameSize
    BY <2>1 DEF CpioToData, m
  <2>2. CASE ~ (m.type = "SymLink" /\ m.size > MaxNameSize)
             /\ m.type = "SymLink" /\ m.size \in 1..MaxNameSize
    BY <1>2, <2>2 DEF CpioToData, m
  <2>3. CASE ~ (m.type = "SymLink" /\ m.size > MaxNameSize)
             /\ ~ (m.type = "SymLink" /\ m.size \in 1..MaxNameSize)
    BY <2>3 DEF CpioToData, m, left
  <2> QED BY <2>1, <2>2, <2>3
<1>5. /\ DOMAIN data = CpioFields /\ data.remaining = left
      /\ data.state = IF m.size > 0 THEN "SkippingData" ELSE "ReadingHeader"
      /\ data.header_buf = p.header_buf /\ data.stream_pos = p.stream_pos
      /\ data.sub_format = p.sub_format /\ data.header = p.header
  BY DEF CpioGood, CpioFields
<1>6. /\ DOMAIN link = CpioFields /\ link.remaining = m.size
      /\ link.state = "ReadingLinkTarget"
      /\ link.header_buf = p.header_buf /\ link.stream_pos = p.stream_pos
      /\ link.sub_format = p.sub_format /\ link.header = p.header
      /\ link.entry = Some(entry)
  BY DEF CpioGood, CpioFields
<1>7. "data_offset" \in DOMAIN entry /\ entry.data_offset = p.stream_pos
  BY DEF Entry
<1> HIDE DEF data, link, entry
<1>8. CpioGood(data, M) /\ CpioPressing(data)
  <2>1. HeaderWanted(data) = HeaderWanted(p)
    BY <1>5 DEF HeaderWanted
  <2>2. data.state # "ReadingLinkTarget" /\ data.state \in {"SkippingData", "ReadingHeader"}
    BY <1>5
  <2>3. CpioGood(data, M)
    BY <1>3, <1>5, <2>1, <2>2 DEF CpioGood, CpioReads
  <2>4. CpioPressing(data)
    BY <1>3, <1>5 DEF CpioPressing, CpioReads
  <2> QED BY <2>3, <2>4
<1>9. CpioGood(link, M)
  <2>1. HeaderWanted(link) = HeaderWanted(p)
    BY <1>6 DEF HeaderWanted
  <2>2. link.entry[1] = entry /\ p.stream_pos \in Int
    BY <1>6 DEF Some, CpioGood
  <2> QED BY <1>2, <1>6, <1>7, <2>1, <2>2 DEF CpioGood, CpioReads
<1>10. m.size > 0 => CpioPressing(link)
  BY <1>6 DEF CpioPressing
<1>11. CASE a = Refuses(p)
  BY <1>11 DEF Refuses, Answer
<1>12. CASE m.size > 0 /\ a = NeedsData(link, taken)
  BY <1>6, <1>9, <1>10, <1>12 DEF NeedsData, Answer
<1>13. CASE a = CpioEmit(data, taken, entry, m)
  <2>1. /\ a.event \in {"NeedData", "Entry"} /\ a.consumed = taken
        /\ CpioSame(data, a.parser)
    BY <1>5, <1>13, CpioEmitted
  <2>2. CpioGood(a.parser, M) /\ CpioPressing(a.parser)
    BY <1>8, <2>1, CpioSameIsGood
  <2> QED BY <1>5, <2>1, <2>2 DEF CpioSame
<1> QED
  BY <1>4, <1>11, <1>12, <1>13

\* What the cpio parser takes of a name or of data leaves it the rest.
LEMMA CpioTaken ==
  ASSUME NEW M, NEW p, CpioGood(p, M), NEW data \in Seq(CpioByte(M)), data # <<>>
  PROVE  LET take == Fewer(Len(data), p.remaining)
             q    == CpioTook(p, take)
         IN  /\ take \in 0..Len(data) /\ (p.remaining > 0 => take > 0)
             /\ CpioGood(q, M) /\ q.state = p.state /\ q.header = p.header
             /\ q.entry = p.entry /\ q.sub_format = p.sub_format
             /\ q.remaining = p.remaining - take /\ q.stream_pos = p.stream_pos + take
             /\ DOMAIN q = CpioFields
<1> DEFINE take == Fewer(Len(data), p.remaining)
           q    == CpioTook(p, take)
<1>1. p.remaining \in Nat /\ p.stream_pos \in Nat /\ DOMAIN p = CpioFields
  BY DEF CpioGood
<1>2. PICK n \in Nat : n = Len(data) /\ n > 0
  BY LenProperties, EmptySeq
<1>3. take = Fewer(n, p.remaining)
  BY <1>2
<1> HIDE DEF take
<1>4. /\ take \in 0..n /\ p.remaining - take \in Nat /\ (p.remaining > 0 => take > 0)
      /\ p.stream_pos + take \in Nat
  <2>1. n \in Nat /\ n > 0
    BY <1>2
  <2> QED BY <1>1, <1>3, <2>1 DEF Fewer
<1>5. /\ DOMAIN q = CpioFields /\ q.state = p.state /\ q.header = p.header
      /\ q.entry = p.entry /\ q.sub_format = p.sub_format /\ q.header_buf = p.header_buf
      /\ q.remaining = p.remaining - take /\ q.stream_pos = p.stream_pos + take
  BY <1>1 DEF CpioTook, CpioFields
<1> HIDE DEF q
<1>6. HeaderWanted(q) = HeaderWanted(p)
  BY <1>5 DEF HeaderWanted
<1>7. CpioGood(q, M)
  BY <1>4, <1>5, <1>6 DEF CpioGood
<1> QED
  BY <1>2, <1>4, <1>5, <1>7 DEF take, q

\* What it buffers of them changes nothing else.
LEMMA CpioBuffers ==
  ASSUME NEW p, DOMAIN p = CpioFields, NEW buf
  PROVE  CpioSame(p, [p EXCEPT !.buf = buf])
BY DEF CpioSame, CpioKeeps, CpioFields

\* At the trailer the links that wait go out, and nothing is read any more.
LEMMA CpioTrailerRead ==
  ASSUME NEW M, NEW p, CpioGood(p, M), NEW taken, NEW a, a = CpioTrailer(p, taken)
  PROVE  /\ a.event \in {"Entry", "EndOfArchive"} /\ a.consumed = taken
         /\ a.parser.stream_pos = p.stream_pos
         /\ CpioGood(a.parser, M) /\ CpioPressing(a.parser)
<1> DEFINE waiting == p.pending \o FlattenSeq(p.deferred_links)
           q == [p EXCEPT !.state = "End", !.deferred_links = [i \in 1..Inodes |-> <<>>],
                          !.pending = IF waiting = <<>> THEN <<>> ELSE Tail(waiting)]
<1>1. a = EndsHere(q, taken) \/ a = Emits(q, taken, Head(waiting))
  BY DEF CpioTrailer
<1> HIDE DEF waiting
<1>2. /\ DOMAIN q = CpioFields /\ q.state = "End" /\ q.sub_format = p.sub_format
      /\ q.header_buf = p.header_buf /\ q.stream_pos = p.stream_pos
      /\ q.remaining = p.remaining
  BY DEF CpioGood, CpioFields
<1> HIDE DEF q
<1>3. HeaderWanted(q) = HeaderWanted(p)
  BY <1>2 DEF HeaderWanted
<1>4. CpioGood(q, M) /\ CpioPressing(q)
  BY <1>2, <1>3 DEF CpioGood, CpioPressing, CpioReads
<1> QED
  BY <1>1, <1>2, <1>4 DEF EndsHere, Emits, Answer

\* feed_filename() reads a member's name.
LEMMA CpioFilenameFed ==
  ASSUME NEW M, M \subseteq CpioMembers, NEW p, CpioGood(p, M), p.state = "ReadingFilename",
         NEW data \in Seq(CpioByte(M)), data # <<>>,
         NEW a, a = CpioFeedFilename(p, data)
  PROVE  CpioOutcome(p, M, data, a)
<1> DEFINE take == Fewer(Len(data), p.remaining)
           t    == CpioTook(p, take)
           buf  == p.buf \o Taken(data, take)
           q    == [t EXCEPT !.buf = buf]
           m    == p.header[1]
           sub  == p.sub_format[1]
           pad  == CpioPad(sub, HeaderSizes[sub] + m.namesize)
           skip == [q EXCEPT !.state = "SkippingNamePad", !.remaining = pad]
<1>1. a = IF q.remaining > 0 THEN NeedsData(q, take)
          ELSE IF ~ Whole(q.buf, "name", m.namesize) THEN Refuses(q)
          ELSE IF m.type = "Trailer" THEN CpioTrailer(q, take)
          ELSE IF pad > 0 THEN NeedsData(skip, take)
          ELSE CpioToData(q, take)
  <2>1. t.buf = p.buf /\ [t EXCEPT !.buf = @ \o Taken(data, take)] = q
    BY DEF CpioTook, CpioGood, CpioFields
  <2> QED BY <2>1 DEF CpioFeedFilename
<1>2. /\ take \in 0..Len(data) /\ (p.remaining > 0 => take > 0)
      /\ CpioGood(t, M) /\ t.state = p.state /\ t.header = p.header
      /\ t.sub_format = p.sub_format /\ DOMAIN t = CpioFields
      /\ t.remaining = p.remaining - take /\ t.stream_pos = p.stream_pos + take
  BY CpioTaken
<1> HIDE DEF take, t, buf
<1>3. CpioSame(t, q)
  BY <1>2, CpioBuffers
<1> HIDE DEF q
<1>4. /\ CpioGood(q, M) /\ q.state = "ReadingFilename" /\ q.stream_pos = p.stream_pos + take
      /\ q.header = p.header /\ q.sub_format = p.sub_format /\ DOMAIN q = CpioFields
      /\ q.header_buf = t.header_buf
  BY <1>2, <1>3, CpioSameIsGood DEF CpioSame, CpioKeeps
<1>5. pad \in Nat
  <2>1. PICK x \in M : p.header = Some(x)
    BY DEF CpioGood, CpioReads
  <2>2. m.namesize \in Nat
    BY <2>1 DEF Some, CpioMembers
  <2>3. PICK s \in DOMAIN HeaderSizes : p.sub_format = Some(s)
    BY DEF CpioGood, CpioReads
  <2>4. HeaderSizes[sub] \in Nat
    BY <2>3, CpioAssumption DEF Some
  <2> HIDE DEF m, sub
  <2>5. HeaderSizes[sub] + m.namesize \in Int
    BY <2>2, <2>4
  <2> QED BY <2>5, CpioPadIs
<1> HIDE DEF pad
<1>6. CpioPressing(p) => p.remaining > 0
  BY DEF CpioPressing, CpioReads
<1>7. CASE q.remaining > 0
  <2>1. a = NeedsData(q, take) /\ CpioPressing(q)
    BY <1>1, <1>7 DEF CpioPressing
  <2> QED BY <1>2, <1>4, <1>6, <2>1 DEF CpioOutcome, Answers, Moved, NeedsData, Answer
<1>8. CASE a = Refuses(q)
  BY <1>8 DEF CpioOutcome, Answers, Moved, Refuses, Answer
<1>9. CASE a = CpioTrailer(q, take)
  <2>1. /\ a.event \in {"Entry", "EndOfArchive"} /\ a.consumed = take
        /\ a.parser.stream_pos = q.stream_pos
        /\ CpioGood(a.parser, M) /\ CpioPressing(a.parser)
    BY <1>4, <1>9, CpioTrailerRead
  <2> QED BY <1>2, <1>4, <2>1 DEF CpioOutcome, Answers, Moved
<1>10. CASE pad > 0 /\ a = NeedsData(skip, take)
  <2>1. /\ DOMAIN skip = CpioFields /\ skip.state = "SkippingNamePad"
        /\ skip.remaining = pad /\ skip.sub_format = q.sub_format
        /\ skip.header = q.header /\ skip.header_buf = q.header_buf
        /\ skip.stream_pos = q.stream_pos
    BY <1>4 DEF CpioFields
  <2> HIDE DEF skip
  <2>2. HeaderWanted(skip) = HeaderWanted(q)
    BY <2>1 DEF HeaderWanted
  <2>3. CpioGood(skip, M)
    BY <1>4, <1>5, <2>1, <2>2 DEF CpioGood, CpioReads
  <2>4. CpioPressing(skip)
    BY <1>10, <2>1 DEF CpioPressing
  <2> QED BY <1>2, <1>4, <1>6, <1>10, <2>1, <2>3, <2>4
          DEF CpioOutcome, Answers, Moved, NeedsData, Answer
<1>11. CASE a = CpioToData(q, take)
  <2>1. q.state \in CpioReads
    BY <1>4 DEF CpioReads
  <2>2. /\ a.event \in {"NeedData", "Entry", "Error"}
        /\ a.event # "Error" =>
             /\ a.consumed = take /\ a.parser.stream_pos = q.stream_pos
             /\ CpioGood(a.parser, M) /\ CpioPressing(a.parser)
    BY <1>4, <1>11, <2>1, CpioDataReached
  <2> QED BY <1>2, <1>4, <1>6, <2>2 DEF CpioOutcome, Answers, Moved
<1> QED
  BY <1>1, <1>7, <1>8, <1>9, <1>10, <1>11

\* feed_skip_name_pad() passes over the padding of a name.
LEMMA CpioNamePadFed ==
  ASSUME NEW M, M \subseteq CpioMembers, NEW p, CpioGood(p, M), p.state = "SkippingNamePad",
         NEW data \in Seq(CpioByte(M)), data # <<>>,
         NEW a, a = CpioFeedNamePad(p, data)
  PROVE  CpioOutcome(p, M, data, a)
<1> DEFINE take == Fewer(Len(data), p.remaining)
           q    == CpioTook(p, take)
<1>1. a = IF q.remaining > 0 THEN NeedsData(q, take) ELSE CpioToData(q, take)
  BY DEF CpioFeedNamePad
<1>2. /\ take \in 0..Len(data) /\ (p.remaining > 0 => take > 0)
      /\ CpioGood(q, M) /\ q.state = p.state /\ q.stream_pos = p.stream_pos + take
  BY CpioTaken
<1> HIDE DEF take, q
<1>3. CpioPressing(p) => p.remaining > 0
  BY DEF CpioPressing, CpioReads
<1>4. CASE q.remaining > 0
  <2>1. a = NeedsData(q, take) /\ CpioPressing(q)
    BY <1>1, <1>4 DEF CpioPressing
  <2> QED BY <1>2, <1>3, <2>1 DEF CpioOutcome, Answers, Moved, NeedsData, Answer
<1>5. CASE a = CpioToData(q, take)
  <2>1. q.state \in CpioReads
    BY <1>2 DEF CpioReads
  <2>2. /\ a.event \in {"NeedData", "Entry", "Error"}
        /\ a.event # "Error" =>
             /\ a.consumed = take /\ a.parser.stream_pos = q.stream_pos
             /\ CpioGood(a.parser, M) /\ CpioPressing(a.parser)
    BY <1>2, <1>5, <2>1, CpioDataReached
  <2> QED BY <1>2, <1>3, <2>2 DEF CpioOutcome, Answers, Moved
<1> QED
  BY <1>1, <1>4, <1>5

\* feed_link_target() reads the target of a symbolic link.
LEMMA CpioLinkTargetFed ==
  ASSUME NEW M, M \subseteq CpioMembers, NEW p, CpioGood(p, M),
         p.state = "ReadingLinkTarget",
         NEW data \in Seq(CpioByte(M)), data # <<>>,
         NEW a, a = CpioFeedLinkTarget(p, data)
  PROVE  CpioOutcome(p, M, data, a)
<1> DEFINE take  == Fewer(Len(data), p.remaining)
           t     == CpioTook(p, take)
           buf   == p.buf \o Taken(data, take)
           q     == [t EXCEPT !.buf = buf]
           m     == p.header[1]
           entry == [p.entry[1] EXCEPT !.link = m.link, !.size = 0]
           pad   == CpioPad(p.sub_format[1], q.stream_pos - entry.data_offset)
           next  == [q EXCEPT !.state = IF pad > 0 THEN "SkippingDataPad" ELSE "ReadingHeader",
                              !.remaining = pad]
<1>1. a = IF q.remaining > 0 THEN NeedsData(q, take)
          ELSE IF ~ Whole(q.buf, "data", m.size) THEN Refuses(q)
          ELSE Emits(next, take, entry)
  <2>1. t.buf = p.buf /\ [t EXCEPT !.buf = @ \o Taken(data, take)] = q
    BY DEF CpioTook, CpioGood, CpioFields
  <2> QED BY <2>1 DEF CpioFeedLinkTarget
<1>2. /\ take \in 0..Len(data) /\ (p.remaining > 0 => take > 0)
      /\ CpioGood(t, M) /\ t.state = p.state /\ t.header = p.header
      /\ t.sub_format = p.sub_format /\ DOMAIN t = CpioFields
      /\ t.remaining = p.remaining - take /\ t.stream_pos = p.stream_pos + take
  BY CpioTaken
<1> HIDE DEF take, t, buf
<1>3. CpioSame(t, q)
  BY <1>2, CpioBuffers
<1> HIDE DEF q, m
<1>4. /\ CpioGood(q, M) /\ q.state = "ReadingLinkTarget"
      /\ q.stream_pos = p.stream_pos + take /\ DOMAIN q = CpioFields
  BY <1>2, <1>3, CpioSameIsGood DEF CpioSame, CpioKeeps
<1>5. entry.data_offset = p.entry[1].data_offset /\ p.entry[1].data_offset \in Int
  BY DEF CpioGood
<1>6. pad \in Nat
  <2>1. q.stream_pos - entry.data_offset \in Int
    <3>1. q.stream_pos \in Int
      BY <1>4 DEF CpioGood
    <3> QED BY <1>5, <3>1
  <2> HIDE DEF entry
  <2> QED BY <2>1, CpioPadIs
<1> HIDE DEF pad, entry
<1>7. /\ DOMAIN next = CpioFields /\ next.remaining = pad
      /\ next.state = IF pad > 0 THEN "SkippingDataPad" ELSE "ReadingHeader"
      /\ next.sub_format = q.sub_format /\ next.header = q.header
      /\ next.header_buf = q.header_buf /\ next.stream_pos = q.stream_pos
  BY <1>4 DEF CpioFields
<1> HIDE DEF next
<1>8. CpioGood(next, M) /\ CpioPressing(next)
  <2>1. HeaderWanted(next) = HeaderWanted(q)
    BY <1>7 DEF HeaderWanted
  <2>2. q.state \in CpioReads
    BY <1>4 DEF CpioReads
  <2>3. /\ next.state \in {"ReadingHeader", "End"} \cup CpioReads
        /\ next.state # "ReadingLinkTarget"
    BY <1>7 DEF CpioReads
  <2>4. CpioGood(next, M)
    BY <1>4, <1>6, <1>7, <2>1, <2>2, <2>3 DEF CpioGood
  <2>5. CpioPressing(next)
    BY <1>6, <1>7 DEF CpioPressing, CpioReads
  <2> QED BY <2>4, <2>5
<1>9. CpioPressing(p) => p.remaining > 0
  BY DEF CpioPressing, CpioReads
<1>10. CASE q.remaining > 0
  <2>1. a = NeedsData(q, take) /\ CpioPressing(q)
    BY <1>1, <1>10 DEF CpioPressing
  <2> QED BY <1>2, <1>4, <1>9, <2>1 DEF CpioOutcome, Answers, Moved, NeedsData, Answer
<1>11. CASE a = Refuses(q)
  BY <1>11 DEF CpioOutcome, Answers, Moved, Refuses, Answer
<1>12. CASE a = Emits(next, take, entry)
  BY <1>2, <1>4, <1>7, <1>8, <1>12 DEF CpioOutcome, Answers, Moved, Emits, Answer
<1> QED
  BY <1>1, <1>10, <1>11, <1>12

\* feed_skip_data() and feed_skip_data_pad() pass over data and padding.
LEMMA CpioSkipFed ==
  ASSUME NEW M, NEW p, CpioGood(p, M), p.state \in {"SkippingData", "SkippingDataPad"},
         NEW data \in Seq(CpioByte(M)), data # <<>>,
         NEW a, a = CpioFeedSkip(p, data)
  PROVE  CpioOutcome(p, M, data, a)
<1> DEFINE take == Fewer(Len(data), p.remaining)
           q    == CpioTook(p, take)
           next == [q EXCEPT !.state = "ReadingHeader"]
<1>1. a = NeedsData(IF q.remaining = 0 THEN next ELSE q, take)
  BY DEF CpioFeedSkip
<1>2. /\ take \in 0..Len(data) /\ (p.remaining > 0 => take > 0)
      /\ CpioGood(q, M) /\ q.state = p.state /\ q.stream_pos = p.stream_pos + take
      /\ DOMAIN q = CpioFields
  BY CpioTaken
<1> HIDE DEF take, q
<1>3. /\ DOMAIN next = CpioFields /\ next.remaining = q.remaining
      /\ next.state = "ReadingHeader" /\ next.sub_format = q.sub_format
      /\ next.header_buf = q.header_buf /\ next.stream_pos = q.stream_pos
  BY <1>2 DEF CpioFields
<1> HIDE DEF next
<1>4. CpioGood(next, M) /\ CpioPressing(next)
  <2>1. HeaderWanted(next) = HeaderWanted(q)
    BY <1>3 DEF HeaderWanted
  <2>2. next.state \notin CpioReads /\ next.state # "ReadingLinkTarget"
    BY <1>3 DEF CpioReads
  <2>3. CpioGood(next, M)
    BY <1>2, <1>3, <2>1, <2>2 DEF CpioGood
  <2> QED BY <2>2, <2>3 DEF CpioPressing
<1>5. q.remaining \in Nat
  BY <1>2 DEF CpioGood
<1>6. q.remaining # 0 => CpioPressing(q)
  BY <1>5 DEF CpioPressing
<1>7. CpioPressing(p) => p.remaining > 0
  BY DEF CpioPressing, CpioReads
<1> QED
  BY <1>1, <1>2, <1>3, <1>4, <1>6, <1>7
     DEF CpioOutcome, Answers, Moved, NeedsData, Answer

\* feed(): the cpio parser counts what it takes, and does not stand still unless a name
\* is empty.
LEMMA CpioFed ==
  ASSUME NEW M, M \subseteq CpioMembers, NEW p, CpioGood(p, M),
         NEW data \in Seq(CpioByte(M)), data # <<>>,
         NEW a, a = CpioFeed(p, data)
  PROVE  CpioOutcome(p, M, data, a)
<1>1. CASE p.pending # <<>>
  <2> DEFINE q == [p EXCEPT !.pending = Tail(@)]
  <2>1. a = Emits(q, 0, Head(p.pending))
    BY <1>1 DEF CpioFeed
  <2>2. CpioSame(p, q)
    BY DEF CpioGood, CpioSame, CpioKeeps, CpioFields
  <2> HIDE DEF q
  <2>3. CpioGood(q, M) /\ (CpioPressing(p) => CpioPressing(q))
    BY <2>2, CpioSameIsGood
  <2>4. PICK n \in Nat : n = Len(data)
    BY LenProperties
  <2>5. 0 \in 0..Len(data) /\ q.stream_pos = p.stream_pos + 0
    BY <2>2, <2>4 DEF CpioSame, CpioGood
  <2> QED BY <2>1, <2>3, <2>5 DEF CpioOutcome, Answers, Moved, Emits, Answer
<1>2. CASE p.pending = <<>>
  <2>1. a = CpioFeedState(p, data)
    BY <1>2 DEF CpioFeed
  <2>2. CASE p.state = "ReadingHeader"
    <3>1. a = CpioFeedHeader(p, data)
      BY <2>1, <2>2 DEF CpioFeedState
    <3> QED BY <2>2, <3>1, CpioHeaderFed
  <2>3. CASE p.state = "ReadingFilename"
    <3>1. a = CpioFeedFilename(p, data)
      BY <2>1, <2>3 DEF CpioFeedState
    <3> QED BY <2>3, <3>1, CpioFilenameFed
  <2>4. CASE p.state = "SkippingNamePad"
    <3>1. a = CpioFeedNamePad(p, data)
      BY <2>1, <2>4 DEF CpioFeedState
    <3> QED BY <2>4, <3>1, CpioNamePadFed
  <2>5. CASE p.state = "ReadingLinkTarget"
    <3>1. a = CpioFeedLinkTarget(p, data)
      BY <2>1, <2>5 DEF CpioFeedState
    <3> QED BY <2>5, <3>1, CpioLinkTargetFed
  <2>6. CASE p.state \in {"SkippingData", "SkippingDataPad"}
    <3>1. a = CpioFeedSkip(p, data)
      BY <2>1, <2>6 DEF CpioFeedState
    <3> QED BY <2>6, <3>1, CpioSkipFed
  <2>7. CASE p.state = "End"
    <3>1. a = EndsHere(p, 0)
      BY <2>1, <2>7 DEF CpioFeedState
    <3>2. PICK n \in Nat : n = Len(data)
      BY LenProperties
    <3>3. 0 \in 0..Len(data) /\ p.stream_pos = p.stream_pos + 0
      BY <3>2 DEF CpioGood
    <3> QED BY <3>1, <3>3 DEF CpioOutcome, Answers, Moved, EndsHere, Answer
  <2> QED BY <2>2, <2>3, <2>4, <2>5, <2>6, <2>7 DEF CpioGood, CpioReads
<1> QED
  BY <1>1, <1>2

-----------------------------------------------------------------------------
(***************************************************************************)
(* The archive that is listed, and a parser of its format.                 *)
(***************************************************************************)
Formats == {"Tar", "Cpio", "Ar"}

MembersOf(a) == {a.members[k] : k \in 1..Len(a.members)}

ByteOf(a) ==
  CASE a.format = "Tar"  -> TarByte(MembersOf(a))
    [] a.format = "Cpio" -> CpioByte(MembersOf(a))
    [] a.format = "Ar"   -> ArByte(MembersOf(a))

\* The parser is one of the archive's format, in a state it can be in.
Own(a, parser) ==
  /\ DOMAIN parser = {"format", "self"} /\ parser.format = a.format
  /\ a.format = "Tar"  => TarGood(parser.self, MembersOf(a))
  /\ a.format = "Cpio" => CpioGood(parser.self, MembersOf(a))
  /\ a.format = "Ar"   => ArGood(parser.self, MembersOf(a))

Pressing(parser) ==
  /\ parser.format = "Tar"  => TarPressing(parser.self)
  /\ parser.format = "Cpio" => CpioPressing(parser.self)
  /\ parser.format = "Ar"   => ArPressing(parser.self)

\* No extended header, name or name table of the archive is empty.
NothingEmpty(a) ==
  /\ a.format = "Tar"  => TarFull(MembersOf(a))
  /\ a.format = "Cpio" => CpioFull(MembersOf(a))
  /\ a.format = "Ar"   => ArFull(MembersOf(a))

\* What the archives are.
LEMMA ArchiveIs ==
  ASSUME NEW i \in DOMAIN Archives
  PROVE  /\ Archives[i].format \in Formats
         /\ Archives[i].members \in Seq(MembersOf(Archives[i]))
         /\ Archives[i].padding \in Nat
         /\ Archives[i].format = "Tar"  => MembersOf(Archives[i]) \subseteq TarMembers
         /\ Archives[i].format = "Cpio" => /\ MembersOf(Archives[i]) \subseteq CpioMembers
                                           /\ Archives[i].members # <<>>
         /\ Archives[i].format = "Ar"   => MembersOf(Archives[i]) \subseteq ArMembers
<1> DEFINE a == Archives[i]
           Tars  == [format : {"Tar"}, members : Seq(TarMembers), padding : Nat]
           Cpios == [format : {"Cpio"}, members : Seq(CpioMembers) \ {<<>>}, padding : Nat]
           Ars   == [format : {"Ar"}, members : Seq(ArMembers), padding : Nat]
<1>1. a \in Tars \cup Cpios \cup Ars
  <2>1. Archives \in Seq(Tars \cup Cpios \cup Ars)
    BY ArchivesAssumption
  <2> HIDE DEF Tars, Cpios, Ars
  <2>2. i \in 1..Len(Archives)
    BY <2>1, LenProperties
  <2> QED BY <2>1, <2>2, ElementOfSeq
<1>2. \A T : a.members \in Seq(T) =>
               MembersOf(a) \subseteq T /\ a.members \in Seq(MembersOf(a))
  <2> SUFFICES ASSUME NEW T, a.members \in Seq(T)
               PROVE  MembersOf(a) \subseteq T /\ a.members \in Seq(MembersOf(a))
    OBVIOUS
  <2> DEFINE ms == a.members
  <2>1. PICK n \in Nat : n = Len(ms) /\ ms \in [1..n -> T]
    BY LenProperties
  <2>2. \A k \in 1..n : ms[k] \in T /\ ms[k] \in MembersOf(a)
    BY <2>1 DEF MembersOf
  <2>3. ms \in [1..n -> MembersOf(a)]
    BY <2>1, <2>2
  <2>4. MembersOf(a) \subseteq T
    BY <2>1, <2>2 DEF MembersOf
  <2> QED BY <2>1, <2>3, <2>4
<1> HIDE DEF a
<1>3. CASE a \in Tars
  <2>1. a.members \in Seq(TarMembers) /\ a.format = "Tar" /\ a.padding \in Nat
    BY <1>3
  <2> QED BY <1>2, <2>1 DEF Formats, a
<1>4. CASE a \in Cpios
  <2>1. /\ a.members \in Seq(CpioMembers) /\ a.format = "Cpio" /\ a.padding \in Nat
        /\ a.members # <<>>
    BY <1>4
  <2> QED BY <1>2, <2>1 DEF Formats, a
<1>5. CASE a \in Ars
  <2>1. a.members \in Seq(ArMembers) /\ a.format = "Ar" /\ a.padding \in Nat
    BY <1>5
  <2> QED BY <1>2, <2>1 DEF Formats, a
<1> QED
  BY <1>1, <1>3, <1>4, <1>5

\* What their contents are: the first byte tells the format.
LEMMA ContentsAre ==
  ASSUME NEW i \in DOMAIN Archives
  PROVE  /\ Contents[i] \in Seq(ByteOf(Archives[i]))
         /\ Archives[i].format = "Cpio" => Contents[i][1].kind \in DOMAIN HeaderSizes
         /\ Archives[i].format = "Ar" => Contents[i][1].kind = "arch"
<1> DEFINE a == Archives[i]
           M == MembersOf(a)
           zeros == Zeros(a.padding)
<1>1. i \in 1..Len(Archives)
  BY ArchivesAssumption, LenProperties
<1>2. Contents[i] = ArchiveBytes(a) \o zeros
  BY <1>1 DEF Contents
<1>3. zeros \in Seq(ZeroByte)
  BY ArchiveIs, ZerosAre
<1>4. a.format \in Formats /\ a.members \in Seq(M)
  BY ArchiveIs
<1> DEFINE Starts(bytes, B) ==
             /\ bytes \o zeros \in Seq(B)
             /\ bytes # <<>> => (bytes \o zeros)[1] = bytes[1]
<1>5. ASSUME NEW B, ZeroByte \subseteq B, NEW bytes \in Seq(B)
      PROVE  Starts(bytes, B)
  <2>1. zeros \in Seq(B)
    BY <1>3, <1>5, SeqMonotonic
  <2> HIDE DEF zeros
  <2> QED BY <2>1, ConcatStarts
<1> HIDE DEF zeros
<1>6. CASE a.format = "Tar"
  <2>1. M \subseteq TarMembers
    BY <1>6, ArchiveIs
  <2>2. TarStream(a.members) \in Seq(TarByte(M)) /\ ZeroByte \subseteq TarByte(M)
    BY <1>4, <2>1, TarStreamIs DEF TarByte
  <2>3. ArchiveBytes(a) = TarStream(a.members) /\ ByteOf(a) = TarByte(M)
    BY <1>6 DEF ArchiveBytes, ByteOf
  <2> HIDE DEF a, M
  <2>4. Starts(ArchiveBytes(a), ByteOf(a))
    BY <1>5, <2>2, <2>3
  <2> QED BY <1>2, <1>6, <2>4 DEF a
<1>7. CASE a.format = "Cpio"
  <2>1. M \subseteq CpioMembers /\ a.members # <<>>
    BY <1>7, ArchiveIs
  <2>2. /\ CpioStream(a.members) \in Seq(CpioByte(M)) /\ ZeroByte \subseteq CpioByte(M)
        /\ CpioStream(a.members) # <<>>
        /\ CpioStream(a.members)[1].kind \in DOMAIN HeaderSizes
    BY <1>4, <2>1, CpioStreamIs DEF CpioByte
  <2>3. ArchiveBytes(a) = CpioStream(a.members) /\ ByteOf(a) = CpioByte(M)
    BY <1>7 DEF ArchiveBytes, ByteOf
  <2> HIDE DEF a, M
  <2>4. Starts(ArchiveBytes(a), ByteOf(a))
    BY <1>5, <2>2, <2>3
  <2> QED BY <1>2, <1>7, <2>2, <2>3, <2>4 DEF a
<1>8. CASE a.format = "Ar"
  <2>1. M \subseteq ArMembers
    BY <1>8, ArchiveIs
  <2>2. /\ ArStream(a.members) \in Seq(ArByte(M)) /\ ZeroByte \subseteq ArByte(M)
        /\ ArStream(a.members) # <<>>
        /\ ArStream(a.members)[1].kind = "arch"
    BY <1>4, <2>1, ArStreamIs DEF ArByte
  <2>3. ArchiveBytes(a) = ArStream(a.members) /\ ByteOf(a) = ArByte(M)
    BY <1>8 DEF ArchiveBytes, ByteOf
  <2> HIDE DEF a, M
  <2>4. Starts(ArchiveBytes(a), ByteOf(a))
    BY <1>5, <2>2, <2>3
  <2> QED BY <1>2, <1>8, <2>2, <2>3, <2>4 DEF a
<1> QED
  BY <1>4, <1>6, <1>7, <1>8 DEF Formats

\* The bytes that tell a format.
Threshold(format) ==
  CASE format = "Tar" -> MinDetect [] format = "Cpio" -> MagicLen [] format = "Ar" -> ArMagicLen

\* Detection tells the archive's format from its first bytes, or needs more of them.
LEMMA DetectedRight ==
  ASSUME NEW i \in DOMAIN Archives, NEW n \in 1..Len(Contents[i]),
         NEW bytes, bytes = SubSeq(Contents[i], 1, n)
  PROVE  /\ Detected(bytes) = None => n < MinDetect /\ n < Threshold(Archives[i].format)
         /\ Detected(bytes) # None => Detected(bytes)[1] = Archives[i].format
<1> DEFINE a == Archives[i]
           c == Contents[i]
<1>1. c \in Seq(ByteOf(a)) /\ a.format \in Formats
  BY ContentsAre, ArchiveIs
<1>2. PICK k \in Nat : k = Len(c) /\ n \in 1..k
  BY <1>1, LenProperties
<1>3. \A j \in 1..n : c[j] \in ByteOf(a)
  BY <1>1, <1>2, ElementOfSeq
<1>4. Len(bytes) = n /\ bytes[1] = c[1]
  <2>1. n \in Int /\ 1 <= n /\ 1 \in Int
    BY <1>2
  <2>2. /\ Len(SubSeq(c, 1, n)) = IF 1 <= n THEN n - 1 + 1 ELSE 0
        /\ \A j \in 1..(n - 1 + 1) : SubSeq(c, 1, n)[j] = c[1 + j - 1]
    BY <1>3, <2>1, SubSeqProperties
  <2>3. 1 \in 1..(n - 1 + 1) /\ n - 1 + 1 = n /\ 1 + 1 - 1 = 1
    BY <2>1
  <2> HIDE DEF c
  <2> QED BY <2>1, <2>2, <2>3 DEF c
<1>5. ArMagicLen <= MinDetect /\ MagicLen <= MinDetect /\ MinDetect \in Nat
      /\ ArMagicLen \in Nat /\ MagicLen \in Nat
  BY SizesAssumption, ArAssumption, CpioAssumption
<1>6. DOMAIN HeaderSizes = {"newc", "odc"} /\ "arch" \notin DOMAIN HeaderSizes
  BY CpioAssumption
<1> DEFINE kind == bytes[1].kind
<1>7. Detected(bytes) =
        CASE n >= ArMagicLen /\ kind = "arch" -> Some("Ar")
          [] n >= MagicLen /\ kind \in DOMAIN HeaderSizes -> Some("Cpio")
          [] n >= MinDetect /\ kind \notin DOMAIN HeaderSizes \cup {"arch"} -> Some("Tar")
          [] OTHER -> None
  BY <1>4 DEF Detected
<1>8. /\ a.format = "Ar"   => kind = "arch"
      /\ a.format = "Cpio" => kind \in DOMAIN HeaderSizes
      /\ a.format = "Tar"  => kind \notin DOMAIN HeaderSizes \cup {"arch"}
  <2>1. a.format = "Ar" => kind = "arch"
    BY <1>4, ContentsAre
  <2>2. a.format = "Cpio" => kind \in DOMAIN HeaderSizes
    BY <1>4, ContentsAre
  <2>3. ASSUME a.format = "Tar" PROVE kind \notin DOMAIN HeaderSizes \cup {"arch"}
    <3>1. c[1] \in TarByte(MembersOf(a))
      <4>1. 1 \in 1..n /\ ByteOf(a) = TarByte(MembersOf(a))
        BY <1>2, <2>3 DEF ByteOf
      <4> QED BY <1>3, <4>1
    <3>2. c[1].kind \in {"head", "data", "zero"}
      BY <3>1 DEF TarByte, Byte, ZeroByte
    <3> QED BY <1>4, <1>6, <3>2
  <2> QED BY <2>1, <2>2, <2>3
<1> HIDE DEF kind, c
<1>9. CASE a.format = "Ar"
  <2>1. kind = "arch" /\ kind \notin DOMAIN HeaderSizes
    BY <1>6, <1>8, <1>9
  <2>2. Detected(bytes) = IF n >= ArMagicLen THEN Some("Ar") ELSE None
    BY <1>7, <2>1
  <2> QED BY <1>2, <1>5, <1>9, <2>2 DEF Some, None, Threshold
<1>10. CASE a.format = "Cpio"
  <2>1. kind # "arch" /\ kind \in DOMAIN HeaderSizes
    BY <1>6, <1>8, <1>10
  <2>2. Detected(bytes) = IF n >= MagicLen THEN Some("Cpio") ELSE None
    BY <1>7, <2>1
  <2> QED BY <1>2, <1>5, <1>10, <2>2 DEF Some, None, Threshold
<1>11. CASE a.format = "Tar"
  <2>1. kind # "arch" /\ kind \notin DOMAIN HeaderSizes
    BY <1>6, <1>8, <1>11
  <2>2. Detected(bytes) = IF n >= MinDetect THEN Some("Tar") ELSE None
    BY <1>7, <2>1
  <2> QED BY <1>2, <1>5, <1>11, <2>2 DEF Some, None, Threshold
<1> QED
  BY <1>1, <1>9, <1>10, <1>11 DEF Formats

\* A new parser of a format waits for its first header, at the start of the stream.
LEMMA NewParserIs ==
  ASSUME NEW a, a.format \in Formats
  PROVE  \E parser : /\ NewParser(a.format) = Some(parser)
                     /\ Own(a, parser) /\ Pressing(parser)
                     /\ parser.self.stream_pos = 0
<1> DEFINE self == CASE a.format = "Tar" -> TarNew [] a.format = "Cpio" -> CpioNew
                     [] a.format = "Ar" -> ArNew
           parser == [format |-> a.format, self |-> self]
           M == MembersOf(a)
<1>1. NewParser(a.format) = Some(parser)
  BY DEF NewParser
<1>2. <<>> \in Seq(TarByte(M)) /\ <<>> \in Seq(CpioByte(M)) /\ <<>> \in Seq(ArByte(M))
      /\ Len(<<>>) = 0
  OBVIOUS
<1> HIDE DEF M
<1>3. TarGood(TarNew, M) /\ TarPressing(TarNew) /\ TarNew.stream_pos = 0
  <2>1. Block > 0
    BY TarAssumption
  <2>2. NoSettings.size \in Optional(Nat)
    BY OptionalHas DEF NoSettings
  <2>3. /\ DOMAIN TarNew = TarFields /\ TarNew.state = "ReadingHeader"
        /\ TarNew.header_buf = <<>> /\ TarNew.stream_pos = 0 /\ TarNew.remaining = 0
        /\ TarNew.size = 0 /\ TarNew.buf = <<>> /\ TarNew.pax = NoSettings
    BY DEF TarNew, TarFields
  <2> QED BY <1>2, <2>1, <2>2, <2>3 DEF TarGood, TarPressing, TarReads
<1>4. CpioGood(CpioNew, M) /\ CpioPressing(CpioNew) /\ CpioNew.stream_pos = 0
  <2>1. /\ DOMAIN CpioNew = CpioFields /\ CpioNew.state = "ReadingHeader"
        /\ CpioNew.header_buf = <<>> /\ CpioNew.stream_pos = 0 /\ CpioNew.remaining = 0
        /\ CpioNew.sub_format = None
    BY DEF CpioNew, CpioFields
  <2>2. HeaderWanted(CpioNew) > 0
    BY <2>1, WantedIs
  <2>3. /\ CpioNew.header_buf \in Seq(CpioByte(M))
        /\ Len(CpioNew.header_buf) < HeaderWanted(CpioNew)
        /\ CpioNew.stream_pos \in Nat /\ CpioNew.remaining \in Nat
    BY <1>2, <2>1, <2>2
  <2>4. CpioGood(CpioNew, M) /\ CpioPressing(CpioNew)
    BY <2>1, <2>3, CpioBuffered
  <2> QED BY <2>1, <2>4
<1>5. ArGood(ArNew, M) /\ ArPressing(ArNew) /\ ArNew.stream_pos = 0
  <2>1. ArMagicLen > 0
    BY ArAssumption
  <2>2. /\ DOMAIN ArNew = ArFields /\ ArNew.state = "ReadingMagic"
        /\ ArNew.header_buf = <<>> /\ ArNew.stream_pos = 0 /\ ArNew.remaining = 0
        /\ ArNew.pad = 0
    BY DEF ArNew, ArFields
  <2> QED BY <1>2, <2>1, <2>2 DEF ArGood, ArPressing
<1>6. DOMAIN parser = {"format", "self"} /\ parser.format = a.format /\ parser.self = self
  OBVIOUS
<1>7. /\ a.format = "Tar" => self = TarNew
      /\ a.format = "Cpio" => self = CpioNew
      /\ a.format = "Ar" => self = ArNew
  OBVIOUS
<1> HIDE DEF self, parser
<1>8. Own(a, parser) /\ Pressing(parser) /\ parser.self.stream_pos = 0
  BY <1>3, <1>4, <1>5, <1>6, <1>7 DEF Own, Pressing, Formats, M
<1> QED
  BY <1>1, <1>8

\* What feed() answers, whatever the format.
LEMMA ParserFed ==
  ASSUME NEW i \in DOMAIN Archives, NEW parser, Own(Archives[i], parser),
         NEW data \in Seq(ByteOf(Archives[i])), data # <<>>,
         NEW answer, answer = ParserFeed(parser, data),
         NEW next, next = [parser EXCEPT !.self = answer.parser]
  PROVE  /\ Answers(parser.self, data, answer)
         /\ answer.event # "Error" => Own(Archives[i], next)
         /\ NothingEmpty(Archives[i]) /\ Pressing(parser) =>
              Moved(answer) /\ (answer.event # "Error" => Pressing(next))
<1> DEFINE a == Archives[i]
           M == MembersOf(a)
           self == parser.self
<1>1. /\ DOMAIN parser = {"format", "self"} /\ parser.format = a.format
      /\ a.format \in Formats
  BY ArchiveIs DEF Own
<1>2. /\ DOMAIN next = {"format", "self"} /\ next.format = a.format
      /\ next.self = answer.parser
  BY <1>1
<1>3. CASE a.format = "Tar"
  <2>1. /\ TarGood(self, M) /\ M \subseteq TarMembers /\ data \in Seq(TarByte(M))
        /\ answer = TarFeed(self, data)
    BY <1>1, <1>3, ArchiveIs DEF Own, ByteOf, ParserFeed
  <2>2. /\ Answers(self, data, answer)
        /\ answer.event # "Error" => TarGood(answer.parser, M)
        /\ TarFull(M) /\ TarPressing(self) =>
             Moved(answer) /\ (answer.event # "Error" => TarPressing(answer.parser))
    BY <2>1, TarFed
  <2> QED BY <1>1, <1>2, <1>3, <2>2 DEF Own, Pressing, NothingEmpty
<1>4. CASE a.format = "Cpio"
  <2>1. /\ CpioGood(self, M) /\ M \subseteq CpioMembers /\ data \in Seq(CpioByte(M))
        /\ answer = CpioFeed(self, data)
    BY <1>1, <1>4, ArchiveIs DEF Own, ByteOf, ParserFeed
  <2>2. CpioOutcome(self, M, data, answer)
    BY <2>1, CpioFed
  <2> QED BY <1>1, <1>2, <1>4, <2>2 DEF CpioOutcome, Own, Pressing, NothingEmpty
<1>5. CASE a.format = "Ar"
  <2>1. /\ ArGood(self, M) /\ M \subseteq ArMembers /\ data \in Seq(ArByte(M))
        /\ answer = ArFeed(self, data)
    BY <1>1, <1>5, ArchiveIs DEF Own, ByteOf, ParserFeed
  <2>2. ArOutcome(self, M, data, answer)
    BY <2>1, ArFed
  <2> QED BY <1>1, <1>2, <1>5, <2>2 DEF ArOutcome, Own, Pressing, NothingEmpty
<1> QED
  BY <1>1, <1>3, <1>4, <1>5 DEF Formats

\* A stream too short for detection is given to a tar parser, whatever its format: it
\* holds no whole header.
ShortTar(parser, data) ==
  /\ DOMAIN parser = {"format", "self"} /\ parser.format = "Tar"
  /\ parser.self.state = "ReadingHeader" /\ Len(parser.self.header_buf) < Block
  /\ parser.self.stream_pos \in Nat /\ parser.self.remaining = 0
  /\ data # <<>> => parser.self = TarNew /\ Len(data) < Block

\* It buffers what there is.
LEMMA ShortTarFed ==
  ASSUME NEW S, NEW data \in Seq(S), data # <<>>,
         NEW parser, ShortTar(parser, data),
         NEW answer, answer = ParserFeed(parser, data)
  PROVE  /\ answer.event = "NeedData" /\ answer.consumed = Len(data) /\ answer.entry = None
         /\ answer.parser.stream_pos = Len(data) /\ answer.parser.header_buf = data
         /\ ShortTar([parser EXCEPT !.self = answer.parser], <<>>)
<1> DEFINE take == Fewer(Len(data), Block - Len(<<>>))
           q    == [TarNew EXCEPT !.stream_pos = @ + take]
           part(block) == [q EXCEPT !.header_buf = block]
           next == [parser EXCEPT !.self = answer.parser]
<1>1. PICK n \in Nat : n = Len(data) /\ n > 0 /\ n < Block
  BY LenProperties, EmptySeq DEF ShortTar
<1>2. Block \in Nat
  BY TarAssumption
<1>3. take = n
  <2>1. take = Fewer(n, Block - 0)
    BY <1>1
  <2>2. n < Block /\ n \in Nat
    BY <1>1
  <2> HIDE DEF take
  <2> QED BY <1>2, <2>1, <2>2 DEF Fewer
<1>4. <<>> \o Taken(data, take) = data
  <2>1. Taken(data, n) = data
    BY <1>1, SubSeqFull DEF Taken
  <2> HIDE DEF take
  <2> QED BY <1>3, <2>1, ConcatEmptySeq
<1>5. answer = TarFeedHeader(TarNew, data)
  <2>1. answer = TarFeed(TarNew, data)
    BY DEF ShortTar, ParserFeed
  <2>2. TarNew.state = "ReadingHeader"
    BY DEF TarNew
  <2> QED BY <2>1, <2>2 DEF TarFeed
<1>6. answer = NeedsData(part(data), n)
  <2>1. TarNew.header_buf = <<>> /\ Len(data) < Block
    BY <1>1 DEF TarNew
  <2>2. Fewer(Len(data), Block - Len(TarNew.header_buf)) = take
    BY <2>1
  <2>3. TarNew.header_buf \o Taken(data, take) = data
    BY <1>4, <2>1
  <2> QED BY <1>3, <1>5, <2>1, <2>2, <2>3 DEF TarFeedHeader
<1>7. /\ part(data).state = "ReadingHeader" /\ part(data).header_buf = data
      /\ part(data).stream_pos = n /\ part(data).remaining = 0
  BY <1>3 DEF TarNew
<1>8. /\ answer.event = "NeedData" /\ answer.consumed = n /\ answer.entry = None
      /\ answer.parser = part(data)
  BY <1>6 DEF NeedsData, Answer
<1> HIDE DEF part
<1>9. /\ DOMAIN next = {"format", "self"} /\ next.format = "Tar"
      /\ next.self = answer.parser
  BY DEF ShortTar
<1> HIDE DEF next
<1>10. ShortTar(next, <<>>)
  BY <1>1, <1>7, <1>8, <1>9 DEF ShortTar
<1> QED
  BY <1>1, <1>7, <1>8, <1>10 DEF next

-----------------------------------------------------------------------------
(***************************************************************************)
(* The inductive invariant.                                                *)
(***************************************************************************)

\* The variables' values: what is buffered or being fed is of the listed archive.
Typed ==
  /\ source \in Sources /\ told \in Told
  /\ handed \in 0..End
  /\ detect_buf \in Seq(ByteOf(Archives[source.of])) /\ Len(detect_buf) < MinDetect
  /\ chunk \in Seq(ByteOf(Archives[source.of]))
  /\ from_end \in BOOLEAN /\ done \in BOOLEAN
  /\ pc \in {"step", "feed", "judge", "NeedInput", "Done", "Error", "refused", "finished"}

\* Until the format is known the bytes handed out are the ones collected.
Detecting ==
  archive_parser = None => detect_buf = SubSeq(Contents[source.of], 1, handed)

\* A parser is of the archive's format, or was made for a stream at its end.
Parsing ==
  archive_parser # None =>
    \E parser : /\ archive_parser = Some(parser)
                /\ \/ Own(Archives[source.of], parser)
                   \/ handed = End /\ ShortTar(parser, chunk)

\* There is a chunk exactly while it is fed.
Feeding ==
  /\ pc = "feed" => chunk # <<>> /\ archive_parser # None /\ ~ done
  /\ pc # "feed" => chunk = <<>>

Inv == Typed /\ Detecting /\ Parsing /\ Feeding

\* The listed archive and the stream's end in it.
LEMMA SourceIs ==
  ASSUME source \in Sources
  PROVE  /\ source.of \in DOMAIN Archives /\ Format \in Formats
         /\ End \in Nat /\ End <= Len(Contents[source.of])
         /\ Contents[source.of] \in Seq(ByteOf(Archives[source.of]))
         /\ MinDetect \in Nat /\ MinDetect > 0 /\ MinDetect <= Block
<1>1. source.of \in DOMAIN Archives /\ source.end \in 0..Len(Contents[source.of])
  BY ArchivesAssumption
<1>2. Contents[source.of] \in Seq(ByteOf(Archives[source.of]))
  BY <1>1, ContentsAre
<1>3. PICK n \in Nat : n = Len(Contents[source.of])
  BY <1>2, LenProperties
<1>4. MinDetect \in Nat /\ MinDetect > 0 /\ MinDetect <= Block
  BY SizesAssumption, CpioAssumption
<1> QED
  BY <1>1, <1>2, <1>3, <1>4, ArchiveIs DEF End, Format

\* It starts so.
LEMMA InitEstablishes == Init => Inv
<1> SUFFICES ASSUME Init PROVE Inv
  OBVIOUS
<1>1. /\ source.of \in DOMAIN Archives /\ Format \in Formats
      /\ End \in Nat /\ MinDetect > 0
      /\ Contents[source.of] \in Seq(ByteOf(Archives[source.of]))
  BY SourceIs DEF Init
<1>2. <<>> \in Seq(ByteOf(Archives[source.of])) /\ Len(<<>>) = 0
  OBVIOUS
<1>3. Typed
  <2>1. handed \in 0..End
    BY <1>1 DEF Init
  <2>2. /\ detect_buf \in Seq(ByteOf(Archives[source.of])) /\ Len(detect_buf) < MinDetect
        /\ chunk \in Seq(ByteOf(Archives[source.of]))
    BY <1>1, <1>2 DEF Init
  <2>3. /\ source \in Sources /\ told \in Told /\ from_end \in BOOLEAN /\ done \in BOOLEAN
        /\ pc = "step"
    BY DEF Init
  <2> QED BY <2>1, <2>2, <2>3 DEF Typed
<1>4. Detecting
  <2>1. SubSeq(Contents[source.of], 1, 0) = <<>>
    BY SubSeqEmpty
  <2> QED BY <2>1 DEF Init, Detecting
<1>5. Parsing
  <2>1. PICK parser : NewParser(Format) = Some(parser) /\ Own(Archives[source.of], parser)
    BY <1>1, NewParserIs DEF Format
  <2> QED BY <2>1 DEF Init, Parsing
<1>6. Feeding
  BY DEF Init, Feeding
<1> QED
  BY <1>3, <1>4, <1>5, <1>6 DEF Inv

\* drain_output() takes n bytes: what it has then.
LEMMA Drained ==
  ASSUME Inv, Stepping, NEW n \in 1..Fewer(OutSize, End - handed),
         NEW data, data = SubSeq(Contents[source.of], handed + 1, handed + n)
  PROVE  /\ n \in Nat /\ n > 0 /\ handed \in Nat /\ handed + n \in 1..End
         /\ handed + n \in 1..Len(Contents[source.of]) /\ handed # End
         /\ data \in Seq(ByteOf(Archives[source.of])) /\ data # <<>> /\ Len(data) = n
         /\ archive_parser = None =>
              /\ detect_buf \o data = SubSeq(Contents[source.of], 1, handed + n)
              /\ detect_buf \o data \in Seq(ByteOf(Archives[source.of]))
              /\ Len(detect_buf \o data) = handed + n
<1> DEFINE c == Contents[source.of]
           B == ByteOf(Archives[source.of])
<1>1. /\ source.of \in DOMAIN Archives /\ End \in Nat /\ End <= Len(c) /\ c \in Seq(B)
      /\ handed \in 0..End
  BY SourceIs DEF Inv, Typed
<1>2. PICK k \in Nat : k = Len(c) /\ End <= k
  BY <1>1, LenProperties
<1>3. OutSize \in Nat /\ handed \in Nat /\ End - handed \in Nat
  BY <1>1, SizesAssumption
<1>4. /\ n \in Nat /\ n > 0 /\ handed + n <= End
  BY <1>1, <1>3 DEF Fewer
<1> HIDE DEF c, B
<1>5. \A j \in 1..k : c[j] \in B
  BY <1>1, <1>2, ElementOfSeq
<1>6. handed + n \in Nat /\ handed + n <= k /\ n # 0
  BY <1>1, <1>2, <1>3, <1>4
<1>7. /\ data \in Seq(B) /\ Len(data) = n
  <2>1. handed + 1 \in Int /\ handed + n \in Int /\ handed + 1 <= handed + n
        /\ (handed + n) - (handed + 1) + 1 = n
    BY <1>3, <1>4
  <2>2. \A j \in (handed + 1)..(handed + n) : c[j] \in B
    <3>1. \A j \in (handed + 1)..(handed + n) : j \in 1..k
      BY <1>3, <1>6
    <3> QED BY <1>5, <3>1
  <2>3. /\ SubSeq(c, handed + 1, handed + n) \in Seq(B)
        /\ Len(SubSeq(c, handed + 1, handed + n)) =
             IF handed + 1 <= handed + n THEN (handed + n) - (handed + 1) + 1 ELSE 0
    BY <2>1, <2>2, SubSeqProperties
  <2> QED BY <2>1, <2>3 DEF c
<1>8. data # <<>>
  <2>1. Len(data) # 0 /\ data \in Seq(B)
    BY <1>7, <1>6
  <2> QED BY <2>1, EmptySeq, Zenon
<1>9. ASSUME archive_parser = None
      PROVE  /\ detect_buf \o data = SubSeq(c, 1, handed + n)
             /\ detect_buf \o data \in Seq(B) /\ Len(detect_buf \o data) = handed + n
  <2>1. detect_buf = SubSeq(c, 1, handed)
    BY <1>9 DEF Inv, Detecting, c
  <2>2. detect_buf \o data = SubSeq(c, 1, handed + n)
    <3>1. 1 \in 1..(Len(c) + 1) /\ handed \in (1 - 1)..Len(c) /\ handed + n \in handed..Len(c)
      <4>1. Len(c) = k
        BY <1>2
      <4>2. 1 \in 1..(k + 1) /\ handed \in (1 - 1)..k /\ handed + n \in handed..k
        BY <1>2, <1>3, <1>4, <1>6
      <4> QED BY <4>1, <4>2
    <3>2. SubSeq(c, 1, handed) \o SubSeq(c, handed + 1, handed + n) = SubSeq(c, 1, handed + n)
      BY <1>1, <3>1, ConcatAdjacentSubSeq
    <3> QED BY <2>1, <3>2 DEF c
  <2>3. /\ SubSeq(c, 1, handed + n) \in Seq(B)
        /\ Len(SubSeq(c, 1, handed + n)) = IF 1 <= handed + n THEN (handed + n) - 1 + 1 ELSE 0
    <3>1. 1 \in Int /\ handed + n \in Int /\ \A j \in 1..(handed + n) : c[j] \in B
      <4>1. \A j \in 1..(handed + n) : j \in 1..k
        BY <1>6
      <4> QED BY <1>5, <1>6, <4>1
    <3> QED BY <3>1, SubSeqProperties
  <2>4. (IF 1 <= handed + n THEN (handed + n) - 1 + 1 ELSE 0) = handed + n
    BY <1>3, <1>4
  <2> QED BY <2>2, <2>3, <2>4
<1>10. handed + n \in 1..End /\ handed + n \in 1..k /\ handed # End
  BY <1>1, <1>2, <1>3, <1>4
<1> QED
  BY <1>2, <1>3, <1>4, <1>7, <1>8, <1>9, <1>10 DEF c, B

\* And so it is after drain_output().
LEMMA DrainKeeps ==
  ASSUME Inv, DrainOutput
  PROVE  Inv'
<1> DEFINE c == Contents[source.of]
           B == ByteOf(Archives[source.of])
<1>1. PICK n \in 1..Fewer(OutSize, End - handed) :
        LET data   == SubSeq(c, handed + 1, handed + n)
            bytes  == detect_buf \o data
            format == Detected(bytes)
        IN  /\ handed' = handed + n
            /\ \/ /\ archive_parser # None
                  /\ chunk' = data /\ pc' = "feed"
                  /\ UNCHANGED <<archive_parser, detect_buf>>
               \/ /\ archive_parser = None /\ format = None
                  /\ detect_buf' = bytes
                  /\ UNCHANGED <<archive_parser, chunk, pc>>
               \/ /\ archive_parser = None /\ format # None
                  /\ archive_parser' = NewParser(format[1])
                  /\ detect_buf' = <<>>
                  /\ chunk' = Replayed(bytes, n) /\ pc' = "feed"
  BY DEF DrainOutput
<1> DEFINE data   == SubSeq(c, handed + 1, handed + n)
           bytes  == detect_buf \o data
           format == Detected(bytes)
<1>2. /\ Stepping /\ pc = "step" /\ ~ done /\ source' = source /\ told' = told
      /\ from_end' = from_end /\ done' = done
  BY DEF DrainOutput, Stepping, input
<1>3. /\ n \in Nat /\ n > 0 /\ handed \in Nat /\ handed + n \in 1..End
      /\ handed + n \in 1..Len(c) /\ handed # End
      /\ data \in Seq(B) /\ data # <<>> /\ Len(data) = n
      /\ archive_parser = None =>
           /\ bytes = SubSeq(c, 1, handed + n) /\ bytes \in Seq(B) /\ Len(bytes) = handed + n
  BY <1>2, Drained
<1>4. /\ source.of \in DOMAIN Archives /\ Format \in Formats /\ End \in Nat
      /\ MinDetect \in Nat /\ MinDetect > 0 /\ source \in Sources /\ told \in Told
      /\ from_end \in BOOLEAN /\ done \in BOOLEAN /\ chunk \in Seq(B)
      /\ detect_buf \in Seq(B) /\ Len(detect_buf) < MinDetect
  BY SourceIs DEF Inv, Typed
<1>5. End' = End /\ c' = c /\ B' = B
  BY <1>2 DEF End
<1>6. handed' \in 0..End'
  BY <1>1, <1>3, <1>4, <1>5
<1> HIDE DEF c, B
<1>7. Typed' <=> /\ detect_buf' \in Seq(B) /\ Len(detect_buf') < MinDetect
                 /\ chunk' \in Seq(B)
                 /\ pc' \in {"step", "feed", "judge", "NeedInput", "Done", "Error", "refused",
                             "finished"}
  BY <1>2, <1>4, <1>5, <1>6 DEF Typed, B
<1>8. handed' = handed + n
  BY <1>1
<1>9. CASE archive_parser # None /\ chunk' = data /\ pc' = "feed"
           /\ UNCHANGED <<archive_parser, detect_buf>>
  <2>1. PICK parser : /\ archive_parser = Some(parser)
                      /\ Own(Archives[source.of], parser)
    BY <1>3, <1>9 DEF Inv, Parsing
  <2>2. Parsing'
    BY <1>2, <1>9, <2>1 DEF Parsing
  <2>3. Typed'
    BY <1>3, <1>4, <1>7, <1>9
  <2>4. Detecting' /\ Feeding'
    BY <1>2, <1>3, <1>9 DEF Detecting, Feeding
  <2> QED BY <2>2, <2>3, <2>4 DEF Inv
<1>10. CASE /\ archive_parser = None /\ format = None /\ detect_buf' = bytes
            /\ UNCHANGED <<archive_parser, chunk, pc>>
  <2>1. Len(bytes) < MinDetect
    <3>1. handed + n < MinDetect
      BY <1>3, <1>4, <1>10, DetectedRight DEF c
    <3> QED BY <1>3, <1>10, <3>1
  <2>2. Typed'
    BY <1>2, <1>3, <1>4, <1>7, <1>10, <2>1
  <2>3. Detecting'
    BY <1>3, <1>5, <1>8, <1>10 DEF Detecting, c
  <2>4. Parsing' /\ Feeding'
    BY <1>2, <1>10 DEF Inv, Parsing, Feeding
  <2> QED BY <2>2, <2>3, <2>4 DEF Inv
<1>11. CASE /\ archive_parser = None /\ format # None
            /\ archive_parser' = NewParser(format[1])
            /\ detect_buf' = <<>>
            /\ chunk' = Replayed(bytes, n) /\ pc' = "feed"
  <2>1. chunk' = bytes
    BY <1>11 DEF Replayed
  <2>2. format[1] = Archives[source.of].format
    BY <1>3, <1>4, <1>11, DetectedRight DEF c
  <2>3. PICK parser : /\ NewParser(format[1]) = Some(parser)
                      /\ Own(Archives[source.of], parser)
    BY <1>4, <2>2, NewParserIs DEF Format
  <2>4. Parsing'
    BY <1>2, <1>11, <2>3 DEF Parsing
  <2>5. <<>> \in Seq(B) /\ Len(<<>>) = 0
    OBVIOUS
  <2>6. Typed'
    BY <1>3, <1>4, <1>7, <1>11, <2>1, <2>5
  <2>7. chunk' # <<>>
    <3>1. Len(bytes) # 0
      BY <1>3, <1>11
    <3> QED BY <1>3, <1>11, <2>1, <3>1, EmptySeq
  <2>8. archive_parser' # None
    <3>1. archive_parser' = <<parser>>
      BY <1>11, <2>3 DEF Some
    <3> QED BY <3>1 DEF None
  <2>9. Detecting' /\ Feeding'
    BY <1>2, <1>11, <2>7, <2>8 DEF Detecting, Feeding
  <2> QED BY <2>4, <2>6, <2>9 DEF Inv
<1> QED
  BY <1>1, <1>9, <1>10, <1>11 DEF c

\* What one iteration of feed_to_parser's loop makes of a parser's answer.
FedBy(parser, answer) ==
  LET next == [parser EXCEPT !.self = answer.parser]
      rest == SubSeq(chunk, answer.consumed + 1, Len(chunk))
  IN  /\ archive_parser = Some(parser) /\ answer = ParserFeed(parser, chunk)
      /\ \/ Own(Archives[source.of], parser)
         \/ handed = End /\ ShortTar(parser, chunk)
      /\ \/ answer.event = "Error" /\ Refuse
         \/ /\ answer.event \in {"NeedData", "Entry", "EndOfArchive"}
            /\ archive_parser' = Some(next)
            /\ done' = (answer.event = "EndOfArchive")
            /\ index_builder' = index_builder \o answer.entry
            /\ answer.consumed \in 0..Len(chunk)
            /\ next.self = answer.parser
            /\ answer.parser.stream_pos = parser.self.stream_pos + answer.consumed
            /\ \/ Own(Archives[source.of], next)
               \/ handed = End /\ ShortTar(next, chunk')
            /\ chunk' \in {rest, <<>>}
            /\ \/ chunk' = rest
               \/ answer.event = "EndOfArchive"
               \/ answer.event = "NeedData" /\ answer.consumed = 0
            /\ answer.event = "EndOfArchive" => chunk' = <<>>
            /\ pc' = IF chunk' # <<>> THEN "feed" ELSE IF from_end THEN "judge" ELSE "step"

\* There is such an answer.
LEMMA Fed ==
  ASSUME Inv, Feed
  PROVE  \E parser, answer : FedBy(parser, answer)
<1> DEFINE a == Archives[source.of]
           B == ByteOf(a)
<1>1. /\ pc = "feed" /\ chunk # <<>> /\ archive_parser # None /\ chunk \in Seq(B)
      /\ source.of \in DOMAIN Archives
  BY SourceIs DEF Feed, Inv, Feeding, Typed
<1>2. PICK parser : /\ archive_parser = Some(parser)
                    /\ Own(a, parser) \/ (handed = End /\ ShortTar(parser, chunk))
  BY <1>1 DEF Inv, Parsing
<1>3. archive_parser[1] = parser
  BY <1>2 DEF Some
<1> DEFINE answer == ParserFeed(parser, chunk)
           next   == [parser EXCEPT !.self = answer.parser]
           rest   == SubSeq(chunk, answer.consumed + 1, Len(chunk))
<1>4. IF answer.event = "Error" THEN Refuse ELSE Take(answer)
  BY <1>3 DEF Feed
<1>5. DOMAIN parser = {"format", "self"}
  BY <1>2 DEF Own, ShortTar
<1>6. next.self = answer.parser
  BY <1>5
<1>7. /\ Own(a, parser) => /\ Answers(parser.self, chunk, answer)
                           /\ answer.event # "Error" => Own(a, next)
  BY <1>1, ParserFed
<1>8. ASSUME ShortTar(parser, chunk)
      PROVE  /\ answer.event = "NeedData" /\ answer.consumed = Len(chunk)
             /\ answer.parser.stream_pos = Len(chunk)
             /\ ShortTar(next, <<>>) /\ parser.self.stream_pos = 0
  <2>1. /\ answer.event = "NeedData" /\ answer.consumed = Len(chunk)
        /\ answer.parser.stream_pos = Len(chunk)
        /\ ShortTar(next, <<>>)
    BY <1>1, <1>8, ShortTarFed
  <2>2. parser.self = TarNew
    BY <1>1, <1>8 DEF ShortTar
  <2>3. TarNew.stream_pos = 0
    BY DEF TarNew
  <2> QED BY <2>1, <2>2, <2>3
<1>9. PICK k \in Nat : k = Len(chunk) /\ k > 0
  BY <1>1, LenProperties, EmptySeq
<1> HIDE DEF answer, next, a, B
<1>10. CASE answer.event = "Error"
  <2>1. Refuse
    BY <1>4, <1>10
  <2> QED BY <1>2, <1>10, <2>1 DEF FedBy, answer, a
<1>11. CASE answer.event # "Error"
  <2>1. Take(answer)
    BY <1>4, <1>11
  <2>2. /\ answer.event \in {"NeedData", "Entry", "EndOfArchive"}
        /\ answer.consumed \in 0..k
        /\ answer.parser.stream_pos = parser.self.stream_pos + answer.consumed
    <3>1. CASE Own(a, parser)
      BY <1>7, <1>9, <1>11, <3>1 DEF Answers
    <3>2. CASE ShortTar(parser, chunk)
      BY <1>8, <1>9, <3>2
    <3> QED BY <1>2, <3>1, <3>2
  <2>3. /\ archive_parser' = Some(next) /\ done' = (answer.event = "EndOfArchive")
        /\ index_builder' = index_builder \o answer.entry
        /\ chunk' = Unread(answer)
        /\ pc' = IF chunk' # <<>> THEN "feed" ELSE IF from_end THEN "judge" ELSE "step"
    BY <1>3, <2>1 DEF Take, next
  <2>4. /\ chunk' \in {rest, <<>>}
        /\ \/ chunk' = rest
           \/ answer.event = "EndOfArchive"
           \/ answer.event = "NeedData" /\ answer.consumed = 0
        /\ answer.event = "EndOfArchive" => chunk' = <<>>
    BY <2>3 DEF Unread
  <2>5. Own(a, next) \/ (handed = End /\ ShortTar(next, chunk'))
    <3>1. CASE Own(a, parser)
      BY <1>7, <1>11, <3>1
    <3>2. CASE handed = End /\ ShortTar(parser, chunk)
      <4>1. rest = <<>>
        <5>1. rest = SubSeq(chunk, k + 1, k) /\ k + 1 \in Int /\ k \in Int /\ k < k + 1
          BY <1>8, <1>9, <3>2
        <5> QED BY <5>1, SubSeqEmpty
      <4>2. chunk' = <<>>
        BY <2>4, <4>1
      <4> QED BY <1>8, <3>2, <4>2
    <3> QED BY <1>2, <3>1, <3>2
  <2>6. answer.consumed \in 0..Len(chunk)
    BY <1>9, <2>2
  <2> HIDE DEF rest
  <2> QED BY <1>2, <1>6, <2>2, <2>3, <2>4, <2>5, <2>6, Zenon
       DEF FedBy, answer, next, a, rest
<1> QED
  BY <1>10, <1>11

\* And so it is after each.
LEMMA FeedKeeps ==
  ASSUME Inv, Feed
  PROVE  Inv'
<1> DEFINE B == ByteOf(Archives[source.of])
<1>1. /\ source' = source /\ told' = told /\ handed' = handed /\ detect_buf' = detect_buf
      /\ from_end' = from_end /\ pc = "feed"
  BY DEF Feed, input
<1>2. /\ chunk \in Seq(B) /\ Typed /\ archive_parser # None /\ chunk # <<>> /\ ~ done
  BY <1>1 DEF Inv, Typed, Feeding
<1>3. End' = End
  BY <1>1 DEF End
<1>4. PICK parser, answer : FedBy(parser, answer)
  BY Fed
<1> DEFINE next == [parser EXCEPT !.self = answer.parser]
           rest == SubSeq(chunk, answer.consumed + 1, Len(chunk))
<1>5. <<>> \in Seq(B)
  OBVIOUS
<1>6. CASE answer.event = "Error" /\ Refuse
  <2>1. /\ chunk' = <<>> /\ pc' = "refused" /\ archive_parser' = archive_parser
        /\ done' = done
    BY <1>6 DEF Refuse
  <2>2. Typed'
    BY <1>1, <1>2, <1>3, <1>5, <2>1 DEF Typed
  <2>3. Parsing'
    BY <1>1, <1>3, <2>1 DEF Inv, Parsing, ShortTar
  <2>4. Detecting' /\ Feeding'
    BY <1>2, <2>1 DEF Detecting, Feeding
  <2> QED BY <2>2, <2>3, <2>4 DEF Inv
<1>7. CASE /\ archive_parser' = Some(next)
           /\ done' = (answer.event = "EndOfArchive")
           /\ answer.consumed \in 0..Len(chunk)
           /\ \/ Own(Archives[source.of], next)
              \/ handed = End /\ ShortTar(next, chunk')
           /\ chunk' \in {rest, <<>>}
           /\ answer.event = "EndOfArchive" => chunk' = <<>>
           /\ pc' = IF chunk' # <<>> THEN "feed" ELSE IF from_end THEN "judge" ELSE "step"
  <2>1. rest \in Seq(B)
    BY <1>2, <1>7, RestIs
  <2> HIDE DEF next, rest
  <2>2. chunk' \in Seq(B)
    BY <1>5, <1>7, <2>1
  <2>3. done' \in BOOLEAN /\ pc' \in {"feed", "judge", "step"}
    BY <1>7
  <2>4. Typed'
    BY <1>1, <1>2, <1>3, <2>2, <2>3 DEF Typed
  <2>5. Parsing'
    BY <1>1, <1>3, <1>7 DEF Parsing
  <2>6. archive_parser' # None
    <3>1. archive_parser' = <<next>>
      BY <1>7 DEF Some
    <3> QED BY <3>1 DEF None
  <2>7. Detecting'
    BY <2>6 DEF Detecting
  <2>8. Feeding'
    BY <1>7, <2>6 DEF Feeding
  <2> QED BY <2>4, <2>5, <2>7, <2>8 DEF Inv
<1> QED
  BY <1>4, <1>6, <1>7 DEF FedBy

\* And so it is after a stream too short for detection was given to a tar parser.
LEMMA EndUndetectedKeeps ==
  ASSUME Inv, EndUndetected
  PROVE  Inv'
<1> DEFINE B == ByteOf(Archives[source.of])
<1>1. /\ source' = source /\ told' = told /\ handed' = handed /\ done' = done
      /\ detect_buf' = <<>> /\ chunk' = detect_buf /\ from_end' = TRUE /\ pc' = "feed"
      /\ archive_parser' = NewParser("Tar") /\ detect_buf # <<>> /\ handed = End /\ ~ done
  BY DEF EndUndetected, StreamEnds, Stepping, input
<1>2. /\ Typed /\ detect_buf \in Seq(B) /\ Len(detect_buf) < MinDetect
  BY DEF Inv, Typed
<1>3. End' = End /\ MinDetect \in Nat /\ MinDetect > 0 /\ MinDetect <= Block
  BY <1>1, <1>2, SourceIs DEF Typed, End
<1>4. <<>> \in Seq(B) /\ Len(<<>>) = 0
  OBVIOUS
<1>5. Typed'
  BY <1>1, <1>2, <1>3, <1>4 DEF Typed
<1> DEFINE parser == [format |-> "Tar", self |-> TarNew]
<1>6. archive_parser' = <<parser>>
  BY <1>1 DEF NewParser, Some
<1>7. ShortTar(parser, detect_buf)
  <2>1. Len(detect_buf) < Block
    <3>1. PICK n \in Nat : n = Len(detect_buf)
      BY <1>2, LenProperties
    <3> QED BY <1>2, <1>3, <3>1, TarAssumption
  <2>2. /\ TarNew.state = "ReadingHeader" /\ TarNew.header_buf = <<>>
        /\ TarNew.stream_pos = 0 /\ TarNew.remaining = 0
    BY DEF TarNew
  <2>3. Len(TarNew.header_buf) < Block
    BY <1>4, <2>2, TarAssumption
  <2> QED BY <2>1, <2>2, <2>3 DEF ShortTar
<1> HIDE DEF parser
<1>8. Parsing'
  BY <1>1, <1>3, <1>6, <1>7 DEF Parsing, Some
<1>9. archive_parser' # None
  BY <1>6 DEF None
<1>10. Detecting' /\ Feeding'
  BY <1>1, <1>9 DEF Detecting, Feeding
<1> QED
  BY <1>5, <1>8, <1>10 DEF Inv

\* A step that leaves what is read and parsed alone; what is over stays so.
Aside ==
  /\ UNCHANGED <<source, told, handed, detect_buf, archive_parser, chunk, from_end,
                 index_builder>>
  /\ pc # "feed" /\ done' \in BOOLEAN /\ (done => done')
  /\ pc' # "finished" => pc \notin {"refused", "finished"}
  /\ pc' \in {"step", "NeedInput", "Done", "Error", "finished"}

\* The other steps are.
LEMMA OthersAside ==
  ASSUME Inv, [Next]_vars, ~ DrainOutput, ~ Feed, ~ EndUndetected
  PROVE  Aside \/ UNCHANGED vars
<1>1. done \in BOOLEAN
  BY DEF Inv, Typed
<1>2. CASE StepDone
  BY <1>1, <1>2 DEF StepDone, Aside, input
<1>3. CASE IndexerAsks
  BY <1>1, <1>3 DEF IndexerAsks, Stepping, Aside, input
<1>4. CASE EndEmpty
  BY <1>1, <1>4 DEF EndEmpty, StreamEnds, Stepping, Aside, input
<1>5. CASE Judge
  <2>1. done' \in BOOLEAN /\ (done => done')
    BY <1>5 DEF Judge, DoneAtEnd
  <2>2. pc' \in {"Done", "Error"} /\ pc \in {"judge", "step"}
    BY <1>5 DEF Judge, StreamEnds, Stepping
  <2> QED BY <1>5, <2>1, <2>2 DEF Judge, Aside, input
<1>6. CASE StreamCut
  BY <1>1, <1>6 DEF StreamCut, Stepping, Aside, input
<1>7. CASE StepAgain
  BY <1>1, <1>7 DEF StepAgain, Aside, input
<1>8. CASE Finish
  BY <1>1, <1>8 DEF Finish, Aside, input
<1>9. CASE Terminated
  BY <1>9 DEF Terminated
<1> QED
  BY <1>2, <1>3, <1>4, <1>5, <1>6, <1>7, <1>8, <1>9 DEF Next, Step

\* Such a step keeps the invariant.
LEMMA AsideKeeps ==
  ASSUME Inv, Aside
  PROVE  Inv'
<1>1. End' = End
  BY DEF Aside, End
<1>2. chunk = <<>>
  BY DEF Inv, Feeding, Aside
<1>3. Typed'
  BY <1>1 DEF Inv, Typed, Aside
<1>4. Detecting' /\ Parsing'
  BY <1>1 DEF Inv, Detecting, Parsing, Aside, ShortTar
<1>5. Feeding'
  BY <1>2 DEF Feeding, Aside
<1> QED
  BY <1>3, <1>4, <1>5 DEF Inv

\* Every step keeps the invariant.
LEMMA NextKeeps == Inv /\ [Next]_vars => Inv'
<1> SUFFICES ASSUME Inv, [Next]_vars PROVE Inv'
  OBVIOUS
<1>1. CASE UNCHANGED vars
  BY <1>1 DEF vars, input, Inv, Typed, Detecting, Parsing, Feeding, End, ShortTar
<1> QED
  BY <1>1, DrainKeeps, FeedKeeps, EndUndetectedKeeps, OthersAside, AsideKeeps

-----------------------------------------------------------------------------
(***************************************************************************)
(* The theorems.                                                           *)
(***************************************************************************)

\* The inductive invariant holds: whatever the archive, where its stream ends and how it
\* is cut, the engine detects the format it has and parses with a parser of that format.
THEOREM InvHolds == Spec => []Inv
<1>1. Init => Inv
  BY InitEstablishes
<1>2. Inv /\ [Next]_vars => Inv'
  BY NextKeeps
<1> QED
  BY <1>1, <1>2, PTL DEF Spec

\* The sizes of headers are what their buffers may hold.
LEMMA HeadersFit ==
  ASSUME NEW i \in DOMAIN Archives, NEW parser, Own(Archives[i], parser)
  PROVE  /\ parser.self.stream_pos \in Nat /\ parser.self.remaining \in Nat
         /\ parser.format = "Tar"  => Len(parser.self.header_buf) < Block
         /\ parser.format = "Cpio" => Len(parser.self.header_buf) < HeaderSizes["newc"]
         /\ parser.format = "Ar"   => Len(parser.self.header_buf) < ArHeaderSize + ArMagicLen
         /\ parser.format \in Formats
<1> DEFINE self == parser.self
           M == MembersOf(Archives[i])
<1>1. parser.format = Archives[i].format /\ parser.format \in Formats
  BY ArchiveIs DEF Own
<1>2. CASE parser.format = "Tar"
  BY <1>1, <1>2 DEF Own, TarGood
<1>3. CASE parser.format = "Cpio"
  <2>1. /\ self.header_buf \in Seq(CpioByte(M)) /\ Len(self.header_buf) < HeaderWanted(self)
        /\ self.stream_pos \in Nat /\ self.remaining \in Nat
        /\ self.sub_format = None
             \/ \E sub \in DOMAIN HeaderSizes : self.sub_format = Some(sub)
    BY <1>1, <1>3 DEF Own, CpioGood
  <2>2. PICK k \in Nat : k = Len(self.header_buf)
    BY <2>1, LenProperties
  <2>3. /\ MagicLen \in Nat /\ DOMAIN HeaderSizes = {"newc", "odc"}
        /\ HeaderSizes["newc"] \in Nat /\ HeaderSizes["odc"] \in Nat
        /\ MagicLen < HeaderSizes["odc"] /\ HeaderSizes["odc"] <= HeaderSizes["newc"]
    BY CpioAssumption
  <2>4. HeaderWanted(self) \in Nat /\ HeaderWanted(self) <= HeaderSizes["newc"]
    <3>1. CASE self.sub_format = None
      BY <2>3, <3>1 DEF HeaderWanted
    <3>2. CASE self.sub_format # None
      <4>1. PICK sub \in {"newc", "odc"} : self.sub_format = Some(sub)
        BY <2>1, <2>3, <3>2
      <4>2. HeaderWanted(self) = HeaderSizes[sub]
        BY <3>2, <4>1 DEF HeaderWanted, Some
      <4> QED BY <2>3, <4>2
    <3> QED BY <3>1, <3>2
  <2>5. k < HeaderWanted(self)
    BY <2>1, <2>2
  <2>6. k < HeaderSizes["newc"]
    BY <2>3, <2>4, <2>5
  <2> QED BY <1>1, <1>3, <2>1, <2>2, <2>6
<1>4. CASE parser.format = "Ar"
  <2>1. /\ self.header_buf \in Seq(ArByte(M))
        /\ Len(self.header_buf) < IF self.state = "ReadingMagic" THEN ArMagicLen
                                  ELSE ArHeaderSize
        /\ self.stream_pos \in Nat /\ self.remaining \in Nat
    BY <1>1, <1>4 DEF Own, ArGood
  <2>2. PICK k \in Nat : k = Len(self.header_buf)
    BY <2>1, LenProperties
  <2>3. ArMagicLen \in Nat /\ ArHeaderSize \in Nat
    BY ArAssumption
  <2>4. k < ArMagicLen \/ k < ArHeaderSize
    BY <2>1, <2>2
  <2>5. k < ArHeaderSize + ArMagicLen
    BY <2>3, <2>4
  <2> QED BY <1>1, <1>4, <2>1, <2>2, <2>5
<1> QED
  BY <1>1, <1>2, <1>3, <1>4 DEF Formats

\* Every field keeps its type and the parsers' buffers and counters their bounds: neither
\* header_pos nor `remaining' underflows, for any archive cut into any chunks.
THEOREM TypeCorrect == Spec => []TypeOK
<1>1. Inv => TypeOK
  <2> SUFFICES ASSUME Inv PROVE TypeOK
    OBVIOUS
  <2>1. /\ source \in Sources /\ told \in Told /\ handed \in 0..End
        /\ Len(detect_buf) < MinDetect /\ from_end \in BOOLEAN /\ done \in BOOLEAN
        /\ pc \in {"step", "feed", "judge", "NeedInput", "Done", "Error", "refused",
                   "finished"}
    BY DEF Inv, Typed
  <2> DEFINE Bound(format) == CASE format = "Tar"  -> Block
                                [] format = "Cpio" -> HeaderSizes["newc"]
                                [] format = "Ar"   -> ArHeaderSize + ArMagicLen
  <2>2. ASSUME archive_parser # None
        PROVE  /\ archive_parser[1].self.stream_pos \in Nat
               /\ archive_parser[1].self.remaining \in Nat
               /\ Len(archive_parser[1].self.header_buf) < Bound(archive_parser[1].format)
    <3>1. PICK parser : /\ archive_parser = Some(parser)
                        /\ Own(Archives[source.of], parser) \/ ShortTar(parser, chunk)
      BY <2>2 DEF Inv, Parsing
    <3>2. archive_parser[1] = parser
      BY <3>1 DEF Some
    <3>3. CASE Own(Archives[source.of], parser)
      <4>1. source.of \in DOMAIN Archives
        BY <2>1, SourceIs
      <4>2. /\ parser.self.stream_pos \in Nat /\ parser.self.remaining \in Nat
            /\ parser.format = "Tar"  => Len(parser.self.header_buf) < Block
            /\ parser.format = "Cpio" => Len(parser.self.header_buf) < HeaderSizes["newc"]
            /\ parser.format = "Ar" =>
                 Len(parser.self.header_buf) < ArHeaderSize + ArMagicLen
            /\ parser.format \in Formats
        BY <3>3, <4>1, HeadersFit
      <4> QED BY <3>2, <4>2 DEF Formats
    <3>4. CASE ShortTar(parser, chunk)
      <4>1. /\ parser.format = "Tar" /\ Len(parser.self.header_buf) < Block
            /\ parser.self.stream_pos \in Nat /\ parser.self.remaining \in Nat
        BY <3>4 DEF ShortTar
      <4> QED BY <3>2, <4>1
    <3> QED BY <3>1, <3>3, <3>4
  <2> QED BY <2>1, <2>2 DEF TypeOK
<1> QED
  BY <1>1, InvHolds, PTL

\* No archive holds an extended header, a name or a name table of no bytes.
NothingIsEmpty == \A i \in DOMAIN Archives : NothingEmpty(Archives[i])

\* The parser never asks for more of a chunk it was given.
Presses == archive_parser # None => Pressing(archive_parser[1])

SeesInv == Inv /\ Presses /\ ParserSeesAll

\* It starts so.
LEMMA SeesFirst == Init => SeesInv
<1> SUFFICES ASSUME Init PROVE SeesInv
  OBVIOUS
<1>1. Inv
  BY InitEstablishes
<1>2. Format \in Formats
  BY SourceIs DEF Init
<1>3. PICK parser : /\ NewParser(Format) = Some(parser) /\ Pressing(parser)
                    /\ parser.self.stream_pos = 0
  BY <1>2, NewParserIs DEF Format
<1>4. Some(parser)[1] = parser /\ Some(parser) # None /\ Len(<<>>) = 0
  BY DEF Some, None
<1>5. /\ handed = 0 /\ detect_buf = <<>> /\ chunk = <<>>
      /\ archive_parser \in {None, Some(parser)}
  BY <1>3 DEF Init
<1>6. Presses
  BY <1>3, <1>4, <1>5 DEF Presses
<1>7. ParserSeesAll
  BY <1>3, <1>4, <1>5 DEF ParserSeesAll
<1> QED
  BY <1>1, <1>6, <1>7 DEF SeesInv

\* And so it is after drain_output().
LEMMA SeesDrained ==
  ASSUME SeesInv, DrainOutput
  PROVE  Presses' /\ ParserSeesAll'
<1> DEFINE c == Contents[source.of]
<1>1. Inv /\ Presses /\ ParserSeesAll /\ Stepping /\ pc = "step" /\ ~ done
  BY DEF SeesInv, DrainOutput, Stepping
<1>2. PICK n \in 1..Fewer(OutSize, End - handed) :
        LET data   == SubSeq(c, handed + 1, handed + n)
            bytes  == detect_buf \o data
            format == Detected(bytes)
        IN  /\ handed' = handed + n
            /\ \/ /\ archive_parser # None
                  /\ chunk' = data
                  /\ UNCHANGED <<archive_parser, detect_buf>>
               \/ /\ archive_parser = None /\ format = None
                  /\ detect_buf' = bytes
                  /\ UNCHANGED <<archive_parser, chunk, pc>>
               \/ /\ archive_parser = None /\ format # None
                  /\ archive_parser' = NewParser(format[1])
                  /\ chunk' = Replayed(bytes, n)
  BY DEF DrainOutput
<1> DEFINE data   == SubSeq(c, handed + 1, handed + n)
           bytes  == detect_buf \o data
           format == Detected(bytes)
<1>3. /\ n \in Nat /\ handed \in Nat /\ handed + n \in 1..Len(c) /\ handed # End
      /\ Len(data) = n
      /\ archive_parser = None =>
           bytes = SubSeq(c, 1, handed + n) /\ Len(bytes) = handed + n
  BY <1>1, Drained
<1>4. source.of \in DOMAIN Archives /\ Format \in Formats
  BY <1>1, SourceIs DEF Inv, Typed
<1> HIDE DEF c
<1>5. handed' = handed + n
  BY <1>2
<1>6. CASE archive_parser # None /\ chunk' = data /\ UNCHANGED <<archive_parser, detect_buf>>
  <2>1. PICK parser : /\ archive_parser = Some(parser)
                      /\ Own(Archives[source.of], parser)
    BY <1>1, <1>3, <1>6 DEF Inv, Parsing
  <2>2. archive_parser[1] = parser /\ parser.self.stream_pos \in Nat
    BY <1>4, <2>1, HeadersFit DEF Some
  <2>3. chunk = <<>> /\ Len(<<>>) = 0
    BY <1>1 DEF Inv, Feeding
  <2>4. handed = parser.self.stream_pos
    BY <1>1, <1>6, <2>2, <2>3 DEF ParserSeesAll
  <2>5. Len(chunk') = n
    BY <1>3, <1>6
  <2>6. handed' = archive_parser'[1].self.stream_pos + Len(chunk')
    BY <1>5, <1>6, <2>2, <2>4, <2>5
  <2> QED BY <1>1, <1>6, <2>6 DEF Presses, ParserSeesAll
<1>7. CASE archive_parser = None /\ detect_buf' = bytes /\ UNCHANGED archive_parser
  BY <1>3, <1>5, <1>7 DEF Presses, ParserSeesAll
<1>8. CASE /\ archive_parser = None /\ format # None
           /\ archive_parser' = NewParser(format[1])
           /\ chunk' = Replayed(bytes, n)
  <2>1. chunk' = bytes
    BY <1>8 DEF Replayed
  <2>2. format[1] = Archives[source.of].format
    BY <1>3, <1>4, <1>8, DetectedRight DEF c
  <2>3. PICK parser : /\ NewParser(format[1]) = Some(parser) /\ Pressing(parser)
                      /\ parser.self.stream_pos = 0
    BY <1>4, <2>2, NewParserIs DEF Format
  <2>4. archive_parser' = Some(parser) /\ archive_parser'[1] = parser
        /\ archive_parser' # None
    BY <1>8, <2>3 DEF Some, None
  <2>5. Len(chunk') = handed + n
    BY <1>3, <1>8, <2>1
  <2>6. handed' = archive_parser'[1].self.stream_pos + Len(chunk')
    BY <1>3, <1>5, <2>3, <2>4, <2>5
  <2> QED BY <2>3, <2>4, <2>6 DEF Presses, ParserSeesAll
<1> QED
  BY <1>2, <1>6, <1>7, <1>8 DEF c

\* And so it is after an iteration of feed_to_parser: an answer that would drop the rest
\* of the chunk is one that took none of it.
LEMMA SeesFed ==
  ASSUME SeesInv, Feed, NothingIsEmpty
  PROVE  Presses' /\ ParserSeesAll'
<1>1. /\ Inv /\ Presses /\ ParserSeesAll /\ pc = "feed" /\ ~ done /\ chunk # <<>>
      /\ chunk \in Seq(ByteOf(Archives[source.of])) /\ source.of \in DOMAIN Archives
      /\ archive_parser # None /\ handed' = handed
  BY SourceIs DEF SeesInv, Feed, Inv, Feeding, Typed
<1>2. PICK parser, answer : FedBy(parser, answer)
  BY <1>1, Fed
<1> DEFINE next == [parser EXCEPT !.self = answer.parser]
           rest == SubSeq(chunk, answer.consumed + 1, Len(chunk))
<1>3. /\ archive_parser[1] = parser /\ answer = ParserFeed(parser, chunk)
      /\ Own(Archives[source.of], parser) \/ ShortTar(parser, chunk)
  BY <1>2 DEF Some, FedBy
<1>4. Pressing(parser) /\ handed = parser.self.stream_pos + Len(chunk)
  BY <1>1, <1>3 DEF Presses, ParserSeesAll
<1>5. CASE Refuse
  BY <1>1, <1>5 DEF Refuse, Presses, ParserSeesAll
<1>6. CASE /\ answer.event \in {"NeedData", "Entry", "EndOfArchive"}
           /\ archive_parser' = Some(next)
           /\ done' = (answer.event = "EndOfArchive")
           /\ answer.consumed \in 0..Len(chunk)
           /\ next.self = answer.parser
           /\ answer.parser.stream_pos = parser.self.stream_pos + answer.consumed
           /\ \/ chunk' = rest
              \/ answer.event = "EndOfArchive"
              \/ answer.event = "NeedData" /\ answer.consumed = 0
  <2>1. PICK k \in Nat : k = Len(chunk) /\ k > 0
    BY <1>1, LenProperties, EmptySeq
  <2>2. Moved(answer) /\ Pressing(next) /\ parser.self.stream_pos \in Nat
    <3>1. CASE Own(Archives[source.of], parser)
      <4>1. NothingEmpty(Archives[source.of])
        BY <1>1 DEF NothingIsEmpty
      <4>2. answer = ParserFeed(parser, chunk) /\ answer.event # "Error"
        BY <1>3, <1>6
      <4>3. Moved(answer) /\ Pressing(next)
        BY <1>1, <1>4, <3>1, <4>1, <4>2, ParserFed
      <4> QED BY <1>1, <3>1, <4>3, HeadersFit
    <3>2. CASE ShortTar(parser, chunk)
      <4>1. answer.consumed = k /\ ShortTar(next, <<>>)
        BY <1>1, <1>3, <2>1, <3>2, ShortTarFed
      <4>2. Moved(answer) /\ Pressing(next)
        BY <2>1, <4>1 DEF Moved, ShortTar, Pressing, TarPressing, TarReads
      <4> QED BY <3>2, <4>2 DEF ShortTar
    <3> QED BY <1>3, <3>1, <3>2
  <2>3. Len(rest) = Len(chunk) - answer.consumed
    BY <1>1, <1>6, RestIs
  <2> HIDE DEF rest, next
  <2>4. archive_parser'[1] = next /\ archive_parser' # None
    BY <1>6 DEF Some, None
  <2>5. Presses'
    BY <2>2, <2>4 DEF Presses
  <2>6. ParserSeesAll'
    <3>1. SUFFICES ASSUME ~ done'
                   PROVE  handed' = archive_parser'[1].self.stream_pos + Len(chunk')
      BY <2>4 DEF ParserSeesAll
    <3>2. chunk' = rest
      <4>1. answer.event # "EndOfArchive"
        BY <1>6, <3>1
      <4>2. ~ (answer.event = "NeedData" /\ answer.consumed = 0)
        BY <2>2 DEF Moved
      <4> QED BY <1>6, <4>1, <4>2
    <3>3. Len(chunk') = k - answer.consumed /\ answer.consumed \in 0..k
      BY <1>6, <2>1, <2>3, <3>2
    <3>4. handed = parser.self.stream_pos + k
      BY <1>4, <2>1
    <3>5. archive_parser'[1].self.stream_pos = parser.self.stream_pos + answer.consumed
      BY <1>6, <2>4
    <3> QED BY <1>1, <2>2, <3>3, <3>4, <3>5
  <2> QED BY <2>5, <2>6
<1> QED
  BY <1>2, <1>5, <1>6 DEF FedBy

\* And so it is after every step.
LEMMA SeesNext ==
  ASSUME NothingIsEmpty
  PROVE  SeesInv /\ [Next]_vars => SeesInv'
<1> SUFFICES ASSUME SeesInv, [Next]_vars PROVE SeesInv'
  OBVIOUS
<1>1. Inv /\ Presses /\ ParserSeesAll
  BY DEF SeesInv
<1>2. Inv'
  BY <1>1, NextKeeps
<1>3. CASE DrainOutput
  BY <1>2, <1>3, SeesDrained DEF SeesInv
<1>4. CASE Feed
  BY <1>2, <1>4, SeesFed DEF SeesInv
<1>5. CASE EndUndetected
  <2>1. /\ handed' = handed /\ chunk' = detect_buf /\ archive_parser = None /\ pc = "step"
        /\ ~ done
        /\ archive_parser' = NewParser("Tar")
    BY <1>5 DEF EndUndetected, StreamEnds, Stepping
  <2>2. archive_parser' = <<[format |-> "Tar", self |-> TarNew]>>
    BY <2>1 DEF NewParser, Some
  <2>3. /\ archive_parser'[1].format = "Tar" /\ archive_parser'[1].self = TarNew
        /\ archive_parser' # None
    BY <2>2 DEF None
  <2>4. TarNew.stream_pos = 0 /\ TarNew.state = "ReadingHeader"
    BY DEF TarNew
  <2>5. handed = Len(detect_buf) /\ handed \in Nat
    <3>1. handed \in 0..End /\ End \in Nat
      BY <1>1, SourceIs DEF Inv, Typed
    <3> QED BY <1>1, <2>1, <3>1 DEF ParserSeesAll
  <2>6. Presses'
    BY <2>3, <2>4 DEF Presses, Pressing, TarPressing, TarReads
  <2>7. ParserSeesAll'
    BY <2>1, <2>3, <2>4, <2>5 DEF ParserSeesAll
  <2> QED BY <1>2, <2>6, <2>7 DEF SeesInv
<1>6. CASE Aside
  BY <1>1, <1>2, <1>6 DEF SeesInv, Aside, Presses, ParserSeesAll
<1>7. CASE UNCHANGED vars
  BY <1>1, <1>2, <1>7 DEF SeesInv, Presses, ParserSeesAll, vars, input
<1> QED
  BY <1>1, <1>3, <1>4, <1>5, <1>6, <1>7, OthersAside

\* The parser sees every byte of the stream once and in order, through detection, its
\* replay and feed_to_parser's loop, so that stream_pos is the place in the stream the
\* entries' data offsets are taken from: for every archive without empty metadata.
THEOREM ParserSeesEverything ==
  ASSUME NothingIsEmpty
  PROVE  Spec => []ParserSeesAll
<1>1. Init => SeesInv
  BY SeesFirst
<1>2. SeesInv /\ [Next]_vars => SeesInv'
  BY SeesNext
<1>3. SeesInv => ParserSeesAll
  BY DEF SeesInv
<1> QED
  BY <1>1, <1>2, <1>3, PTL DEF Spec
=============================================================================

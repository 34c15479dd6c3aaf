------------------------ MODULE FrameAssembly_proofs ------------------------
(***************************************************************************)
(* The proof that the application gets the units as they were sent, for    *)
(* any lengths, headers, paddings and numbers of fragments, and whatever   *)
(* packets are lost.                                                       *)
(*                                                                         *)
(* The operators that go through the packets of a frame are recursive      *)
(* functions; a closed form of each satisfies the recursion, and the       *)
(* recursion has one solution (SameSteps).                                 *)
(***************************************************************************)
EXTENDS FrameAssembly, SequenceTheorems, FiniteSetTheorems,
        WellFoundedInduction, TLAPS

Unit == [media : {"video", "audio"}, layer : 0 .. 3, type : Nat, length : Lengths]

Byte ==
  [byte : {"hdr"}, layer : Nat, type : Nat] \cup [byte : {"data"}, unit : Nat, at : Int]
    \cup [byte : {"start", "tid", "rtp", "pad"}, n : Nat] \cup [byte : {"fu"}, type : Nat]

-----------------------------------------------------------------------------
(* Arithmetic and recursion.                                               *)

LEMMA MinOfNat ==
  ASSUME NEW S \in SUBSET Nat, S # {}
  PROVE  \E m \in S : \A x \in S : m <= x
<1> DEFINE T == {0 .. x : x \in S}
           R == StrictSubsetOrdering(Nat)
<1>1. T \subseteq FiniteSubsetsOf(Nat) /\ T # {}
  <2>1. ASSUME NEW x \in S
        PROVE  0 .. x \in SUBSET Nat /\ IsFiniteSet(0 .. x)
    BY FS_Interval
  <2> QED
    BY <2>1 DEF FiniteSubsetsOf
<1>2. PICK u \in T : \A v \in T : ~(<<v, u>> \in R)
  BY <1>1, WFMin, FS_StrictSubsetOrderingWellFounded
<1>3. PICK m \in S : u = 0 .. m
  BY <1>2
<1>4. ASSUME NEW x \in S, x < m
      PROVE  FALSE
  <2>1. 0 .. x \in T
    OBVIOUS
  <2>2. 0 .. x \subseteq u /\ m \in u /\ m \notin 0 .. x
    BY <1>3, <1>4
  <2>3. <<0 .. x, u>> \in R
    BY <1>3, <2>2 DEF StrictSubsetOrdering
  <2> QED
    BY <1>2, <2>1, <2>3
<1>5. \A x \in S : m <= x
  BY <1>4
<1> QED
  BY <1>5

LEMMA SameSteps ==
  ASSUME NEW m \in Nat, NEW f, NEW g,
         DOMAIN f = 0 .. m, DOMAIN g = 0 .. m, f = [i \in 0 .. m |-> f[i]], g = [i \in 0 .. m |-> g[i]],
         f[0] = g[0],
         \A i \in 1 .. m : f[i - 1] = g[i - 1] => f[i] = g[i]
  PROVE  f = g
<1> DEFINE Differ == { i \in 0 .. m : f[i] # g[i] }
<1>1. CASE Differ = {}
  <2>1. \A i \in 0 .. m : f[i] = g[i]
    BY <1>1
  <2> QED
    BY <2>1
<1>2. CASE Differ # {}
  <2>1. Differ \in SUBSET Nat
    OBVIOUS
  <2>2. PICK i \in Differ : \A k \in Differ : i <= k
    <3> HIDE DEF Differ
    <3> QED
      BY <1>2, <2>1, MinOfNat
  <2>3. i \in 1 .. m /\ i - 1 \in 0 .. m /\ i - 1 \notin Differ
    BY <2>2
  <2> QED
    BY <2>2, <2>3
<1> QED
  BY <1>1, <1>2

\* Where the data of fragment k of n end, when there are L bytes.
End(k, n, L) == (k * L) \div n

LEMMA DivBounds ==
  ASSUME NEW x \in Nat, NEW n \in Nat \ {0}
  PROVE  /\ x \div n \in Nat
         /\ (x \div n) * n <= x /\ x < (x \div n) * n + n
OBVIOUS

LEMMA DivMono ==
  ASSUME NEW x \in Nat, NEW y \in Nat, NEW n \in Nat \ {0}, x <= y
  PROVE  x \div n <= y \div n
<1> DEFINE p == x \div n
           q == y \div n
<1>1. p \in Nat /\ q \in Nat /\ p * n <= x /\ y < q * n + n
  BY DivBounds
<1> HIDE DEF p, q
<1>2. ASSUME q + 1 <= p
      PROVE  FALSE
  <2>1. (q + 1) * n <= p * n /\ (q + 1) * n = q * n + n
    BY <1>1, <1>2
  <2> QED
    BY <1>1, <2>1
<1> QED
  BY <1>1, <1>2 DEF p, q

LEMMA MulNat ==
  ASSUME NEW a \in Nat, NEW b \in Nat
  PROVE  a * b \in Nat
OBVIOUS

LEMMA MulMono ==
  ASSUME NEW a \in Nat, NEW b \in Nat, NEW n \in Nat, a <= b
  PROVE  a * n <= b * n
OBVIOUS

LEMMA DivExact ==
  ASSUME NEW t \in Nat, NEW n \in Nat \ {0}
  PROVE  (n * t) \div n = t /\ 0 \div n = 0
OBVIOUS

\* The parts follow each other, and the last one is not empty.
LEMMA Ends ==
  ASSUME NEW n \in Nat \ {0}, NEW L \in Nat, n <= L
  PROVE  /\ \A k \in 0 .. n : End(k, n, L) \in 0 .. L
         /\ \A j, k \in 0 .. n : j <= k => End(j, n, L) <= End(k, n, L)
         /\ End(0, n, L) = 0 /\ End(n, n, L) = L
         /\ \A k \in 0 .. n - 1 : End(k, n, L) < L
<1>1. ASSUME NEW j \in 0 .. n, NEW k \in 0 .. n, j <= k
      PROVE  End(j, n, L) <= End(k, n, L) /\ End(k, n, L) \in Nat
  <2>1. j * L \in Nat /\ k * L \in Nat /\ j * L <= k * L
    BY <1>1, MulNat, MulMono
  <2> QED
    BY <2>1, DivMono, DivBounds DEF End
<1>2. End(0, n, L) = 0 /\ End(n, n, L) = L
  <2>1. 0 * L = 0
    OBVIOUS
  <2> QED
    BY <2>1, DivExact DEF End
<1>3. End(n - 1, n, L) < L
  <2> DEFINE x == (n - 1) * L
             q == x \div n
  <2>1. x \in Nat /\ q \in Nat /\ q * n <= x
    BY MulNat, DivBounds
  <2>2. x = n * L - L /\ n * L \in Nat /\ L * n = n * L
    BY MulNat
  <2> HIDE DEF x, q
  <2>3. q * n <= L * n - L
    BY <2>1, <2>2
  <2>4. ASSUME L <= q
        PROVE  FALSE
    <3>1. L * n <= q * n
      BY <2>1, <2>4, MulMono
    <3>2. L * n \in Nat /\ q * n \in Nat /\ L > 0
      BY <2>1, MulNat
    <3> QED
      BY <2>3, <3>1, <3>2
  <2> QED
    BY <2>1, <2>4 DEF End, x, q
<1>4. ASSUME NEW k \in 0 .. n - 1
      PROVE  End(k, n, L) < L
  <2>1. k \in 0 .. n /\ n - 1 \in 0 .. n /\ k <= n - 1
    OBVIOUS
  <2>2. End(k, n, L) <= End(n - 1, n, L) /\ End(n - 1, n, L) \in Nat /\ End(k, n, L) \in Nat
    BY <1>1, <2>1
  <2> QED
    BY <1>3, <2>2
<1>5. \A k \in 0 .. n : End(k, n, L) <= L /\ End(k, n, L) \in Nat
  <2>1. n \in 0 .. n
    OBVIOUS
  <2> QED
    BY <1>1, <1>2, <2>1
<1> QED
  BY <1>1, <1>2, <1>4, <1>5

-----------------------------------------------------------------------------
(* Bytes.                                                                  *)

CodecOK == Codec \in {"H264", "H265"}

\* The bytes of a unit's header, and those in front of a fragment's data.
HeaderLen == IF Codec = "H265" THEN 2 ELSE 1
Skipped == IF Codec = "H264" THEN 2 ELSE 3

LEMMA DataShape ==
  ASSUME NEW u \in Nat, NEW a \in Int, NEW b \in Int, a <= b + 1
  PROVE  /\ Data(u, a, b) \in Seq(Byte) /\ Len(Data(u, a, b)) = b - a + 1
         /\ \A i \in 1 .. b - a + 1 : Data(u, a, b)[i] = Datum(u, a + i - 1)
<1> DEFINE n == b - a + 1
<1>1. n \in Nat
  OBVIOUS
<1>2. \A i \in 1 .. n : Datum(u, a + i - 1) \in Byte
  BY <1>1 DEF Datum, Byte
<1>3. Data(u, a, b) = [i \in 1 .. n |-> Datum(u, a + i - 1)]
  BY DEF Data
<1> HIDE DEF n
<1>4. Data(u, a, b) \in [1 .. n -> Byte]
  BY <1>2, <1>3
<1>5. Data(u, a, b) \in Seq(Byte) /\ Len(Data(u, a, b)) = n
  BY <1>1, <1>4
<1> QED
  BY <1>3, <1>5 DEF n

LEMMA BytesShape ==
  ASSUME NEW name \in {"start", "tid", "rtp", "pad"}, NEW n \in Nat
  PROVE  /\ Bytes(name, n) \in Seq(Byte) /\ Len(Bytes(name, n)) = n
         /\ \A i \in 1 .. n : Bytes(name, n)[i] = [byte |-> name, n |-> n]
<1>1. [byte |-> name, n |-> n] \in Byte
  BY DEF Byte
<1>2. Bytes(name, n) \in [1 .. n -> Byte]
  BY <1>1 DEF Bytes
<1> QED
  BY <1>1, <1>2 DEF Bytes

LEMMA Joined ==
  ASSUME NEW s \in Seq(Byte), NEW t \in Seq(Byte)
  PROVE  s \o t \in Seq(Byte) /\ Len(s \o t) = Len(s) + Len(t)
BY ConcatProperties

LEMMA StartCodeShape ==
  StartCode \in Seq(Byte) /\ Len(StartCode) = 4
BY BytesShape DEF StartCode

LEMMA HeaderShape ==
  ASSUME CodecOK, NEW layer \in Nat, NEW type \in Nat
  PROVE  /\ UnitHeader(layer, type) \in Seq(Byte) /\ Len(UnitHeader(layer, type)) = HeaderLen
         /\ UnitHeader(layer, type)[1] = Hdr(layer, type)
<1> DEFINE h == <<Hdr(layer, type)>>
           t == IF Codec = "H265" THEN Bytes("tid", 1) ELSE <<>>
<1>1. Hdr(layer, type) \in Byte
  BY DEF Hdr, Byte
<1>2. h \in Seq(Byte) /\ Len(h) = 1 /\ h[1] = Hdr(layer, type)
  BY <1>1
<1>3. t \in Seq(Byte) /\ Len(t) = HeaderLen - 1
  <2>1. CASE Codec = "H265"
    <3>1. t = Bytes("tid", 1) /\ HeaderLen = 2
      BY <2>1 DEF HeaderLen
    <3>2. Bytes("tid", 1) \in Seq(Byte) /\ Len(Bytes("tid", 1)) = 1
      BY BytesShape
    <3> HIDE DEF t
    <3>3. HeaderLen - 1 = 1
      BY <3>1
    <3> QED
      BY <3>1, <3>2, <3>3
  <2>2. CASE Codec # "H265"
    <3>1. t = <<>> /\ HeaderLen = 1
      BY <2>2 DEF HeaderLen
    <3>2. <<>> \in Seq(Byte) /\ Len(<<>>) = 0
      BY EmptySeq
    <3> HIDE DEF t
    <3>4. Len(t) = 0 /\ HeaderLen - 1 = 0
      BY <3>1, <3>2
    <3> QED
      BY <3>1, <3>2, <3>4
  <2> QED
    BY <2>1, <2>2
<1>4. UnitHeader(layer, type) = h \o t
  BY DEF UnitHeader
<1> HIDE DEF h, t
<1>6. HeaderLen \in 1 .. 2
  BY DEF HeaderLen
<1> HIDE DEF HeaderLen
<1>5. (h \o t)[1] = h[1]
  BY <1>2, <1>3, <1>6, ConcatProperties
<1>7. h \o t \in Seq(Byte) /\ Len(h \o t) = Len(h) + Len(t)
  BY <1>2, <1>3, ConcatProperties
<1> QED
  BY <1>2, <1>3, <1>4, <1>5, <1>6, <1>7

\* Two pieces of a unit's data that follow each other.
LEMMA DataJoin ==
  ASSUME NEW u \in Nat, NEW a \in Int, NEW b \in Int, NEW c \in Int, a <= b + 1, b <= c
  PROVE  Data(u, a, b) \o Data(u, b + 1, c) = Data(u, a, c)
<1> DEFINE s == Data(u, a, b)
           t == Data(u, b + 1, c)
           r == Data(u, a, c)
<1>1. /\ s \in Seq(Byte) /\ Len(s) = b - a + 1
      /\ \A i \in 1 .. b - a + 1 : s[i] = Datum(u, a + i - 1)
  BY DataShape
<1>2. /\ t \in Seq(Byte) /\ Len(t) = c - b
      /\ \A i \in 1 .. c - b : t[i] = Datum(u, b + i)
  <2>1. b + 1 \in Int /\ b + 1 <= c + 1 /\ c - (b + 1) + 1 = c - b /\ \A i \in Int : b + 1 + i - 1 = b + i
    OBVIOUS
  <2>2. /\ t \in Seq(Byte) /\ Len(t) = c - (b + 1) + 1
        /\ \A i \in 1 .. c - (b + 1) + 1 : t[i] = Datum(u, b + 1 + i - 1)
    BY <2>1, DataShape
  <2> HIDE DEF t
  <2> QED
    BY <2>1, <2>2
<1>3. /\ r \in Seq(Byte) /\ Len(r) = c - a + 1
      /\ \A i \in 1 .. c - a + 1 : r[i] = Datum(u, a + i - 1)
  <2>1. a <= c + 1
    OBVIOUS
  <2> QED
    BY <2>1, DataShape
<1> HIDE DEF s, t, r
<1>4. s \o t \in Seq(Byte) /\ Len(s \o t) = c - a + 1
  BY <1>1, <1>2, ConcatProperties
<1>5. ASSUME NEW i \in 1 .. c - a + 1
      PROVE  (s \o t)[i] = r[i]
  <2>1. (s \o t)[i] = IF i <= b - a + 1 THEN s[i] ELSE t[i - (b - a + 1)]
    BY <1>1, <1>2, ConcatProperties
  <2>2. CASE i <= b - a + 1
    BY <1>1, <1>3, <2>1, <2>2
  <2>3. CASE ~(i <= b - a + 1)
    <3>1. i - (b - a + 1) \in 1 .. c - b /\ b + (i - (b - a + 1)) = a + i - 1
      BY <2>3
    <3> QED
      BY <1>2, <1>3, <2>1, <2>3, <3>1
  <2> QED
    BY <2>2, <2>3
<1> QED
  BY <1>3, <1>4, <1>5, SeqEqual DEF s, t, r

LEMMA JoinOrder ==
  \A s, t, r \in Seq(Byte) : (s \o t) \o r = s \o (t \o r)
BY ConcatAssociative

LEMMA Slice ==
  ASSUME NEW s \in Seq(Byte), NEW m \in Nat \ {0}, NEW n \in Nat, m <= n + 1, n <= Len(s)
  PROVE  /\ SubSeq(s, m, n) \in Seq(Byte) /\ Len(SubSeq(s, m, n)) = n - m + 1
         /\ \A i \in 1 .. n - m + 1 : SubSeq(s, m, n)[i] = s[m + i - 1]
<1>1. \A i \in m .. n : s[i] \in Byte
  BY ElementOfSeq, LenProperties
<1>2. m \in Int /\ n \in Int /\ (IF m <= n THEN n - m + 1 ELSE 0) = n - m + 1
  OBVIOUS
<1> QED
  BY <1>1, <1>2, SubSeqProperties

\* What is behind the first bytes.
LEMMA Behind ==
  ASSUME NEW s \in Seq(Byte), NEW t \in Seq(Byte)
  PROVE  SubSeq(s \o t, Len(s) + 1, Len(s \o t)) = t
<1> DEFINE m == Len(s) + 1
           n == Len(s) + Len(t)
           r == SubSeq(s \o t, m, n)
<1>1. /\ Len(s) \in Nat /\ Len(t) \in Nat /\ Len(s \o t) = n
      /\ \A i \in 1 .. n : (s \o t)[i] = IF i <= Len(s) THEN s[i] ELSE t[i - Len(s)]
  BY LenProperties, ConcatProperties
<1>2. \A i \in m .. n : (s \o t)[i] = t[i - Len(s)] /\ i - Len(s) \in 1 .. Len(t)
  BY <1>1
<1>4. /\ r \in Seq(Byte) /\ Len(r) = Len(t)
      /\ \A i \in 1 .. Len(t) : r[i] = (s \o t)[m + i - 1]
  <2>1. /\ m \in Nat \ {0} /\ n \in Nat /\ n - m + 1 = Len(t) /\ m <= n + 1
        /\ n <= Len(s \o t) /\ s \o t \in Seq(Byte)
    BY <1>1, ConcatProperties
  <2> HIDE DEF m, n
  <2> QED
    BY <2>1, Slice
<1>5. \A i \in 1 .. Len(t) : r[i] = t[i]
  <2> SUFFICES ASSUME NEW i \in 1 .. Len(t)
               PROVE  r[i] = t[i]
    OBVIOUS
  <2>1. m + i - 1 \in m .. n /\ m + i - 1 - Len(s) = i
    BY <1>1
  <2> QED
    BY <1>2, <1>4, <2>1
<1>6. r = t
  BY <1>4, <1>5, SeqEqual
<1> QED
  BY <1>1, <1>6

\* And what is between the first bytes and the last.
LEMMA Between ==
  ASSUME NEW s \in Seq(Byte), NEW t \in Seq(Byte), NEW e \in Seq(Byte)
  PROVE  SubSeq((s \o t) \o e, Len(s) + 1, Len((s \o t) \o e) - Len(e)) = t
<1> DEFINE w == s \o t
           m == Len(s) + 1
           n == Len(s) + Len(t)
           r == SubSeq(w \o e, m, n)
<1>1. /\ Len(s) \in Nat /\ Len(t) \in Nat /\ Len(e) \in Nat /\ w \in Seq(Byte) /\ Len(w) = n
      /\ \A i \in 1 .. n : w[i] = IF i <= Len(s) THEN s[i] ELSE t[i - Len(s)]
  BY LenProperties, ConcatProperties
<1>2. /\ Len(w \o e) = n + Len(e)
      /\ \A i \in 1 .. n : (w \o e)[i] = w[i]
  BY <1>1, ConcatProperties
<1>3. \A i \in m .. n : (w \o e)[i] = t[i - Len(s)] /\ i - Len(s) \in 1 .. Len(t)
  BY <1>1, <1>2
<1>5. /\ r \in Seq(Byte) /\ Len(r) = Len(t)
      /\ \A i \in 1 .. Len(t) : r[i] = (w \o e)[m + i - 1]
  <2>1. /\ m \in Nat \ {0} /\ n \in Nat /\ n - m + 1 = Len(t) /\ m <= n + 1
        /\ n <= Len(w \o e) /\ w \o e \in Seq(Byte)
    BY <1>1, <1>2, ConcatProperties
  <2> HIDE DEF m, n, w
  <2>2. r \in Seq(Byte) /\ Len(r) = n - m + 1 /\ \A i \in 1 .. n - m + 1 : r[i] = (w \o e)[m + i - 1]
    BY <2>1, Slice, Zenon
  <2> HIDE DEF r
  <2> QED
    BY <2>1, <2>2
<1>6. \A i \in 1 .. Len(t) : r[i] = t[i]
  <2> SUFFICES ASSUME NEW i \in 1 .. Len(t)
               PROVE  r[i] = t[i]
    OBVIOUS
  <2>1. m + i - 1 \in m .. n /\ m + i - 1 - Len(s) = i
    BY <1>1
  <2> QED
    BY <1>3, <1>5, <2>1
<1>7. r = t
  BY <1>5, <1>6, SeqEqual
<1>8. Len(w \o e) - Len(e) = n
  BY <1>1, <1>2
<1> HIDE DEF n
<1> QED
  BY <1>7, <1>8

-----------------------------------------------------------------------------
(* The packets of a unit.                                                  *)

BytesOf(unit, u) ==
  IF unit.media = "audio" THEN Data(u, 1, unit.length)
  ELSE UnitHeader(unit.layer, unit.type) \o Data(u, 1, unit.length)

\* A way to send unit u: in n packets, with these headers and this padding.
Way == [unit : Unit, u : Nat, n : Nat \ {0}, head : Heads, pad : Pads, all : BOOLEAN]

IsWay(w) ==
  /\ w \in Way
  /\ w.n <= w.unit.length
  /\ w.unit.media = "audio" => w.n = 1

PartOf(w, k) ==
  IF w.n = 1 THEN BytesOf(w.unit, w.u) ELSE Fragment(w.unit, w.u, k, w.n)

PadOf(w, k) == IF w.all \/ k = w.n THEN w.pad ELSE 0

PacketAt(w, k) == Packet(w.head, PartOf(w, k), PadOf(w, k))

PacketsOf(w, from, to) == [i \in 1 .. to - from + 1 |-> PacketAt(w, from + i - 1)]

\* Where the data of packet k end.
Until(w, k) == End(k, w.n, w.unit.length)

FragmentHead(unit) ==
  UnitHeader(unit.layer, FuType) \o <<[byte |-> "fu", type |-> unit.type]>>

HeadLen(head) == FixedHeader + 4 * head.csrc + (IF head.ext >= 0 THEN 4 + 4 * head.ext ELSE 0)

PacketRecord == [csrc : Nat, ext : Int, padding : BOOLEAN, bytes : Seq(Byte)]

LEMMA WayFacts ==
  ASSUME NEW w, IsWay(w)
  PROVE  /\ w.unit \in Unit /\ w.unit.layer \in Nat /\ w.unit.type \in Nat
         /\ w.unit.length \in Nat /\ w.unit.length > 0 /\ w.n <= w.unit.length
         /\ w.u \in Nat /\ w.n \in Nat \ {0} /\ w.head.csrc \in Nat /\ w.head.ext \in Int
         /\ w.pad \in Nat /\ w.all \in BOOLEAN
<1>1. w \in Way
  BY DEF IsWay
<1>2. w.unit \in Unit /\ w.head \in Heads /\ w.pad \in Pads
  BY <1>1 DEF Way
<1>3. w.head \in [csrc : Nat, ext : Int] /\ w.pad \in Nat /\ w.unit.length \in Nat \ {0}
  BY <1>2, AssemblyAssumption DEF Unit
<1> QED
  BY <1>1, <1>2, <1>3 DEF Way, Unit, IsWay

LEMMA UntilFacts ==
  ASSUME NEW w, IsWay(w)
  PROVE  /\ \A k \in 0 .. w.n : Until(w, k) \in 0 .. w.unit.length
         /\ \A j, k \in 0 .. w.n : j <= k => Until(w, j) <= Until(w, k)
         /\ Until(w, 0) = 0 /\ Until(w, w.n) = w.unit.length
         /\ \A k \in 0 .. w.n - 1 : Until(w, k) < w.unit.length
BY WayFacts, Ends DEF Until

\* A unit as a whole, and audio.
LEMMA WholeShape ==
  ASSUME CodecOK, NEW unit \in Unit, NEW u \in Nat
  PROVE  /\ BytesOf(unit, u) \in Seq(Byte) /\ Len(BytesOf(unit, u)) > 0
         /\ unit.media = "video" => BytesOf(unit, u)[1] = Hdr(unit.layer, unit.type)
<1> DEFINE h == UnitHeader(unit.layer, unit.type)
           d == Data(u, 1, unit.length)
<1>1. /\ unit.layer \in Nat /\ unit.type \in Nat /\ unit.length \in Nat /\ unit.length > 0
      /\ unit.media \in {"video", "audio"}
  <2>1. /\ unit.layer \in Nat /\ unit.type \in Nat /\ unit.length \in Lengths
        /\ unit.media \in {"video", "audio"}
    BY DEF Unit
  <2>2. unit.length \in Nat \ {0}
    BY <2>1, AssemblyAssumption
  <2> QED
    BY <2>1, <2>2
<1>2. d \in Seq(Byte) /\ Len(d) = unit.length
  <2>1. 1 \in Int /\ unit.length \in Int /\ 1 <= unit.length + 1 /\ unit.length - 1 + 1 = unit.length
    BY <1>1
  <2> QED
    BY <2>1, DataShape
<1>3. h \in Seq(Byte) /\ Len(h) = HeaderLen /\ h[1] = Hdr(unit.layer, unit.type)
  BY <1>1, HeaderShape
<1>4. HeaderLen \in 1 .. 2
  BY DEF HeaderLen
<1> HIDE DEF h, d
<1>5. h \o d \in Seq(Byte) /\ Len(h \o d) = Len(h) + Len(d) /\ (h \o d)[1] = h[1]
  BY <1>1, <1>2, <1>3, <1>4, ConcatProperties
<1>6. CASE unit.media = "audio"
  BY <1>1, <1>2, <1>6 DEF BytesOf, d
<1>7. CASE unit.media # "audio"
  <2>1. BytesOf(unit, u) = h \o d
    BY <1>7 DEF BytesOf, h, d
  <2> QED
    BY <1>1, <1>2, <1>3, <1>4, <1>5, <2>1
<1> QED
  BY <1>6, <1>7

LEMMA FragmentHeadShape ==
  ASSUME CodecOK, NEW unit \in Unit
  PROVE  /\ FragmentHead(unit) \in Seq(Byte) /\ Len(FragmentHead(unit)) = Skipped
         /\ FragmentHead(unit)[1] = Hdr(unit.layer, FuType)
         /\ FragmentHead(unit)[Skipped].type = unit.type
<1> DEFINE h == UnitHeader(unit.layer, FuType)
           fu == [byte |-> "fu", type |-> unit.type]
<1>1. unit.layer \in Nat /\ FuType \in Nat /\ unit.type \in Nat
  BY DEF Unit, FuType
<1>2. /\ h \in Seq(Byte) /\ Len(h) = HeaderLen /\ h[1] = Hdr(unit.layer, FuType)
  BY <1>1, HeaderShape
<1>3. fu \in Byte
  BY <1>1 DEF Byte
<1>4. HeaderLen \in 1 .. 2 /\ Skipped = HeaderLen + 1
  BY DEF HeaderLen, Skipped, CodecOK
<1>5. FragmentHead(unit) = h \o <<fu>>
  BY DEF FragmentHead
<1>6. fu.type = unit.type
  OBVIOUS
<1> HIDE DEF h, fu
<1>7. <<fu>> \in Seq(Byte) /\ Len(<<fu>>) = 1 /\ <<fu>>[1] = fu
  BY <1>3
<1>8. h \o <<fu>> \in Seq(Byte) /\ Len(h \o <<fu>>) = Len(h) + 1
  BY <1>2, <1>7, ConcatProperties
<1>9. \A i \in 1 .. Len(h) + 1 : (h \o <<fu>>)[i] = IF i <= Len(h) THEN h[i] ELSE <<fu>>[i - Len(h)]
  BY <1>2, <1>7, ConcatProperties
<1>10. (h \o <<fu>>)[1] = h[1] /\ (h \o <<fu>>)[HeaderLen + 1] = fu
  <2>1. 1 \in 1 .. Len(h) + 1 /\ 1 <= Len(h) /\ HeaderLen + 1 \in 1 .. Len(h) + 1
        /\ ~(HeaderLen + 1 <= Len(h)) /\ HeaderLen + 1 - Len(h) = 1
    BY <1>2, <1>4
  <2> QED
    BY <1>7, <1>9, <2>1
<1> QED
  BY <1>2, <1>4, <1>5, <1>6, <1>8, <1>10

LEMMA FragmentShape ==
  ASSUME CodecOK, NEW w, IsWay(w), NEW k \in 1 .. w.n
  PROVE  LET f == Fragment(w.unit, w.u, k, w.n)
             d == Data(w.u, Until(w, k - 1) + 1, Until(w, k))
         IN  /\ f = FragmentHead(w.unit) \o d
             /\ f \in Seq(Byte) /\ d \in Seq(Byte)
             /\ Len(d) = Until(w, k) - Until(w, k - 1)
             /\ Len(f) = Skipped + Len(d)
             /\ f[1] = Hdr(w.unit.layer, FuType) /\ f[Skipped].type = w.unit.type
             /\ SubSeq(f, Skipped + 1, Len(f)) = d
<1> DEFINE f == Fragment(w.unit, w.u, k, w.n)
           h == FragmentHead(w.unit)
           d == Data(w.u, Until(w, k - 1) + 1, Until(w, k))
<1>1. f = h \o d
  BY DEF Fragment, FragmentHead, Until, End
<1>2. d \in Seq(Byte) /\ Len(d) = Until(w, k) - Until(w, k - 1)
      /\ Until(w, k) - Until(w, k - 1) \in Nat
  <2> DEFINE a == Until(w, k - 1)
             b == Until(w, k)
  <2>1. a \in Nat /\ b \in Nat /\ a <= b
    <3>1. k \in 0 .. w.n /\ k - 1 \in 0 .. w.n /\ k - 1 <= k
      BY WayFacts
    <3> QED
      BY <3>1, UntilFacts
  <2>2. w.u \in Nat
    BY WayFacts
  <2> HIDE DEF a, b
  <2>3. a + 1 \in Int /\ b \in Int /\ a + 1 <= b + 1 /\ b - (a + 1) + 1 = b - a /\ b - a \in Nat
    BY <2>1
  <2>4. Data(w.u, a + 1, b) \in Seq(Byte) /\ Len(Data(w.u, a + 1, b)) = b - (a + 1) + 1
    BY <2>2, <2>3, DataShape
  <2> QED
    BY <2>3, <2>4 DEF a, b
<1>3. /\ h \in Seq(Byte) /\ Len(h) = Skipped
      /\ h[1] = Hdr(w.unit.layer, FuType) /\ h[Skipped].type = w.unit.type
  BY WayFacts, FragmentHeadShape
<1>4. Skipped \in 2 .. 3
  BY DEF Skipped
<1> HIDE DEF f, h, d
<1>5. /\ f \in Seq(Byte) /\ Len(f) = Len(h) + Len(d)
      /\ \A i \in 1 .. Len(h) + Len(d) : f[i] = IF i <= Len(h) THEN h[i] ELSE d[i - Len(h)]
  BY <1>1, <1>2, <1>3, ConcatProperties
<1>6. f[1] = h[1] /\ f[Skipped] = h[Skipped]
  BY <1>2, <1>3, <1>4, <1>5
<1>7. SubSeq(f, Skipped + 1, Len(f)) = d
  BY <1>1, <1>2, <1>3, Behind
<1> QED
  BY <1>1, <1>2, <1>3, <1>5, <1>6, <1>7 DEF f, h, d

LEMMA PartShape ==
  ASSUME CodecOK, NEW w, IsWay(w), NEW k \in 1 .. w.n
  PROVE  PartOf(w, k) \in Seq(Byte) /\ Len(PartOf(w, k)) > 0
<1>1. CASE w.n = 1
  BY <1>1, WayFacts, WholeShape DEF PartOf
<1>2. CASE w.n # 1
  <2> DEFINE f == Fragment(w.unit, w.u, k, w.n)
             d == Data(w.u, Until(w, k - 1) + 1, Until(w, k))
  <2>1. f \in Seq(Byte) /\ d \in Seq(Byte) /\ Len(f) = Skipped + Len(d)
    BY FragmentShape
  <2>2. PartOf(w, k) = f
    BY <1>2 DEF PartOf
  <2>3. Skipped \in 2 .. 3
    BY DEF Skipped
  <2> HIDE DEF f, d
  <2>4. Len(d) \in Nat
    BY <2>1, LenProperties
  <2> QED
    BY <2>1, <2>2, <2>3, <2>4
<1> QED
  BY <1>1, <1>2

LEMMA HeadLenNat ==
  ASSUME NEW csrc \in Nat, NEW ext \in Int
  PROVE  FixedHeader + 4 * csrc + (IF ext >= 0 THEN 4 + 4 * ext ELSE 0) \in Nat
BY DEF FixedHeader

LEMMA PadNat ==
  ASSUME NEW w, IsWay(w), NEW k
  PROVE  PadOf(w, k) \in Nat
BY WayFacts DEF PadOf

LEMMA PacketShape ==
  ASSUME CodecOK, NEW w, IsWay(w), NEW k \in 1 .. w.n
  PROVE  /\ PacketAt(w, k) \in PacketRecord
         /\ PacketAt(w, k).csrc = w.head.csrc /\ PacketAt(w, k).ext = w.head.ext
         /\ PacketAt(w, k).padding = (PadOf(w, k) > 0)
         /\ PadOf(w, k) > 0 => Last(PacketAt(w, k).bytes).n = PadOf(w, k)
         /\ \A parser : parser.head = HeadLen(w.head) /\ parser.tail = PadOf(w, k)
                          => Payload(parser, PacketAt(w, k)) = PartOf(w, k)
<1> DEFINE p == PacketAt(w, k)
           n == HeadLen(w.head)
           h == Bytes("rtp", n)
           t == PartOf(w, k)
           z == PadOf(w, k)
           e == Bytes("pad", z)
<1>1. n \in Nat /\ z \in Nat
  <2>1. w.head.csrc \in Nat /\ w.head.ext \in Int
    BY WayFacts
  <2> QED
    BY <2>1, HeadLenNat, PadNat DEF HeadLen
<1>2. p = [csrc |-> w.head.csrc, ext |-> w.head.ext, padding |-> z > 0, bytes |-> (h \o t) \o e]
  BY DEF PacketAt, Packet, HeadLen
<1> HIDE DEF n, z
<1>3. h \in Seq(Byte) /\ Len(h) = n
  BY <1>1, BytesShape
<1>4. e \in Seq(Byte) /\ Len(e) = z /\ \A i \in 1 .. z : e[i] = [byte |-> "pad", n |-> z]
  BY <1>1, BytesShape
<1>5. t \in Seq(Byte) /\ Len(t) \in Nat
  BY PartShape, LenProperties
<1> HIDE DEF h, t, e, p
<1>6. h \o t \in Seq(Byte) /\ Len(h \o t) \in Nat
  BY <1>3, <1>5, ConcatProperties, LenProperties
<1>7. /\ (h \o t) \o e \in Seq(Byte) /\ Len((h \o t) \o e) = Len(h \o t) + z
      /\ \A i \in 1 .. Len(h \o t) + z :
           ((h \o t) \o e)[i] = IF i <= Len(h \o t) THEN (h \o t)[i] ELSE e[i - Len(h \o t)]
  BY <1>4, <1>6, ConcatProperties
<1>8. p \in PacketRecord
  <2>1. w.head.csrc \in Nat /\ w.head.ext \in Int /\ (z > 0) \in BOOLEAN
    BY WayFacts
  <2> QED
    BY <1>2, <1>7, <2>1 DEF PacketRecord
<1>9. z > 0 => Last(p.bytes).n = z
  <2> SUFFICES ASSUME z > 0
               PROVE  Last(p.bytes).n = z
    OBVIOUS
  <2>1. Last(p.bytes) = ((h \o t) \o e)[Len(h \o t) + z]
    BY <1>2, <1>7 DEF Last
  <2>2. Len(h \o t) + z \in 1 .. Len(h \o t) + z /\ ~(Len(h \o t) + z <= Len(h \o t))
        /\ Len(h \o t) + z - Len(h \o t) = z /\ z \in 1 .. z
    BY <1>1, <1>6
  <2>3. Last(p.bytes) = [byte |-> "pad", n |-> z]
    BY <1>4, <1>7, <2>1, <2>2
  <2> QED
    BY <2>3
<1>10. ASSUME NEW parser, parser.head = n, parser.tail = z
       PROVE  Payload(parser, p) = t
  <2>1. Payload(parser, p) = SubSeq((h \o t) \o e, n + 1, Len((h \o t) \o e) - z)
    BY <1>2, <1>10 DEF Payload
  <2>2. SubSeq((h \o t) \o e, Len(h) + 1, Len((h \o t) \o e) - Len(e)) = t
    BY <1>3, <1>4, <1>5, Between
  <2> QED
    BY <1>3, <1>4, <2>1, <2>2
<1>11. p.csrc = w.head.csrc /\ p.ext = w.head.ext /\ p.padding = (z > 0)
  BY <1>2, Zenon
<1> QED
  BY <1>8, <1>9, <1>10, <1>11, Zenon DEF p, n, t, z

\* A run of a unit's packets.
LEMMA PacketsShape ==
  ASSUME CodecOK, NEW w, IsWay(w), NEW a \in 1 .. w.n + 1, NEW b \in 0 .. w.n, a <= b + 1
  PROVE  /\ PacketsOf(w, a, b) \in Seq(PacketRecord) /\ Len(PacketsOf(w, a, b)) = b - a + 1
         /\ \A i \in 1 .. b - a + 1 : PacketsOf(w, a, b)[i] = PacketAt(w, a + i - 1)
<1> DEFINE n == b - a + 1
<1>1. n \in Nat
  BY WayFacts
<1>2. ASSUME NEW i \in 1 .. n
      PROVE  PacketAt(w, a + i - 1) \in PacketRecord
  <2>1. a + i - 1 \in 1 .. w.n
    BY WayFacts
  <2> QED
    BY <2>1, PacketShape
<1>3. PacketsOf(w, a, b) = [i \in 1 .. n |-> PacketAt(w, a + i - 1)]
  BY DEF PacketsOf
<1> HIDE DEF n
<1>4. PacketsOf(w, a, b) \in [1 .. n -> PacketRecord]
  BY <1>2, <1>3
<1>5. PacketsOf(w, a, b) \in Seq(PacketRecord) /\ Len(PacketsOf(w, a, b)) = n
  BY <1>1, <1>4
<1> QED
  BY <1>3, <1>5 DEF n

\* The parser that has seen all packets up to one knows that packet.
LEMMA ParsersShape ==
  ASSUME CodecOK, NEW w, IsWay(w), NEW a \in 1 .. w.n
  PROVE  LET packets == PacketsOf(w, a, w.n)
         IN  /\ Len(packets) = w.n - a + 1
             /\ \A i \in 1 .. w.n - a + 1 :
                  /\ Parsers(packets)[i].head = HeadLen(w.head)
                  /\ Parsers(packets)[i].tail = PadOf(w, a + i - 1)
                  /\ Payload(Parsers(packets)[i], packets[i]) = PartOf(w, a + i - 1)
<1> DEFINE packets == PacketsOf(w, a, w.n)
           m == w.n - a + 1
           Step(f) == [i \in 0 .. Len(packets) |->
                         IF i = 0 THEN NewParser ELSE ParsePacket(f[i - 1], packets[i])]
           g == [i \in 0 .. m |->
                   IF i = 0 THEN NewParser ELSE [head |-> HeadLen(w.head), tail |-> PadOf(w, a + i - 1)]]
           p == CHOOSE f : f = Step(f)
<1>1. w.n \in Nat \ {0} /\ a \in 1 .. w.n + 1 /\ w.n \in 0 .. w.n /\ a <= w.n + 1 /\ m \in Nat
  BY WayFacts
<1>2. /\ Len(packets) = m /\ \A i \in 1 .. m : packets[i] = PacketAt(w, a + i - 1)
  BY <1>1, PacketsShape
<1>3. \A i \in 1 .. m : a + i - 1 \in 1 .. w.n
  BY <1>1
<1> HIDE DEF m, packets
<1>4. ASSUME NEW i \in 1 .. m
      PROVE  g[i] = ParsePacket(g[i - 1], packets[i])
  <2> DEFINE k == a + i - 1
             q == PacketAt(w, k)
  <2>1. /\ q.csrc = w.head.csrc /\ q.ext = w.head.ext /\ q.padding = (PadOf(w, k) > 0)
        /\ PadOf(w, k) > 0 => Last(q.bytes).n = PadOf(w, k)
    BY <1>3, PacketShape
  <2>2. packets[i] = q /\ PadOf(w, k) \in Nat
    BY <1>2, PadNat
  <2>3. PadOf(w, k) = 0 => g[i - 1].tail = 0
    <3> SUFFICES ASSUME PadOf(w, k) = 0
                 PROVE  g[i - 1].tail = 0
      OBVIOUS
    <3>1. CASE i = 1
      BY <1>1, <3>1 DEF NewParser
    <3>2. CASE i # 1
      <4>1. i - 1 \in 1 .. m /\ i - 1 \in 0 .. m /\ i - 1 # 0
        BY <1>1, <3>2
      <4>2. g[i - 1].tail = PadOf(w, a + (i - 1) - 1)
        BY <4>1
      <4>3. a + (i - 1) - 1 # w.n
        BY <1>1, <1>3
      <4> QED
        BY <4>2, <4>3 DEF PadOf
    <3> QED
      BY <3>1, <3>2
  <2>4. g[i] = [head |-> HeadLen(w.head), tail |-> PadOf(w, k)]
    BY <1>1
  <2> HIDE DEF q, g, k
  <2>5. ParsePacket(g[i - 1], q) = [head |-> HeadLen(w.head), tail |-> PadOf(w, k)]
    <3>1. ParsePacket(g[i - 1], q) = [head |-> HeadLen(w.head),
                                      tail |-> IF q.padding THEN Last(q.bytes).n ELSE g[i - 1].tail]
      BY <2>1, Zenon DEF ParsePacket, HeadLen
    <3>2. CASE PadOf(w, k) > 0
      <4>1. q.padding /\ Last(q.bytes).n = PadOf(w, k)
        BY <2>1, <3>2, Zenon
      <4> QED
        BY <3>1, <4>1, Zenon
    <3>3. CASE ~(PadOf(w, k) > 0)
      <4>1. PadOf(w, k) = 0
        BY <2>2, <3>3
      <4>2. ~q.padding /\ g[i - 1].tail = PadOf(w, k)
        BY <2>1, <2>3, <3>3, <4>1, Zenon
      <4> QED
        BY <3>1, <4>2, Zenon
    <3> QED
      BY <3>2, <3>3
  <2> QED
    BY <2>2, <2>4, <2>5
<1>5. g = Step(g)
  <2>1. \A i \in 0 .. m : g[i] = IF i = 0 THEN NewParser ELSE ParsePacket(g[i - 1], packets[i])
    <3> SUFFICES ASSUME NEW i \in 0 .. m
                 PROVE  g[i] = IF i = 0 THEN NewParser ELSE ParsePacket(g[i - 1], packets[i])
      OBVIOUS
    <3>1. i # 0 => i \in 1 .. m
      BY <1>1
    <3>2. i = 0 => g[i] = NewParser
      BY <1>1
    <3> HIDE DEF g
    <3> QED
      BY <1>4, <3>1, <3>2
  <2>2. g = [i \in 0 .. m |-> g[i]]
    OBVIOUS
  <2> HIDE DEF g
  <2> QED
    BY <1>2, <2>1, <2>2
<1>6. p = Step(p)
  BY <1>5
<1>7. Parsers(packets) = p
  BY DEF Parsers
<1> HIDE DEF p
<1>8. p = g
  <2>1. DOMAIN g = 0 .. m /\ g = [i \in 0 .. m |-> g[i]] /\ g[0] = NewParser
    BY <1>1
  <2> HIDE DEF g
  <2>2. DOMAIN p = 0 .. m /\ p = [i \in 0 .. m |-> p[i]]
    BY <1>2, <1>6
  <2>3. p[0] = NewParser /\ \A i \in 1 .. m : p[i] = ParsePacket(p[i - 1], packets[i])
    BY <1>1, <1>2, <1>6
  <2>4. \A i \in 1 .. m : p[i - 1] = g[i - 1] => p[i] = g[i]
    BY <1>4, <2>3
  <2> QED
    BY <1>1, <2>1, <2>2, <2>3, <2>4, SameSteps
<1>9. ASSUME NEW i \in 1 .. m
      PROVE  /\ p[i].head = HeadLen(w.head) /\ p[i].tail = PadOf(w, a + i - 1)
             /\ Payload(p[i], packets[i]) = PartOf(w, a + i - 1)
  <2>1. p[i].head = HeadLen(w.head) /\ p[i].tail = PadOf(w, a + i - 1)
    BY <1>1, <1>8
  <2> QED
    BY <1>2, <1>3, <2>1, PacketShape
<1> QED
  BY <1>2, <1>7, <1>9 DEF m, packets

-----------------------------------------------------------------------------
(* What is put together from the fragments.                                *)

LEMMA MulStep ==
  ASSUME NEW i \in Nat \ {0}, NEW s \in Nat
  PROVE  i * s = (i - 1) * s + s /\ 0 * s = 0 /\ (i - 1) * s \in Nat /\ i * s >= s
<1>1. i - 1 \in Nat
  OBVIOUS
<1>2. (i - 1) * s \in Nat
  BY <1>1, MulNat
<1>3. i * s = (i - 1) * s + s /\ 0 * s = 0
  OBVIOUS
<1> QED
  BY <1>2, <1>3

\* The fragments from the one with number a on.
LEMMA FragmentAt ==
  ASSUME CodecOK, NEW w, IsWay(w), w.n # 1, NEW a \in 1 .. w.n, NEW i \in 1 .. w.n - a + 1
  PROVE  LET packets == PacketsOf(w, a, w.n)
             payload == Payload(Parsers(packets)[i], packets[i])
         IN  /\ payload = Fragment(w.unit, w.u, a + i - 1, w.n)
             /\ Len(payload) = Skipped + Until(w, a + i - 1) - Until(w, a + i - 2)
             /\ SubSeq(payload, Skipped + 1, Len(payload))
                  = Data(w.u, Until(w, a + i - 2) + 1, Until(w, a + i - 1))
             /\ payload[1] = Hdr(w.unit.layer, FuType) /\ payload[Skipped].type = w.unit.type
             /\ Until(w, a + i - 2) \in Nat /\ Until(w, a + i - 1) \in Nat
             /\ Until(w, a + i - 2) <= Until(w, a + i - 1)
<1> DEFINE packets == PacketsOf(w, a, w.n)
           payload == Payload(Parsers(packets)[i], packets[i])
           k == a + i - 1
           f == Fragment(w.unit, w.u, k, w.n)
           d == Data(w.u, Until(w, k - 1) + 1, Until(w, k))
<1>1. payload = PartOf(w, k)
  BY ParsersShape
<1>2. k \in 1 .. w.n /\ k \in 0 .. w.n /\ k - 1 \in 0 .. w.n /\ k - 1 <= k /\ k - 1 = a + i - 2
  BY WayFacts
<1> HIDE DEF payload, k
<1>3. payload = f
  BY <1>1 DEF PartOf
<1>4. /\ Len(d) = Until(w, k) - Until(w, k - 1) /\ Len(f) = Skipped + Len(d)
      /\ f[1] = Hdr(w.unit.layer, FuType) /\ f[Skipped].type = w.unit.type
      /\ SubSeq(f, Skipped + 1, Len(f)) = d
  BY <1>2, FragmentShape
<1>5. Until(w, k - 1) \in Nat /\ Until(w, k) \in Nat /\ Until(w, k - 1) <= Until(w, k)
  BY <1>2, UntilFacts
<1>6. Skipped \in Nat
  BY DEF Skipped
<1> HIDE DEF f
<1>7. Len(payload) = Skipped + Until(w, k) - Until(w, k - 1)
  <2> HIDE DEF d
  <2> QED
    BY <1>3, <1>4, <1>5, <1>6
<1>8. SubSeq(payload, Skipped + 1, Len(payload)) = Data(w.u, Until(w, k - 1) + 1, Until(w, k))
  BY <1>3, <1>4
<1>9. payload[1] = Hdr(w.unit.layer, FuType) /\ payload[Skipped].type = w.unit.type
  BY <1>3, <1>4
<1> QED
  BY <1>2, <1>3, <1>5, <1>7, <1>8, <1>9 DEF f, k, payload

\* The request counts the header of every fragment.
LEMMA TotalShape ==
  ASSUME CodecOK, NEW w, IsWay(w), w.n # 1, NEW a \in 1 .. w.n
  PROVE  LET total == TotalDataLen(PacketsOf(w, a, w.n))
         IN  total \in Nat /\ total >= Skipped + w.unit.length - Until(w, a - 1)
<1> DEFINE packets == PacketsOf(w, a, w.n)
           m == w.n - a + 1
           ps == Parsers(packets)
           part(i) == Len(Payload(ps[i], packets[i]))
           Step(f) == [i \in 0 .. Len(packets) |-> IF i = 0 THEN 0 ELSE f[i - 1] + part(i)]
           g == [i \in 0 .. m |-> i * Skipped + (Until(w, a + i - 1) - Until(w, a - 1))]
           s == CHOOSE f : f = Step(f)
<1>1. m \in Nat \ {0} /\ Len(packets) = m /\ w.n \in Nat
  BY WayFacts, ParsersShape
<1>2. Skipped \in Nat
  BY DEF Skipped
<1>3. ASSUME NEW i \in 0 .. m
      PROVE  Until(w, a + i - 1) \in Nat /\ Until(w, a - 1) \in Nat
  <2>1. a + i - 1 \in 0 .. w.n /\ a - 1 \in 0 .. w.n
    BY <1>1
  <2> QED
    BY <2>1, UntilFacts
<1>4. ASSUME NEW i \in 1 .. m
      PROVE  part(i) = Skipped + Until(w, a + i - 1) - Until(w, a + i - 2)
  BY <1>4, FragmentAt
<1>5. TotalDataLen(packets) = s[m]
  BY <1>1 DEF TotalDataLen
<1> HIDE DEF m, packets, part, s
<1>6. ASSUME NEW i \in 1 .. m
      PROVE  g[i] = g[i - 1] + part(i)
  <2> DEFINE x == Until(w, a + i - 1)
             y == Until(w, a + i - 2)
             z == Until(w, a - 1)
             q == (i - 1) * Skipped
  <2>1. i \in 0 .. m /\ i - 1 \in 0 .. m /\ i \in Nat \ {0} /\ a + (i - 1) - 1 = a + i - 2
    BY <1>1
  <2>2. x \in Nat /\ y \in Nat /\ z \in Nat
    BY <1>3, <2>1
  <2>3. g[i] = i * Skipped + (x - z) /\ g[i - 1] = q + (y - z)
    BY <2>1
  <2>4. i * Skipped = q + Skipped /\ q \in Nat
    BY <1>2, <2>1, MulStep
  <2>5. part(i) = Skipped + x - y
    BY <1>4
  <2> HIDE DEF x, y, z, q, g
  <2> QED
    BY <1>2, <2>2, <2>3, <2>4, <2>5
<1>7. g[0] = 0
  <2>1. 0 \in 0 .. m /\ a + 0 - 1 = a - 1 /\ 0 * Skipped = 0 /\ Until(w, a - 1) \in Nat
    BY <1>1, <1>2, <1>3
  <2> QED
    BY <2>1
<1>8. g = Step(g)
  <2>1. \A i \in 0 .. m : g[i] = IF i = 0 THEN 0 ELSE g[i - 1] + part(i)
    <3> SUFFICES ASSUME NEW i \in 0 .. m
                 PROVE  g[i] = IF i = 0 THEN 0 ELSE g[i - 1] + part(i)
      OBVIOUS
    <3>1. i # 0 => i \in 1 .. m
      BY <1>1
    <3> HIDE DEF g
    <3> QED
      BY <1>6, <1>7, <3>1
  <2>2. g = [i \in 0 .. m |-> g[i]]
    OBVIOUS
  <2> HIDE DEF g
  <2> QED
    BY <1>1, <2>1, <2>2
<1>9. s = Step(s)
  <2> HIDE DEF g
  <2> QED
    BY <1>8 DEF s
<1>10. s = g
  <2>1. DOMAIN g = 0 .. m /\ g = [i \in 0 .. m |-> g[i]]
    OBVIOUS
  <2> HIDE DEF g
  <2>2. DOMAIN s = 0 .. m /\ s = [i \in 0 .. m |-> s[i]]
    BY <1>1, <1>9
  <2>3. s[0] = 0 /\ \A i \in 1 .. m : s[i] = s[i - 1] + part(i)
    BY <1>1, <1>9
  <2>4. s[0] = g[0] /\ \A i \in 1 .. m : s[i - 1] = g[i - 1] => s[i] = g[i]
    BY <1>6, <1>7, <2>3
  <2>5. m \in Nat
    BY <1>1
  <2> QED
    BY <2>1, <2>2, <2>4, <2>5, SameSteps
<1>11. s[m] = m * Skipped + (w.unit.length - Until(w, a - 1))
  <2>1. m \in 0 .. m /\ a + m - 1 = w.n
    BY <1>1 DEF m
  <2>2. g[m] = m * Skipped + (Until(w, a + m - 1) - Until(w, a - 1))
    BY <2>1
  <2> HIDE DEF g
  <2> QED
    BY <1>10, <2>1, <2>2, UntilFacts
<1>12. Until(w, a - 1) \in 0 .. w.unit.length /\ w.unit.length \in Nat
  <2>1. a - 1 \in 0 .. w.n
    BY <1>1
  <2> QED
    BY <2>1, UntilFacts, WayFacts
<1>13. m * Skipped \in Nat /\ m * Skipped >= Skipped
  BY <1>1, <1>2, MulStep, MulNat
<1> HIDE DEF g
<1> QED
  BY <1>2, <1>5, <1>11, <1>12, <1>13 DEF packets

\* More than one fragment: the unit's own header and the data from the first
\* fragment that has arrived to the end.
LEMMA AssembledShape ==
  ASSUME CodecOK, NEW w, IsWay(w), NEW a \in 1 .. w.n - 1
  PROVE  Assembled(PacketsOf(w, a, w.n))
           = (StartCode \o UnitHeader(w.unit.layer, w.unit.type))
               \o Data(w.u, Until(w, a - 1) + 1, w.unit.length)
<1> DEFINE packets == PacketsOf(w, a, w.n)
           m == w.n - a + 1
           ps == Parsers(packets)
           payload(i) == Payload(ps[i], packets[i])
           rest(i) == SubSeq(payload(i), Skipped + 1, Len(payload(i)))
           h == StartCode \o UnitHeader(payload(1)[1].layer, payload(1)[Skipped].type)
           Step(f) == [i \in 0 .. Len(packets) |-> IF i = 0 THEN h ELSE f[i - 1] \o rest(i)]
           b == Until(w, a - 1) + 1
           g == [i \in 0 .. m |-> IF i = 0 THEN h ELSE h \o Data(w.u, b, Until(w, a + i - 1))]
           s == CHOOSE f : f = Step(f)
<1>1. w.n \in Nat /\ a \in 1 .. w.n /\ w.n # 1 /\ m \in Nat /\ m > 1 /\ Len(packets) = m
  BY WayFacts, ParsersShape
<1>2. ASSUME NEW i \in 1 .. m
      PROVE  /\ rest(i) = Data(w.u, Until(w, a + i - 2) + 1, Until(w, a + i - 1))
             /\ payload(i)[1] = Hdr(w.unit.layer, FuType) /\ payload(i)[Skipped].type = w.unit.type
             /\ Until(w, a + i - 2) \in Nat /\ Until(w, a + i - 1) \in Nat
             /\ Until(w, a + i - 2) <= Until(w, a + i - 1)
  BY <1>1, <1>2, FragmentAt
<1>3. Assembled(packets) = s[m]
  <2>1. Len(packets) # 1
    BY <1>1
  <2> QED
    BY <1>1, <2>1, Zenon DEF Assembled, Skipped
<1>4. h = StartCode \o UnitHeader(w.unit.layer, w.unit.type)
  <2>1. 1 \in 1 .. m
    BY <1>1
  <2>2. payload(1)[1] = Hdr(w.unit.layer, FuType) /\ payload(1)[Skipped].type = w.unit.type
    BY <1>2, <2>1, Zenon
  <2>3. Hdr(w.unit.layer, FuType).layer = w.unit.layer
    BY DEF Hdr
  <2> HIDE DEF payload
  <2> QED
    BY <2>2, <2>3, Zenon
<1>5. h \in Seq(Byte)
  <2>1. w.unit.layer \in Nat /\ w.unit.type \in Nat
    BY WayFacts
  <2>2. UnitHeader(w.unit.layer, w.unit.type) \in Seq(Byte) /\ StartCode \in Seq(Byte)
    BY <2>1, HeaderShape, StartCodeShape, Zenon
  <2> HIDE DEF h
  <2> QED
    BY <1>4, <2>2, ConcatProperties, Zenon
<1>6. Until(w, a - 1) \in Nat /\ w.u \in Nat
  <2>1. a - 1 \in 0 .. w.n
    BY <1>1
  <2> QED
    BY <2>1, UntilFacts, WayFacts
<1> HIDE DEF m, packets, rest, payload, h, s
<1>7. ASSUME NEW i \in 1 .. m
      PROVE  g[i] = g[i - 1] \o rest(i)
  <2> DEFINE x == Until(w, a + i - 1)
             y == Until(w, a + i - 2)
  <2>1. x \in Nat /\ y \in Nat /\ y <= x /\ rest(i) = Data(w.u, y + 1, x)
    BY <1>2
  <2>2. i \in 0 .. m /\ i - 1 \in 0 .. m /\ a + (i - 1) - 1 = a + i - 2
    BY <1>1
  <2>3. g[i] = h \o Data(w.u, b, x)
    BY <2>2
  <2>4. CASE i = 1
    <3>1. y + 1 = b
      BY <2>4
    <3>2. g[i - 1] = h
      BY <2>2, <2>4
    <3> HIDE DEF g, b, x, y
    <3> QED
      BY <2>1, <2>3, <3>1, <3>2
  <2>5. CASE i # 1
    <3>1. g[i - 1] = h \o Data(w.u, b, y)
      BY <2>2, <2>5
    <3>2. b <= y + 1 /\ b \in Int
      <4>1. a - 1 \in 0 .. w.n /\ a + i - 2 \in 0 .. w.n /\ a - 1 <= a + i - 2
        BY <1>1, <2>5 DEF m
      <4>2. Until(w, a - 1) <= y
        BY <4>1, UntilFacts
      <4> QED
        BY <1>6, <2>1, <4>2
    <3> HIDE DEF g, b, x, y
    <3>3. Data(w.u, b, y) \o Data(w.u, y + 1, x) = Data(w.u, b, x)
      <4>1. \A i1, i2, i3 \in Int : i1 <= i2 + 1 /\ i2 <= i3
              => Data(w.u, i1, i2) \o Data(w.u, i2 + 1, i3) = Data(w.u, i1, i3)
        BY <1>6, DataJoin
      <4>2. x \in Int /\ y \in Int
        BY <2>1
      <4> QED
        BY <2>1, <3>2, <4>1, <4>2
    <3>4. Data(w.u, b, y) \in Seq(Byte) /\ Data(w.u, y + 1, x) \in Seq(Byte)
      <4>1. y + 1 \in Int /\ y \in Int /\ x \in Int /\ y + 1 <= x + 1
        BY <2>1
      <4> QED
        BY <1>6, <3>2, <4>1, DataShape
    <3>5. (h \o Data(w.u, b, y)) \o Data(w.u, y + 1, x) = h \o (Data(w.u, b, y) \o Data(w.u, y + 1, x))
      BY <1>5, <3>4, JoinOrder
    <3> QED
      BY <2>1, <2>3, <3>1, <3>3, <3>5
  <2> QED
    BY <2>4, <2>5
<1>8. g[0] = h
  BY <1>1
<1>9. g = Step(g)
  <2>1. \A i \in 0 .. m : g[i] = IF i = 0 THEN h ELSE g[i - 1] \o rest(i)
    <3> SUFFICES ASSUME NEW i \in 0 .. m
                 PROVE  g[i] = IF i = 0 THEN h ELSE g[i - 1] \o rest(i)
      OBVIOUS
    <3>1. i # 0 => i \in 1 .. m
      BY <1>1
    <3> HIDE DEF g
    <3> QED
      BY <1>7, <1>8, <3>1
  <2>2. g = [i \in 0 .. m |-> g[i]]
    OBVIOUS
  <2> HIDE DEF g
  <2> QED
    BY <1>1, <2>1, <2>2
<1>10. s = Step(s)
  <2> HIDE DEF g
  <2> QED
    BY <1>9, Zenon DEF s
<1>11. s = g
  <2>1. DOMAIN g = 0 .. m /\ g = [i \in 0 .. m |-> g[i]]
    OBVIOUS
  <2> HIDE DEF g
  <2>2. DOMAIN s = 0 .. m /\ s = [i \in 0 .. m |-> s[i]]
    BY <1>1, <1>10
  <2>3. s[0] = h /\ \A i \in 1 .. m : s[i] = s[i - 1] \o rest(i)
    <3>1. \A i \in 0 .. m : s[i] = IF i = 0 THEN h ELSE s[i - 1] \o rest(i)
      BY <1>1, <1>10, Zenon
    <3>2. 0 \in 0 .. m /\ \A i \in 1 .. m : i \in 0 .. m /\ i # 0
      BY <1>1
    <3> QED
      BY <3>1, <3>2
  <2>4. s[0] = g[0] /\ \A i \in 1 .. m : s[i - 1] = g[i - 1] => s[i] = g[i]
    BY <1>7, <1>8, <2>3
  <2>5. m \in Nat
    BY <1>1
  <2> QED
    BY <2>1, <2>2, <2>4, <2>5, SameSteps
<1>12. g[m] = h \o Data(w.u, b, Until(w, w.n))
  <2>1. m \in 0 .. m /\ m # 0 /\ a + m - 1 = w.n
    BY <1>1 DEF m
  <2> QED
    BY <2>1
<1> HIDE DEF g
<1> QED
  BY <1>3, <1>4, <1>11, <1>12, UntilFacts DEF packets

\* What may stand in front of the data of a unit, and what the application gets
\* of it: such an opening and the data from some byte to the end.
Header(codec, layer, type) ==
  <<Hdr(layer, type)>> \o (IF codec = "H265" THEN Bytes("tid", 1) ELSE <<>>)

UnitFront(codec, unit) == StartCode \o Header(codec, unit.layer, unit.type)

RawFront(codec, unit) ==
  StartCode \o (Header(codec, unit.layer, IF codec = "H264" THEN 28 ELSE 49)
                  \o <<[byte |-> "fu", type |-> unit.type]>>)

RunBehind(opening, bytes, unit, u) ==
  \E from \in 1 .. unit.length : bytes = opening \o Data(u, from, unit.length)

EndsAs(codec, bytes, unit, u) ==
  IF unit.media = "audio" THEN RunBehind(<<>>, bytes, unit, u)
  ELSE RunBehind(UnitFront(codec, unit), bytes, unit, u) \/ RunBehind(RawFront(codec, unit), bytes, unit, u)

\* The same in the words of the model.
GivenRun(bytes, unit, u) ==
  \E from \in 1 .. unit.length, opening \in Openings(unit) :
    bytes = opening \o Data(u, from, unit.length)

LEMMA OpeningsAre ==
  ASSUME NEW unit, NEW u, NEW bytes
  PROVE  /\ UnitFront(Codec, unit) = StartCode \o UnitHeader(unit.layer, unit.type)
         /\ RawFront(Codec, unit) = StartCode \o FragmentHead(unit)
         /\ EndsAs(Codec, bytes, unit, u) => GivenRun(bytes, unit, u)
<1>1. \A layer, type : Header(Codec, layer, type) = UnitHeader(layer, type)
  BY DEF Header, UnitHeader
<1>2. UnitFront(Codec, unit) = StartCode \o UnitHeader(unit.layer, unit.type)
  BY <1>1, Zenon DEF UnitFront
<1>3. RawFront(Codec, unit) = StartCode \o FragmentHead(unit)
  BY <1>1, Zenon DEF RawFront, FragmentHead, FuType
<1>4. ASSUME EndsAs(Codec, bytes, unit, u)
      PROVE  GivenRun(bytes, unit, u)
  <2>1. PICK opening \in Openings(unit) : RunBehind(opening, bytes, unit, u)
    BY <1>2, <1>3, <1>4, Zenon DEF EndsAs, Openings, FragmentHead
  <2> QED
    BY <2>1, Zenon DEF RunBehind, GivenRun
<1> QED
  BY <1>2, <1>3, <1>4, Zenon

LEMMA Ending ==
  ASSUME NEW s \in Seq(Byte), NEW u \in Nat, NEW a \in Nat, NEW n \in Nat, a <= n
  PROVE  s \o Data(u, a, n) \in Seq(Byte) /\ Len(s \o Data(u, a, n)) = Len(s) + n - a + 1
<1> DEFINE d == Data(u, a, n)
           m == n - a + 1
<1>1. d \in Seq(Byte) /\ Len(d) = m
  <2>1. a \in Int /\ n \in Int /\ a <= n + 1
    OBVIOUS
  <2> QED
    BY <2>1, DataShape
<1>2. Len(s) \in Nat
  BY LenProperties
<1> HIDE DEF d
<1>3. s \o d \in Seq(Byte) /\ Len(s \o d) = Len(s) + m
  BY <1>1, ConcatProperties
<1> QED
  BY <1>2, <1>3 DEF d

LEMMA Endings ==
  \A s \in Seq(Byte), u, a, n \in Nat :
    a <= n =>
      s \o Data(u, a, n) \in Seq(Byte) /\ Len(s \o Data(u, a, n)) = Len(s) + n - a + 1
BY Ending

\* A unit behind its start code, and audio without.
Code(unit) == IF unit.media = "video" THEN StartCode ELSE <<>>

LEMMA WholeEnds ==
  ASSUME CodecOK, NEW unit \in Unit, NEW u \in Nat
  PROVE  LET bytes == Code(unit) \o BytesOf(unit, u)
         IN  /\ bytes \in Seq(Byte) /\ EndsAs(Codec, bytes, unit, u)
             /\ Len(bytes) <= Len(BytesOf(unit, u)) + 4
             /\ unit.media = "video" =>
                  /\ bytes[5].type = unit.type
                  /\ bytes = (StartCode \o UnitHeader(unit.layer, unit.type)) \o Data(u, 1, unit.length)
<1> DEFINE d == Data(u, 1, unit.length)
           h == UnitHeader(unit.layer, unit.type)
           c == StartCode
<1>1. /\ unit.layer \in Nat /\ unit.type \in Nat /\ unit.length \in Nat /\ 1 <= unit.length
      /\ unit.media \in {"video", "audio"}
  <2>1. /\ unit.layer \in Nat /\ unit.type \in Nat /\ unit.length \in Lengths
        /\ unit.media \in {"video", "audio"}
    BY DEF Unit
  <2>2. unit.length \in Nat \ {0}
    BY <2>1, AssemblyAssumption
  <2> QED
    BY <2>1, <2>2
<1>2. d \in Seq(Byte)
  <2>1. 1 \in Int /\ unit.length \in Int /\ 1 <= unit.length + 1
    BY <1>1
  <2> QED
    BY <2>1, DataShape
<1>3. h \in Seq(Byte)
  BY <1>1, HeaderShape
<1>4. c \in Seq(Byte) /\ Len(c) = 4
  BY StartCodeShape
<1>5. /\ BytesOf(unit, u) \in Seq(Byte) /\ Len(BytesOf(unit, u)) \in Nat /\ Len(BytesOf(unit, u)) > 0
      /\ unit.media = "video" => BytesOf(unit, u)[1] = Hdr(unit.layer, unit.type)
  BY WholeShape, LenProperties
<1>6. CASE unit.media = "audio"
  <2>1. Code(unit) = <<>> /\ BytesOf(unit, u) = d
    BY <1>6 DEF Code, BytesOf
  <2> HIDE DEF d
  <2>2. <<>> \o d = d
    BY <1>2, ConcatEmptySeq
  <2>3. 1 \in 1 .. unit.length
    BY <1>1
  <2>4. EndsAs(Codec, d, unit, u)
    BY <1>6, <2>2, <2>3, Zenon DEF EndsAs, RunBehind, d
  <2> QED
    BY <1>2, <1>5, <1>6, <2>1, <2>2, <2>4
<1>7. CASE unit.media = "video"
  <2>1. Code(unit) = c /\ BytesOf(unit, u) = h \o d
    BY <1>7 DEF Code, BytesOf
  <2>3. EndsAs(Codec, (c \o h) \o d, unit, u)
    <3>1. UnitFront(Codec, unit) = c \o h
      BY OpeningsAre, Zenon
    <3>4. 1 \in 1 .. unit.length
      BY <1>1
    <3>2. RunBehind(c \o h, (c \o h) \o d, unit, u)
      BY <3>4, Zenon DEF RunBehind
    <3>3. unit.media # "audio"
      BY <1>7
    <3> QED
      BY <3>1, <3>2, <3>3, Zenon DEF EndsAs
  <2> HIDE DEF c, h, d
  <2>4. (c \o h) \o d = c \o (h \o d)
    BY <1>2, <1>3, <1>4, JoinOrder
  <2> DEFINE b == BytesOf(unit, u)
  <2>5. b \in Seq(Byte) /\ Len(b) \in Nat /\ Len(b) > 0 /\ b[1] = Hdr(unit.layer, unit.type)
    BY <1>5, <1>7
  <2>6. b = h \o d
    BY <2>1
  <2> HIDE DEF b
  <2>7. /\ c \o b \in Seq(Byte) /\ Len(c \o b) = 4 + Len(b)
        /\ \A i \in 1 .. 4 + Len(b) : (c \o b)[i] = IF i <= 4 THEN c[i] ELSE b[i - 4]
    <3>1. /\ c \o b \in Seq(Byte) /\ Len(c \o b) = Len(c) + Len(b)
          /\ \A i \in 1 .. Len(c) + Len(b) : (c \o b)[i] = IF i <= Len(c) THEN c[i] ELSE b[i - Len(c)]
      BY <1>4, <2>5, ConcatProperties
    <3> QED
      BY <1>4, <3>1
  <2>8. (c \o b)[5] = b[1]
    <3>1. 5 \in 1 .. 4 + Len(b) /\ ~(5 <= 4) /\ 5 - 4 = 1
      BY <2>5
    <3> QED
      BY <2>7, <3>1
  <2>9. Len(c \o b) <= Len(b) + 4
    BY <2>5, <2>7
  <2>10. (c \o b)[5].type = unit.type
    BY <2>5, <2>8 DEF Hdr
  <2>11. c \o b = (c \o h) \o d
    BY <2>4, <2>6
  <2>12. EndsAs(Codec, c \o b, unit, u)
    BY <2>3, <2>11 DEF c, h, d
  <2> QED
    BY <2>1, <2>7, <2>9, <2>10, <2>11, <2>12 DEF b, c, h, d
<1> QED
  BY <1>1, <1>6, <1>7

LEMMA FragmentsEnd ==
  ASSUME CodecOK, NEW w, IsWay(w), w.n # 1, NEW a \in 1 .. w.n
  PROVE  LET packets == PacketsOf(w, a, w.n)
             bytes == Assembled(packets)
         IN  /\ bytes \in Seq(Byte) /\ EndsAs(Codec, bytes, w.unit, w.u)
             /\ Len(bytes) <= TotalDataLen(packets) + 4
             /\ a = 1 => /\ bytes = Code(w.unit) \o BytesOf(w.unit, w.u)
                         /\ bytes[5].type = w.unit.type
<1> DEFINE packets == PacketsOf(w, a, w.n)
           from == Until(w, a - 1) + 1
           L == w.unit.length
           d == Data(w.u, from, L)
           total == TotalDataLen(packets)
           h == UnitHeader(w.unit.layer, w.unit.type)
           x == StartCode \o h
           f == FragmentHead(w.unit)
           y == StartCode \o f
<1>1. /\ w.unit \in Unit /\ w.unit.layer \in Nat /\ w.unit.type \in Nat /\ w.u \in Nat
      /\ L \in Nat /\ w.n \in Nat
  BY WayFacts
<1>2. from \in Nat /\ from >= 1 /\ from <= L
  <2>1. a - 1 \in 0 .. w.n /\ a - 1 \in 0 .. w.n - 1
    BY <1>1
  <2>2. Until(w, a - 1) \in 0 .. L /\ Until(w, a - 1) < L
    BY <2>1, UntilFacts
  <2> QED
    BY <1>1, <2>2
<1>3. total \in Nat /\ total + 1 >= Skipped + L - from + 2
  <2>1. total \in Nat /\ total >= Skipped + L - Until(w, a - 1)
    BY TotalShape
  <2>2. Skipped \in Nat
    BY DEF Skipped
  <2>3. Until(w, a - 1) = from - 1 /\ from - 1 \in Nat
    <3>1. a - 1 \in 0 .. w.n
      BY <1>1
    <3>2. Until(w, a - 1) \in 0 .. L
      BY <3>1, UntilFacts
    <3> QED
      BY <1>1, <3>2
  <2> HIDE DEF total, from
  <2> QED
    BY <1>1, <1>2, <2>1, <2>2, <2>3
<1>4. HeaderLen \in Nat /\ Skipped \in Nat /\ HeaderLen <= Skipped
  BY DEF HeaderLen, Skipped, CodecOK
<1>5. StartCode \in Seq(Byte) /\ Len(StartCode) = 4
  BY StartCodeShape
<1>6. h \in Seq(Byte) /\ Len(h) = HeaderLen
  BY <1>1, HeaderShape
<1>7. f \in Seq(Byte) /\ Len(f) = Skipped
  BY <1>1, FragmentHeadShape
<1> HIDE DEF h, f
<1>8. x \in Seq(Byte) /\ Len(x) = 4 + HeaderLen
  BY <1>5, <1>6, Joined
<1>9. y \in Seq(Byte) /\ Len(y) = 4 + Skipped
  BY <1>5, <1>7, Joined
<1> DEFINE Shown(bytes) == EndsAs(Codec, bytes, w.unit, w.u)
<1>12. Shown(x \o d) /\ Shown(y \o d)
  <2>1. x = UnitFront(Codec, w.unit) /\ y = RawFront(Codec, w.unit)
    BY OpeningsAre DEF x, y, h, f
  <2>2. w.unit.media # "audio"
    BY <1>1 DEF IsWay
  <2>3. from \in 1 .. w.unit.length
    BY <1>1, <1>2
  <2> HIDE DEF x, y, from
  <2>4. RunBehind(x, x \o d, w.unit, w.u) /\ RunBehind(y, y \o d, w.unit, w.u)
    BY <2>3, Zenon DEF RunBehind, L
  <2> QED
    BY <2>1, <2>2, <2>4, Zenon DEF EndsAs
<1> HIDE DEF Shown
<1> HIDE DEF x, y, total, from, L
<1>10. CASE a = w.n
  <2> DEFINE g == Fragment(w.unit, w.u, w.n, w.n)
  <2>1. Assembled(packets) = StartCode \o g
    <3>1. 1 \in 1 .. w.n - a + 1 /\ a + 1 - 1 = w.n /\ w.n - a + 1 = 1
      BY <1>1, <1>10
    <3>2. Len(packets) = 1 /\ Payload(Parsers(packets)[1], packets[1]) = PartOf(w, w.n)
      BY <3>1, ParsersShape
    <3>3. PartOf(w, w.n) = g
      BY DEF PartOf
    <3> HIDE DEF packets, g
    <3> QED
      BY <3>2, <3>3, Zenon DEF Assembled
  <2>2. g = f \o d
    <3>1. w.n \in 1 .. w.n
      BY <1>1
    <3>2. g = FragmentHead(w.unit) \o Data(w.u, Until(w, w.n - 1) + 1, Until(w, w.n))
      BY <3>1, FragmentShape
    <3> QED
      BY <1>10, <3>2, UntilFacts DEF f, from, L
  <2>3. d \in Seq(Byte)
    <3>1. from \in Int /\ L \in Int /\ from <= L + 1
      BY <1>1, <1>2
    <3> QED
      BY <1>1, <3>1, DataShape
  <2>4. StartCode \o (f \o d) = y \o d
    BY <1>5, <1>7, <2>3, JoinOrder DEF y
  <2>5. /\ y \o d \in Seq(Byte) /\ Len(y \o d) = Len(y) + L - from + 1
    <3>1. y \in Seq(Byte) /\ from <= L
      BY <1>2, <1>9
    <3>2. w.u \in Nat /\ from \in Nat /\ L \in Nat
      BY <1>1, <1>2
    <3>3. \A u, j, n \in Nat :
            j <= n => /\ y \o Data(u, j, n) \in Seq(Byte)
                      /\ Len(y \o Data(u, j, n)) = Len(y) + n - j + 1
      BY <3>1, Endings, Zenon
    <3> QED
      BY <3>1, <3>2, <3>3, Zenon
  <2>6. a # 1
    BY <1>10
  <2> HIDE DEF g, d
  <2>7. Len(y \o d) <= total + 4
    BY <1>1, <1>2, <1>3, <1>4, <1>9, <2>5
  <2>8. Assembled(packets) = y \o d
    BY <2>1, <2>2, <2>4
  <2> QED
    BY <1>12, <2>5, <2>6, <2>7, <2>8 DEF total, L, Shown
<1>11. CASE a # w.n
  <2>1. a \in 1 .. w.n - 1
    BY <1>1, <1>11
  <2>2. Assembled(packets) = x \o d
    BY <2>1, AssembledShape DEF x, h, from, L
  <2>3. /\ x \o d \in Seq(Byte) /\ Len(x \o d) = Len(x) + L - from + 1
    <3>1. x \in Seq(Byte) /\ from <= L
      BY <1>2, <1>8
    <3>2. w.u \in Nat /\ from \in Nat /\ L \in Nat
      BY <1>1, <1>2
    <3>3. \A u, j, n \in Nat :
            j <= n => /\ x \o Data(u, j, n) \in Seq(Byte)
                      /\ Len(x \o Data(u, j, n)) = Len(x) + n - j + 1
      BY <3>1, Endings, Zenon
    <3> QED
      BY <3>1, <3>2, <3>3, Zenon
  <2>4. a = 1 => x \o d = Code(w.unit) \o BytesOf(w.unit, w.u) /\ (x \o d)[5].type = w.unit.type
    <3> SUFFICES ASSUME a = 1
                 PROVE  x \o d = Code(w.unit) \o BytesOf(w.unit, w.u) /\ (x \o d)[5].type = w.unit.type
      OBVIOUS
    <3>1. from = 1
      BY UntilFacts DEF from
    <3>2. w.unit.media = "video"
      BY <1>1 DEF IsWay, Unit
    <3>3. d = Data(w.u, 1, w.unit.length)
      BY <3>1 DEF L
    <3>4. LET bytes == Code(w.unit) \o BytesOf(w.unit, w.u)
          IN  /\ bytes[5].type = w.unit.type
              /\ bytes = (StartCode \o UnitHeader(w.unit.layer, w.unit.type)) \o Data(w.u, 1, w.unit.length)
      BY <1>1, <3>2, WholeEnds
    <3> HIDE DEF d
    <3> QED
      BY <3>3, <3>4, Zenon DEF x, h
  <2> HIDE DEF d
  <2>5. Len(x \o d) <= total + 4
    BY <1>1, <1>2, <1>3, <1>4, <1>8, <2>3
  <2> QED
    BY <1>12, <2>2, <2>3, <2>4, <2>5 DEF total, L, Shown
<1> QED
  BY <1>10, <1>11

-----------------------------------------------------------------------------
(* The inductive invariant.                                                *)

GivenRecord == [bytes : Seq(Byte), asked : Nat, whole : BOOLEAN, unit : Nat, key : BOOLEAN]

\* A whole unit as the application gets it, and whether it is a key frame.
Expected(codec, unit, u) ==
  IF unit.media = "audio" THEN Code(unit) \o Data(u, 1, unit.length)
  ELSE Code(unit) \o ((<<Hdr(unit.layer, unit.type)>>
                         \o (IF codec = "H265" THEN Bytes("tid", 1) ELSE <<>>))
                      \o Data(u, 1, unit.length))

IsKey(codec, unit) ==
  unit.media = "video" /\ unit.type \in (IF codec = "H264" THEN {5, 6, 7, 8} ELSE 16 .. 21)

\* What the application got, when this is the unit it is of.
GivenOK(g, codec, unit) ==
  /\ EndsAs(codec, g.bytes, unit, g.unit)
  /\ Len(g.bytes) <= g.asked + 4
  /\ g.whole => g.bytes = Expected(codec, unit, g.unit) /\ g.key = IsKey(codec, unit)

\* Packets 1 to r have got lost or have arrived; those from a to r are held,
\* unless one of them is missing.
Under(w, a, r) ==
  /\ IsWay(w) /\ w.n <= MaxParts
  /\ w.u = Len(units) /\ w.unit = units[Len(units)]
  /\ r \in 0 .. w.n - 1 /\ a \in 1 .. r + 1
  /\ coming = PacketsOf(w, r + 1, w.n)
  /\ held \in Seq(PacketRecord) /\ Len(held) <= r
  /\ lost # "hole" => held = PacketsOf(w, a, r)
  /\ lost = "none" => a = 1

\* No unit has the type that marks a fragment.
SentInv ==
  /\ Codec \in Codecs
  /\ units \in Seq(Unit) /\ Len(units) <= MaxUnits
  /\ \A i \in DOMAIN units : units[i].type \notin {28, 49}

ComingInv ==
  /\ lost \in {"none", "first", "hole"}
  /\ coming = <<>> => held = <<>>
  /\ coming # <<>> =>
       /\ units # <<>>
       /\ \E w \in Way : \E a, r \in Nat : Under(w, a, r)
       /\ \A i \in DOMAIN given : given[i].unit < Len(units)

GivenInv ==
  /\ given \in Seq(GivenRecord)
  /\ \A i \in DOMAIN given :
       given[i].unit \in DOMAIN units /\ GivenOK(given[i], Codec, units[given[i].unit])
  /\ \A i \in 2 .. Len(given) : given[i - 1].unit < given[i].unit

AssemblyInv == SentInv /\ ComingInv /\ GivenInv

LEMMA CodecKnown ==
  ASSUME SentInv
  PROVE  CodecOK
BY AssemblyAssumption DEF SentInv, CodecOK

\* Everything that depends on the codec stays as it is.
LEMMA SamePackets ==
  ASSUME Codec' = Codec, NEW w, NEW a, NEW b
  PROVE  PacketsOf(w, a, b)' = PacketsOf(w, a, b)
BY DEF PacketsOf, PacketAt, Packet, PartOf, Fragment, FuType, UnitHeader, BytesOf

\* What is expected, in the words of the model.
LEMMA ExpectedBytes ==
  ASSUME NEW unit, NEW u
  PROVE  /\ Expected(Codec, unit, u) = Code(unit) \o BytesOf(unit, u)
         /\ IsKey(Codec, unit) = (unit.media = "video" /\ KeyType(unit.type))
BY DEF Expected, IsKey, BytesOf, UnitHeader, KeyType

\* The parser that has seen one packet only.
LEMMA AlonePayload ==
  ASSUME CodecOK, NEW w, IsWay(w), NEW k \in 1 .. w.n
  PROVE  LET p == PacketAt(w, k)
         IN  Payload(ParsePacket(NewParser, p), p) = PartOf(w, k)
<1> DEFINE p == PacketAt(w, k)
           q == ParsePacket(NewParser, p)
           tail == IF p.padding THEN Last(p.bytes).n ELSE 0
<1>1. /\ p.csrc = w.head.csrc /\ p.ext = w.head.ext /\ p.padding = (PadOf(w, k) > 0)
      /\ PadOf(w, k) > 0 => Last(p.bytes).n = PadOf(w, k)
      /\ \A parser : parser.head = HeadLen(w.head) /\ parser.tail = PadOf(w, k)
                       => Payload(parser, p) = PartOf(w, k)
  BY PacketShape
<1>2. PadOf(w, k) \in Nat
  BY PadNat
<1> HIDE DEF p
<1>3. q = [head |-> HeadLen(w.head), tail |-> tail]
  BY <1>1, Zenon DEF ParsePacket, HeadLen, NewParser
<1>4. tail = PadOf(w, k)
  <2>1. CASE PadOf(w, k) > 0
    BY <1>1, <2>1, Zenon
  <2>2. CASE ~(PadOf(w, k) > 0)
    <3>1. PadOf(w, k) = 0
      BY <1>2, <2>2
    <3> QED
      BY <1>1, <2>2, <3>1, Zenon
  <2> QED
    BY <2>1, <2>2
<1> HIDE DEF tail
<1>5. q.head = HeadLen(w.head) /\ q.tail = PadOf(w, k)
  BY <1>3, <1>4
<1> HIDE DEF q
<1>6. Payload(q, p) = PartOf(w, k)
  BY <1>1, <1>5, Zenon
<1> QED
  BY <1>6 DEF p, q

\* The packets that have not arrived.
LEMMA ComingShape ==
  ASSUME CodecOK, NEW w, NEW a, NEW r, Under(w, a, r)
  PROVE  /\ w.n \in Nat /\ r \in Nat /\ a \in Nat /\ r + 1 \in 1 .. w.n
         /\ coming \in Seq(PacketRecord) /\ Len(coming) = w.n - r /\ coming # <<>>
         /\ Head(coming) = PacketAt(w, r + 1) /\ Head(coming) \in PacketRecord
         /\ Tail(coming) = PacketsOf(w, r + 2, w.n)
         /\ Len(coming) = 1 <=> Tail(coming) = <<>>
<1>1. IsWay(w) /\ r \in 0 .. w.n - 1 /\ a \in 1 .. r + 1 /\ coming = PacketsOf(w, r + 1, w.n)
  BY DEF Under
<1>2. w.n \in Nat /\ r \in Nat /\ a \in Nat /\ r + 1 \in 1 .. w.n
  BY <1>1, WayFacts
<1> DEFINE s == PacketsOf(w, r + 1, w.n)
           t == PacketsOf(w, r + 2, w.n)
<1>3. /\ s \in Seq(PacketRecord) /\ Len(s) = w.n - r
      /\ \A i \in 1 .. w.n - r : s[i] = PacketAt(w, r + i)
  <2>1. r + 1 \in 1 .. w.n + 1 /\ w.n \in 0 .. w.n /\ r + 1 <= w.n + 1
    BY <1>2
  <2>2. /\ s \in Seq(PacketRecord) /\ Len(s) = w.n - (r + 1) + 1
        /\ \A i \in 1 .. w.n - (r + 1) + 1 : s[i] = PacketAt(w, (r + 1) + i - 1)
    BY <1>1, <2>1, PacketsShape
  <2>3. w.n - (r + 1) + 1 = w.n - r /\ \A i \in 1 .. w.n - r : (r + 1) + i - 1 = r + i
    BY <1>2
  <2> HIDE DEF s
  <2> QED
    BY <2>2, <2>3
<1>4. /\ t \in Seq(PacketRecord) /\ Len(t) = w.n - r - 1
      /\ \A i \in 1 .. w.n - r - 1 : t[i] = PacketAt(w, r + 1 + i)
  <2>1. r + 2 \in 1 .. w.n + 1 /\ w.n \in 0 .. w.n /\ r + 2 <= w.n + 1
    BY <1>2
  <2>2. /\ t \in Seq(PacketRecord) /\ Len(t) = w.n - (r + 2) + 1
        /\ \A i \in 1 .. w.n - (r + 2) + 1 : t[i] = PacketAt(w, (r + 2) + i - 1)
    BY <1>1, <2>1, PacketsShape
  <2>3. w.n - (r + 2) + 1 = w.n - r - 1 /\ \A i \in 1 .. w.n - r - 1 : (r + 2) + i - 1 = r + 1 + i
    BY <1>2
  <2> HIDE DEF t
  <2> QED
    BY <2>2, <2>3
<1>5. coming = s
  BY <1>1
<1> HIDE DEF s, t
<1>6. s # <<>> /\ Len(s) \in Nat /\ Len(s) > 0
  BY <1>2, <1>3
<1>7. Head(s) = PacketAt(w, r + 1) /\ Head(s) \in PacketRecord
  <2>1. 1 \in 1 .. w.n - r
    BY <1>2
  <2>2. Head(s) = s[1] /\ s[1] = PacketAt(w, r + 1)
    BY <1>3, <2>1
  <2>3. s[1] \in PacketRecord
    BY <1>3, <2>1, ElementOfSeq
  <2> QED
    BY <2>2, <2>3
<1>8. Tail(s) = t
  <2>1. /\ Tail(s) \in Seq(PacketRecord) /\ Len(Tail(s)) = Len(s) - 1
        /\ \A i \in 1 .. Len(s) - 1 : Tail(s)[i] = s[i + 1]
    BY <1>3, <1>6, HeadTailProperties
  <2>2. \A i \in 1 .. w.n - r - 1 : i + 1 \in 1 .. w.n - r /\ r + (i + 1) = r + 1 + i
    BY <1>2
  <2>3. Len(Tail(s)) = Len(t) /\ \A i \in 1 .. Len(t) : Tail(s)[i] = t[i]
    BY <1>2, <1>3, <1>4, <2>1, <2>2
  <2> QED
    BY <1>4, <2>1, <2>3, SeqEqual
<1>9. Len(s) = 1 <=> t = <<>>
  <2>1. Len(t) = Len(s) - 1 /\ (t = <<>> <=> Len(t) = 0)
    BY <1>2, <1>3, <1>4, EmptySeq
  <2> QED
    BY <1>6, <2>1
<1> QED
  BY <1>2, <1>3, <1>5, <1>6, <1>7, <1>8, <1>9 DEF t

\* Only the packets of a unit that has been cut are taken for fragments.
LEMMA FragmentsAreKnown ==
  ASSUME SentInv, units # <<>>, NEW w, NEW a, NEW r, Under(w, a, r)
  PROVE  /\ IsFragment(Head(coming)) <=> w.n # 1
         /\ Payload(ParsePacket(NewParser, Head(coming)), Head(coming)) = PartOf(w, r + 1)
         /\ w.unit.type \notin {28, 49} /\ Len(units) \in DOMAIN units
<1> DEFINE p == Head(coming)
           unit == units[Len(units)]
           payload == Payload(ParsePacket(NewParser, p), p)
<1>1. CodecOK
  BY CodecKnown
<1>2. IsWay(w) /\ w.unit = unit /\ r + 1 \in 1 .. w.n /\ p = PacketAt(w, r + 1)
  BY <1>1, ComingShape DEF Under
<1>3. payload = PartOf(w, r + 1)
  BY <1>1, <1>2, AlonePayload
<1>4. Len(units) \in DOMAIN units
  <2>1. units \in Seq(Unit) /\ Len(units) \in Nat /\ Len(units) # 0 /\ DOMAIN units = 1 .. Len(units)
    BY LenProperties, EmptySeq DEF SentInv
  <2> QED
    BY <2>1
<1>5. w.unit.type \notin {28, 49}
  BY <1>2, <1>4 DEF SentInv
<1>6. w.unit \in Unit /\ w.u \in Nat
  BY <1>2, WayFacts
<1>7. \A layer, type : Hdr(layer, type).type = type
  BY DEF Hdr
<1>8. FuType \in {28, 49}
  BY DEF FuType
<1>9. IsFragment(p) <=> unit.media = "video" /\ payload[1].type = FuType
  BY DEF IsFragment
<1> HIDE DEF payload, p, unit
<1>10. CASE w.n = 1
  <2>1. payload = BytesOf(w.unit, w.u)
    BY <1>3, <1>10 DEF PartOf
  <2>2. unit.media = "video" => payload[1].type = w.unit.type
    BY <1>1, <1>2, <1>6, <1>7, <2>1, WholeShape
  <2>3. ~IsFragment(p)
    BY <1>5, <1>8, <1>9, <2>2
  <2> QED
    BY <1>3, <1>4, <1>5, <1>10, <2>3 DEF p, payload
<1>11. CASE w.n # 1
  <2>1. payload = Fragment(w.unit, w.u, r + 1, w.n)
    BY <1>3, <1>11 DEF PartOf
  <2>2. payload[1] = Hdr(w.unit.layer, FuType)
    BY <1>1, <1>2, <2>1, FragmentShape
  <2>3. unit.media = "video"
    BY <1>2, <1>6, <1>11 DEF IsWay, Unit
  <2>4. IsFragment(p)
    BY <1>7, <1>9, <2>2, <2>3
  <2> QED
    BY <1>3, <1>4, <1>5, <1>11, <2>4 DEF p, payload
<1> QED
  BY <1>10, <1>11

-----------------------------------------------------------------------------
(* The steps.                                                              *)

LEMMA InitHolds ==
  ASSUME Init
  PROVE  AssemblyInv
<1>1. Codec \in Codecs /\ units = <<>> /\ coming = <<>> /\ lost = "none" /\ held = <<>> /\ given = <<>>
  BY DEF Init
<1>2. SentInv
  <2>1. Len(units) = 0 /\ units \in Seq(Unit) /\ DOMAIN units = {}
    BY <1>1
  <2> QED
    BY <1>1, <2>1, AssemblyAssumption DEF SentInv
<1>3. ComingInv
  BY <1>1 DEF ComingInv
<1>4. GivenInv
  <2>1. Len(given) = 0 /\ given \in Seq(GivenRecord) /\ DOMAIN given = {}
    BY <1>1
  <2> QED
    BY <2>1 DEF GivenInv
<1> QED
  BY <1>2, <1>3, <1>4 DEF AssemblyInv

\* Nothing is given: what was given stays right while units are only added.
LEMMA GivenStays ==
  ASSUME GivenInv, Codec' = Codec, given' = given,
         \A i \in DOMAIN units : i \in DOMAIN units' /\ units'[i] = units[i]
  PROVE  GivenInv'
<1>1. ASSUME NEW i \in DOMAIN given
      PROVE  /\ given'[i].unit \in DOMAIN units'
             /\ GivenOK(given'[i], Codec', units'[given'[i].unit])
  <2>1. given[i].unit \in DOMAIN units /\ GivenOK(given[i], Codec, units[given[i].unit])
    BY DEF GivenInv
  <2>2. units'[given[i].unit] = units[given[i].unit] /\ given[i].unit \in DOMAIN units'
    BY <2>1
  <2> QED
    BY <2>1, <2>2
<1> QED
  BY <1>1 DEF GivenInv

\* A unit is on its way, with other packets before it or none.
LEMMA StillComing ==
  ASSUME AssemblyInv, coming # <<>>, UNCHANGED <<Codec, units, given>>,
         lost' \in {"none", "first", "hole"}, coming' # <<>>,
         NEW w, NEW a, NEW r, Under(w, a, r)'
  PROVE  AssemblyInv'
<1>1. SentInv'
  BY DEF AssemblyInv, SentInv
<1>2. GivenInv'
  BY GivenStays DEF AssemblyInv
<1>3. IsWay(w) /\ r \in 0 .. w.n - 1 /\ a \in 1 .. r + 1
  BY DEF Under
<1>4. w \in Way /\ a \in Nat /\ r \in Nat
  BY <1>3 DEF IsWay
<1>5. ComingInv'
  BY <1>4 DEF AssemblyInv, ComingInv
<1> QED
  BY <1>1, <1>2, <1>5 DEF AssemblyInv

\* Nothing of the unit is left: it is given or not.
LEMMA Finished ==
  ASSUME AssemblyInv, coming # <<>>, UNCHANGED <<Codec, units>>,
         lost' \in {"none", "first", "hole"}, coming' = <<>>, held' = <<>>,
         NEW item,
         given' = given \/ given' = Append(given, item),
         given' # given => /\ item \in GivenRecord /\ item.unit = Len(units)
                           /\ GivenOK(item, Codec, units[Len(units)])
  PROVE  AssemblyInv'
<1>1. SentInv'
  BY DEF AssemblyInv, SentInv
<1>2. ComingInv'
  BY DEF ComingInv
<1>3. CASE given' = given
  BY <1>1, <1>2, <1>3, GivenStays DEF AssemblyInv
<1>4. CASE given' # given
  <2>1. given' = Append(given, item) /\ item \in GivenRecord /\ item.unit = Len(units)
        /\ GivenOK(item, Codec, units[Len(units)])
    BY <1>4
  <2>2. /\ given \in Seq(GivenRecord) /\ Len(given) \in Nat
        /\ \A i \in 1 .. Len(given) : given[i].unit \in DOMAIN units /\ GivenOK(given[i], Codec, units[given[i].unit])
                                        /\ given[i].unit < Len(units)
        /\ \A i \in 2 .. Len(given) : given[i - 1].unit < given[i].unit
    BY LenProperties DEF AssemblyInv, GivenInv, ComingInv
  <2>3. /\ given' \in Seq(GivenRecord) /\ Len(given') = Len(given) + 1
        /\ \A i \in 1 .. Len(given) : given'[i] = given[i]
        /\ given'[Len(given) + 1] = item
    BY <2>1, <2>2, AppendProperties
  <2>4. Len(units) \in DOMAIN units
    <3>1. units \in Seq(Unit) /\ Len(units) \in Nat /\ Len(units) # 0 /\ DOMAIN units = 1 .. Len(units)
      BY LenProperties, EmptySeq DEF AssemblyInv, SentInv, ComingInv
    <3> QED
      BY <3>1
  <2>5. DOMAIN given' = 1 .. Len(given) + 1
    BY <2>3, LenProperties
  <2>6. ASSUME NEW i \in 1 .. Len(given) + 1
        PROVE  /\ given'[i].unit \in DOMAIN units'
               /\ GivenOK(given'[i], Codec', units'[given'[i].unit])
    <3>1. given'[i].unit \in DOMAIN units /\ GivenOK(given'[i], Codec, units[given'[i].unit])
      <4>1. CASE i = Len(given) + 1
        BY <2>1, <2>3, <2>4, <4>1
      <4>2. CASE i # Len(given) + 1
        <5>1. i \in 1 .. Len(given)
          BY <2>2, <4>2
        <5> QED
          BY <2>2, <2>3, <5>1
      <4> QED
        BY <4>1, <4>2
    <3> QED
      BY <3>1
  <2>7. ASSUME NEW i \in 2 .. Len(given) + 1
        PROVE  given'[i - 1].unit < given'[i].unit
    <3>1. i - 1 \in 1 .. Len(given) /\ given'[i - 1] = given[i - 1]
      BY <2>2, <2>3
    <3>2. CASE i = Len(given) + 1
      <4>1. given'[i].unit = Len(units)
        BY <2>1, <2>3, <3>2
      <4> QED
        BY <2>2, <3>1, <4>1
    <3>3. CASE i # Len(given) + 1
      <4>1. i \in 1 .. Len(given) /\ i \in 2 .. Len(given)
        BY <2>2, <3>3
      <4> QED
        BY <2>2, <2>3, <3>1, <4>1
    <3> QED
      BY <3>2, <3>3
  <2>8. GivenInv'
    BY <2>3, <2>5, <2>6, <2>7 DEF GivenInv
  <2> QED
    BY <1>1, <1>2, <2>8 DEF AssemblyInv
<1> QED
  BY <1>3, <1>4

LEMMA Sending ==
  ASSUME AssemblyInv, NEW w, IsWay(w), w.n <= MaxParts, w.u = Len(units) + 1,
         w.unit.type \notin {28, 49}, Sent(w.unit, PacketsOf(w, 1, w.n))
  PROVE  AssemblyInv'
<1>1. /\ coming = <<>> /\ held = <<>> /\ Len(units) < MaxUnits
      /\ units' = Append(units, w.unit) /\ coming' = PacketsOf(w, 1, w.n) /\ lost' = "none"
      /\ Codec' = Codec /\ held' = <<>> /\ given' = given
  BY DEF Sent, AssemblyInv, ComingInv
<1>2. /\ w.unit \in Unit /\ w.n \in Nat \ {0} /\ units \in Seq(Unit) /\ Len(units) \in Nat
      /\ DOMAIN units = 1 .. Len(units) /\ MaxUnits \in Nat /\ w \in Way
  BY WayFacts, LenProperties, AssemblyAssumption DEF AssemblyInv, SentInv, IsWay
<1>3. /\ units' \in Seq(Unit) /\ Len(units') = Len(units) + 1
      /\ \A i \in 1 .. Len(units) : units'[i] = units[i]
      /\ units'[Len(units) + 1] = w.unit
  BY <1>1, <1>2, AppendProperties
<1>4. DOMAIN units' = 1 .. Len(units) + 1
  BY <1>3, LenProperties
<1>5. SentInv'
  <2>1. Codec' \in Codecs /\ \A i \in DOMAIN units : units[i].type \notin {28, 49}
    BY <1>1 DEF AssemblyInv, SentInv
  <2>2. Len(units') <= MaxUnits
    BY <1>1, <1>2, <1>3
  <2>3. ASSUME NEW i \in DOMAIN units'
        PROVE  units'[i].type \notin {28, 49}
    <3>1. CASE i = Len(units) + 1
      BY <1>3, <3>1
    <3>2. CASE i # Len(units) + 1
      <4>1. i \in 1 .. Len(units)
        BY <1>2, <1>4, <3>2
      <4> QED
        BY <1>2, <1>3, <2>1, <4>1
    <3> QED
      BY <3>1, <3>2
  <2> QED
    BY <1>3, <2>1, <2>2, <2>3 DEF SentInv
<1>6. GivenInv'
  <2>1. \A i \in DOMAIN units : i \in DOMAIN units' /\ units'[i] = units[i]
    BY <1>2, <1>3, <1>4
  <2> QED
    BY <1>1, <2>1, GivenStays DEF AssemblyInv
<1>7. CodecOK
  BY CodecKnown DEF AssemblyInv
<1>8. Under(w, 1, 0)'
  <2>1. PacketsOf(w, 1, 0) = <<>> /\ PacketsOf(w, 1, w.n)' = PacketsOf(w, 1, w.n)
        /\ PacketsOf(w, 1, 0)' = PacketsOf(w, 1, 0)
    <3>1. 1 \in 1 .. w.n + 1 /\ 0 \in 0 .. w.n /\ 1 <= 0 + 1 /\ 0 - 1 + 1 = 0
      BY <1>2
    <3>2. PacketsOf(w, 1, 0) \in Seq(PacketRecord) /\ Len(PacketsOf(w, 1, 0)) = 0
      BY <1>7, <3>1, PacketsShape
    <3>3. PacketsOf(w, 1, 0) = <<>>
      BY <3>2, EmptySeq
    <3> QED
      BY <1>1, <3>3, SamePackets
  <2>2. 0 + 1 = 1 /\ 0 \in 0 .. w.n - 1 /\ 1 \in 1 .. 0 + 1
    BY <1>2
  <2>3. held' \in Seq(PacketRecord) /\ Len(held') <= 0
    BY <1>1
  <2>4. w.u = Len(units') /\ w.unit = units'[Len(units')]
    BY <1>3
  <2> QED
    BY <1>1, <2>1, <2>2, <2>3, <2>4 DEF Under
<1>9. ComingInv'
  <2>1. coming' # <<>>
    <3>1. 1 \in 1 .. w.n + 1 /\ w.n \in 0 .. w.n /\ 1 <= w.n + 1 /\ w.n - 1 + 1 = w.n
      BY <1>2
    <3>2. Len(coming') = w.n /\ coming' \in Seq(PacketRecord)
      BY <1>1, <1>7, <3>1, PacketsShape
    <3> QED
      BY <1>2, <3>2, EmptySeq
  <2>2. units' # <<>>
    BY <1>2, <1>3, EmptySeq
  <2>3. \A i \in DOMAIN given' : given'[i].unit < Len(units')
    BY <1>1, <1>2, <1>3 DEF AssemblyInv, GivenInv
  <2>4. \E v \in Way : \E a, r \in Nat : Under(v, a, r)'
    <3>1. w \in Way /\ 1 \in Nat /\ 0 \in Nat
      BY <1>2
    <3> QED
      BY <1>8, <3>1
  <2> QED
    BY <1>1, <2>1, <2>2, <2>3, <2>4 DEF ComingInv
<1> QED
  BY <1>5, <1>6, <1>9 DEF AssemblyInv

LEMMA SendVideoHolds ==
  ASSUME AssemblyInv,
         NEW type \in Types, NEW length \in Lengths, NEW n \in 1 .. MaxParts, NEW head \in Heads,
         NEW pad \in Pads, NEW all \in BOOLEAN, SendVideo(type, type % 4, length, n, head, pad, all)
  PROVE  AssemblyInv'
<1> DEFINE unit == [media |-> "video", layer |-> type % 4, type |-> type, length |-> length]
           u == Len(units) + 1
           w == [unit |-> unit, u |-> u, n |-> n, head |-> head, pad |-> pad, all |-> all]
<1>1. /\ type \in Nat /\ type \notin {28, 49} /\ type % 4 \in 0 .. 3
      /\ n \in Nat \ {0} /\ n <= MaxParts /\ n <= length
  <2>1. type \in 0 .. 27 \cup 32 .. 40 /\ MaxParts \in Nat
    BY AssemblyAssumption
  <2> QED
    BY <2>1 DEF SendVideo
<1>2. unit \in Unit
  BY <1>1 DEF Unit
<1>3. u \in Nat
  BY LenProperties DEF AssemblyInv, SentInv
<1>4. w \in Way
  BY <1>1, <1>2, <1>3 DEF Way
<1>5. w.unit = unit /\ w.u = u /\ w.n = n /\ w.head = head /\ w.pad = pad /\ w.all = all
  OBVIOUS
<1>6. unit.media = "video" /\ unit.layer = type % 4 /\ unit.type = type /\ unit.length = length
  OBVIOUS
<1>7. Sent(unit, [k \in 1 .. n |->
             Packet(head, IF n = 1 THEN UnitHeader(type % 4, type) \o Data(u, 1, length)
                          ELSE Fragment(unit, u, k, n),
                    IF all \/ k = n THEN pad ELSE 0)])
  BY DEF SendVideo
<1> HIDE DEF w, unit, u
<1>8. IsWay(w)
  BY <1>1, <1>4, <1>5, <1>6 DEF IsWay
<1>9. ASSUME NEW k \in 1 .. n
      PROVE  PacketAt(w, k) =
               Packet(head, IF n = 1 THEN UnitHeader(type % 4, type) \o Data(u, 1, length)
                            ELSE Fragment(unit, u, k, n),
                      IF all \/ k = n THEN pad ELSE 0)
  <2>1. PadOf(w, k) = IF all \/ k = n THEN pad ELSE 0
    BY <1>5 DEF PadOf
  <2>2. PartOf(w, k) = IF n = 1 THEN UnitHeader(type % 4, type) \o Data(u, 1, length)
                       ELSE Fragment(unit, u, k, n)
    BY <1>5, <1>6 DEF PartOf, BytesOf
  <2> QED
    BY <1>5, <2>1, <2>2 DEF PacketAt
<1>10. PacketsOf(w, 1, n) = [k \in 1 .. n |-> PacketAt(w, k)]
  <2>1. n - 1 + 1 = n /\ \A k \in 1 .. n : 1 + k - 1 = k
    BY <1>1
  <2> QED
    BY <2>1 DEF PacketsOf
<1>11. Sent(w.unit, PacketsOf(w, 1, w.n))
  <2>1. PacketsOf(w, 1, n) =
          [k \in 1 .. n |->
             Packet(head, IF n = 1 THEN UnitHeader(type % 4, type) \o Data(u, 1, length)
                          ELSE Fragment(unit, u, k, n),
                    IF all \/ k = n THEN pad ELSE 0)]
    BY <1>9, <1>10
  <2> QED
    BY <1>5, <1>7, <2>1
<1>12. w.n <= MaxParts /\ w.u = Len(units) + 1 /\ w.unit.type \notin {28, 49}
  BY <1>1, <1>5, <1>6 DEF u
<1> QED
  BY <1>8, <1>11, <1>12, Sending

LEMMA SendAudioHolds ==
  ASSUME AssemblyInv, NEW length \in Lengths, NEW head \in Heads, NEW pad \in Pads,
         SendAudio(length, head, pad)
  PROVE  AssemblyInv'
<1> DEFINE unit == [media |-> "audio", layer |-> 0, type |-> 0, length |-> length]
           u == Len(units) + 1
           w == [unit |-> unit, u |-> u, n |-> 1, head |-> head, pad |-> pad, all |-> TRUE]
<1>1. unit \in Unit
  BY DEF Unit
<1>2. u \in Nat
  BY LenProperties DEF AssemblyInv, SentInv
<1>3. w \in Way
  BY <1>1, <1>2 DEF Way
<1>4. w.unit = unit /\ w.u = u /\ w.n = 1 /\ w.head = head /\ w.pad = pad /\ w.all = TRUE
  OBVIOUS
<1>5. unit.media = "audio" /\ unit.type = 0 /\ unit.length = length
  OBVIOUS
<1>6. Sent(unit, <<Packet(head, Data(u, 1, length), pad)>>)
  BY DEF SendAudio
<1> HIDE DEF w, unit, u
<1>7. IsWay(w)
  <2>1. length \in Nat \ {0}
    BY AssemblyAssumption
  <2> QED
    BY <1>3, <1>4, <1>5, <2>1 DEF IsWay
<1>8. PacketAt(w, 1) = Packet(head, Data(u, 1, length), pad)
  BY <1>4, <1>5 DEF PacketAt, PartOf, PadOf, BytesOf
<1>9. PacketsOf(w, 1, 1) = <<PacketAt(w, 1)>>
  BY DEF PacketsOf
<1>10. Sent(w.unit, PacketsOf(w, 1, w.n))
  BY <1>4, <1>6, <1>8, <1>9
<1>11. w.n <= MaxParts /\ w.u = Len(units) + 1 /\ w.unit.type \notin {28, 49}
  BY <1>4, <1>5, AssemblyAssumption DEF u
<1> QED
  BY <1>7, <1>10, <1>11, Sending

\* The unit under way.
LEMMA WayOfComing ==
  ASSUME AssemblyInv, coming # <<>>
  PROVE  /\ CodecOK /\ SentInv /\ units # <<>> /\ \E w \in Way : \E a, r \in Nat : Under(w, a, r)
         /\ lost \in {"none", "first", "hole"}
BY CodecKnown DEF AssemblyInv, ComingInv

\* One packet less to come.
LEMMA OnePacketOn ==
  ASSUME AssemblyInv, coming # <<>>, UNCHANGED <<Codec, units, given>>,
         NEW w, NEW a, NEW r, Under(w, a, r),
         coming' = Tail(coming), coming' # <<>>, lost' \in {"none", "first", "hole"},
         held' \in Seq(PacketRecord), Len(held') <= r + 1,
         NEW b \in 1 .. r + 2, lost' # "hole" => held' = PacketsOf(w, b, r + 1), lost' = "none" => b = 1
  PROVE  AssemblyInv'
<1>1. /\ w.n \in Nat /\ r \in Nat /\ Tail(coming) = PacketsOf(w, r + 2, w.n)
      /\ Len(coming) = w.n - r /\ (Len(coming) = 1 <=> Tail(coming) = <<>>) /\ r + 1 \in 1 .. w.n
  BY WayOfComing, ComingShape
<1>2. /\ IsWay(w) /\ w.n <= MaxParts /\ w.u = Len(units) /\ w.unit = units[Len(units)]
  BY DEF Under
<1>3. r + 1 \in 0 .. w.n - 1 /\ b \in 1 .. (r + 1) + 1 /\ (r + 1) + 1 = r + 2
  BY <1>1
<1>4. /\ PacketsOf(w, r + 2, w.n)' = PacketsOf(w, r + 2, w.n)
      /\ PacketsOf(w, b, r + 1)' = PacketsOf(w, b, r + 1)
  BY SamePackets
<1>5. Under(w, b, r + 1)'
  BY <1>1, <1>2, <1>3, <1>4 DEF Under
<1> QED
  BY <1>5, StillComing

LEMMA LoseHolds ==
  ASSUME AssemblyInv, Lose
  PROVE  AssemblyInv'
<1>1. /\ coming # <<>> /\ coming' = Tail(coming) /\ UNCHANGED <<Codec, units, given>>
      /\ lost' = (IF held = <<>> THEN "first" ELSE "hole")
      /\ held' = (IF Len(coming) = 1 THEN <<>> ELSE held)
  BY DEF Lose
<1>2. PICK w \in Way : \E a, r \in Nat : Under(w, a, r)
  BY <1>1, WayOfComing
<1>3. PICK a \in Nat, r \in Nat : Under(w, a, r)
  BY <1>2
<1>4. /\ Len(coming) = 1 <=> Tail(coming) = <<>>
      /\ r + 1 \in 1 .. w.n /\ w.n \in Nat /\ CodecOK
  BY <1>1, <1>3, WayOfComing, ComingShape
<1>5. IsWay(w) /\ a \in 1 .. r + 1 /\ held \in Seq(PacketRecord) /\ Len(held) <= r
  BY <1>3 DEF Under
<1>6. lost' \in {"none", "first", "hole"} /\ lost' # "none"
  BY <1>1
<1>7. CASE Len(coming) = 1
  <2>1. coming' = <<>> /\ held' = <<>>
    BY <1>1, <1>4, <1>7
  <2> QED
    BY <1>1, <1>6, <2>1, Finished
<1>8. CASE Len(coming) # 1
  <2>1. coming' # <<>> /\ held' = held
    BY <1>1, <1>4, <1>8
  <2>2. CASE held = <<>>
    <3>1. PacketsOf(w, r + 2, r + 1) = <<>>
      <4>1. r + 2 \in 1 .. w.n + 1 /\ r + 1 \in 0 .. w.n /\ r + 2 <= (r + 1) + 1 /\ (r + 1) - (r + 2) + 1 = 0
        BY <1>4
      <4>2. PacketsOf(w, r + 2, r + 1) \in Seq(PacketRecord)
            /\ Len(PacketsOf(w, r + 2, r + 1)) = (r + 1) - (r + 2) + 1
        BY <1>4, <1>5, <4>1, PacketsShape
      <4> QED
        BY <4>1, <4>2, EmptySeq
    <3>2. r + 2 \in 1 .. r + 2 /\ held' \in Seq(PacketRecord) /\ Len(held') <= r + 1
      <4>1. Len(held') = 0
        BY <2>1, <2>2
      <4> QED
        BY <1>4, <1>5, <2>1, <4>1
    <3>3. held' = PacketsOf(w, r + 2, r + 1)
      BY <2>1, <2>2, <3>1
    <3> QED
      BY <1>1, <1>3, <1>6, <2>1, <3>2, <3>3, OnePacketOn
  <2>3. CASE held # <<>>
    <3>1. lost' = "hole"
      BY <1>1, <2>3
    <3>2. a \in 1 .. r + 2 /\ held' \in Seq(PacketRecord) /\ Len(held') <= r + 1
      <4>1. Len(held) \in Nat
        BY <1>5, LenProperties
      <4> QED
        BY <1>4, <1>5, <2>1, <4>1
    <3> QED
      BY <1>1, <1>3, <1>6, <2>1, <3>1, <3>2, OnePacketOn
  <2> QED
    BY <2>2, <2>3
<1> QED
  BY <1>7, <1>8

\* The held packets and the one that arrives.
LEMMA HeldAndNext ==
  ASSUME CodecOK, NEW w, NEW a, NEW r, Under(w, a, r)
  PROVE  /\ Append(held, Head(coming)) \in Seq(PacketRecord)
         /\ Len(Append(held, Head(coming))) <= r + 1
         /\ lost # "hole" => Append(held, Head(coming)) = PacketsOf(w, a, r + 1)
<1> DEFINE p == Head(coming)
           s == PacketsOf(w, a, r)
           t == PacketsOf(w, a, r + 1)
<1>1. /\ IsWay(w) /\ a \in 1 .. r + 1 /\ held \in Seq(PacketRecord) /\ Len(held) <= r
      /\ lost # "hole" => held = s
  BY DEF Under
<1>2. w.n \in Nat /\ r \in Nat /\ r + 1 \in 1 .. w.n /\ p = PacketAt(w, r + 1) /\ p \in PacketRecord
  BY ComingShape
<1>3. Append(held, p) \in Seq(PacketRecord) /\ Len(Append(held, p)) = Len(held) + 1 /\ Len(held) \in Nat
  BY <1>1, <1>2, AppendProperties, LenProperties
<1>4. /\ s \in Seq(PacketRecord) /\ Len(s) = r - a + 1
      /\ \A i \in 1 .. r - a + 1 : s[i] = PacketAt(w, a + i - 1)
  <2>1. a \in 1 .. w.n + 1 /\ r \in 0 .. w.n /\ a <= r + 1
    BY <1>1, <1>2
  <2> QED
    BY <1>1, <2>1, PacketsShape
<1>5. /\ t \in Seq(PacketRecord) /\ Len(t) = r - a + 2
      /\ \A i \in 1 .. r - a + 2 : t[i] = PacketAt(w, a + i - 1)
  <2>1. a \in 1 .. w.n + 1 /\ r + 1 \in 0 .. w.n /\ a <= (r + 1) + 1 /\ (r + 1) - a + 1 = r - a + 2
    BY <1>1, <1>2
  <2>2. /\ t \in Seq(PacketRecord) /\ Len(t) = (r + 1) - a + 1
        /\ \A i \in 1 .. (r + 1) - a + 1 : t[i] = PacketAt(w, a + i - 1)
    BY <1>1, <2>1, PacketsShape
  <2> HIDE DEF t
  <2> QED
    BY <2>1, <2>2
<1> HIDE DEF p, s, t
<1>6. Append(s, p) = t
  <2>1. /\ Append(s, p) \in Seq(PacketRecord) /\ Len(Append(s, p)) = Len(s) + 1
        /\ \A i \in 1 .. Len(s) : Append(s, p)[i] = s[i]
        /\ Append(s, p)[Len(s) + 1] = p
    BY <1>2, <1>4, AppendProperties
  <2>2. a \in Nat /\ r - a + 1 \in Nat
    BY <1>1, <1>2
  <2>3. ASSUME NEW i \in 1 .. r - a + 2
        PROVE  Append(s, p)[i] = t[i]
    <3>1. CASE i = r - a + 2
      <4>1. i = Len(s) + 1 /\ a + i - 1 = r + 1
        BY <1>2, <1>4, <2>2, <3>1
      <4> QED
        BY <1>2, <1>5, <2>1, <4>1
    <3>2. CASE i # r - a + 2
      <4>1. i \in 1 .. r - a + 1
        BY <1>2, <2>2, <3>2
      <4> QED
        BY <1>4, <1>5, <2>1, <4>1
    <3> QED
      BY <3>1, <3>2
  <2>4. Len(Append(s, p)) = Len(t)
    BY <1>2, <1>4, <1>5, <2>1, <2>2
  <2> QED
    BY <1>5, <2>1, <2>3, <2>4, SeqEqual
<1> QED
  BY <1>1, <1>2, <1>3, <1>6 DEF p, t

LEMMA ReceiveFragmentHolds ==
  ASSUME AssemblyInv, ReceiveFragment
  PROVE  AssemblyInv'
<1>1. /\ coming # <<>> /\ coming' = Tail(coming) /\ UNCHANGED <<Codec, units, lost, given>>
      /\ held' = (IF Len(coming) = 1 THEN <<>> ELSE Append(held, Head(coming)))
  BY DEF ReceiveFragment
<1>2. PICK w \in Way : \E a, r \in Nat : Under(w, a, r)
  BY <1>1, WayOfComing
<1>3. PICK a \in Nat, r \in Nat : Under(w, a, r)
  BY <1>2
<1>4. (Len(coming) = 1 <=> Tail(coming) = <<>>) /\ CodecOK /\ lost' \in {"none", "first", "hole"}
  BY <1>1, <1>3, WayOfComing, ComingShape
<1>5. CASE Len(coming) = 1
  <2>1. coming' = <<>> /\ held' = <<>>
    BY <1>1, <1>4, <1>5
  <2> QED
    BY <1>1, <1>4, <2>1, Finished
<1>6. CASE Len(coming) # 1
  <2>1. coming' # <<>> /\ held' = Append(held, Head(coming))
    BY <1>1, <1>4, <1>6
  <2>2. /\ held' \in Seq(PacketRecord) /\ Len(held') <= r + 1
        /\ lost' # "hole" => held' = PacketsOf(w, a, r + 1)
    BY <1>1, <1>3, <1>4, <2>1, HeldAndNext
  <2>3. a \in 1 .. r + 2 /\ (lost' = "none" => a = 1)
    BY <1>1, <1>3 DEF Under
  <2> QED
    BY <1>1, <1>3, <1>4, <2>1, <2>2, <2>3, OnePacketOn
<1> QED
  BY <1>5, <1>6

LEMMA ItemShape ==
  ASSUME NEW bytes \in Seq(Byte), NEW asked \in Nat, NEW whole \in BOOLEAN, Len(units) \in Nat,
         EndsAs(Codec, bytes, units[Len(units)], Len(units)), Len(bytes) <= asked + 4,
         whole => /\ bytes = Code(units[Len(units)]) \o BytesOf(units[Len(units)], Len(units))
                  /\ units[Len(units)].media = "video" => bytes[5].type = units[Len(units)].type
  PROVE  LET item == Item(bytes, asked, whole)
         IN  /\ item \in GivenRecord /\ item.unit = Len(units)
             /\ GivenOK(item, Codec, units[Len(units)])
<1> DEFINE item == Item(bytes, asked, whole)
           unit == units[Len(units)]
           key == unit.media = "video" /\ KeyType(bytes[5].type)
<1>1. item = [bytes |-> bytes, asked |-> asked, whole |-> whole, unit |-> Len(units), key |-> key]
  BY DEF Item
<1>2. key \in BOOLEAN
  OBVIOUS
<1>3. whole => key = IsKey(Codec, unit)
  <2>1. CASE unit.media = "video"
    <3>1. IsKey(Codec, unit) = (unit.media = "video" /\ KeyType(unit.type))
      BY ExpectedBytes
    <3> QED
      BY <2>1, <3>1, Zenon
  <2>2. CASE unit.media # "video"
    BY <2>2, Zenon DEF IsKey
  <2> QED
    BY <2>1, <2>2
<1> HIDE DEF key, item
<1>4. item \in GivenRecord
  BY <1>1, <1>2 DEF GivenRecord
<1>5. /\ item.bytes = bytes /\ item.asked = asked /\ item.whole = whole
      /\ item.unit = Len(units) /\ item.key = key
  BY <1>1, Zenon
<1>6. whole => bytes = Expected(Codec, unit, Len(units))
  BY ExpectedBytes
<1>7. GivenOK(item, Codec, unit)
  <2>1. whole => item.bytes = Expected(Codec, unit, item.unit) /\ item.key = IsKey(Codec, unit)
    BY <1>3, <1>5, <1>6, Zenon
  <2>2. EndsAs(Codec, item.bytes, unit, item.unit) /\ Len(item.bytes) <= item.asked + 4
    BY <1>5
  <2> QED
    BY <1>5, <2>1, <2>2, Zenon DEF GivenOK
<1> QED
  BY <1>4, <1>5, <1>7 DEF item

LEMMA ReceiveWholeHolds ==
  ASSUME AssemblyInv, NEW refused \in BOOLEAN, ReceiveWhole(refused)
  PROVE  AssemblyInv'
<1> DEFINE p == Head(coming)
           item == Direct(p)
           unit == units[Len(units)]
           bytes == Code(unit) \o BytesOf(unit, Len(units))
           asked == Len(BytesOf(unit, Len(units)))
<1>1. /\ coming # <<>> /\ ~IsFragment(p) /\ coming' = Tail(coming)
      /\ given' = given \/ given' = Append(given, item)
      /\ UNCHANGED <<Codec, units, lost, held>>
  BY DEF ReceiveWhole
<1>2. PICK w \in Way : \E a, r \in Nat : Under(w, a, r)
  BY <1>1, WayOfComing
<1>3. PICK a \in Nat, r \in Nat : Under(w, a, r)
  BY <1>2
<1>4. CodecOK /\ SentInv /\ units # <<>> /\ lost' \in {"none", "first", "hole"}
  BY <1>1, WayOfComing
<1>5. /\ w.n = 1 /\ Len(units) \in DOMAIN units
      /\ Payload(ParsePacket(NewParser, p), p) = PartOf(w, r + 1)
  BY <1>1, <1>3, <1>4, FragmentsAreKnown
<1>6. /\ IsWay(w) /\ w.u = Len(units) /\ w.unit = unit /\ w.unit \in Unit /\ w.u \in Nat
      /\ held \in Seq(PacketRecord) /\ Len(held) <= r /\ r = 0
  BY <1>3, <1>5, WayFacts DEF Under
<1>7. coming' = <<>> /\ held' = <<>>
  <2>1. Len(coming) = w.n - r /\ (Len(coming) = 1 <=> Tail(coming) = <<>>)
    BY <1>3, <1>4, ComingShape
  <2>2. Len(held) \in Nat
    BY <1>6, LenProperties
  <2>3. Len(held) = 0
    BY <1>6, <2>2
  <2>4. held = <<>>
    BY <1>6, <2>3, EmptySeq
  <2> QED
    BY <1>1, <1>5, <1>6, <2>1, <2>4
<1>8. PartOf(w, r + 1) = BytesOf(unit, Len(units))
  BY <1>5, <1>6 DEF PartOf
<1>9. item = Item(bytes, asked, TRUE)
  BY <1>5, <1>8 DEF Direct, Code
<1>10. /\ bytes \in Seq(Byte) /\ EndsAs(Codec, bytes, unit, Len(units))
       /\ Len(bytes) <= asked + 4 /\ (unit.media = "video" => bytes[5].type = unit.type)
  BY <1>4, <1>6, WholeEnds
<1>11. asked \in Nat
  BY <1>4, <1>6, WholeShape, LenProperties
<1> HIDE DEF item, asked
<1>12. item \in GivenRecord /\ item.unit = Len(units) /\ GivenOK(item, Codec, unit)
  BY <1>6, <1>9, <1>10, <1>11, ItemShape
<1> QED
  BY <1>1, <1>4, <1>7, <1>12, Finished

LEMMA ReceiveLastHolds ==
  ASSUME AssemblyInv, NEW refused \in BOOLEAN, ReceiveLast(refused)
  PROVE  AssemblyInv'
<1> DEFINE p == Head(coming)
           packets == Append(held, p)
           bytes == Assembled(packets)
           asked == TotalDataLen(packets)
           whole == lost = "none"
           item == Item(bytes, asked, whole)
           unit == units[Len(units)]
<1>1. /\ Len(coming) = 1 /\ lost # "hole" /\ IsFragment(p)
      /\ coming' = <<>> /\ held' = <<>> /\ UNCHANGED <<Codec, units, lost>>
      /\ given' = given \/ given' = Append(given, item)
  BY DEF ReceiveLast, Completes
<1>2. coming # <<>>
  <2>1. Len(<<>>) = 0
    OBVIOUS
  <2> QED
    BY <1>1, <2>1
<1>3. PICK w \in Way : \E a, r \in Nat : Under(w, a, r)
  BY <1>2, WayOfComing
<1>4. PICK a \in Nat, r \in Nat : Under(w, a, r)
  BY <1>3
<1>5. CodecOK /\ SentInv /\ units # <<>> /\ lost' \in {"none", "first", "hole"}
  BY <1>1, <1>2, WayOfComing
<1>6. w.n # 1 /\ Len(units) \in DOMAIN units
  BY <1>1, <1>4, <1>5, FragmentsAreKnown
<1>7. IsWay(w) /\ w.u = Len(units) /\ w.unit = unit /\ a \in 1 .. r + 1 /\ (lost = "none" => a = 1)
  BY <1>4 DEF Under
<1>8. Len(coming) = w.n - r /\ w.n \in Nat /\ r \in Nat
  BY <1>4, <1>5, ComingShape
<1>9. r + 1 = w.n /\ a \in 1 .. w.n
  BY <1>1, <1>7, <1>8
<1>10. packets = PacketsOf(w, a, w.n)
  BY <1>1, <1>4, <1>5, <1>9, HeldAndNext
<1>11. w.u \in Nat
  BY <1>7, WayFacts
<1>12. /\ Assembled(PacketsOf(w, a, w.n)) \in Seq(Byte)
       /\ EndsAs(Codec, Assembled(PacketsOf(w, a, w.n)), w.unit, w.u)
       /\ Len(Assembled(PacketsOf(w, a, w.n))) <= TotalDataLen(PacketsOf(w, a, w.n)) + 4
       /\ a = 1 => /\ Assembled(PacketsOf(w, a, w.n)) = Code(w.unit) \o BytesOf(w.unit, w.u)
                   /\ Assembled(PacketsOf(w, a, w.n))[5].type = w.unit.type
  BY <1>5, <1>6, <1>7, <1>9, FragmentsEnd
<1>13. TotalDataLen(PacketsOf(w, a, w.n)) \in Nat
  BY <1>5, <1>6, <1>7, <1>9, TotalShape
<1>14. /\ bytes \in Seq(Byte) /\ EndsAs(Codec, bytes, unit, Len(units))
       /\ Len(bytes) <= asked + 4 /\ asked \in Nat
       /\ whole => /\ bytes = Code(unit) \o BytesOf(unit, Len(units))
                   /\ bytes[5].type = unit.type
  BY <1>7, <1>10, <1>12, <1>13
<1>15. whole \in BOOLEAN /\ Len(units) \in Nat
  BY <1>7, <1>11
<1> HIDE DEF packets, bytes, asked, whole
<1>16. item \in GivenRecord /\ item.unit = Len(units) /\ GivenOK(item, Codec, unit)
  BY <1>14, <1>15, ItemShape
<1> HIDE DEF item
<1> QED
  BY <1>1, <1>2, <1>5, <1>16, Finished

LEMMA StutterHolds ==
  ASSUME AssemblyInv, UNCHANGED vars
  PROVE  AssemblyInv'
<1>1. UNCHANGED <<Codec, units, coming, lost, held, given>>
  BY DEF vars
<1>2. CASE coming = <<>>
  <2>1. SentInv'
    BY <1>1 DEF AssemblyInv, SentInv
  <2>2. GivenInv'
    BY <1>1, GivenStays DEF AssemblyInv
  <2>3. ComingInv'
    BY <1>1, <1>2 DEF AssemblyInv, ComingInv
  <2> QED
    BY <2>1, <2>2, <2>3 DEF AssemblyInv
<1>3. CASE coming # <<>>
  <2>1. PICK w \in Way : \E a, r \in Nat : Under(w, a, r)
    BY <1>3, WayOfComing
  <2>2. PICK a \in Nat, r \in Nat : Under(w, a, r)
    BY <2>1
  <2>3. PacketsOf(w, r + 1, w.n)' = PacketsOf(w, r + 1, w.n) /\ PacketsOf(w, a, r)' = PacketsOf(w, a, r)
    BY <1>1, SamePackets
  <2>4. Under(w, a, r)'
    BY <1>1, <2>2, <2>3 DEF Under
  <2>5. coming' # <<>> /\ lost' \in {"none", "first", "hole"}
    BY <1>1, <1>3, WayOfComing
  <2> QED
    BY <1>1, <1>3, <2>4, <2>5, StillComing
<1> QED
  BY <1>2, <1>3

\* The inductive invariant holds in every reachable state.
THEOREM AssemblyInvariant == Spec => []AssemblyInv
<1>1. ASSUME AssemblyInv, [Next]_vars
      PROVE  AssemblyInv'
  <2>1. ASSUME NEW type \in Types, NEW length \in Lengths, NEW n \in 1 .. MaxParts,
               NEW head \in Heads, NEW pad \in Pads, NEW all \in BOOLEAN,
               SendVideo(type, type % 4, length, n, head, pad, all)
        PROVE  AssemblyInv'
    BY <1>1, <2>1, SendVideoHolds
  <2>2. ASSUME NEW length \in Lengths, NEW head \in Heads, NEW pad \in Pads, SendAudio(length, head, pad)
        PROVE  AssemblyInv'
    BY <1>1, <2>2, SendAudioHolds
  <2>3. CASE Lose
    BY <1>1, <2>3, LoseHolds
  <2>4. CASE ReceiveFragment
    BY <1>1, <2>4, ReceiveFragmentHolds
  <2>5. ASSUME NEW refused \in BOOLEAN, ReceiveWhole(refused)
        PROVE  AssemblyInv'
    BY <1>1, <2>5, ReceiveWholeHolds
  <2>6. ASSUME NEW refused \in BOOLEAN, ReceiveLast(refused)
        PROVE  AssemblyInv'
    BY <1>1, <2>6, ReceiveLastHolds
  <2>7. CASE UNCHANGED vars
    BY <1>1, <2>7, StutterHolds
  <2> QED
    BY <1>1, <2>1, <2>2, <2>3, <2>4, <2>5, <2>6, <2>7 DEF Next
<1> QED
  BY <1>1, InitHolds, PTL DEF Spec

\* Every variable has its type, and the organizer keeps nothing of a frame that
\* has been delivered.
THEOREM TypeCorrect == Spec => []TypeOK
<1>1. ASSUME AssemblyInv
      PROVE  TypeOK
  <2>1. /\ Codec \in Codecs /\ Len(units) <= MaxUnits /\ lost \in {"none", "first", "hole"}
        /\ coming = <<>> => held = <<>>
    BY <1>1 DEF AssemblyInv, SentInv, ComingInv
  <2>2. units \in Seq([media : {"video", "audio"}, layer : 0 .. 3, type : Nat, length : Lengths])
    BY <1>1 DEF AssemblyInv, SentInv, Unit
  <2>3. Len(coming) + Len(held) <= MaxParts
    <3>1. CASE coming = <<>>
      <4>1. Len(coming) = 0 /\ Len(held) = 0
        BY <2>1, <3>1
      <4> QED
        BY <4>1, AssemblyAssumption
    <3>2. CASE coming # <<>>
      <4>1. PICK w \in Way : \E a, r \in Nat : Under(w, a, r)
        BY <1>1, <3>2, WayOfComing
      <4>2. PICK a \in Nat, r \in Nat : Under(w, a, r)
        BY <4>1
      <4>3. Len(coming) = w.n - r /\ w.n \in Nat
        BY <1>1, <3>2, <4>2, WayOfComing, ComingShape
      <4>4. Len(held) \in Nat /\ Len(held) <= r /\ w.n <= MaxParts
        BY <4>2, LenProperties DEF Under
      <4> QED
        BY <4>3, <4>4, AssemblyAssumption
    <3> QED
      BY <3>1, <3>2
  <2>4. \A i \in DOMAIN given :
          given[i].key \in BOOLEAN /\ given[i].asked \in Nat /\ given[i].unit \in DOMAIN units
    <3> SUFFICES ASSUME NEW i \in DOMAIN given
                 PROVE  given[i].key \in BOOLEAN /\ given[i].asked \in Nat /\ given[i].unit \in DOMAIN units
      OBVIOUS
    <3>1. given \in Seq(GivenRecord) /\ given[i].unit \in DOMAIN units
      BY <1>1 DEF AssemblyInv, GivenInv
    <3>2. given[i] \in GivenRecord
      BY <3>1, ElementOfSeq, LenProperties
    <3> QED
      BY <3>1, <3>2 DEF GivenRecord
  <2> QED
    BY <2>1, <2>2, <2>3, <2>4 DEF TypeOK
<1> QED
  BY <1>1, AssemblyInvariant, PTL

\* A unit of which no packet got lost is given byte for byte, and nothing is
\* given twice or out of order, whatever the lengths, paddings and fragments.
THEOREM UnitsAreWhole == Spec => []GivenAsSent
<1>1. ASSUME AssemblyInv
      PROVE  GivenAsSent
  <2> SUFFICES ASSUME NEW i \in DOMAIN given
               PROVE  LET u == given[i].unit
                      IN /\ i > 1 => given[i - 1].unit < u
                         /\ given[i].whole =>
                              /\ given[i].bytes = (IF units[u].media = "video" THEN StartCode ELSE <<>>)
                                                    \o UnitBytes(u)
                              /\ given[i].key = (units[u].media = "video" /\ KeyType(units[u].type))
    BY DEF GivenAsSent
  <2> DEFINE u == given[i].unit
  <2>1. i > 1 => given[i - 1].unit < u
    <3>1. DOMAIN given = 1 .. Len(given) /\ Len(given) \in Nat
      BY <1>1, LenProperties DEF AssemblyInv, GivenInv
    <3>2. i > 1 => i \in 2 .. Len(given)
      BY <3>1
    <3> QED
      BY <1>1, <3>2 DEF AssemblyInv, GivenInv
  <2>2. given[i].whole => /\ given[i].bytes = Expected(Codec, units[u], u)
                          /\ given[i].key = IsKey(Codec, units[u])
    BY <1>1 DEF AssemblyInv, GivenInv, GivenOK
  <2>3. BytesOf(units[u], u) = UnitBytes(u)
    BY DEF BytesOf, UnitBytes
  <2>4. Expected(Codec, units[u], u) = (IF units[u].media = "video" THEN StartCode ELSE <<>>) \o UnitBytes(u)
    BY <2>3, ExpectedBytes DEF Code
  <2>5. IsKey(Codec, units[u]) = (units[u].media = "video" /\ KeyType(units[u].type))
    BY ExpectedBytes
  <2> QED
    BY <2>1, <2>2, <2>4, <2>5, Zenon
<1> QED
  BY <1>1, AssemblyInvariant, PTL

\* Whichever first packets of a unit got lost, behind one of its headers the
\* application gets its data from some byte on to the end, and nothing else.
THEOREM UnitsAreGivenToTheEnd == Spec => []GivenToTheEnd
<1>1. ASSUME AssemblyInv
      PROVE  GivenToTheEnd
  <2>1. \A i \in DOMAIN given : EndsAs(Codec, given[i].bytes, units[given[i].unit], given[i].unit)
    BY <1>1 DEF AssemblyInv, GivenInv, GivenOK
  <2>2. ASSUME NEW i \in DOMAIN given
        PROVE  GivenRun(given[i].bytes, units[given[i].unit], given[i].unit)
    BY <2>1, OpeningsAre, Zenon
  <2> QED
    BY <2>2, Zenon DEF GivenToTheEnd, GivenRun
<1> QED
  BY <1>1, AssemblyInvariant, PTL

\* The buffer the application is asked for holds what is given, the start code
\* apart.
THEOREM RequestsFit == Spec => []FitsRequest
<1>1. ASSUME AssemblyInv
      PROVE  FitsRequest
  BY <1>1 DEF AssemblyInv, GivenInv, GivenOK, FitsRequest
<1> QED
  BY <1>1, AssemblyInvariant, PTL
=============================================================================

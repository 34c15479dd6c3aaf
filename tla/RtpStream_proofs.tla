--------------------------- MODULE RtpStream_proofs ---------------------------
(***************************************************************************)
(* Proofs about RtpStream: first for every stream and every way it may     *)
(* take to the client (any number and length of frames, wrapping numbers,  *)
(* losses, repetitions and packets that overtake each other), then for     *)
(* packets that come in order and once each, with losses at any place:     *)
(* what is delivered, what is given up, what is counted, and that the pool *)
(* does not run dry.                                                       *)
(*                                                                         *)
(* The latter hold of streams none of whose frames wraps (NoFrameWraps): a *)
(* frame with the last number in its middle is sorted wrongly and never    *)
(* complete (stream_wrap.cfg), and none of the four holds of it.           *)
(***************************************************************************)
EXTENDS RtpStream, RtpFrameOrganizer_proofs, FunctionTheorems

-----------------------------------------------------------------------------
(* Numbers.                                                                *)

\* Division by n, and its rest.
LEMMA DivBounds ==
  ASSUME NEW x \in Nat, NEW n \in Nat \ {0}
  PROVE  /\ x \div n \in Nat
         /\ (x \div n) * n <= x /\ x < (x \div n) * n + n
         /\ x % n = x - (x \div n) * n
OBVIOUS

LEMMA MulMono ==
  ASSUME NEW a \in Int, NEW b \in Int, NEW n \in Nat, a <= b
  PROVE  a * n <= b * n
OBVIOUS

LEMMA MulType ==
  ASSUME NEW a \in Int, NEW b \in Int
  PROVE  a * b \in Int
OBVIOUS

LEMMA MulNext ==
  ASSUME NEW a \in Int, NEW b \in Int
  PROVE  (a + 1) * b = a * b + b /\ (a - 1) * b = a * b - b
OBVIOUS

LEMMA DivUnique ==
  ASSUME NEW t \in Nat, NEW n \in Nat \ {0}, NEW r \in 0 .. n - 1
  PROVE  (t * n + r) \div n = t /\ (t * n + r) % n = r
OBVIOUS
LEMMA ModAdd ==
  ASSUME NEW x \in Nat, NEW n \in Nat \ {0}, NEW d \in 0 .. n - 1
  PROVE  (x + d) % n = (x % n) + d \/ (x + d) % n = (x % n) + d - n
<1> DEFINE q == x \div n
           r == x % n
<1>1. q \in Nat /\ r \in 0 .. n - 1 /\ q * n \in Nat /\ x = q * n + r
  <2>1. /\ q \in Nat /\ q * n <= x /\ x < q * n + n /\ r = x - q * n
    BY DivBounds
  <2> HIDE DEF q, r
  <2>2. q * n \in Int
    BY <2>1, MulType
  <2>3. q * n >= 0 * n /\ 0 * n = 0
    BY <2>1, MulMono
  <2> QED
    BY <2>1, <2>2, <2>3
<1>2. (q + 1) * n = q * n + n
  BY <1>1, MulNext
<1> HIDE DEF q, r
<1>3. CASE r + d < n
  <2>1. x + d = q * n + (r + d) /\ r + d \in 0 .. n - 1
    BY <1>1, <1>3
  <2>2. (x + d) % n = r + d
    BY <1>1, <2>1, DivUnique
  <2> QED
    BY <2>2 DEF r
<1>4. CASE ~(r + d < n)
  <2>1. x + d = (q + 1) * n + (r + d - n) /\ r + d - n \in 0 .. n - 1 /\ q + 1 \in Nat
    BY <1>1, <1>2, <1>4
  <2>2. (x + d) % n = r + d - n
    BY <2>1, DivUnique
  <2> QED
    BY <2>2 DEF r
<1> QED
  BY <1>3, <1>4

-----------------------------------------------------------------------------
(* The packets of a stream.                                                *)

\* The position before the first packet of frame t.
Base(t) == (t - 1) * stream.length

LEMMA StreamFacts ==
  ASSUME stream \in Streams
  PROVE  /\ stream.length \in Nat /\ 1 <= stream.length /\ stream.length < SeqSpace
         /\ stream.frames \in Nat /\ stream.first \in Nat /\ SeqSpace \in Nat \ {0}
         /\ stream.frames * stream.length \in Nat
<1>1. /\ stream.length \in 1 .. SeqSpace - 1 /\ stream.frames \in Nat
      /\ stream.first \in 0 .. SeqSpace - 1 /\ SeqSpace \in Nat \ {0}
  BY StreamAssumption, OrganizerAssumption DEF SeqNum
<1>2. /\ stream.length \in Nat /\ 1 <= stream.length /\ stream.length < SeqSpace
      /\ stream.first \in Nat
  BY <1>1
<1>3. 0 * stream.length <= stream.frames * stream.length /\ 0 * stream.length = 0
  BY <1>1, <1>2, MulMono
<1>4. stream.frames * stream.length \in Int
  BY <1>1, <1>2, MulType
<1> QED
  BY <1>1, <1>2, <1>3, <1>4

LEMMA Bases ==
  ASSUME stream \in Streams, NEW t \in 1 .. stream.frames
  PROVE  /\ Base(t) \in Nat /\ t * stream.length = Base(t) + stream.length
         /\ Base(t) + stream.length <= stream.frames * stream.length
         /\ \A u \in 1 .. stream.frames : t < u => Base(t) + stream.length <= Base(u)
<1> DEFINE n == stream.length
           m == stream.frames
<1>1. n \in Nat /\ 1 <= n /\ m \in Nat
  BY StreamFacts
<1> HIDE DEF n, m
<1>2. t \in Int /\ 1 <= t /\ t <= m
  BY <1>1 DEF m
<1>3. t * n = (t - 1) * n + n /\ (t - 1) * n \in Int /\ t * n \in Int
  BY <1>1, <1>2, MulNext, MulType
<1>4. 0 * n <= (t - 1) * n /\ 0 * n = 0
  BY <1>1, <1>2, MulMono
<1>5. t * n <= m * n
  BY <1>1, <1>2, MulMono
<1>6. ASSUME NEW u \in 1 .. m, t < u
      PROVE  t * n <= (u - 1) * n
  <2>1. t <= u - 1 /\ u - 1 \in Int
    BY <1>1, <1>2, <1>6
  <2> QED
    BY <1>1, <1>2, <2>1, MulMono
<1>7. (t - 1) * n \in Nat
  BY <1>3, <1>4
<1> QED
  BY <1>3, <1>5, <1>6, <1>7 DEF Base, n, m

LEMMA InFrame ==
  ASSUME stream \in Streams, NEW t \in 1 .. stream.frames, NEW k \in 1 .. stream.length
  PROVE  Base(t) + k \in Position /\ FrameOf(Base(t) + k) = t
<1>1. /\ Base(t) \in Nat /\ Base(t) + stream.length <= stream.frames * stream.length
      /\ stream.length \in Nat /\ 1 <= stream.length
      /\ stream.frames * stream.length \in Nat
  BY Bases, StreamFacts
<1>2. Base(t) + k \in Position
  BY <1>1 DEF Position
<1>3. (Base(t) + k) - 1 = (t - 1) * stream.length + (k - 1)
  BY <1>1 DEF Base
<1>4. ((t - 1) * stream.length + (k - 1)) \div stream.length = t - 1
  <2>1. k - 1 \in 0 .. stream.length - 1 /\ t - 1 \in Nat /\ stream.length \in Nat \ {0}
    BY <1>1, StreamFacts
  <2> QED
    BY <2>1, DivUnique
<1> QED
  BY <1>2, <1>3, <1>4, StreamFacts DEF FrameOf

\* Every position is in one frame, and what its packet says.
LEMMA PositionOf ==
  ASSUME stream \in Streams, NEW i \in Position
  PROVE  /\ i \in Nat /\ i >= 1
         /\ FrameOf(i) \in 1 .. stream.frames
         /\ i \in Base(FrameOf(i)) + 1 .. Base(FrameOf(i)) + stream.length
         /\ Packet(i).unTimestamp = FrameOf(i)
         /\ Packet(i).usSeq = (stream.first + i - 1) % SeqSpace
         /\ Packet(i).bMarker <=> i = FrameOf(i) * stream.length
         /\ Packet(i) \in Fragment
<1> DEFINE n == stream.length
           m == stream.frames
           d == (i - 1) \div n
<1>1. n \in Nat \ {0} /\ m \in Nat /\ m * n \in Nat /\ i \in 1 .. m * n /\ i - 1 \in Nat
  BY StreamFacts DEF Position
<1>2. d \in Nat /\ d * n <= i - 1 /\ i - 1 < d * n + n
  <2> HIDE DEF n
  <2> QED
    BY <1>1, DivBounds
<1>3. Packet(i) = [unTimestamp |-> d + 1, usSeq |-> (stream.first + i - 1) % SeqSpace,
                   bMarker |-> i % n = 0]
  BY <1>1 DEF Packet, Fragments
<1>4. Packet(i) \in Fragment
  <2>1. i \in DOMAIN Fragments(stream)
    BY <1>1 DEF Fragments
  <2> QED
    BY <2>1, FragmentsAssumption DEF Packet
<1> HIDE DEF n, m, d
<1>5. d < m
  <2>1. CASE m <= d
    <3>1. m * n <= d * n /\ d * n \in Int
      BY <1>1, <1>2, <2>1, MulMono, MulType
    <3> QED
      BY <1>1, <1>2, <3>1
  <2> QED
    BY <1>1, <1>2, <2>1
<1>6. FrameOf(i) = d + 1 /\ Base(FrameOf(i)) = d * n /\ FrameOf(i) * n = d * n + n
  <2>1. FrameOf(i) = d + 1
    BY DEF FrameOf, d, n
  <2>2. (d + 1) - 1 = d /\ (d + 1) * n = d * n + n
    BY <1>1, <1>2, MulNext
  <2> QED
    BY <2>1, <2>2 DEF Base, n
<1>7. d * n \in Nat
  <2>1. d * n \in Int /\ 0 * n <= d * n /\ 0 * n = 0
    BY <1>1, <1>2, MulType, MulMono
  <2> QED
    BY <2>1
<1>8. i % n = 0 <=> i = d * n + n
  <2> DEFINE r == i - d * n
  <2>1. r \in 1 .. n /\ i = d * n + r
    BY <1>1, <1>2, <1>7
  <2> HIDE DEF r
  <2>2. CASE r = n
    <3>1. i = (d + 1) * n + 0 /\ d + 1 \in Nat /\ 0 \in 0 .. n - 1
      BY <1>1, <1>2, <1>7, <2>1, <2>2, MulNext
    <3>2. i % n = 0
      BY <1>1, <3>1, DivUnique
    <3> QED
      BY <2>1, <2>2, <3>2
  <2>3. CASE r # n
    <3>1. r \in 0 .. n - 1 /\ r # 0
      BY <1>1, <2>1, <2>3
    <3>2. i % n = r
      BY <1>1, <1>2, <2>1, <3>1, DivUnique
    <3> QED
      BY <1>1, <1>7, <2>1, <2>3, <3>1, <3>2
  <2> QED
    BY <2>2, <2>3
<1>9. FrameOf(i) \in 1 .. m
  BY <1>1, <1>2, <1>5, <1>6
<1>10. i \in Base(FrameOf(i)) + 1 .. Base(FrameOf(i)) + n
  BY <1>1, <1>2, <1>6, <1>7
<1>11. /\ Packet(i).unTimestamp = FrameOf(i)
       /\ Packet(i).usSeq = (stream.first + i - 1) % SeqSpace
       /\ Packet(i).bMarker <=> i = FrameOf(i) * n
  <2>1. /\ Packet(i).unTimestamp = d + 1
        /\ Packet(i).usSeq = (stream.first + i - 1) % SeqSpace
        /\ Packet(i).bMarker = (i % n = 0)
    BY <1>3
  <2>2. i % n = 0 <=> i = FrameOf(i) * n
    BY <1>6, <1>8
  <2> QED
    BY <1>6, <2>1, <2>2
<1> QED
  BY <1>1, <1>4, <1>9, <1>10, <1>11 DEF n, m

\* The numbers of two packets of one frame, the second one not behind the first.
LEMMA NumbersInFrame ==
  ASSUME stream \in Streams, NEW i \in Position, NEW j \in Position,
         FrameOf(i) = FrameOf(j), i <= j
  PROVE  /\ Packet(i).usSeq \in Nat /\ Packet(j).usSeq \in Nat
         /\ j - i \in 0 .. stream.length - 1
         /\ \/ Packet(j).usSeq = Packet(i).usSeq + (j - i)
            \/ Packet(j).usSeq = Packet(i).usSeq + (j - i) - SeqSpace
<1> DEFINE x == stream.first + i - 1
           d == j - i
<1>1. /\ stream.length \in Nat /\ 1 <= stream.length /\ stream.length < SeqSpace
      /\ stream.first \in Nat /\ SeqSpace \in Nat \ {0}
  BY StreamFacts
<1>2. /\ i \in Nat /\ i >= 1 /\ j \in Nat /\ Base(FrameOf(i)) \in Nat
      /\ i \in Base(FrameOf(i)) + 1 .. Base(FrameOf(i)) + stream.length
      /\ j \in Base(FrameOf(i)) + 1 .. Base(FrameOf(i)) + stream.length
      /\ Packet(i).usSeq = (stream.first + i - 1) % SeqSpace
      /\ Packet(j).usSeq = (stream.first + j - 1) % SeqSpace
  <2>1. /\ FrameOf(i) \in 1 .. stream.frames /\ i \in Nat /\ i >= 1
        /\ i \in Base(FrameOf(i)) + 1 .. Base(FrameOf(i)) + stream.length
        /\ Packet(i).usSeq = (stream.first + i - 1) % SeqSpace
    BY PositionOf
  <2>2. /\ j \in Nat /\ j \in Base(FrameOf(j)) + 1 .. Base(FrameOf(j)) + stream.length
        /\ Packet(j).usSeq = (stream.first + j - 1) % SeqSpace
    BY PositionOf
  <2>3. Base(FrameOf(i)) \in Nat
    BY <2>1, Bases
  <2> QED
    BY <2>1, <2>2, <2>3
<1>3. x \in Nat /\ d \in 0 .. stream.length - 1 /\ d \in 0 .. SeqSpace - 1
      /\ stream.first + j - 1 = x + d
  BY <1>1, <1>2
<1> HIDE DEF x, d
<1>4. (x + d) % SeqSpace = (x % SeqSpace) + d \/ (x + d) % SeqSpace = (x % SeqSpace) + d - SeqSpace
  BY <1>1, <1>3, ModAdd
<1>5. x % SeqSpace \in Nat /\ (x + d) % SeqSpace \in Nat
  BY <1>1, <1>3
<1> QED
  BY <1>2, <1>3, <1>4, <1>5 DEF x, d

\* The timestamp and the number tell a packet from all others.
LEMMA PacketsApart ==
  ASSUME stream \in Streams, NEW i \in Position, NEW j \in Position,
         FrameOf(i) = FrameOf(j), Packet(i).usSeq = Packet(j).usSeq
  PROVE  i = j
<1>1. /\ stream.length \in Nat /\ stream.length < SeqSpace /\ SeqSpace \in Nat
      /\ i \in Nat /\ j \in Nat
  BY StreamFacts, PositionOf
<1>2. CASE i <= j
  BY <1>1, <1>2, NumbersInFrame
<1>3. CASE j <= i
  BY <1>1, <1>3, NumbersInFrame
<1> QED
  BY <1>1, <1>2, <1>3

-----------------------------------------------------------------------------
(* A complete frame is the end of a frame that was sent.                   *)

\* s is not empty, and is what t ends with.
IsEnd(s, t) ==
  /\ s # <<>> /\ Len(s) <= Len(t)
  /\ \A i \in 1 .. Len(s) : s[i] = t[Len(t) - Len(s) + i]

LEMMA EndIsSuffix ==
  ASSUME NEW A, NEW s \in Seq(A), NEW t \in Seq(A), IsEnd(s, t)
  PROVE  IsSuffix(s, t) /\ s \in Suffixes(t) \ {<<>>}
<1> DEFINE m == Len(s)
           n == Len(t)
           r == Reverse(s)
           u == Reverse(t)
<1>1. /\ m \in Nat /\ n \in Nat /\ m <= n /\ m >= 1
      /\ \A i \in 1 .. m : s[i] \in A /\ s[i] = t[n - m + i]
      /\ \A i \in 1 .. n : t[i] \in A
  BY LenProperties, EmptySeq, ElementOfSeq DEF IsEnd
<1>2. /\ r = [i \in 1 .. m |-> s[(m - i) + 1]]
      /\ u = [i \in 1 .. n |-> t[(n - i) + 1]]
  BY DEF Reverse
<1>3. r \in Seq(A) /\ Len(r) = m
  <2>1. \A i \in 1 .. m : s[(m - i) + 1] \in A
    BY <1>1
  <2>2. r \in [1 .. m -> A]
    BY <1>2, <2>1
  <2> QED
    BY <1>1, <2>2
<1>4. u \in Seq(A) /\ Len(u) = n
  <2>1. \A i \in 1 .. n : t[(n - i) + 1] \in A
    BY <1>1
  <2>2. u \in [1 .. n -> A]
    BY <1>2, <2>1
  <2> QED
    BY <1>1, <2>2
<1>5. \A i \in 1 .. m : r[i] = u[i]
  <2> SUFFICES ASSUME NEW i \in 1 .. m
               PROVE  r[i] = u[i]
    OBVIOUS
  <2>1. r[i] = s[(m - i) + 1] /\ i \in 1 .. n /\ u[i] = t[(n - i) + 1]
    BY <1>1, <1>2
  <2>2. (m - i) + 1 \in 1 .. m /\ n - m + ((m - i) + 1) = (n - i) + 1
    BY <1>1
  <2> QED
    BY <1>1, <2>1, <2>2
<1> HIDE DEF r, u
<1>6. SubSeq(r, 1, m) = SubSeq(u, 1, m)
  <2>1. 1 \in 1 .. Len(r) + 1 /\ m \in 0 .. Len(r) /\ 1 \in 1 .. Len(u) + 1 /\ m \in 0 .. Len(u)
    BY <1>1, <1>3, <1>4
  <2>2. /\ SubSeq(r, 1, m) = [i \in 1 .. m |-> r[i]]
        /\ SubSeq(u, 1, m) = [i \in 1 .. m |-> u[i]]
    <3>1. /\ SubSeq(r, 1, m) = [i \in 1 .. (m - 1 + 1) |-> r[1 + i - 1]]
          /\ SubSeq(u, 1, m) = [i \in 1 .. (m - 1 + 1) |-> u[1 + i - 1]]
      BY <1>1, <1>3, <1>4
    <3>2. m - 1 + 1 = m /\ \A i \in 1 .. m : 1 + i - 1 = i
      BY <1>1
    <3> QED
      BY <3>1, <3>2
  <2> QED
    BY <1>5, <2>2
<1>7. IsSuffix(s, t)
  BY <1>1, <1>3, <1>4, <1>6 DEF IsSuffix, IsPrefix, r, u
<1>8. s = SubSeq(t, n - m + 1, n) /\ n - m + 1 \in 1 .. n
  <2>1. SubSeq(t, n - m + 1, n) = [i \in 1 .. (n - (n - m + 1) + 1) |-> t[(n - m + 1) + i - 1]]
    BY <1>1
  <2>2. n - (n - m + 1) + 1 = m /\ \A i \in 1 .. m : (n - m + 1) + i - 1 = n - m + i
    BY <1>1
  <2>3. s = [i \in 1 .. m |-> s[i]]
    BY LenProperties
  <2>4. n - m + 1 \in 1 .. n
    BY <1>1
  <2> QED
    BY <1>1, <2>1, <2>2, <2>3, <2>4
<1>9. s \in Suffixes(t) \ {<<>>}
  BY <1>1, <1>8 DEF Suffixes, IsEnd
<1> QED
  BY <1>7, <1>9

\* What was sent of a frame.
LEMMA SentShape ==
  ASSUME stream \in Streams, NEW t \in 1 .. stream.frames
  PROVE  /\ SentSeqs(t) \in Seq(SeqNum) /\ Len(SentSeqs(t)) = stream.length
         /\ \A k \in 1 .. stream.length : SentSeqs(t)[k] = Packet(Base(t) + k).usSeq
<1>1. stream.length \in Nat
  BY StreamFacts
<1>2. ASSUME NEW k \in 1 .. stream.length
      PROVE  Packet(Base(t) + k).usSeq \in SeqNum
  <2>1. Base(t) + k \in Position
    BY InFrame
  <2>2. Packet(Base(t) + k) \in FragmentType
    BY <2>1, PositionOf, OrganizerAssumption
  <2> QED
    BY <2>2 DEF FragmentType
<1>3. SentSeqs(t) = [k \in 1 .. stream.length |-> Packet(Base(t) + k).usSeq]
  BY DEF SentSeqs, Base
<1>4. SentSeqs(t) \in [1 .. stream.length -> SeqNum]
  BY <1>2, <1>3
<1> QED
  BY <1>1, <1>3, <1>4

\* A sorted queue in which every number is one more than the last, modulo
\* SeqSpace, does not pass the largest number.
LEMMA RunsOn ==
  ASSUME NEW q \in Seq(Entry), q # <<>>, Sorted(q), SeqSpace > 1,
         \A i \in DOMAIN q : q[i].usSeq = (q[1].usSeq + i - 1) % SeqSpace
  PROVE  /\ q[1].usSeq \in Nat /\ q[1].usSeq + Len(q) - 1 < SeqSpace
         /\ \A i \in 1 .. Len(q) : q[i].usSeq = q[1].usSeq + i - 1
<1> DEFINE n == Len(q)
           a == q[1].usSeq
           S == SeqSpace
<1>1. /\ n \in Nat /\ n >= 1 /\ DOMAIN q = 1 .. n /\ S \in Nat \ {0} /\ S > 1
      /\ \A i \in 1 .. n : q[i] \in Entry
  BY LenProperties, EmptySeq, ElementOfSeq, OrganizerAssumption
<1>2. \A i \in 1 .. n : q[i].usSeq \in 0 .. S - 1
  BY <1>1 DEF Entry, SeqNum
<1>3. a \in 0 .. S - 1
  BY <1>1, <1>2
<1>4. \A i \in 1 .. n : q[i].usSeq = (a + i - 1) % S
  BY <1>1
<1>5. \A i, j \in 1 .. n : i <= j => q[i].usSeq <= q[j].usSeq
  BY <1>1 DEF Sorted
<1> DEFINE num(i) == q[i].usSeq
<1>6. \A i \in 1 .. n : num(i) = (a + i - 1) % S
  BY <1>4
<1>7. a = num(1)
  OBVIOUS
<1> HIDE DEF n, a, S, num
<1>8. \A x \in 0 .. S - 1 : x % S = x
  <2>1. ASSUME NEW x \in 0 .. S - 1
        PROVE  x % S = x
    <3>1. (0 * S + x) % S = x
      BY <1>1, DivUnique
    <3>2. 0 * S + x = x
      BY <1>1
    <3> QED
      BY <3>1, <3>2
  <2> QED
    BY <2>1
<1>9. S % S = 0
  <2>1. S = 1 * S + 0 /\ 0 \in 0 .. S - 1
    BY <1>1
  <2> QED
    BY <1>1, <2>1, DivUnique
<1>10. a + n - 1 < S
  <2> SUFFICES ASSUME a + n - 1 >= S
               PROVE  FALSE
    BY <1>1, <1>3
  <2> DEFINE j == S - a + 1
  <2>1. j \in 1 .. n /\ a + j - 1 = S /\ 1 \in 1 .. n /\ 1 <= j
    BY <1>1, <1>3
  <2>2. num(j) = 0
    BY <1>6, <1>9, <2>1
  <2>3. a <= 0
    BY <1>5, <1>7, <2>1, <2>2 DEF num
  <2>4. a = 0
    BY <1>3, <2>3
  <2>5. S \in 1 .. n /\ j \in 1 .. n /\ S <= j /\ a + S - 1 = S - 1 /\ S - 1 \in 0 .. S - 1
    BY <1>1, <2>1, <2>4
  <2>6. num(S) = S - 1
    BY <1>6, <1>8, <2>5
  <2>7. S - 1 <= 0
    BY <1>5, <2>2, <2>5, <2>6 DEF num
  <2> QED
    BY <1>1, <2>7
<1>11. \A i \in 1 .. n : num(i) = a + i - 1
  <2> SUFFICES ASSUME NEW i \in 1 .. n
               PROVE  num(i) = a + i - 1
    OBVIOUS
  <2>1. a + i - 1 \in 0 .. S - 1
    BY <1>1, <1>3, <1>10
  <2> QED
    BY <1>6, <1>8, <2>1
<1> QED
  BY <1>1, <1>3, <1>10, <1>11 DEF n, a, S, num

\* A frame of the cache whose entries are packets of frame t, the last one among
\* them, and that checkFrame finds complete, is what t ends with.
LEMMA CompleteIsEnd ==
  ASSUME stream \in Streams, NEW t \in 1 .. stream.frames, NEW f, Complete(f),
         NEW q \in Seq(Entry), f.PacketQueue = q, Sorted(q),
         \A j \in DOMAIN q : \E i \in Position :
           FrameOf(i) = t /\ q[j].usSeq = Packet(i).usSeq,
         \E j \in DOMAIN q : q[j].usSeq = Packet(t * stream.length).usSeq
  PROVE  IsEnd(Seqs(q), SentSeqs(t)) /\ Seqs(q) \in Seq(SeqNum)
<1> DEFINE n == Len(q)
           a == q[1].usSeq
           S == SeqSpace
           L == stream.length
           e == t * stream.length
           M == Packet(t * stream.length).usSeq
<1>1. /\ q # <<>> /\ \A i \in DOMAIN q : q[i].usSeq = (q[1].usSeq + i - 1) % SeqSpace
      /\ n \in Nat /\ n >= 1 /\ DOMAIN q = 1 .. n
  BY LenProperties, EmptySeq DEF Complete
<1>2. L \in Nat /\ 1 <= L /\ L < S /\ S \in Nat /\ SeqSpace > 1
  BY StreamFacts
<1>3. a \in Nat /\ a + n - 1 < S /\ \A i \in 1 .. n : q[i].usSeq = a + i - 1
  BY <1>1, <1>2, RunsOn
<1>4. e \in Position /\ FrameOf(e) = t /\ e \in Nat /\ e = Base(t) + L /\ Base(t) \in Nat
  <2>1. e = Base(t) + L /\ L \in 1 .. L /\ Base(t) \in Nat
    BY <1>2, Bases
  <2> QED
    BY <1>2, <2>1, InFrame
<1>5. M \in Nat
  BY <1>4, NumbersInFrame
<1>6. ASSUME NEW i \in 1 .. n
      PROVE  \E p \in Position : /\ FrameOf(p) = t /\ Packet(p).usSeq = a + i - 1
                                 /\ p \in Nat /\ e - p \in 0 .. L - 1
                                 /\ M = a + i - 1 + (e - p) \/ M = a + i - 1 + (e - p) - S
  <2>1. PICK p \in Position : FrameOf(p) = t /\ q[i].usSeq = Packet(p).usSeq
    BY <1>1
  <2>2. Packet(p).usSeq = a + i - 1
    BY <1>3, <2>1
  <2>3. p \in Nat /\ p <= e
    BY <1>2, <1>4, <2>1, PositionOf
  <2>4. e - p \in 0 .. L - 1 /\ (M = a + i - 1 + (e - p) \/ M = a + i - 1 + (e - p) - S)
    BY <1>4, <2>1, <2>2, <2>3, NumbersInFrame
  <2> QED
    BY <2>1, <2>2, <2>3, <2>4
<1>7. PICK j \in 1 .. n : M = a + j - 1
  BY <1>1, <1>3
<1>8. a \in Nat /\ a + n - 1 < S
  BY <1>3
<1> HIDE DEF n, a, S, L, e, M
<1>15. j = n
  <2> SUFFICES ASSUME j < n
               PROVE  FALSE
    BY <1>1, <1>7
  <2>1. j + 1 \in 1 .. n
    BY <1>1
  <2>2. PICK w \in 0 .. L - 1 :
          M = a + (j + 1) - 1 + w \/ M = a + (j + 1) - 1 + w - S
    BY <1>6, <2>1
  <2> QED
    BY <1>1, <1>2, <1>7, <1>8, <2>2
<1>9. ASSUME NEW i \in 1 .. n
      PROVE  n - i \in 0 .. L - 1 /\ a + i - 1 = Packet(Base(t) + (L - n + i)).usSeq
  <2>1. PICK p \in Position : /\ Packet(p).usSeq = a + i - 1
                              /\ p \in Nat /\ e - p \in 0 .. L - 1
                              /\ M = a + i - 1 + (e - p) \/ M = a + i - 1 + (e - p) - S
    BY <1>6
  <2>2. e - p = n - i
    <3> DEFINE w == e - p
    <3>1. w \in 0 .. L - 1 /\ (M = a + i - 1 + w \/ M = a + i - 1 + w - S)
      BY <2>1
    <3> HIDE DEF w
    <3>2. w = n - i
      BY <1>1, <1>2, <1>7, <1>8, <1>15, <3>1
    <3> QED
      BY <3>2 DEF w
  <2>3. p = Base(t) + (L - n + i) /\ p \in Nat
    <3>1. e \in Nat /\ Base(t) \in Nat /\ e = Base(t) + L
      BY <1>4
    <3>2. p \in Nat /\ n \in Nat /\ L \in Nat /\ i \in Nat
      BY <1>1, <1>2, <2>1
    <3> QED
      BY <2>2, <3>1, <3>2
  <2> QED
    BY <2>1, <2>2, <2>3
<1>10. n <= L
  <2>1. 1 \in 1 .. n
    BY <1>1
  <2>2. n - 1 \in 0 .. L - 1
    BY <1>9, <2>1
  <2> QED
    BY <1>1, <1>2, <2>2
<1>11. Seqs(q) \in Seq(SeqNum) /\ Len(Seqs(q)) = n /\ \A i \in 1 .. n : Seqs(q)[i] = a + i - 1
  <2>1. Seqs(q) = [i \in 1 .. n |-> q[i].usSeq]
    BY <1>1 DEF Seqs
  <2>2. Seqs(q) \in Seq(SeqNum)
    BY SeqsType
  <2>3. Len(Seqs(q)) = n
    BY <1>1, <2>1, <2>2, LenProperties
  <2> QED
    BY <1>3, <2>1, <2>2, <2>3
<1>12. Seqs(q) # <<>>
  BY <1>1, <1>11, EmptySeq
<1>13. ASSUME NEW i \in 1 .. n
       PROVE  Seqs(q)[i] = SentSeqs(t)[L - n + i]
  <2>1. L - n + i \in 1 .. L
    BY <1>1, <1>2, <1>10
  <2>2. SentSeqs(t)[L - n + i] = Packet(Base(t) + (L - n + i)).usSeq
    BY <2>1, SentShape DEF L
  <2> QED
    BY <1>9, <1>11, <2>2
<1>14. Len(SentSeqs(t)) = L
  BY SentShape DEF L
<1> QED
  BY <1>10, <1>11, <1>12, <1>13, <1>14 DEF IsEnd

-----------------------------------------------------------------------------
(* What is in the cache came from the stream.                              *)

InHandIs(p) == inHand[Viewer] # Nothing /\ inHand[Viewer].pkt = Packet(p)

\* A frame object in use has packets of one frame that have arrived, the last one
\* when it has a marker.
FromStream(f) ==
  /\ f.unTimestamp \in 1 .. stream.frames
  /\ \A j \in DOMAIN f.PacketQueue : \E i \in Position :
       /\ FrameOf(i) = f.unTimestamp /\ arrived[i] > 0
       /\ f.PacketQueue[j].usSeq = Packet(i).usSeq
  /\ f.bMarker => \E j \in DOMAIN f.PacketQueue :
       f.PacketQueue[j].usSeq = Packet(f.unTimestamp * stream.length).usSeq

CacheInv ==
  /\ stream \in Streams
  /\ arrived \in [Position -> Nat] /\ missing \subseteq Position
  /\ inHand[Viewer] # Nothing => \E p \in Position : InHandIs(p) /\ arrived[p] > 0
  /\ \A s \in rtpFrameMap[Viewer] : FromStream(frame[Viewer][s])

LEMMA ViewerIsConn == Viewer \in Conn /\ Conn = {Viewer}
BY StreamAssumption

\* The stream itself does not change.
LEMMA StreamStays ==
  ASSUME stream' = stream
  PROVE  /\ Position' = Position /\ ArrivesInOrder' = ArrivesInOrder
         /\ \A i : FrameOf(i)' = FrameOf(i) /\ Packet(i)' = Packet(i) /\ SentSeqs(i)' = SentSeqs(i)
<1>1. \A i : Packet(i)' = Packet(i)
  BY DEF Packet
<1> QED
  BY <1>1 DEF Position, ArrivesInOrder, FrameOf, SentSeqs

\* The steps of the stream are steps of the organizer.
LEMMA OrganizerSteps ==
  ASSUME CacheInv, [StreamNext]_svars
  PROVE  [Next]_vars
<1>1. ASSUME NEW i \in Position, Arrive(i)
      PROVE  Next
  <2>1. Packet(i) \in Fragment
    BY PositionOf DEF CacheInv
  <2> QED
    BY <1>1, <2>1, ViewerIsConn DEF Arrive, Next
<1>2. CASE Process
  BY <1>2, ViewerIsConn DEF Process, Next, Handle
<1>3. CASE Connect
  BY <1>3, ViewerIsConn DEF Connect, Next
<1>4. ASSUME NEW i \in Position, ArriveWithoutBuffer(i) \/ Lose(i)
      PROVE  UNCHANGED vars
  BY <1>4 DEF ArriveWithoutBuffer, Lose
<1> QED
  BY <1>1, <1>2, <1>3, <1>4 DEF StreamNext, svars

\* insert keeps every entry of the queue and adds one.
LEMMA InsertElements ==
  ASSUME NEW q \in Seq(Entry), NEW p \in Entry
  PROVE  /\ \A j \in DOMAIN Insert(q, p) :
              Insert(q, p)[j] = p \/ \E k \in DOMAIN q : Insert(q, p)[j] = q[k]
         /\ \A k \in DOMAIN q : \E j \in DOMAIN Insert(q, p) : Insert(q, p)[j] = q[k]
         /\ \E j \in DOMAIN Insert(q, p) : Insert(q, p)[j] = p
<1>1. PICK m \in 1 .. Len(q) + 1 : Insert(q, p) = PutAt(q, m, p)
  BY InsertShape
<1>2. Len(q) \in Nat /\ DOMAIN q = 1 .. Len(q)
  BY LenProperties
<1> DEFINE r == PutAt(q, m, p)
<1>3. /\ DOMAIN r = 1 .. Len(q) + 1
      /\ \A j \in 1 .. Len(q) + 1 : r[j] = IF j < m THEN q[j] ELSE IF j = m THEN p ELSE q[j - 1]
  BY DEF PutAt
<1> HIDE DEF r
<1>4. ASSUME NEW j \in 1 .. Len(q) + 1
      PROVE  r[j] = p \/ \E k \in 1 .. Len(q) : r[j] = q[k]
  <2>1. CASE j < m
    <3>1. j \in 1 .. Len(q) /\ r[j] = q[j]
      BY <1>2, <1>3, <2>1
    <3> QED
      BY <3>1
  <2>2. CASE j > m
    <3>1. j - 1 \in 1 .. Len(q) /\ r[j] = q[j - 1]
      BY <1>2, <1>3, <2>2
    <3> QED
      BY <3>1
  <2>3. CASE j = m
    BY <1>3, <2>3
  <2> QED
    BY <1>2, <2>1, <2>2, <2>3
<1>5. ASSUME NEW k \in 1 .. Len(q)
      PROVE  \E j \in 1 .. Len(q) + 1 : r[j] = q[k]
  <2>1. CASE k < m
    <3>1. k \in 1 .. Len(q) + 1 /\ r[k] = q[k]
      BY <1>2, <1>3, <2>1
    <3> QED
      BY <3>1
  <2>2. CASE k >= m
    <3>1. k + 1 \in 1 .. Len(q) + 1 /\ r[k + 1] = q[k]
      BY <1>2, <1>3, <2>2
    <3> QED
      BY <3>1
  <2> QED
    BY <1>2, <2>1, <2>2
<1>6. r[m] = p /\ m \in 1 .. Len(q) + 1
  BY <1>3
<1>7. Insert(q, p) = r
  BY <1>1 DEF r
<1>8. DOMAIN Insert(q, p) = 1 .. Len(q) + 1 /\ DOMAIN q = 1 .. Len(q)
  BY <1>2, <1>3, <1>7
<1>9. \A j \in DOMAIN Insert(q, p) :
        Insert(q, p)[j] = p \/ \E k \in DOMAIN q : Insert(q, p)[j] = q[k]
  BY <1>4, <1>7, <1>8
<1>10. \A k \in DOMAIN q : \E j \in DOMAIN Insert(q, p) : Insert(q, p)[j] = q[k]
  BY <1>5, <1>7, <1>8
<1>11. \E j \in DOMAIN Insert(q, p) : Insert(q, p)[j] = p
  BY <1>6, <1>7, <1>8
<1> QED
  BY <1>9, <1>10, <1>11

\* The frame object a packet goes into: its timestamp, its marker, its entries.
LEMMA InsertedFrame ==
  ASSUME OrganizerInv, NEW s, HasFragment(Viewer), Target(Viewer, s),
         NEW g, g = Inserted(Viewer, s)[s]
  PROVE  /\ s \in Slot
         /\ g.unTimestamp = inHand[Viewer].pkt.unTimestamp
         /\ s \in rtpFrameMap[Viewer] => frame[Viewer][s].unTimestamp = g.unTimestamp
         /\ g.bMarker <=> \/ s \in rtpFrameMap[Viewer] /\ frame[Viewer][s].bMarker
                          \/ inHand[Viewer].pkt.bMarker
         /\ \A j \in DOMAIN g.PacketQueue :
              \/ g.PacketQueue[j].usSeq = inHand[Viewer].pkt.usSeq
              \/ /\ s \in rtpFrameMap[Viewer]
                 /\ \E k \in DOMAIN frame[Viewer][s].PacketQueue :
                      g.PacketQueue[j] = frame[Viewer][s].PacketQueue[k]
         /\ s \in rtpFrameMap[Viewer] =>
              \A k \in DOMAIN frame[Viewer][s].PacketQueue : \E j \in DOMAIN g.PacketQueue :
                g.PacketQueue[j] = frame[Viewer][s].PacketQueue[k]
         /\ \E j \in DOMAIN g.PacketQueue :
              g.PacketQueue[j].usSeq = inHand[Viewer].pkt.usSeq
<1> DEFINE c == Viewer
           q == frame[c][s].PacketQueue
           e == EntryInHand(c)
           p == inHand[c].pkt
<1>1. /\ c \in Conn /\ c \in open /\ TypeOK
      /\ FramesOK(frame[c], rtpFrameMap[c], rtpFrameFreeList[c])
  BY FramesOKHolds, ViewerIsConn DEF OrganizerInv, HasFragment
<1>2. s \in Slot
  BY <1>1 DEF Target, SameTimestamp, TypeOK
<1>3. p \in FragmentType /\ e \in Entry /\ e.usSeq = p.usSeq
  BY <1>1, InHandType DEF HasFragment, EntryInHand
<1>4. frame[c] \in [Slot -> FrameInfo] /\ frame[c][s] \in FrameInfo /\ q \in Seq(Entry)
  BY <1>1, <1>2 DEF TypeOK, FrameInfo
<1>5. /\ g.PacketQueue = Insert(q, e)
      /\ g.unTimestamp = (IF s \in rtpFrameMap[c] THEN frame[c][s].unTimestamp ELSE p.unTimestamp)
  BY <1>1, <1>2, InsertedShape
<1>6. s \in rtpFrameMap[c] => frame[c][s].unTimestamp = p.unTimestamp
  <2>1. s \in rtpFrameMap[c] => s \notin rtpFrameFreeList[c]
    BY <1>1 DEF FramesOK
  <2> QED
    BY <2>1 DEF Target, SameTimestamp
<1>7. s \notin rtpFrameMap[c] => q = <<>>
  BY <1>1, <1>2 DEF FramesOK
<1>8. g.bMarker <=> (s \in rtpFrameMap[c] /\ frame[c][s].bMarker) \/ p.bMarker
  <2> DEFINE f == Prepared(c, s)
             h == [f EXCEPT !.bMarker = @ \/ p.bMarker, !.PacketQueue = Insert(@, e)]
  <2>1. /\ f \in FrameInfo
        /\ f.bMarker <=> (s \in rtpFrameMap[c] /\ frame[c][s].bMarker)
    BY <1>3, <1>4 DEF Prepared, FrameInfo, FragmentType
  <2>2. g = h
    <3>1. Inserted(c, s) = [frame[c] EXCEPT ![s] = h]
      BY Zenon DEF Inserted, EntryInHand
    <3> QED
      BY <1>2, <1>4, <3>1
  <2> HIDE DEF f, e, p
  <2>3. h.bMarker = (f.bMarker \/ p.bMarker)
    BY <2>1 DEF FrameInfo
  <2> QED
    BY <2>1, <2>2, <2>3
<1> HIDE DEF q, e, p
<1>9. /\ \A j \in DOMAIN Insert(q, e) :
           Insert(q, e)[j] = e \/ \E k \in DOMAIN q : Insert(q, e)[j] = q[k]
      /\ \A k \in DOMAIN q : \E j \in DOMAIN Insert(q, e) : Insert(q, e)[j] = q[k]
      /\ \E j \in DOMAIN Insert(q, e) : Insert(q, e)[j] = e
  BY <1>3, <1>4, InsertElements
<1>10. s \notin rtpFrameMap[c] => DOMAIN q = {}
  BY <1>7
<1>11. \A j \in DOMAIN g.PacketQueue :
         \/ g.PacketQueue[j].usSeq = p.usSeq
         \/ s \in rtpFrameMap[c] /\ \E k \in DOMAIN q : g.PacketQueue[j] = q[k]
  BY <1>3, <1>5, <1>9, <1>10
<1>12. \A k \in DOMAIN q : \E j \in DOMAIN g.PacketQueue : g.PacketQueue[j] = q[k]
  BY <1>5, <1>9
<1>13. \E j \in DOMAIN g.PacketQueue : g.PacketQueue[j].usSeq = p.usSeq
  BY <1>3, <1>5, <1>9
<1> QED
  BY <1>2, <1>5, <1>6, <1>8, <1>11, <1>12, <1>13 DEF q, p

\* After an insertion every frame in use is still one of the stream.
LEMMA AfterInsertion ==
  ASSUME OrganizerInv, CacheInv, NEW s, HasFragment(Viewer), Target(Viewer, s)
  PROVE  /\ \A u \in rtpFrameMap[Viewer] \cup {s} : FromStream(Inserted(Viewer, s)[u])
         /\ \A u \in rtpFrameMap[Viewer] \ {s} : Inserted(Viewer, s)[u] = frame[Viewer][u]
<1> DEFINE after == Inserted(Viewer, s)
           g == after[s]
           p == inHand[Viewer].pkt
           q == frame[Viewer][s].PacketQueue
<1>1. /\ s \in Slot
      /\ g.unTimestamp = p.unTimestamp
      /\ s \in rtpFrameMap[Viewer] => frame[Viewer][s].unTimestamp = g.unTimestamp
      /\ g.bMarker <=> (s \in rtpFrameMap[Viewer] /\ frame[Viewer][s].bMarker) \/ p.bMarker
      /\ \A j \in DOMAIN g.PacketQueue :
           \/ g.PacketQueue[j].usSeq = p.usSeq
           \/ s \in rtpFrameMap[Viewer] /\ \E k \in DOMAIN q : g.PacketQueue[j] = q[k]
      /\ s \in rtpFrameMap[Viewer] =>
           \A k \in DOMAIN q : \E j \in DOMAIN g.PacketQueue : g.PacketQueue[j] = q[k]
      /\ \E j \in DOMAIN g.PacketQueue : g.PacketQueue[j].usSeq = p.usSeq
  BY InsertedFrame
<1>2. \A u \in rtpFrameMap[Viewer] \ {s} : after[u] = frame[Viewer][u]
  <2>1. TypeOK /\ rtpFrameMap[Viewer] \subseteq Slot
    BY ViewerIsConn DEF OrganizerInv, TypeOK
  <2> QED
    BY <1>1, <2>1, InsertedShape, ViewerIsConn
<1>3. PICK i \in Position : p = Packet(i) /\ arrived[i] > 0
  BY DEF CacheInv, InHandIs, HasFragment
<1>4. /\ FrameOf(i) \in 1 .. stream.frames
      /\ p.unTimestamp = FrameOf(i)
      /\ p.bMarker <=> i = FrameOf(i) * stream.length
  BY <1>3, PositionOf DEF CacheInv
<1>5. s \in rtpFrameMap[Viewer] => FromStream(frame[Viewer][s])
  BY DEF CacheInv
<1> HIDE DEF g, after, p, q
<1>6. g.unTimestamp = FrameOf(i)
  BY <1>1, <1>4
<1>7. ASSUME NEW j \in DOMAIN g.PacketQueue
      PROVE  \E k \in Position : /\ FrameOf(k) = g.unTimestamp /\ arrived[k] > 0
                                 /\ g.PacketQueue[j].usSeq = Packet(k).usSeq
  <2>1. CASE g.PacketQueue[j].usSeq = p.usSeq
    BY <1>3, <1>6, <2>1
  <2>2. CASE s \in rtpFrameMap[Viewer] /\ \E k \in DOMAIN q : g.PacketQueue[j] = q[k]
    BY <1>1, <1>5, <2>2 DEF FromStream, q
  <2> QED
    BY <1>1, <2>1, <2>2
<1>8. g.bMarker => \E j \in DOMAIN g.PacketQueue :
                     g.PacketQueue[j].usSeq = Packet(g.unTimestamp * stream.length).usSeq
  <2>1. CASE p.bMarker
    BY <1>1, <1>3, <1>4, <1>6, <2>1
  <2>2. CASE s \in rtpFrameMap[Viewer] /\ frame[Viewer][s].bMarker
    <3>1. PICK k \in DOMAIN q : q[k].usSeq = Packet(g.unTimestamp * stream.length).usSeq
      BY <1>1, <1>5, <2>2 DEF FromStream, q
    <3>2. PICK j \in DOMAIN g.PacketQueue : g.PacketQueue[j] = q[k]
      BY <1>1, <2>2, <3>1
    <3> QED
      BY <3>1, <3>2
  <2> QED
    BY <1>1, <2>1, <2>2
<1>9. FromStream(g)
  BY <1>4, <1>6, <1>7, <1>8 DEF FromStream
<1>10. \A u \in rtpFrameMap[Viewer] : FromStream(frame[Viewer][u])
  BY DEF CacheInv
<1> QED
  BY <1>2, <1>9, <1>10 DEF g, after

\* The cache changes to frames of the stream.
LEMMA CacheChanges ==
  ASSUME CacheInv, stream' = stream,
         arrived' \in [Position -> Nat], \A i \in Position : arrived[i] > 0 => arrived'[i] > 0,
         missing' \subseteq Position,
         inHand'[Viewer] # Nothing =>
           \E p \in Position : inHand'[Viewer].pkt = Packet(p) /\ arrived'[p] > 0,
         NEW g, \A u \in rtpFrameMap'[Viewer] : frame'[Viewer][u] = g[u] /\ FromStream(g[u])
  PROVE  CacheInv'
<1>1. /\ Position' = Position /\ \A i : FrameOf(i)' = FrameOf(i) /\ Packet(i)' = Packet(i)
  BY StreamStays
<1>2. inHand'[Viewer] # Nothing => \E p \in Position' : InHandIs(p)' /\ arrived'[p] > 0
  BY <1>1 DEF InHandIs
<1>3. ASSUME NEW u \in rtpFrameMap'[Viewer]
      PROVE  FromStream(frame[Viewer][u])'
  BY <1>1, <1>3 DEF FromStream
<1> QED
  BY <1>1, <1>2, <1>3 DEF CacheInv

-----------------------------------------------------------------------------
(* What each step does to the one organizer.                               *)

LEMMA ConnectFacts ==
  ASSUME OrganizerInv, Connect
  PROVE  /\ rtpFrameMap'[Viewer] = {} /\ inHand[Viewer] = Nothing /\ inHand' = inHand
         /\ rtpFrameMap[Viewer] = {}
         /\ UNCHANGED <<stream, arrived, missing, log>>
BY ViewerIsConn DEF Connect, Create, OrganizerInv, ClosedIsEmpty

LEMMA ArriveFacts ==
  ASSUME OrganizerInv, stream \in Streams, NEW i \in Position, Arrive(i)
  PROVE  /\ inHand[Viewer] = Nothing
         /\ inHand'[Viewer] # Nothing /\ inHand'[Viewer].pkt = Packet(i)
         /\ UNCHANGED <<stream, missing, log, rtpFrameMap, frame>>
         /\ MayArrive(i) /\ arrived' = [arrived EXCEPT ![i] = @ + 1]
<1>1. PICK b \in Buf : inHand' = [inHand EXCEPT ![Viewer] = [buf |-> b, pkt |-> Packet(i)]]
  BY DEF Arrive, GetBuffer
<1>2. inHand'[Viewer] = [buf |-> b, pkt |-> Packet(i)]
  BY <1>1, ViewerIsConn DEF OrganizerInv, TypeOK
<1>3. Packet(i) \in Fragment
  BY PositionOf
<1>4. [buf |-> b, pkt |-> Packet(i)] # Nothing
  BY <1>3, OrganizerAssumption
<1> QED
  BY <1>2, <1>4 DEF Arrive, GetBuffer

LEMMA HoldFacts ==
  ASSUME OrganizerInv, NEW s \in Slot, InsertAndHold(Viewer, s)
  PROVE  /\ HasFragment(Viewer) /\ Target(Viewer, s)
         /\ rtpFrameMap'[Viewer] = rtpFrameMap[Viewer] \cup {s}
         /\ frame'[Viewer] = Inserted(Viewer, s)
         /\ inHand'[Viewer] = Nothing
BY ViewerIsConn DEF InsertAndHold, OrganizerInv, TypeOK

LEMMA DeliverFacts ==
  ASSUME OrganizerInv, NEW s \in Slot, InsertAndDeliver(Viewer, s)
  PROVE  /\ HasFragment(Viewer) /\ Target(Viewer, s)
         /\ inHand'[Viewer] = Nothing
         /\ \E small \in rtpFrameMap[Viewer] \cup {s} :
              /\ rtpFrameMap'[Viewer] = (rtpFrameMap[Viewer] \cup {s}) \ {small}
              /\ \A u \in rtpFrameMap'[Viewer] : frame'[Viewer][u] = Inserted(Viewer, s)[u]
              /\ Complete(Inserted(Viewer, s)[small])
              /\ Inserted(Viewer, s)[small].PacketQueue \in Seq(Entry)
              /\ Sorted(Inserted(Viewer, s)[small].PacketQueue)
              /\ \A u \in rtpFrameMap'[Viewer] :
                   Inserted(Viewer, s)[small].unTimestamp < Inserted(Viewer, s)[u].unTimestamp
              /\ delivered'[Viewer] = [unTimestamp |-> Inserted(Viewer, s)[small].unTimestamp,
                                       seqs |-> Seqs(Inserted(Viewer, s)[small].PacketQueue)]
<1> DEFINE c == Viewer
           inUse == rtpFrameMap[c] \cup {s}
           free == rtpFrameFreeList[c] \ {s}
           after == Inserted(c, s)
           small == SmallFrame(inUse, after)
<1>1. /\ TypeOK /\ c \in Conn
      /\ HasFragment(c) /\ Target(c, s)
      /\ Complete(after[small])
      /\ delivered' = [delivered EXCEPT ![c] =
                         [unTimestamp |-> after[small].unTimestamp,
                          seqs |-> Seqs(after[small].PacketQueue)]]
      /\ ReleaseRtpPacket(c, after, inUse, free, small, {})
      /\ inHand' = [inHand EXCEPT ![c] = Nothing]
  BY ViewerIsConn DEF InsertAndDeliver, OrganizerInv
<1>2. after \in [Slot -> FrameInfo] /\ FramesOK(after, inUse, free)
  BY <1>1, InsertKeeps
<1>3. inUse \in SUBSET Slot /\ inUse # {}
  BY <1>1 DEF TypeOK
<1> HIDE DEF after
<1>4. small \in inUse /\ \A u \in inUse : after[small].unTimestamp <= after[u].unTimestamp
  BY <1>2, <1>3, SmallFrameExists
<1> HIDE DEF small
<1>5. /\ frame' = [frame EXCEPT ![c] = Emptied(after, {small})]
      /\ rtpFrameMap' = [rtpFrameMap EXCEPT ![c] = inUse \ {small}]
  BY <1>1 DEF ReleaseRtpPacket
<1>6. /\ frame'[c] = Emptied(after, {small}) /\ rtpFrameMap'[c] = inUse \ {small}
      /\ inHand'[c] = Nothing
      /\ delivered'[c] = [unTimestamp |-> after[small].unTimestamp,
                          seqs |-> Seqs(after[small].PacketQueue)]
  BY <1>1, <1>5 DEF TypeOK
<1>7. \A u \in inUse \ {small} : frame'[c][u] = after[u]
  <2>1. {small} \in SUBSET Slot
    BY <1>3, <1>4
  <2>2. \A u \in Slot \ {small} : Emptied(after, {small})[u] = after[u]
    BY <1>2, <2>1, EmptiedShape
  <2> QED
    BY <1>3, <1>6, <2>2
<1>8. after[small].PacketQueue \in Seq(Entry) /\ Sorted(after[small].PacketQueue)
  BY <1>2, <1>3, <1>4 DEF FrameInfo, FramesOK
<1>9. ASSUME NEW u \in inUse \ {small}
      PROVE  after[small].unTimestamp < after[u].unTimestamp
  <2>1. after[small].unTimestamp # after[u].unTimestamp
    BY <1>2, <1>4 DEF FramesOK
  <2>2. after[small].unTimestamp \in Nat /\ after[u].unTimestamp \in Nat
    BY <1>2, <1>3, <1>4 DEF FrameInfo
  <2>3. after[small].unTimestamp <= after[u].unTimestamp
    BY <1>4
  <2> QED
    BY <2>1, <2>2, <2>3
<1> HIDE DEF inUse, free
<1>10. /\ rtpFrameMap'[c] = inUse \ {small}
       /\ \A u \in rtpFrameMap'[c] : frame'[c][u] = after[u]
       /\ \A u \in rtpFrameMap'[c] : after[small].unTimestamp < after[u].unTimestamp
  BY <1>6, <1>7, <1>9
<1> QED
  BY <1>1, <1>4, <1>6, <1>8, <1>10 DEF after, inUse

LEMMA EvictFacts ==
  ASSUME OrganizerInv, Evict(Viewer)
  PROVE  /\ HasFragment(Viewer)
         /\ rtpFrameMap'[Viewer] \subseteq rtpFrameMap[Viewer]
         /\ \A u \in rtpFrameMap'[Viewer] : frame'[Viewer][u] = frame[Viewer][u]
         /\ inHand'[Viewer] = Nothing
<1> DEFINE c == Viewer
           small == SmallFrame(rtpFrameMap[c], frame[c])
<1>1. /\ TypeOK /\ c \in Conn /\ c \in open /\ HasFragment(c)
      /\ frame[c] \in [Slot -> FrameInfo]
      /\ rtpFrameFreeList[c] = {}
      /\ FramesOK(frame[c], rtpFrameMap[c], {})
      /\ frame' = [frame EXCEPT ![c] = Emptied(frame[c], {small})]
      /\ rtpFrameMap' = [rtpFrameMap EXCEPT ![c] = rtpFrameMap[c] \ {small}]
      /\ inHand' = [inHand EXCEPT ![c] = Nothing]
  BY FramesOKHolds, ViewerIsConn
     DEF Evict, HasFragment, OrganizerInv, TypeOK, ReleaseRtpPacket
<1>2. rtpFrameMap[c] = Slot /\ Slot # {}
  BY <1>1, OrganizerAssumption DEF FramesOK
<1>3. small \in Slot
  BY <1>1, <1>2, SmallFrameExists
<1> HIDE DEF small
<1>4. \A u \in Slot \ {small} : Emptied(frame[c], {small})[u] = frame[c][u]
  BY <1>1, <1>3, EmptiedShape
<1>5. /\ rtpFrameMap'[c] = rtpFrameMap[c] \ {small} /\ inHand'[c] = Nothing
      /\ frame'[c] = Emptied(frame[c], {small})
  BY <1>1 DEF TypeOK
<1> QED
  BY <1>1, <1>2, <1>4, <1>5

\* The packet in hand is a fragment of the stream.
LEMMA HandIsFragment ==
  ASSUME CacheInv, inHand[Viewer] # Nothing
  PROVE  inHand[Viewer].pkt # OtherPacket
<1>1. PICK p \in Position : inHand[Viewer].pkt = Packet(p)
  BY DEF CacheInv, InHandIs
<1>2. Packet(p) \in Fragment
  BY PositionOf DEF CacheInv
<1> QED
  BY <1>1, <1>2, OrganizerAssumption

LEMMA InitCacheInv == StreamInit => CacheInv
BY ViewerIsConn DEF StreamInit, Init, CacheInv, Position

LEMMA NextCacheInv ==
  ASSUME OrganizerInv, CacheInv, [StreamNext]_svars
  PROVE  CacheInv'
<1>1. CASE Connect
  BY <1>1, ConnectFacts, StreamStays DEF CacheInv
<1>2. ASSUME NEW i \in Position, Arrive(i)
      PROVE  CacheInv'
  <2>1. /\ inHand'[Viewer].pkt = Packet(i)
        /\ UNCHANGED <<stream, missing, rtpFrameMap, frame>>
        /\ arrived' = [arrived EXCEPT ![i] = @ + 1]
    BY <1>2, ArriveFacts DEF CacheInv
  <2>2. arrived \in [Position -> Nat]
    BY DEF CacheInv
  <2>3. /\ arrived' \in [Position -> Nat] /\ arrived'[i] > 0
        /\ \A j \in Position : arrived[j] > 0 => arrived'[j] > 0
    BY <2>1, <2>2
  <2>4. \A u \in rtpFrameMap'[Viewer] :
          frame'[Viewer][u] = frame[Viewer][u] /\ FromStream(frame[Viewer][u])
    BY <2>1 DEF CacheInv
  <2>5. missing' \subseteq Position
    BY <2>1 DEF CacheInv
  <2> QED
    BY <2>1, <2>3, <2>4, <2>5, CacheChanges
<1>3. ASSUME NEW i \in Position, ArriveWithoutBuffer(i) \/ Lose(i)
      PROVE  CacheInv'
  <2>1. UNCHANGED <<stream, rtpFrameMap, frame, inHand>>
    BY <1>3 DEF ArriveWithoutBuffer, Lose, vars
  <2>2. arrived' = arrived \/ arrived' = [arrived EXCEPT ![i] = @ + 1]
    BY <1>3 DEF ArriveWithoutBuffer, Lose
  <2>3. arrived \in [Position -> Nat]
    BY DEF CacheInv
  <2>4. /\ arrived' \in [Position -> Nat]
        /\ \A j \in Position : arrived[j] > 0 => arrived'[j] > 0
    BY <2>2, <2>3
  <2>5. \A u \in rtpFrameMap'[Viewer] :
          frame'[Viewer][u] = frame[Viewer][u] /\ FromStream(frame[Viewer][u])
    BY <2>1 DEF CacheInv
  <2>6. missing' \subseteq Position
    BY <1>3 DEF CacheInv, ArriveWithoutBuffer, Lose
  <2>7. inHand'[Viewer] # Nothing =>
          \E p \in Position : inHand'[Viewer].pkt = Packet(p) /\ arrived'[p] > 0
    BY <2>1, <2>4 DEF CacheInv, InHandIs
  <2> QED
    BY <2>1, <2>4, <2>5, <2>6, <2>7, CacheChanges
<1>4. ASSUME NEW s \in Slot, InsertAndHold(Viewer, s), UNCHANGED <<stream, arrived, missing, log>>
      PROVE  CacheInv'
  <2>1. /\ HasFragment(Viewer) /\ Target(Viewer, s) /\ inHand'[Viewer] = Nothing
        /\ rtpFrameMap'[Viewer] = rtpFrameMap[Viewer] \cup {s}
        /\ frame'[Viewer] = Inserted(Viewer, s)
    BY <1>4, HoldFacts
  <2>2. \A u \in rtpFrameMap'[Viewer] : FromStream(Inserted(Viewer, s)[u])
    BY <2>1, AfterInsertion
  <2>3. \A u \in rtpFrameMap'[Viewer] :
          frame'[Viewer][u] = Inserted(Viewer, s)[u] /\ FromStream(Inserted(Viewer, s)[u])
    BY <2>1, <2>2
  <2>4. arrived' \in [Position -> Nat] /\ missing' \subseteq Position
    BY <1>4 DEF CacheInv
  <2> QED
    BY <1>4, <2>1, <2>3, <2>4, CacheChanges
<1>5. ASSUME NEW s \in Slot, InsertAndDeliver(Viewer, s), UNCHANGED <<stream, arrived, missing>>
      PROVE  CacheInv'
  <2>1. /\ HasFragment(Viewer) /\ Target(Viewer, s) /\ inHand'[Viewer] = Nothing
        /\ rtpFrameMap'[Viewer] \subseteq rtpFrameMap[Viewer] \cup {s}
        /\ \A u \in rtpFrameMap'[Viewer] : frame'[Viewer][u] = Inserted(Viewer, s)[u]
    BY <1>5, DeliverFacts
  <2>2. \A u \in rtpFrameMap'[Viewer] : FromStream(Inserted(Viewer, s)[u])
    BY <2>1, AfterInsertion
  <2>3. \A u \in rtpFrameMap'[Viewer] :
          frame'[Viewer][u] = Inserted(Viewer, s)[u] /\ FromStream(Inserted(Viewer, s)[u])
    BY <2>1, <2>2
  <2>4. arrived' \in [Position -> Nat] /\ missing' \subseteq Position
    BY <1>5 DEF CacheInv
  <2> QED
    BY <1>5, <2>1, <2>3, <2>4, CacheChanges
<1>6. ASSUME Evict(Viewer), UNCHANGED <<stream, arrived>>,
             missing' = missing \cup {i \in Position : Packet(i) = inHand[Viewer].pkt}
      PROVE  CacheInv'
  <2>1. /\ inHand'[Viewer] = Nothing
        /\ rtpFrameMap'[Viewer] \subseteq rtpFrameMap[Viewer]
        /\ \A u \in rtpFrameMap'[Viewer] : frame'[Viewer][u] = frame[Viewer][u]
    BY <1>6, EvictFacts
  <2>2. \A u \in rtpFrameMap'[Viewer] :
          frame'[Viewer][u] = frame[Viewer][u] /\ FromStream(frame[Viewer][u])
    BY <2>1 DEF CacheInv
  <2>3. arrived' \in [Position -> Nat] /\ missing' \subseteq Position
    BY <1>6 DEF CacheInv
  <2> QED
    BY <1>6, <2>1, <2>2, <2>3, CacheChanges
<1>7. CASE UNCHANGED svars
  BY <1>7, StreamStays DEF svars, vars, CacheInv, InHandIs, FromStream
<1> QED
  BY <1>1, <1>2, <1>3, <1>4, <1>5, <1>6, <1>7 DEF StreamNext, Process

-----------------------------------------------------------------------------
(* What is given to the application is the end of a frame.                 *)

\* The last fragment of frame t.
MarkerOf(t) == t * stream.length

\* A frame of the log is the end of a frame of the stream, whose last fragment
\* has arrived.
LogInv ==
  /\ log \in Seq(Delivery)
  /\ \A k \in DOMAIN log :
       /\ log[k].unTimestamp \in 1 .. stream.frames
       /\ arrived[MarkerOf(log[k].unTimestamp)] > 0
       /\ IsEnd(log[k].seqs, SentSeqs(log[k].unTimestamp))

LEMMA MarkerPosition ==
  ASSUME stream \in Streams, NEW t \in 1 .. stream.frames
  PROVE  MarkerOf(t) \in Position /\ FrameOf(MarkerOf(t)) = t
<1>1. stream.length \in 1 .. stream.length
  BY StreamFacts
<1>2. MarkerOf(t) = Base(t) + stream.length
  BY Bases DEF MarkerOf
<1> QED
  BY <1>1, <1>2, InFrame

\* Two positions with the same packet are the same.
LEMMA SamePacket ==
  ASSUME stream \in Streams, NEW i \in Position, NEW j \in Position, Packet(i) = Packet(j)
  PROVE  i = j
<1>1. FrameOf(i) = FrameOf(j)
  BY PositionOf
<1> QED
  BY <1>1, PacketsApart

\* A frame of the stream with a marker has its last fragment, which has arrived.
LEMMA MarkerArrived ==
  ASSUME stream \in Streams, NEW f, FromStream(f), f.bMarker
  PROVE  /\ arrived[MarkerOf(f.unTimestamp)] > 0
         /\ \E j \in DOMAIN f.PacketQueue :
              f.PacketQueue[j].usSeq = Packet(MarkerOf(f.unTimestamp)).usSeq
<1> DEFINE t == f.unTimestamp
<1>1. t \in 1 .. stream.frames
  BY DEF FromStream
<1>2. PICK j \in DOMAIN f.PacketQueue : f.PacketQueue[j].usSeq = Packet(MarkerOf(t)).usSeq
  BY DEF FromStream, MarkerOf
<1>3. PICK i \in Position : /\ FrameOf(i) = t /\ arrived[i] > 0
                            /\ f.PacketQueue[j].usSeq = Packet(i).usSeq
  BY <1>2 DEF FromStream
<1>4. MarkerOf(t) \in Position /\ FrameOf(MarkerOf(t)) = t
  BY <1>1, MarkerPosition
<1>5. i = MarkerOf(t)
  BY <1>2, <1>3, <1>4, PacketsApart
<1> QED
  BY <1>2, <1>3, <1>5

\* A delivery: the frame given comes from the cache, it is the end of what was
\* sent, and the frames that stay are younger.
LEMMA Given ==
  ASSUME OrganizerInv, CacheInv, NEW s \in Slot, InsertAndDeliver(Viewer, s)
  PROVE  \E t \in 1 .. stream.frames : \E q \in Seq(SeqNum) :
           /\ delivered'[Viewer] = [unTimestamp |-> t, seqs |-> q]
           /\ IsEnd(q, SentSeqs(t))
           /\ arrived[MarkerOf(t)] > 0
           /\ \E u \in rtpFrameMap[Viewer] \cup {s} :
                Inserted(Viewer, s)[u].unTimestamp = t /\ Inserted(Viewer, s)[u].bMarker
           /\ \A u \in rtpFrameMap'[Viewer] : t < frame'[Viewer][u].unTimestamp
<1> DEFINE after == Inserted(Viewer, s)
<1>1. HasFragment(Viewer) /\ Target(Viewer, s)
  BY DeliverFacts
<1>2. PICK small \in rtpFrameMap[Viewer] \cup {s} :
        /\ \A u \in rtpFrameMap'[Viewer] : frame'[Viewer][u] = after[u]
        /\ Complete(after[small])
        /\ after[small].PacketQueue \in Seq(Entry)
        /\ Sorted(after[small].PacketQueue)
        /\ \A u \in rtpFrameMap'[Viewer] : after[small].unTimestamp < after[u].unTimestamp
        /\ delivered'[Viewer] = [unTimestamp |-> after[small].unTimestamp,
                                 seqs |-> Seqs(after[small].PacketQueue)]
  BY DeliverFacts
<1> DEFINE f == after[small]
           t == f.unTimestamp
           q == f.PacketQueue
<1>3. FromStream(f)
  BY <1>1, <1>2, AfterInsertion
<1>4. stream \in Streams
  BY DEF CacheInv
<1> HIDE DEF after, f
<1>5. f.bMarker /\ t \in 1 .. stream.frames
  BY <1>2, <1>3 DEF Complete, FromStream, f
<1>6. /\ arrived[MarkerOf(t)] > 0
      /\ \E j \in DOMAIN q : q[j].usSeq = Packet(t * stream.length).usSeq
  BY <1>3, <1>4, <1>5, MarkerArrived DEF MarkerOf
<1>7. \A j \in DOMAIN q : \E i \in Position : FrameOf(i) = t /\ q[j].usSeq = Packet(i).usSeq
  BY <1>3 DEF FromStream
<1>8. q \in Seq(Entry) /\ Sorted(q) /\ Complete(f)
  BY <1>2 DEF f
<1>9. IsEnd(Seqs(q), SentSeqs(t)) /\ Seqs(q) \in Seq(SeqNum)
  <2> HIDE DEF t
  <2> QED
    BY <1>4, <1>5, <1>6, <1>7, <1>8, CompleteIsEnd
<1>10. \A u \in rtpFrameMap'[Viewer] : t < frame'[Viewer][u].unTimestamp
  BY <1>2 DEF f
<1>11. delivered'[Viewer] = [unTimestamp |-> t, seqs |-> Seqs(q)]
  BY <1>2 DEF f
<1>12. \E u \in rtpFrameMap[Viewer] \cup {s} : after[u].unTimestamp = t /\ after[u].bMarker
  BY <1>5 DEF f
<1> HIDE DEF t, q
<1> QED
  BY <1>5, <1>6, <1>9, <1>10, <1>11, <1>12 DEF after, t

LEMMA NextLogInv ==
  ASSUME OrganizerInv, CacheInv, CacheInv', LogInv, [StreamNext]_svars
  PROVE  LogInv'
<1>1. CASE log' = log /\ stream' = stream
  <2>1. /\ stream \in Streams /\ arrived \in [Position -> Nat] /\ arrived' \in [Position -> Nat]
    BY <1>1, StreamStays DEF CacheInv
  <2>2. \A i \in Position : arrived[i] > 0 => arrived'[i] > 0
    <3>1. ASSUME NEW i \in Position, arrived' = [arrived EXCEPT ![i] = @ + 1]
          PROVE  \A j \in Position : arrived[j] > 0 => arrived'[j] > 0
      BY <2>1, <3>1
    <3>2. ASSUME arrived' = arrived
          PROVE  \A j \in Position : arrived[j] > 0 => arrived'[j] > 0
      BY <3>2
    <3> QED
      BY <3>1, <3>2 DEF StreamNext, svars, Connect, Process, Arrive, ArriveWithoutBuffer, Lose
  <2>3. \A t \in 1 .. stream.frames : MarkerOf(t)' = MarkerOf(t) /\ MarkerOf(t) \in Position
    BY <1>1, <2>1, MarkerPosition DEF MarkerOf
  <2>4. \A t : SentSeqs(t)' = SentSeqs(t)
    BY <1>1, StreamStays
  <2>5. ASSUME NEW k \in DOMAIN log', NEW t, t = log'[k].unTimestamp
        PROVE  /\ t \in 1 .. stream'.frames
               /\ arrived'[MarkerOf(t)'] > 0
               /\ IsEnd(log'[k].seqs, SentSeqs(t)')
    <3>1. /\ t \in 1 .. stream.frames /\ arrived[MarkerOf(t)] > 0
          /\ IsEnd(log[k].seqs, SentSeqs(t))
      BY <1>1, <2>5 DEF LogInv
    <3>2. MarkerOf(t)' = MarkerOf(t) /\ SentSeqs(t)' = SentSeqs(t) /\ MarkerOf(t) \in Position
      BY <2>3, <2>4, <3>1
    <3> QED
      BY <1>1, <2>2, <3>1, <3>2
  <2>6. log' \in Seq(Delivery)
    BY <1>1 DEF LogInv
  <2> QED
    BY <2>5, <2>6 DEF LogInv
<1>2. ASSUME NEW s \in Slot, InsertAndDeliver(Viewer, s), UNCHANGED <<stream, arrived>>,
             log' = Append(log, delivered'[Viewer])
      PROVE  LogInv'
  <2>1. PICK t \in 1 .. stream.frames : \E q \in Seq(SeqNum) :
           /\ delivered'[Viewer] = [unTimestamp |-> t, seqs |-> q]
           /\ IsEnd(q, SentSeqs(t))
           /\ arrived[MarkerOf(t)] > 0
    BY <1>2, Given
  <2>2. PICK q \in Seq(SeqNum) :
           /\ delivered'[Viewer] = [unTimestamp |-> t, seqs |-> q]
           /\ IsEnd(q, SentSeqs(t))
           /\ arrived[MarkerOf(t)] > 0
    BY <2>1
  <2> DEFINE d == [unTimestamp |-> t, seqs |-> q]
  <2>3. d \in Delivery
    BY StreamFacts DEF Delivery, CacheInv
  <2>4. d.unTimestamp = t /\ d.seqs = q
    OBVIOUS
  <2> HIDE DEF d
  <2>5. log' = Append(log, d) /\ log \in Seq(Delivery) /\ log' \in Seq(Delivery)
    BY <1>2, <2>2, <2>3, AppendProperties DEF d, LogInv
  <2>6. \A k \in DOMAIN log' : log'[k] = d \/ (k \in DOMAIN log /\ log'[k] = log[k])
    BY <2>3, <2>5, AppendProperties, LenProperties
  <2>7. \A u : MarkerOf(u)' = MarkerOf(u) /\ SentSeqs(u)' = SentSeqs(u)
    BY <1>2, StreamStays DEF MarkerOf
  <2>8. ASSUME NEW k \in DOMAIN log'
        PROVE  /\ log'[k].unTimestamp \in 1 .. stream.frames
               /\ arrived[MarkerOf(log'[k].unTimestamp)] > 0
               /\ IsEnd(log'[k].seqs, SentSeqs(log'[k].unTimestamp))
    <3>1. CASE log'[k] = d
      BY <2>2, <2>4, <3>1
    <3>2. CASE k \in DOMAIN log /\ log'[k] = log[k]
      BY <3>2 DEF LogInv
    <3> QED
      BY <2>6, <3>1, <3>2
  <2> QED
    BY <1>2, <2>5, <2>7, <2>8 DEF LogInv, MarkerOf
<1> QED
  BY <1>1, <1>2 DEF StreamNext, svars, Connect, Process, Arrive, ArriveWithoutBuffer, Lose

-----------------------------------------------------------------------------
(* In order of arrival.                                                    *)

\* In order of arrival, what is still awaited is the rest of the stream, and
\* every frame of the log is older than the packet in hand and than the frames
\* of the cache.
OrderInv ==
  ArrivesInOrder =>
    /\ \A i \in Awaited : \A j \in Position : i <= j => j \in Awaited
    /\ \A k \in DOMAIN log :
         /\ \A p \in Position : InHandIs(p) => MarkerOf(log[k].unTimestamp) < p
         /\ \A s \in rtpFrameMap[Viewer] : log[k].unTimestamp < frame[Viewer][s].unTimestamp

\* What was given is over before what is awaited.
LEMMA LogBeforeAwaited ==
  ASSUME CacheInv, LogInv, OrderInv, ArrivesInOrder, NEW i \in Awaited, NEW k \in DOMAIN log
  PROVE  MarkerOf(log[k].unTimestamp) < i
<1> DEFINE m == MarkerOf(log[k].unTimestamp)
<1>1. m \in Position /\ arrived[m] > 0
  BY MarkerPosition DEF LogInv, CacheInv
<1>2. m \notin Awaited
  BY <1>1 DEF Awaited
<1>3. i \in Position /\ i \in Nat /\ m \in Nat
  BY <1>1, PositionOf DEF CacheInv, Awaited
<1>4. ~(i <= m)
  BY <1>1, <1>2 DEF OrderInv
<1> QED
  BY <1>3, <1>4

\* A frame is older when its last fragment comes before a fragment of the other.
LEMMA OlderFrame ==
  ASSUME stream \in Streams, NEW t \in 1 .. stream.frames, NEW p \in Position, MarkerOf(t) < p
  PROVE  t < FrameOf(p)
<1> DEFINE u == FrameOf(p)
           n == stream.length
<1>1. /\ u \in 1 .. stream.frames /\ p \in Base(u) + 1 .. Base(u) + n
      /\ Base(u) \in Nat /\ u * n = Base(u) + n /\ n \in Nat
      /\ stream.frames \in Nat /\ p \in Nat
  BY PositionOf, Bases, StreamFacts
<1>2. p <= u * n
  BY <1>1
<1>3. u <= t => u * n <= t * n
  BY <1>1, MulMono
<1>4. t * n \in Int /\ u * n \in Int
  BY <1>1, MulType
<1>5. t * n < p
  BY DEF MarkerOf
<1> HIDE DEF u, n
<1>6. ~(u <= t)
  BY <1>1, <1>2, <1>3, <1>4, <1>5
<1>7. t \in Int /\ u \in Int
  BY <1>1
<1> QED
  BY <1>6, <1>7 DEF u

\* After an insertion the log is older than every frame in use.
LEMMA LogBeforeCache ==
  ASSUME OrganizerInv, CacheInv, LogInv, OrderInv, ArrivesInOrder,
         NEW s, HasFragment(Viewer), Target(Viewer, s),
         NEW u \in rtpFrameMap[Viewer] \cup {s}, NEW k \in DOMAIN log
  PROVE  log[k].unTimestamp < Inserted(Viewer, s)[u].unTimestamp
<1>1. CASE u \in rtpFrameMap[Viewer] \ {s}
  BY <1>1, AfterInsertion DEF OrderInv
<1>2. CASE u = s
  <2>1. Inserted(Viewer, s)[s].unTimestamp = inHand[Viewer].pkt.unTimestamp
    BY InsertedFrame
  <2>2. PICK p \in Position : InHandIs(p)
    BY DEF HasFragment, CacheInv
  <2>3. Inserted(Viewer, s)[s].unTimestamp = FrameOf(p)
    BY <2>1, <2>2, PositionOf DEF InHandIs, CacheInv
  <2>4. MarkerOf(log[k].unTimestamp) < p
    BY <2>2 DEF OrderInv
  <2>5. log[k].unTimestamp < FrameOf(p)
    BY <2>4, OlderFrame DEF LogInv, CacheInv
  <2> QED
    BY <1>2, <2>3, <2>5
<1> QED
  BY <1>1, <1>2

\* In order of arrival a packet that may come or be lost is the next one.
LEMMA NextOnly ==
  ASSUME CacheInv, OrderInv, ArrivesInOrder, NEW i \in Position, MayArrive(i) \/ Lose(i)
  PROVE  /\ i \in Awaited
         /\ Awaited \ {i} = {j \in Awaited : i < j}
         /\ \A a \in Awaited \ {i} : \A j \in Position : a <= j => j \in Awaited \ {i}
<1>1. /\ stream \in Streams /\ Position \subseteq Nat /\ Awaited \subseteq Position
      /\ arrived \in [Position -> Nat]
  BY PositionOf DEF CacheInv, Awaited
<1>2. i \in Awaited /\ \A j \in Awaited : i <= j
  BY <1>1 DEF MayArrive, Lose, ArrivesInOrder, Awaited
<1>3. Awaited \ {i} = {j \in Awaited : i < j}
  <2>1. \A j \in Awaited : j # i <=> i < j
    BY <1>1, <1>2
  <2> QED
    BY <2>1
<1>4. \A a \in Awaited : \A j \in Position : a <= j => j \in Awaited
  BY DEF OrderInv
<1>5. ASSUME NEW a \in Awaited \ {i}, NEW j \in Position, a <= j
      PROVE  j \in Awaited \ {i}
  <2>1. a \in Nat /\ i \in Nat /\ j \in Nat /\ i < a
    BY <1>1, <1>2, <1>3
  <2>2. j # i
    BY <1>5, <2>1
  <2>3. j \in Awaited
    BY <1>4, <1>5
  <2> QED
    BY <2>2, <2>3
<1> QED
  BY <1>2, <1>3, <1>5

\* A step that changes nothing of the cache's and the log's.
LEMMA OrderKept ==
  ASSUME CacheInv, OrderInv, stream' = stream, log' = log,
         ArrivesInOrder => \A i \in Awaited' : \A j \in Position : i <= j => j \in Awaited',
         \A p \in Position : InHandIs(p)' /\ ArrivesInOrder =>
           \A k \in DOMAIN log : MarkerOf(log[k].unTimestamp) < p,
         \A s \in rtpFrameMap'[Viewer] : \A k \in DOMAIN log : ArrivesInOrder =>
           log[k].unTimestamp < frame'[Viewer][s].unTimestamp
  PROVE  OrderInv'
<1>1. Position' = Position /\ ArrivesInOrder' = ArrivesInOrder
  BY StreamStays
<1> SUFFICES ASSUME ArrivesInOrder'
             PROVE  OrderInv!2'
  BY DEF OrderInv
<1>2. \A i \in Awaited' : \A j \in Position' : i <= j => j \in Awaited'
  BY <1>1
<1>3. ASSUME NEW k \in DOMAIN log', NEW p \in Position', InHandIs(p)'
      PROVE  MarkerOf(log[k].unTimestamp)' < p
  <2>1. MarkerOf(log[k].unTimestamp) < p
    BY <1>1, <1>3
  <2> QED
    BY <2>1 DEF MarkerOf
<1>4. ASSUME NEW k \in DOMAIN log', NEW s \in rtpFrameMap'[Viewer]
      PROVE  log'[k].unTimestamp < frame'[Viewer][s].unTimestamp
  BY <1>1
<1> QED
  BY <1>2, <1>3, <1>4

\* A packet that came, or that got lost, is no longer awaited.
LEMMA AwaitedAfter ==
  ASSUME CacheInv, NEW i \in Position, stream' = stream,
         \/ arrived' = [arrived EXCEPT ![i] = @ + 1] /\ missing \subseteq missing'
            /\ missing' \subseteq missing \cup {i}
         \/ arrived' = arrived /\ missing' = missing \cup {i}
  PROVE  Awaited' = Awaited \ {i}
<1>1. arrived \in [Position -> Nat] /\ Position' = Position
  BY StreamStays DEF CacheInv
<1>2. CASE /\ arrived' = [arrived EXCEPT ![i] = @ + 1] /\ missing \subseteq missing'
           /\ missing' \subseteq missing \cup {i}
  <2>1. arrived'[i] # 0 /\ \A j \in Position \ {i} : arrived'[j] = arrived[j]
    BY <1>1, <1>2
  <2>2. \A j \in Position \ {i} : j \in missing' <=> j \in missing
    BY <1>2
  <2> QED
    BY <1>1, <2>1, <2>2 DEF Awaited
<1>3. CASE arrived' = arrived /\ missing' = missing \cup {i}
  BY <1>1, <1>3 DEF Awaited
<1> QED
  BY <1>2, <1>3

\* An eviction drops a packet that has come.
LEMMA AwaitedAfterEviction ==
  ASSUME CacheInv, inHand[Viewer] # Nothing, UNCHANGED <<stream, arrived>>,
         missing' = missing \cup {i \in Position : Packet(i) = inHand[Viewer].pkt}
  PROVE  Awaited' = Awaited
<1>1. PICK p \in Position : InHandIs(p) /\ arrived[p] > 0
  BY DEF CacheInv
<1>2. \A i \in Position : Packet(i) = inHand[Viewer].pkt => arrived[i] > 0
  BY <1>1, SamePacket DEF InHandIs, CacheInv
<1>3. Position' = Position
  BY StreamStays
<1> QED
  BY <1>2, <1>3 DEF Awaited

LEMMA InitOrderInv == StreamInit => OrderInv
<1> SUFFICES ASSUME StreamInit
             PROVE  OrderInv
  OBVIOUS
<1>1. log = <<>> /\ DOMAIN log = {} /\ \A j \in Position : j \in Awaited
  BY DEF StreamInit, Awaited
<1> QED
  BY <1>1 DEF OrderInv

LEMMA NextOrderInv ==
  ASSUME OrganizerInv, CacheInv, LogInv, OrderInv, [StreamNext]_svars
  PROVE  OrderInv'
<1>0. /\ ArrivesInOrder => \A i \in Awaited : \A j \in Position : i <= j => j \in Awaited
      /\ ArrivesInOrder => \A k \in DOMAIN log : \A s \in rtpFrameMap[Viewer] :
           log[k].unTimestamp < frame[Viewer][s].unTimestamp
      /\ \A p \in Position : InHandIs(p) /\ ArrivesInOrder =>
           \A k \in DOMAIN log : MarkerOf(log[k].unTimestamp) < p
  BY DEF OrderInv
<1>1. CASE Connect
  <2>1. /\ UNCHANGED <<stream, arrived, missing, log, inHand>> /\ rtpFrameMap'[Viewer] = {}
    BY <1>1, ConnectFacts
  <2>2. Awaited' = Awaited /\ \A p : InHandIs(p)' <=> InHandIs(p)
    BY <2>1, StreamStays DEF Awaited, InHandIs
  <2> QED
    BY <1>0, <2>1, <2>2, OrderKept
<1>2. ASSUME NEW i \in Position, Arrive(i)
      PROVE  OrderInv'
  <2>1. /\ inHand'[Viewer].pkt = Packet(i) /\ MayArrive(i)
        /\ UNCHANGED <<stream, missing, log, rtpFrameMap, frame>>
        /\ arrived' = [arrived EXCEPT ![i] = @ + 1]
    BY <1>2, ArriveFacts DEF CacheInv
  <2>2. Awaited' = Awaited \ {i}
    BY <2>1, AwaitedAfter
  <2>3. ArrivesInOrder => \A a \in Awaited' : \A j \in Position : a <= j => j \in Awaited'
    BY <2>1, <2>2, NextOnly
  <2>4. ASSUME NEW p \in Position, InHandIs(p)', ArrivesInOrder, NEW k \in DOMAIN log
        PROVE  MarkerOf(log[k].unTimestamp) < p
    <3>1. Packet(p) = Packet(i)
      BY <2>1, <2>4, StreamStays DEF InHandIs
    <3>2. p = i
      BY <3>1, SamePacket DEF CacheInv
    <3> QED
      BY <2>1, <2>4, <3>2, NextOnly, LogBeforeAwaited
  <2> QED
    BY <1>0, <2>1, <2>3, <2>4, OrderKept
<1>3. ASSUME NEW i \in Position, ArriveWithoutBuffer(i) \/ Lose(i)
      PROVE  OrderInv'
  <2>1. /\ UNCHANGED <<stream, log, rtpFrameMap, frame, inHand>>
        /\ MayArrive(i) \/ Lose(i)
    BY <1>3 DEF ArriveWithoutBuffer, Lose, vars
  <2>2. Awaited' = Awaited \ {i}
    BY <1>3, AwaitedAfter DEF ArriveWithoutBuffer, Lose
  <2>3. ArrivesInOrder => \A a \in Awaited' : \A j \in Position : a <= j => j \in Awaited'
    BY <2>1, <2>2, NextOnly
  <2>4. \A p : InHandIs(p)' <=> InHandIs(p)
    BY <2>1, StreamStays DEF InHandIs
  <2> QED
    BY <1>0, <2>1, <2>3, <2>4, OrderKept
<1>4. ASSUME NEW s \in Slot, InsertAndHold(Viewer, s), UNCHANGED <<stream, arrived, missing, log>>
      PROVE  OrderInv'
  <2>1. /\ HasFragment(Viewer) /\ Target(Viewer, s) /\ inHand'[Viewer] = Nothing
        /\ rtpFrameMap'[Viewer] = rtpFrameMap[Viewer] \cup {s}
        /\ frame'[Viewer] = Inserted(Viewer, s)
    BY <1>4, HoldFacts
  <2>2. Awaited' = Awaited /\ \A p : ~InHandIs(p)'
    BY <1>4, <2>1, StreamStays DEF Awaited, InHandIs
  <2>3. \A u \in rtpFrameMap'[Viewer] : \A k \in DOMAIN log : ArrivesInOrder =>
          log[k].unTimestamp < frame'[Viewer][u].unTimestamp
    BY <2>1, LogBeforeCache
  <2> QED
    BY <1>0, <1>4, <2>2, <2>3, OrderKept
<1>5. ASSUME NEW s \in Slot, InsertAndDeliver(Viewer, s), UNCHANGED <<stream, arrived, missing>>,
             log' = Append(log, delivered'[Viewer])
      PROVE  OrderInv'
  <2>1. /\ HasFragment(Viewer) /\ Target(Viewer, s) /\ inHand'[Viewer] = Nothing
        /\ rtpFrameMap'[Viewer] \subseteq rtpFrameMap[Viewer] \cup {s}
        /\ \A u \in rtpFrameMap'[Viewer] : frame'[Viewer][u] = Inserted(Viewer, s)[u]
    BY <1>5, DeliverFacts
  <2>2. Awaited' = Awaited /\ \A p : ~InHandIs(p)'
    BY <1>5, <2>1, StreamStays DEF Awaited, InHandIs
  <2>3. \A u \in rtpFrameMap'[Viewer] : \A k \in DOMAIN log : ArrivesInOrder =>
          log[k].unTimestamp < frame'[Viewer][u].unTimestamp
    BY <2>1, LogBeforeCache
  <2>4. PICK t \in 1 .. stream.frames : \E q \in Seq(SeqNum) :
           /\ delivered'[Viewer] = [unTimestamp |-> t, seqs |-> q]
           /\ \A u \in rtpFrameMap'[Viewer] : t < frame'[Viewer][u].unTimestamp
    BY <1>5, Given
  <2>5. PICK q \in Seq(SeqNum) : delivered'[Viewer] = [unTimestamp |-> t, seqs |-> q]
    BY <2>4
  <2> DEFINE d == [unTimestamp |-> t, seqs |-> q]
  <2>6. d \in Delivery /\ d.unTimestamp = t
    BY StreamFacts DEF Delivery, CacheInv
  <2> HIDE DEF d
  <2>7. log' = Append(log, d) /\ log \in Seq(Delivery)
    BY <1>5, <2>5 DEF d, LogInv
  <2>8. \A k \in DOMAIN log' : log'[k] = d \/ (k \in DOMAIN log /\ log'[k] = log[k])
    BY <2>6, <2>7, AppendProperties, LenProperties
  <2>9. ASSUME ArrivesInOrder, NEW u \in rtpFrameMap'[Viewer], NEW k \in DOMAIN log'
        PROVE  log'[k].unTimestamp < frame'[Viewer][u].unTimestamp
    BY <2>3, <2>4, <2>6, <2>8, <2>9
  <2> QED
    BY <1>0, <1>5, <2>2, <2>9, StreamStays DEF OrderInv
<1>6. ASSUME Evict(Viewer), UNCHANGED <<stream, arrived, log>>,
             missing' = missing \cup {i \in Position : Packet(i) = inHand[Viewer].pkt}
      PROVE  OrderInv'
  <2>1. /\ HasFragment(Viewer) /\ inHand'[Viewer] = Nothing
        /\ rtpFrameMap'[Viewer] \subseteq rtpFrameMap[Viewer]
        /\ \A u \in rtpFrameMap'[Viewer] : frame'[Viewer][u] = frame[Viewer][u]
    BY <1>6, EvictFacts
  <2>2. Awaited' = Awaited
    BY <1>6, <2>1, AwaitedAfterEviction DEF HasFragment
  <2>3. \A p : ~InHandIs(p)'
    BY <2>1 DEF InHandIs
  <2> QED
    BY <1>0, <1>6, <2>1, <2>2, <2>3, OrderKept
<1>7. CASE UNCHANGED svars
  <2>1. UNCHANGED <<stream, arrived, missing, log, inHand, rtpFrameMap, frame>>
    BY <1>7 DEF svars, vars
  <2>2. Awaited' = Awaited /\ \A p : InHandIs(p)' <=> InHandIs(p)
    BY <2>1, StreamStays DEF Awaited, InHandIs
  <2> QED
    BY <1>0, <2>1, <2>2, OrderKept
<1> QED
  BY <1>1, <1>2, <1>3, <1>4, <1>5, <1>6, <1>7 DEF StreamNext, Process

-----------------------------------------------------------------------------
(* No frame is given twice.                                                *)

\* Frame t is in the cache, with its last fragment, or in the log.
InMap(t) == \E s \in rtpFrameMap[Viewer] :
              frame[Viewer][s].unTimestamp = t /\ frame[Viewer][s].bMarker
InLog(t) == \E k \in DOMAIN log : log[k].unTimestamp = t

\* The last fragment of a frame, when it came once, is in one place: in the hands
\* of the network thread, in the cache, or given to the application.
OnceInv ==
  \A t \in 1 .. stream.frames :
    arrived[MarkerOf(t)] <= 1 =>
      /\ ~(InHandIs(MarkerOf(t)) /\ InMap(t))
      /\ ~(InHandIs(MarkerOf(t)) /\ InLog(t))
      /\ ~(InMap(t) /\ InLog(t))
      /\ \A j, k \in DOMAIN log : log[j].unTimestamp = t /\ log[k].unTimestamp = t => j = k

\* A last fragment that has not come is nowhere.
LEMMA NotYet ==
  ASSUME CacheInv, LogInv, NEW t \in 1 .. stream.frames, arrived[MarkerOf(t)] = 0
  PROVE  ~InMap(t) /\ ~InLog(t)
<1>1. ~InMap(t)
  BY MarkerArrived DEF InMap, CacheInv
<1>2. ~InLog(t)
  BY DEF InLog, LogInv
<1> QED
  BY <1>1, <1>2

\* A marker in the cache after an insertion was there, or was in hand.
LEMMA MarkerFrom ==
  ASSUME OrganizerInv, CacheInv, NEW s, HasFragment(Viewer), Target(Viewer, s),
         NEW u \in rtpFrameMap[Viewer] \cup {s}, Inserted(Viewer, s)[u].bMarker,
         NEW t, t = Inserted(Viewer, s)[u].unTimestamp
  PROVE  InMap(t) \/ InHandIs(MarkerOf(t))
<1>1. CASE u \in rtpFrameMap[Viewer] \ {s}
  BY <1>1, AfterInsertion DEF InMap
<1>2. CASE u = s
  <2>1. /\ t = inHand[Viewer].pkt.unTimestamp
        /\ s \in rtpFrameMap[Viewer] => frame[Viewer][s].unTimestamp = t
        /\ (s \in rtpFrameMap[Viewer] /\ frame[Viewer][s].bMarker) \/ inHand[Viewer].pkt.bMarker
    BY <1>2, InsertedFrame
  <2>2. PICK p \in Position : InHandIs(p)
    BY DEF HasFragment, CacheInv
  <2>3. t = FrameOf(p) /\ (inHand[Viewer].pkt.bMarker => p = FrameOf(p) * stream.length)
    BY <2>1, <2>2, PositionOf DEF InHandIs, CacheInv
  <2>4. inHand[Viewer].pkt.bMarker => InHandIs(MarkerOf(t))
    BY <2>2, <2>3 DEF MarkerOf
  <2>5. s \in rtpFrameMap[Viewer] /\ frame[Viewer][s].bMarker => InMap(t)
    BY <2>1 DEF InMap
  <2> QED
    BY <2>1, <2>4, <2>5
<1> QED
  BY <1>1, <1>2

\* A step that gives no frame to the application, puts nothing in hand and
\* brings only markers into the cache that were in hand.
LEMMA OnceKept ==
  ASSUME CacheInv, OnceInv, stream' = stream, log' = log,
         arrived' \in [Position -> Nat], \A i \in Position : arrived[i] <= arrived'[i],
         inHand'[Viewer] # Nothing => inHand' = inHand /\ \A t : InMap(t)' => InMap(t),
         \A t : InMap(t)' => InMap(t) \/ InHandIs(MarkerOf(t))
  PROVE  OnceInv'
<1>1. \A t : MarkerOf(t)' = MarkerOf(t)
  BY DEF MarkerOf
<1>2. \A t : InLog(t)' <=> InLog(t)
  BY DEF InLog
<1>3. \A i : InHandIs(i)' => InHandIs(i) /\ \A t : InMap(t)' => InMap(t)
  BY StreamStays DEF InHandIs
<1>4. ASSUME NEW t \in 1 .. stream.frames, arrived'[MarkerOf(t)] <= 1
      PROVE  arrived[MarkerOf(t)] <= 1
  <2>1. MarkerOf(t) \in Position
    BY MarkerPosition DEF CacheInv
  <2>2. arrived[MarkerOf(t)] \in Nat /\ arrived[MarkerOf(t)] <= arrived'[MarkerOf(t)]
    BY <2>1 DEF CacheInv
  <2>3. arrived'[MarkerOf(t)] \in Nat
    BY <2>1
  <2> QED
    BY <1>4, <2>2, <2>3
<1>5. ASSUME NEW t \in 1 .. stream'.frames, arrived'[MarkerOf(t)'] <= 1
      PROVE  /\ ~(InHandIs(MarkerOf(t))' /\ InMap(t)')
             /\ ~(InHandIs(MarkerOf(t))' /\ InLog(t)')
             /\ ~(InMap(t)' /\ InLog(t)')
             /\ \A j, k \in DOMAIN log : log[j].unTimestamp = t /\ log[k].unTimestamp = t => j = k
  <2>1. arrived[MarkerOf(t)] <= 1 /\ t \in 1 .. stream.frames
    BY <1>1, <1>4, <1>5
  <2>2. InHandIs(MarkerOf(t))' => InHandIs(MarkerOf(t)) /\ (InMap(t)' => InMap(t))
    BY <1>1, <1>3 DEF InHandIs
  <2> QED
    BY <1>2, <2>1, <2>2 DEF OnceInv
<1> QED
  BY <1>5 DEF OnceInv

LEMMA InitOnceInv == StreamInit => OnceInv
<1> SUFFICES ASSUME StreamInit
             PROVE  OnceInv
  OBVIOUS
<1>1. log = <<>> /\ DOMAIN log = {}
  BY DEF StreamInit
<1>2. inHand[Viewer] = Nothing /\ rtpFrameMap[Viewer] = {}
  BY ViewerIsConn DEF StreamInit, Init
<1> QED
  BY <1>1, <1>2 DEF OnceInv, InHandIs, InMap, InLog

LEMMA NextOnceInv ==
  ASSUME OrganizerInv, CacheInv, LogInv, OnceInv, [StreamNext]_svars
  PROVE  OnceInv'
<1>0. stream \in Streams /\ arrived \in [Position -> Nat] /\ \A i \in Position : arrived[i] <= arrived[i]
  BY DEF CacheInv
<1>1. CASE Connect
  <2>1. /\ UNCHANGED <<stream, arrived, log, inHand>> /\ rtpFrameMap'[Viewer] = {}
    BY <1>1, ConnectFacts
  <2>2. \A t : ~InMap(t)'
    BY <2>1 DEF InMap
  <2> QED
    BY <1>0, <2>1, <2>2, OnceKept
<1>2. ASSUME NEW i \in Position, Arrive(i)
      PROVE  OnceInv'
  <2>1. /\ inHand'[Viewer].pkt = Packet(i) /\ inHand[Viewer] = Nothing
        /\ UNCHANGED <<stream, log, rtpFrameMap, frame>>
        /\ arrived' = [arrived EXCEPT ![i] = @ + 1]
    BY <1>2, ArriveFacts DEF CacheInv
  <2>2. \A u : (MarkerOf(u)' = MarkerOf(u)) /\ (InMap(u)' <=> InMap(u)) /\ (InLog(u)' <=> InLog(u))
    BY <2>1 DEF MarkerOf, InMap, InLog
  <2>3. ASSUME NEW t \in 1 .. stream.frames, arrived'[MarkerOf(t)] <= 1
        PROVE  /\ ~(InHandIs(MarkerOf(t))' /\ (InMap(t) \/ InLog(t)))
               /\ ~(InMap(t) /\ InLog(t))
               /\ \A j, k \in DOMAIN log : log[j].unTimestamp = t /\ log[k].unTimestamp = t => j = k
    <3>1. MarkerOf(t) \in Position
      BY <1>0, MarkerPosition
    <3>2. CASE MarkerOf(t) = i
      <4>1. arrived[MarkerOf(t)] = 0
        BY <1>0, <2>1, <2>3, <3>1, <3>2
      <4> QED
        BY <4>1, NotYet DEF OnceInv
    <3>3. CASE MarkerOf(t) # i
      <4>1. arrived[MarkerOf(t)] <= 1
        BY <1>0, <2>1, <2>3, <3>1, <3>3
      <4>2. InHandIs(MarkerOf(t))' => Packet(MarkerOf(t)) = Packet(i)
        BY <2>1, <2>2, StreamStays DEF InHandIs
      <4>3. ~InHandIs(MarkerOf(t))'
        BY <1>0, <3>1, <3>3, <4>2, SamePacket
      <4> QED
        BY <4>1, <4>3 DEF OnceInv
    <3> QED
      BY <3>2, <3>3
  <2> QED
    BY <2>1, <2>2, <2>3 DEF OnceInv, InHandIs
<1>3. ASSUME NEW i \in Position, ArriveWithoutBuffer(i) \/ Lose(i)
      PROVE  OnceInv'
  <2>1. UNCHANGED <<stream, log, rtpFrameMap, frame, inHand>>
    BY <1>3 DEF ArriveWithoutBuffer, Lose, vars
  <2>2. arrived' = arrived \/ arrived' = [arrived EXCEPT ![i] = @ + 1]
    BY <1>3 DEF ArriveWithoutBuffer, Lose
  <2>3. arrived' \in [Position -> Nat] /\ \A j \in Position : arrived[j] <= arrived'[j]
    BY <1>0, <2>2
  <2>4. \A t : InMap(t)' <=> InMap(t)
    BY <2>1 DEF InMap
  <2> QED
    BY <2>1, <2>3, <2>4, OnceKept
<1>4. ASSUME NEW s \in Slot, InsertAndHold(Viewer, s), UNCHANGED <<stream, arrived, missing, log>>
      PROVE  OnceInv'
  <2>1. /\ HasFragment(Viewer) /\ Target(Viewer, s) /\ inHand'[Viewer] = Nothing
        /\ rtpFrameMap'[Viewer] = rtpFrameMap[Viewer] \cup {s}
        /\ frame'[Viewer] = Inserted(Viewer, s)
    BY <1>4, HoldFacts
  <2>2. \A t : InMap(t)' => InMap(t) \/ InHandIs(MarkerOf(t))
    BY <2>1, MarkerFrom DEF InMap
  <2> QED
    BY <1>0, <1>4, <2>1, <2>2, OnceKept
<1>5. ASSUME NEW s \in Slot, InsertAndDeliver(Viewer, s), UNCHANGED <<stream, arrived, missing>>,
             log' = Append(log, delivered'[Viewer])
      PROVE  OnceInv'
  <2>1. /\ HasFragment(Viewer) /\ Target(Viewer, s) /\ inHand'[Viewer] = Nothing
        /\ rtpFrameMap'[Viewer] \subseteq rtpFrameMap[Viewer] \cup {s}
        /\ \A u \in rtpFrameMap'[Viewer] : frame'[Viewer][u] = Inserted(Viewer, s)[u]
    BY <1>5, DeliverFacts
  <2>2. PICK t \in 1 .. stream.frames : \E q \in Seq(SeqNum) :
           /\ delivered'[Viewer] = [unTimestamp |-> t, seqs |-> q]
           /\ \E u \in rtpFrameMap[Viewer] \cup {s} :
                Inserted(Viewer, s)[u].unTimestamp = t /\ Inserted(Viewer, s)[u].bMarker
           /\ \A u \in rtpFrameMap'[Viewer] : t < frame'[Viewer][u].unTimestamp
    BY <1>5, Given
  <2>3. PICK q \in Seq(SeqNum) : delivered'[Viewer] = [unTimestamp |-> t, seqs |-> q]
    BY <2>2
  <2> DEFINE d == [unTimestamp |-> t, seqs |-> q]
  <2>4. d \in Delivery /\ d.unTimestamp = t /\ t \in Nat
    BY StreamFacts DEF Delivery, CacheInv
  <2> HIDE DEF d
  <2>5. log' = Append(log, d) /\ log \in Seq(Delivery)
    BY <1>5, <2>3 DEF d, LogInv
  <2>6. /\ Len(log) \in Nat /\ DOMAIN log = 1 .. Len(log) /\ DOMAIN log' = 1 .. Len(log) + 1
        /\ log'[Len(log) + 1] = d /\ \A k \in 1 .. Len(log) : log'[k] = log[k]
    BY <2>4, <2>5, AppendProperties, LenProperties
  <2>7. InMap(t) \/ InHandIs(MarkerOf(t))
    BY <2>1, <2>2, MarkerFrom
  <2>8. ~InMap(t)'
    BY <2>2, <2>4 DEF InMap
  <2>9. \A v : InMap(v)' => InMap(v) \/ InHandIs(MarkerOf(v))
    BY <2>1, MarkerFrom DEF InMap
  <2>10. \A k \in DOMAIN log' :
           \/ k \in DOMAIN log /\ log'[k] = log[k]
           \/ k = Len(log) + 1 /\ log'[k].unTimestamp = t
    BY <2>4, <2>6
  <2>11. ASSUME NEW v \in 1 .. stream.frames, arrived[MarkerOf(v)] <= 1
         PROVE  /\ ~(InMap(v)' /\ InLog(v)')
                /\ \A j, k \in DOMAIN log' :
                     log'[j].unTimestamp = v /\ log'[k].unTimestamp = v => j = k
    <3>1. CASE v = t
      <4>1. ~InLog(t)
        BY <2>7, <2>11, <3>1 DEF OnceInv
      <4>2. \A k \in DOMAIN log' : log'[k].unTimestamp = t => k = Len(log) + 1
        BY <2>10, <4>1 DEF InLog
      <4> QED
        BY <2>8, <3>1, <4>2
    <3>2. CASE v # t
      <4>1. \A k \in DOMAIN log' :
              log'[k].unTimestamp = v => k \in DOMAIN log /\ log[k].unTimestamp = v
        BY <2>10, <3>2
      <4>2. InLog(v)' => InLog(v)
        BY <4>1 DEF InLog
      <4> QED
        BY <2>9, <2>11, <4>1, <4>2 DEF OnceInv
    <3> QED
      BY <3>1, <3>2
  <2>12. \A v : MarkerOf(v)' = MarkerOf(v) /\ ~InHandIs(v)'
    BY <1>5, <2>1 DEF MarkerOf, InHandIs
  <2> QED
    BY <1>5, <2>11, <2>12 DEF OnceInv, InHandIs
<1>6. ASSUME Evict(Viewer), UNCHANGED <<stream, arrived, log>>
      PROVE  OnceInv'
  <2>1. /\ inHand'[Viewer] = Nothing
        /\ rtpFrameMap'[Viewer] \subseteq rtpFrameMap[Viewer]
        /\ \A u \in rtpFrameMap'[Viewer] : frame'[Viewer][u] = frame[Viewer][u]
    BY <1>6, EvictFacts
  <2>2. \A t : InMap(t)' => InMap(t)
    BY <2>1 DEF InMap
  <2> QED
    BY <1>0, <1>6, <2>1, <2>2, OnceKept
<1>7. CASE UNCHANGED svars
  <2>1. UNCHANGED <<stream, arrived, log, inHand, rtpFrameMap, frame>>
    BY <1>7 DEF svars, vars
  <2>2. \A t : InMap(t)' <=> InMap(t)
    BY <2>1 DEF InMap
  <2> QED
    BY <1>0, <2>1, <2>2, OnceKept
<1> QED
  BY <1>1, <1>2, <1>3, <1>4, <1>5, <1>6, <1>7 DEF StreamNext, Process

-----------------------------------------------------------------------------
(* The theorems.                                                           *)

StreamInv == OrganizerInv /\ CacheInv /\ LogInv /\ OrderInv /\ OnceInv

LEMMA InitStreamInv == StreamInit => StreamInv
<1>1. StreamInit => LogInv
  BY EmptySeq DEF StreamInit, LogInv
<1> QED
  BY <1>1, InitOrganizerInv, InitCacheInv, InitOrderInv, InitOnceInv DEF StreamInit, StreamInv

LEMMA NextStreamInv ==
  ASSUME StreamInv, [StreamNext]_svars
  PROVE  StreamInv'
<1> USE DEF StreamInv
<1>1. OrganizerInv'
  BY OrganizerSteps, NextOrganizerInv
<1>2. CacheInv'
  BY NextCacheInv
<1>3. LogInv'
  BY <1>2, NextLogInv
<1> QED
  BY <1>1, <1>2, <1>3, NextOrderInv, NextOnceInv

THEOREM StreamInvariant == StreamSpec => []StreamInv
<1>1. StreamInv /\ [StreamNext]_svars => StreamInv'
  BY NextStreamInv
<1> QED
  BY <1>1, InitStreamInv, PTL DEF StreamSpec

\* Whatever order the packets come in, however many are lost or come again, and
\* wherever the sequence numbers wrap, handleRtpFrame gets nothing but ends of
\* the frames that were sent, for any frames, any cache and any pool.
THEOREM DeliveriesAreSuffixes == StreamSpec => []DeliveredIsSuffix
<1>1. ASSUME StreamInv
      PROVE  DeliveredIsSuffix
  <2>1. stream \in Streams /\ LogInv
    BY <1>1 DEF StreamInv, CacheInv
  <2>2. ASSUME NEW k \in DOMAIN log
        PROVE  log[k].seqs # <<>> /\ IsSuffix(log[k].seqs, SentSeqs(log[k].unTimestamp))
    <3> DEFINE t == log[k].unTimestamp
               q == log[k].seqs
    <3>1. t \in 1 .. stream.frames /\ IsEnd(q, SentSeqs(t)) /\ q \in Seq(SeqNum)
      <4>1. log \in Seq(Delivery) /\ k \in 1 .. Len(log)
        BY <2>1, LenProperties DEF LogInv
      <4>2. log[k] \in Delivery
        BY <4>1, ElementOfSeq
      <4> QED
        BY <2>1, <4>2 DEF LogInv, Delivery
    <3>2. SentSeqs(t) \in Seq(SeqNum)
      BY <2>1, <3>1, SentShape
    <3> HIDE DEF t, q
    <3>3. IsSuffix(q, SentSeqs(t)) /\ q # <<>>
      BY <3>1, <3>2, EndIsSuffix DEF IsEnd
    <3> QED
      BY <3>3 DEF t, q
  <2> QED
    BY <2>2 DEF DeliveredIsSuffix
<1> QED
  BY <1>1, StreamInvariant, PTL

\* A frame comes out twice only if its last fragment came in twice.
THEOREM DeliveriesAreSingle == StreamSpec => []DeliveredOnce
<1>1. ASSUME StreamInv
      PROVE  DeliveredOnce
  <2> SUFFICES ASSUME NEW j \in DOMAIN log, NEW k \in DOMAIN log, j # k,
                      log[j].unTimestamp = log[k].unTimestamp
               PROVE  \E i \in Position : FrameOf(i) = log[j].unTimestamp /\ arrived[i] > 1
    BY DEF DeliveredOnce
  <2> DEFINE t == log[j].unTimestamp
             m == MarkerOf(t)
  <2>1. t \in 1 .. stream.frames /\ stream \in Streams
    BY <1>1 DEF StreamInv, LogInv, CacheInv
  <2>2. m \in Position /\ FrameOf(m) = t /\ arrived[m] \in Nat
    BY <1>1, <2>1, MarkerPosition DEF StreamInv, CacheInv
  <2>3. ~(arrived[m] <= 1)
    BY <1>1, <2>1 DEF StreamInv, OnceInv
  <2> HIDE DEF m
  <2>4. arrived[m] > 1
    BY <2>2, <2>3
  <2> QED
    BY <2>2, <2>4
<1> QED
  BY <1>1, StreamInvariant, PTL

-----------------------------------------------------------------------------
(* The organizer implements FrameDelivery.                                 *)

LEMMA InitDelivers == StreamInit => Delivering!Init
<1> SUFFICES ASSUME StreamInit
             PROVE  Delivering!Init
  OBVIOUS
<1> DEFINE S == [t \in 1 .. stream.frames |-> SentSeqs(t)]
<1>1. stream \in Streams /\ log = <<>>
  BY DEF StreamInit
<1>2. \A t \in 1 .. stream.frames : SentSeqs(t) \in Seq(Nat)
  <2>1. ASSUME NEW t \in 1 .. stream.frames
        PROVE  SentSeqs(t) \in Seq(Nat)
    <3> DEFINE q == SentSeqs(t)
    <3>1. q \in Seq(SeqNum) /\ SeqNum \subseteq Nat
      BY <1>1, SentShape, OrganizerAssumption DEF SeqNum
    <3> HIDE DEF q
    <3>2. Len(q) \in Nat /\ q \in [1 .. Len(q) -> SeqNum]
      BY <3>1, LenProperties
    <3>3. q \in [1 .. Len(q) -> Nat]
      BY <3>1, <3>2
    <3>4. q \in Seq(Nat)
      BY <3>2, <3>3
    <3> QED
      BY <3>4 DEF q
  <2> QED
    BY <2>1
<1>3. stream.frames \in Nat
  BY <1>1, StreamFacts
<1>4. S \in Seq(Seq(Nat))
  BY <1>2, <1>3
<1> QED
  BY <1>1, <1>4 DEF Delivering!Init

LEMMA StepDelivers ==
  ASSUME StreamInv, [StreamNext]_svars
  PROVE  [Delivering!Next]_<<[t \in 1 .. stream.frames |-> SentSeqs(t)],
                             IF ArrivesInOrder THEN log ELSE <<>> >>
<1> DEFINE S == [t \in 1 .. stream.frames |-> SentSeqs(t)]
           out == IF ArrivesInOrder THEN log ELSE <<>>
<1>1. stream' = stream
  BY DEF StreamNext, svars, Connect, Process, Arrive, ArriveWithoutBuffer, Lose
<1>2. S' = S
  BY <1>1, StreamStays
<1>3. ArrivesInOrder' = ArrivesInOrder
  BY <1>1, StreamStays
<1>4. CASE log' = log
  BY <1>2, <1>3, <1>4
<1>5. CASE ~ArrivesInOrder
  BY <1>2, <1>3, <1>5
<1>6. ASSUME ArrivesInOrder, NEW s \in Slot, InsertAndDeliver(Viewer, s),
             log' = Append(log, delivered'[Viewer])
      PROVE  Delivering!Next
  <2>1. HasFragment(Viewer) /\ Target(Viewer, s)
    BY <1>6, DeliverFacts DEF StreamInv
  <2>2. PICK t \in 1 .. stream.frames : \E q \in Seq(SeqNum) :
           /\ delivered'[Viewer] = [unTimestamp |-> t, seqs |-> q]
           /\ IsEnd(q, SentSeqs(t))
           /\ \E u \in rtpFrameMap[Viewer] \cup {s} : Inserted(Viewer, s)[u].unTimestamp = t
    BY <1>6, Given DEF StreamInv
  <2>3. PICK q \in Seq(SeqNum) :
           /\ delivered'[Viewer] = [unTimestamp |-> t, seqs |-> q]
           /\ IsEnd(q, SentSeqs(t))
    BY <2>2
  <2>4. \A k \in DOMAIN log : log[k].unTimestamp < t
    BY <1>6, <2>1, <2>2, LogBeforeCache DEF StreamInv
  <2>5. log = <<>> \/ Delivering!Last(log).unTimestamp < t
    <3>1. log \in Seq(Delivery)
      BY DEF StreamInv, LogInv
    <3>2. log # <<>> => Len(log) \in DOMAIN log
      BY <3>1, LenProperties, EmptySeq
    <3> QED
      BY <2>4, <3>2 DEF Delivering!Last
  <2>6. SentSeqs(t) \in Seq(SeqNum)
    BY SentShape DEF StreamInv, CacheInv
  <2>7. q \in Suffixes(SentSeqs(t)) \ {<<>>}
    BY <2>3, <2>6, EndIsSuffix
  <2>8. q \in Delivering!Suffixes(S[t]) \ {<<>>}
    <3>1. S[t] = SentSeqs(t)
      OBVIOUS
    <3> HIDE DEF S
    <3> QED
      BY <2>7, <3>1 DEF Suffixes, Delivering!Suffixes
  <2>9. out' = Append(out, [unTimestamp |-> t, seqs |-> q])
    BY <1>3, <1>6, <2>3
  <2>10. out = <<>> \/ Delivering!Last(out).unTimestamp < t
    BY <1>6, <2>5
  <2>11. Delivering!Deliver(t)
    BY <1>2, <2>8, <2>9, <2>10, Zenon DEF Delivering!Deliver
  <2> QED
    BY <2>11 DEF Delivering!Next
<1> QED
  BY <1>4, <1>5, <1>6
     DEF StreamNext, svars, Connect, Process, Arrive, ArriveWithoutBuffer, Lose

\* In order of arrival the organizer implements FrameDelivery: frames come out in
\* the order of their timestamps and each is the end of what was sent of it,
\* whatever is lost on the way, dropped for want of a buffer or evicted.
THEOREM OrganizerDelivers == StreamSpec => DeliversInOrder
<1>1. StreamInit => Delivering!Init
  BY InitDelivers
<1>2. StreamInv /\ [StreamNext]_svars =>
        [Delivering!Next]_<<[t \in 1 .. stream.frames |-> SentSeqs(t)],
                            IF ArrivesInOrder THEN log ELSE <<>> >>
  BY StepDelivers
<1> QED
  BY <1>1, <1>2, StreamInvariant, PTL DEF StreamSpec, DeliversInOrder, Delivering!Spec

-----------------------------------------------------------------------------
(* A stream that no frame of which wraps.                                  *)

\* Only the last packet of a frame has the last number.  (A frame whose numbers
\* wrap in the middle is never complete: stream_wrap.cfg.)
NoFrameWraps ==
  \A i \in Position : Packet(i).usSeq = SeqSpace - 1 => Packet(i).bMarker

Orderly == ArrivesInOrder /\ NoFrameWraps

\* The numbers of such a frame are consecutive.
LEMMA NumbersRun ==
  ASSUME stream \in Streams, NoFrameWraps, NEW i \in Position, NEW j \in Position,
         FrameOf(i) = FrameOf(j), i <= j
  PROVE  /\ Packet(i).usSeq \in Nat /\ Packet(j).usSeq \in Nat
         /\ Packet(j).usSeq = Packet(i).usSeq + (j - i)
<1> DEFINE t == FrameOf(i)
           a == Packet(i).usSeq
           b == Packet(j).usSeq
<1>1. /\ a \in Nat /\ b \in Nat /\ i \in Nat /\ j \in Nat /\ i >= 1
      /\ b = a + (j - i) \/ b = a + (j - i) - SeqSpace
      /\ SeqSpace \in Nat \ {0}
      /\ j <= Base(t) + stream.length /\ i >= Base(t) + 1
      /\ t \in 1 .. stream.frames /\ Base(t) \in Nat /\ stream.length \in Nat
      /\ t * stream.length = Base(t) + stream.length
      /\ a < SeqSpace
  <2>1. i \in Base(t) + 1 .. Base(t) + stream.length /\ j \in Base(t) + 1 .. Base(t) + stream.length
        /\ t \in 1 .. stream.frames /\ i \in Nat /\ j \in Nat /\ i >= 1
        /\ Packet(i) \in Fragment
    BY PositionOf
  <2>2. Base(t) \in Nat /\ stream.length \in Nat /\ t * stream.length = Base(t) + stream.length
    BY <2>1, Bases, StreamFacts
  <2>3. a \in SeqNum /\ SeqSpace \in Nat \ {0}
    BY <2>1, OrganizerAssumption DEF FragmentType
  <2> QED
    BY <2>1, <2>2, <2>3, NumbersInFrame DEF SeqNum
<1>2. CASE b = a + (j - i) - SeqSpace
  <2> DEFINE k == i + (SeqSpace - 1 - a)
  <2>1. k \in Nat /\ i <= k /\ k < j
    BY <1>1, <1>2
  <2>2. \E m \in 1 .. stream.length : k = Base(t) + m
    <3>1. k - Base(t) \in 1 .. stream.length /\ k = Base(t) + (k - Base(t))
      BY <1>1, <2>1
    <3> QED
      BY <3>1
  <2>3. k \in Position /\ FrameOf(k) = t
    BY <1>1, <2>2, InFrame
  <2> HIDE DEF k, t, a
  <2>4. /\ Packet(k).usSeq = a + (k - i) \/ Packet(k).usSeq = a + (k - i) - SeqSpace
        /\ Packet(k).usSeq \in Nat
    BY <2>1, <2>3, NumbersInFrame DEF a, t
  <2>5. Packet(k).usSeq = SeqSpace - 1
    BY <1>1, <2>1, <2>4 DEF k
  <2>6. k = t * stream.length
    BY <2>3, <2>5, PositionOf DEF NoFrameWraps
  <2> QED
    BY <1>1, <2>1, <2>6
<1> QED
  BY <1>1, <1>2

\* The frames follow each other in the stream.
LEMMA FrameOrder ==
  ASSUME stream \in Streams, NEW i \in Position, NEW j \in Position, i <= j
  PROVE  FrameOf(i) <= FrameOf(j)
<1>1. /\ FrameOf(i) \in 1 .. stream.frames /\ FrameOf(j) \in 1 .. stream.frames
      /\ i \in Nat /\ j \in Nat
      /\ i >= Base(FrameOf(i)) + 1 /\ j <= Base(FrameOf(j)) + stream.length
  <2>1. /\ i \in Base(FrameOf(i)) + 1 .. Base(FrameOf(i)) + stream.length
        /\ j \in Base(FrameOf(j)) + 1 .. Base(FrameOf(j)) + stream.length
    BY PositionOf
  <2> QED
    BY <2>1, PositionOf
<1>2. stream.frames \in Nat /\ stream.length \in Nat
  BY StreamFacts
<1>3. ASSUME FrameOf(j) < FrameOf(i)
      PROVE  FALSE
  <2>1. /\ Base(FrameOf(j)) + stream.length <= Base(FrameOf(i))
        /\ Base(FrameOf(i)) \in Nat /\ Base(FrameOf(j)) \in Nat
    BY <1>1, <1>3, Bases
  <2> QED
    BY <1>1, <1>2, <2>1
<1> QED
  BY <1>1, <1>2, <1>3

\* In order of arrival the packet in hand is the last one that came, and what is
\* awaited comes behind it.
HandIsLast ==
  ArrivesInOrder =>
    \A p \in Position : InHandIs(p) =>
      /\ p \notin missing
      /\ \A i \in Position : arrived[i] > 0 => i <= p
      /\ \A a \in Awaited : p < a

LEMMA HandKept ==
  ASSUME HandIsLast, stream' = stream, inHand' = inHand,
         \A p \in Position : InHandIs(p) /\ ArrivesInOrder =>
           /\ p \notin missing'
           /\ \A i \in Position : arrived'[i] > 0 => arrived[i] > 0
           /\ Awaited' \subseteq Awaited
  PROVE  HandIsLast'
<1>1. Position' = Position /\ ArrivesInOrder' = ArrivesInOrder
  BY StreamStays
<1>2. \A p : InHandIs(p)' <=> InHandIs(p)
  BY StreamStays DEF InHandIs
<1>3. ASSUME ArrivesInOrder, NEW p \in Position, InHandIs(p)
      PROVE  /\ p \notin missing'
             /\ \A i \in Position : arrived'[i] > 0 => i <= p
             /\ \A a \in Awaited' : p < a
  BY <1>3 DEF HandIsLast
<1> QED
  BY <1>1, <1>2, <1>3 DEF HandIsLast

LEMMA NextHandIsLast ==
  ASSUME OrganizerInv, CacheInv, OrderInv, HandIsLast, [StreamNext]_svars
  PROVE  HandIsLast'
<1>1. ASSUME NEW i \in Position, Arrive(i)
      PROVE  HandIsLast'
  <2>1. /\ inHand'[Viewer].pkt = Packet(i) /\ MayArrive(i)
        /\ UNCHANGED <<stream, missing>>
        /\ arrived' = [arrived EXCEPT ![i] = @ + 1]
    BY <1>1, ArriveFacts DEF CacheInv
  <2>2. Awaited' = Awaited \ {i}
    BY <2>1, AwaitedAfter
  <2>3. /\ Position' = Position /\ ArrivesInOrder' = ArrivesInOrder
        /\ \A p : Packet(p)' = Packet(p)
    BY <2>1, StreamStays
  <2>4. ASSUME ArrivesInOrder, NEW p \in Position, InHandIs(p)'
        PROVE  /\ p \notin missing
               /\ \A j \in Position : arrived'[j] > 0 => j <= p
               /\ \A a \in Awaited' : p < a
    <3>1. p = i
      BY <2>1, <2>3, <2>4, SamePacket DEF InHandIs, CacheInv
    <3>2. i \in Awaited /\ Awaited \ {i} = {j \in Awaited : i < j}
      BY <2>1, <2>4, NextOnly
    <3>3. ASSUME NEW j \in Position, arrived'[j] > 0
          PROVE  j <= i
      <4>1. CASE j # i
        <5>1. arrived[j] > 0 /\ j \notin Awaited
          BY <2>1, <3>3, <4>1 DEF CacheInv, Awaited
        <5>2. ~(i <= j)
          BY <2>4, <3>2, <5>1 DEF OrderInv
        <5>3. i \in Nat /\ j \in Nat
          BY PositionOf DEF CacheInv
        <5> QED
          BY <5>2, <5>3
      <4>2. CASE j = i
        BY <4>2, PositionOf DEF CacheInv
      <4> QED
        BY <4>1, <4>2
    <3> QED
      BY <2>2, <3>1, <3>2, <3>3 DEF Awaited
  <2> QED
    BY <2>1, <2>3, <2>4 DEF HandIsLast
<1>2. ASSUME NEW i \in Position, ArriveWithoutBuffer(i)
      PROVE  HandIsLast'
  <2>1. UNCHANGED inHand /\ inHand[Viewer] = Nothing
    BY <1>2 DEF ArriveWithoutBuffer, vars
  <2> QED
    BY <2>1 DEF HandIsLast, InHandIs
<1>3. ASSUME NEW i \in Position, Lose(i)
      PROVE  HandIsLast'
  <2>1. UNCHANGED <<stream, arrived, inHand>> /\ missing' = missing \cup {i} /\ i \in Awaited
    BY <1>3 DEF Lose, vars
  <2>2. Awaited' = Awaited \ {i}
    BY <2>1, AwaitedAfter
  <2>3. \A p \in Position : InHandIs(p) /\ ArrivesInOrder => p \notin missing' /\ p < i
    BY <2>1, PositionOf DEF HandIsLast, CacheInv
  <2> QED
    BY <2>1, <2>2, <2>3, HandKept
<1>4. CASE Process
  <2>1. inHand'[Viewer] = Nothing
    BY <1>4, HoldFacts, DeliverFacts, EvictFacts DEF Process
  <2> QED
    BY <2>1 DEF HandIsLast, InHandIs
<1>5. CASE Connect \/ UNCHANGED svars
  <2>1. UNCHANGED <<stream, arrived, missing, inHand>>
    BY <1>5, ConnectFacts DEF svars, vars
  <2>2. Awaited' = Awaited
    BY <2>1, StreamStays DEF Awaited
  <2>3. \A p \in Position : InHandIs(p) /\ ArrivesInOrder => p \notin missing'
    BY <2>1 DEF HandIsLast
  <2> QED
    BY <2>1, <2>2, <2>3, HandKept
<1> QED
  BY <1>1, <1>2, <1>3, <1>4, <1>5 DEF StreamNext

-----------------------------------------------------------------------------
(* In order of arrival, what the frames of the cache hold.                 *)

\* The packets that insertRtpPacket has taken in, and those still to come.
Taken == {i \in Position : arrived[i] > 0 /\ i \notin missing /\ ~InHandIs(i)}
Ahead == {i \in Position : InHandIs(i) \/ i \in Awaited}

LEMMA TakenStays ==
  ASSUME OrganizerInv, CacheInv, OrderInv, ArrivesInOrder,
         NEW i \in Position, Arrive(i) \/ ArriveWithoutBuffer(i) \/ Lose(i)
  PROVE  /\ Taken' = Taken /\ Ahead' \subseteq Ahead
         /\ UNCHANGED <<stream, log, rtpFrameMap, frame>>
<1>1. /\ UNCHANGED <<stream, log, rtpFrameMap, frame>>
      /\ MayArrive(i) \/ Lose(i)
      /\ Awaited' = Awaited \ {i}
  <2>1. UNCHANGED <<stream, log, rtpFrameMap, frame>> /\ (MayArrive(i) \/ Lose(i))
    BY DEF Arrive, GetBuffer, ArriveWithoutBuffer, Lose, vars
  <2>2. Awaited' = Awaited \ {i}
    BY <2>1, AwaitedAfter DEF Arrive, ArriveWithoutBuffer, Lose
  <2> QED
    BY <2>1, <2>2
<1>2. i \in Awaited
  BY <1>1, NextOnly
<1>3. /\ Position' = Position /\ \A p : Packet(p)' = Packet(p)
      /\ arrived \in [Position -> Nat] /\ stream \in Streams
  BY <1>1, StreamStays DEF CacheInv
<1>4. arrived[i] = 0 /\ i \notin missing /\ ~InHandIs(i)
  <2>1. InHandIs(i) => arrived[i] > 0
    BY <1>3, SamePacket DEF CacheInv, InHandIs
  <2> QED
    BY <1>2, <2>1 DEF Awaited
<1>5. ASSUME NEW j \in Position, j # i
      PROVE  /\ arrived'[j] = arrived[j] /\ (j \in missing' <=> j \in missing)
             /\ InHandIs(j)' <=> InHandIs(j)
  <2>1. CASE Arrive(i)
    <3>1. /\ inHand[Viewer] = Nothing /\ inHand'[Viewer].pkt = Packet(i)
          /\ missing' = missing /\ arrived' = [arrived EXCEPT ![i] = @ + 1]
      BY <1>3, <2>1, ArriveFacts
    <3>2. ~InHandIs(j) /\ ~InHandIs(j)'
      BY <1>3, <1>5, <3>1, SamePacket DEF InHandIs
    <3> QED
      BY <1>3, <1>5, <3>1, <3>2
  <2>2. CASE ArriveWithoutBuffer(i) \/ Lose(i)
    <3>1. /\ inHand' = inHand /\ missing' = missing \cup {i}
          /\ arrived' = arrived \/ arrived' = [arrived EXCEPT ![i] = @ + 1]
      BY <2>2 DEF ArriveWithoutBuffer, Lose, vars
    <3>2. InHandIs(j)' <=> InHandIs(j)
      BY <1>3, <3>1 DEF InHandIs
    <3> QED
      BY <1>3, <1>5, <3>1, <3>2
  <2> QED
    BY <2>1, <2>2
<1>6. ~(arrived'[i] > 0 /\ i \notin missing' /\ ~InHandIs(i)')
  <2>1. CASE Arrive(i)
    BY <1>3, <2>1, ArriveFacts DEF InHandIs
  <2>2. CASE ArriveWithoutBuffer(i) \/ Lose(i)
    BY <2>2 DEF ArriveWithoutBuffer, Lose
  <2> QED
    BY <2>1, <2>2
<1>7. \A j \in Position : j \in Taken' <=> j \in Taken
  BY <1>3, <1>4, <1>5, <1>6 DEF Taken
<1>8. \A j \in Position : j \in Ahead' => j \in Ahead
  BY <1>1, <1>2, <1>3, <1>5 DEF Ahead
<1>9. Taken \subseteq Position /\ Taken' \subseteq Position /\ Ahead' \subseteq Position
  BY <1>3 DEF Taken, Ahead
<1> QED
  BY <1>1, <1>7, <1>8, <1>9

\* A packet is taken in: it is the one in hand.
LEMMA TakenInserted ==
  ASSUME CacheInv, HandIsLast, ArrivesInOrder, UNCHANGED <<stream, arrived, missing>>,
         inHand'[Viewer] = Nothing, NEW p \in Position, InHandIs(p)
  PROVE  Taken' = Taken \cup {p} /\ p \notin Taken /\ Ahead' \subseteq Ahead
<1>1. \A i \in Position : InHandIs(i) <=> i = p
  BY SamePacket DEF InHandIs, CacheInv
<1>2. arrived[p] > 0 /\ p \notin missing
  <2>1. inHand[Viewer] # Nothing
    BY DEF InHandIs
  <2> QED
    BY <1>1, <2>1 DEF CacheInv, HandIsLast
<1>3. Position' = Position /\ \A i : ~InHandIs(i)'
  BY StreamStays DEF InHandIs
<1>4. Awaited' = Awaited
  BY <1>3 DEF Awaited
<1> QED
  BY <1>1, <1>2, <1>3, <1>4 DEF Taken, Ahead

\* A packet is dropped.
LEMMA TakenEvicted ==
  ASSUME CacheInv, inHand[Viewer] # Nothing, UNCHANGED <<stream, arrived>>,
         inHand'[Viewer] = Nothing,
         missing' = missing \cup {i \in Position : Packet(i) = inHand[Viewer].pkt}
  PROVE  Taken' = Taken /\ Ahead' \subseteq Ahead
<1>1. Awaited' = Awaited
  BY AwaitedAfterEviction
<1>2. Position' = Position /\ \A i : ~InHandIs(i)'
  BY StreamStays DEF InHandIs
<1>3. \A i \in Position : i \in missing' <=> i \in missing \/ InHandIs(i)
  BY DEF InHandIs
<1>4. \A i \in Position : i \in Taken' <=> i \in Taken
  BY <1>2, <1>3 DEF Taken
<1>5. \A i \in Position : i \in Ahead' => i \in Ahead
  BY <1>1, <1>2 DEF Ahead
<1>6. Taken \subseteq Position /\ Taken' \subseteq Position /\ Ahead' \subseteq Position
  BY <1>2 DEF Taken, Ahead
<1> QED
  BY <1>4, <1>5, <1>6

HasPacket(q, i) == \E j \in DOMAIN q : q[j].usSeq = Packet(i).usSeq

\* The numbers of a queue grow from entry to entry.
Spaced(q) == \A j, k \in DOMAIN q : j <= k => q[j].usSeq + (k - j) <= q[k].usSeq

\* The frame object f holds the packets of T of its frame, each once and in order,
\* and has seen the marker when it holds the last one.
Kept(f, T) ==
  /\ Spaced(f.PacketQueue)
  /\ \A j \in DOMAIN f.PacketQueue : \E i \in T :
       FrameOf(i) = f.unTimestamp /\ f.PacketQueue[j].usSeq = Packet(i).usSeq
  /\ \A i \in T : FrameOf(i) = f.unTimestamp => HasPacket(f.PacketQueue, i)
  /\ HasPacket(f.PacketQueue, MarkerOf(f.unTimestamp)) => f.bMarker

Over(t) == \A p \in Ahead : t < FrameOf(p)

\* The frames of the cache hold what was taken in of them; of the other frames
\* nothing is still to come.
KeptInv ==
  Orderly =>
    /\ \A s \in rtpFrameMap[Viewer] : Kept(frame[Viewer][s], Taken)
    /\ \A i \in Taken : FrameOf(i) \in InCache \/ Over(FrameOf(i))

LEMMA OrderlyStays ==
  ASSUME stream' = stream
  PROVE  /\ Orderly' = Orderly /\ Position' = Position
         /\ \A i : FrameOf(i)' = FrameOf(i) /\ Packet(i)' = Packet(i) /\ MarkerOf(i)' = MarkerOf(i)
         /\ \A q, i : HasPacket(q, i)' <=> HasPacket(q, i)
         /\ \A f, T : Kept(f, T)' <=> Kept(f, T)
<1>1. /\ ArrivesInOrder' = ArrivesInOrder /\ Position' = Position
      /\ \A i : FrameOf(i)' = FrameOf(i) /\ Packet(i)' = Packet(i) /\ MarkerOf(i)' = MarkerOf(i)
  BY StreamStays DEF MarkerOf
<1>2. \A q, i : HasPacket(q, i)' <=> HasPacket(q, i)
  BY <1>1 DEF HasPacket
<1>3. \A f, T : Kept(f, T)' <=> Kept(f, T)
  BY <1>1, <1>2 DEF Kept
<1>4. Orderly' = Orderly
  BY <1>1 DEF Orderly, NoFrameWraps
<1> QED
  BY <1>1, <1>2, <1>3, <1>4

\* A step that takes no packet in, and drops only frames that are over.
LEMMA KeptStays ==
  ASSUME KeptInv, stream' = stream, Orderly => Taken' = Taken /\ Ahead' \subseteq Ahead,
         \A s \in rtpFrameMap'[Viewer] :
           s \in rtpFrameMap[Viewer] /\ frame'[Viewer][s] = frame[Viewer][s],
         Orderly => \A s \in rtpFrameMap[Viewer] \ rtpFrameMap'[Viewer] :
           \A p \in Ahead' : frame[Viewer][s].unTimestamp < FrameOf(p)
  PROVE  KeptInv'
<1> SUFFICES ASSUME Orderly
             PROVE  KeptInv!2'
  BY OrderlyStays DEF KeptInv
<1>1. ASSUME NEW s \in rtpFrameMap'[Viewer]
      PROVE  Kept(frame[Viewer][s], Taken)'
  <2>1. Kept(frame[Viewer][s], Taken)
    BY <1>1 DEF KeptInv
  <2>2. Kept(frame'[Viewer][s], Taken')
    BY <1>1, <2>1
  <2> QED
    BY <1>1, <2>2, OrderlyStays DEF Kept
<1>2. ASSUME NEW i \in Taken'
      PROVE  (FrameOf(i) \in InCache \/ Over(FrameOf(i)))'
  <2>1. FrameOf(i) \in InCache \/ Over(FrameOf(i))
    BY <1>2 DEF KeptInv
  <2>2. CASE Over(FrameOf(i))
    BY <2>2, OrderlyStays DEF Over
  <2>3. CASE FrameOf(i) \in InCache
    <3>1. PICK s \in rtpFrameMap[Viewer] : frame[Viewer][s].unTimestamp = FrameOf(i)
      BY <2>3 DEF InCache
    <3>2. CASE s \in rtpFrameMap'[Viewer]
      BY <3>1, <3>2, OrderlyStays DEF InCache
    <3>3. CASE s \notin rtpFrameMap'[Viewer]
      BY <3>1, <3>3, OrderlyStays DEF Over
    <3> QED
      BY <3>2, <3>3
  <2> QED
    BY <2>1, <2>2, <2>3
<1> QED
  BY <1>1, <1>2

\* In order of arrival insert puts the packet behind the entries of its frame.
LEMMA InsertedBehind ==
  ASSUME OrganizerInv, CacheInv, HandIsLast, KeptInv, Orderly,
         NEW s, HasFragment(Viewer), Target(Viewer, s), NEW p \in Position, InHandIs(p)
  PROVE  LET q == frame[Viewer][s].PacketQueue
             g == Inserted(Viewer, s)[s]
         IN /\ s \in Slot /\ q \in Seq(Entry) /\ EntryInHand(Viewer) \in Entry
            /\ inHand[Viewer].pkt = Packet(p) /\ EntryInHand(Viewer).usSeq = Packet(p).usSeq
            /\ s \in rtpFrameMap[Viewer] =>
                 /\ frame[Viewer][s].unTimestamp = FrameOf(p)
                 /\ Kept(frame[Viewer][s], Taken)
                 /\ \A j \in DOMAIN q : q[j].usSeq < Packet(p).usSeq
            /\ s \notin rtpFrameMap[Viewer] => q = <<>> /\ \A i \in Taken : FrameOf(i) # FrameOf(p)
            /\ g.unTimestamp = FrameOf(p)
            /\ g.PacketQueue = Append(q, EntryInHand(Viewer))
            /\ g.bMarker <=> \/ s \in rtpFrameMap[Viewer] /\ frame[Viewer][s].bMarker
                             \/ p = MarkerOf(FrameOf(p))
            /\ InOrder(q, EntryInHand(Viewer))
<1> DEFINE c == Viewer
           q == frame[c][s].PacketQueue
           e == EntryInHand(c)
           g == Inserted(c, s)[s]
<1>1. /\ c \in Conn /\ c \in open /\ TypeOK /\ stream \in Streams
      /\ FramesOK(frame[c], rtpFrameMap[c], rtpFrameFreeList[c])
  BY FramesOKHolds, ViewerIsConn DEF OrganizerInv, HasFragment, CacheInv
<1>2. s \in Slot
  BY <1>1 DEF Target, SameTimestamp, TypeOK
<1>3. inHand[c].pkt = Packet(p) /\ e \in Entry /\ e.usSeq = Packet(p).usSeq
  <2>1. inHand[c].pkt = Packet(p)
    BY DEF InHandIs
  <2>2. e \in Entry
    BY <1>1, InHandType DEF HasFragment
  <2> QED
    BY <2>1, <2>2 DEF EntryInHand
<1>4. q \in Seq(Entry)
  BY <1>1, <1>2 DEF TypeOK, FrameInfo
<1>5. /\ g.PacketQueue = Insert(q, e)
      /\ g.unTimestamp = (IF s \in rtpFrameMap[c] THEN frame[c][s].unTimestamp
                                                  ELSE inHand[c].pkt.unTimestamp)
  BY <1>1, <1>2, InsertedShape
<1>6. /\ g.unTimestamp = inHand[c].pkt.unTimestamp
      /\ s \in rtpFrameMap[c] => frame[c][s].unTimestamp = g.unTimestamp
      /\ g.bMarker <=> \/ s \in rtpFrameMap[c] /\ frame[c][s].bMarker
                       \/ inHand[c].pkt.bMarker
  BY InsertedFrame
<1>7. Packet(p).unTimestamp = FrameOf(p) /\ (Packet(p).bMarker <=> p = MarkerOf(FrameOf(p)))
  BY <1>1, PositionOf DEF MarkerOf
<1> HIDE DEF e, q, g
<1>8. g.unTimestamp = FrameOf(p)
  BY <1>3, <1>6, <1>7
<1>9. ASSUME s \in rtpFrameMap[c]
      PROVE  /\ frame[c][s].unTimestamp = FrameOf(p)
             /\ Kept(frame[c][s], Taken)
             /\ \A j \in DOMAIN q : q[j].usSeq < Packet(p).usSeq
  <2>1. frame[c][s].unTimestamp = FrameOf(p) /\ Kept(frame[c][s], Taken)
    BY <1>6, <1>8, <1>9 DEF KeptInv
  <2>2. ASSUME NEW j \in DOMAIN q
        PROVE  q[j].usSeq < Packet(p).usSeq
    <3>1. PICK i \in Taken : FrameOf(i) = FrameOf(p) /\ q[j].usSeq = Packet(i).usSeq
      BY <2>1, <2>2 DEF Kept, q
    <3>2. i \in Position /\ arrived[i] > 0 /\ i # p
      BY DEF Taken
    <3>3. i <= p
      BY <3>2 DEF HandIsLast, Orderly
    <3>4. i \in Nat /\ p \in Nat
      BY <1>1, <3>2, PositionOf
    <3>5. /\ Packet(i).usSeq \in Nat /\ Packet(p).usSeq \in Nat
          /\ Packet(p).usSeq = Packet(i).usSeq + (p - i)
      BY <1>1, <3>1, <3>2, <3>3, NumbersRun DEF Orderly
    <3> QED
      BY <3>1, <3>2, <3>3, <3>4, <3>5
  <2> QED
    BY <2>1, <2>2
<1>10. ASSUME s \notin rtpFrameMap[c]
       PROVE  q = <<>> /\ \A i \in Taken : FrameOf(i) # FrameOf(p)
  <2>1. q = <<>>
    BY <1>1, <1>2, <1>10 DEF FramesOK, q
  <2>2. ASSUME NEW i \in Taken, FrameOf(i) = FrameOf(p)
        PROVE  FALSE
    <3>1. p \in Ahead
      BY DEF Ahead
    <3>2. ~Over(FrameOf(i))
      <4>1. FrameOf(p) \in Nat
        BY <1>1, PositionOf
      <4> QED
        BY <2>2, <3>1, <4>1 DEF Over
    <3>3. FrameOf(i) \in InCache
      BY <3>2 DEF KeptInv
    <3>4. SameTimestamp(c) # {}
      BY <1>3, <1>7, <2>2, <3>3 DEF InCache, SameTimestamp
    <3> QED
      BY <1>10, <3>4 DEF Target, SameTimestamp
  <2> QED
    BY <2>1, <2>2
<1>11. InOrder(q, e)
  <2>1. CASE q = <<>>
    BY <2>1 DEF InOrder
  <2>2. CASE q # <<>>
    <3>1. Len(q) \in DOMAIN q
      BY <1>4, <2>2, LenProperties, EmptySeq
    <3>2. q[Len(q)].usSeq < e.usSeq
      BY <1>3, <1>9, <1>10, <2>2, <3>1
    <3>3. q[Len(q)].usSeq \in Int /\ e.usSeq \in Int
      BY <1>3, <1>4, <3>1, EntrySeq
    <3> QED
      BY <3>2, <3>3 DEF InOrder
  <2> QED
    BY <2>1, <2>2
<1>12. g.PacketQueue = Append(q, e)
  BY <1>5, <1>11 DEF Insert
<1> QED
  BY <1>2, <1>3, <1>4, <1>6, <1>7, <1>8, <1>9, <1>10, <1>11, <1>12 DEF q, e, g

\* A greater number behind a queue keeps it spaced.
LEMMA AppendSpaced ==
  ASSUME NEW q \in Seq(Entry), NEW e \in Entry, Spaced(q),
         \A j \in DOMAIN q : q[j].usSeq < e.usSeq
  PROVE  Spaced(Append(q, e))
<1> DEFINE n == Len(q)
           r == Append(q, e)
<1>1. /\ n \in Nat /\ DOMAIN q = 1 .. n /\ DOMAIN r = 1 .. n + 1
      /\ r[n + 1] = e /\ \A j \in 1 .. n : r[j] = q[j]
  BY AppendProperties, LenProperties
<1>2. e.usSeq \in Int /\ \A j \in 1 .. n : q[j].usSeq \in Int
  BY <1>1, EntrySeq, ElementOfSeq
<1> HIDE DEF n, r
<1>3. ASSUME NEW j \in 1 .. n + 1, NEW k \in 1 .. n + 1, j <= k
      PROVE  r[j].usSeq + (k - j) <= r[k].usSeq
  <2>1. CASE k <= n
    <3>1. j \in 1 .. n /\ k \in 1 .. n
      BY <1>1, <1>3, <2>1
    <3> QED
      BY <1>1, <1>3, <3>1 DEF Spaced
  <2>2. CASE j <= n /\ k = n + 1
    <3>1. j \in 1 .. n /\ n \in 1 .. n /\ j <= n
      BY <1>1, <2>2
    <3>2. q[j].usSeq + (n - j) <= q[n].usSeq
      BY <1>1, <3>1 DEF Spaced
    <3>3. q[n].usSeq < e.usSeq
      BY <1>1, <3>1
    <3> QED
      BY <1>1, <1>2, <2>2, <3>1, <3>2, <3>3
  <2>3. CASE j = n + 1 /\ k = n + 1
    BY <1>1, <1>2, <2>3
  <2> QED
    BY <1>1, <1>3, <2>1, <2>2, <2>3
<1> QED
  BY <1>1, <1>3 DEF Spaced, r

LEMMA InsertedKept ==
  ASSUME OrganizerInv, CacheInv, HandIsLast, KeptInv, Orderly,
         NEW s, HasFragment(Viewer), Target(Viewer, s), NEW p \in Position, InHandIs(p)
  PROVE  \A u \in rtpFrameMap[Viewer] \cup {s} : Kept(Inserted(Viewer, s)[u], Taken \cup {p})
<1> DEFINE c == Viewer
           q == frame[c][s].PacketQueue
           e == EntryInHand(c)
           g == Inserted(c, s)[s]
           r == g.PacketQueue
           n == Len(q)
           T == Taken \cup {p}
<1>1. /\ s \in Slot /\ q \in Seq(Entry) /\ e \in Entry /\ e.usSeq = Packet(p).usSeq
      /\ s \in rtpFrameMap[c] =>
           /\ frame[c][s].unTimestamp = FrameOf(p)
           /\ Kept(frame[c][s], Taken)
           /\ \A j \in DOMAIN q : q[j].usSeq < Packet(p).usSeq
      /\ s \notin rtpFrameMap[c] => q = <<>> /\ \A i \in Taken : FrameOf(i) # FrameOf(p)
      /\ g.unTimestamp = FrameOf(p)
      /\ r = Append(q, e)
      /\ g.bMarker <=> \/ s \in rtpFrameMap[c] /\ frame[c][s].bMarker
                       \/ p = MarkerOf(FrameOf(p))
  BY InsertedBehind
<1>2. ASSUME NEW u \in rtpFrameMap[c] \ {s}
      PROVE  Kept(Inserted(c, s)[u], T)
  <2>1. Inserted(c, s)[u] = frame[c][u]
    BY <1>2, AfterInsertion
  <2>2. frame[c][u].unTimestamp # FrameOf(p)
    BY <1>1, <1>2, <2>1, InsertKeeps, ViewerIsConn DEF FramesOK
  <2>3. Kept(frame[c][u], Taken)
    BY <1>2 DEF KeptInv
  <2>4. Kept(frame[c][u], T)
    BY <2>2, <2>3 DEF Kept
  <2> QED
    BY <2>1, <2>4
<1> HIDE DEF q, e, g
<1>3. /\ n \in Nat /\ DOMAIN q = 1 .. n /\ DOMAIN r = 1 .. n + 1
      /\ r[n + 1] = e /\ \A j \in 1 .. n : r[j] = q[j]
  BY <1>1, AppendProperties, LenProperties
<1> HIDE DEF r, n
<1>4. \A j \in 1 .. n : s \in rtpFrameMap[c]
  <2>1. q = <<>> => n = 0
    BY DEF n
  <2> QED
    BY <1>1, <2>1
<1>5. Spaced(r)
  <2>1. Spaced(q) /\ \A j \in DOMAIN q : q[j].usSeq < e.usSeq
    BY <1>1, <1>3, <1>4 DEF Kept, Spaced, q
  <2> QED
    BY <1>1, <2>1, AppendSpaced
<1>6. ASSUME NEW j \in DOMAIN r
      PROVE  \E i \in T : FrameOf(i) = FrameOf(p) /\ r[j].usSeq = Packet(i).usSeq
  <2>1. CASE j = n + 1
    BY <1>1, <1>3, <2>1
  <2>2. CASE j \in 1 .. n
    <3>1. j \in DOMAIN q /\ s \in rtpFrameMap[c] /\ r[j] = q[j]
      BY <1>3, <1>4, <2>2
    <3>2. \E i \in Taken : FrameOf(i) = FrameOf(p) /\ q[j].usSeq = Packet(i).usSeq
      BY <1>1, <3>1 DEF Kept, q
    <3> QED
      BY <3>1, <3>2
  <2> QED
    BY <1>3, <2>1, <2>2
<1>7. ASSUME NEW i \in T, FrameOf(i) = FrameOf(p)
      PROVE  HasPacket(r, i)
  <2>1. CASE i = p
    <3>1. n + 1 \in DOMAIN r /\ r[n + 1].usSeq = Packet(i).usSeq
      BY <1>1, <1>3, <2>1
    <3> QED
      BY <3>1 DEF HasPacket
  <2>2. CASE i \in Taken
    <3>1. HasPacket(q, i)
      BY <1>1, <1>7, <2>2 DEF Kept, q
    <3>2. PICK j \in 1 .. n : q[j].usSeq = Packet(i).usSeq
      BY <1>3, <3>1 DEF HasPacket
    <3>3. j \in DOMAIN r /\ r[j] = q[j]
      BY <1>3
    <3> QED
      BY <3>2, <3>3 DEF HasPacket
  <2> QED
    BY <2>1, <2>2
<1>8. ASSUME HasPacket(r, MarkerOf(FrameOf(p)))
      PROVE  g.bMarker
  <2> DEFINE m == MarkerOf(FrameOf(p))
  <2>1. PICK j \in DOMAIN r : r[j].usSeq = Packet(m).usSeq
    BY <1>8 DEF HasPacket
  <2>2. m \in Position /\ FrameOf(m) = FrameOf(p) /\ stream \in Streams
    BY MarkerPosition, PositionOf DEF CacheInv
  <2>3. CASE j = n + 1
    <3>1. p = m
      BY <1>1, <1>3, <2>1, <2>2, <2>3, PacketsApart
    <3> QED
      BY <1>1, <3>1
  <2>4. CASE j \in 1 .. n
    <3>1. HasPacket(q, m)
      BY <1>3, <2>1, <2>4 DEF HasPacket
    <3>2. s \in rtpFrameMap[c]
      BY <1>4, <2>4
    <3>3. frame[c][s].bMarker
      BY <1>1, <3>1, <3>2 DEF Kept, q
    <3> QED
      BY <1>1, <3>2, <3>3
  <2> QED
    BY <1>3, <2>3, <2>4
<1>9. Kept(g, T)
  BY <1>1, <1>5, <1>6, <1>7, <1>8 DEF Kept, r
<1> QED
  BY <1>2, <1>9 DEF g

\* What came, or is known to be lost, comes before what is awaited.
LEMMA BeforeAwaited ==
  ASSUME CacheInv, OrderInv, ArrivesInOrder, NEW m \in Position,
         arrived[m] > 0 \/ m \in missing, NEW a \in Awaited
  PROVE  m < a
<1>1. m \notin Awaited /\ a \in Position
  BY DEF Awaited
<1>2. m \in Nat /\ a \in Nat
  BY <1>1, PositionOf DEF CacheInv
<1>3. ~(a <= m)
  BY <1>1 DEF OrderInv
<1> QED
  BY <1>2, <1>3

\* An insertion, after which only frames that are over leave the cache.
LEMMA KeptAfterInsertion ==
  ASSUME OrganizerInv, CacheInv, HandIsLast, KeptInv, NEW s,
         HasFragment(Viewer), Target(Viewer, s),
         UNCHANGED <<stream, arrived, missing>>, inHand'[Viewer] = Nothing,
         rtpFrameMap'[Viewer] \subseteq rtpFrameMap[Viewer] \cup {s},
         \A u \in rtpFrameMap'[Viewer] : frame'[Viewer][u] = Inserted(Viewer, s)[u],
         Orderly => \A u \in (rtpFrameMap[Viewer] \cup {s}) \ rtpFrameMap'[Viewer] :
           \A a \in Ahead' : Inserted(Viewer, s)[u].unTimestamp < FrameOf(a)
  PROVE  KeptInv'
<1> SUFFICES ASSUME Orderly
             PROVE  KeptInv!2'
  BY OrderlyStays DEF KeptInv
<1>1. PICK p \in Position : InHandIs(p)
  BY DEF HasFragment, CacheInv
<1> DEFINE after == Inserted(Viewer, s)
<1>2. Taken' = Taken \cup {p} /\ Ahead' \subseteq Ahead
  BY <1>1, TakenInserted DEF Orderly
<1>3. \A u \in rtpFrameMap[Viewer] \cup {s} : Kept(after[u], Taken')
  BY <1>1, <1>2, InsertedKept
<1>4. /\ after[s].unTimestamp = FrameOf(p)
      /\ s \in rtpFrameMap[Viewer] => frame[Viewer][s].unTimestamp = FrameOf(p)
      /\ \A u \in rtpFrameMap[Viewer] \ {s} : after[u] = frame[Viewer][u]
  BY <1>1, InsertedBehind, AfterInsertion
<1> HIDE DEF after
<1>5. ASSUME NEW u \in rtpFrameMap'[Viewer]
      PROVE  Kept(frame[Viewer][u], Taken)'
  <2>1. Kept(frame'[Viewer][u], Taken')
    BY <1>3, <1>5 DEF after
  <2> QED
    BY <2>1, OrderlyStays DEF Kept
<1>6. ASSUME NEW i \in Taken'
      PROVE  (FrameOf(i) \in InCache \/ Over(FrameOf(i)))'
  <2>1. \/ Over(FrameOf(i))
        \/ \E u \in rtpFrameMap[Viewer] \cup {s} : after[u].unTimestamp = FrameOf(i)
    <3>1. CASE i = p
      BY <1>4, <3>1
    <3>2. CASE i \in Taken /\ FrameOf(i) \in InCache
      BY <1>4, <3>2 DEF InCache
    <3> QED
      BY <1>2, <1>6, <3>1, <3>2 DEF KeptInv
  <2>2. CASE Over(FrameOf(i))
    BY <1>2, <2>2, OrderlyStays DEF Over
  <2>3. CASE \E u \in rtpFrameMap[Viewer] \cup {s} : after[u].unTimestamp = FrameOf(i)
    <3>1. PICK u \in rtpFrameMap[Viewer] \cup {s} : after[u].unTimestamp = FrameOf(i)
      BY <2>3
    <3>2. CASE u \in rtpFrameMap'[Viewer]
      BY <3>1, <3>2, OrderlyStays DEF InCache, after
    <3>3. CASE u \notin rtpFrameMap'[Viewer]
      BY <3>1, <3>3, OrderlyStays DEF Over, after
    <3> QED
      BY <3>2, <3>3
  <2> QED
    BY <2>1, <2>2, <2>3
<1> QED
  BY <1>5, <1>6

\* An eviction, in full: the smallest frame of a full cache.
LEMMA EvictedFrame ==
  ASSUME OrganizerInv, Evict(Viewer)
  PROVE  LET small == SmallFrame(rtpFrameMap[Viewer], frame[Viewer])
         IN /\ HasFragment(Viewer) /\ inHand'[Viewer] = Nothing
            /\ Viewer \in open /\ rtpFrameFreeList[Viewer] = {}
            /\ rtpFrameMap[Viewer] = Slot /\ small \in Slot
            /\ rtpFrameMap'[Viewer] = rtpFrameMap[Viewer] \ {small}
            /\ rtpFrameFreeList'[Viewer] = {small}
            /\ \A u \in rtpFrameMap'[Viewer] :
                 /\ frame'[Viewer][u] = frame[Viewer][u]
                 /\ frame[Viewer][small].unTimestamp < frame[Viewer][u].unTimestamp
            /\ \A u \in rtpFrameMap[Viewer] :
                 frame[Viewer][u].unTimestamp # inHand[Viewer].pkt.unTimestamp
            /\ stat'[Viewer] = [stat[Viewer] EXCEPT
                 !.total = @ + 2, !.lostFrames = @ + 1,
                 !.lostPackets = @ + GapsIn(frame[Viewer][small].PacketQueue)]
<1> DEFINE c == Viewer
           small == SmallFrame(rtpFrameMap[c], frame[c])
<1>1. /\ TypeOK /\ c \in Conn /\ c \in open /\ HasFragment(c)
      /\ frame[c] \in [Slot -> FrameInfo]
      /\ rtpFrameFreeList[c] = {} /\ SameTimestamp(c) = {}
      /\ FramesOK(frame[c], rtpFrameMap[c], {})
      /\ frame' = [frame EXCEPT ![c] = Emptied(frame[c], {small})]
      /\ rtpFrameMap' = [rtpFrameMap EXCEPT ![c] = rtpFrameMap[c] \ {small}]
      /\ rtpFrameFreeList' = [rtpFrameFreeList EXCEPT ![c] = {} \cup {small}]
      /\ inHand' = [inHand EXCEPT ![c] = Nothing]
      /\ stat' = [stat EXCEPT ![c].total = @ + 2, ![c].lostFrames = @ + 1,
                    ![c].lostPackets = @ + GapsIn(frame[c][small].PacketQueue)]
  BY FramesOKHolds, ViewerIsConn
     DEF Evict, HasFragment, OrganizerInv, TypeOK, ReleaseRtpPacket
<1>2. rtpFrameMap[c] = Slot /\ Slot # {}
  BY <1>1, OrganizerAssumption DEF FramesOK
<1>3. small \in Slot /\ \A u \in Slot : frame[c][small].unTimestamp <= frame[c][u].unTimestamp
  BY <1>1, <1>2, SmallFrameExists
<1>4. stat'[c] = [stat[c] EXCEPT !.total = @ + 2, !.lostFrames = @ + 1,
                    !.lostPackets = @ + GapsIn(frame[c][small].PacketQueue)]
  BY <1>1 DEF TypeOK
<1> HIDE DEF small
<1>5. \A u \in Slot \ {small} : Emptied(frame[c], {small})[u] = frame[c][u]
  BY <1>1, <1>3, EmptiedShape
<1>6. /\ rtpFrameMap'[c] = rtpFrameMap[c] \ {small} /\ inHand'[c] = Nothing
      /\ frame'[c] = Emptied(frame[c], {small}) /\ rtpFrameFreeList'[c] = {small}
  BY <1>1 DEF TypeOK
<1>7. ASSUME NEW u \in Slot \ {small}
      PROVE  frame[c][small].unTimestamp < frame[c][u].unTimestamp
  <2>1. frame[c][small].unTimestamp # frame[c][u].unTimestamp
    BY <1>1, <1>2, <1>3 DEF FramesOK
  <2>2. frame[c][small].unTimestamp \in Nat /\ frame[c][u].unTimestamp \in Nat
    BY <1>1, <1>3 DEF FrameInfo
  <2> QED
    BY <1>3, <2>1, <2>2
<1>8. \A u \in rtpFrameMap[c] : frame[c][u].unTimestamp # inHand[c].pkt.unTimestamp
  BY <1>1 DEF SameTimestamp
<1> QED
  BY <1>1, <1>2, <1>3, <1>4, <1>5, <1>6, <1>7, <1>8 DEF small

\* With a packet in hand the other frames of the cache are older.
LEMMA CacheBeforeHand ==
  ASSUME OrganizerInv, CacheInv, HandIsLast, KeptInv, Orderly,
         NEW p \in Position, InHandIs(p), Viewer \in open,
         NEW s \in rtpFrameMap[Viewer], frame[Viewer][s].unTimestamp # FrameOf(p)
  PROVE  frame[Viewer][s].unTimestamp < FrameOf(p)
<1> DEFINE f == frame[Viewer][s]
<1>1. f.PacketQueue # <<>> /\ f.PacketQueue \in Seq(Entry) /\ stream \in Streams
  <2>1. s \in Slot /\ TypeOK /\ QueuesWellFormed
    BY ViewerIsConn DEF OrganizerInv, TypeOK
  <2> QED
    BY <2>1, ViewerIsConn DEF QueuesWellFormed, TypeOK, FrameInfo, CacheInv
<1>2. Kept(f, Taken)
  BY DEF KeptInv
<1> HIDE DEF f
<1>3. 1 \in DOMAIN f.PacketQueue
  <2> DEFINE q == f.PacketQueue
  <2> HIDE DEF q
  <2>1. q \in Seq(Entry) /\ q # <<>> => 1 \in DOMAIN q
    BY EmptySeq, LenProperties
  <2> QED
    BY <1>1, <2>1 DEF q
<1>4. PICK i \in Taken : FrameOf(i) = f.unTimestamp
  BY <1>2, <1>3 DEF Kept
<1>5. i \in Position /\ i <= p
  BY DEF Taken, HandIsLast, Orderly
<1>6. FrameOf(i) <= FrameOf(p) /\ FrameOf(i) \in Nat /\ FrameOf(p) \in Nat
  BY <1>1, <1>5, FrameOrder, PositionOf
<1> QED
  BY <1>4, <1>6 DEF f

\* The frame an eviction drops is over: what comes belongs to later frames.
LEMMA EvictedOver ==
  ASSUME OrganizerInv, CacheInv, HandIsLast, KeptInv, Orderly,
         Evict(Viewer), UNCHANGED <<stream, arrived>>,
         missing' = missing \cup {i \in Position : Packet(i) = inHand[Viewer].pkt}
  PROVE  LET small == SmallFrame(rtpFrameMap[Viewer], frame[Viewer])
         IN \A a \in Ahead' : frame[Viewer][small].unTimestamp < FrameOf(a)
<1> DEFINE small == SmallFrame(rtpFrameMap[Viewer], frame[Viewer])
           t == frame[Viewer][small].unTimestamp
<1>1. /\ HasFragment(Viewer) /\ inHand'[Viewer] = Nothing /\ Viewer \in open
      /\ small \in rtpFrameMap[Viewer] /\ t # inHand[Viewer].pkt.unTimestamp
  BY EvictedFrame
<1> HIDE DEF small
<1>2. PICK p \in Position : InHandIs(p)
  BY <1>1 DEF HasFragment, CacheInv
<1>3. t # FrameOf(p)
  BY <1>1, <1>2, PositionOf DEF InHandIs, CacheInv
<1>4. t < FrameOf(p)
  BY <1>1, <1>2, <1>3, CacheBeforeHand
<1>5. ASSUME NEW a \in Ahead'
      PROVE  t < FrameOf(a)
  <2>1. a \in Awaited
    <3>1. ~InHandIs(a)'
      BY <1>1 DEF InHandIs
    <3>2. Awaited' = Awaited
      BY <1>1, AwaitedAfterEviction DEF HasFragment
    <3> QED
      BY <1>5, <3>1, <3>2 DEF Ahead
  <2>2. p < a /\ a \in Position /\ p \in Nat /\ a \in Nat
    BY <1>2, <2>1, PositionOf DEF HandIsLast, Orderly, Awaited, CacheInv
  <2>3. FrameOf(p) <= FrameOf(a) /\ FrameOf(p) \in Nat /\ FrameOf(a) \in Nat
    BY <2>2, FrameOrder, PositionOf DEF CacheInv
  <2>4. t \in Nat
    BY <1>1, StreamFacts DEF CacheInv, FromStream
  <2> QED
    BY <1>4, <2>3, <2>4
<1> QED
  BY <1>5 DEF small

LEMMA NextKeptInv ==
  ASSUME OrganizerInv, CacheInv, OrderInv, HandIsLast, KeptInv, [StreamNext]_svars
  PROVE  KeptInv'
<1>1. CASE Connect \/ UNCHANGED svars
  <2>1. /\ UNCHANGED <<stream, arrived, missing, inHand>>
        /\ rtpFrameMap'[Viewer] = rtpFrameMap[Viewer]
        /\ \A s \in rtpFrameMap'[Viewer] : frame'[Viewer][s] = frame[Viewer][s]
    BY <1>1, ConnectFacts DEF svars, vars
  <2>2. Taken' = Taken /\ Ahead' = Ahead
    <3>1. Position' = Position /\ \A i : InHandIs(i)' <=> InHandIs(i)
      BY <2>1, StreamStays DEF InHandIs
    <3>2. Awaited' = Awaited
      BY <2>1, <3>1 DEF Awaited
    <3> QED
      BY <2>1, <3>1, <3>2 DEF Taken, Ahead
  <2> QED
    BY <2>1, <2>2, KeptStays
<1>2. ASSUME NEW i \in Position, Arrive(i) \/ ArriveWithoutBuffer(i) \/ Lose(i)
      PROVE  KeptInv'
  <2>1. UNCHANGED <<stream, rtpFrameMap, frame>>
    BY <1>2 DEF Arrive, GetBuffer, ArriveWithoutBuffer, Lose, vars
  <2>2. Orderly => Taken' = Taken /\ Ahead' \subseteq Ahead
    BY <1>2, TakenStays DEF Orderly
  <2> QED
    BY <2>1, <2>2, KeptStays
<1>3. ASSUME NEW s \in Slot, InsertAndHold(Viewer, s), UNCHANGED <<stream, arrived, missing>>
      PROVE  KeptInv'
  <2>1. /\ HasFragment(Viewer) /\ Target(Viewer, s) /\ inHand'[Viewer] = Nothing
        /\ rtpFrameMap'[Viewer] = rtpFrameMap[Viewer] \cup {s}
        /\ frame'[Viewer] = Inserted(Viewer, s)
    BY <1>3, HoldFacts
  <2> QED
    BY <1>3, <2>1, KeptAfterInsertion
<1>4. ASSUME NEW s \in Slot, InsertAndDeliver(Viewer, s), UNCHANGED <<stream, arrived, missing>>
      PROVE  KeptInv'
  <2>1. PICK small \in rtpFrameMap[Viewer] \cup {s} :
          /\ rtpFrameMap'[Viewer] = (rtpFrameMap[Viewer] \cup {s}) \ {small}
          /\ \A u \in rtpFrameMap'[Viewer] : frame'[Viewer][u] = Inserted(Viewer, s)[u]
          /\ Complete(Inserted(Viewer, s)[small])
    BY <1>4, DeliverFacts
  <2>2. HasFragment(Viewer) /\ Target(Viewer, s) /\ inHand'[Viewer] = Nothing
    BY <1>4, DeliverFacts
  <2> DEFINE f == Inserted(Viewer, s)[small]
             t == f.unTimestamp
  <2>3. FromStream(f) /\ f.bMarker /\ t \in 1 .. stream.frames /\ stream \in Streams
    BY <2>1, <2>2, AfterInsertion DEF Complete, FromStream, CacheInv
  <2>4. arrived[MarkerOf(t)] > 0 /\ MarkerOf(t) \in Position
    BY <2>3, MarkerArrived, MarkerPosition
  <2> HIDE DEF f
  <2>5. ASSUME Orderly, NEW a \in Ahead'
        PROVE  t < FrameOf(a)
    <3>1. a \in Awaited
      <4>1. ~InHandIs(a)'
        BY <2>2 DEF InHandIs
      <4>2. Awaited' = Awaited
        BY <1>4, StreamStays DEF Awaited
      <4> QED
        BY <2>5, <4>1, <4>2 DEF Ahead
    <3>2. MarkerOf(t) < a
      BY <2>4, <2>5, <3>1, BeforeAwaited DEF Orderly
    <3>3. a \in Position
      BY <3>1 DEF Awaited
    <3> QED
      BY <2>3, <3>2, <3>3, OlderFrame
  <2>6. Orderly => \A u \in (rtpFrameMap[Viewer] \cup {s}) \ rtpFrameMap'[Viewer] :
                     \A a \in Ahead' : Inserted(Viewer, s)[u].unTimestamp < FrameOf(a)
    BY <2>1, <2>5 DEF f
  <2> QED
    BY <1>4, <2>1, <2>2, <2>6, KeptAfterInsertion
<1>5. ASSUME Evict(Viewer), UNCHANGED <<stream, arrived>>,
             missing' = missing \cup {i \in Position : Packet(i) = inHand[Viewer].pkt}
      PROVE  KeptInv'
  <2> DEFINE small == SmallFrame(rtpFrameMap[Viewer], frame[Viewer])
  <2>1. /\ HasFragment(Viewer) /\ inHand'[Viewer] = Nothing /\ Viewer \in open
        /\ small \in rtpFrameMap[Viewer]
        /\ rtpFrameMap'[Viewer] = rtpFrameMap[Viewer] \ {small}
        /\ \A u \in rtpFrameMap'[Viewer] : frame'[Viewer][u] = frame[Viewer][u]
        /\ frame[Viewer][small].unTimestamp # inHand[Viewer].pkt.unTimestamp
    BY <1>5, EvictedFrame
  <2> HIDE DEF small
  <2>2. Taken' = Taken /\ Ahead' \subseteq Ahead
    BY <1>5, <2>1, TakenEvicted DEF HasFragment
  <2>4. Orderly => \A a \in Ahead' : frame[Viewer][small].unTimestamp < FrameOf(a)
    BY <1>5, EvictedOver DEF small
  <2> QED
    BY <1>5, <2>1, <2>2, <2>4, KeptStays
<1> QED
  BY <1>1, <1>2, <1>3, <1>4, <1>5 DEF StreamNext, Process

-----------------------------------------------------------------------------
(* What an eviction gives up.                                              *)

\* In any order of arrival: when all frame objects are in use, checkFrame has
\* just found the smallest frame incomplete.
NoneWaits ==
  Viewer \in open /\ rtpFrameFreeList[Viewer] = {} =>
    ~Complete(frame[Viewer][SmallFrame(rtpFrameMap[Viewer], frame[Viewer])])

LEMMA NextNoneWaits ==
  ASSUME OrganizerInv, NoneWaits, [StreamNext]_svars
  PROVE  NoneWaits'
<1>1. CASE Connect
  <2>1. rtpFrameFreeList'[Viewer] = Slot /\ Slot # {}
    BY <1>1, ViewerIsConn, OrganizerAssumption DEF Connect, Create, OrganizerInv, TypeOK
  <2> QED
    BY <2>1 DEF NoneWaits
<1>2. ASSUME NEW s \in Slot, InsertAndHold(Viewer, s)
      PROVE  NoneWaits'
  <2> DEFINE inUse == rtpFrameMap[Viewer] \cup {s}
             after == Inserted(Viewer, s)
  <2>1. rtpFrameMap'[Viewer] = inUse /\ frame'[Viewer] = after
    BY <1>2, HoldFacts
  <2>2. ~Complete(after[SmallFrame(inUse, after)])
    BY <1>2 DEF InsertAndHold
  <2> HIDE DEF inUse, after
  <2>3. ~Complete(frame'[Viewer][SmallFrame(rtpFrameMap'[Viewer], frame'[Viewer])])
    BY <2>1, <2>2
  <2>4. \A f : Complete(f)' <=> Complete(f)
    BY DEF Complete
  <2>5. \A S, f : SmallFrame(S, f)' = SmallFrame(S, f)
    BY DEF SmallFrame
  <2> QED
    BY <2>3, Zenon DEF NoneWaits, Complete, SmallFrame
<1>3. ASSUME NEW s \in Slot, InsertAndDeliver(Viewer, s)
      PROVE  NoneWaits'
  <2> DEFINE free == rtpFrameFreeList[Viewer] \ {s}
             small == SmallFrame(rtpFrameMap[Viewer] \cup {s}, Inserted(Viewer, s))
  <2>1. rtpFrameFreeList' = [rtpFrameFreeList EXCEPT ![Viewer] = free \cup {small}]
    BY <1>3 DEF InsertAndDeliver, ReleaseRtpPacket
  <2> HIDE DEF free, small
  <2>2. rtpFrameFreeList'[Viewer] # {}
    BY <2>1, ViewerIsConn DEF OrganizerInv, TypeOK
  <2> QED
    BY <2>2 DEF NoneWaits
<1>4. CASE Evict(Viewer)
  <2>1. rtpFrameFreeList'[Viewer] # {}
    BY <1>4, EvictedFrame
  <2> QED
    BY <2>1 DEF NoneWaits
<1>5. CASE (\E i \in Position : Arrive(i) \/ ArriveWithoutBuffer(i) \/ Lose(i)) \/ UNCHANGED svars
  <2>1. UNCHANGED <<open, rtpFrameFreeList, rtpFrameMap, frame>>
    BY <1>5 DEF Arrive, GetBuffer, ArriveWithoutBuffer, Lose, svars, vars
  <2> QED
    BY <2>1, Zenon DEF NoneWaits, Complete, SmallFrame
<1> QED
  BY <1>1, <1>2, <1>3, <1>4, <1>5 DEF StreamNext, Process

\* The entries of a spaced queue with numbers from a to a + n - 1 are n at most,
\* and when they are n they are all of them, in order.
LEMMA SpacedQueue ==
  ASSUME NEW q \in Seq(Entry), Spaced(q), NEW a \in Int, NEW n \in Nat \ {0},
         \A j \in DOMAIN q : a <= q[j].usSeq /\ q[j].usSeq <= a + n - 1
  PROVE  /\ Len(q) <= n
         /\ Len(q) = n => \A j \in 1 .. n : q[j].usSeq = a + j - 1
<1> DEFINE m == Len(q)
<1>1. m \in Nat /\ DOMAIN q = 1 .. m /\ \A j \in 1 .. m : q[j].usSeq \in Int
  BY LenProperties, EntrySeq, ElementOfSeq
<1> HIDE DEF m
<1>2. \A j \in 1 .. m : q[1].usSeq + (j - 1) <= q[j].usSeq /\ q[j].usSeq + (m - j) <= q[m].usSeq
  <2>1. ASSUME NEW j \in 1 .. m
        PROVE  1 \in 1 .. m /\ m \in 1 .. m /\ 1 <= j /\ j <= m
    BY <1>1
  <2> QED
    BY <1>1, <2>1 DEF Spaced
<1>3. \A j \in 1 .. m : a <= q[j].usSeq /\ q[j].usSeq <= a + n - 1
  BY <1>1
<1>4. ASSUME NEW j \in 1 .. m
      PROVE  a + (j - 1) <= q[j].usSeq /\ q[j].usSeq + (m - j) <= a + n - 1
  <2>1. 1 \in 1 .. m /\ m \in 1 .. m
    BY <1>1
  <2>2. a <= q[1].usSeq /\ q[m].usSeq <= a + n - 1 /\ q[1].usSeq \in Int /\ q[m].usSeq \in Int
        /\ q[j].usSeq \in Int
    BY <1>1, <1>3, <2>1
  <2>3. q[1].usSeq + (j - 1) <= q[j].usSeq /\ q[j].usSeq + (m - j) <= q[m].usSeq
    BY <1>2
  <2>4. m \in Int /\ j \in Int
    BY <1>1
  <2> QED
    BY <2>2, <2>3, <2>4, SMTT(30)
<1>5. m <= n
  <2>1. CASE m >= 1
    <3>1. m \in 1 .. m
      BY <1>1, <2>1
    <3>2. a + (m - 1) <= q[m].usSeq /\ q[m].usSeq <= a + n - 1 /\ q[m].usSeq \in Int
      BY <1>1, <1>3, <1>4, <3>1
    <3> QED
      BY <1>1, <3>2
  <2> QED
    BY <1>1, <2>1
<1>6. ASSUME m = n, NEW j \in 1 .. n
      PROVE  q[j].usSeq = a + j - 1
  <2>1. a + (j - 1) <= q[j].usSeq /\ q[j].usSeq + (n - j) <= a + n - 1 /\ q[j].usSeq \in Int
    BY <1>1, <1>4, <1>6
  <2> QED
    BY <2>1
<1> QED
  BY <1>5, <1>6 DEF m

\* A set that maps one to one into a finite set is not larger.
LEMMA InjectsInto ==
  ASSUME NEW S, NEW T, IsFiniteSet(T), NEW f \in [S -> T],
         \A x, y \in S : f[x] = f[y] => x = y
  PROVE  /\ IsFiniteSet(S)
         /\ Cardinality(S) \in Nat /\ Cardinality(T) \in Nat
         /\ Cardinality(S) <= Cardinality(T)
<1>1. f \in Injection(S, T)
  BY Fun_IsInj
<1>2. IsFiniteSet(S) /\ Cardinality(S) <= Cardinality(T)
  BY <1>1, FS_Injection
<1> QED
  BY <1>2, FS_CardinalityType

LEMMA IntervalSize ==
  ASSUME NEW n \in Nat
  PROVE  IsFiniteSet(1 .. n) /\ Cardinality(1 .. n) = n
<1>1. 1 \in Int /\ n \in Int
  OBVIOUS
<1>2. IsFiniteSet(1 .. n) /\ Cardinality(1 .. n) = IF 1 > n THEN 0 ELSE n - 1 + 1
  BY <1>1, FS_Interval
<1> QED
  BY <1>2

\* A spaced queue with n different numbers has n entries at least.
LEMMA AllPresent ==
  ASSUME NEW q \in Seq(Entry), NEW a \in Int, NEW n \in Nat,
         \A k \in 1 .. n : \E j \in DOMAIN q : q[j].usSeq = a + k
  PROVE  Len(q) >= n
<1> DEFINE D == 1 .. Len(q)
           S == 1 .. n
           f == [k \in S |-> CHOOSE j \in D : q[j].usSeq = a + k]
<1>1. Len(q) \in Nat /\ DOMAIN q = D
  BY LenProperties
<1>2. \A k \in S : f[k] \in D /\ q[f[k]].usSeq = a + k
  BY <1>1
<1>3. f \in [S -> D]
  BY <1>2
<1>4. IsFiniteSet(D) /\ Cardinality(D) = Len(q) /\ Cardinality(S) = n
  BY <1>1, IntervalSize
<1>5. \A k \in S : k \in Int
  OBVIOUS
<1> HIDE DEF f, D, S
<1>6. \A k, m \in S : f[k] = f[m] => k = m
  BY <1>2, <1>5
<1>7. Cardinality(S) <= Cardinality(D)
  BY <1>3, <1>4, <1>6, InjectsInto
<1> QED
  BY <1>1, <1>4, <1>7

LEMMA SmallMod ==
  ASSUME NEW x \in Nat, NEW n \in Nat \ {0}, x < n
  PROVE  x % n = x
OBVIOUS

\* The number of the first packet of frame t, from which the others count on.
FirstSeq(t) == Packet(Base(t) + 1).usSeq

LEMMA FrameNumbers ==
  ASSUME stream \in Streams, NoFrameWraps, NEW t \in 1 .. stream.frames
  PROVE  /\ FirstSeq(t) \in Nat
         /\ \A k \in 1 .. stream.length :
              /\ Packet(Base(t) + k).usSeq = FirstSeq(t) + k - 1
              /\ Packet(Base(t) + k).usSeq < SeqSpace
<1> DEFINE n == stream.length
           i1 == Base(t) + 1
<1>1. /\ n \in Nat \ {0} /\ Base(t) \in Nat
      /\ \A k \in 1 .. n : Base(t) + k \in Position /\ FrameOf(Base(t) + k) = t
  BY StreamFacts, Bases, InFrame
<1>2. i1 \in Position /\ FrameOf(i1) = t /\ 1 \in 1 .. n
  BY <1>1
<1>3. ASSUME NEW k \in 1 .. n
      PROVE  /\ FirstSeq(t) \in Nat
             /\ Packet(Base(t) + k).usSeq = FirstSeq(t) + k - 1
             /\ Packet(Base(t) + k).usSeq < SeqSpace
  <2> DEFINE i == Base(t) + k
  <2>1. i \in Position /\ FrameOf(i) = FrameOf(i1) /\ i1 <= i /\ i - i1 = k - 1
    BY <1>1, <1>2
  <2> HIDE DEF i, i1
  <2>2. Packet(i).usSeq = Packet(i1).usSeq + (i - i1) /\ Packet(i1).usSeq \in Nat
    BY <1>1, <1>2, <2>1, NumbersRun
  <2>3. Packet(i).usSeq \in SeqNum
    BY <1>1, <2>1, PositionOf, OrganizerAssumption DEF FragmentType
  <2>4. Packet(i).usSeq < SeqSpace
    BY <2>3, OrganizerAssumption DEF SeqNum
  <2> QED
    BY <2>1, <2>2, <2>4 DEF i, i1, FirstSeq
<1> QED
  BY <1>2, <1>3

\* A frame object has room for the packets of its frame, and with all of them it
\* is complete.
LEMMA QueueFits ==
  ASSUME stream \in Streams, NoFrameWraps, NEW T \in SUBSET Position,
         NEW f, f.PacketQueue \in Seq(Entry), Kept(f, T),
         NEW t \in 1 .. stream.frames, f.unTimestamp = t
  PROVE  /\ Len(f.PacketQueue) <= stream.length
         /\ Len(f.PacketQueue) = stream.length =>
              Complete(f) /\ Seqs(f.PacketQueue) = SentSeqs(t)
<1> DEFINE q == f.PacketQueue
           n == stream.length
           a == FirstSeq(t)
<1>1. /\ n \in Nat \ {0} /\ Base(t) \in Nat /\ 1 \in 1 .. n /\ n \in 1 .. n
      /\ MarkerOf(t) = Base(t) + n
  BY StreamFacts, Bases DEF MarkerOf
<1>2. a \in Nat /\ \A k \in 1 .. n : /\ Packet(Base(t) + k).usSeq = a + k - 1
                                     /\ Packet(Base(t) + k).usSeq < SeqSpace
  BY FrameNumbers
<1> HIDE DEF q, n, a
<1>3. q \in Seq(Entry) /\ Spaced(q)
  BY DEF q, Kept
<1>4. ASSUME NEW j \in DOMAIN q
      PROVE  a <= q[j].usSeq /\ q[j].usSeq <= a + n - 1
  <2>1. PICK i \in T : FrameOf(i) = t /\ q[j].usSeq = Packet(i).usSeq
    BY <1>4 DEF Kept, q
  <2>2. i \in Base(t) + 1 .. Base(t) + n /\ i \in Nat
    BY <2>1, PositionOf DEF n
  <2>3. \E k \in 1 .. n : i = Base(t) + k
    <3>1. i - Base(t) \in 1 .. n /\ i = Base(t) + (i - Base(t))
      BY <1>1, <2>2
    <3> QED
      BY <3>1
  <2> QED
    BY <1>1, <1>2, <2>1, <2>3
<1>5. /\ Len(q) <= n
      /\ Len(q) = n => \A j \in 1 .. n : q[j].usSeq = a + j - 1
  BY <1>1, <1>2, <1>3, <1>4, SpacedQueue
<1>6. ASSUME Len(q) = n
      PROVE  Complete(f) /\ Seqs(q) = SentSeqs(t)
  <2>1. DOMAIN q = 1 .. n
    BY <1>3, <1>6, LenProperties
  <2>2. \A j \in 1 .. n : q[j].usSeq = Packet(Base(t) + j).usSeq
    BY <1>2, <1>5, <1>6
  <2>3. f.bMarker
    <3>1. HasPacket(q, MarkerOf(t))
      BY <1>1, <2>1, <2>2 DEF HasPacket
    <3> QED
      BY <3>1 DEF Kept, q
  <2>4. ASSUME NEW j \in 1 .. n
        PROVE  q[j].usSeq = (q[1].usSeq + j - 1) % SeqSpace
    <3>1. q[1].usSeq = a /\ q[j].usSeq = a + j - 1 /\ a + j - 1 < SeqSpace
      <4>1. q[1].usSeq = a + 1 - 1
        BY <1>1, <1>5, <1>6
      <4> QED
        BY <1>2, <1>5, <1>6, <4>1
    <3>2. a + j - 1 \in Nat /\ SeqSpace \in Nat \ {0}
      BY <1>2, OrganizerAssumption
    <3>3. (a + j - 1) % SeqSpace = a + j - 1
      BY <3>1, <3>2, SmallMod
    <3> QED
      BY <3>1, <3>3
  <2>5. Complete(f)
    <3>1. q # <<>>
      BY <1>1, <2>1, EmptySeq
    <3> QED
      BY <2>1, <2>3, <2>4, <3>1 DEF Complete, q
  <2>6. Seqs(q) = SentSeqs(t)
    <3>1. \A j \in 1 .. n : q[j].usSeq = Packet((t - 1) * n + j).usSeq
      BY <2>2 DEF Base, n
    <3> QED
      BY <2>1, <3>1 DEF Seqs, SentSeqs, n
  <2> QED
    BY <2>5, <2>6
<1> QED
  BY <1>5, <1>6 DEF q, n

\* A frame all of whose packets were taken in is complete.
LEMMA AllTaken ==
  ASSUME stream \in Streams, NoFrameWraps, NEW T \in SUBSET Position,
         NEW f, f.PacketQueue \in Seq(Entry), Kept(f, T),
         NEW t \in 1 .. stream.frames, f.unTimestamp = t,
         \A k \in 1 .. stream.length : Base(t) + k \in T
  PROVE  Complete(f) /\ Seqs(f.PacketQueue) = SentSeqs(t)
<1> DEFINE q == f.PacketQueue
           n == stream.length
           a == FirstSeq(t)
<1>1. n \in Nat /\ a \in Nat /\ a - 1 \in Int
  BY StreamFacts, FrameNumbers
<1>2. ASSUME NEW k \in 1 .. n
      PROVE  \E j \in DOMAIN q : q[j].usSeq = (a - 1) + k
  <2>1. Base(t) + k \in T /\ FrameOf(Base(t) + k) = t
    BY InFrame
  <2>2. HasPacket(q, Base(t) + k)
    BY <2>1 DEF Kept
  <2>3. Packet(Base(t) + k).usSeq = a + k - 1
    BY FrameNumbers
  <2> HIDE DEF a, q
  <2>4. Packet(Base(t) + k).usSeq = (a - 1) + k
    BY <1>1, <2>3
  <2> QED
    BY <2>2, <2>4 DEF HasPacket
<1>3. Len(q) <= n /\ (Len(q) = n => Complete(f) /\ Seqs(q) = SentSeqs(t))
  BY QueueFits
<1> HIDE DEF q, n, a
<1>4. q \in Seq(Entry)
  BY DEF q
<1>5. Len(q) >= n
  BY <1>1, <1>2, <1>4, AllPresent
<1>6. Len(q) = n
  BY <1>1, <1>3, <1>4, <1>5, LenProperties
<1> QED
  BY <1>3, <1>6 DEF q

\* In order of arrival, what came before the packet in hand was taken in or is
\* missing.
LEMMA BeforeHand ==
  ASSUME CacheInv, HandIsLast, Orderly, NEW p \in Position, InHandIs(p),
         NEW i \in Position, i < p
  PROVE  i \in missing \/ i \in Taken
<1>1. i \in Nat /\ p \in Nat /\ i # p
  BY PositionOf DEF CacheInv
<1>2. i \notin Awaited
  <2>1. i \in Awaited => p < i
    BY DEF HandIsLast, Orderly
  <2> QED
    BY <1>1, <2>1
<1>3. i \in missing \/ arrived[i] > 0
  BY <1>2 DEF Awaited, CacheInv
<1>4. ~InHandIs(i)
  BY <1>1, SamePacket DEF InHandIs, CacheInv
<1> QED
  BY <1>3, <1>4 DEF Taken

LEMMA SmallFrameBefore ==
  ASSUME CacheInv, NEW p \in Position, NEW t \in 1 .. stream.frames, t < FrameOf(p),
         NEW i \in Position, FrameOf(i) = t
  PROVE  i < p
<1>1. i \in Nat /\ p \in Nat /\ FrameOf(p) \in Nat /\ t \in Nat
  BY PositionOf DEF CacheInv
<1>2. p <= i => FrameOf(p) <= FrameOf(i)
  BY FrameOrder DEF CacheInv
<1> QED
  BY <1>1, <1>2

\* The frame an eviction drops lacks a packet that is known to be missing.
LEMMA EvictedLacks ==
  ASSUME OrganizerInv, CacheInv, HandIsLast, KeptInv, NoneWaits, Orderly, Evict(Viewer)
  PROVE  LET small == SmallFrame(rtpFrameMap[Viewer], frame[Viewer])
         IN \E i \in missing : FrameOf(i) = frame[Viewer][small].unTimestamp
<1> DEFINE small == SmallFrame(rtpFrameMap[Viewer], frame[Viewer])
           f == frame[Viewer][small]
           t == f.unTimestamp
<1>1. /\ HasFragment(Viewer) /\ Viewer \in open /\ rtpFrameFreeList[Viewer] = {}
      /\ small \in rtpFrameMap[Viewer] /\ small \in Slot
      /\ t # inHand[Viewer].pkt.unTimestamp
  BY EvictedFrame
<1>2. ~Complete(f)
  BY <1>1 DEF NoneWaits
<1> HIDE DEF small
<1>3. PICK p \in Position : InHandIs(p)
  BY <1>1 DEF HasFragment, CacheInv
<1>4. stream \in Streams /\ t \in 1 .. stream.frames /\ t < FrameOf(p)
  <2>1. t # FrameOf(p)
    BY <1>1, <1>3, PositionOf DEF InHandIs, CacheInv
  <2>2. t < FrameOf(p)
    BY <1>1, <1>3, <2>1, CacheBeforeHand
  <2> QED
    BY <1>1, <2>2 DEF CacheInv, FromStream
<1>5. f.PacketQueue \in Seq(Entry) /\ f.PacketQueue # <<>> /\ Kept(f, Taken)
  BY <1>1, ViewerIsConn DEF OrganizerInv, QueuesWellFormed, TypeOK, FrameInfo, KeptInv
<1> HIDE DEF f
<1>6. SUFFICES ASSUME \A i \in missing : FrameOf(i) # t
               PROVE  FALSE
  BY DEF f, small
<1>7. ASSUME NEW k \in 1 .. stream.length
      PROVE  Base(t) + k \in Taken
  <2>1. Base(t) + k \in Position /\ FrameOf(Base(t) + k) = t
    BY <1>4, InFrame
  <2> QED
    BY <1>3, <1>4, <1>6, <2>1, SmallFrameBefore, BeforeHand
<1>8. Taken \in SUBSET Position
  BY DEF Taken
<1> QED
  BY <1>2, <1>4, <1>5, <1>7, <1>8, AllTaken DEF Orderly

-----------------------------------------------------------------------------
(* Without losses every frame is given when its last packet is taken in.   *)

OnTime ==
  Orderly /\ missing = {} =>
    /\ \A s \in rtpFrameMap[Viewer] : ~frame[Viewer][s].bMarker
    /\ \A k \in DOMAIN log : log[k] = [unTimestamp |-> k, seqs |-> SentSeqs(k)]
    /\ \A t \in 1 .. stream.frames : MarkerOf(t) \in Taken <=> t <= Len(log)

\* There is no other frame in the cache than the one of the packet in hand.
LEMMA Alone ==
  ASSUME OrganizerInv, CacheInv, HandIsLast, KeptInv, OnTime, Orderly, missing = {},
         NEW s, HasFragment(Viewer), Target(Viewer, s), NEW p \in Position, InHandIs(p)
  PROVE  rtpFrameMap[Viewer] \cup {s} = {s}
<1> SUFFICES ASSUME NEW u \in rtpFrameMap[Viewer], u # s
             PROVE  FALSE
  OBVIOUS
<1> DEFINE f == frame[Viewer][u]
           t == f.unTimestamp
<1>1. t # FrameOf(p)
  <2>1. Inserted(Viewer, s)[u] = f
    BY AfterInsertion
  <2>2. Inserted(Viewer, s)[s].unTimestamp = FrameOf(p)
    BY InsertedBehind
  <2> QED
    BY <2>1, <2>2, InsertKeeps, ViewerIsConn DEF FramesOK
<1>2. t < FrameOf(p)
  BY <1>1, CacheBeforeHand DEF HasFragment
<1>3. t \in 1 .. stream.frames
  BY DEF CacheInv, FromStream
<1>4. MarkerOf(t) \in Taken
  BY <1>2, <1>3, MarkerPosition, SmallFrameBefore, BeforeHand DEF CacheInv
<1>5. f.bMarker
  BY <1>3, <1>4, MarkerPosition DEF KeptInv, Kept, CacheInv
<1> QED
  BY <1>5 DEF OnTime

\* With the last packet, and only with it, the frame is complete.
LEMMA WholeWithMarker ==
  ASSUME OrganizerInv, CacheInv, HandIsLast, KeptInv, OnTime, Orderly, missing = {},
         NEW s, HasFragment(Viewer), Target(Viewer, s), NEW p \in Position, InHandIs(p)
  PROVE  LET g == Inserted(Viewer, s)[s]
         IN /\ g.unTimestamp = FrameOf(p)
            /\ p # MarkerOf(FrameOf(p)) => ~g.bMarker
            /\ p = MarkerOf(FrameOf(p)) =>
                 Complete(g) /\ Seqs(g.PacketQueue) = SentSeqs(FrameOf(p))
<1> DEFINE g == Inserted(Viewer, s)[s]
           T == Taken \cup {p}
           t == FrameOf(p)
<1>1. /\ g.unTimestamp = t
      /\ g.bMarker <=> \/ s \in rtpFrameMap[Viewer] /\ frame[Viewer][s].bMarker
                       \/ p = MarkerOf(t)
  BY InsertedBehind
<1>2. p # MarkerOf(t) => ~g.bMarker
  BY <1>1 DEF OnTime
<1>3. Kept(g, T)
  BY InsertedKept
<1>4. g.PacketQueue \in Seq(Entry) /\ g.PacketQueue # <<>>
  BY InsertKeeps, ViewerIsConn DEF FramesOK, FrameInfo
<1> HIDE DEF g
<1>5. stream \in Streams /\ t \in 1 .. stream.frames /\ T \in SUBSET Position
  BY PositionOf DEF CacheInv, Taken
<1>6. ASSUME p = MarkerOf(t), NEW k \in 1 .. stream.length
      PROVE  Base(t) + k \in T
  <2> DEFINE i == Base(t) + k
  <2>1. i \in Position
    BY <1>5, InFrame
  <2>2. i <= p /\ i \in Nat /\ p \in Nat
    <3>1. p = Base(t) + stream.length /\ Base(t) \in Nat /\ stream.length \in Nat
      BY <1>5, <1>6, Bases, StreamFacts DEF MarkerOf
    <3> QED
      BY <3>1
  <2> HIDE DEF i
  <2>3. i < p => i \in Taken
    BY <2>1, BeforeHand
  <2> QED
    BY <2>2, <2>3 DEF i
<1>7. p = MarkerOf(t) => Complete(g) /\ Seqs(g.PacketQueue) = SentSeqs(t)
  BY <1>1, <1>3, <1>4, <1>5, <1>6, AllTaken DEF Orderly
<1> QED
  BY <1>1, <1>2, <1>7 DEF g

LEMMA OnTimeStays ==
  ASSUME OnTime, UNCHANGED <<stream, log>>, missing \subseteq missing',
         Orderly /\ missing' = {} =>
           /\ Taken' = Taken
           /\ \A u \in rtpFrameMap'[Viewer] :
                u \in rtpFrameMap[Viewer] /\ frame'[Viewer][u] = frame[Viewer][u]
  PROVE  OnTime'
<1> SUFFICES ASSUME Orderly, missing' = {}
             PROVE  OnTime!2'
  BY OrderlyStays DEF OnTime
<1>1. missing = {} /\ Taken' = Taken
  OBVIOUS
<1>2. \A i : MarkerOf(i)' = MarkerOf(i) /\ SentSeqs(i)' = SentSeqs(i)
  BY OrderlyStays, StreamStays
<1>3. \A u \in rtpFrameMap'[Viewer] : ~frame'[Viewer][u].bMarker
  BY <1>1 DEF OnTime
<1>4. \A k \in DOMAIN log : log[k] = [unTimestamp |-> k, seqs |-> SentSeqs(k)]
  BY <1>1 DEF OnTime
<1>5. \A t \in 1 .. stream.frames : MarkerOf(t) \in Taken <=> t <= Len(log)
  BY <1>1 DEF OnTime
<1> QED
  BY <1>1, <1>2, <1>3, <1>4, <1>5

\* The frame given now is the one behind those of the log.
LEMMA NextFrame ==
  ASSUME CacheInv, LogInv, HandIsLast, OnTime, Orderly, missing = {},
         NEW t \in 1 .. stream.frames, InHandIs(MarkerOf(t))
  PROVE  t = Len(log) + 1
<1> DEFINE n == Len(log)
<1>1. n \in Nat /\ t \in Nat /\ stream \in Streams /\ stream.frames \in Nat
  BY LenProperties, StreamFacts DEF LogInv, CacheInv
<1>2. ~(t <= n)
  BY DEF OnTime, Taken
<1>3. CASE t > n + 1
  <2>1. t - 1 \in 1 .. stream.frames /\ t - 1 < t
    BY <1>1, <1>3
  <2>2. /\ MarkerOf(t - 1) \in Position /\ FrameOf(MarkerOf(t - 1)) = t - 1
        /\ MarkerOf(t) \in Position /\ FrameOf(MarkerOf(t)) = t
    BY <1>1, <2>1, MarkerPosition
  <2>3. MarkerOf(t - 1) < MarkerOf(t)
    BY <2>1, <2>2, SmallFrameBefore
  <2>4. MarkerOf(t - 1) \in Taken
    BY <2>2, <2>3, BeforeHand
  <2>5. t - 1 <= n
    BY <2>1, <2>4 DEF OnTime
  <2> QED
    BY <1>1, <1>3, <2>5
<1> QED
  BY <1>1, <1>2, <1>3

LEMMA NextOnTime ==
  ASSUME OrganizerInv, CacheInv, LogInv, OrderInv, HandIsLast, KeptInv, OnTime,
         [StreamNext]_svars
  PROVE  OnTime'
<1>1. CASE Connect \/ UNCHANGED svars
  <2>1. /\ UNCHANGED <<stream, arrived, missing, inHand, log>>
        /\ rtpFrameMap'[Viewer] = rtpFrameMap[Viewer]
        /\ \A s \in rtpFrameMap'[Viewer] : frame'[Viewer][s] = frame[Viewer][s]
    BY <1>1, ConnectFacts DEF svars, vars
  <2>2. Taken' = Taken
    <3>1. Position' = Position /\ \A i : InHandIs(i)' <=> InHandIs(i)
      BY <2>1, StreamStays DEF InHandIs
    <3> QED
      BY <2>1, <3>1 DEF Taken
  <2> QED
    BY <2>1, <2>2, OnTimeStays
<1>2. ASSUME NEW i \in Position, Arrive(i) \/ ArriveWithoutBuffer(i) \/ Lose(i)
      PROVE  OnTime'
  <2>1. UNCHANGED <<stream, log, rtpFrameMap, frame>> /\ missing \subseteq missing'
    BY <1>2 DEF Arrive, GetBuffer, ArriveWithoutBuffer, Lose, vars
  <2>2. Orderly => Taken' = Taken
    BY <1>2, TakenStays DEF Orderly
  <2> QED
    BY <2>1, <2>2, OnTimeStays
<1>3. ASSUME Evict(Viewer), UNCHANGED <<stream, log>>,
             missing' = missing \cup {i \in Position : Packet(i) = inHand[Viewer].pkt}
      PROVE  OnTime'
  <2>1. PICK p \in Position : InHandIs(p)
    BY <1>3, EvictFacts DEF HasFragment, CacheInv
  <2>2. p \in missing'
    BY <1>3, <2>1 DEF InHandIs
  <2> QED
    BY <1>3, <2>2, OnTimeStays
<1>4. ASSUME NEW s \in Slot, UNCHANGED <<stream, arrived, missing>>,
             \/ InsertAndHold(Viewer, s) /\ log' = log
             \/ InsertAndDeliver(Viewer, s) /\ log' = Append(log, delivered'[Viewer])
      PROVE  OnTime'
  <2> SUFFICES ASSUME Orderly, missing = {}
               PROVE  OnTime!2'
    BY <1>4, OrderlyStays DEF OnTime
  <2>1. HasFragment(Viewer) /\ Target(Viewer, s) /\ inHand'[Viewer] = Nothing
    BY <1>4, HoldFacts, DeliverFacts
  <2>2. PICK p \in Position : InHandIs(p)
    BY <2>1 DEF HasFragment, CacheInv
  <2> DEFINE g == Inserted(Viewer, s)[s]
             t == FrameOf(p)
             n == Len(log)
  <2>3. rtpFrameMap[Viewer] \cup {s} = {s}
    BY <2>1, <2>2, Alone
  <2>4. /\ g.unTimestamp = t
        /\ p # MarkerOf(t) => ~g.bMarker
        /\ p = MarkerOf(t) => Complete(g) /\ Seqs(g.PacketQueue) = SentSeqs(t)
    BY <2>1, <2>2, WholeWithMarker
  <2>5. Taken' = Taken \cup {p} /\ p \notin Taken
    BY <1>4, <2>1, <2>2, TakenInserted DEF Orderly
  <2>6. t \in 1 .. stream.frames /\ stream \in Streams
    BY PositionOf DEF CacheInv
  <2>7. \A u \in 1 .. stream.frames : MarkerOf(u) = p <=> u = t /\ p = MarkerOf(t)
    BY <2>6, MarkerPosition
  <2>8. \A i : MarkerOf(i)' = MarkerOf(i) /\ SentSeqs(i)' = SentSeqs(i)
    BY <1>4, OrderlyStays, StreamStays
  <2>9. n \in Nat /\ DOMAIN log = 1 .. n /\ log \in Seq(Delivery)
    BY LenProperties DEF LogInv
  <2>10. CASE InsertAndHold(Viewer, s) /\ log' = log
    <3>1. rtpFrameMap'[Viewer] = {s} /\ frame'[Viewer][s] = g
      BY <2>3, <2>10, HoldFacts
    <3>2. ~Complete(g)
      <4>1. SmallFrame({s}, Inserted(Viewer, s)) \in {s}
        BY <2>1, InsertKeeps, ViewerIsConn, SmallFrameExists
      <4>2. SmallFrame({s}, Inserted(Viewer, s)) = s
        BY <4>1
      <4>3. ~Complete(Inserted(Viewer, s)[SmallFrame(rtpFrameMap[Viewer] \cup {s}, Inserted(Viewer, s))])
        BY <2>10 DEF InsertAndHold
      <4> QED
        BY <2>3, <4>2, <4>3
    <3> HIDE DEF g
    <3>3. p # MarkerOf(t) /\ ~g.bMarker
      BY <2>4, <3>2
    <3>4. \A u \in 1 .. stream.frames : MarkerOf(u) \in Taken' <=> u <= n
      BY <2>5, <2>7, <3>3 DEF OnTime
    <3>5. \A k \in DOMAIN log : log[k] = [unTimestamp |-> k, seqs |-> SentSeqs(k)]
      BY DEF OnTime
    <3> QED
      BY <1>4, <2>8, <2>10, <3>1, <3>3, <3>4, <3>5
  <2>11. CASE InsertAndDeliver(Viewer, s) /\ log' = Append(log, delivered'[Viewer])
    <3>1. /\ rtpFrameMap'[Viewer] = {}
          /\ Complete(g)
          /\ delivered'[Viewer] = [unTimestamp |-> t, seqs |-> Seqs(g.PacketQueue)]
      <4>1. PICK small \in {s} :
              /\ rtpFrameMap'[Viewer] = {s} \ {small}
              /\ Complete(Inserted(Viewer, s)[small])
              /\ delivered'[Viewer] = [unTimestamp |-> Inserted(Viewer, s)[small].unTimestamp,
                                       seqs |-> Seqs(Inserted(Viewer, s)[small].PacketQueue)]
        BY <2>3, <2>11, DeliverFacts
      <4>2. small = s
        OBVIOUS
      <4> QED
        BY <2>4, <4>1, <4>2
    <3> HIDE DEF g
    <3>2. g.bMarker /\ p = MarkerOf(t)
      BY <2>4, <3>1 DEF Complete
    <3>3. t = n + 1
      BY <2>2, <2>6, <3>2, NextFrame
    <3> DEFINE d == [unTimestamp |-> t, seqs |-> SentSeqs(t)]
    <3>4. log' = Append(log, d)
      BY <1>4, <2>4, <2>11, <3>1, <3>2
    <3> HIDE DEF d, n
    <3>5. d \in Delivery
      <4>1. SentSeqs(t) \in Seq(SeqNum) /\ t \in Nat
        BY <2>6, SentShape
      <4> QED
        BY <4>1 DEF Delivery, d
    <3>6. /\ Len(log') = n + 1 /\ DOMAIN log' = 1 .. n + 1
          /\ log'[n + 1] = d /\ \A k \in 1 .. n : log'[k] = log[k]
      BY <2>9, <3>4, <3>5, AppendProperties DEF n
    <3>7. \A k \in DOMAIN log' : log'[k] = [unTimestamp |-> k, seqs |-> SentSeqs(k)]
      <4> TAKE k \in DOMAIN log'
      <4>1. CASE k = n + 1
        BY <3>3, <3>6, <4>1 DEF d
      <4>2. CASE k \in 1 .. n
        BY <2>9, <3>6, <4>2 DEF OnTime, n
      <4> QED
        BY <2>9, <3>6, <4>1, <4>2
    <3>8. \A u \in 1 .. stream.frames : MarkerOf(u) \in Taken' <=> u <= Len(log')
      <4> TAKE u \in 1 .. stream.frames
      <4>1. MarkerOf(u) \in Taken <=> u <= n
        BY DEF OnTime, n
      <4>2. MarkerOf(u) = p <=> u = n + 1
        BY <2>7, <3>2, <3>3
      <4> QED
        BY <2>5, <2>9, <3>6, <4>1, <4>2
    <3> QED
      BY <1>4, <2>8, <3>1, <3>7, <3>8
  <2> QED
    BY <1>4, <2>10, <2>11
<1> QED
  BY <1>1, <1>2, <1>3, <1>4 DEF StreamNext, Process

\* What was taken in of a stream without losses is its beginning.
LEMMA TakenIsBeginning ==
  ASSUME OrganizerInv, CacheInv, OrderInv, HandIsLast, Orderly, missing = {}
  PROVE  /\ Handled \in 0 .. stream.frames * stream.length
         /\ Taken = 1 .. Handled
<1> DEFINE N == stream.frames * stream.length
           Came == {i \in Position : arrived[i] > 0}
<1>1. /\ N \in Nat /\ Position = 1 .. N /\ \A i \in Position : arrived[i] \in Nat
      /\ Awaited = Position \ Came
  BY StreamFacts DEF CacheInv, Position, Awaited
<1> HIDE DEF N
<1>2. \E n \in 0 .. N : Came = 1 .. n
  <2>1. CASE Awaited = {}
    <3>1. Came = 1 .. N
      BY <1>1, <2>1
    <3>2. N \in 0 .. N
      BY <1>1
    <3> QED
      BY <3>1, <3>2
  <2>2. CASE Awaited # {}
    <3> DEFINE m == Min(Awaited)
    <3>1. Awaited \in SUBSET Nat
      BY <1>1
    <3>2. m \in Awaited /\ \A x \in Awaited : m <= x
      BY <2>2, <3>1, MinOfNat
    <3> HIDE DEF m
    <3>3. m \in 1 .. N /\ \A j \in Position : j \in Awaited <=> m <= j
      BY <1>1, <3>2 DEF OrderInv, Orderly
    <3>4. Came = 1 .. m - 1
      BY <1>1, <3>3
    <3>5. m - 1 \in 0 .. N
      BY <1>1, <3>3
    <3> QED
      BY <3>4, <3>5
  <2> QED
    BY <2>1, <2>2
<1>3. PICK n \in 0 .. N : Came = 1 .. n
  BY <1>2
<1>4. Cardinality(Came) = n
  <2>1. n \in Nat /\ Cardinality(1 .. n) = n
    BY <1>1, IntervalSize
  <2> HIDE DEF Came
  <2> QED
    BY <1>3, <2>1
<1>5. CASE inHand[Viewer] = Nothing
  <2>1. Handled = n
    BY <1>1, <1>4, <1>5 DEF Handled
  <2>2. Taken = Came
    BY <1>5 DEF Taken, InHandIs
  <2> QED
    BY <1>3, <2>1, <2>2 DEF N
<1>6. CASE inHand[Viewer] # Nothing
  <2>1. PICK p \in Position : InHandIs(p) /\ arrived[p] > 0
    BY <1>6 DEF CacheInv
  <2>2. \A i \in Position : i \in Taken <=> i \in Came /\ i # p
    BY <2>1, SamePacket DEF Taken, InHandIs, CacheInv
  <2>3. p \in 1 .. n /\ \A i \in 1 .. n : i <= p
    BY <1>3, <2>1 DEF HandIsLast, Orderly
  <2>4. p = n /\ n \in 1 .. N
    BY <1>1, <1>3, <2>3
  <2>5. Handled = n - 1
    BY <1>1, <1>4, <1>6 DEF Handled
  <2>6. Taken \subseteq Position /\ Came \subseteq Position
    BY DEF Taken
  <2>7. Taken = 1 .. n - 1
    <3>1. \A i \in Taken : i \in 1 .. n - 1
      BY <1>3, <2>2, <2>4, <2>6
    <3>2. \A i \in 1 .. n - 1 : i \in 1 .. n /\ i # n
      BY <2>4
    <3>3. \A i \in 1 .. n - 1 : i \in Taken
      BY <1>3, <2>2, <2>4, <2>6, <3>2
    <3> QED
      BY <3>1, <3>3
  <2>8. n - 1 \in 0 .. N
    BY <1>1, <2>4
  <2> QED
    BY <2>5, <2>7, <2>8 DEF N
<1> QED
  BY <1>5, <1>6

LEMMA OnTimeIsWhole ==
  ASSUME OrganizerInv, CacheInv, LogInv, OrderInv, HandIsLast, OnTime, NoFrameWraps
  PROVE  WholeStreamDelivered
<1> SUFFICES ASSUME missing = {}, ArrivesInOrder
             PROVE  log = [t \in 1 .. Handled \div stream.length |->
                             [unTimestamp |-> t, seqs |-> SentSeqs(t)]]
  BY DEF WholeStreamDelivered
<1> DEFINE n == Len(log)
           L == stream.length
           D == Handled \div L
<1>1. Orderly
  BY DEF Orderly
<1>2. Handled \in 0 .. stream.frames * L /\ Taken = 1 .. Handled
  BY <1>1, TakenIsBeginning
<1>3. L \in Nat \ {0} /\ stream.frames \in Nat /\ stream.frames * L \in Nat
  BY StreamFacts DEF CacheInv
<1>4. n \in Nat /\ DOMAIN log = 1 .. n /\ log \in Seq(Delivery)
  BY LenProperties DEF LogInv
<1>5. \A k \in 1 .. n : log[k] = [unTimestamp |-> k, seqs |-> SentSeqs(k)] /\ k \in 1 .. stream.frames
  <2>1. \A k \in 1 .. n : log[k] = [unTimestamp |-> k, seqs |-> SentSeqs(k)]
                          /\ log[k].unTimestamp \in 1 .. stream.frames
    BY <1>1, <1>4 DEF OnTime, LogInv
  <2> QED
    BY <2>1
<1>6. \A t \in 1 .. stream.frames : t * L \in 1 .. Handled <=> t <= n
  BY <1>1, <1>2 DEF OnTime, MarkerOf
<1> HIDE DEF n, L
<1>7. Handled \in Nat
  BY <1>2, <1>3
<1> DEFINE h == Handled
<1> HIDE DEF h
<1>8. D \in Nat /\ D * L <= h /\ h < D * L + L /\ D * L \in Int
  <2>1. h \in Nat /\ D = h \div L
    BY <1>7 DEF h
  <2> HIDE DEF D
  <2>2. D \in Nat /\ D * L <= h /\ h < D * L + L
    BY <1>3, <2>1, DivBounds
  <2> QED
    BY <1>3, <2>2, MulType
<1> HIDE DEF D
<1>9. n <= D
  <2>1. CASE n >= 1
    <3>1. n \in 1 .. n
      BY <1>4, <2>1
    <3>2. n \in 1 .. stream.frames
      BY <1>5, <3>1
    <3>3. n * L \in 1 .. h
      BY <1>4, <1>6, <3>2 DEF h
    <3>4. D + 1 <= n => (D + 1) * L <= n * L
      BY <1>3, <1>4, <1>8, MulMono
    <3>5. (D + 1) * L = D * L + L
      BY <1>3, <1>8, MulNext
    <3> QED
      BY <1>3, <1>4, <1>7, <1>8, <3>3, <3>4, <3>5 DEF h
  <2> QED
    BY <1>4, <1>8, <2>1
<1>10. D <= n
  <2>1. CASE D >= 1
    <3>1. 1 * L <= D * L /\ 1 * L = L
      BY <1>3, <1>8, <2>1, MulMono
    <3>2. D <= stream.frames
      <4>1. stream.frames + 1 <= D => (stream.frames + 1) * L <= D * L
        BY <1>3, <1>8, MulMono
      <4>2. (stream.frames + 1) * L = stream.frames * L + L
        BY <1>3, MulNext
      <4>3. h <= stream.frames * L
        BY <1>2, <1>3 DEF h
      <4> QED
        BY <1>3, <1>7, <1>8, <4>1, <4>2, <4>3 DEF h
    <3>3. D * L \in 1 .. h
      BY <1>3, <1>7, <1>8, <3>1 DEF h
    <3>4. D \in 1 .. stream.frames
      BY <1>3, <1>8, <2>1, <3>2
    <3> QED
      BY <1>6, <3>3, <3>4 DEF h
  <2> QED
    BY <1>4, <1>8, <2>1
<1>11. n = D
  BY <1>4, <1>8, <1>9, <1>10
<1>12. log = [t \in 1 .. n |-> [unTimestamp |-> t, seqs |-> SentSeqs(t)]]
  <2>1. log = [t \in DOMAIN log |-> log[t]]
    BY <1>4
  <2> QED
    BY <1>4, <1>5, <2>1
<1> QED
  BY <1>11, <1>12 DEF D, L

-----------------------------------------------------------------------------
(* What the statistics count.                                              *)

\* No thread has a packet and no buffer is free: nothing will be taken in any
\* more.
Wedged == inHand[Viewer] = Nothing /\ \A b \in Buf : rtpRecvBufList[b] = 0

\* A packet that came but was dropped is the head of its frame, if that is in the
\* cache: it was dropped with an eviction, before the frame had an object.
Dropped ==
  Orderly /\ ~Wedged =>
    \A s \in rtpFrameMap[Viewer] : \A i \in missing :
      FrameOf(i) = frame[Viewer][s].unTimestamp /\ arrived[i] > 0 =>
        \A j \in DOMAIN frame[Viewer][s].PacketQueue :
          Packet(i).usSeq < frame[Viewer][s].PacketQueue[j].usSeq

LEMMA DroppedStays ==
  ASSUME Dropped, stream' = stream, Orderly /\ ~Wedged' => ~Wedged,
         \A u \in rtpFrameMap'[Viewer] :
           u \in rtpFrameMap[Viewer] /\ frame'[Viewer][u] = frame[Viewer][u],
         Orderly => \A u \in rtpFrameMap'[Viewer] : \A i \in missing' :
           FrameOf(i) = frame[Viewer][u].unTimestamp /\ arrived'[i] > 0 =>
             i \in missing /\ arrived[i] > 0
  PROVE  Dropped'
<1> SUFFICES ASSUME Orderly, ~Wedged, ~Wedged'
             PROVE  Dropped!2'
  BY OrderlyStays DEF Dropped
<1>0. SUFFICES ASSUME NEW s \in rtpFrameMap'[Viewer], NEW i \in missing',
                      FrameOf(i) = frame'[Viewer][s].unTimestamp, arrived'[i] > 0,
                      NEW j \in DOMAIN frame'[Viewer][s].PacketQueue
               PROVE  Packet(i).usSeq < frame'[Viewer][s].PacketQueue[j].usSeq
  BY OrderlyStays
<1>1. s \in rtpFrameMap[Viewer] /\ frame'[Viewer][s] = frame[Viewer][s]
  OBVIOUS
<1>2. i \in missing /\ arrived[i] > 0
  BY <1>0, <1>1
<1> QED
  BY <1>0, <1>1, <1>2 DEF Dropped

LEMMA DroppedAfterInsertion ==
  ASSUME OrganizerInv, CacheInv, HandIsLast, KeptInv, Dropped, NEW s,
         HasFragment(Viewer), Target(Viewer, s), UNCHANGED <<stream, arrived, missing>>,
         rtpFrameMap'[Viewer] \subseteq rtpFrameMap[Viewer] \cup {s},
         \A u \in rtpFrameMap'[Viewer] : frame'[Viewer][u] = Inserted(Viewer, s)[u]
  PROVE  Dropped'
<1> SUFFICES ASSUME Orderly
             PROVE  Dropped!2'
  BY OrderlyStays DEF Dropped
<1> SUFFICES ASSUME NEW u \in rtpFrameMap[Viewer] \cup {s}, NEW i \in missing,
                    NEW f, f = Inserted(Viewer, s)[u],
                    FrameOf(i) = f.unTimestamp, arrived[i] > 0,
                    NEW j \in DOMAIN f.PacketQueue
             PROVE  Packet(i).usSeq < f.PacketQueue[j].usSeq
  <2>1. ASSUME NEW u \in rtpFrameMap'[Viewer]
        PROVE  u \in rtpFrameMap[Viewer] \cup {s} /\ frame'[Viewer][u] = Inserted(Viewer, s)[u]
    BY <2>1
  <2> QED
    BY <2>1, OrderlyStays
<1>1. PICK p \in Position : InHandIs(p)
  BY DEF HasFragment, CacheInv
<1>2. ~Wedged
  BY DEF Wedged, HasFragment
<1> DEFINE q == frame[Viewer][s].PacketQueue
           e == EntryInHand(Viewer)
           g == Inserted(Viewer, s)[s]
<1>3. CASE u # s
  <2>1. u \in rtpFrameMap[Viewer] /\ f = frame[Viewer][u]
    BY <1>3, AfterInsertion
  <2> QED
    BY <1>2, <2>1 DEF Dropped
<1>4. CASE u = s
  <2>1. /\ q \in Seq(Entry) /\ e \in Entry /\ e.usSeq = Packet(p).usSeq
        /\ s \in rtpFrameMap[Viewer] => frame[Viewer][s].unTimestamp = FrameOf(p)
        /\ s \notin rtpFrameMap[Viewer] => q = <<>>
        /\ g.unTimestamp = FrameOf(p)
        /\ g.PacketQueue = Append(q, e)
    BY <1>1, InsertedBehind
  <2> HIDE DEF q, e, g
  <2>2. /\ Len(q) \in Nat /\ DOMAIN q = 1 .. Len(q)
        /\ DOMAIN g.PacketQueue = 1 .. Len(q) + 1
        /\ g.PacketQueue[Len(q) + 1] = e
        /\ \A k \in 1 .. Len(q) : g.PacketQueue[k] = q[k]
    BY <2>1, AppendProperties, LenProperties
  <2>3. f = g /\ FrameOf(i) = FrameOf(p)
    BY <1>4, <2>1 DEF g
  <2>4. CASE j \in 1 .. Len(q)
    <3>1. s \in rtpFrameMap[Viewer]
      <4>1. q = <<>> => Len(q) = 0
        OBVIOUS
      <4> QED
        BY <2>1, <2>2, <2>4, <4>1
    <3>2. FrameOf(i) = frame[Viewer][s].unTimestamp /\ j \in DOMAIN q
      BY <2>1, <2>2, <2>3, <2>4, <3>1
    <3>3. Packet(i).usSeq < q[j].usSeq
      BY <1>2, <3>1, <3>2 DEF Dropped, q
    <3> QED
      BY <2>2, <2>3, <2>4, <3>3
  <2>5. CASE j = Len(q) + 1
    <3>1. i \in Position /\ i <= p /\ i # p
      BY <1>1 DEF HandIsLast, CacheInv, Orderly
    <3>2. i \in Nat /\ p \in Nat
      BY <3>1, PositionOf DEF CacheInv
    <3>3. Packet(i).usSeq \in Nat /\ Packet(p).usSeq = Packet(i).usSeq + (p - i)
      BY <2>3, <3>1, NumbersRun DEF CacheInv, Orderly
    <3> QED
      BY <2>1, <2>2, <2>3, <2>5, <3>1, <3>2, <3>3
  <2> QED
    BY <2>2, <2>3, <2>4, <2>5
<1> QED
  BY <1>3, <1>4

LEMMA NextDropped ==
  ASSUME OrganizerInv, CacheInv, OrderInv, HandIsLast, KeptInv, Dropped, [StreamNext]_svars
  PROVE  Dropped'
<1>1. CASE Connect
  <2>1. rtpFrameMap'[Viewer] = {}
    BY <1>1, ConnectFacts
  <2> QED
    BY <2>1 DEF Dropped
<1>2. CASE UNCHANGED svars
  <2>1. UNCHANGED <<stream, arrived, missing, rtpFrameMap, frame>> /\ Wedged' = Wedged
    BY <1>2 DEF svars, vars, Wedged
  <2> QED
    BY <2>1, DroppedStays
<1>3. ASSUME NEW i \in Position, Arrive(i)
      PROVE  Dropped'
  <2>1. /\ UNCHANGED <<stream, missing, rtpFrameMap, frame>>
        /\ MayArrive(i) /\ arrived' = [arrived EXCEPT ![i] = @ + 1]
    BY <1>3, ArriveFacts DEF CacheInv
  <2>2. ~Wedged
    BY <1>3 DEF Arrive, GetBuffer, Wedged
  <2>3. Orderly => i \notin missing
    BY <2>1, NextOnly DEF Orderly, Awaited
  <2>4. Orderly => \A k \in missing : arrived'[k] = arrived[k]
    BY <2>1, <2>3 DEF CacheInv
  <2> QED
    BY <2>1, <2>2, <2>4, DroppedStays
<1>4. ASSUME NEW i \in Position, ArriveWithoutBuffer(i)
      PROVE  Dropped'
  <2>1. Wedged'
    BY <1>4 DEF ArriveWithoutBuffer, Wedged, vars
  <2> QED
    BY <2>1 DEF Dropped
<1>5. ASSUME NEW i \in Position, Lose(i)
      PROVE  Dropped'
  <2>1. /\ UNCHANGED <<stream, arrived, rtpFrameMap, frame>> /\ Wedged' = Wedged
        /\ missing' = missing \cup {i} /\ arrived[i] = 0
    BY <1>5 DEF Lose, vars, Wedged, Awaited
  <2> QED
    BY <2>1, DroppedStays
<1>6. ASSUME NEW s \in Slot, InsertAndHold(Viewer, s), UNCHANGED <<stream, arrived, missing>>
      PROVE  Dropped'
  <2>1. /\ HasFragment(Viewer) /\ Target(Viewer, s)
        /\ rtpFrameMap'[Viewer] = rtpFrameMap[Viewer] \cup {s}
        /\ frame'[Viewer] = Inserted(Viewer, s)
    BY <1>6, HoldFacts
  <2> QED
    BY <1>6, <2>1, DroppedAfterInsertion
<1>7. ASSUME NEW s \in Slot, InsertAndDeliver(Viewer, s), UNCHANGED <<stream, arrived, missing>>
      PROVE  Dropped'
  <2>1. /\ HasFragment(Viewer) /\ Target(Viewer, s)
        /\ rtpFrameMap'[Viewer] \subseteq rtpFrameMap[Viewer] \cup {s}
        /\ \A u \in rtpFrameMap'[Viewer] : frame'[Viewer][u] = Inserted(Viewer, s)[u]
    BY <1>7, DeliverFacts
  <2> QED
    BY <1>7, <2>1, DroppedAfterInsertion
<1>8. ASSUME Evict(Viewer), UNCHANGED <<stream, arrived>>,
             missing' = missing \cup {i \in Position : Packet(i) = inHand[Viewer].pkt}
      PROVE  Dropped'
  <2>1. /\ HasFragment(Viewer)
        /\ \A u \in rtpFrameMap'[Viewer] :
             /\ u \in rtpFrameMap[Viewer] /\ frame'[Viewer][u] = frame[Viewer][u]
             /\ frame[Viewer][u].unTimestamp # inHand[Viewer].pkt.unTimestamp
    BY <1>8, EvictedFrame
  <2>2. ~Wedged
    BY <2>1 DEF Wedged, HasFragment
  <2>3. \A i \in missing' \ missing : i \in Position /\ FrameOf(i) = inHand[Viewer].pkt.unTimestamp
    BY <1>8, PositionOf DEF CacheInv
  <2> QED
    BY <1>8, <2>1, <2>2, <2>3, DroppedStays
<1> QED
  BY <1>1, <1>2, <1>3, <1>4, <1>5, <1>6, <1>7, <1>8 DEF StreamNext, Process

\* The packets that never came, of frames that are over and not in the cache.
GoneLost ==
  {i \in missing : /\ arrived[i] = 0 /\ Over(FrameOf(i))
                   /\ \A s \in rtpFrameMap[Viewer] : FrameOf(i) < frame[Viewer][s].unTimestamp}

CountInv ==
  Orderly => /\ stat[Viewer].disorder = 0
             /\ stat[Viewer].lostPackets <= Cardinality(GoneLost)

LEMMA PositionFinite ==
  ASSUME CacheInv
  PROVE  IsFiniteSet(Position)
BY StreamFacts, IntervalSize DEF CacheInv, Position

LEMMA GoneLostFiniteAfter ==
  ASSUME CacheInv, CacheInv', stream' = stream
  PROVE  IsFiniteSet(GoneLost') /\ Cardinality(GoneLost') \in Nat
<1>1. IsFiniteSet(Position) /\ Position' = Position
  BY PositionFinite, StreamStays
<1>2. GoneLost' \in SUBSET Position
  BY <1>1 DEF CacheInv, GoneLost
<1>3. IsFiniteSet(GoneLost')
  BY <1>1, <1>2, FS_Subset
<1> QED
  BY <1>3, FS_CardinalityType

LEMMA GoneLostFinite ==
  ASSUME CacheInv
  PROVE  IsFiniteSet(missing) /\ IsFiniteSet(GoneLost) /\ Cardinality(GoneLost) \in Nat
<1>1. IsFiniteSet(Position)
  BY PositionFinite
<1>2. missing \in SUBSET Position /\ GoneLost \in SUBSET Position
  BY DEF CacheInv, GoneLost
<1>3. IsFiniteSet(missing) /\ IsFiniteSet(GoneLost)
  BY <1>1, <1>2, FS_Subset
<1> QED
  BY <1>3, FS_CardinalityType

\* A step that counts nothing.
LEMMA CountStays ==
  ASSUME CacheInv, CacheInv', CountInv, stream' = stream,
         Orderly => /\ stat'[Viewer].disorder = stat[Viewer].disorder
                    /\ stat'[Viewer].lostPackets = stat[Viewer].lostPackets
                    /\ \A i \in GoneLost : i \in GoneLost',
         OrganizerInv
  PROVE  CountInv'
<1> SUFFICES ASSUME Orderly
             PROVE  CountInv!2'
  BY OrderlyStays DEF CountInv
<1>1. GoneLost \in SUBSET GoneLost'
  OBVIOUS
<1>2. /\ IsFiniteSet(GoneLost') /\ Cardinality(GoneLost') \in Nat
      /\ IsFiniteSet(GoneLost) /\ Cardinality(GoneLost) \in Nat
  BY GoneLostFinite, GoneLostFiniteAfter
<1>3. Cardinality(GoneLost) <= Cardinality(GoneLost')
  BY <1>1, <1>2, FS_Subset
<1>4. stat[Viewer].lostPackets \in Nat
  BY ViewerIsConn DEF OrganizerInv, TypeOK, Statistics
<1>5. stat[Viewer].lostPackets <= Cardinality(GoneLost) /\ stat[Viewer].disorder = 0
  BY DEF CountInv
<1> QED
  BY <1>2, <1>3, <1>4, <1>5

\* What is gone stays gone as long as the frames of the cache are old ones.
LEMMA GoneStays ==
  ASSUME CacheInv, Orderly, stream' = stream, NEW i \in GoneLost,
         missing \subseteq missing', arrived'[i] = arrived[i], Ahead' \subseteq Ahead,
         \A u \in rtpFrameMap'[Viewer] : FrameOf(i) < frame'[Viewer][u].unTimestamp
  PROVE  i \in GoneLost'
<1>1. i \in missing' /\ arrived'[i] = 0 /\ Over(FrameOf(i))
  BY DEF GoneLost
<1>2. \A p : FrameOf(p)' = FrameOf(p)
  BY OrderlyStays
<1>3. Over(FrameOf(i))'
  BY <1>1, <1>2 DEF Over
<1> QED
  BY <1>1, <1>2, <1>3 DEF GoneLost

\* An insertion in order of arrival is never out of order.
LEMMA CountedInOrder ==
  ASSUME OrganizerInv, CacheInv, HandIsLast, KeptInv, Orderly,
         NEW s, HasFragment(Viewer), Target(Viewer, s), stat' = Counted(Viewer, s)
  PROVE  /\ stat'[Viewer].disorder = stat[Viewer].disorder
         /\ stat'[Viewer].lostPackets = stat[Viewer].lostPackets
<1>1. PICK p \in Position : InHandIs(p)
  BY DEF HasFragment, CacheInv
<1>2. /\ s \in Slot /\ InOrder(frame[Viewer][s].PacketQueue, EntryInHand(Viewer))
  BY <1>1, InsertedBehind
<1>3. TypeOK /\ Viewer \in Conn /\ frame[Viewer][s] \in FrameInfo /\ stat[Viewer] \in Statistics
  BY <1>2, ViewerIsConn DEF OrganizerInv, TypeOK
<1>4. Prepared(Viewer, s).PacketQueue = frame[Viewer][s].PacketQueue
  BY <1>3 DEF Prepared, FrameInfo
<1>5. InOrder(Prepared(Viewer, s).PacketQueue, inHand[Viewer].pkt)
  BY <1>2, <1>4 DEF InOrder, EntryInHand
<1>6. stat' = [stat EXCEPT ![Viewer].total = @ + 2, ![Viewer].disorder = @ + 0]
  BY <1>5 DEF Counted
<1>7. stat'[Viewer] = [stat[Viewer] EXCEPT !.total = @ + 2, !.disorder = @ + 0]
  BY <1>3, <1>6 DEF TypeOK
<1> QED
  BY <1>3, <1>7 DEF Statistics

LEMMA CountAfterInsertion ==
  ASSUME OrganizerInv, CacheInv, CacheInv', HandIsLast, KeptInv, CountInv, NEW s,
         HasFragment(Viewer), Target(Viewer, s), UNCHANGED <<stream, arrived, missing>>,
         inHand'[Viewer] = Nothing, stat' = Counted(Viewer, s),
         rtpFrameMap'[Viewer] \subseteq rtpFrameMap[Viewer] \cup {s},
         \A u \in rtpFrameMap'[Viewer] : frame'[Viewer][u] = Inserted(Viewer, s)[u]
  PROVE  CountInv'
<1>1. ASSUME Orderly, NEW i \in GoneLost
      PROVE  i \in GoneLost'
  <2>1. PICK p \in Position : InHandIs(p)
    BY DEF HasFragment, CacheInv
  <2>2. Ahead' \subseteq Ahead
    BY <1>1, <2>1, TakenInserted DEF Orderly
  <2>3. ASSUME NEW u \in rtpFrameMap'[Viewer]
        PROVE  FrameOf(i) < frame'[Viewer][u].unTimestamp
    <3>1. CASE u = s
      <4>1. Inserted(Viewer, s)[u].unTimestamp = FrameOf(p)
        BY <1>1, <2>1, <3>1, InsertedBehind
      <4>2. p \in Ahead
        BY <2>1 DEF Ahead
      <4>3. FrameOf(i) < FrameOf(p)
        BY <1>1, <4>2 DEF GoneLost, Over
      <4> QED
        BY <2>3, <4>1, <4>3
    <3>2. CASE u # s
      <4>1. u \in rtpFrameMap[Viewer] /\ frame'[Viewer][u] = frame[Viewer][u]
        BY <2>3, <3>2, AfterInsertion
      <4> QED
        BY <1>1, <4>1 DEF GoneLost
    <3> QED
      BY <3>1, <3>2
  <2> QED
    BY <1>1, <2>2, <2>3, GoneStays
<1>2. Orderly => /\ stat'[Viewer].disorder = stat[Viewer].disorder
                 /\ stat'[Viewer].lostPackets = stat[Viewer].lostPackets
  BY CountedInOrder
<1> QED
  BY <1>1, <1>2, CountStays

\* The missing packets of frame t that never came.
GapsOf(t) == {i \in missing : arrived[i] = 0 /\ FrameOf(i) = t}

\* A number between those of two packets of a frame is that of a packet between.
LEMMA PacketBetween ==
  ASSUME stream \in Streams, NoFrameWraps, NEW i \in Position, NEW j \in Position,
         FrameOf(i) = FrameOf(j), NEW v \in Packet(i).usSeq .. Packet(j).usSeq
  PROVE  LET k == i + (v - Packet(i).usSeq)
         IN k \in Position /\ FrameOf(k) = FrameOf(i) /\ Packet(k).usSeq = v
<1> DEFINE a == Packet(i).usSeq
           b == Packet(j).usSeq
           k == i + (v - a)
<1>1. i \in Nat /\ j \in Nat /\ i >= 1
  BY PositionOf
<1>2. a \in Nat /\ b \in Nat /\ i <= j /\ b = a + (j - i)
  <2>1. i <= j => a \in Nat /\ b \in Nat /\ b = a + (j - i)
    BY NumbersRun
  <2>2. j <= i => a \in Nat /\ b \in Nat /\ a = b + (i - j)
    BY NumbersRun
  <2>3. i <= j \/ j <= i
    BY <1>1
  <2> QED
    BY <1>1, <2>1, <2>2, <2>3
<1> HIDE DEF a, b
<1>3. v \in a .. b
  BY DEF a, b
<1>4. k \in Nat /\ i <= k /\ k <= j
  BY <1>1, <1>2, <1>3
<1> HIDE DEF k
<1>5. k \in Position
  <2>1. j \in 1 .. stream.frames * stream.length /\ stream.frames * stream.length \in Nat
    BY StreamFacts DEF Position
  <2> QED
    BY <1>1, <1>4, <2>1 DEF Position
<1>6. FrameOf(k) = FrameOf(i)
  <2>1. FrameOf(i) <= FrameOf(k) /\ FrameOf(k) <= FrameOf(j)
    BY <1>4, <1>5, FrameOrder
  <2>2. FrameOf(i) \in Nat /\ FrameOf(k) \in Nat
    BY <1>5, PositionOf
  <2> QED
    BY <2>1, <2>2
<1>7. Packet(k).usSeq = Packet(i).usSeq + (k - i)
  BY <1>4, <1>5, <1>6, NumbersRun
<1>8. Packet(k).usSeq = v
  BY <1>1, <1>2, <1>3, <1>7 DEF a, k
<1> QED
  BY <1>5, <1>6, <1>8 DEF k, a

\* What GapsIn adds for a frame that is over are packets that never came.
LEMMA GapsAreMissing ==
  ASSUME OrganizerInv, CacheInv, HandIsLast, KeptInv, Dropped, Orderly,
         NEW p \in Position, InHandIs(p), Viewer \in open,
         NEW s \in rtpFrameMap[Viewer], NEW t, t = frame[Viewer][s].unTimestamp,
         t < FrameOf(p)
  PROVE  /\ IsFiniteSet(GapsOf(t)) /\ Cardinality(GapsOf(t)) \in Nat
         /\ GapsIn(frame[Viewer][s].PacketQueue) <= Cardinality(GapsOf(t))
<1> DEFINE q == frame[Viewer][s].PacketQueue
           n == Len(q)
           a == q[1].usSeq
           b == q[n].usSeq
           N == a .. b
           Q == {v \in N : \E j \in DOMAIN q : q[j].usSeq = v}
           G == GapsOf(t)
<1>1. q \in Seq(Entry) /\ q # <<>> /\ Kept(frame[Viewer][s], Taken)
  BY ViewerIsConn DEF OrganizerInv, QueuesWellFormed, TypeOK, FrameInfo, KeptInv
<1>2. t \in 1 .. stream.frames /\ stream \in Streams
  BY DEF CacheInv, FromStream
<1>3. ~Wedged
  BY DEF Wedged, InHandIs
<1>4. \A i \in missing : FrameOf(i) = t /\ arrived[i] > 0 =>
        \A j \in DOMAIN q : Packet(i).usSeq < q[j].usSeq
  BY <1>3 DEF Dropped
<1>5. /\ \A j, k \in DOMAIN q : j <= k => q[j].usSeq + (k - j) <= q[k].usSeq
      /\ \A j \in DOMAIN q : \E i \in Taken : FrameOf(i) = t /\ q[j].usSeq = Packet(i).usSeq
      /\ \A i \in Taken : FrameOf(i) = t => \E j \in DOMAIN q : q[j].usSeq = Packet(i).usSeq
  BY <1>1 DEF Kept, Spaced, HasPacket
<1> HIDE DEF q
<1>6. n \in Nat \ {0} /\ DOMAIN q = 1 .. n /\ 1 \in DOMAIN q /\ n \in DOMAIN q
  BY <1>1, EmptySeq, LenProperties
<1> HIDE DEF n
<1>7. PICK i1 \in Taken : FrameOf(i1) = t /\ a = Packet(i1).usSeq
  BY <1>5, <1>6
<1>8. PICK i2 \in Taken : FrameOf(i2) = t /\ b = Packet(i2).usSeq
  BY <1>5, <1>6
<1>9. i1 \in Position /\ i2 \in Position
  BY DEF Taken
<1>10. a \in SeqNum /\ b \in SeqNum /\ SeqSpace \in Nat \ {0}
  BY <1>2, <1>7, <1>8, <1>9, PositionOf, OrganizerAssumption DEF FragmentType
<1> HIDE DEF a, b
<1>11. a \in Nat /\ b \in Nat /\ b < SeqSpace /\ a <= b
  <2>1. a + (n - 1) <= b
    BY <1>5, <1>6 DEF a, b
  <2> QED
    BY <1>6, <1>10, <2>1 DEF SeqNum
<1>12. IsFiniteSet(G) /\ Cardinality(G) \in Nat
  <2>1. G \in SUBSET missing /\ IsFiniteSet(missing)
    BY GoneLostFinite DEF GapsOf
  <2>2. IsFiniteSet(G)
    BY <2>1, FS_Subset
  <2> QED
    BY <2>2, FS_CardinalityType
<1>13. ASSUME NEW v \in N \ Q
       PROVE  i1 + (v - a) \in G
  <2> DEFINE k == i1 + (v - a)
  <2>1. k \in Position /\ FrameOf(k) = t /\ Packet(k).usSeq = v
    BY <1>2, <1>7, <1>8, <1>9, PacketBetween DEF Orderly
  <2> HIDE DEF k
  <2>2. k < p
    BY <1>2, <2>1, SmallFrameBefore
  <2>3. k \in missing \/ k \in Taken
    BY <2>1, <2>2, BeforeHand
  <2>4. k \notin Taken
    BY <1>5, <1>13, <2>1
  <2>5. arrived[k] = 0
    <3>1. arrived[k] \in Nat
      BY <2>1 DEF CacheInv
    <3>2. CASE arrived[k] > 0
      <4>1. Packet(k).usSeq < q[1].usSeq
        BY <1>4, <1>6, <2>1, <2>3, <2>4, <3>2
      <4>2. v >= a
        BY <1>11, <1>13
      <4> QED
        BY <1>11, <1>13, <2>1, <4>1, <4>2 DEF a
    <3> QED
      BY <3>1, <3>2
  <2> QED
    BY <2>1, <2>3, <2>4, <2>5 DEF GapsOf, k
<1>14. IsFiniteSet(N) /\ Cardinality(N) = b - a + 1
  <2>1. a \in Int /\ b \in Int
    BY <1>11
  <2>2. Cardinality(N) = IF a > b THEN 0 ELSE b - a + 1
    BY <2>1, FS_Interval
  <2> QED
    BY <1>11, <2>1, <2>2, FS_Interval
<1>15. IsFiniteSet(Q) /\ Cardinality(Q) \in Nat /\ Cardinality(Q) <= n
  <2> DEFINE f == [v \in Q |-> CHOOSE j \in DOMAIN q : q[j].usSeq = v]
             D == DOMAIN q
  <2>1. \A v \in Q : f[v] \in D /\ q[f[v]].usSeq = v
    OBVIOUS
  <2>2. f \in [Q -> D]
    BY <2>1
  <2>3. IsFiniteSet(D) /\ Cardinality(D) = n
    BY <1>6, IntervalSize
  <2> HIDE DEF f, D, Q
  <2>4. \A v, w \in Q : f[v] = f[w] => v = w
    BY <2>1
  <2>5. IsFiniteSet(Q) /\ Cardinality(Q) \in Nat /\ Cardinality(Q) <= Cardinality(D)
    BY <2>2, <2>3, <2>4, InjectsInto
  <2> QED
    BY <2>3, <2>5
<1> DEFINE R == N \ Q
<1>16. Cardinality(R) <= Cardinality(G) /\ Cardinality(R) \in Nat
  <2> DEFINE f == [v \in R |-> i1 + (v - a)]
  <2>1. \A v \in R : v \in Int /\ f[v] = i1 + (v - a)
    BY <1>11
  <2>2. f \in [R -> G]
    BY <1>13
  <2>3. i1 \in Nat
    BY <1>2, <1>9, PositionOf
  <2> HIDE DEF f, R, G
  <2>4. \A v, w \in R : f[v] = f[w] => v = w
    BY <1>11, <2>1, <2>3
  <2> QED
    BY <1>12, <2>2, <2>4, InjectsInto
<1>17. Cardinality(R) = Cardinality(N) - Cardinality(Q)
  <2>1. N \cap Q = Q
    OBVIOUS
  <2>2. Cardinality(N \ Q) = Cardinality(N) - Cardinality(N \cap Q)
    BY <1>14, FS_Difference
  <2> QED
    BY <2>1, <2>2
<1> HIDE DEF R, Q, N, G
<1>18. b - a + 1 - n <= Cardinality(G)
  BY <1>6, <1>11, <1>12, <1>14, <1>15, <1>16, <1>17
<1>19. GapsIn(q) <= Cardinality(G)
  <2> DEFINE l == (b - a + 1) % SeqSpace
  <2>1. l = b - a + 1 \/ l = 0
    <3>1. CASE b - a + 1 < SeqSpace
      <4>1. b - a + 1 \in Nat
        BY <1>11
      <4> QED
        BY <1>10, <3>1, <4>1, SmallMod
    <3>2. CASE b - a + 1 = SeqSpace
      <4>1. SeqSpace % SeqSpace = 0
        BY <1>10
      <4> QED
        BY <3>2, <4>1
    <3> QED
      BY <1>10, <1>11, <3>1, <3>2
  <2>2. GapsIn(q) = IF l > n THEN l - n ELSE 0
    BY DEF GapsIn, n, a, b
  <2> HIDE DEF l
  <2> QED
    BY <1>6, <1>11, <1>12, <1>18, <2>1, <2>2
<1> QED
  BY <1>12, <1>19 DEF q, G

LEMMA NextCountInv ==
  ASSUME OrganizerInv, CacheInv, CacheInv', OrderInv, HandIsLast, KeptInv, Dropped, CountInv,
         [StreamNext]_svars
  PROVE  CountInv'
<1>1. CASE Connect
  <2>1. stat'[Viewer] = NewStatistics /\ stream' = stream
    BY <1>1, ViewerIsConn DEF Connect, Create, OrganizerInv, TypeOK
  <2>2. Cardinality(GoneLost') \in Nat
    BY <2>1, GoneLostFiniteAfter
  <2> QED
    BY <2>1, <2>2 DEF CountInv, NewStatistics
<1>2. CASE UNCHANGED svars
  <2>1. UNCHANGED <<stream, arrived, missing, rtpFrameMap, frame, stat, inHand>>
    BY <1>2 DEF svars, vars
  <2>2. Ahead' = Ahead
    BY <2>1, StreamStays DEF Ahead, InHandIs, Awaited
  <2>3. Orderly => \A i \in GoneLost : i \in GoneLost'
    <3>1. \A i \in GoneLost : \A u \in rtpFrameMap'[Viewer] : FrameOf(i) < frame'[Viewer][u].unTimestamp
      BY <2>1 DEF GoneLost
    <3> QED
      BY <2>1, <2>2, <3>1, GoneStays
  <2> QED
    BY <2>1, <2>3, CountStays
<1>3. ASSUME NEW i \in Position, Arrive(i) \/ ArriveWithoutBuffer(i) \/ Lose(i)
      PROVE  CountInv'
  <2>1. /\ UNCHANGED <<stream, rtpFrameMap, frame, stat>>
        /\ missing \subseteq missing'
        /\ MayArrive(i) \/ Lose(i)
        /\ arrived' = arrived \/ arrived' = [arrived EXCEPT ![i] = @ + 1]
    BY <1>3 DEF Arrive, GetBuffer, ArriveWithoutBuffer, Lose, vars
  <2>2. Orderly => i \notin missing
    BY <2>1, NextOnly DEF Orderly, Awaited
  <2>3. Orderly => Ahead' \subseteq Ahead
    BY <1>3, TakenStays DEF Orderly
  <2>4. Orderly => \A k \in GoneLost : k \in missing /\ arrived'[k] = arrived[k]
    BY <2>1, <2>2 DEF GoneLost, CacheInv
  <2>5. Orderly => \A k \in GoneLost : k \in GoneLost'
    <3>1. \A k \in GoneLost : \A u \in rtpFrameMap'[Viewer] : FrameOf(k) < frame'[Viewer][u].unTimestamp
      BY <2>1 DEF GoneLost
    <3> QED
      BY <2>1, <2>3, <2>4, <3>1, GoneStays
  <2> QED
    BY <2>1, <2>5, CountStays
<1>4. ASSUME NEW s \in Slot, InsertAndHold(Viewer, s), UNCHANGED <<stream, arrived, missing>>
      PROVE  CountInv'
  <2>1. /\ HasFragment(Viewer) /\ Target(Viewer, s) /\ inHand'[Viewer] = Nothing
        /\ rtpFrameMap'[Viewer] = rtpFrameMap[Viewer] \cup {s}
        /\ frame'[Viewer] = Inserted(Viewer, s)
    BY <1>4, HoldFacts
  <2>2. stat' = Counted(Viewer, s)
    BY <1>4 DEF InsertAndHold
  <2> QED
    BY <1>4, <2>1, <2>2, CountAfterInsertion
<1>5. ASSUME NEW s \in Slot, InsertAndDeliver(Viewer, s), UNCHANGED <<stream, arrived, missing>>
      PROVE  CountInv'
  <2>1. /\ HasFragment(Viewer) /\ Target(Viewer, s) /\ inHand'[Viewer] = Nothing
        /\ rtpFrameMap'[Viewer] \subseteq rtpFrameMap[Viewer] \cup {s}
        /\ \A u \in rtpFrameMap'[Viewer] : frame'[Viewer][u] = Inserted(Viewer, s)[u]
    BY <1>5, DeliverFacts
  <2>2. stat' = Counted(Viewer, s)
    BY <1>5 DEF InsertAndDeliver
  <2> QED
    BY <1>5, <2>1, <2>2, CountAfterInsertion
<1>6. ASSUME Evict(Viewer), UNCHANGED <<stream, arrived>>,
             missing' = missing \cup {i \in Position : Packet(i) = inHand[Viewer].pkt}
      PROVE  CountInv'
  <2> SUFFICES ASSUME Orderly
               PROVE  CountInv!2'
    BY <1>6, OrderlyStays DEF CountInv
  <2> DEFINE small == SmallFrame(rtpFrameMap[Viewer], frame[Viewer])
             t == frame[Viewer][small].unTimestamp
             q == frame[Viewer][small].PacketQueue
  <2>1. /\ HasFragment(Viewer) /\ inHand'[Viewer] = Nothing
        /\ Viewer \in open /\ small \in rtpFrameMap[Viewer]
        /\ rtpFrameMap'[Viewer] = rtpFrameMap[Viewer] \ {small}
        /\ \A u \in rtpFrameMap'[Viewer] :
             frame'[Viewer][u] = frame[Viewer][u] /\ t < frame[Viewer][u].unTimestamp
        /\ t # inHand[Viewer].pkt.unTimestamp
        /\ stat'[Viewer] = [stat[Viewer] EXCEPT
             !.total = @ + 2, !.lostFrames = @ + 1, !.lostPackets = @ + GapsIn(q)]
    BY <1>6, EvictedFrame
  <2>2. \A a \in Ahead' : t < FrameOf(a)
    BY <1>6, EvictedOver
  <2> HIDE DEF small
  <2>3. PICK p \in Position : InHandIs(p)
    BY <2>1 DEF HasFragment, CacheInv
  <2>4. t < FrameOf(p)
    <3>1. t # FrameOf(p)
      BY <2>1, <2>3, PositionOf DEF InHandIs, CacheInv
    <3> QED
      BY <2>1, <2>3, <3>1, CacheBeforeHand
  <2> DEFINE G == GapsOf(t)
  <2>5. IsFiniteSet(G) /\ Cardinality(G) \in Nat /\ GapsIn(q) <= Cardinality(G)
    BY <2>1, <2>3, <2>4, GapsAreMissing
  <2>6. /\ stat'[Viewer].disorder = stat[Viewer].disorder
        /\ stat'[Viewer].lostPackets = stat[Viewer].lostPackets + GapsIn(q)
        /\ stat[Viewer].lostPackets \in Nat
        /\ GapsIn(q) \in Nat
    <3>1. stat[Viewer] \in Statistics
      BY ViewerIsConn DEF OrganizerInv, TypeOK
    <3>2. q \in Seq(Entry) /\ q # <<>>
      BY <2>1, ViewerIsConn DEF OrganizerInv, QueuesWellFormed, TypeOK, FrameInfo
    <3> HIDE DEF q
    <3> QED
      BY <2>1, <3>1, <3>2, GapsInType DEF Statistics
  <2>7. \A i : FrameOf(i)' = FrameOf(i)
    BY <1>6, OrderlyStays
  <2>8. ASSUME NEW i \in GoneLost
        PROVE  i \in GoneLost' /\ i \notin G
    <3>1. Ahead' \subseteq Ahead
      BY <1>6, <2>1, TakenEvicted DEF HasFragment
    <3>2. FrameOf(i) < t
      BY <2>1, <2>8 DEF GoneLost
    <3>3. \A u \in rtpFrameMap'[Viewer] : FrameOf(i) < frame'[Viewer][u].unTimestamp
      BY <2>1, <2>8 DEF GoneLost
    <3>4. FrameOf(i) # t
      <4>1. t \in Nat
        BY <2>1 DEF CacheInv, FromStream
      <4> HIDE DEF t
      <4> QED
        BY <3>2, <4>1
    <3> QED
      BY <1>6, <2>8, <3>1, <3>3, <3>4, GoneStays DEF GapsOf
  <2>9. ASSUME NEW i \in G
        PROVE  i \in GoneLost'
    <3>1. i \in missing' /\ arrived'[i] = 0 /\ FrameOf(i) = t
      BY <1>6, <2>9 DEF GapsOf
    <3>2. Over(FrameOf(i))'
      BY <2>2, <2>7, <3>1 DEF Over
    <3>3. \A u \in rtpFrameMap'[Viewer] : FrameOf(i) < frame'[Viewer][u].unTimestamp
      BY <2>1, <3>1
    <3> QED
      BY <2>7, <3>1, <3>2, <3>3 DEF GoneLost
  <2> HIDE DEF G, q, t
  <2>10. IsFiniteSet(GoneLost) /\ Cardinality(GoneLost) \in Nat
         /\ IsFiniteSet(GoneLost') /\ Cardinality(GoneLost') \in Nat
    BY <1>6, GoneLostFinite, GoneLostFiniteAfter
  <2>11. Cardinality(GoneLost \cup G) = Cardinality(GoneLost) + Cardinality(G)
    <3>1. GoneLost \cap G = {}
      BY <2>8
    <3>2. Cardinality(GoneLost \cup G) =
            Cardinality(GoneLost) + Cardinality(G) - Cardinality(GoneLost \cap G)
      BY <2>5, <2>10, FS_Union
    <3>3. Cardinality(GoneLost \cap G) = 0
      BY <3>1, FS_EmptySet
    <3> QED
      BY <2>5, <2>10, <3>2, <3>3
  <2>12. Cardinality(GoneLost \cup G) <= Cardinality(GoneLost')
    <3>1. GoneLost \cup G \in SUBSET GoneLost'
      BY <2>8, <2>9
    <3> QED
      BY <2>10, <3>1, FS_Subset
  <2>13. stat[Viewer].lostPackets <= Cardinality(GoneLost) /\ stat[Viewer].disorder = 0
    BY DEF CountInv
  <2> QED
    BY <2>5, <2>6, <2>10, <2>11, <2>12, <2>13
<1> QED
  BY <1>1, <1>2, <1>3, <1>4, <1>5, <1>6 DEF StreamNext, Process

LEMMA CountIsLost ==
  ASSUME OrganizerInv, CacheInv, CountInv, NoFrameWraps
  PROVE  LostPacketsAreLost
<1> SUFFICES ASSUME ArrivesInOrder
             PROVE  LostPacketsAreLost!2
  BY DEF LostPacketsAreLost
<1> DEFINE S == {i \in missing : arrived[i] = 0 /\ FrameOf(i) \notin InCache}
<1>1. stat[Viewer].lostPackets <= Cardinality(GoneLost) /\ stat[Viewer].disorder = 0
  BY DEF CountInv, Orderly
<1>2. IsFiniteSet(missing) /\ Cardinality(GoneLost) \in Nat
  BY GoneLostFinite
<1>3. IsFiniteSet(S)
  <2>1. S \in SUBSET missing
    OBVIOUS
  <2> QED
    BY <1>2, <2>1, FS_Subset
<1>4. GoneLost \in SUBSET S
  <2>1. ASSUME NEW i \in GoneLost
        PROVE  i \in S
    <3>1. i \in missing /\ arrived[i] = 0 /\ i \in Position
      BY DEF GoneLost, CacheInv
    <3>2. ASSUME NEW u \in rtpFrameMap[Viewer]
          PROVE  FrameOf(i) # frame[Viewer][u].unTimestamp
      <4>1. FrameOf(i) < frame[Viewer][u].unTimestamp /\ FrameOf(i) \in Nat
        BY <3>1, PositionOf DEF GoneLost, CacheInv
      <4> QED
        BY <4>1
    <3> QED
      BY <3>1, <3>2 DEF InCache
  <2> QED
    BY <2>1
<1>5. Cardinality(GoneLost) <= Cardinality(S) /\ Cardinality(S) \in Nat
  BY <1>3, <1>4, FS_Subset, FS_CardinalityType
<1>6. stat[Viewer].lostPackets \in Nat
  BY ViewerIsConn DEF OrganizerInv, TypeOK, Statistics
<1> QED
  BY <1>1, <1>2, <1>5, <1>6

-----------------------------------------------------------------------------
(* The pool.                                                               *)

\* The frames of a full cache have room for all their packets but one.
LEMMA PlaceLeft ==
  ASSUME OrganizerInv, CacheInv, KeptInv, NoneWaits, Orderly, Viewer \in open
  PROVE  /\ \A s \in Slot : Len(frame[Viewer][s].PacketQueue) <= stream.length
         /\ \E s \in Slot : Len(frame[Viewer][s].PacketQueue) # stream.length
<1>1. /\ Viewer \in Conn /\ stream \in Streams /\ frame[Viewer] \in [Slot -> FrameInfo]
      /\ FramesOK(frame[Viewer], rtpFrameMap[Viewer], rtpFrameFreeList[Viewer])
  BY ViewerIsConn, FramesOKHolds DEF OrganizerInv, TypeOK, CacheInv
<1>2. ASSUME NEW s \in rtpFrameMap[Viewer]
      PROVE  /\ Len(frame[Viewer][s].PacketQueue) <= stream.length
             /\ Len(frame[Viewer][s].PacketQueue) = stream.length => Complete(frame[Viewer][s])
  <2>1. frame[Viewer][s].PacketQueue \in Seq(Entry) /\ Kept(frame[Viewer][s], Taken)
    BY <1>1, <1>2 DEF FramesOK, FrameInfo, KeptInv
  <2>2. frame[Viewer][s].unTimestamp \in 1 .. stream.frames /\ Taken \in SUBSET Position
    BY <1>2 DEF CacheInv, FromStream, Taken
  <2> QED
    BY <1>1, <2>1, <2>2, QueueFits DEF Orderly
<1>3. stream.length \in Nat \ {0}
  BY <1>1, StreamFacts
<1>4. \A s \in rtpFrameFreeList[Viewer] : Len(frame[Viewer][s].PacketQueue) = 0
  BY <1>1, EmptySeq DEF FramesOK
<1>5. \A s \in Slot : Len(frame[Viewer][s].PacketQueue) <= stream.length
  BY <1>1, <1>2, <1>3, <1>4 DEF FramesOK
<1>6. CASE rtpFrameFreeList[Viewer] # {}
  BY <1>1, <1>3, <1>4, <1>5, <1>6 DEF FramesOK
<1>7. CASE rtpFrameFreeList[Viewer] = {}
  <2> DEFINE small == SmallFrame(rtpFrameMap[Viewer], frame[Viewer])
  <2>1. rtpFrameMap[Viewer] = Slot /\ Slot # {}
    BY <1>1, <1>7, OrganizerAssumption DEF FramesOK
  <2>2. small \in rtpFrameMap[Viewer]
    BY <1>1, <2>1, SmallFrameExists
  <2>3. ~Complete(frame[Viewer][small])
    BY <1>7 DEF NoneWaits
  <2> HIDE DEF small
  <2> QED
    BY <1>2, <1>5, <2>1, <2>2, <2>3
<1> QED
  BY <1>5, <1>6, <1>7

LEMMA NeverWedged ==
  ASSUME OrganizerInv, OwnedOnce, CacheInv, KeptInv, NoneWaits, NoFrameWraps
  PROVE  PoolNotWedged
<1> SUFFICES ASSUME Viewer \in open, ArrivesInOrder,
                    Cardinality(Buf) >= Cardinality(Slot) * stream.length,
                    inHand[Viewer] = Nothing, ~(\E b \in Buf : rtpRecvBufList[b] > 0)
             PROVE  FALSE
  BY DEF PoolNotWedged
<1> DEFINE L == stream.length
           I == 1 .. L
           P == Slot \X I
           q(s) == frame[Viewer][s].PacketQueue
<1>1. /\ Conn = {Viewer} /\ TypeOK /\ frame[Viewer] \in [Slot -> FrameInfo]
      /\ \A b \in Buf : rtpRecvBufList[b] \in Nat
  BY ViewerIsConn DEF OrganizerInv, TypeOK
<1>2. /\ \A s \in Slot : Len(q(s)) <= L
      /\ \E s \in Slot : Len(q(s)) # L
  BY PlaceLeft DEF Orderly
<1>3. L \in Nat /\ L >= 1
  BY StreamFacts DEF CacheInv
<1> HIDE DEF L
<1>4. \A s \in Slot : /\ Len(q(s)) \in Nat /\ DOMAIN q(s) = 1 .. Len(q(s))
                      /\ DOMAIN q(s) \subseteq I
  <2>1. \A s \in Slot : q(s) \in Seq(Entry)
    BY <1>1 DEF FrameInfo
  <2>2. \A s \in Slot : Len(q(s)) \in Nat /\ DOMAIN q(s) = 1 .. Len(q(s))
    BY <2>1, LenProperties
  <2> HIDE DEF q
  <2> QED
    BY <1>2, <1>3, <2>2
<1>5. PICK s0 \in Slot : Len(q(s0)) # L
  BY <1>2
<1> DEFINE w == <<s0, L>>
<1>6. L \notin DOMAIN q(s0)
  BY <1>2, <1>3, <1>4, <1>5
<1>7. ASSUME NEW b \in Buf
      PROVE  \E x \in P \ {w} : q(x[1])[x[2]].buf = b
  <2>1. rtpRecvBufList[b] = 0
    BY <1>1
  <2>2. Holders(b) = {}
    BY <1>1 DEF Holders
  <2>3. \E x : Places(frame[Viewer], Slot, b) = {x}
    <3>1. Owned(0, {}, InFrames(b))
      BY <2>1, <2>2 DEF OwnedOnce
    <3>2. \E c \in Conn : \E x : InFrames(b)[c] = {x}
      <4> DEFINE F == InFrames(b)
      <4> HIDE DEF F
      <4>0. 0 # 1
        OBVIOUS
      <4>1. Owned(0, {}, F) => \E c \in Conn : \E x : F[c] = {x}
        BY <4>0, Zenon DEF Owned
      <4> QED
        BY <3>1, <4>1 DEF F
    <3>3. \E x : InFrames(b)[Viewer] = {x}
      BY <1>1, <3>2
    <3> QED
      BY <1>1, <3>3 DEF InFrames
  <2>4. PICK x : x \in Places(frame[Viewer], Slot, b)
    BY <2>3
  <2>5. PICK s \in Slot : \E i \in DOMAIN q(s) : x = <<s, i>> /\ q(s)[i].buf = b
    BY <2>4, PlacesMember
  <2>6. PICK i \in DOMAIN q(s) : x = <<s, i>> /\ q(s)[i].buf = b
    BY <2>5
  <2>7. i \in I
    BY <1>4
  <2>8. x # w
    BY <1>6, <2>6
  <2> QED
    BY <2>6, <2>7, <2>8
<1> DEFINE R == P \ {w}
           g == [b \in Buf |-> CHOOSE x \in R : q(x[1])[x[2]].buf = b]
<1>8. \A b \in Buf : g[b] \in R /\ q(g[b][1])[g[b][2]].buf = b
  BY <1>7, Zenon
<1>9. /\ IsFiniteSet(R) /\ Cardinality(R) = Cardinality(Slot) * L - 1
      /\ Cardinality(Slot) * L \in Int
  <2>1. IsFiniteSet(Slot) /\ Cardinality(Slot) \in Nat
    BY OrganizerAssumption, FS_CardinalityType
  <2>2. IsFiniteSet(I) /\ Cardinality(I) = L
    BY <1>3, IntervalSize
  <2>3. w \in P
    BY <1>3
  <2> HIDE DEF I, w
  <2>4. IsFiniteSet(P) /\ Cardinality(P) = Cardinality(Slot) * L
    BY <2>1, <2>2, FS_Product
  <2> HIDE DEF P
  <2>5. IsFiniteSet(R) /\ Cardinality(R) = Cardinality(P) - 1
    BY <2>3, <2>4, FS_RemoveElement
  <2>6. Cardinality(Slot) * L \in Int
    BY <1>3, <2>1, MulType
  <2> QED
    BY <2>4, <2>5, <2>6
<1>10. g \in [Buf -> R]
  BY <1>8, Zenon
<1> HIDE DEF g, R, q
<1>11. \A b, d \in Buf : g[b] = g[d] => b = d
  BY <1>8
<1>12. Cardinality(Buf) <= Cardinality(R) /\ Cardinality(Buf) \in Nat
  BY <1>9, <1>10, <1>11, InjectsInto
<1> QED
  BY <1>9, <1>12 DEF L

-----------------------------------------------------------------------------
(* The theorems about packets that come in order.                          *)

\* The inductive invariant of all four.  The part about the pool is the one
\* that RtpFrameOrganizer_proofs shows of any organizer.
InOrderInv ==
  /\ StreamInv /\ OwnedOnce /\ HandIsLast /\ KeptInv /\ NoneWaits
  /\ OnTime /\ Dropped /\ CountInv

LEMMA InitInOrderInv == StreamInit => InOrderInv
<1> SUFFICES ASSUME StreamInit
             PROVE  InOrderInv
  OBVIOUS
<1>1. /\ Init /\ Viewer \in Conn /\ log = <<>> /\ missing = {} /\ stream \in Streams
      /\ inHand[Viewer] = Nothing /\ rtpFrameMap[Viewer] = {} /\ open = {}
      /\ stat[Viewer] = NewStatistics /\ \A i \in Position : arrived[i] = 0
  BY ViewerIsConn DEF StreamInit, Init
<1>2. StreamInv /\ CacheInv
  BY InitStreamInv DEF StreamInv
<1>3. OwnedOnce
  BY <1>1, InitOwned
<1>4. HandIsLast /\ NoneWaits /\ Dropped
  BY <1>1 DEF HandIsLast, InHandIs, NoneWaits, Dropped
<1>5. Taken = {}
  BY <1>1 DEF Taken
<1>6. KeptInv
  BY <1>1, <1>5 DEF KeptInv
<1>7. OnTime
  <2>1. Len(log) = 0 /\ DOMAIN log = {}
    BY <1>1, EmptySeq
  <2>2. \A t \in 1 .. stream.frames : ~(t <= 0)
    BY <1>1, StreamFacts
  <2> QED
    BY <1>1, <1>5, <2>1, <2>2 DEF OnTime
<1>8. CountInv
  <2>1. Cardinality(GoneLost) \in Nat
    BY <1>2, GoneLostFinite
  <2> QED
    BY <1>1, <2>1 DEF CountInv, NewStatistics
<1> QED
  BY <1>2, <1>3, <1>4, <1>6, <1>7, <1>8 DEF InOrderInv

LEMMA NextInOrderInv ==
  ASSUME InOrderInv, [StreamNext]_svars
  PROVE  InOrderInv'
<1>1. /\ StreamInv /\ OrganizerInv /\ CacheInv /\ LogInv /\ OrderInv /\ OwnedOnce /\ HandIsLast
      /\ KeptInv /\ NoneWaits /\ OnTime /\ Dropped /\ CountInv
  BY DEF InOrderInv, StreamInv
<1>2. StreamInv' /\ CacheInv'
  BY <1>1, NextStreamInv DEF StreamInv
<1>3. OwnedOnce'
  BY <1>1, OrganizerSteps, NextOwned
<1>4. HandIsLast' /\ KeptInv' /\ NoneWaits'
  BY <1>1, NextHandIsLast, NextKeptInv, NextNoneWaits
<1>5. OnTime' /\ Dropped' /\ CountInv'
  BY <1>1, <1>2, NextOnTime, NextDropped, NextCountInv
<1> QED
  BY <1>2, <1>3, <1>4, <1>5 DEF InOrderInv

LEMMA NoFrameWrapsStays ==
  ASSUME NoFrameWraps, [StreamNext]_svars
  PROVE  NoFrameWraps'
<1>1. stream' = stream
  BY DEF StreamNext, Connect, Process, Arrive, ArriveWithoutBuffer, Lose, svars
<1> QED
  BY <1>1, OrderlyStays DEF NoFrameWraps

THEOREM InOrderInvariant == StreamSpec => []InOrderInv
<1>1. InOrderInv /\ [StreamNext]_svars => InOrderInv'
  BY NextInOrderInv
<1> QED
  BY <1>1, InitInOrderInv, PTL DEF StreamSpec

LEMMA NeverWraps == StreamSpec /\ NoFrameWraps => []NoFrameWraps
<1>1. NoFrameWraps /\ [StreamNext]_svars => NoFrameWraps'
  BY NoFrameWrapsStays
<1> QED
  BY <1>1, PTL DEF StreamSpec

\* As long as nothing is lost and all comes in order, handleRtpFrame has got, whole
\* and in order, every frame whose last packet insertRtpPacket has taken in,
\* for any number of frames of any length.
THEOREM WholeStreamIsDelivered == StreamSpec /\ NoFrameWraps => []WholeStreamDelivered
<1>1. InOrderInv /\ NoFrameWraps => WholeStreamDelivered
  BY OnTimeIsWhole DEF InOrderInv, StreamInv
<1> QED
  BY <1>1, InOrderInvariant, NeverWraps, PTL

\* m_unLostRtpPacketNum never counts a packet that came, or one that may still
\* complete its frame, and m_unDisorderSeqCounts stays 0.
THEOREM CountedPacketsAreLost == StreamSpec /\ NoFrameWraps => []LostPacketsAreLost
<1>1. InOrderInv /\ NoFrameWraps => LostPacketsAreLost
  BY CountIsLost DEF InOrderInv, StreamInv
<1> QED
  BY <1>1, InOrderInvariant, NeverWraps, PTL

\* A pool with room for the frames of the cache never runs dry for good.
THEOREM PoolIsNotWedged == StreamSpec /\ NoFrameWraps => []PoolNotWedged
<1>1. InOrderInv /\ NoFrameWraps => PoolNotWedged
  BY NeverWedged DEF InOrderInv, StreamInv
<1> QED
  BY <1>1, InOrderInvariant, NeverWraps, PTL

\* The eviction of line 96 never gives up a frame that could have been delivered.
THEOREM EvictedAreIncomplete == StreamSpec /\ NoFrameWraps => EvictedIsIncomplete
<1>1. ASSUME InOrderInv, NoFrameWraps, [StreamNext]_svars
      PROVE  [\A s \in rtpFrameMap[Viewer] \ rtpFrameMap'[Viewer] :
                ArrivesInOrder /\ log' = log =>
                  \E i \in missing : FrameOf(i) = frame[Viewer][s].unTimestamp]_svars
  <2> SUFFICES ASSUME NEW s \in rtpFrameMap[Viewer] \ rtpFrameMap'[Viewer],
                      ArrivesInOrder, log' = log, StreamNext
               PROVE  \E i \in missing : FrameOf(i) = frame[Viewer][s].unTimestamp
    BY <1>1
  <2>1. Orderly /\ OrganizerInv /\ CacheInv /\ HandIsLast /\ KeptInv /\ NoneWaits /\ LogInv
    BY <1>1 DEF Orderly, InOrderInv, StreamInv
  <2>2. CASE Connect
    BY <2>1, <2>2, ConnectFacts
  <2>3. CASE \E i \in Position : Arrive(i) \/ ArriveWithoutBuffer(i) \/ Lose(i)
    BY <2>3 DEF Arrive, GetBuffer, ArriveWithoutBuffer, Lose, vars
  <2>4. ASSUME NEW u \in Slot, InsertAndHold(Viewer, u)
        PROVE  FALSE
    BY <2>1, <2>4, HoldFacts
  <2>5. ASSUME log' = Append(log, delivered'[Viewer])
        PROVE  FALSE
    <3>1. Len(log) \in Nat /\ log \in Seq(Delivery)
      BY <2>1, LenProperties DEF LogInv
    <3>2. Len(Append(log, delivered'[Viewer])) = Len(log) + 1
      BY <3>1
    <3> QED
      BY <2>5, <3>1, <3>2
  <2>6. CASE Evict(Viewer)
    <3>1. s = SmallFrame(rtpFrameMap[Viewer], frame[Viewer])
      BY <2>1, <2>6, EvictedFrame
    <3> QED
      BY <2>1, <2>6, <3>1, EvictedLacks
  <2> QED
    BY <2>2, <2>3, <2>4, <2>5, <2>6 DEF StreamNext, Process
<1> QED
  BY <1>1, InOrderInvariant, NeverWraps, PTL DEF StreamSpec, EvictedIsIncomplete
=============================================================================

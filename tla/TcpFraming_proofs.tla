-------------------------- MODULE TcpFraming_proofs --------------------------
(***************************************************************************)
(* Proofs about TcpFraming, for every stream the assumptions allow, every  *)
(* segmentation that keeps bodies whole and every size of the buffers.     *)
(***************************************************************************)
EXTENDS TcpFraming, SequenceTheorems, FiniteSetTheorems,
        WellFoundedInduction, TLAPS

\* How many units have been handled; the next one, once this is known.
Done == Len(handled)

\* The first byte that has not been processed.
Reached == BufferStart + (IF pc = "loop" THEN processedSize ELSE 0)

\* A connection that has not failed processes the stream from unit to unit, and
\* waits only for the rest of the unit it is at.
FramingInv ==
  /\ TypeOK
  /\ stream \in Streams
  /\ ~Inside(arrived)
  /\ HandledInOrder
  /\ Done <= Len(stream)
  /\ pc = "loop" => processedSize < m_ulRecvSize /\ ~armed
  /\ pc = "loop" \/ armed => Reached = StartOf(Done + 1)
  /\ pc = "idle" /\ armed /\ m_ulRecvSize > 0 =>
       /\ Done < Len(stream)
       /\ m_ulRecvSize < Size(stream[Done + 1])
  /\ BufferNeverFull

-----------------------------------------------------------------------------
(* Where the units start.                                                  *)

\* A set of naturals that is not empty has a least element.
LEMMA MinOfNat ==
  ASSUME NEW S \in SUBSET Nat, S # {}
  PROVE  /\ Min(S) \in S
         /\ \A x \in S : Min(S) <= x
<1> DEFINE T == {0 .. x : x \in S}
           R == StrictSubsetOrdering(Nat)
<1>1. T \subseteq FiniteSubsetsOf(Nat) /\ T # {}
  <2>1. ASSUME NEW x \in S
        PROVE  0 .. x \in SUBSET Nat /\ IsFiniteSet(0 .. x)
    BY FS_Interval
  <2> QED
    BY <2>1 DEF FiniteSubsetsOf
<1>2. PICK u \in T : \A v \in T : ~(<<v, u>> \in R)
  BY <1>1, WFMin, FS_StrictSubsetOrderingWellFounded
<1>3. PICK m \in S : u = 0 .. m
  BY <1>2
<1>4. ASSUME NEW x \in S, x < m
      PROVE  FALSE
  <2>1. 0 .. x \in T
    OBVIOUS
  <2>2. 0 .. x \subseteq u /\ m \in u /\ m \notin 0 .. x
    BY <1>3, <1>4
  <2>3. <<0 .. x, u>> \in R
    BY <1>3, <2>2 DEF StrictSubsetOrdering
  <2> QED
    BY <1>2, <2>1, <2>3
<1>5. \A x \in S : m <= x
  BY <1>4
<1> QED
  BY <1>5 DEF Min

\* f adds up the numbers in g.
Adds(f, g, n) ==
  f \in [1 .. n + 1 -> Nat] /\ f[1] = 0 /\ \A j \in 2 .. n + 1 : f[j] = f[j - 1] + g[j - 1]

\* The sums of a sequence of numbers exist: the least length for which they did
\* not could be reached from the length before it.
LEMMA SumsExist ==
  ASSUME NEW n \in Nat, NEW g \in [1 .. n -> Nat]
  PROVE  \E f : Adds(f, g, n)
<1> DEFINE Failing == { m \in 0 .. n : ~\E f : Adds(f, g, m) }
<1>1. CASE Failing = {}
  <2>1. n \in 0 .. n
    OBVIOUS
  <2>2. n \notin Failing
    BY <1>1
  <2> QED
    BY <2>1, <2>2
<1>2. CASE Failing # {}
  <2>1. PICK m \in Failing : \A k \in Failing : m <= k
    <3>1. Failing \in SUBSET Nat
      OBVIOUS
    <3> HIDE DEF Failing
    <3> QED
      BY <1>2, <3>1, MinOfNat
  <2>2. CASE m = 0
    <3>1. Adds([j \in 1 .. 1 |-> 0], g, 0)
      BY DEF Adds
    <3> QED
      BY <2>2, <3>1
  <2>3. CASE m # 0
    <3>1. m - 1 \in 0 .. n /\ m - 1 \notin Failing /\ m \in 1 .. n
      BY <2>1, <2>3
    <3>2. PICK f : Adds(f, g, m - 1)
      BY <3>1
    <3> DEFINE h == [j \in 1 .. m + 1 |-> IF j = m + 1 THEN f[m] + g[m] ELSE f[j]]
    <3>3. f \in [1 .. m -> Nat] /\ f[1] = 0 /\ \A j \in 2 .. m : f[j] = f[j - 1] + g[j - 1]
      BY <3>1, <3>2 DEF Adds
    <3>4. Adds(h, g, m)
      <4>1. m \in Nat /\ m >= 1 /\ g[m] \in Nat /\ f[m] \in Nat
        <5>1. m \in Nat /\ m >= 1 /\ m \in 1 .. n /\ m \in 1 .. m
          BY <3>1
        <5> QED
          BY <3>3, <5>1
      <4>2. h \in [1 .. m + 1 -> Nat] /\ h[1] = 0
        BY <3>3, <4>1
      <4>3. ASSUME NEW j \in 2 .. m + 1
            PROVE  h[j] = h[j - 1] + g[j - 1]
        BY <3>3, <4>1
      <4> HIDE DEF h
      <4> QED
        BY <4>2, <4>3 DEF Adds
    <3> QED
      BY <2>1, <3>4
  <2> QED
    BY <2>2, <2>3
<1> QED
  BY <1>1, <1>2

\* StartOf satisfies its recursion.
LEMMA StartOfUnits ==
  ASSUME stream \in Seq(Unit)
  PROVE  /\ StartOf(1) = 0
         /\ \A i \in 1 .. Len(stream) + 1 : StartOf(i) \in Nat
         /\ \A i \in 1 .. Len(stream) : StartOf(i + 1) = StartOf(i) + Size(stream[i])
<1> DEFINE n == Len(stream)
           g == [i \in 1 .. n |-> Size(stream[i])]
           Def(f) == [j \in 1 .. n + 1 |-> IF j = 1 THEN 0 ELSE f[j - 1] + Size(stream[j - 1])]
           start == CHOOSE f : f = Def(f)
<1>1. n \in Nat /\ \A i \in 1 .. n : Size(stream[i]) \in Nat
  <2>1. \A i \in 1 .. n : stream[i] \in Unit
    BY ElementOfSeq
  <2> QED
    BY <2>1, LenProperties DEF Size, Unit
<1>6. g \in [1 .. n -> Nat]
  BY <1>1
<1>2. PICK f : Adds(f, g, n)
  BY <1>1, <1>6, SumsExist
<1>3. f = Def(f)
  <2>1. f \in [1 .. n + 1 -> Nat] /\ f[1] = 0
    BY <1>2 DEF Adds
  <2>2. \A j \in 2 .. n + 1 : f[j] = f[j - 1] + Size(stream[j - 1])
    BY <1>1, <1>2 DEF Adds
  <2> HIDE DEF g
  <2>3. \A j \in 1 .. n + 1 : f[j] = IF j = 1 THEN 0 ELSE f[j - 1] + Size(stream[j - 1])
    BY <1>1, <2>1, <2>2
  <2>4. f = [j \in 1 .. n + 1 |-> f[j]]
    BY <2>1
  <2> QED
    BY <2>3, <2>4
<1>4. start = Def(start)
  BY <1>3
<1>5. \A i : StartOf(i) = start[i]
  BY DEF StartOf
<1> HIDE DEF start
<1>7. \A j \in 1 .. n + 1 : start[j] \in Nat
  <2> DEFINE Failing == { j \in 1 .. n + 1 : start[j] \notin Nat }
  <2>1. SUFFICES ASSUME Failing # {}
                 PROVE  FALSE
    OBVIOUS
  <2>2. PICK m \in Failing : \A k \in Failing : m <= k
    <3>1. Failing \in SUBSET Nat
      BY <1>1
    <3> HIDE DEF Failing
    <3> QED
      BY <2>1, <3>1, MinOfNat
  <2>3. m # 1
    BY <1>1, <1>4
  <2>4. m - 1 \in 1 .. n /\ m - 1 \notin Failing
    BY <1>1, <2>2, <2>3
  <2>5. start[m] = start[m - 1] + Size(stream[m - 1])
    BY <1>1, <1>4, <2>3, <2>4
  <2> QED
    BY <1>1, <2>2, <2>4, <2>5
<1>8. start[1] = 0 /\ \A i \in 1 .. n : start[i + 1] = start[i] + Size(stream[i])
  BY <1>1, <1>4
<1> QED
  BY <1>1, <1>5, <1>7, <1>8

\* What the streams are assumed to be like.
LEMMA UnitsOK ==
  ASSUME stream \in Streams
  PROVE  /\ stream \in Seq(Unit) /\ Len(stream) \in Nat /\ DOMAIN stream = 1 .. Len(stream)
         /\ \A i \in 1 .. Len(stream) :
              /\ stream[i] \in Unit /\ stream[i].head \in Nat /\ stream[i].body \in Nat
              /\ stream[i].head > 0 /\ Size(stream[i]) \in Nat
              /\ Size(stream[i]) = stream[i].head + stream[i].body
              /\ stream[i].kind \in {"rtsp", "rtp"}
              /\ stream[i].kind = "rtp" => /\ stream[i].head = RTSP_INTERLEAVE_HEADER_LEN
                                           /\ Size(stream[i]) <= MAX_BYTES_PER_RECEIVE
<1>1. stream \in Seq(Unit) /\ Len(stream) \in Nat /\ DOMAIN stream = 1 .. Len(stream)
  BY StreamsAssumption, LenProperties
<1>2. \A i \in 1 .. Len(stream) : stream[i] \in Unit
  BY <1>1, ElementOfSeq
<1> QED
  BY <1>1, <1>2, StreamsAssumption DEF Unit, Size

\* Every unit has a byte, so a later one starts later.
LEMMA StartsAscend ==
  ASSUME stream \in Streams, NEW i \in 1 .. Len(stream) + 1, NEW j \in 1 .. Len(stream) + 1, i < j
  PROVE  StartOf(i) < StartOf(j)
<1> DEFINE Failing == { k \in 1 .. Len(stream) + 1 : i < k /\ ~(StartOf(i) < StartOf(k)) }
<1>1. SUFFICES ASSUME Failing # {}
               PROVE  FALSE
  OBVIOUS
<1>2. /\ Len(stream) \in Nat
      /\ \A k \in 1 .. Len(stream) + 1 : StartOf(k) \in Nat
      /\ \A k \in 1 .. Len(stream) : StartOf(k + 1) = StartOf(k) + Size(stream[k])
      /\ \A k \in 1 .. Len(stream) : Size(stream[k]) \in Nat /\ Size(stream[k]) > 0
  <2>1. ASSUME NEW k \in 1 .. Len(stream)
        PROVE  Size(stream[k]) \in Nat /\ Size(stream[k]) > 0
    <3>1. stream[k].head \in Nat /\ stream[k].body \in Nat /\ stream[k].head > 0
          /\ Size(stream[k]) = stream[k].head + stream[k].body
      BY UnitsOK
    <3> QED
      BY <3>1
  <2> QED
    BY <2>1, UnitsOK, StartOfUnits
<1>3. PICK m \in Failing : \A k \in Failing : m <= k
  <2>1. Failing \in SUBSET Nat
    BY <1>2
  <2> HIDE DEF Failing
  <2> QED
    BY <1>1, <2>1, MinOfNat
<1>4. m - 1 \in 1 .. Len(stream) /\ m \in Nat
  BY <1>2, <1>3
<1>5. StartOf(m) = StartOf(m - 1) + Size(stream[m - 1])
  BY <1>2, <1>4
<1>6. CASE m - 1 = i
  BY <1>2, <1>3, <1>4, <1>5, <1>6
<1>7. CASE m - 1 # i
  <2>1. m - 1 \notin Failing
    BY <1>3, <1>4
  <2>2. StartOf(i) < StartOf(m - 1)
    BY <1>2, <1>3, <1>4, <1>7, <2>1
  <2>3. StartOf(m - 1) <= StartOf(m)
    <3>1. /\ StartOf(m - 1) \in Nat /\ StartOf(m) \in Nat /\ Size(stream[m - 1]) \in Nat
      BY <1>2, <1>3, <1>4
    <3> QED
      BY <1>5, <3>1
  <2>4. StartOf(i) \in Nat /\ StartOf(m - 1) \in Nat /\ StartOf(m) \in Nat
    BY <1>2, <1>3, <1>4
  <2>5. StartOf(i) < StartOf(m)
    BY <2>2, <2>3, <2>4
  <2> QED
    BY <1>3, <2>5
<1> QED
  BY <1>6, <1>7

\* What is needed of the starts from here on.
LEMMA Starts ==
  ASSUME stream \in Streams
  PROVE  /\ StartOf(1) = 0 /\ Total = StartOf(Len(stream) + 1)
         /\ \A i \in 1 .. Len(stream) + 1 : StartOf(i) \in Nat /\ StartOf(i) <= Total
         /\ \A i \in 1 .. Len(stream) : StartOf(i + 1) = StartOf(i) + Size(stream[i])
         /\ \A i, j \in 1 .. Len(stream) + 1 : StartOf(i) = StartOf(j) => i = j
         /\ \A i, j \in 1 .. Len(stream) + 1 : i < j => StartOf(i) < StartOf(j)
<1>1. Len(stream) \in Nat /\ stream \in Seq(Unit)
  BY UnitsOK
<1>2. /\ StartOf(1) = 0
      /\ \A i \in 1 .. Len(stream) + 1 : StartOf(i) \in Nat
      /\ \A i \in 1 .. Len(stream) : StartOf(i + 1) = StartOf(i) + Size(stream[i])
  BY <1>1, StartOfUnits
<1>3. \A i, j \in 1 .. Len(stream) + 1 : i < j => StartOf(i) < StartOf(j)
  BY StartsAscend
<1>4. \A i \in 1 .. Len(stream) + 1 : StartOf(i) <= StartOf(Len(stream) + 1)
  <2> SUFFICES ASSUME NEW i \in 1 .. Len(stream) + 1
               PROVE  StartOf(i) <= StartOf(Len(stream) + 1)
    OBVIOUS
  <2>1. CASE i = Len(stream) + 1
    BY <1>1, <1>2, <2>1
  <2>2. CASE i < Len(stream) + 1
    BY <1>1, <1>2, <1>3, <2>2
  <2> QED
    BY <1>1, <2>1, <2>2
<1>5. \A i, j \in 1 .. Len(stream) + 1 : StartOf(i) = StartOf(j) => i = j
  BY <1>1, <1>2, <1>3
<1> QED
  BY <1>1, <1>2, <1>3, <1>4, <1>5 DEF Total

\* The unit that starts where the next unhandled one does is that one.
LEMMA UnitAtStart ==
  ASSUME stream \in Streams, NEW k \in 1 .. Len(stream), NEW i \in UnitsAt(StartOf(k))
  PROVE  i = k
<1>1. i \in DOMAIN stream /\ StartOf(i) = StartOf(k)
  BY DEF UnitsAt
<1>2. i \in 1 .. Len(stream) + 1 /\ k \in 1 .. Len(stream) + 1
  BY <1>1, UnitsOK
<1> QED
  BY <1>1, <1>2, Starts

\* The server has not sent more than there is.
LEMMA SendableBound ==
  ASSUME stream \in Streams
  PROVE  Sendable \in Nat /\ Sendable <= Total
<1>1. Len(stream) \in Nat /\ DOMAIN stream = 1 .. Len(stream)
  BY UnitsOK
<1>2. Total \in Nat
  BY <1>1, Starts
<1>3. CASE Cardinality(Unhandled) <= 1
  BY <1>2, <1>3 DEF Sendable
<1>4. CASE ~(Cardinality(Unhandled) <= 1)
  <2> DEFINE rest == Unhandled \ {Min(Unhandled)}
  <2>1. Unhandled \in SUBSET (1 .. Len(stream)) /\ Unhandled \in SUBSET Nat
    BY <1>1 DEF Unhandled, Answers
  <2>2. rest # {}
    <3>1. SUFFICES ASSUME rest = {}
                   PROVE  FALSE
      OBVIOUS
    <3>2. Unhandled = {} \/ Unhandled = {Min(Unhandled)}
      BY <3>1
    <3>3. Cardinality({}) = 0 /\ \A x : Cardinality({x}) = 1
      BY FS_EmptySet, FS_Singleton
    <3> QED
      BY <1>4, <3>2, <3>3
  <2>3. rest \in SUBSET Nat
    BY <2>1
  <2>4. Min(rest) \in rest
    BY <2>2, <2>3, MinOfNat
  <2>5. Min(rest) \in 1 .. Len(stream)
    BY <2>1, <2>4
  <2>6. Sendable = StartOf(Min(rest))
    BY <1>4 DEF Sendable
  <2> QED
    BY <1>1, <2>5, <2>6, Starts
<1> QED
  BY <1>3, <1>4

-----------------------------------------------------------------------------
(* handle_recv.                                                            *)

\* A segment that reaches into a body ends behind it.
LEMMA BodiesArrive ==
  ASSUME WholeBodies, stream \in Streams, arrived \in Nat, ~Inside(arrived),
         NEW k \in 1 .. Len(stream), stream[k].kind = "rtsp",
         stream[k].head <= arrived - StartOf(k)
  PROVE  Size(stream[k]) <= arrived - StartOf(k)
<1>1. /\ stream[k].head \in Nat /\ stream[k].body \in Nat /\ k \in DOMAIN stream
      /\ Size(stream[k]) = stream[k].head + stream[k].body
  BY UnitsOK
<1>2. StartOf(k) \in Nat
  BY Starts, UnitsOK
<1>3. SUFFICES ASSUME arrived - StartOf(k) < Size(stream[k])
               PROVE  FALSE
  BY <1>1, <1>2
<1>4. stream[k].body > 0
  BY <1>1, <1>2, <1>3
<1>5. k \in Answers
  BY <1>1 DEF Answers
<1>6. Inside(arrived)
  BY <1>3, <1>4, <1>5 DEF Inside
<1> QED
  BY <1>6

\* What processRecvedMessage returns for the unit at the front of n bytes: it
\* fails, waits for the rest of it, or takes the whole unit, never more than the
\* buffer holds.
LEMMA MessageSize ==
  ASSUME WholeBodies, stream \in Streams, arrived \in Nat, ~Inside(arrived),
         NEW k \in 1 .. Len(stream), NEW n \in Nat, n = arrived - StartOf(k),
         NEW nSize \in ProcessRecvedMessage(stream[k], n)
  PROVE  \/ nSize = Fail
         \/ nSize = 0 /\ n < Size(stream[k]) /\ n < MAX_BYTES_PER_RECEIVE
         \/ nSize = Size(stream[k]) /\ nSize \in 1 .. n
<1> DEFINE u == stream[k]
<1>1. /\ u.head \in Nat /\ u.body \in Nat /\ u.head > 0
      /\ Size(u) = u.head + u.body /\ Size(u) \in Nat
      /\ u.kind \in {"rtsp", "rtp"}
      /\ u.kind = "rtp" => /\ u.head = RTSP_INTERLEAVE_HEADER_LEN
                           /\ Size(u) <= MAX_BYTES_PER_RECEIVE
  BY UnitsOK
<1>2. /\ MAX_BYTES_PER_RECEIVE \in Nat /\ RTSP_INTERLEAVE_HEADER_LEN \in Nat
      /\ RTSP_MSG_LENGTH \in Nat /\ RTSP_MSG_LENGTH <= MAX_BYTES_PER_RECEIVE
  BY FramingConstants
<1>3. u.kind = "rtsp" /\ u.head <= n => Size(u) <= n
  BY BodiesArrive
<1> HIDE DEF u
<1>4. nSize \in ProcessRecvedMessage(u, n)
  BY DEF u
<1>5. CASE u.kind = "rtp"
  <2>1. nSize = HandleRtpRtcpData(u, n)
    BY <1>4, <1>5 DEF ProcessRecvedMessage
  <2>2. CASE n < RTSP_INTERLEAVE_HEADER_LEN \/ n - RTSP_INTERLEAVE_HEADER_LEN < u.body
    <3>1. nSize = 0
      BY <2>1, <2>2 DEF HandleRtpRtcpData
    <3>2. n < Size(u)
      BY <1>1, <1>2, <1>5, <2>2
    <3> QED
      BY <1>1, <1>2, <1>5, <3>1, <3>2 DEF u
  <2>3. CASE ~(n < RTSP_INTERLEAVE_HEADER_LEN \/ n - RTSP_INTERLEAVE_HEADER_LEN < u.body)
    <3>1. nSize = Fail \/ nSize = u.body + RTSP_INTERLEAVE_HEADER_LEN
      BY <2>1, <2>3 DEF HandleRtpRtcpData
    <3>2. Size(u) \in 1 .. n /\ Size(u) = u.body + RTSP_INTERLEAVE_HEADER_LEN
      BY <1>1, <1>2, <1>5, <2>3
    <3> QED
      BY <3>1, <3>2 DEF u
  <2> QED
    BY <2>2, <2>3
<1>6. CASE u.kind = "rtsp"
  <2>1. nSize \in CheckRtsp(u, n)
    BY <1>4, <1>6 DEF ProcessRecvedMessage
  <2>2. CASE n < u.head
    <3>1. nSize = Fail \/ (nSize = 0 /\ ~(RTSP_MSG_LENGTH <= n))
      BY <2>1, <2>2 DEF CheckRtsp
    <3>2. n < Size(u)
      BY <1>1, <2>2
    <3>3. ~(RTSP_MSG_LENGTH <= n) => n < MAX_BYTES_PER_RECEIVE
      BY <1>2
    <3> QED
      BY <3>1, <3>2, <3>3 DEF u
  <2>3. CASE ~(n < u.head)
    <3>1. nSize = Fail \/ nSize = Size(u)
      BY <2>1, <2>3 DEF CheckRtsp
    <3>2. Size(u) \in 1 .. n
      BY <1>1, <1>3, <1>6, <2>3
    <3> QED
      BY <3>1, <3>2 DEF u
  <2> QED
    BY <2>2, <2>3
<1> QED
  BY <1>1, <1>5, <1>6

\* The loop never processes more than the buffer holds: nothing wraps.
LEMMA KeptIsRest ==
  ASSUME m_ulRecvSize \in 0 .. MAX_BYTES_PER_RECEIVE, NEW p \in 0 .. m_ulRecvSize
  PROVE  Kept(p) = m_ulRecvSize - p
<1>1. UINT32 \in Nat /\ MAX_BYTES_PER_RECEIVE \in Nat /\ MAX_BYTES_PER_RECEIVE < UINT32
  BY FramingConstants
<1>2. \A m \in Nat : \A x \in 0 .. m - 1 : x % m = x
  OBVIOUS
<1>3. m_ulRecvSize - p \in 0 .. UINT32 - 1
  BY <1>1
<1> QED
  BY <1>1, <1>2, <1>3 DEF Kept

\* What the other lemmas use of the invariant.
LEMMA InvFacts ==
  ASSUME FramingInv
  PROVE  /\ stream \in Streams /\ stream \in Seq(Unit) /\ DOMAIN stream = 1 .. Len(stream)
         /\ Len(stream) \in Nat /\ Done \in Nat /\ Done <= Len(stream)
         /\ handled \in Seq(DOMAIN stream)
         /\ arrived \in Nat /\ arrived <= Total /\ Total \in Nat
         /\ m_ulRecvSize \in 0 .. MAX_BYTES_PER_RECEIVE /\ processedSize \in 0 .. MAX_BYTES_PER_RECEIVE
         /\ MAX_BYTES_PER_RECEIVE \in Nat /\ MAX_BYTES_PER_RECEIVE >= 1
<1>1. stream \in Streams /\ handled \in Seq(DOMAIN stream) /\ Done <= Len(stream)
  BY DEF FramingInv, TypeOK
<1>2. stream \in Seq(Unit) /\ DOMAIN stream = 1 .. Len(stream) /\ Len(stream) \in Nat
  BY <1>1, UnitsOK
<1>3. Done \in Nat
  BY <1>1, LenProperties DEF Done
<1>4. Total \in Nat
  BY <1>1, <1>2, Starts
<1>5. MAX_BYTES_PER_RECEIVE \in Nat /\ MAX_BYTES_PER_RECEIVE >= 1
  BY FramingConstants
<1> QED
  BY <1>1, <1>2, <1>3, <1>4, <1>5 DEF FramingInv, TypeOK

\* The starts are those of a stream that stays.
LEMMA StreamStays ==
  ASSUME stream' = stream
  PROVE  /\ Total' = Total /\ Answers' = Answers /\ \A i : StartOf(i)' = StartOf(i)
         /\ (stream \in Streams => (stream \in Streams)')
BY DEF Total, StartOf, Answers

LEMMA InitFraming == Init => FramingInv
<1> SUFFICES ASSUME Init
             PROVE  FramingInv
  OBVIOUS
<1>1. stream \in Streams /\ Len(stream) \in Nat /\ DOMAIN stream = 1 .. Len(stream) /\ stream \in Seq(Unit)
  BY UnitsOK DEF Init
<1>2. StartOf(1) = 0 /\ Total \in Nat
  BY <1>1, Starts
<1>3. MAX_BYTES_PER_RECEIVE \in Nat /\ MAX_BYTES_PER_RECEIVE >= 1
  BY FramingConstants
<1>4. Done = 0 /\ handled = <<>> /\ handled \in Seq(DOMAIN stream) /\ DOMAIN handled = {}
  BY EmptySeq DEF Init, Done
<1>5. TypeOK
  BY <1>1, <1>2, <1>3, <1>4 DEF Init, TypeOK
<1>6. ~Inside(0)
  <2> SUFFICES ASSUME NEW i \in Answers, stream[i].head <= 0 - StartOf(i)
               PROVE  FALSE
    BY DEF Inside
  <2>1. i \in 1 .. Len(stream)
    BY <1>1 DEF Answers
  <2>2. StartOf(i) \in Nat /\ stream[i].head \in Nat /\ stream[i].head > 0
    BY <1>1, <2>1, Starts, UnitsOK
  <2> QED
    BY <2>2
<1>7. HandledInOrder
  BY <1>4 DEF HandledInOrder
<1>8. Reached = StartOf(Done + 1)
  BY <1>2, <1>4 DEF Reached, BufferStart, Init
<1>9. BufferNeverFull
  BY <1>3 DEF BufferNeverFull, Init
<1> QED
  BY <1>1, <1>4, <1>5, <1>6, <1>7, <1>8, <1>9 DEF FramingInv, Init

LEMMA ReceiveKeeps ==
  ASSUME FramingInv, Receive
  PROVE  FramingInv'
<1>1. PICK k \in Segments : /\ k <= MAX_BYTES_PER_RECEIVE - m_ulRecvSize
                            /\ arrived' = arrived + k
                            /\ m_ulRecvSize' = m_ulRecvSize + k
  BY DEF Receive
<1>2. /\ pc = "idle" /\ armed /\ pc' = "loop" /\ ~armed' /\ processedSize' = 0
      /\ stream' = stream /\ handled' = handled /\ m_enStatus' = m_enStatus
  BY DEF Receive
<1>3. /\ stream \in Streams /\ DOMAIN stream = 1 .. Len(stream) /\ Len(stream) \in Nat
      /\ Done \in Nat /\ Done <= Len(stream) /\ arrived \in Nat
      /\ m_ulRecvSize \in 0 .. MAX_BYTES_PER_RECEIVE /\ MAX_BYTES_PER_RECEIVE \in Nat
  BY InvFacts
<1>4. Sendable \in Nat /\ Sendable <= Total /\ Total \in Nat
  BY <1>3, SendableBound, InvFacts
<1>5. k \in 1 .. Sendable - arrived /\ ~Inside(arrived + k)
  BY <1>1 DEF Segments
<1>6. Total' = Total /\ Answers' = Answers /\ \A i : StartOf(i)' = StartOf(i)
  BY <1>2, StreamStays
<1>7. TypeOK'
  <2>1. arrived' \in 0 .. Total'
    BY <1>1, <1>3, <1>4, <1>5, <1>6
  <2>2. m_ulRecvSize' \in 0 .. MAX_BYTES_PER_RECEIVE /\ processedSize' \in 0 .. MAX_BYTES_PER_RECEIVE
    BY <1>1, <1>2, <1>3, <1>4, <1>5
  <2> QED
    BY <1>2, <2>1, <2>2 DEF FramingInv, TypeOK, Receive
<1>8. ~Inside(arrived)'
  BY <1>1, <1>2, <1>5, <1>6 DEF Inside
<1>9. Done' = Done /\ HandledInOrder'
  BY <1>2 DEF Done, HandledInOrder, FramingInv
<1>10. processedSize' < m_ulRecvSize'
  BY <1>1, <1>2, <1>3, <1>4, <1>5
<1>11. Reached' = StartOf(Done + 1)'
  <2>1. Reached = arrived - m_ulRecvSize /\ Reached = StartOf(Done + 1)
    BY <1>2, <1>3 DEF Reached, BufferStart, FramingInv
  <2>2. Reached' = (arrived + k) - (m_ulRecvSize + k)
    BY <1>1, <1>2, <1>3, <1>4, <1>5 DEF Reached, BufferStart
  <2> QED
    BY <1>3, <1>4, <1>5, <1>6, <1>9, <2>1, <2>2
<1>12. BufferNeverFull'
  BY <1>2 DEF BufferNeverFull
<1> QED
  BY <1>2, <1>3, <1>7, <1>8, <1>9, <1>10, <1>11, <1>12 DEF FramingInv

LEMMA PeerClosedKeeps ==
  ASSUME FramingInv, PeerClosed
  PROVE  FramingInv'
<1>1. /\ pc' = "idle" /\ ~armed' /\ m_enStatus' = "TEARDOWN" /\ armed' \in BOOLEAN
      /\ UNCHANGED <<stream, arrived, m_ulRecvSize, processedSize, handled>>
  BY DEF PeerClosed
<1>2. Total' = Total /\ Answers' = Answers /\ \A i : StartOf(i)' = StartOf(i)
  BY <1>1, StreamStays
<1>3. TypeOK'
  BY <1>1, <1>2 DEF FramingInv, TypeOK
<1>4. ~Inside(arrived)'
  BY <1>1, <1>2 DEF FramingInv, Inside
<1>5. Done' = Done /\ HandledInOrder' /\ BufferNeverFull'
  BY <1>1 DEF Done, HandledInOrder, FramingInv, BufferNeverFull
<1> QED
  BY <1>1, <1>3, <1>4, <1>5 DEF FramingInv

\* What every round of the loop leaves alone, and what its outcomes have in common.
LEMMA RoundKeeps ==
  ASSUME FramingInv, stream' = stream, arrived' = arrived,
         handled' \in Seq(DOMAIN stream), HandledInOrder', Done' <= Len(stream),
         m_ulRecvSize' \in 0 .. MAX_BYTES_PER_RECEIVE,
         processedSize' \in 0 .. MAX_BYTES_PER_RECEIVE,
         pc' \in {"idle", "loop"}, armed' \in BOOLEAN, m_enStatus' \in {"RUNNING", "TEARDOWN"},
         pc' = "loop" => processedSize' < m_ulRecvSize' /\ ~armed',
         pc' = "loop" \/ armed' =>
           StartOf(Done' + 1) = arrived - m_ulRecvSize' + (IF pc' = "loop" THEN processedSize' ELSE 0),
         pc' = "idle" /\ armed' /\ m_ulRecvSize' > 0 =>
           /\ Done' < Len(stream)
           /\ m_ulRecvSize' < Size(stream[Done' + 1])
           /\ m_ulRecvSize' < MAX_BYTES_PER_RECEIVE
  PROVE  FramingInv'
<1>1. Total' = Total /\ Answers' = Answers /\ \A i : StartOf(i)' = StartOf(i)
  BY StreamStays
<1>2. TypeOK'
  BY <1>1 DEF FramingInv, TypeOK
<1>3. ~Inside(arrived)'
  BY <1>1 DEF FramingInv, Inside
<1>4. pc' = "loop" \/ armed' => Reached' = StartOf(Done + 1)'
  BY <1>1 DEF Reached, BufferStart, Done
<1>5. BufferNeverFull'
  BY InvFacts DEF BufferNeverFull
<1> QED
  BY <1>2, <1>3, <1>4, <1>5 DEF FramingInv

LEMMA ProcessKeeps ==
  ASSUME WholeBodies, FramingInv, Process
  PROVE  FramingInv'
<1> DEFINE k == Done + 1
           n == m_ulRecvSize - processedSize
<1>1. /\ pc = "loop" /\ stream' = stream /\ arrived' = arrived
  BY DEF Process
<1>2. /\ stream \in Streams /\ DOMAIN stream = 1 .. Len(stream) /\ Len(stream) \in Nat
      /\ Done \in Nat /\ Done <= Len(stream) /\ arrived \in Nat /\ arrived <= Total /\ Total \in Nat
      /\ m_ulRecvSize \in 0 .. MAX_BYTES_PER_RECEIVE /\ MAX_BYTES_PER_RECEIVE \in Nat
      /\ processedSize \in 0 .. MAX_BYTES_PER_RECEIVE /\ handled \in Seq(DOMAIN stream)
      /\ MAX_BYTES_PER_RECEIVE >= 1
  BY InvFacts
<1>3. /\ processedSize < m_ulRecvSize /\ ~armed /\ ~Inside(arrived) /\ HandledInOrder
      /\ Reached = StartOf(k) /\ Reached = BufferStart + processedSize
      /\ armed \in BOOLEAN /\ m_enStatus \in {"RUNNING", "TEARDOWN"}
  BY <1>1 DEF FramingInv, Reached, TypeOK
<1>4. /\ n \in Nat /\ n >= 1 /\ n <= MAX_BYTES_PER_RECEIVE
      /\ StartOf(k) = arrived - n
  BY <1>2, <1>3 DEF BufferStart
<1>5. k \in 1 .. Len(stream)
  <2>1. StartOf(k) < Total
    BY <1>2, <1>4
  <2>2. k # Len(stream) + 1
    BY <1>2, <2>1, Starts
  <2> QED
    BY <1>2, <2>2
<1>6. n = arrived - StartOf(k) /\ StartOf(k) \in Nat
  BY <1>2, <1>4, <1>5, Starts
<1>7. ASSUME TornDown
      PROVE  FramingInv'
  <2>1. /\ pc' = "idle" /\ m_enStatus' = "TEARDOWN" /\ armed' = armed
        /\ m_ulRecvSize' = m_ulRecvSize /\ processedSize' = processedSize /\ handled' = handled
    BY <1>7 DEF TornDown
  <2>2. HandledInOrder' /\ Done' = Done
    BY <1>3, <2>1 DEF HandledInOrder, Done
  <2> QED
    BY <1>1, <1>2, <1>3, <2>1, <2>2, RoundKeeps
<1>8. ASSUME n < Size(stream[k]), n < MAX_BYTES_PER_RECEIVE, Keep(processedSize), handled' = handled
      PROVE  FramingInv'
  <2>1. m_ulRecvSize' = n /\ processedSize' = processedSize /\ pc' = "idle" /\ armed'
        /\ armed' \in BOOLEAN /\ m_enStatus' = m_enStatus
    BY <1>2, <1>3, <1>8, KeptIsRest DEF Keep
  <2>2. HandledInOrder' /\ Done' = Done
    BY <1>3, <1>8 DEF HandledInOrder, Done
  <2>3. StartOf(Done' + 1) = arrived - m_ulRecvSize'
    BY <1>4, <2>1, <2>2
  <2>4. Done' < Len(stream) /\ m_ulRecvSize' < Size(stream[Done' + 1])
    BY <1>2, <1>5, <1>8, <2>1, <2>2
  <2>5. arrived - m_ulRecvSize' = arrived - m_ulRecvSize' + 0
    BY <1>2, <1>4, <2>1
  <2> HIDE DEF n, k
  <2> QED
    BY <1>1, <1>2, <1>3, <1>4, <1>8, <2>1, <2>2, <2>3, <2>4, <2>5, RoundKeeps
<1>9. ASSUME Size(stream[k]) \in 1 .. n, handled' = Append(handled, k)
      PROVE  /\ handled' \in Seq(DOMAIN stream) /\ HandledInOrder' /\ Done' = k
             /\ StartOf(k + 1) = StartOf(k) + Size(stream[k])
  <2>1. k \in DOMAIN stream
    BY <1>2, <1>5
  <2>2. /\ handled' \in Seq(DOMAIN stream) /\ Len(handled') = Done + 1
        /\ \A i \in 1 .. Done : handled'[i] = handled[i]
        /\ handled'[Done + 1] = k
    BY <1>2, <1>9, <2>1, AppendProperties DEF Done
  <2>3. DOMAIN handled = 1 .. Done /\ DOMAIN handled' = 1 .. Done + 1
    BY <1>2, <2>2, LenProperties DEF Done
  <2>4. HandledInOrder'
    BY <1>2, <1>3, <2>2, <2>3 DEF HandledInOrder
  <2> QED
    BY <1>2, <1>5, <2>2, <2>4, Starts DEF Done
<1>10. ASSUME Size(stream[k]) \in 1 .. n, handled' = Append(handled, k),
              IF More(processedSize + Size(stream[k]))
              THEN /\ processedSize' = processedSize + Size(stream[k])
                   /\ UNCHANGED <<m_ulRecvSize, pc, armed, m_enStatus>>
              ELSE Keep(processedSize + Size(stream[k]))
       PROVE  FramingInv'
  <2> DEFINE p == processedSize + Size(stream[k])
  <2>1. /\ handled' \in Seq(DOMAIN stream) /\ HandledInOrder' /\ Done' = k
        /\ StartOf(Done' + 1) = arrived - m_ulRecvSize + p
    BY <1>2, <1>4, <1>5, <1>9, <1>10
  <2>2. p \in 0 .. m_ulRecvSize /\ p \in 0 .. MAX_BYTES_PER_RECEIVE
    BY <1>2, <1>3, <1>4, <1>10
  <2> HIDE DEF p
  <2>3. Done' <= Len(stream)
    BY <1>2, <1>5, <2>1
  <2>4. CASE More(p)
    <3>1. /\ processedSize' = p /\ m_ulRecvSize' = m_ulRecvSize /\ pc' = "loop"
          /\ armed' = armed /\ m_enStatus' = m_enStatus /\ p < m_ulRecvSize
      BY <1>1, <1>10, <2>4 DEF More, p
    <3> QED
      BY <1>1, <1>2, <1>3, <2>1, <2>2, <2>3, <3>1, RoundKeeps
  <2>5. CASE ~More(p)
    <3>1. /\ m_ulRecvSize' = m_ulRecvSize - p /\ processedSize' = p /\ pc' = "idle" /\ armed'
          /\ armed' \in BOOLEAN /\ m_enStatus' = m_enStatus
      BY <1>2, <1>10, <2>2, <2>5, KeptIsRest DEF Keep, p
    <3>2. m_ulRecvSize' = 0
      BY <1>2, <2>2, <2>5, <3>1 DEF More
    <3>3. StartOf(Done' + 1) = arrived - m_ulRecvSize' + 0 /\ m_ulRecvSize' \in 0 .. MAX_BYTES_PER_RECEIVE
      BY <1>2, <2>1, <2>2, <3>1, <3>2
    <3> QED
      BY <1>1, <1>2, <1>3, <2>1, <2>2, <2>3, <3>1, <3>2, <3>3, RoundKeeps
  <2> QED
    BY <2>4, <2>5
<1>11. CASE UnitsAt(BufferStart + processedSize) = {} /\ TornDown
  BY <1>7, <1>11
<1>12. CASE \E i \in UnitsAt(BufferStart + processedSize) :
              \E nSize \in ProcessRecvedMessage(stream[i], n) :
                \/ nSize = Fail /\ TornDown
                \/ nSize = 0 /\ Keep(processedSize) /\ UNCHANGED handled
                \/ /\ nSize > 0
                   /\ handled' = Append(handled, i)
                   /\ IF More(processedSize + nSize)
                      THEN /\ processedSize' = processedSize + nSize
                           /\ UNCHANGED <<m_ulRecvSize, pc, armed, m_enStatus>>
                      ELSE Keep(processedSize + nSize)
  <2>9. PICK i \in UnitsAt(BufferStart + processedSize) :
              \E nSize \in ProcessRecvedMessage(stream[i], n) :
                \/ nSize = Fail /\ TornDown
                \/ nSize = 0 /\ Keep(processedSize) /\ UNCHANGED handled
                \/ /\ nSize > 0
                   /\ handled' = Append(handled, i)
                   /\ IF More(processedSize + nSize)
                      THEN /\ processedSize' = processedSize + nSize
                           /\ UNCHANGED <<m_ulRecvSize, pc, armed, m_enStatus>>
                      ELSE Keep(processedSize + nSize)
    BY <1>12
  <2>1. PICK nSize \in ProcessRecvedMessage(stream[i], n) :
                \/ nSize = Fail /\ TornDown
                \/ nSize = 0 /\ Keep(processedSize) /\ UNCHANGED handled
                \/ /\ nSize > 0
                   /\ handled' = Append(handled, i)
                   /\ IF More(processedSize + nSize)
                      THEN /\ processedSize' = processedSize + nSize
                           /\ UNCHANGED <<m_ulRecvSize, pc, armed, m_enStatus>>
                      ELSE Keep(processedSize + nSize)
    BY <2>9
  <2>2. i = k
    BY <1>2, <1>3, <1>5, UnitAtStart
  <2>3. \/ nSize = Fail
        \/ nSize = 0 /\ n < Size(stream[k]) /\ n < MAX_BYTES_PER_RECEIVE
        \/ nSize = Size(stream[k]) /\ nSize \in 1 .. n
    BY <1>2, <1>3, <1>4, <1>5, <1>6, <2>1, <2>2, MessageSize
  <2>4. CASE nSize = Fail
    BY <1>7, <2>1, <2>4 DEF Fail
  <2>5. CASE nSize = 0 /\ n < Size(stream[k]) /\ n < MAX_BYTES_PER_RECEIVE
    <3>1. Keep(processedSize) /\ handled' = handled
      BY <2>1, <2>5 DEF Fail
    <3> QED
      BY <1>8, <2>5, <3>1
  <2>6. CASE nSize = Size(stream[k]) /\ nSize \in 1 .. n
    <3>1. /\ handled' = Append(handled, k)
          /\ IF More(processedSize + nSize)
             THEN /\ processedSize' = processedSize + nSize
                  /\ UNCHANGED <<m_ulRecvSize, pc, armed, m_enStatus>>
             ELSE Keep(processedSize + nSize)
      BY <1>4, <2>1, <2>2, <2>6 DEF Fail
    <3> QED
      BY <1>10, <2>6, <3>1
  <2> QED
    BY <2>3, <2>4, <2>5, <2>6
<1> QED
  BY <1>11, <1>12 DEF Process

-----------------------------------------------------------------------------
(* The theorems.                                                           *)

LEMMA FramingInvHolds ==
  ASSUME WholeBodies
  PROVE  Spec => []FramingInv
<1>1. Init => FramingInv
  BY InitFraming
<1>2. FramingInv /\ [Next]_vars => FramingInv'
  <2> SUFFICES ASSUME FramingInv, [Next]_vars
               PROVE  FramingInv'
    OBVIOUS
  <2>1. CASE Receive
    BY <2>1, ReceiveKeeps
  <2>2. CASE PeerClosed
    BY <2>2, PeerClosedKeeps
  <2>3. CASE Process
    BY <2>3, ProcessKeeps
  <2>4. CASE UNCHANGED vars
    <3>1. Total' = Total /\ Answers' = Answers /\ \A i : StartOf(i)' = StartOf(i)
      BY <2>4, StreamStays DEF vars
    <3>2. TypeOK' /\ HandledInOrder' /\ BufferNeverFull' /\ Done' = Done
      BY <2>4, <3>1 DEF vars, FramingInv, TypeOK, HandledInOrder, BufferNeverFull, Done
    <3>3. ~Inside(arrived)' /\ Reached' = Reached
      BY <2>4, <3>1 DEF vars, FramingInv, Inside, Reached, BufferStart
    <3> QED
      BY <2>4, <3>1, <3>2, <3>3 DEF vars, FramingInv
  <2> QED
    BY <2>1, <2>2, <2>3, <2>4 DEF Next
<1> QED
  BY <1>1, <1>2, PTL DEF Spec

\* The sizes stay within m_RecvTcpBuf, and no more has arrived than was sent,
\* for every stream and segmentation that keeps bodies whole.
THEOREM TypeCorrect ==
  ASSUME WholeBodies
  PROVE  Spec => []TypeOK
<1>1. FramingInv => TypeOK
  BY DEF FramingInv
<1> QED
  BY <1>1, FramingInvHolds, PTL

\* handle_recv handles the units in the order the server sent them, each once
\* and none left out, however the network cuts the stream.
THEOREM UnitsHandledInOrder ==
  ASSUME WholeBodies
  PROVE  Spec => []HandledInOrder
<1>1. FramingInv => HandledInOrder
  BY DEF FramingInv
<1> QED
  BY <1>1, FramingInvHolds, PTL

\* What handle_recv leaves in the buffer is the beginning of one unit.
THEOREM OnlyPartsWait ==
  ASSUME WholeBodies
  PROVE  Spec => []NothingCompleteWaits
<1>1. FramingInv => NothingCompleteWaits
  <2> SUFFICES ASSUME FramingInv, pc = "idle", armed, m_ulRecvSize > 0
               PROVE  \E i \in UnitsAt(BufferStart) : m_ulRecvSize < Size(stream[i])
    BY DEF NothingCompleteWaits
  <2>1. Done < Len(stream) /\ m_ulRecvSize < Size(stream[Done + 1]) /\ Reached = StartOf(Done + 1)
    BY DEF FramingInv
  <2>2. Reached = BufferStart
    BY InvFacts DEF Reached, BufferStart
  <2>3. Done + 1 \in DOMAIN stream
    BY <2>1, InvFacts
  <2> QED
    BY <2>1, <2>2, <2>3 DEF UnitsAt
<1> QED
  BY <1>1, FramingInvHolds, PTL

\* The early return of handle_recv at a full buffer is never taken, since nothing
\* it waits for is as large as the buffer.
THEOREM BufferHasRoom ==
  ASSUME WholeBodies
  PROVE  Spec => []BufferNeverFull
<1>1. FramingInv => BufferNeverFull
  BY DEF FramingInv
<1> QED
  BY <1>1, FramingInvHolds, PTL
=============================================================================

---------------------- MODULE RtpFrameOrganizer_proofs ----------------------
(***************************************************************************)
(* Proofs about RtpFrameOrganizer, for every number of connections, frame  *)
(* objects and buffers and for every behaviour of the network.             *)
(***************************************************************************)
EXTENDS RtpFrameOrganizer, SequenceTheorems, FiniteSetTheorems,
        WellFoundedInduction, TLAPS

-----------------------------------------------------------------------------
(* The queue of a frame.                                                   *)

\* A set of naturals that is not empty has a least element.
LEMMA MinOfNat ==
  ASSUME NEW S \in SUBSET Nat, S # {}
  PROVE  /\ Min(S) \in S
         /\ \A x \in S : Min(S) <= x
<1> DEFINE T == {0 .. x : x \in S}
           R == StrictSubsetOrdering(Nat)
<1>1. T \subseteq FiniteSubsetsOf(Nat) /\ T # {}
  <2>1. ASSUME NEW x \in S
        PROVE  0 .. x \in SUBSET Nat /\ IsFiniteSet(0 .. x)
    BY FS_Interval
  <2> QED
    BY <2>1 DEF FiniteSubsetsOf
<1>2. PICK u \in T : \A v \in T : ~(<<v, u>> \in R)
  BY <1>1, WFMin, FS_StrictSubsetOrderingWellFounded
<1>3. PICK m \in S : u = 0 .. m
  BY <1>2
<1>4. ASSUME NEW x \in S, x < m
      PROVE  FALSE
  <2>1. 0 .. x \in T
    OBVIOUS
  <2>2. 0 .. x \subseteq u /\ m \in u /\ m \notin 0 .. x
    BY <1>3, <1>4
  <2>3. <<0 .. x, u>> \in R
    BY <1>3, <2>2 DEF StrictSubsetOrdering
  <2> QED
    BY <1>2, <2>1, <2>3
<1>5. \A x \in S : m <= x
  BY <1>4
<1> QED
  BY <1>5 DEF Min

\* GetSmallFrame finds a frame whenever there is one.
LEMMA SmallFrameExists ==
  ASSUME NEW S \in SUBSET Slot, S # {},
         NEW f \in [Slot -> FrameInfo]
  PROVE  /\ SmallFrame(S, f) \in S
         /\ \A u \in S : f[SmallFrame(S, f)].unTimestamp <= f[u].unTimestamp
<1> DEFINE T == {f[s].unTimestamp : s \in S}
<1>1. T \in SUBSET Nat /\ T # {}
  BY DEF FrameInfo
<1>2. Min(T) \in T /\ \A x \in T : Min(T) <= x
  BY <1>1, MinOfNat
<1>3. PICK m \in S : f[m].unTimestamp = Min(T)
  BY <1>2
<1>4. \A u \in S : f[m].unTimestamp <= f[u].unTimestamp
  BY <1>2, <1>3
<1> QED
  BY <1>4 DEF SmallFrame

Sorted(q) == \A i, j \in DOMAIN q : i <= j => q[i].usSeq <= q[j].usSeq

\* q with p put at position k.
PutAt(q, k, p) ==
  [j \in 1 .. Len(q) + 1 |-> IF j < k THEN q[j] ELSE IF j = k THEN p ELSE q[j - 1]]

LEMMA InsertAtShape ==
  ASSUME NEW q \in Seq(Entry), NEW p \in Entry, NEW k \in 1 .. Len(q)
  PROVE  InsertAt(q, k, p) = PutAt(q, k, p)
<1> DEFINE a == SubSeq(q, 1, k - 1)
           b == SubSeq(q, k, Len(q))
<1>1. /\ a \in Seq(Entry) /\ Len(a) = k - 1
      /\ \A i \in 1 .. k - 1 : a[i] = q[i]
  BY SubSeqProperties, ElementOfSeq, LenProperties
<1>2. /\ b \in Seq(Entry) /\ Len(b) = Len(q) - k + 1
      /\ \A i \in 1 .. Len(q) - k + 1 : b[i] = q[k + i - 1]
  BY SubSeqProperties, ElementOfSeq, LenProperties
<1>3. <<p>> \in Seq(Entry) /\ Len(<<p>>) = 1 /\ <<p>>[1] = p
  OBVIOUS
<1>4. /\ a \o <<p>> \in Seq(Entry) /\ Len(a \o <<p>>) = k
      /\ \A i \in 1 .. k : (a \o <<p>>)[i] = IF i < k THEN q[i] ELSE p
  <2>1. /\ a \o <<p>> \in Seq(Entry) /\ Len(a \o <<p>>) = Len(a) + 1
        /\ \A i \in 1 .. Len(a) + 1 :
             (a \o <<p>>)[i] = IF i <= Len(a) THEN a[i] ELSE <<p>>[i - Len(a)]
    BY <1>1, <1>3, ConcatProperties
  <2> HIDE DEF a
  <2>2. \A i \in 1 .. k : i <= Len(a) <=> i < k
    BY <1>1
  <2>3. ASSUME NEW i \in 1 .. k, ~(i < k)
        PROVE  i - Len(a) = 1
    BY <1>1, <2>3
  <2> QED
    BY <1>1, <1>3, <2>1, <2>2, <2>3
<1>5. /\ (a \o <<p>>) \o b \in Seq(Entry)
      /\ Len((a \o <<p>>) \o b) = Len(q) + 1
      /\ \A i \in 1 .. Len(q) + 1 :
           ((a \o <<p>>) \o b)[i] = IF i <= k THEN (a \o <<p>>)[i] ELSE b[i - k]
  <2> DEFINE ap == a \o <<p>>
  <2>1. ap \in Seq(Entry) /\ Len(ap) = k
    BY <1>4
  <2> HIDE DEF ap, b
  <2>2. /\ ap \o b \in Seq(Entry) /\ Len(ap \o b) = Len(ap) + Len(b)
        /\ \A i \in 1 .. Len(ap) + Len(b) :
             (ap \o b)[i] = IF i <= Len(ap) THEN ap[i] ELSE b[i - Len(ap)]
    BY <1>2, <2>1, ConcatProperties
  <2>3. Len(ap) + Len(b) = Len(q) + 1
    BY <1>2, <2>1, LenProperties
  <2>4. /\ ap \o b \in Seq(Entry) /\ Len(ap \o b) = Len(q) + 1
        /\ \A i \in 1 .. Len(q) + 1 :
             (ap \o b)[i] = IF i <= k THEN ap[i] ELSE b[i - k]
    BY <2>1, <2>2, <2>3
  <2> QED
    BY <2>4 DEF ap
<1>6. \A i \in 1 .. Len(q) + 1 : ((a \o <<p>>) \o b)[i] = PutAt(q, k, p)[i]
  BY <1>2, <1>4, <1>5 DEF PutAt
<1>7. DOMAIN ((a \o <<p>>) \o b) = 1 .. Len(q) + 1
  BY <1>5
<1> QED
  BY <1>5, <1>6, <1>7 DEF InsertAt, PutAt

\* PutAt gives a sequence.
LEMMA PutAtType ==
  ASSUME NEW q \in Seq(Entry), NEW p \in Entry, NEW k \in 1 .. Len(q) + 1
  PROVE  /\ PutAt(q, k, p) \in Seq(Entry)
         /\ Len(PutAt(q, k, p)) = Len(q) + 1
         /\ DOMAIN PutAt(q, k, p) = 1 .. Len(q) + 1
<1>1. Len(q) \in Nat /\ \A i \in 1 .. Len(q) : q[i] \in Entry
  BY LenProperties, ElementOfSeq
<1>2. PutAt(q, k, p) \in [1 .. Len(q) + 1 -> Entry]
  <2>1. ASSUME NEW j \in 1 .. Len(q) + 1
        PROVE  (IF j < k THEN q[j] ELSE IF j = k THEN p ELSE q[j - 1]) \in Entry
    BY <1>1
  <2> QED
    BY <2>1 DEF PutAt
<1> QED
  BY <1>1, <1>2

LEMMA EntrySeq ==
  ASSUME NEW e \in Entry
  PROVE  e.usSeq \in Int
<1>1. SeqSpace \in Int
  BY OrganizerAssumption
<1> QED
  BY <1>1 DEF Entry, SeqNum

\* insert puts the packet at some place and moves nothing else; into a sorted
\* queue it puts it at a place that keeps the queue sorted.
LEMMA InsertShape ==
  ASSUME NEW q \in Seq(Entry), NEW p \in Entry
  PROVE  \E k \in 1 .. Len(q) + 1 :
           /\ Insert(q, p) = PutAt(q, k, p)
           /\ Sorted(q) => /\ \A i \in 1 .. k - 1 : q[i].usSeq <= p.usSeq
                           /\ \A i \in k .. Len(q) : p.usSeq <= q[i].usSeq
<1>0. /\ Len(q) \in Nat /\ DOMAIN q = 1 .. Len(q)
      /\ \A i \in 1 .. Len(q) : q[i].usSeq \in Int
      /\ p.usSeq \in Int
      /\ q = <<>> <=> Len(q) = 0
  BY LenProperties, ElementOfSeq, EntrySeq, EmptySeq
<1>1. CASE InOrder(q, p)
  <2>1. Append(q, p) = PutAt(q, Len(q) + 1, p)
    <3>1. /\ Append(q, p) \in Seq(Entry)
          /\ Len(Append(q, p)) = Len(q) + 1
          /\ \A i \in 1 .. Len(q) : Append(q, p)[i] = q[i]
          /\ Append(q, p)[Len(q) + 1] = p
      BY AppendProperties
    <3>2. /\ PutAt(q, Len(q) + 1, p) \in Seq(Entry)
          /\ Len(PutAt(q, Len(q) + 1, p)) = Len(q) + 1
      BY <1>0, PutAtType
    <3>3. ASSUME NEW i \in 1 .. Len(q) + 1
          PROVE  Append(q, p)[i] = PutAt(q, Len(q) + 1, p)[i]
      BY <1>0, <3>1 DEF PutAt
    <3> HIDE DEF PutAt
    <3> QED
      BY <3>1, <3>2, <3>3, SeqEqual
  <2>2. Insert(q, p) = PutAt(q, Len(q) + 1, p)
    BY <1>1, <2>1 DEF Insert
  <2>3. ASSUME Sorted(q), NEW i \in 1 .. Len(q)
        PROVE  q[i].usSeq <= p.usSeq
    <3>1. q[i].usSeq <= q[Len(q)].usSeq
      BY <1>0, <2>3 DEF Sorted
    <3>2. q[Len(q)].usSeq <= p.usSeq
      BY <1>0, <1>1, <2>3 DEF InOrder
    <3> QED
      BY <1>0, <3>1, <3>2
  <2>4. Len(q) + 1 \in 1 .. Len(q) + 1 /\ (Len(q) + 1) - 1 = Len(q)
    BY <1>0
  <2>5. \A i \in Len(q) + 1 .. Len(q) : FALSE
    BY <1>0
  <2> QED
    BY <2>2, <2>3, <2>4, <2>5
<1>2. CASE ~InOrder(q, p)
  <2> DEFINE T == {i \in DOMAIN q : p.usSeq <= q[i].usSeq}
             m == Min(T)
  <2>1. Len(q) \in T
    BY <1>0, <1>2 DEF InOrder
  <2>2. T \in SUBSET Nat
    BY <1>0
  <2>3. m \in T /\ \A i \in T : m <= i
    BY <2>1, <2>2, MinOfNat
  <2>4. m \in 1 .. Len(q)
    BY <1>0, <2>3
  <2>5. Insert(q, p) = InsertAt(q, m, p)
    BY <1>2 DEF Insert
  <2> HIDE DEF m
  <2>6. Insert(q, p) = PutAt(q, m, p)
    BY <2>4, <2>5, InsertAtShape
  <2>7. ASSUME NEW i \in 1 .. m - 1
        PROVE  q[i].usSeq <= p.usSeq
    BY <1>0, <2>3, <2>4
  <2>8. ASSUME Sorted(q), NEW i \in m .. Len(q)
        PROVE  p.usSeq <= q[i].usSeq
    <3>1. i \in DOMAIN q /\ m \in DOMAIN q /\ m <= i
      BY <1>0, <2>4
    <3>2. q[m].usSeq <= q[i].usSeq /\ p.usSeq <= q[m].usSeq
      BY <2>3, <2>8, <3>1 DEF Sorted
    <3> QED
      BY <1>0, <3>1, <3>2
  <2>9. m \in 1 .. Len(q) + 1
    BY <1>0, <2>4
  <2> QED
    BY <2>6, <2>7, <2>8, <2>9
<1> QED
  BY <1>1, <1>2

\* A queue stays a queue, and sorted if it was.
LEMMA InsertType ==
  ASSUME NEW q \in Seq(Entry), NEW p \in Entry
  PROVE  /\ Insert(q, p) \in Seq(Entry)
         /\ Insert(q, p) # <<>>
         /\ Sorted(q) => Sorted(Insert(q, p))
<1>0. /\ Len(q) \in Nat
      /\ \A i \in 1 .. Len(q) : q[i].usSeq \in Int
      /\ p.usSeq \in Int
  BY LenProperties, ElementOfSeq, EntrySeq
<1>1. PICK k \in 1 .. Len(q) + 1 :
        /\ Insert(q, p) = PutAt(q, k, p)
        /\ Sorted(q) => /\ \A i \in 1 .. k - 1 : q[i].usSeq <= p.usSeq
                        /\ \A i \in k .. Len(q) : p.usSeq <= q[i].usSeq
  BY InsertShape
<1> DEFINE r == PutAt(q, k, p)
<1>2. r \in Seq(Entry) /\ Len(r) = Len(q) + 1 /\ DOMAIN r = 1 .. Len(q) + 1
  BY PutAtType
<1>3. ASSUME Sorted(q), NEW i \in 1 .. Len(q) + 1, NEW j \in 1 .. Len(q) + 1, i <= j
      PROVE  r[i].usSeq <= r[j].usSeq
  <2>0. \A x, y \in 1 .. Len(q) : x <= y => q[x].usSeq <= q[y].usSeq
    BY <1>3, LenProperties DEF Sorted
  <2>1. \A x \in 1 .. Len(q) + 1 :
          r[x] = IF x < k THEN q[x] ELSE IF x = k THEN p ELSE q[x - 1]
    BY DEF PutAt
  <2> HIDE DEF r
  <2>2. CASE i < k /\ j < k
    BY <1>0, <1>3, <2>0, <2>1, <2>2
  <2>3. CASE i < k /\ j = k
    BY <1>0, <1>1, <1>3, <2>1, <2>3
  <2>4. CASE i < k /\ j > k
    <3>1. j - 1 \in 1 .. Len(q) /\ i \in 1 .. Len(q) /\ i <= j - 1 /\ ~(j < k) /\ j # k
      BY <1>0, <1>3, <2>4
    <3> QED
      BY <1>3, <2>0, <2>1, <2>4, <3>1
  <2>5. CASE i = k /\ j = k
    BY <1>0, <2>1, <2>5
  <2>6. CASE i = k /\ j > k
    BY <1>0, <1>1, <1>3, <2>1, <2>6
  <2>7. CASE i > k /\ j > k
    <3>1. /\ j - 1 \in 1 .. Len(q) /\ i - 1 \in 1 .. Len(q) /\ i - 1 <= j - 1
          /\ ~(j < k) /\ j # k /\ ~(i < k) /\ i # k
      BY <1>0, <1>3, <2>7
    <3> QED
      BY <1>3, <2>0, <2>1, <3>1
  <2> QED
    BY <1>0, <1>3, <2>2, <2>3, <2>4, <2>5, <2>6, <2>7
<1>4. Sorted(q) => Sorted(r)
  BY <1>2, <1>3 DEF Sorted
<1>5. r # <<>>
  BY <1>0, <1>2
<1> QED
  BY <1>1, <1>2, <1>4, <1>5

-----------------------------------------------------------------------------
(* The frame objects and the packet in hand.                               *)

\* What a connection's destruction leaves behind: nothing.
ClosedIsEmpty ==
  \A c \in Conn \ open :
    /\ rtpFrameMap[c] = {}
    /\ inHand[c] = Nothing
    /\ \A s \in Slot : frame[c][s].PacketQueue = <<>>

\* The inductive invariant.  SlotsPartitioned is needed for the types (the
\* evicted frame exists), QueuesWellFormed for the arithmetic on its ends, and
\* ClosedIsEmpty for a connection that is created again.
OrganizerInv ==
  TypeOK /\ SlotsPartitioned /\ QueuesWellFormed /\ ClosedIsEmpty

\* The packet in hand, as an entry of a queue.
EntryInHand(c) == [usSeq |-> inHand[c].pkt.usSeq, buf |-> inHand[c].buf]

LEMMA InHandType ==
  ASSUME TypeOK, NEW c \in Conn, inHand[c] # Nothing
  PROVE  /\ inHand[c].buf \in Buf
         /\ inHand[c].pkt # OtherPacket =>
              /\ inHand[c].pkt \in FragmentType
              /\ inHand[c].pkt \in Fragment
              /\ EntryInHand(c) \in Entry
<1>1. inHand[c] \in [buf : Buf, pkt : Fragment \cup {OtherPacket}]
  BY DEF TypeOK
<1>2. inHand[c].pkt \in Fragment => inHand[c].pkt \in FragmentType
  BY OrganizerAssumption
<1> QED
  BY <1>1, <1>2 DEF EntryInHand, Entry, FragmentType

\* The frame objects after a fragment went into object s.
LEMMA InsertedShape ==
  ASSUME TypeOK, NEW c \in Conn, HasFragment(c), NEW s \in Slot
  PROVE  /\ Inserted(c, s) \in [Slot -> FrameInfo]
         /\ \A u \in Slot \ {s} : Inserted(c, s)[u] = frame[c][u]
         /\ Inserted(c, s)[s].PacketQueue
              = Insert(frame[c][s].PacketQueue, EntryInHand(c))
         /\ Inserted(c, s)[s].unTimestamp
              = (IF s \in rtpFrameMap[c] THEN frame[c][s].unTimestamp
                                         ELSE inHand[c].pkt.unTimestamp)
<1>1. inHand[c].pkt \in FragmentType /\ EntryInHand(c) \in Entry
  BY InHandType DEF HasFragment
<1>2. frame[c] \in [Slot -> FrameInfo] /\ frame[c][s] \in FrameInfo
  BY DEF TypeOK
<1>3. /\ Prepared(c, s) \in FrameInfo
      /\ Prepared(c, s).PacketQueue = frame[c][s].PacketQueue
      /\ Prepared(c, s).unTimestamp = (IF s \in rtpFrameMap[c]
                                       THEN frame[c][s].unTimestamp
                                       ELSE inHand[c].pkt.unTimestamp)
  BY <1>1, <1>2 DEF Prepared, FrameInfo, FragmentType
<1> DEFINE f == Prepared(c, s)
           g == [f EXCEPT !.bMarker = @ \/ inHand[c].pkt.bMarker,
                          !.PacketQueue = Insert(@, EntryInHand(c))]
<1>4. Inserted(c, s) = [frame[c] EXCEPT ![s] = g]
  BY Zenon DEF Inserted, EntryInHand
<1>5. frame[c][s].PacketQueue \in Seq(Entry)
  BY <1>2 DEF FrameInfo
<1>6. Insert(frame[c][s].PacketQueue, EntryInHand(c)) \in Seq(Entry)
  BY <1>1, <1>5, InsertType
<1>7. /\ g \in FrameInfo
      /\ g.PacketQueue = Insert(frame[c][s].PacketQueue, EntryInHand(c))
      /\ g.unTimestamp = f.unTimestamp
  <2> HIDE DEF f
  <2>1. (f.bMarker \/ inHand[c].pkt.bMarker) \in BOOLEAN
    OBVIOUS
  <2> QED
    BY <1>3, <1>6, <2>1 DEF FrameInfo, f
<1> HIDE DEF g
<1> QED
  BY <1>2, <1>3, <1>4, <1>7

LEMMA EmptiedShape ==
  ASSUME NEW f \in [Slot -> FrameInfo], NEW S \in SUBSET Slot
  PROVE  /\ Emptied(f, S) \in [Slot -> FrameInfo]
         /\ \A u \in Slot \ S : Emptied(f, S)[u] = f[u]
         /\ \A u \in S : Emptied(f, S)[u].PacketQueue = <<>>
<1>1. ASSUME NEW s \in Slot
      PROVE  /\ [f[s] EXCEPT !.PacketQueue = <<>>] \in FrameInfo
             /\ [f[s] EXCEPT !.PacketQueue = <<>>].PacketQueue = <<>>
  <2>1. f[s] \in FrameInfo
    OBVIOUS
  <2>2. <<>> \in Seq(Entry)
    BY EmptySeq
  <2> QED
    BY <2>1, <2>2 DEF FrameInfo
<1> QED
  BY <1>1 DEF Emptied

\* A buffer is in finitely many places.
LEMMA PlacesFinite ==
  ASSUME NEW f \in [Slot -> FrameInfo], NEW S \in SUBSET Slot, NEW b
  PROVE  /\ IsFiniteSet(Places(f, S, b))
         /\ Cardinality(Places(f, S, b)) \in Nat
<1> DEFINE J(s) == {j \in DOMAIN f[s].PacketQueue : f[s].PacketQueue[j].buf = b}
           P(s) == {<<s, i>> : i \in J(s)}
<1>1. ASSUME NEW s \in S
      PROVE  IsFiniteSet(P(s))
  <2>1. f[s].PacketQueue \in Seq(Entry)
    BY DEF FrameInfo
  <2>2. /\ DOMAIN f[s].PacketQueue = 1 .. Len(f[s].PacketQueue)
        /\ Len(f[s].PacketQueue) \in Nat
    BY <2>1, LenProperties
  <2>3. IsFiniteSet(1 .. Len(f[s].PacketQueue))
    BY <2>2, FS_Interval
  <2>4. IsFiniteSet(J(s))
    BY <2>2, <2>3, FS_Subset
  <2> DEFINE h == [i \in J(s) |-> <<s, i>>]
  <2>5. h \in Surjection(J(s), P(s))
    BY DEF Surjection
  <2> QED
    BY <2>4, <2>5, FS_Surjection
<1> DEFINE g == [s \in S |-> P(s)]
           Q == {P(s) : s \in S}
<1>2. g \in Surjection(S, Q)
  <2> HIDE DEF P
  <2>1. g \in [S -> Q]
    OBVIOUS
  <2>2. \A y \in Q : \E s \in S : g[s] = y
    OBVIOUS
  <2> HIDE DEF g, Q
  <2> QED
    BY <2>1, <2>2 DEF Surjection
<1>3. IsFiniteSet(S)
  BY OrganizerAssumption, FS_Subset
<1>4. IsFiniteSet(Q)
  BY <1>2, <1>3, FS_Surjection
<1>5. \A q \in Q : IsFiniteSet(q)
  BY <1>1
<1>6. IsFiniteSet(UNION Q)
  BY <1>4, <1>5, FS_UNION
<1>7. Places(f, S, b) = UNION Q
  BY DEF Places
<1> QED
  BY <1>6, <1>7, FS_CardinalityType

LEMMA FreeAllType ==
  ASSUME TypeOK, NEW f \in [Slot -> FrameInfo], NEW S \in SUBSET Slot, NEW extra
  PROVE  FreeAll(f, S, extra) \in [Buf -> Nat]
<1>1. ASSUME NEW b \in Buf
      PROVE  rtpRecvBufList[b] + Cardinality(Places(f, S, b))
               + (IF b \in extra THEN 1 ELSE 0) \in Nat
  BY PlacesFinite DEF TypeOK
<1> QED
  BY <1>1 DEF FreeAll

\* The gaps of a queue that is not empty are a number of packets.
LEMMA GapsInType ==
  ASSUME NEW q \in Seq(Entry), q # <<>>
  PROVE  GapsIn(q) \in Nat
<1>1. Len(q) \in Nat /\ 1 \in 1 .. Len(q) /\ Len(q) \in 1 .. Len(q)
  BY LenProperties, EmptySeq
<1>2. q[1].usSeq \in Int /\ q[Len(q)].usSeq \in Int
  BY <1>1, ElementOfSeq, EntrySeq
<1> DEFINE n == (q[Len(q)].usSeq - q[1].usSeq + 1) % SeqSpace
<1>3. n \in Nat
  BY <1>2, OrganizerAssumption
<1> HIDE DEF n
<1>4. (IF n > Len(q) THEN n - Len(q) ELSE 0) \in Nat
  BY <1>1, <1>3
<1> QED
  BY <1>4 DEF GapsIn, n

-----------------------------------------------------------------------------
(* The invariant, action by action.                                        *)

LEMMA NewFrameType ==
  NewFrame \in FrameInfo /\ NewFrame.PacketQueue = <<>>
<1>1. <<>> \in Seq(Entry)
  BY EmptySeq
<1> QED
  BY <1>1 DEF NewFrame, FrameInfo

LEMMA InitOrganizerInv == Init => OrganizerInv
<1> SUFFICES ASSUME Init
             PROVE  OrganizerInv
  OBVIOUS
<1>1. <<>> \in Seq(SeqNum)
  BY EmptySeq
<1>2. NewStatistics \in Statistics /\ NoDelivery \in Delivery
  BY <1>1 DEF NewStatistics, Statistics, NoDelivery, Delivery
<1>3. TypeOK
  BY <1>2, NewFrameType DEF Init, TypeOK
<1>4. SlotsPartitioned /\ QueuesWellFormed
  BY DEF Init, SlotsPartitioned, QueuesWellFormed
<1>5. ClosedIsEmpty
  BY NewFrameType DEF Init, ClosedIsEmpty
<1> QED
  BY <1>3, <1>4, <1>5 DEF OrganizerInv

LEMMA CreateInv ==
  ASSUME OrganizerInv, NEW c \in Conn, Create(c)
  PROVE  OrganizerInv'
<1> USE DEF OrganizerInv, Create
<1>0. <<>> \in Seq(SeqNum)
  BY EmptySeq
<1>1. NewStatistics \in Statistics /\ NoDelivery \in Delivery
  BY <1>0 DEF NewStatistics, Statistics, NoDelivery, Delivery
<1>2. TypeOK'
  BY <1>1, NewFrameType DEF TypeOK
<1>3. \A d \in open' : d = c \/ d \in open
  OBVIOUS
<1>4. /\ rtpFrameMap'[c] = {} /\ rtpFrameFreeList'[c] = Slot
      /\ frame'[c] = [s \in Slot |-> NewFrame]
  BY DEF TypeOK, ClosedIsEmpty
<1>5. \A d \in Conn \ {c} :
        /\ rtpFrameMap'[d] = rtpFrameMap[d]
        /\ rtpFrameFreeList'[d] = rtpFrameFreeList[d]
        /\ frame'[d] = frame[d]
  BY DEF TypeOK
<1>6. SlotsPartitioned'
  BY <1>3, <1>4, <1>5 DEF SlotsPartitioned, TypeOK
<1>7. QueuesWellFormed'
  <2> SUFFICES ASSUME NEW d \in open'
               PROVE  QueuesWellFormed!(d)'
    BY DEF QueuesWellFormed
  <2>1. CASE d = c
    BY <1>4, <2>1, NewFrameType
  <2>2. CASE d # c
    BY <1>3, <1>5, <2>2 DEF QueuesWellFormed, TypeOK
  <2> QED
    BY <2>1, <2>2
<1>8. ClosedIsEmpty'
  BY <1>5 DEF ClosedIsEmpty, TypeOK
<1> QED
  BY <1>2, <1>6, <1>7, <1>8

LEMMA DestroyInv ==
  ASSUME OrganizerInv, NEW c \in Conn, Destroy(c)
  PROVE  OrganizerInv'
<1> USE DEF OrganizerInv, Destroy
<1>1. rtpRecvBufList' \in [Buf -> Nat]
  BY FreeAllType DEF TypeOK
<1>2. TypeOK'
  BY <1>1, NewFrameType DEF TypeOK
<1>3. \A d \in Conn \ {c} :
        /\ rtpFrameMap'[d] = rtpFrameMap[d]
        /\ rtpFrameFreeList'[d] = rtpFrameFreeList[d]
        /\ frame'[d] = frame[d]
  BY DEF TypeOK
<1>4. rtpFrameMap'[c] = {} /\ frame'[c] = [s \in Slot |-> NewFrame]
  BY DEF TypeOK
<1>5. SlotsPartitioned'
  BY <1>3 DEF SlotsPartitioned, TypeOK
<1>6. QueuesWellFormed'
  BY <1>3 DEF QueuesWellFormed, TypeOK
<1>7. ClosedIsEmpty'
  BY <1>3, <1>4, NewFrameType DEF ClosedIsEmpty, TypeOK
<1> QED
  BY <1>2, <1>5, <1>6, <1>7

LEMMA GetBufferInv ==
  ASSUME OrganizerInv, NEW c \in Conn, NEW p \in Fragment \cup {OtherPacket},
         GetBuffer(c, p)
  PROVE  OrganizerInv'
<1> USE DEF OrganizerInv, GetBuffer
<1>1. PICK b \in Buf :
        /\ rtpRecvBufList[b] > 0
        /\ rtpRecvBufList' = [rtpRecvBufList EXCEPT ![b] = @ - 1]
        /\ inHand' = [inHand EXCEPT ![c] = [buf |-> b, pkt |-> p]]
  OBVIOUS
<1>2. rtpRecvBufList' \in [Buf -> Nat]
  BY <1>1 DEF TypeOK
<1>3. inHand' \in [Conn -> [buf : Buf, pkt : Fragment \cup {OtherPacket}]
                            \cup {Nothing}]
  BY <1>1 DEF TypeOK
<1>4. TypeOK'
  BY <1>2, <1>3 DEF TypeOK
<1>5. SlotsPartitioned' /\ QueuesWellFormed'
  BY DEF SlotsPartitioned, QueuesWellFormed
<1>6. ClosedIsEmpty'
  BY <1>1 DEF ClosedIsEmpty, TypeOK
<1> QED
  BY <1>4, <1>5, <1>6

LEMMA HandleOtherInv ==
  ASSUME OrganizerInv, NEW c \in Conn, HandleOther(c)
  PROVE  OrganizerInv'
<1> USE DEF OrganizerInv, HandleOther
<1>1. rtpRecvBufList' \in [Buf -> Nat]
  BY FreeAllType DEF TypeOK
<1>2. PICK n \in {0, 1} : stat' = [stat EXCEPT ![c].total = @ + n]
  OBVIOUS
<1>3. stat' \in [Conn -> Statistics]
  <2>1. stat[c] \in Statistics
    BY DEF TypeOK
  <2>2. [stat[c] EXCEPT !.total = @ + n] \in Statistics
    BY <2>1 DEF Statistics
  <2>3. stat' = [stat EXCEPT ![c] = [stat[c] EXCEPT !.total = @ + n]]
    BY <1>2
  <2> QED
    BY <2>2, <2>3 DEF TypeOK
<1>4. TypeOK'
  BY <1>1, <1>3 DEF TypeOK
<1>5. SlotsPartitioned' /\ QueuesWellFormed'
  BY DEF SlotsPartitioned, QueuesWellFormed
<1>6. ClosedIsEmpty'
  BY DEF ClosedIsEmpty, TypeOK
<1> QED
  BY <1>4, <1>5, <1>6

-----------------------------------------------------------------------------
(* The three steps that handle a fragment.                                 *)

\* The two properties for one organizer: inUse and free are its map and its
\* free list, f its frame objects.
FramesOK(f, inUse, free) ==
  /\ inUse \cup free = Slot
  /\ inUse \cap free = {}
  /\ \A s \in inUse : f[s].PacketQueue # <<>> /\ Sorted(f[s].PacketQueue)
  /\ \A s, u \in inUse : f[s].unTimestamp = f[u].unTimestamp => s = u
  /\ \A s \in free : f[s].PacketQueue = <<>>

LEMMA FramesOKHolds ==
  ASSUME SlotsPartitioned, QueuesWellFormed, NEW c \in open
  PROVE  FramesOK(frame[c], rtpFrameMap[c], rtpFrameFreeList[c])
BY DEF SlotsPartitioned, QueuesWellFormed, FramesOK, Sorted

\* It is enough to look at the connection that took the step.
LEMMA OneOrganizer ==
  ASSUME OrganizerInv, NEW c \in open, TypeOK', open' = open,
         \A d \in Conn \ {c} : /\ rtpFrameMap'[d] = rtpFrameMap[d]
                               /\ rtpFrameFreeList'[d] = rtpFrameFreeList[d]
                               /\ frame'[d] = frame[d]
                               /\ inHand'[d] = inHand[d],
         FramesOK(frame'[c], rtpFrameMap'[c], rtpFrameFreeList'[c])
  PROVE  OrganizerInv'
<1> USE DEF OrganizerInv
<1>1. open \subseteq Conn
  BY DEF TypeOK
<1>2. SlotsPartitioned'
  <2> SUFFICES ASSUME NEW d \in open'
               PROVE  SlotsPartitioned!(d)'
    BY DEF SlotsPartitioned
  <2>1. CASE d = c
    BY <2>1 DEF FramesOK
  <2>2. CASE d # c
    BY <1>1, <2>2 DEF SlotsPartitioned
  <2> QED
    BY <2>1, <2>2
<1>3. QueuesWellFormed'
  <2> SUFFICES ASSUME NEW d \in open'
               PROVE  QueuesWellFormed!(d)'
    BY DEF QueuesWellFormed
  <2>1. CASE d = c
    BY <2>1 DEF FramesOK, Sorted
  <2>2. CASE d # c
    BY <1>1, <2>2 DEF QueuesWellFormed
  <2> QED
    BY <2>1, <2>2
<1>4. ClosedIsEmpty'
  BY <1>1 DEF ClosedIsEmpty
<1> QED
  BY <1>2, <1>3, <1>4

\* An insertion keeps the organizer in order.
LEMMA InsertKeeps ==
  ASSUME OrganizerInv, NEW c \in Conn, HasFragment(c), NEW s, Target(c, s)
  PROVE  /\ s \in Slot
         /\ Inserted(c, s) \in [Slot -> FrameInfo]
         /\ FramesOK(Inserted(c, s), rtpFrameMap[c] \cup {s},
                     rtpFrameFreeList[c] \ {s})
<1> DEFINE after == Inserted(c, s)
           q == frame[c][s].PacketQueue
<1>1. /\ c \in open /\ TypeOK
      /\ FramesOK(frame[c], rtpFrameMap[c], rtpFrameFreeList[c])
  BY FramesOKHolds DEF OrganizerInv, HasFragment
<1>2. s \in Slot
  BY <1>1 DEF Target, SameTimestamp, TypeOK
<1>3. /\ after \in [Slot -> FrameInfo]
      /\ \A u \in Slot \ {s} : after[u] = frame[c][u]
      /\ after[s].PacketQueue = Insert(q, EntryInHand(c))
      /\ after[s].unTimestamp = (IF s \in rtpFrameMap[c]
                                 THEN frame[c][s].unTimestamp
                                 ELSE inHand[c].pkt.unTimestamp)
  BY <1>1, <1>2, InsertedShape
<1>4. q \in Seq(Entry) /\ EntryInHand(c) \in Entry
  BY <1>1, <1>2, InHandType DEF TypeOK, FrameInfo, HasFragment
<1>5. Sorted(q)
  <2>1. CASE s \in rtpFrameMap[c]
    BY <1>1, <2>1 DEF FramesOK
  <2>2. CASE s \notin rtpFrameMap[c]
    <3>1. q = <<>>
      BY <1>1, <1>2, <2>2 DEF FramesOK
    <3> QED
      BY <3>1 DEF Sorted
  <2> QED
    BY <2>1, <2>2
<1>6. after[s].PacketQueue # <<>> /\ Sorted(after[s].PacketQueue)
  BY <1>3, <1>4, <1>5, InsertType
<1> HIDE DEF after
<1>7. rtpFrameMap[c] \subseteq Slot /\ rtpFrameFreeList[c] \subseteq Slot
  BY <1>1 DEF TypeOK
<1>8. ASSUME NEW u \in rtpFrameMap[c], u # s
      PROVE  after[u].unTimestamp # after[s].unTimestamp
  <2>1. after[u].unTimestamp = frame[c][u].unTimestamp
    BY <1>3, <1>7, <1>8
  <2>2. CASE s \in rtpFrameMap[c]
    BY <1>1, <1>3, <1>8, <2>1, <2>2 DEF FramesOK
  <2>3. CASE s \notin rtpFrameMap[c]
    <3>1. frame[c][u].unTimestamp # inHand[c].pkt.unTimestamp
      BY <2>3 DEF Target, SameTimestamp
    <3> QED
      BY <1>3, <2>1, <2>3, <3>1
  <2> QED
    BY <2>2, <2>3
<1>9. ASSUME NEW t \in rtpFrameMap[c] \cup {s}, NEW u \in rtpFrameMap[c] \cup {s},
             after[t].unTimestamp = after[u].unTimestamp
      PROVE  t = u
  <2>1. CASE t = s \/ u = s
    BY <1>8, <1>9, <2>1
  <2>2. CASE t # s /\ u # s
    BY <1>1, <1>3, <1>7, <1>9, <2>2 DEF FramesOK
  <2> QED
    BY <2>1, <2>2
<1>10. \A u \in (rtpFrameMap[c] \cup {s}) \ {s} :
         after[u].PacketQueue # <<>> /\ Sorted(after[u].PacketQueue)
  BY <1>1, <1>3, <1>7 DEF FramesOK
<1>11. \A u \in rtpFrameFreeList[c] \ {s} : after[u].PacketQueue = <<>>
  BY <1>1, <1>3, <1>7 DEF FramesOK
<1>12. /\ (rtpFrameMap[c] \cup {s}) \cup (rtpFrameFreeList[c] \ {s}) = Slot
       /\ (rtpFrameMap[c] \cup {s}) \cap (rtpFrameFreeList[c] \ {s}) = {}
  BY <1>1, <1>2 DEF FramesOK
<1>13. FramesOK(after, rtpFrameMap[c] \cup {s}, rtpFrameFreeList[c] \ {s})
  BY <1>6, <1>9, <1>10, <1>11, <1>12 DEF FramesOK
<1> QED
  BY <1>2, <1>3, <1>13 DEF after

\* Releasing a frame keeps the organizer in order.
LEMMA ReleaseKeeps ==
  ASSUME NEW f \in [Slot -> FrameInfo], NEW inUse, NEW free,
         FramesOK(f, inUse, free), NEW small \in inUse
  PROVE  /\ Emptied(f, {small}) \in [Slot -> FrameInfo]
         /\ FramesOK(Emptied(f, {small}), inUse \ {small}, free \cup {small})
<1>1. small \in Slot /\ inUse \cup free = Slot /\ inUse \cap free = {}
  BY DEF FramesOK
<1> DEFINE g == Emptied(f, {small})
<1>2. /\ g \in [Slot -> FrameInfo]
      /\ \A u \in Slot \ {small} : g[u] = f[u]
      /\ g[small].PacketQueue = <<>>
  BY <1>1, EmptiedShape
<1> HIDE DEF g
<1>3. FramesOK(g, inUse \ {small}, free \cup {small})
  <2>1. /\ (inUse \ {small}) \cup (free \cup {small}) = Slot
        /\ (inUse \ {small}) \cap (free \cup {small}) = {}
    BY <1>1
  <2>2. \A u \in inUse \ {small} : g[u] = f[u]
    BY <1>1, <1>2
  <2>3. \A u \in free \cup {small} : g[u].PacketQueue = <<>>
    BY <1>1, <1>2 DEF FramesOK
  <2> QED
    BY <2>1, <2>2, <2>3 DEF FramesOK
<1> QED
  BY <1>2, <1>3 DEF g

LEMMA CountedType ==
  ASSUME TypeOK, NEW c \in Conn, NEW s
  PROVE  Counted(c, s) \in [Conn -> Statistics]
<1> DEFINE d == IF InOrder(Prepared(c, s).PacketQueue, inHand[c].pkt) THEN 0 ELSE 1
           t == [stat[c] EXCEPT !.total = @ + 2, !.disorder = @ + d]
<1>1. d \in Nat
  OBVIOUS
<1> HIDE DEF d
<1>2. stat[c] \in Statistics
  BY DEF TypeOK
<1>3. t \in Statistics
  <2> DEFINE u == [stat[c] EXCEPT !.total = @ + 2]
  <2>1. u \in Statistics
    BY <1>2 DEF Statistics
  <2>2. t = [u EXCEPT !.disorder = @ + d]
    BY <1>2 DEF Statistics
  <2> HIDE DEF t, u
  <2> QED
    BY <1>1, <2>1, <2>2 DEF Statistics
<1>4. Counted(c, s) = [stat EXCEPT ![c] = t]
  BY DEF Counted, d
<1> QED
  BY <1>3, <1>4 DEF TypeOK

\* What a delivery hands over is a sequence of numbers.
LEMMA SeqsType ==
  ASSUME NEW q \in Seq(Entry)
  PROVE  Seqs(q) \in Seq(SeqNum)
<1>1. DOMAIN q = 1 .. Len(q) /\ Len(q) \in Nat
  BY LenProperties
<1>2. ASSUME NEW i \in 1 .. Len(q)
      PROVE  q[i].usSeq \in SeqNum
  <2>1. q[i] \in Entry
    BY ElementOfSeq
  <2> QED
    BY <2>1 DEF Entry
<1>3. Seqs(q) \in [1 .. Len(q) -> SeqNum]
  BY <1>1, <1>2 DEF Seqs
<1> QED
  BY <1>1, <1>3

LEMMA InsertAndHoldInv ==
  ASSUME OrganizerInv, NEW c \in Conn, NEW s \in Slot, InsertAndHold(c, s)
  PROVE  OrganizerInv'
<1> USE DEF InsertAndHold
<1>1. /\ TypeOK /\ c \in open /\ open' = open
      /\ frame' = [frame EXCEPT ![c] = Inserted(c, s)]
      /\ rtpFrameMap' = [rtpFrameMap EXCEPT ![c] = rtpFrameMap[c] \cup {s}]
      /\ rtpFrameFreeList' = [rtpFrameFreeList EXCEPT ![c] = rtpFrameFreeList[c] \ {s}]
      /\ inHand' = [inHand EXCEPT ![c] = Nothing]
      /\ stat' = Counted(c, s)
      /\ rtpRecvBufList' = rtpRecvBufList /\ delivered' = delivered
  BY DEF HasFragment, OrganizerInv
<1>2. /\ Inserted(c, s) \in [Slot -> FrameInfo]
      /\ FramesOK(Inserted(c, s), rtpFrameMap[c] \cup {s}, rtpFrameFreeList[c] \ {s})
  BY InsertKeeps
<1>3. stat' \in [Conn -> Statistics]
  BY <1>1, CountedType
<1>4. TypeOK'
  <2> HIDE DEF InsertAndHold
  <2>1. rtpFrameMap[c] \cup {s} \subseteq Slot /\ rtpFrameFreeList[c] \ {s} \subseteq Slot
    BY <1>1 DEF TypeOK
  <2>2. /\ rtpFrameMap' \in [Conn -> SUBSET Slot]
        /\ rtpFrameFreeList' \in [Conn -> SUBSET Slot]
        /\ frame' \in [Conn -> [Slot -> FrameInfo]]
    BY <1>1, <1>2, <2>1 DEF TypeOK
  <2>3. inHand' \in [Conn -> [buf : Buf, pkt : Fragment \cup {OtherPacket}]
                              \cup {Nothing}]
    BY <1>1 DEF TypeOK
  <2> QED
    BY <1>1, <1>3, <2>2, <2>3 DEF TypeOK
<1>5. /\ frame'[c] = Inserted(c, s)
      /\ rtpFrameMap'[c] = rtpFrameMap[c] \cup {s}
      /\ rtpFrameFreeList'[c] = rtpFrameFreeList[c] \ {s}
  BY <1>1 DEF TypeOK
<1>6. \A d \in Conn \ {c} : /\ rtpFrameMap'[d] = rtpFrameMap[d]
                            /\ rtpFrameFreeList'[d] = rtpFrameFreeList[d]
                            /\ frame'[d] = frame[d]
                            /\ inHand'[d] = inHand[d]
  BY <1>1 DEF TypeOK
<1>7. FramesOK(frame'[c], rtpFrameMap'[c], rtpFrameFreeList'[c])
  BY <1>2, <1>5
<1> QED
  BY <1>1, <1>4, <1>6, <1>7, OneOrganizer

\* A step that releases frame small of the frame objects f.
LEMMA ReleasingInv ==
  ASSUME OrganizerInv, NEW c \in open, open' = open,
         NEW f \in [Slot -> FrameInfo], NEW inUse, NEW free, NEW extra,
         FramesOK(f, inUse, free), NEW small \in inUse,
         ReleaseRtpPacket(c, f, inUse, free, small, extra),
         inHand' = [inHand EXCEPT ![c] = Nothing],
         stat' \in [Conn -> Statistics],
         delivered' \in [Conn -> Delivery]
  PROVE  OrganizerInv'
<1>1. TypeOK /\ c \in Conn
  BY DEF OrganizerInv, TypeOK
<1>2. /\ Emptied(f, {small}) \in [Slot -> FrameInfo]
      /\ FramesOK(Emptied(f, {small}), inUse \ {small}, free \cup {small})
  BY ReleaseKeeps
<1>3. inUse \subseteq Slot /\ free \cup {small} \subseteq Slot
  BY DEF FramesOK
<1>4. rtpRecvBufList' \in [Buf -> Nat]
  BY <1>1, <1>3, FreeAllType DEF ReleaseRtpPacket
<1>5. /\ frame' = [frame EXCEPT ![c] = Emptied(f, {small})]
      /\ rtpFrameMap' = [rtpFrameMap EXCEPT ![c] = inUse \ {small}]
      /\ rtpFrameFreeList' = [rtpFrameFreeList EXCEPT ![c] = free \cup {small}]
  BY DEF ReleaseRtpPacket
<1>6. TypeOK'
  BY <1>1, <1>2, <1>3, <1>4, <1>5 DEF TypeOK
<1>7. /\ frame'[c] = Emptied(f, {small})
      /\ rtpFrameMap'[c] = inUse \ {small}
      /\ rtpFrameFreeList'[c] = free \cup {small}
  BY <1>1, <1>5 DEF TypeOK
<1>8. \A d \in Conn \ {c} : /\ rtpFrameMap'[d] = rtpFrameMap[d]
                            /\ rtpFrameFreeList'[d] = rtpFrameFreeList[d]
                            /\ frame'[d] = frame[d]
                            /\ inHand'[d] = inHand[d]
  BY <1>1, <1>5 DEF TypeOK
<1>9. FramesOK(frame'[c], rtpFrameMap'[c], rtpFrameFreeList'[c])
  BY <1>2, <1>7
<1> QED
  BY <1>6, <1>8, <1>9, OneOrganizer

LEMMA InsertAndDeliverInv ==
  ASSUME OrganizerInv, NEW c \in Conn, NEW s \in Slot, InsertAndDeliver(c, s)
  PROVE  OrganizerInv'
<1> USE DEF InsertAndDeliver
<1> DEFINE inUse == rtpFrameMap[c] \cup {s}
           free == rtpFrameFreeList[c] \ {s}
           after == Inserted(c, s)
           small == SmallFrame(inUse, after)
<1>1. /\ TypeOK /\ c \in open /\ open' = open
      /\ HasFragment(c) /\ Target(c, s)
      /\ delivered' = [delivered EXCEPT ![c] =
                         [unTimestamp |-> after[small].unTimestamp,
                          seqs |-> Seqs(after[small].PacketQueue)]]
      /\ ReleaseRtpPacket(c, after, inUse, free, small, {})
      /\ inHand' = [inHand EXCEPT ![c] = Nothing]
      /\ stat' = Counted(c, s)
  BY DEF HasFragment, OrganizerInv
<1>2. after \in [Slot -> FrameInfo] /\ FramesOK(after, inUse, free)
  BY <1>1, InsertKeeps
<1>3. stat' \in [Conn -> Statistics]
  BY <1>1, CountedType
<1> HIDE DEF after
<1>4. inUse \in SUBSET Slot /\ inUse # {}
  BY <1>1 DEF TypeOK
<1> HIDE DEF inUse, free
<1>5. small \in inUse /\ small \in Slot
  BY <1>2, <1>4, SmallFrameExists
<1> HIDE DEF small
<1>6. delivered' \in [Conn -> Delivery]
  <2>1. after[small].unTimestamp \in Nat /\ after[small].PacketQueue \in Seq(Entry)
    BY <1>2, <1>5 DEF FrameInfo
  <2>2. Seqs(after[small].PacketQueue) \in Seq(SeqNum)
    BY <2>1, SeqsType
  <2> QED
    BY <1>1, <2>1, <2>2 DEF TypeOK, Delivery
<1> QED
  BY <1>1, <1>2, <1>3, <1>5, <1>6, ReleasingInv

LEMMA EvictInv ==
  ASSUME OrganizerInv, NEW c \in Conn, Evict(c)
  PROVE  OrganizerInv'
<1> USE DEF Evict
<1> DEFINE small == SmallFrame(rtpFrameMap[c], frame[c])
           gaps == GapsIn(frame[c][small].PacketQueue)
           t == [stat[c] EXCEPT !.total = @ + 2, !.lostFrames = @ + 1,
                                !.lostPackets = @ + gaps]
<1>1. /\ TypeOK /\ c \in open /\ open' = open
      /\ frame[c] \in [Slot -> FrameInfo]
      /\ rtpFrameFreeList[c] = {}
      /\ FramesOK(frame[c], rtpFrameMap[c], {})
  BY FramesOKHolds DEF HasFragment, OrganizerInv, TypeOK
<1>2. rtpFrameMap[c] = Slot /\ Slot # {}
  BY <1>1, OrganizerAssumption DEF FramesOK
<1>3. small \in rtpFrameMap[c]
  BY <1>1, <1>2, SmallFrameExists
<1>4. /\ ReleaseRtpPacket(c, frame[c], rtpFrameMap[c], {}, small, {inHand[c].buf})
      /\ stat' = [stat EXCEPT ![c] = t]
      /\ inHand' = [inHand EXCEPT ![c] = Nothing]
      /\ delivered' = delivered
  OBVIOUS
<1> HIDE DEF small, Evict
<1>5. gaps \in Nat
  <2>1. /\ frame[c][small].PacketQueue \in Seq(Entry)
        /\ frame[c][small].PacketQueue # <<>>
    BY <1>1, <1>2, <1>3 DEF FramesOK, FrameInfo
  <2> QED
    BY <2>1, GapsInType
<1> HIDE DEF gaps
<1>6. stat' \in [Conn -> Statistics]
  <2>1. stat[c] \in Statistics
    BY <1>1 DEF TypeOK
  <2> DEFINE u == [stat[c] EXCEPT !.total = @ + 2]
             v == [u EXCEPT !.lostFrames = @ + 1]
  <2>2. u \in Statistics
    BY <2>1 DEF Statistics
  <2>3. t = [v EXCEPT !.lostPackets = @ + gaps]
    BY <2>1 DEF Statistics
  <2> HIDE DEF t, u
  <2>4. v \in Statistics
    BY <2>2 DEF Statistics
  <2> HIDE DEF v
  <2>5. t \in Statistics
    BY <1>5, <2>3, <2>4 DEF Statistics
  <2> QED
    BY <1>1, <1>4, <2>5 DEF TypeOK, t
<1>7. delivered' \in [Conn -> Delivery]
  BY <1>1, <1>4 DEF TypeOK
<1> QED
  BY <1>1, <1>3, <1>4, <1>6, <1>7, ReleasingInv

LEMMA NextOrganizerInv ==
  ASSUME OrganizerInv, [Next]_vars
  PROVE  OrganizerInv'
<1>1. ASSUME NEW c \in Conn, Create(c)
      PROVE  OrganizerInv'
  BY <1>1, CreateInv
<1>2. ASSUME NEW c \in Conn, Destroy(c)
      PROVE  OrganizerInv'
  BY <1>2, DestroyInv
<1>3. ASSUME NEW c \in Conn, NEW p \in Fragment \cup {OtherPacket}, GetBuffer(c, p)
      PROVE  OrganizerInv'
  BY <1>3, GetBufferInv
<1>4. ASSUME NEW c \in Conn, HandleOther(c)
      PROVE  OrganizerInv'
  BY <1>4, HandleOtherInv
<1>5. ASSUME NEW c \in Conn, NEW s \in Slot, InsertAndHold(c, s)
      PROVE  OrganizerInv'
  BY <1>5, InsertAndHoldInv
<1>6. ASSUME NEW c \in Conn, NEW s \in Slot, InsertAndDeliver(c, s)
      PROVE  OrganizerInv'
  BY <1>6, InsertAndDeliverInv
<1>7. ASSUME NEW c \in Conn, Evict(c)
      PROVE  OrganizerInv'
  BY <1>7, EvictInv
<1>8. CASE UNCHANGED vars
  BY <1>8 DEF vars, OrganizerInv, TypeOK, SlotsPartitioned, QueuesWellFormed, ClosedIsEmpty
<1> QED
  BY <1>1, <1>2, <1>3, <1>4, <1>5, <1>6, <1>7, <1>8 DEF Next, Handle

THEOREM OrganizerInvariant == Spec => []OrganizerInv
<1>1. Init => OrganizerInv
  BY InitOrganizerInv
<1>2. OrganizerInv /\ [Next]_vars => OrganizerInv'
  BY NextOrganizerInv
<1> QED
  BY <1>1, <1>2, PTL DEF Spec

\* Every variable keeps its type: in particular the counters never go below
\* zero, no buffer is taken from an empty list, and the eviction always finds
\* a frame to evict, for any number of frame objects and any packets.
THEOREM TypeCorrect == Spec => []TypeOK
<1>1. OrganizerInv => TypeOK
  BY DEF OrganizerInv
<1> QED
  BY <1>1, OrganizerInvariant, PTL

\* The map and the free list of an organizer partition its frame objects.
THEOREM SlotsArePartitioned == Spec => []SlotsPartitioned
<1>1. OrganizerInv => SlotsPartitioned
  BY DEF OrganizerInv
<1> QED
  BY <1>1, OrganizerInvariant, PTL

\* Frames in use are sorted, not empty and have different timestamps; free
\* frame objects are empty.
THEOREM QueuesAreWellFormed == Spec => []QueuesWellFormed
<1>1. OrganizerInv => QueuesWellFormed
  BY DEF OrganizerInv
<1> QED
  BY <1>1, OrganizerInvariant, PTL

-----------------------------------------------------------------------------
(* The buffers.  BuffersOwnedOnce counts; the proof follows one buffer     *)
(* instead.  Owned lists the three places a buffer may be in, each of the  *)
(* first lemmas is one way a buffer changes hands, and each action of the  *)
(* model is one or two of them.                                            *)

\* The pool has the buffer n times, the threads H have it in hand, and P[c] are
\* its places in the frames of connection c.
Owned(n, H, P) ==
  \/ /\ n = 1 /\ H = {}
     /\ \A c \in Conn : P[c] = {}
  \/ /\ n = 0 /\ \E c \in Conn : H = {c}
     /\ \A c \in Conn : P[c] = {}
  \/ /\ n = 0 /\ H = {}
     /\ \E c \in Conn : /\ \E x : P[c] = {x}
                        /\ \A d \in Conn \ {c} : P[d] = {}

InFrames(b) == [c \in Conn |-> Places(frame[c], Slot, b)]

OwnedOnce ==
  \A b \in Buf : Owned(rtpRecvBufList[b], Holders(b), InFrames(b))

-----------------------------------------------------------------------------
(* How a buffer changes hands.                                             *)

LEMMA Take ==
  ASSUME NEW n, NEW H, NEW P, Owned(n, H, P), n > 0, NEW c \in Conn
  PROVE  Owned(n - 1, {c}, P)
BY DEF Owned

LEMMA GiveBack ==
  ASSUME NEW n, NEW H, NEW P, Owned(n, H, P), NEW c \in H
  PROVE  Owned(n + 1, H \ {c}, P)
BY DEF Owned

LEMMA PutIntoFrame ==
  ASSUME NEW n, NEW H, NEW P \in [Conn -> SUBSET (Slot \X Nat)], Owned(n, H, P),
         NEW c \in Conn, c \in H, NEW Q, P[c] = {} => \E x : Q = {x}
  PROVE  Owned(n, H \ {c}, [P EXCEPT ![c] = Q])
<1>1. n = 0 /\ H = {c} /\ \A d \in Conn : P[d] = {}
  BY DEF Owned
<1>2. \E x : [P EXCEPT ![c] = Q][c] = {x}
  BY <1>1
<1>3. \A d \in Conn \ {c} : [P EXCEPT ![c] = Q][d] = {}
  BY <1>1
<1> QED
  BY <1>1, <1>2, <1>3 DEF Owned

\* The other buffers of a queue move, but stay in the queue.
LEMMA Move ==
  ASSUME NEW n, NEW H, NEW P \in [Conn -> SUBSET (Slot \X Nat)], Owned(n, H, P),
         NEW c \in Conn, NEW Q,
         P[c] = {} => Q = {},
         \A x : P[c] = {x} => \E y : Q = {y}
  PROVE  Owned(n, H, [P EXCEPT ![c] = Q])
<1> DEFINE R == [P EXCEPT ![c] = Q]
<1>1. R[c] = Q /\ \A d \in Conn \ {c} : R[d] = P[d]
  OBVIOUS
<1> HIDE DEF R
<1>2. CASE \A d \in Conn : P[d] = {}
  <2>1. \A d \in Conn : R[d] = {}
    BY <1>1, <1>2
  <2>2. ~ \E d \in Conn : \E x : P[d] = {x}
    BY <1>2
  <2> QED
    BY <2>1, <2>2 DEF Owned, R
<1>3. CASE \E d \in Conn : /\ \E x : P[d] = {x}
                           /\ \A e \in Conn \ {d} : P[e] = {}
  <2>1. PICK d \in Conn : /\ \E x : P[d] = {x}
                          /\ \A e \in Conn \ {d} : P[e] = {}
    BY <1>3
  <2>2. n = 0 /\ H = {}
    BY <2>1 DEF Owned
  <2>3. /\ \E x : R[d] = {x}
        /\ \A e \in Conn \ {d} : R[e] = {}
    BY <1>1, <2>1
  <2> QED
    BY <2>2, <2>3 DEF Owned, R
<1> QED
  BY <1>2, <1>3 DEF Owned

\* The places X of a connection are freed, the places Y stay.
LEMMA Free ==
  ASSUME NEW n, NEW H, NEW P \in [Conn -> SUBSET (Slot \X Nat)], Owned(n, H, P),
         NEW c \in Conn, NEW X, NEW Y, P[c] = X \cup Y, X \cap Y = {}
  PROVE  Owned(n + Cardinality(X), H, [P EXCEPT ![c] = Y])
<1>1. CASE X = {}
  <2>1. Cardinality(X) = 0 /\ [P EXCEPT ![c] = Y] = P
    BY <1>1, FS_EmptySet
  <2>2. n + 0 = n
    BY DEF Owned
  <2> QED
    BY <2>1, <2>2
<1>2. CASE X # {}
  <2>1. P[c] # {}
    BY <1>2
  <2>2. /\ n = 0 /\ H = {}
        /\ \E x : P[c] = {x}
        /\ \A d \in Conn \ {c} : P[d] = {}
    BY <2>1 DEF Owned
  <2>3. PICK x : P[c] = {x}
    BY <2>2
  <2>4. X = {x} /\ Y = {}
    BY <1>2, <2>3
  <2>5. Cardinality(X) = 1
    BY <2>4, FS_Singleton
  <2>6. \A d \in Conn : [P EXCEPT ![c] = Y][d] = {}
    BY <2>2, <2>4
  <2> QED
    BY <2>2, <2>5, <2>6 DEF Owned
<1> QED
  BY <1>1, <1>2

-----------------------------------------------------------------------------
(* The places of a buffer.                                                 *)

LEMMA PlacesMember ==
  ASSUME NEW f, NEW S, NEW b, NEW x
  PROVE  x \in Places(f, S, b) <=>
           \E s \in S : \E i \in DOMAIN f[s].PacketQueue :
             x = <<s, i>> /\ f[s].PacketQueue[i].buf = b
BY DEF Places

LEMMA PlacesType ==
  ASSUME NEW f \in [Slot -> FrameInfo], NEW b
  PROVE  Places(f, Slot, b) \in SUBSET (Slot \X Nat)
<1>1. ASSUME NEW s \in Slot
      PROVE  DOMAIN f[s].PacketQueue \subseteq Nat
  <2>1. f[s].PacketQueue \in Seq(Entry)
    BY DEF FrameInfo
  <2> QED
    BY <2>1, LenProperties
<1> QED
  BY <1>1, PlacesMember

LEMMA InFramesType ==
  ASSUME TypeOK, NEW b
  PROVE  InFrames(b) \in [Conn -> SUBSET (Slot \X Nat)]
<1>1. ASSUME NEW c \in Conn
      PROVE  Places(frame[c], Slot, b) \in SUBSET (Slot \X Nat)
  BY PlacesType DEF TypeOK
<1> QED
  BY <1>1 DEF InFrames

\* Only frames that are not empty count.
LEMMA PlacesSplit ==
  ASSUME NEW f, NEW b, NEW S, NEW T, S \cup T = Slot, S \cap T = {}
  PROVE  /\ Places(f, Slot, b) = Places(f, S, b) \cup Places(f, T, b)
         /\ Places(f, S, b) \cap Places(f, T, b) = {}
BY DEF Places

LEMMA PlacesEmpty ==
  ASSUME NEW f, NEW b, NEW S, \A s \in S : f[s].PacketQueue = <<>>
  PROVE  Places(f, S, b) = {}
<1>1. DOMAIN <<>> = {}
  BY EmptySeq
<1> QED
  BY <1>1 DEF Places

LEMMA PlacesSame ==
  ASSUME NEW f, NEW g, NEW b, NEW S, \A s \in S : f[s] = g[s]
  PROVE  Places(f, S, b) = Places(g, S, b)
BY DEF Places

\* The places Q of buffer b after the insertion of an entry with buffer a, from
\* the places P before: a is there once more, any other buffer as often.
PlacesAfter(P, Q, b, a) ==
  /\ b = a => (P = {} => \E x : Q = {x})
  /\ b # a => /\ P = {} => Q = {}
              /\ \A x : P = {x} => \E y : Q = {y}

LEMMA PlacesInserted ==
  ASSUME NEW f \in [Slot -> FrameInfo], NEW g, NEW s \in Slot, NEW e \in Entry,
         \A u \in Slot \ {s} : g[u] = f[u],
         g[s].PacketQueue = Insert(f[s].PacketQueue, e),
         NEW b \in Buf
  PROVE  PlacesAfter(Places(f, Slot, b), Places(g, Slot, b), b, e.buf)
<1> DEFINE q == f[s].PacketQueue
           r == g[s].PacketQueue
<1>1. q \in Seq(Entry) /\ Len(q) \in Nat /\ DOMAIN q = 1 .. Len(q)
  <2>1. q \in Seq(Entry)
    BY DEF FrameInfo
  <2> QED
    BY <2>1, LenProperties
<1>2. PICK k \in 1 .. Len(q) + 1 : Insert(q, e) = PutAt(q, k, e)
  BY <1>1, InsertShape
<1>3. /\ DOMAIN r = 1 .. Len(q) + 1
      /\ \A j \in 1 .. Len(q) + 1 :
           r[j] = IF j < k THEN q[j] ELSE IF j = k THEN e ELSE q[j - 1]
  BY <1>1, <1>2, PutAtType DEF PutAt
<1> DEFINE sh(i) == IF i < k THEN i ELSE i + 1
           ush(i) == IF i < k THEN i ELSE i - 1
<1>4. \A i \in 1 .. Len(q) : sh(i) \in 1 .. Len(q) + 1 /\ r[sh(i)] = q[i]
  BY <1>1, <1>2, <1>3
<1>5. \A j \in 1 .. Len(q) + 1 :
        j # k => ush(j) \in 1 .. Len(q) /\ r[j] = q[ush(j)] /\ j = sh(ush(j))
  BY <1>1, <1>2, <1>3
<1>6. r[k] = e
  BY <1>2, <1>3
<1> HIDE DEF r, q, sh, ush
<1>7. \A u \in Slot : \A i : u # s =>
        (<<u, i>> \in Places(g, Slot, b) <=> <<u, i>> \in Places(f, Slot, b))
  BY PlacesMember
<1>8. \A j : <<s, j>> \in Places(g, Slot, b) <=> j \in DOMAIN r /\ r[j].buf = b
  BY PlacesMember DEF r
<1>9. \A j : <<s, j>> \in Places(f, Slot, b) <=> j \in DOMAIN q /\ q[j].buf = b
  BY PlacesMember DEF q
<1>10. \A x \in Places(f, Slot, b) \cup Places(g, Slot, b) :
         x = <<x[1], x[2]>> /\ x[1] \in Slot
  BY PlacesMember
<1>11. ASSUME b = e.buf, Places(f, Slot, b) = {}
       PROVE  Places(g, Slot, b) = {<<s, k>>}
  <2>1. <<s, k>> \in Places(g, Slot, b)
    BY <1>2, <1>3, <1>6, <1>8, <1>11
  <2>2. ASSUME NEW x \in Places(g, Slot, b)
        PROVE  x = <<s, k>>
    <3>1. x = <<x[1], x[2]>> /\ x[1] \in Slot
      BY <1>10
    <3>2. x[1] = s
      BY <1>7, <1>11, <3>1
    <3>3. x[2] \in DOMAIN r /\ r[x[2]].buf = b
      BY <1>8, <3>1, <3>2
    <3>4. x[2] = k
      BY <1>1, <1>3, <1>5, <1>9, <1>11, <3>3
    <3> QED
      BY <3>1, <3>2, <3>4
  <2> QED
    BY <2>1, <2>2
<1>12. ASSUME b # e.buf
       PROVE  \A j \in DOMAIN r : r[j].buf = b => j # k
  BY <1>6, <1>12
<1>13. ASSUME b # e.buf, Places(f, Slot, b) = {}
       PROVE  Places(g, Slot, b) = {}
  <2>1. \A j \in DOMAIN r : r[j].buf # b
    BY <1>1, <1>3, <1>5, <1>9, <1>12, <1>13
  <2> QED
    BY <1>7, <1>8, <1>10, <1>13, <2>1
<1>14. ASSUME b # e.buf, NEW x, Places(f, Slot, b) = {x}
       PROVE  \E y : Places(g, Slot, b) = {y}
  <2>1. x = <<x[1], x[2]>> /\ x[1] \in Slot
    BY <1>10, <1>14
  <2>2. CASE x[1] # s
    <3>1. \A j \in DOMAIN q : q[j].buf # b
      BY <1>9, <1>14, <2>1, <2>2
    <3>2. \A j \in DOMAIN r : r[j].buf # b
      BY <1>1, <1>3, <1>5, <1>12, <1>14, <3>1
    <3>3. Places(g, Slot, b) = {x}
      BY <1>7, <1>8, <1>10, <1>14, <2>1, <2>2, <3>2
    <3> QED
      BY <3>3
  <2>3. CASE x[1] = s
    <3> DEFINE y == <<s, sh(x[2])>>
    <3>1. x[2] \in DOMAIN q /\ q[x[2]].buf = b
      BY <1>9, <1>14, <2>1, <2>3
    <3>2. \A j \in DOMAIN q : q[j].buf = b => j = x[2]
      BY <1>9, <1>14, <2>1, <2>3
    <3>3. y \in Places(g, Slot, b)
      BY <1>1, <1>3, <1>4, <1>8, <3>1
    <3>4. ASSUME NEW z \in Places(g, Slot, b)
          PROVE  z = y
      <4>1. z = <<z[1], z[2]>> /\ z[1] \in Slot
        BY <1>10
      <4>2. z[1] = s
        BY <1>7, <1>14, <2>1, <2>3, <4>1
      <4>3. z[2] \in DOMAIN r /\ r[z[2]].buf = b
        BY <1>8, <4>1, <4>2
      <4>4. ush(z[2]) = x[2] /\ z[2] = sh(ush(z[2]))
        BY <1>1, <1>3, <1>5, <1>12, <1>14, <3>2, <4>3
      <4> QED
        BY <4>1, <4>2, <4>4
    <3> QED
      BY <3>3, <3>4
  <2> QED
    BY <2>2, <2>3
<1> QED
  BY <1>11, <1>13, <1>14 DEF PlacesAfter

-----------------------------------------------------------------------------
(* The actions.                                                            *)

\* What the hands and the frames look like after a step of connection c.
LEMMA HandEmptied ==
  ASSUME TypeOK, NEW c \in Conn, inHand' = [inHand EXCEPT ![c] = Nothing], NEW b
  PROVE  Holders(b)' = Holders(b) \ {c}
BY DEF Holders, TypeOK

LEMMA FrameChanged ==
  ASSUME TypeOK, NEW c \in Conn, NEW g, frame' = [frame EXCEPT ![c] = g], NEW b
  PROVE  InFrames(b)' = [InFrames(b) EXCEPT ![c] = Places(g, Slot, b)]
BY DEF InFrames, TypeOK

LEMMA SamePlaces ==
  ASSUME TypeOK, NEW c \in Conn, NEW b
  PROVE  InFrames(b) = [InFrames(b) EXCEPT ![c] = Places(frame[c], Slot, b)]
BY DEF InFrames

LEMMA CreateOwned ==
  ASSUME OrganizerInv, OwnedOnce, NEW c \in Conn, Create(c)
  PROVE  OwnedOnce'
<1> USE DEF Create
<1> DEFINE g == [s \in Slot |-> NewFrame]
<1>1. ASSUME NEW b \in Buf
      PROVE  InFrames(b)' = InFrames(b)
  <2>1. Places(frame[c], Slot, b) = {} /\ Places(g, Slot, b) = {}
    BY PlacesEmpty, NewFrameType DEF OrganizerInv, ClosedIsEmpty
  <2>2. InFrames(b)' = [InFrames(b) EXCEPT ![c] = Places(g, Slot, b)]
    <3>1. TypeOK /\ frame' = [frame EXCEPT ![c] = g]
      BY DEF OrganizerInv
    <3> HIDE DEF Create, g
    <3> QED
      BY <3>1 DEF InFrames, TypeOK
  <2> QED
    BY <2>1, <2>2, SamePlaces DEF OrganizerInv
<1>2. \A b \in Buf : Holders(b)' = Holders(b)
  BY DEF Holders
<1> QED
  BY <1>1, <1>2 DEF OwnedOnce

LEMMA DestroyOwned ==
  ASSUME OrganizerInv, OwnedOnce, NEW c \in Conn, Destroy(c)
  PROVE  OwnedOnce'
<1> USE DEF Destroy
<1>1. ASSUME NEW b \in Buf
      PROVE  Owned(rtpRecvBufList[b], Holders(b), InFrames(b))'
  <2> DEFINE X == Places(frame[c], rtpFrameMap[c], b)
             g == [s \in Slot |-> NewFrame]
  <2>1. FramesOK(frame[c], rtpFrameMap[c], rtpFrameFreeList[c])
    BY FramesOKHolds DEF OrganizerInv
  <2>2. Places(frame[c], rtpFrameFreeList[c], b) = {}
    BY <2>1, PlacesEmpty DEF FramesOK
  <2>3. Places(frame[c], Slot, b) = X
    <3>1. /\ rtpFrameMap[c] \cup rtpFrameFreeList[c] = Slot
          /\ rtpFrameMap[c] \cap rtpFrameFreeList[c] = {}
      BY <2>1 DEF FramesOK
    <3>2. Places(frame[c], Slot, b) = X \cup Places(frame[c], rtpFrameFreeList[c], b)
      BY <3>1, PlacesSplit
    <3> QED
      BY <2>2, <3>2
  <2>4. Places(g, Slot, b) = {}
    BY PlacesEmpty, NewFrameType
  <2>5. InFrames(b)' = [InFrames(b) EXCEPT ![c] = {}]
    <3>1. InFrames(b)' = [InFrames(b) EXCEPT ![c] = Places(g, Slot, b)]
      <4>1. TypeOK /\ frame' = [frame EXCEPT ![c] = g]
        BY DEF OrganizerInv
      <4> HIDE DEF Destroy, g
      <4> QED
        BY <4>1 DEF InFrames, TypeOK
    <3> HIDE DEF g
    <3> QED
      BY <2>4, <3>1
  <2>6. InFrames(b)[c] = X \cup {} /\ X \cap {} = {}
    BY <2>3 DEF InFrames
  <2>7. rtpRecvBufList'[b] = rtpRecvBufList[b] + Cardinality(X)
    <3>1. rtpRecvBufList'[b] = rtpRecvBufList[b] + Cardinality(X) + 0
      BY DEF FreeAll
    <3>2. Cardinality(X) \in Nat /\ rtpRecvBufList[b] \in Nat
      BY PlacesFinite DEF OrganizerInv, TypeOK
    <3> QED
      BY <3>1, <3>2
  <2>8. Holders(b)' = Holders(b)
    BY DEF Holders
  <2>9. InFrames(b) \in [Conn -> SUBSET (Slot \X Nat)]
    BY InFramesType DEF OrganizerInv
  <2> HIDE DEF X, Destroy
  <2>10. Owned(rtpRecvBufList[b] + Cardinality(X), Holders(b),
               [InFrames(b) EXCEPT ![c] = {}])
    BY <2>6, <2>9, Free DEF OwnedOnce
  <2> QED
    BY <2>5, <2>7, <2>8, <2>10 DEF Owned
<1> QED
  BY <1>1 DEF OwnedOnce

LEMMA GetBufferOwned ==
  ASSUME OrganizerInv, OwnedOnce, NEW c \in Conn,
         NEW p \in Fragment \cup {OtherPacket}, GetBuffer(c, p)
  PROVE  OwnedOnce'
<1> USE DEF GetBuffer
<1>1. PICK a \in Buf :
        /\ rtpRecvBufList[a] > 0
        /\ rtpRecvBufList' = [rtpRecvBufList EXCEPT ![a] = @ - 1]
        /\ inHand' = [inHand EXCEPT ![c] = [buf |-> a, pkt |-> p]]
  OBVIOUS
<1>2. [buf |-> a, pkt |-> p] # Nothing
  BY OrganizerAssumption
<1>3. ASSUME NEW b \in Buf
      PROVE  Owned(rtpRecvBufList[b], Holders(b), InFrames(b))'
  <2>1. InFrames(b)' = InFrames(b)
    BY DEF InFrames
  <2>2. Owned(rtpRecvBufList[b], Holders(b), InFrames(b))
    BY DEF OwnedOnce
  <2>3. CASE b = a
    <3>1. Holders(b) = {}
      BY <1>1, <2>2, <2>3 DEF Owned
    <3>2. Holders(b)' = {c}
      BY <1>1, <1>2, <2>3, <3>1 DEF Holders, OrganizerInv, TypeOK
    <3>3. rtpRecvBufList'[b] = rtpRecvBufList[b] - 1
      BY <1>1, <2>3 DEF OrganizerInv, TypeOK
    <3>4. Owned(rtpRecvBufList[b] - 1, {c}, InFrames(b))
      BY <1>1, <2>2, <2>3, Take
    <3> QED
      BY <2>1, <3>2, <3>3, <3>4 DEF Owned
  <2>4. CASE b # a
    <3>1. Holders(b)' = Holders(b)
      BY <1>1, <2>4 DEF Holders, OrganizerInv, TypeOK
    <3>2. rtpRecvBufList'[b] = rtpRecvBufList[b]
      BY <1>1, <2>4 DEF OrganizerInv, TypeOK
    <3> QED
      BY <2>1, <2>2, <3>1, <3>2 DEF Owned
  <2> QED
    BY <2>3, <2>4
<1> QED
  BY <1>3 DEF OwnedOnce

LEMMA HandleOtherOwned ==
  ASSUME OrganizerInv, OwnedOnce, NEW c \in Conn, HandleOther(c)
  PROVE  OwnedOnce'
<1> USE DEF HandleOther
<1>1. ASSUME NEW b \in Buf
      PROVE  Owned(rtpRecvBufList[b], Holders(b), InFrames(b))'
  <2>1. InFrames(b)' = InFrames(b)
    BY DEF InFrames
  <2>2. Owned(rtpRecvBufList[b], Holders(b), InFrames(b)) /\ rtpRecvBufList[b] \in Nat
    BY DEF OwnedOnce, OrganizerInv, TypeOK
  <2>3. Holders(b)' = Holders(b) \ {c}
    BY HandEmptied DEF OrganizerInv
  <2>4. c \in Holders(b) <=> b = inHand[c].buf
    BY DEF Holders
  <2>5. rtpRecvBufList'[b] = rtpRecvBufList[b]
                               + (IF b = inHand[c].buf THEN 1 ELSE 0)
    <3>1. Cardinality(Places(frame[c], {}, b)) = 0
      BY FS_EmptySet DEF Places
    <3> QED
      BY <2>2, <3>1 DEF FreeAll
  <2>6. CASE b = inHand[c].buf
    <3>1. Owned(rtpRecvBufList[b] + 1, Holders(b) \ {c}, InFrames(b))
      BY <2>2, <2>4, <2>6, GiveBack
    <3> QED
      BY <2>1, <2>3, <2>5, <2>6, <3>1 DEF Owned
  <2>7. CASE b # inHand[c].buf
    <3>1. Holders(b)' = Holders(b) /\ rtpRecvBufList'[b] = rtpRecvBufList[b]
      BY <2>2, <2>3, <2>4, <2>5, <2>7
    <3> HIDE DEF HandleOther
    <3> QED
      BY <2>1, <2>2, <3>1 DEF Owned
  <2> QED
    BY <2>6, <2>7
<1> QED
  BY <1>1 DEF OwnedOnce

\* The packet in hand goes into a frame, and frame small may be released after
\* it; this is the part both steps share, for one buffer.
LEMMA InsertedOwned ==
  ASSUME OrganizerInv, OwnedOnce, NEW c \in Conn, NEW s, HasFragment(c),
         Target(c, s), NEW b \in Buf
  PROVE  Owned(rtpRecvBufList[b], Holders(b) \ {c},
               [InFrames(b) EXCEPT ![c] = Places(Inserted(c, s), Slot, b)])
<1> DEFINE g == Inserted(c, s)
           e == EntryInHand(c)
<1>1. TypeOK /\ s \in Slot /\ frame[c] \in [Slot -> FrameInfo]
  BY InsertKeeps DEF OrganizerInv, TypeOK
<1>2. e \in Entry /\ inHand[c] # Nothing
  BY <1>1, InHandType DEF HasFragment
<1>3. /\ \A u \in Slot \ {s} : g[u] = frame[c][u]
      /\ g[s].PacketQueue = Insert(frame[c][s].PacketQueue, e)
  BY <1>1, InsertedShape
<1> HIDE DEF g, e
<1>4. PlacesAfter(Places(frame[c], Slot, b), Places(g, Slot, b), b, e.buf)
  BY <1>1, <1>2, <1>3, PlacesInserted
<1>5. c \in Holders(b) <=> b = e.buf
  BY <1>2 DEF Holders, EntryInHand, e
<1>6. /\ InFrames(b) \in [Conn -> SUBSET (Slot \X Nat)]
      /\ InFrames(b)[c] = Places(frame[c], Slot, b)
      /\ Owned(rtpRecvBufList[b], Holders(b), InFrames(b))
  BY <1>1, InFramesType DEF InFrames, OwnedOnce
<1>7. CASE b = e.buf
  BY <1>4, <1>5, <1>6, <1>7, PutIntoFrame DEF g, PlacesAfter
<1>8. CASE b # e.buf
  <2>1. Holders(b) \ {c} = Holders(b)
    BY <1>5, <1>8
  <2> QED
    BY <1>4, <1>6, <1>8, <2>1, Move DEF g, PlacesAfter
<1> QED
  BY <1>7, <1>8

LEMMA InsertAndHoldOwned ==
  ASSUME OrganizerInv, OwnedOnce, NEW c \in Conn, NEW s \in Slot, InsertAndHold(c, s)
  PROVE  OwnedOnce'
<1>1. ASSUME NEW b \in Buf
      PROVE  Owned(rtpRecvBufList[b], Holders(b), InFrames(b))'
  <2>1. /\ HasFragment(c) /\ Target(c, s)
        /\ frame' = [frame EXCEPT ![c] = Inserted(c, s)]
        /\ inHand' = [inHand EXCEPT ![c] = Nothing]
        /\ rtpRecvBufList' = rtpRecvBufList
    BY DEF InsertAndHold
  <2>2. Holders(b)' = Holders(b) \ {c}
    BY <2>1, HandEmptied DEF OrganizerInv
  <2>3. InFrames(b)' = [InFrames(b) EXCEPT ![c] = Places(Inserted(c, s), Slot, b)]
    BY <2>1 DEF InFrames, OrganizerInv, TypeOK
  <2>4. Owned(rtpRecvBufList[b], Holders(b) \ {c},
              [InFrames(b) EXCEPT ![c] = Places(Inserted(c, s), Slot, b)])
    BY <2>1, InsertedOwned
  <2> QED
    BY <2>1, <2>2, <2>3, <2>4 DEF Owned
<1> QED
  BY <1>1 DEF OwnedOnce

\* Releasing frame small frees the buffers that are in it and no other.
LEMMA ReleasedPlaces ==
  ASSUME NEW f \in [Slot -> FrameInfo], NEW small \in Slot, NEW b
  PROVE  /\ Places(f, Slot, b) = Places(f, {small}, b)
                                   \cup Places(Emptied(f, {small}), Slot, b)
         /\ Places(f, {small}, b) \cap Places(Emptied(f, {small}), Slot, b) = {}
<1> DEFINE rest == Slot \ {small}
           g == Emptied(f, {small})
<1>1. /\ \A u \in rest : g[u] = f[u]
      /\ \A u \in {small} : g[u].PacketQueue = <<>>
  BY EmptiedShape
<1>2. {small} \cup rest = Slot /\ {small} \cap rest = {}
  OBVIOUS
<1> HIDE DEF g, rest
<1>3. /\ Places(f, Slot, b) = Places(f, {small}, b) \cup Places(f, rest, b)
      /\ Places(f, {small}, b) \cap Places(f, rest, b) = {}
      /\ Places(g, Slot, b) = Places(g, {small}, b) \cup Places(g, rest, b)
  BY <1>2, PlacesSplit
<1>4. Places(g, {small}, b) = {}
  BY <1>1, PlacesEmpty
<1>5. Places(g, rest, b) = Places(f, rest, b)
  BY <1>1, PlacesSame
<1> QED
  BY <1>3, <1>4, <1>5 DEF g

LEMMA InsertAndDeliverOwned ==
  ASSUME OrganizerInv, OwnedOnce, NEW c \in Conn, NEW s \in Slot, InsertAndDeliver(c, s)
  PROVE  OwnedOnce'
<1> DEFINE inUse == rtpFrameMap[c] \cup {s}
           g == Inserted(c, s)
           small == SmallFrame(inUse, g)
<1>1. /\ HasFragment(c) /\ Target(c, s)
      /\ inHand' = [inHand EXCEPT ![c] = Nothing]
      /\ rtpRecvBufList' = FreeAll(g, {small}, {})
      /\ frame' = [frame EXCEPT ![c] = Emptied(g, {small})]
  BY DEF InsertAndDeliver, ReleaseRtpPacket
<1>2. g \in [Slot -> FrameInfo]
  BY <1>1, InsertKeeps
<1>3. inUse \in SUBSET Slot /\ inUse # {}
  BY DEF OrganizerInv, TypeOK
<1> HIDE DEF g, inUse
<1>4. small \in Slot
  BY <1>2, <1>3, SmallFrameExists
<1> HIDE DEF small
<1>5. ASSUME NEW b \in Buf
      PROVE  Owned(rtpRecvBufList[b], Holders(b), InFrames(b))'
  <2> DEFINE X == Places(g, {small}, b)
             Y == Places(Emptied(g, {small}), Slot, b)
             P == [InFrames(b) EXCEPT ![c] = Places(g, Slot, b)]
  <2>1. Owned(rtpRecvBufList[b], Holders(b) \ {c}, P)
    BY <1>1, InsertedOwned DEF g
  <2>2. /\ Places(g, Slot, b) = X \cup Y /\ X \cap Y = {}
        /\ Places(g, Slot, b) \in SUBSET (Slot \X Nat)
    BY <1>2, <1>4, ReleasedPlaces, PlacesType
  <2>3. InFrames(b) \in [Conn -> SUBSET (Slot \X Nat)]
    BY InFramesType DEF OrganizerInv
  <2>4. P \in [Conn -> SUBSET (Slot \X Nat)] /\ P[c] = Places(g, Slot, b)
    BY <2>2, <2>3
  <2>5. Holders(b)' = Holders(b) \ {c}
    BY <1>1, HandEmptied DEF OrganizerInv
  <2>6. InFrames(b)' = [InFrames(b) EXCEPT ![c] = Y]
    BY <1>1 DEF InFrames, OrganizerInv, TypeOK
  <2>7. [P EXCEPT ![c] = Y] = [InFrames(b) EXCEPT ![c] = Y]
    BY <2>3
  <2>8. rtpRecvBufList'[b] = rtpRecvBufList[b] + Cardinality(X)
    <3>1. rtpRecvBufList'[b] = rtpRecvBufList[b] + Cardinality(X) + 0
      BY <1>1 DEF FreeAll
    <3>2. Cardinality(X) \in Nat /\ rtpRecvBufList[b] \in Nat
      BY <1>2, <1>4, PlacesFinite DEF OrganizerInv, TypeOK
    <3> QED
      BY <3>1, <3>2
  <2> HIDE DEF X, Y, P
  <2>9. Owned(rtpRecvBufList[b] + Cardinality(X), Holders(b) \ {c}, [P EXCEPT ![c] = Y])
    BY <2>1, <2>2, <2>4, Free
  <2> QED
    BY <2>5, <2>6, <2>7, <2>8, <2>9 DEF Owned
<1> QED
  BY <1>5 DEF OwnedOnce

LEMMA EvictOwned ==
  ASSUME OrganizerInv, OwnedOnce, NEW c \in Conn, Evict(c)
  PROVE  OwnedOnce'
<1> DEFINE f == frame[c]
           small == SmallFrame(rtpFrameMap[c], f)
           a == inHand[c].buf
<1>1. /\ HasFragment(c) /\ c \in open /\ inHand[c] # Nothing
      /\ rtpFrameFreeList[c] = {}
      /\ inHand' = [inHand EXCEPT ![c] = Nothing]
      /\ rtpRecvBufList' = FreeAll(f, {small}, {a})
      /\ frame' = [frame EXCEPT ![c] = Emptied(f, {small})]
  BY DEF Evict, ReleaseRtpPacket, HasFragment
<1>2. f \in [Slot -> FrameInfo]
  BY DEF OrganizerInv, TypeOK
<1>3. rtpFrameMap[c] \in SUBSET Slot /\ rtpFrameMap[c] # {}
  BY <1>1, OrganizerAssumption DEF OrganizerInv, TypeOK, SlotsPartitioned
<1> HIDE DEF f
<1>4. small \in Slot
  BY <1>2, <1>3, SmallFrameExists
<1> HIDE DEF small
<1>5. ASSUME NEW b \in Buf
      PROVE  Owned(rtpRecvBufList[b], Holders(b), InFrames(b))'
  <2> DEFINE X == Places(f, {small}, b)
             Y == Places(Emptied(f, {small}), Slot, b)
             P == InFrames(b)
             n == rtpRecvBufList[b]
  <2>1. Owned(n, Holders(b), P) /\ n \in Nat
    BY DEF OwnedOnce, OrganizerInv, TypeOK
  <2>2. P \in [Conn -> SUBSET (Slot \X Nat)] /\ P[c] = Places(f, Slot, b)
    BY InFramesType DEF OrganizerInv, InFrames, f
  <2>3. Places(f, Slot, b) = X \cup Y /\ X \cap Y = {}
    BY <1>2, <1>4, ReleasedPlaces
  <2>4. Holders(b)' = Holders(b) \ {c}
    BY <1>1, HandEmptied DEF OrganizerInv
  <2>5. c \in Holders(b) <=> b = a
    BY <1>1 DEF Holders
  <2>6. InFrames(b)' = [P EXCEPT ![c] = Y]
    BY <1>1, FrameChanged DEF OrganizerInv
  <2>7. rtpRecvBufList'[b] = n + Cardinality(X) + (IF b = a THEN 1 ELSE 0)
    BY <1>1 DEF FreeAll
  <2>8. Cardinality(X) \in Nat
    BY <1>2, <1>4, PlacesFinite
  <2> HIDE DEF X, Y, P, n, a
  <2>9. Owned(n + Cardinality(X), Holders(b), [P EXCEPT ![c] = Y])
    BY <2>1, <2>2, <2>3, Free
  <2>10. CASE b = a
    <3>1. Owned(n + Cardinality(X) + 1, Holders(b) \ {c}, [P EXCEPT ![c] = Y])
      BY <2>5, <2>9, <2>10, GiveBack
    <3>2. rtpRecvBufList'[b] = n + Cardinality(X) + 1
      BY <2>7, <2>10
    <3> QED
      BY <2>4, <2>6, <3>1, <3>2 DEF Owned
  <2>11. CASE b # a
    <3>1. Holders(b)' = Holders(b) /\ rtpRecvBufList'[b] = n + Cardinality(X)
      BY <2>1, <2>4, <2>5, <2>7, <2>8, <2>11
    <3> QED
      BY <2>6, <2>9, <3>1 DEF Owned
  <2> QED
    BY <2>10, <2>11
<1> QED
  BY <1>5 DEF OwnedOnce

LEMMA InitOwned == Init => OwnedOnce
<1> SUFFICES ASSUME Init, NEW b \in Buf
             PROVE  Owned(rtpRecvBufList[b], Holders(b), InFrames(b))
  BY DEF OwnedOnce
<1>1. Holders(b) = {} /\ rtpRecvBufList[b] = 1
  BY DEF Init, Holders
<1>2. ASSUME NEW c \in Conn
      PROVE  InFrames(b)[c] = {}
  <2>1. \A s \in Slot : frame[c][s].PacketQueue = <<>>
    BY NewFrameType DEF Init
  <2> QED
    BY <2>1, PlacesEmpty DEF InFrames
<1> QED
  BY <1>1, <1>2 DEF Owned

LEMMA NextOwned ==
  ASSUME OrganizerInv, OwnedOnce, [Next]_vars
  PROVE  OwnedOnce'
<1>1. ASSUME NEW c \in Conn, Create(c)
      PROVE  OwnedOnce'
  BY <1>1, CreateOwned
<1>2. ASSUME NEW c \in Conn, Destroy(c)
      PROVE  OwnedOnce'
  BY <1>2, DestroyOwned
<1>3. ASSUME NEW c \in Conn, NEW p \in Fragment \cup {OtherPacket}, GetBuffer(c, p)
      PROVE  OwnedOnce'
  BY <1>3, GetBufferOwned
<1>4. ASSUME NEW c \in Conn, HandleOther(c)
      PROVE  OwnedOnce'
  BY <1>4, HandleOtherOwned
<1>5. ASSUME NEW c \in Conn, NEW s \in Slot, InsertAndHold(c, s)
      PROVE  OwnedOnce'
  BY <1>5, InsertAndHoldOwned
<1>6. ASSUME NEW c \in Conn, NEW s \in Slot, InsertAndDeliver(c, s)
      PROVE  OwnedOnce'
  BY <1>6, InsertAndDeliverOwned
<1>7. ASSUME NEW c \in Conn, Evict(c)
      PROVE  OwnedOnce'
  BY <1>7, EvictOwned
<1>8. CASE UNCHANGED vars
  <2>1. ASSUME NEW b \in Buf
        PROVE  Owned(rtpRecvBufList[b], Holders(b), InFrames(b))'
    <3>1. /\ rtpRecvBufList'[b] = rtpRecvBufList[b]
          /\ Holders(b)' = Holders(b)
          /\ InFrames(b)' = InFrames(b)
      BY <1>8 DEF vars, Holders, InFrames
    <3>2. Owned(rtpRecvBufList[b], Holders(b), InFrames(b))
      BY DEF OwnedOnce
    <3> QED
      BY <3>1, <3>2 DEF Owned
  <2> QED
    BY <2>1 DEF OwnedOnce
<1> QED
  BY <1>1, <1>2, <1>3, <1>4, <1>5, <1>6, <1>7, <1>8 DEF Next, Handle

\* Following a buffer or counting its owners is the same.
LEMMA OwnedOnceCounts ==
  ASSUME TypeOK, OwnedOnce
  PROVE  BuffersOwnedOnce
<1> SUFFICES ASSUME NEW b \in Buf
             PROVE  rtpRecvBufList[b] + Cardinality(Holders(b))
                      + Cardinality(QueuePlaces(b)) = 1
  BY DEF BuffersOwnedOnce
<1> DEFINE P == InFrames(b)
<1>1. QueuePlaces(b) = UNION {{<<c, p>> : p \in P[c]} : c \in Conn}
  BY DEF QueuePlaces, InFrames
<1>2. Owned(rtpRecvBufList[b], Holders(b), P)
  BY DEF OwnedOnce
<1> HIDE DEF P
<1>3. ASSUME \A c \in Conn : P[c] = {}
      PROVE  Cardinality(QueuePlaces(b)) = 0
  <2>1. QueuePlaces(b) = {}
    BY <1>1, <1>3
  <2> QED
    BY <2>1, FS_EmptySet
<1>4. ASSUME NEW c \in Conn, NEW x, P[c] = {x}, \A d \in Conn \ {c} : P[d] = {}
      PROVE  Cardinality(QueuePlaces(b)) = 1
  <2>1. QueuePlaces(b) = {<<c, x>>}
    BY <1>1, <1>4
  <2> QED
    BY <2>1, FS_Singleton
<1>5. /\ Holders(b) = {} => Cardinality(Holders(b)) = 0
      /\ \A c \in Conn : Holders(b) = {c} => Cardinality(Holders(b)) = 1
  BY FS_EmptySet, FS_Singleton
<1> DEFINE n == rtpRecvBufList[b]
           h == Cardinality(Holders(b))
           k == Cardinality(QueuePlaces(b))
<1>6. \/ n = 1 /\ h = 0 /\ k = 0
      \/ n = 0 /\ h = 1 /\ k = 0
      \/ n = 0 /\ h = 0 /\ k = 1
  BY <1>2, <1>3, <1>4, <1>5, Zenon DEF Owned
<1> HIDE DEF n, h, k
<1>7. n + h + k = 1
  BY <1>6
<1> QED
  BY <1>7 DEF n, h, k

THEOREM OwnershipInvariant == Spec => [](OrganizerInv /\ OwnedOnce)
<1>1. Init => OwnedOnce
  BY InitOwned
<1>2. OrganizerInv /\ OwnedOnce /\ [Next]_vars => OwnedOnce'
  BY NextOwned
<1> QED
  BY <1>1, <1>2, OrganizerInvariant, PTL DEF Spec

\* Every receive buffer has exactly one owner at all times: none is freed
\* twice and none leaks, whatever packets the connections receive and whenever
\* they are destroyed.
THEOREM EveryBufferOwnedOnce == Spec => []BuffersOwnedOnce
<1>1. OrganizerInv /\ OwnedOnce => BuffersOwnedOnce
  BY OwnedOnceCounts DEF OrganizerInv
<1> QED
  BY <1>1, OwnershipInvariant, PTL
=============================================================================

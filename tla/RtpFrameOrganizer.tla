-------------------------- MODULE RtpFrameOrganizer --------------------------
(***************************************************************************)
(* The receive path of RTP video: mk_rtsp_connection takes a buffer from   *)
(* the pool of mk_rtsp_service, copies one interleaved packet into it and  *)
(* hands it to handle_rtp_packet; a fragment (FU_A, or type 49 in H265)    *)
(* goes into the connection's mk_rtp_frame_organizer, which keeps it until *)
(* its frame is complete, evicted, or the connection is destroyed.         *)
(*                                                                         *)
(* Each connection is served by one network thread; the threads share the  *)
(* pool, under its mutex.  Taking the buffer and handling the packet are   *)
(* two steps, so other connections run in between.                         *)
(***************************************************************************)
EXTENDS Integers, Sequences, FiniteSets, SequencesExt

CONSTANTS
  Conn,        \* the connections
  Buf,         \* the buffers of m_RtpRecvBufList (MaxClient * RtpBufCountPerClient)
  Slot,        \* the m_unMaxCacheFrameNum RTP_FRAME_INFO_S objects of an organizer
  Fragment,    \* the fragments the network may bring, with the header fields used
  OtherPacket, \* any packet the organizer never sees: RTCP, audio, a whole NALU
  Nothing,     \* a connection that holds no packet
  SeqSpace,    \* 2^16 in the code: sequence numbers are uint16_t
  MaxTotal     \* bound on m_unTotalRtpPacketNum, below the 2^32 of the code

SeqNum == 0 .. SeqSpace - 1

FragmentType == [unTimestamp : Nat, usSeq : SeqNum, bMarker : BOOLEAN]

ASSUME OrganizerAssumption ==
  /\ SeqSpace \in Nat \ {0}
  /\ MaxTotal \in Nat
  /\ IsFiniteSet(Slot) /\ Slot # {}  \* init refuses a cache of 0 frames
  /\ Fragment \subseteq FragmentType
  /\ OtherPacket \notin Fragment
  /\ Nothing \notin [buf : Buf, pkt : Fragment \cup {OtherPacket}]

VARIABLES
  open,              \* the connections that exist
  rtpFrameMap,       \* m_RtpFrameMap: the frame objects in use, keyed by unTimestamp
  rtpFrameFreeList,  \* m_RtpFrameFreeList
  frame,             \* the contents of the frame objects
  inHand,            \* the packet a network thread is handling
  rtpRecvBufList,    \* m_RtpRecvBufList: how many times each buffer is on it
  stat,              \* the counters of getRtpPacketStatInfo
  delivered          \* the last frame given to handleRtpFrame

vars == <<open, rtpFrameMap, rtpFrameFreeList, frame, inHand, rtpRecvBufList,
          stat, delivered>>

Entry == [usSeq : SeqNum, buf : Buf]
FrameInfo == [unTimestamp : Nat, bMarker : BOOLEAN, PacketQueue : Seq(Entry)]
Statistics == [total : Nat, lostPackets : Nat, lostFrames : Nat, disorder : Nat]
Delivery == [unTimestamp : Nat, seqs : Seq(SeqNum)]

NewFrame == [unTimestamp |-> 0, bMarker |-> FALSE, PacketQueue |-> <<>>]
NewStatistics == [total |-> 0, lostPackets |-> 0, lostFrames |-> 0, disorder |-> 0]
NoDelivery == [unTimestamp |-> 0, seqs |-> <<>>]

Init ==
  /\ open = {}
  /\ rtpFrameMap = [c \in Conn |-> {}]
  /\ rtpFrameFreeList = [c \in Conn |-> {}]
  /\ frame = [c \in Conn |-> [s \in Slot |-> NewFrame]]
  /\ inHand = [c \in Conn |-> Nothing]
  /\ rtpRecvBufList = [b \in Buf |-> 1]
  /\ stat = [c \in Conn |-> NewStatistics]
  /\ delivered = [c \in Conn |-> NoDelivery]

-----------------------------------------------------------------------------
(* The queue of one frame.                                                 *)

\* Where insert puts a packet: behind everything, or before the first entry
\* that is not smaller.  A repeated sequence number is kept as well.
InOrder(q, p) == q = <<>> \/ p.usSeq >= q[Len(q)].usSeq

Insert_NoSort(q, p) == Append(q, p)          \* fault: every packet is pushed back
Insert(q, p) ==
  IF InOrder(q, p)
  THEN Append(q, p)
  ELSE InsertAt(q, Min({i \in DOMAIN q : p.usSeq <= q[i].usSeq}), p)

\* checkFrame: a marker was seen and the numbers run on from the first one.
Complete_AnyGap(f) == f.bMarker              \* fault: the gaps are not looked at
Complete_NextSeq(f) ==                       \* fault: usSeq++ before the comparison
  /\ f.bMarker
  /\ f.PacketQueue # <<>>
  /\ \A i \in DOMAIN f.PacketQueue :
       f.PacketQueue[i].usSeq = (f.PacketQueue[1].usSeq + i) % SeqSpace
Complete(f) ==
  /\ f.bMarker
  /\ f.PacketQueue # <<>>
  /\ \A i \in DOMAIN f.PacketQueue :
       f.PacketQueue[i].usSeq = (f.PacketQueue[1].usSeq + i - 1) % SeqSpace

\* What an evicted frame adds to m_unLostRtpPacketNum; usSeqLen is a uint16_t.
GapsIn_Length(q) ==                          \* fault: the length is added, not the gaps
  LET seqLen == (q[Len(q)].usSeq - q[1].usSeq + 1) % SeqSpace
  IN IF seqLen > Len(q) THEN seqLen ELSE 0
GapsIn(q) ==
  LET seqLen == (q[Len(q)].usSeq - q[1].usSeq + 1) % SeqSpace
  IN IF seqLen > Len(q) THEN seqLen - Len(q) ELSE 0

\* GetSmallFrame among the frames in use.
SmallFrame(inUse, f) ==
  CHOOSE s \in inUse : \A u \in inUse : f[s].unTimestamp <= f[u].unTimestamp

\* The places of buffer b in the queues of the frames S.
Places(f, S, b) ==
  UNION {{<<s, i>> : i \in {j \in DOMAIN f[s].PacketQueue :
                              f[s].PacketQueue[j].buf = b}} : s \in S}

\* free_rtp_recv_buf for every packet of the frames S and for the buffers extra.
FreeAll_QueueOnly(f, S, extra) ==            \* fault: the caller frees nothing
  [b \in Buf |-> rtpRecvBufList[b] + Cardinality(Places(f, S, b))]
FreeAll_FirstOnly(f, S, extra) ==            \* fault: only the first packet is freed
  [b \in Buf |-> rtpRecvBufList[b]
                   + Cardinality({p \in Places(f, S, b) : p[2] = 1})
                   + (IF b \in extra THEN 1 ELSE 0)]
FreeAll(f, S, extra) ==
  [b \in Buf |-> rtpRecvBufList[b] + Cardinality(Places(f, S, b))
                                   + (IF b \in extra THEN 1 ELSE 0)]

Emptied_Not(f, S) == f                       \* fault: the queue is not cleared
Emptied(f, S) ==
  [s \in Slot |-> IF s \in S THEN [f[s] EXCEPT !.PacketQueue = <<>>] ELSE f[s]]

\* releaseRtpPacket for a frame of the map inUse; freeList is the free list so
\* far, f the frame objects, extra what the caller frees afterwards.
ReleaseRtpPacket_KeepsSlot(c, f, inUse, freeList, small, extra) ==
  /\ rtpRecvBufList' = FreeAll(f, {small}, extra)
  /\ rtpFrameMap' = [rtpFrameMap EXCEPT ![c] = inUse \ {small}]
  /\ rtpFrameFreeList' = [rtpFrameFreeList EXCEPT ![c] = freeList]  \* fault: no push_back
  /\ frame' = [frame EXCEPT ![c] = Emptied(f, {small})]
ReleaseRtpPacket(c, f, inUse, freeList, small, extra) ==
  /\ rtpRecvBufList' = FreeAll(f, {small}, extra)
  /\ rtpFrameMap' = [rtpFrameMap EXCEPT ![c] = inUse \ {small}]
  /\ rtpFrameFreeList' = [rtpFrameFreeList EXCEPT ![c] = freeList \cup {small}]
  /\ frame' = [frame EXCEPT ![c] = Emptied(f, {small})]

-----------------------------------------------------------------------------
(* A connection object is made and destroyed.                              *)

\* The constructor initialises the organizer: all its frame objects are free.
Create(c) ==
  /\ c \notin open
  /\ open' = open \cup {c}
  /\ rtpFrameFreeList' = [rtpFrameFreeList EXCEPT ![c] = Slot]
  /\ frame' = [frame EXCEPT ![c] = [s \in Slot |-> NewFrame]]
  /\ stat' = [stat EXCEPT ![c] = NewStatistics]
  /\ delivered' = [delivered EXCEPT ![c] = NoDelivery]
  /\ UNCHANGED <<rtpFrameMap, inHand, rtpRecvBufList>>

\* release() frees the packets of the frames in use, then the frame objects.
Destroy(c) ==
  /\ c \in open /\ inHand[c] = Nothing
  /\ open' = open \ {c}
  /\ rtpRecvBufList' = FreeAll(frame[c], rtpFrameMap[c], {})
  /\ rtpFrameMap' = [rtpFrameMap EXCEPT ![c] = {}]
  /\ rtpFrameFreeList' = [rtpFrameFreeList EXCEPT ![c] = {}]
  /\ frame' = [frame EXCEPT ![c] = [s \in Slot |-> NewFrame]]
  /\ UNCHANGED <<inHand, stat, delivered>>

-----------------------------------------------------------------------------
(* A packet arrives.                                                       *)

\* handleRTPRTCPData gets a buffer and copies the packet.  With an empty pool
\* it skips the packet, which changes nothing here.
GetBuffer_NoTest(c, p) ==  \* fault: front() of an empty list
  /\ c \in open /\ inHand[c] = Nothing
  /\ stat[c].total + 2 <= MaxTotal
  /\ \E b \in Buf :
       /\ rtpRecvBufList' = [rtpRecvBufList EXCEPT ![b] = @ - 1]
       /\ inHand' = [inHand EXCEPT ![c] = [buf |-> b, pkt |-> p]]
  /\ UNCHANGED <<open, rtpFrameMap, rtpFrameFreeList, frame, stat, delivered>>
GetBuffer(c, p) ==
  /\ c \in open /\ inHand[c] = Nothing
  /\ stat[c].total + 2 <= MaxTotal
  /\ \E b \in Buf :
       /\ rtpRecvBufList[b] > 0
       /\ rtpRecvBufList' = [rtpRecvBufList EXCEPT ![b] = @ - 1]
       /\ inHand' = [inHand EXCEPT ![c] = [buf |-> b, pkt |-> p]]
  /\ UNCHANGED <<open, rtpFrameMap, rtpFrameFreeList, frame, stat, delivered>>

\* Every way past the organizer gives the buffer back once: the handler frees
\* it and returns OK, or returns FAIL and handleRTPRTCPData frees it.  A video
\* packet that parses is counted first.
HandleOther(c) ==
  /\ c \in open /\ inHand[c] # Nothing
  /\ inHand[c].pkt = OtherPacket
  /\ rtpRecvBufList' = FreeAll(frame[c], {}, {inHand[c].buf})
  /\ inHand' = [inHand EXCEPT ![c] = Nothing]
  /\ \E n \in {0, 1} : stat' = [stat EXCEPT ![c].total = @ + n]
  /\ UNCHANGED <<open, rtpFrameMap, rtpFrameFreeList, frame, delivered>>

HasFragment(c) == c \in open /\ inHand[c] # Nothing /\ inHand[c].pkt # OtherPacket

\* The frames in use with the timestamp of the packet in hand: at most one.
SameTimestamp(c) ==
  {s \in rtpFrameMap[c] : frame[c][s].unTimestamp = inHand[c].pkt.unTimestamp}

\* The frame object the packet goes into: the one of its timestamp, or a free
\* one that InsertFrame prepares.
Target(c, s) ==
  \/ s \in SameTimestamp(c)
  \/ SameTimestamp(c) = {} /\ s \in rtpFrameFreeList[c]

Prepared_KeepsMarker(c, s) ==  \* fault: InsertFrame leaves the old marker
  IF s \in rtpFrameMap[c]
  THEN frame[c][s]
  ELSE [frame[c][s] EXCEPT !.unTimestamp = inHand[c].pkt.unTimestamp]
Prepared(c, s) ==
  IF s \in rtpFrameMap[c]
  THEN frame[c][s]
  ELSE [frame[c][s] EXCEPT !.unTimestamp = inHand[c].pkt.unTimestamp,
                           !.bMarker = FALSE]

Inserted(c, s) ==
  LET p == inHand[c].pkt
      f == Prepared(c, s)
  IN [frame[c] EXCEPT ![s] =
        [f EXCEPT !.bMarker = @ \/ p.bMarker,
                  !.PacketQueue = Insert(@, [usSeq |-> p.usSeq, buf |-> inHand[c].buf])]]

\* handle_rtp_packet and insertRtpPacket each count the fragment.
Counted(c, s) ==
  LET d == IF InOrder(Prepared(c, s).PacketQueue, inHand[c].pkt) THEN 0 ELSE 1
  IN [stat EXCEPT ![c].total = @ + 2, ![c].disorder = @ + d]

Seqs(q) == [i \in DOMAIN q |-> q[i].usSeq]

\* The packet is kept and checkFrame finds the smallest frame incomplete.
InsertAndHold(c, s) ==
  /\ HasFragment(c) /\ Target(c, s)
  /\ LET inUse == rtpFrameMap[c] \cup {s}
         after == Inserted(c, s)
     IN /\ ~Complete(after[SmallFrame(inUse, after)])
        /\ rtpFrameMap' = [rtpFrameMap EXCEPT ![c] = inUse]
        /\ frame' = [frame EXCEPT ![c] = after]
  /\ rtpFrameFreeList' = [rtpFrameFreeList EXCEPT ![c] = @ \ {s}]
  /\ inHand' = [inHand EXCEPT ![c] = Nothing]
  /\ stat' = Counted(c, s)
  /\ UNCHANGED <<open, rtpRecvBufList, delivered>>

\* The packet is kept and checkFrame finds the smallest frame complete: it is
\* handed to the application and its packets are freed.  One frame per packet,
\* even when the next one is complete too.
InsertAndDeliver(c, s) ==
  /\ HasFragment(c) /\ Target(c, s)
  /\ LET inUse == rtpFrameMap[c] \cup {s}
         after == Inserted(c, s)
         small == SmallFrame(inUse, after)
     IN /\ Complete(after[small])
        /\ delivered' = [delivered EXCEPT ![c] =
                           [unTimestamp |-> after[small].unTimestamp,
                            seqs |-> Seqs(after[small].PacketQueue)]]
        /\ ReleaseRtpPacket(c, after, inUse, rtpFrameFreeList[c] \ {s}, small, {})
  /\ inHand' = [inHand EXCEPT ![c] = Nothing]
  /\ stat' = Counted(c, s)
  /\ UNCHANGED open

\* No frame object is free: the smallest frame is evicted and counted as lost,
\* and the packet that needed the place is dropped with it.
Evict(c) ==
  /\ HasFragment(c)
  /\ SameTimestamp(c) = {} /\ rtpFrameFreeList[c] = {}
  /\ LET small == SmallFrame(rtpFrameMap[c], frame[c])
     IN /\ ReleaseRtpPacket(c, frame[c], rtpFrameMap[c], {}, small, {inHand[c].buf})
        /\ stat' = [stat EXCEPT ![c].total = @ + 2,
                                ![c].lostFrames = @ + 1,
                                ![c].lostPackets = @ + GapsIn(frame[c][small].PacketQueue)]
  /\ inHand' = [inHand EXCEPT ![c] = Nothing]
  /\ UNCHANGED <<open, delivered>>

Handle(c) ==
  \/ HandleOther(c)
  \/ \E s \in Slot : InsertAndHold(c, s) \/ InsertAndDeliver(c, s)
  \/ Evict(c)

Next ==
  \E c \in Conn :
    \/ Create(c)
    \/ Destroy(c)
    \/ \E p \in Fragment \cup {OtherPacket} : GetBuffer(c, p)
    \/ Handle(c)

Spec == Init /\ [][Next]_vars

-----------------------------------------------------------------------------
(* Properties.                                                             *)

\* Every variable has its type; in particular a buffer is never taken from an
\* empty m_RtpRecvBufList, and the counters and queues hold what fits them.
TypeOK ==
  /\ open \subseteq Conn
  /\ rtpFrameMap \in [Conn -> SUBSET Slot]
  /\ rtpFrameFreeList \in [Conn -> SUBSET Slot]
  /\ frame \in [Conn -> [Slot -> FrameInfo]]
  /\ inHand \in [Conn -> [buf : Buf, pkt : Fragment \cup {OtherPacket}] \cup {Nothing}]
  /\ rtpRecvBufList \in [Buf -> Nat]
  /\ stat \in [Conn -> Statistics]
  /\ delivered \in [Conn -> Delivery]

\* Frame objects are never lost and never in two places: releaseRtpPacket and
\* InsertFrame keep m_RtpFrameMap and m_RtpFrameFreeList a partition of them,
\* so the eviction at a full cache always finds a frame (line 96 uses the
\* result of GetSmallFrame without a test).
SlotsPartitioned ==
  \A c \in open :
    /\ rtpFrameMap[c] \cup rtpFrameFreeList[c] = Slot
    /\ rtpFrameMap[c] \cap rtpFrameFreeList[c] = {}

\* A frame in use has a packet, is the only one with its timestamp and has its
\* packets in the order of their numbers, whatever order they came in: line 100
\* reads the last entry, line 102 subtracts the first from it.  A free frame
\* object is empty, so a reused one does not start with old packets.
QueuesWellFormed ==
  \A c \in open :
    /\ \A s \in rtpFrameMap[c] :
         LET q == frame[c][s].PacketQueue
         IN /\ q # <<>>
            /\ \A i, j \in DOMAIN q : i <= j => q[i].usSeq <= q[j].usSeq
    /\ \A s, u \in rtpFrameMap[c] :
         frame[c][s].unTimestamp = frame[c][u].unTimestamp => s = u
    /\ \A s \in rtpFrameFreeList[c] : frame[c][s].PacketQueue = <<>>

Holders(b) ==
  {c \in Conn : inHand[c] # Nothing /\ inHand[c].buf = b}

QueuePlaces(b) ==
  UNION {{<<c, p>> : p \in Places(frame[c], Slot, b)} : c \in Conn}

\* Every buffer has exactly one owner at all times: the pool, the thread that
\* handles a packet in it, or one entry of one frame.  No path through
\* handle_rtp_packet, insertRtpPacket, checkFrame or release frees a buffer
\* twice, forgets one, or leaves a freed one in a queue.
BuffersOwnedOnce ==
  \A b \in Buf :
    rtpRecvBufList[b] + Cardinality(Holders(b)) + Cardinality(QueuePlaces(b)) = 1
=============================================================================

------------------------------ MODULE RtpStream ------------------------------
(***************************************************************************)
(* One RTSP connection of RtpFrameOrganizer fed by one video stream: frames *)
(* of some fragments, the last one marked, numbered without a break.  The  *)
(* way from the camera may lose packets, repeat them and let them overtake *)
(* each other.                                                             *)
(***************************************************************************)
EXTENDS RtpFrameOrganizer

CONSTANTS
  Viewer,      \* the connection
  Streams      \* the streams and the ways they take to the client

\* frames is the bound on the frames of a stream, length the fragments of one
\* frame (fewer than there are numbers: 2^16 fragments of video are some 90 MB),
\* first the number of the first fragment (the last ones may wrap to 0), window
\* how many places a packet may arrive early (0: in order), copies how often one
\* packet may arrive, lossy whether packets get lost.
ASSUME StreamAssumption ==
  /\ Conn = {Viewer}
  /\ Streams \subseteq [frames : Nat, length : 1 .. SeqSpace - 1, first : SeqNum,
                        window : Nat, copies : Nat \ {0}, lossy : BOOLEAN]

VARIABLES
  stream,   \* the stream and its way, one of Streams
  arrived,  \* how many times each packet reached the client
  missing,  \* the packets lost on the way, or dropped by the client
  log       \* every frame given to the application

svars == <<stream, arrived, missing, log, vars>>

Position == 1 .. stream.frames * stream.length

FrameOf(i) == (i - 1) \div stream.length + 1

Fragments(st) ==
  [i \in 1 .. st.frames * st.length |->
    [unTimestamp |-> (i - 1) \div st.length + 1,
     usSeq |-> (st.first + i - 1) % SeqSpace,
     bMarker |-> i % st.length = 0]]

ASSUME FragmentsAssumption ==
  \A st \in Streams : \A i \in DOMAIN Fragments(st) : Fragments(st)[i] \in Fragment

Packet(i) == Fragments(stream)[i]

SentSeqs(t) == [k \in 1 .. stream.length |-> Packet((t - 1) * stream.length + k).usSeq]

ArrivesInOrder == stream.window = 0 /\ stream.copies = 1

StreamInit ==
  /\ Init
  /\ stream \in Streams
  /\ arrived = [i \in Position |-> 0]
  /\ missing = {}
  /\ log = <<>>

Awaited == {i \in Position : arrived[i] = 0 /\ i \notin missing}

MayArrive(i) ==
  /\ arrived[i] < stream.copies
  /\ i \in missing => arrived[i] > 0
  /\ \A j \in Awaited : i <= j + stream.window

Arrive(i) ==
  /\ MayArrive(i)
  /\ GetBuffer(Viewer, Packet(i))
  /\ arrived' = [arrived EXCEPT ![i] = @ + 1]
  /\ UNCHANGED <<stream, missing, log>>

\* get_rtp_recv_buf returns NULL: the packet is skipped.
ArriveWithoutBuffer(i) ==
  /\ MayArrive(i)
  /\ Viewer \in open /\ inHand[Viewer] = Nothing
  /\ \A b \in Buf : rtpRecvBufList[b] = 0
  /\ arrived' = [arrived EXCEPT ![i] = @ + 1]
  /\ missing' = missing \cup {i}
  /\ UNCHANGED <<stream, log, vars>>

Lose(i) ==
  /\ stream.lossy
  /\ i \in Awaited /\ \A j \in Awaited : i <= j
  /\ missing' = missing \cup {i}
  /\ UNCHANGED <<stream, arrived, log, vars>>

Connect == Create(Viewer) /\ UNCHANGED <<stream, arrived, missing, log>>

Process ==
  /\ UNCHANGED <<stream, arrived>>
  /\ \/ /\ \E s \in Slot : InsertAndHold(Viewer, s)
        /\ UNCHANGED <<missing, log>>
     \/ /\ \E s \in Slot : InsertAndDeliver(Viewer, s)
        /\ log' = Append(log, delivered'[Viewer])
        /\ UNCHANGED missing
     \/ /\ Evict(Viewer)
        /\ missing' = missing \cup {i \in Position : Packet(i) = inHand[Viewer].pkt}
        /\ UNCHANGED log

StreamNext ==
  \/ Connect
  \/ Process
  \/ \E i \in Position : Arrive(i) \/ ArriveWithoutBuffer(i) \/ Lose(i)

StreamSpec == StreamInit /\ [][StreamNext]_svars

-----------------------------------------------------------------------------
(* Properties.                                                             *)

\* In any order of arrival, with losses and repetitions, what the application
\* gets of a frame is its end without a gap: checkFrame never lets a hole or a
\* cut tail through.  (The head may be missing: nothing tells the organizer
\* which packet is the first one.)
DeliveredIsSuffix ==
  \A k \in DOMAIN log :
    /\ log[k].seqs # <<>>
    /\ IsSuffix(log[k].seqs, SentSeqs(log[k].unTimestamp))

\* No frame is given to the application twice unless one of its packets arrived
\* twice, although a late packet makes the organizer open a frame it has
\* already delivered.
DeliveredOnce ==
  \A j, k \in DOMAIN log :
    j # k /\ log[j].unTimestamp = log[k].unTimestamp =>
      \E i \in Position : FrameOf(i) = log[j].unTimestamp /\ arrived[i] > 1

\* In order of arrival, a pool with room for as many frames as the cache has
\* never ends up with all its buffers in the frames of the organizer.  It would
\* stay so: only an insertion delivers or evicts a frame, and an insertion needs
\* a buffer.  (Packets that come twice take a buffer each, and do wedge it.)
PoolNotWedged ==
  Viewer \in open /\ ArrivesInOrder /\ Cardinality(Buf) >= Cardinality(Slot) * stream.length =>
    inHand[Viewer] # Nothing \/ \E b \in Buf : rtpRecvBufList[b] > 0

InCache == { frame[Viewer][s].unTimestamp : s \in rtpFrameMap[Viewer] }

\* In order of arrival, m_unLostRtpPacketNum counts only packets that got lost,
\* of frames that have left the cache (the header calls it the lost packets),
\* and m_unDisorderSeqCounts (the number of times out of order) stays 0.
LostPacketsAreLost ==
  ArrivesInOrder =>
    /\ stat[Viewer].lostPackets <=
         Cardinality({ i \in missing : arrived[i] = 0 /\ FrameOf(i) \notin InCache })
    /\ stat[Viewer].disorder = 0

\* In order of arrival, a frame that leaves the cache without being delivered
\* lacks a packet, although complete frames wait behind it: the eviction never
\* gives up a frame the application could have had.
EvictedIsIncomplete ==
  [][\A s \in rtpFrameMap[Viewer] \ rtpFrameMap'[Viewer] :
       ArrivesInOrder /\ log' = log => \E i \in missing : FrameOf(i) = frame[Viewer][s].unTimestamp]_svars

Delivering == INSTANCE FrameDelivery WITH
  sent <- [t \in 1 .. stream.frames |-> SentSeqs(t)],
  out <- IF ArrivesInOrder THEN log ELSE <<>>

\* In order of arrival the organizer implements FrameDelivery.
DeliversInOrder == Delivering!Spec

Handled ==
  Cardinality({i \in Position : arrived[i] > 0}) - (IF inHand[Viewer] = Nothing THEN 0 ELSE 1)

\* As long as no packet is lost and they come in order, the application has
\* got, whole and in order, every frame whose last packet has been handled: a
\* complete frame never waits in the cache for a later one.
WholeStreamDelivered ==
  missing = {} /\ ArrivesInOrder =>
    log = [t \in 1 .. Handled \div stream.length |-> [unTimestamp |-> t, seqs |-> SentSeqs(t)]]
=============================================================================

---------------------------- MODULE TcpFraming ----------------------------
(***************************************************************************)
(* How mk_rtsp_connection::handle_recv cuts the bytes of the TCP           *)
(* connection into RTSP answers and interleaved RTP/RTCP packets           *)
(* (rtsp/mk_rtsp_connection.cpp, checkRtsp of rtsp/mk_rtsp_packet.cpp).    *)
(*                                                                         *)
(* The server's bytes are a sequence of units; only the unit a byte        *)
(* belongs to and its offset matter.  The network delivers them in         *)
(* segments of any size.  One call of handle_recv is Receive, a Process    *)
(* for each message in the buffer, and the end of the loop (Keep or a      *)
(* failure).                                                               *)
(***************************************************************************)
EXTENDS Integers, Sequences, FiniteSets, SequencesExt, FiniteSetsExt

CONSTANTS
  Streams,                     \* the sequences of units a server may send
  MAX_BYTES_PER_RECEIVE,       \* size of m_RecvTcpBuf
  RTP_RECV_BUF_SIZE,           \* size of a receive buffer
  RTSP_MSG_LENGTH,             \* a longer header must arrive at once
  RTSP_INTERLEAVE_HEADER_LEN,  \* '$', the channel and the length
  VersionLength,               \* length of "RTSP/1.0"
  UINT32,                      \* bound: the number of values of a uint32_t
  WholeBodies                  \* TRUE when no segment ends inside a body

ASSUME FramingConstants ==
  /\ UINT32 \in Nat /\ MAX_BYTES_PER_RECEIVE \in 1 .. UINT32 - 1
  /\ {RTP_RECV_BUF_SIZE, RTSP_MSG_LENGTH, RTSP_INTERLEAVE_HEADER_LEN, VersionLength} \subseteq Nat
  /\ WholeBodies \in BOOLEAN
  /\ RTSP_INTERLEAVE_HEADER_LEN > 0
  /\ RTSP_MSG_LENGTH <= MAX_BYTES_PER_RECEIVE

\* An answer has a header and, when it has a Content-Length, a body; the
\* session accepts it or not.  needed: how much of the body has to be there for
\* that, in a description up to the end of its first m= line for video or audio.
\* A packet's body is its payload.
Unit == [kind : {"rtsp", "rtp"}, head : Nat, body : Nat, needed : Nat, accepted : BOOLEAN]

Size(u) == u.head + u.body

\* An answer has a first line.  The 16 bits of a packet's length cannot express
\* more than m_RecvTcpBuf has room for.
ASSUME StreamsAssumption ==
  \A s \in Streams :
    /\ s \in Seq(Unit)
    /\ \A i \in DOMAIN s :
         /\ s[i].head > 0
         /\ s[i].needed <= s[i].body
         /\ s[i].kind = "rtp" => /\ s[i].head = RTSP_INTERLEAVE_HEADER_LEN
                                /\ Size(s[i]) <= MAX_BYTES_PER_RECEIVE

VARIABLES
  stream,         \* what the server sends on this connection
  arrived,        \* how many of its bytes have been received
  m_ulRecvSize,   \* how many bytes m_RecvTcpBuf holds
  processedSize,  \* how many of them this call has processed
  handled,        \* the units handled, by their place in the stream
  pc,             \* "idle", or "loop" inside handle_recv
  armed,          \* setHandleRecv
  m_enStatus      \* "RUNNING" or "TEARDOWN"

vars == <<stream, arrived, m_ulRecvSize, processedSize, handled, pc, armed, m_enStatus>>

\* The first byte of a unit, and of what would follow the last one.
StartOf(i) ==
  LET start[j \in 1 .. Len(stream) + 1] ==
        IF j = 1 THEN 0 ELSE start[j - 1] + Size(stream[j - 1])
  IN start[i]
Total == StartOf(Len(stream) + 1)

\* The units that start at a byte: one, or none when the byte is inside a unit.
UnitsAt(byte) == { i \in DOMAIN stream : StartOf(i) = byte }

Init ==
  /\ stream \in Streams
  /\ arrived = 0 /\ m_ulRecvSize = 0 /\ processedSize = 0 /\ handled = <<>>
  /\ pc = "idle" /\ armed = TRUE /\ m_enStatus = "RUNNING"

-----------------------------------------------------------------------------
(* The network: the client's requests are in lockstep with the answers, so  *)
(* the server sends an answer only when the one before has been handled.    *)

Answers   == { i \in DOMAIN stream : stream[i].kind = "rtsp" }
Unhandled == Answers \ Range(handled)
Sendable  == IF Cardinality(Unhandled) <= 1 THEN Total
             ELSE StartOf(Min(Unhandled \ {Min(Unhandled)}))

\* No segment ends at this byte.
Inside(byte) ==
  WholeBodies /\ \E i \in Answers : LET offset == byte - StartOf(i) IN
    stream[i].head <= offset /\ offset < Size(stream[i]) /\ stream[i].body > 0

Segments == { k \in 1 .. Sendable - arrived : ~Inside(arrived + k) }

-----------------------------------------------------------------------------
(* handle_recv *)

BufferStart == arrived - m_ulRecvSize

\* The handle is disarmed when the network service calls handle_recv.  With a
\* full buffer handle_recv would return without arming it again, for ever:
\* BufferNeverFull says that this does not happen.
Receive ==
  /\ pc = "idle" /\ armed
  /\ \E k \in Segments :
       /\ k <= MAX_BYTES_PER_RECEIVE - m_ulRecvSize
       /\ arrived' = arrived + k
       /\ m_ulRecvSize' = m_ulRecvSize + k
  /\ processedSize' = 0 /\ pc' = "loop" /\ armed' = FALSE
  /\ UNCHANGED <<stream, handled, m_enStatus>>

\* recv returns 0 or an error: the server has closed the connection.
PeerClosed ==
  /\ pc = "idle" /\ armed
  /\ armed' = FALSE /\ m_enStatus' = "TEARDOWN"
  /\ UNCHANGED <<stream, arrived, m_ulRecvSize, processedSize, handled, pc>>

Fail == -1

\* Mutant: a packet waits for a byte of the next one.
HandleRtpRtcpData_WaitsForMore(u, n) ==
  IF n < RTSP_INTERLEAVE_HEADER_LEN \/ n - RTSP_INTERLEAVE_HEADER_LEN <= u.body THEN 0
  ELSE IF u.body > RTP_RECV_BUF_SIZE THEN Fail
  ELSE u.body + RTSP_INTERLEAVE_HEADER_LEN

\* Mutant: a packet is taken as soon as its header is there.
HandleRtpRtcpData_NoWait(u, n) ==
  IF n < RTSP_INTERLEAVE_HEADER_LEN THEN 0
  ELSE IF u.body > RTP_RECV_BUF_SIZE THEN Fail
  ELSE u.body + RTSP_INTERLEAVE_HEADER_LEN

HandleRtpRtcpData(u, n) ==
  IF n < RTSP_INTERLEAVE_HEADER_LEN \/ n - RTSP_INTERLEAVE_HEADER_LEN < u.body THEN 0
  ELSE IF u.body > RTP_RECV_BUF_SIZE THEN Fail
  ELSE u.body + RTSP_INTERLEAVE_HEADER_LEN

\* What handleRtspResp makes of an answer whose header is there.  m_strContent is
\* what the buffer holds behind the header; decodeSdp skips a last line that has
\* no end, and fails when it has seen no stream by then.
Accepted(u, n) == u.accepted /\ n - u.head >= u.needed

\* Mutant: a header may be of any length.
CheckRtsp_NoLimit(u, n) ==
  IF n < u.head THEN (IF n < VersionLength THEN {Fail} ELSE {}) \cup {0}
  ELSE {IF Accepted(u, n) THEN Size(u) ELSE Fail}

\* checkRtsp.  When less than the version has arrived, strncmp reads on into
\* what an earlier message left in the buffer, and matches or not.  The length
\* it computes counts the body, whether it has arrived or not.
CheckRtsp(u, n) ==
  IF n < u.head
  THEN (IF n < VersionLength THEN {Fail} ELSE {})
       \cup {IF RTSP_MSG_LENGTH <= n THEN Fail ELSE 0}
  ELSE {IF Accepted(u, n) THEN Size(u) ELSE Fail}

ProcessRecvedMessage(u, n) ==
  IF u.kind = "rtp" THEN {HandleRtpRtcpData(u, n)} ELSE CheckRtsp(u, n)

\* Mutant: the loop is left after the first message.
More_Never(processed) == FALSE

\* The condition of the loop in handle_recv.
More(processed) == processed < m_ulRecvSize

\* Mutant: what has been processed stays in the buffer.
Kept_All(processed) == m_ulRecvSize

\* memmove of what is left, m_ulRecvSize = dataSize, both uint32_t.  When more was
\* processed than held, memmove runs off the buffer: what follows is undefined.
Kept(processed) == (m_ulRecvSize - processed) % UINT32

TornDown ==
  /\ pc' = "idle" /\ m_enStatus' = "TEARDOWN"
  /\ UNCHANGED <<m_ulRecvSize, processedSize, handled, armed>>

Keep(processed) ==
  /\ m_ulRecvSize' = Kept(processed)
  /\ processedSize' = processed
  /\ pc' = "idle" /\ armed' = TRUE
  /\ UNCHANGED m_enStatus

\* One round of the loop.  Bytes in the middle of a unit are no message.
Process ==
  /\ pc = "loop"
  /\ LET here == UnitsAt(BufferStart + processedSize)
         n    == m_ulRecvSize - processedSize
     IN  \/ here = {} /\ TornDown
         \/ \E i \in here : \E nSize \in ProcessRecvedMessage(stream[i], n) :
              \/ nSize = Fail /\ TornDown
              \/ nSize = 0 /\ Keep(processedSize) /\ UNCHANGED handled
              \/ /\ nSize > 0
                 /\ handled' = Append(handled, i)
                 /\ IF More(processedSize + nSize)
                    THEN /\ processedSize' = processedSize + nSize
                         /\ UNCHANGED <<m_ulRecvSize, pc, armed, m_enStatus>>
                    ELSE Keep(processedSize + nSize)
  /\ UNCHANGED <<stream, arrived>>

Next == Receive \/ PeerClosed \/ Process

Spec == Init /\ [][Next]_vars

\* The network service calls handle_recv while data waits, and it returns.
FairSpec == Spec /\ WF_vars(Receive) /\ WF_vars(Process)

-----------------------------------------------------------------------------
(* Properties. *)

\* Every variable has its type: in particular the sizes stay within the buffer.
TypeOK ==
  /\ stream \in Seq(Unit)
  /\ arrived \in 0 .. Total
  /\ m_ulRecvSize \in 0 .. MAX_BYTES_PER_RECEIVE
  /\ processedSize \in 0 .. MAX_BYTES_PER_RECEIVE
  /\ handled \in Seq(DOMAIN stream)
  /\ pc \in {"idle", "loop"} /\ armed \in BOOLEAN
  /\ m_enStatus \in {"RUNNING", "TEARDOWN"}

\* The units are handled in the order the server sent them, each once, none
\* left out, however the network cuts the stream.
HandledInOrder == \A i \in DOMAIN handled : handled[i] = i

\* When handle_recv waits for more data, no complete unit is left behind in
\* the buffer, and the buffer starts where a unit starts.
NothingCompleteWaits ==
  pc = "idle" /\ armed /\ m_ulRecvSize > 0 =>
    \E i \in UnitsAt(BufferStart) : m_ulRecvSize < Size(stream[i])

\* The buffer is never full when handle_recv is called: nothing it waits for is
\* as large as the buffer, so its early return, which stops the reception for
\* good, is not taken.
BufferNeverFull == pc = "idle" /\ armed => m_ulRecvSize < MAX_BYTES_PER_RECEIVE

\* An answer is handled only when its whole body has arrived, as the comment
\* "need more data deal" of processRecvedMessage says: otherwise handle_recv
\* would take more out of the buffer than is in it.
BodyIsWaitedFor ==
  \A i \in DOMAIN handled : StartOf(handled[i] + 1) <= arrived

\* The receiver does not stall: everything the server sends is handled, unless
\* the session is torn down.
EverythingHandled == <>(Len(handled) = Len(stream) \/ m_enStatus = "TEARDOWN")
=============================================================================

---------------------------- MODULE RtspSession ----------------------------
(***************************************************************************)
(* The RTSP client session of rtsp/mk_rtsp_connection.cpp: OPTIONS,        *)
(* DESCRIBE, one SETUP for each media stream, PLAY, with digest            *)
(* authentication, over connections that share the pool of RTP/RTCP port   *)
(* pairs of rtsp/mk_rtsp_service.cpp.                                      *)
(*                                                                         *)
(* The actors are the application (Create, Start, Stop, Destroy), the      *)
(* network thread of a connection (HandleRecv, ConnectionLost), the timer  *)
(* thread (CheckClient) and the server (Answer, AnswerAgain).  A step of   *)
(* the network thread handles one message: messages that arrive together   *)
(* are handled by one handle_recv, which is HandleRecv several times.      *)
(*                                                                         *)
(* A handler that may take more than one course returns the set of its     *)
(* outcomes, records with the connection and the pool it leaves and "ok",  *)
(* FALSE when the code returns AS_ERROR_CODE_FAIL.                         *)
(***************************************************************************)
EXTENDS Naturals, Sequences, FiniteSets, SequencesExt

CONSTANTS
  Conn,           \* the client connections
  PairCount,      \* the RTP/RTCP pairs of the pool
  Settings        \* what the server and the application do

Media == {"video", "audio"}

\* transports: the values m_bSetupTcp may have, FALSE for UDP.  describes: how
\* many streams of each kind the server describes.  failing: whether sending, or
\* opening a port, may fail.  Bounds: challenges, how often the server answers
\* 401 to a connection; repeats, how often it sends an answer again; created,
\* how many connections are created.
ASSUME SessionConstants ==
  /\ PairCount \in Nat
  /\ Settings \subseteq
       [transports : SUBSET BOOLEAN, describes : [Media -> Nat], failing : BOOLEAN,
        challenges : Nat, repeats : Nat, created : Nat]

RTSP_AUTH_TRY_MAX == 3
Methods == {"OPTIONS", "DESCRIBE", "SETUP", "PLAY"}
Pairs   == 0 .. PairCount - 1
NoPair  == PairCount
Closed  == [closed |-> TRUE]

VARIABLES
  setting,            \* one of Settings
  conn,               \* the connection objects, Closed when there is none
  m_RtpRtcpfreeList,  \* mk_rtsp_service's queue of free pairs
  answers,            \* what the server has written on each connection
  read,               \* how many of the answers the client has read
  created             \* how many connections have been created

vars == <<setting, conn, m_RtpRtcpfreeList, answers, read, created>>

NoStreams == [k \in Media |-> 0]
Answers   == [cseq : Nat, code : {"200", "401", "error"}, sdp : [Media -> Nat]]

NewConnection(tcp) ==
  [ m_bSetupTcp |-> tcp, m_Status |-> "INIT", m_enStatus |-> "MAX",
    m_SeqMethodMap |-> <<>>, m_ulAuthenTime |-> 0,
    m_sdpInfo |-> NoStreams, m_mediaInfoList |-> <<>>,
    m_udpHandles |-> [k \in Media |-> NoPair],
    registered |-> FALSE, recv |-> FALSE, m_bRegister |-> FALSE ]

Open(c) == conn[c] # Closed

\* The network service calls handle_recv on a connection that is registered
\* with it and whose handle is armed (setHandleRecv).
Reads(c) == Open(c) /\ conn[c].registered /\ conn[c].recv

Init ==
  /\ setting \in Settings
  /\ conn = [c \in Conn |-> Closed]
  /\ m_RtpRtcpfreeList = [i \in 1 .. PairCount |-> i - 1]
  /\ answers = [c \in Conn |-> <<>>]
  /\ read = [c \in Conn |-> 0]
  /\ created = 0

-----------------------------------------------------------------------------
(* Sending a request. *)

Attempts == IF setting.failing THEN BOOLEAN ELSE {TRUE}

Fail(s, free) == [session |-> s, free |-> free, ok |-> FALSE]

\* sendRtspReq: the CSeq is the request's place in m_SeqMethodMap, recorded
\* before the message is sent.
SendRtspReq(s, free, method) ==
  { [ session |-> [s EXCEPT !.m_SeqMethodMap = Append(@, method)],
      free |-> free, ok |-> sent ] : sent \in Attempts }

\* Mutant: the pair is kept only when both ports have been opened.
SetupOverUdp_LateHold(s, free) ==
  IF free = <<>>
  THEN { Fail(s, free) }
  ELSE LET holding == [s EXCEPT !.m_udpHandles[Head(s.m_mediaInfoList)] = Head(free)]
       IN  UNION { IF opened THEN SendRtspReq(holding, Tail(free), "SETUP")
                             ELSE { Fail(s, Tail(free)) } : opened \in Attempts }

\* get_rtp_rtcp_pair and start_handle on both handles: the pair stays with the
\* connection when a port cannot be opened.
SetupOverUdp(s, free) ==
  IF free = <<>>
  THEN { Fail(s, free) }
  ELSE LET holding == [s EXCEPT !.m_udpHandles[Head(s.m_mediaInfoList)] = Head(free)]
       IN  UNION { IF opened THEN SendRtspReq(holding, Tail(free), "SETUP")
                             ELSE { Fail(holding, Tail(free)) } : opened \in Attempts }

SendRtspSetupReq(s, free) ==
  IF s.m_bSetupTcp THEN SendRtspReq(s, free, "SETUP") ELSE SetupOverUdp(s, free)

\* The SETUP for the stream in front, which leaves the list once it is sent.
SetupNext(s, free) ==
  { IF o.ok THEN [o EXCEPT !.session.m_mediaInfoList = Tail(@)] ELSE o
      : o \in SendRtspSetupReq(s, free) }

-----------------------------------------------------------------------------
(* Handling an answer. *)

\* decodeSdp appends to what m_sdpInfo already holds; the video streams are
\* listed before the audio streams.
StreamList(sdp) ==
  [i \in 1 .. sdp["video"] + sdp["audio"] |-> IF i <= sdp["video"] THEN "video" ELSE "audio"]

HandleRtspDescribeResp(s, free, sdp) ==
  LET decoded == [k \in Media |-> s.m_sdpInfo[k] + sdp[k]]
      listed  == [s EXCEPT !.m_sdpInfo = decoded, !.m_mediaInfoList = StreamList(decoded)]
  IN  IF listed.m_mediaInfoList = <<>> THEN { Fail(listed, free) } ELSE SetupNext(listed, free)

\* Mutant: the last stream is forgotten.
HandleRtspSetUpResp_Early(s, free) ==
  IF Len(s.m_mediaInfoList) > 1
  THEN SetupNext(s, free)
  ELSE SendRtspReq([s EXCEPT !.m_Status = "SETUP", !.m_enStatus = "HANDSHAKE"], free, "PLAY")

\* Mutant: the else is missing, PLAY follows every SETUP.
HandleRtspSetUpResp_NoElse(s, free) ==
  UNION { SendRtspReq([o.session EXCEPT !.m_Status = "SETUP", !.m_enStatus = "HANDSHAKE"], o.free, "PLAY")
            : o \in IF s.m_mediaInfoList # <<>> THEN SetupNext(s, free)
                    ELSE { [session |-> s, free |-> free, ok |-> TRUE] } }

HandleRtspSetUpResp(s, free) ==
  IF s.m_mediaInfoList # <<>>
  THEN SetupNext(s, free)
  ELSE SendRtspReq([s EXCEPT !.m_Status = "SETUP", !.m_enStatus = "HANDSHAKE"], free, "PLAY")

\* Mutant: the attempts are not counted.
Authenticate_NotCounted(s, free, method) ==
  IF RTSP_AUTH_TRY_MAX < s.m_ulAuthenTime
  THEN { Fail(s, free) }
  ELSE { Fail(s, free) } \cup SendRtspReq(s, free, method)

\* The 401 branch: the digest may be refused by the parser, and the same method
\* is sent again with the default URI and no Transport or Session header.
Authenticate(s, free, method) ==
  IF RTSP_AUTH_TRY_MAX < s.m_ulAuthenTime
  THEN { Fail(s, free) }
  ELSE { Fail(s, free) }
       \cup SendRtspReq([s EXCEPT !.m_ulAuthenTime = @ + 1], free, method)

HandleOk(s, free, method, sdp) ==
  CASE method = "OPTIONS"  -> IF s.m_Status = "INIT" THEN SendRtspReq(s, free, "DESCRIBE")
                              ELSE { [session |-> s, free |-> free, ok |-> TRUE] }
    [] method = "DESCRIBE" -> HandleRtspDescribeResp(s, free, sdp)
    [] method = "SETUP"    -> HandleRtspSetUpResp(s, free)
    [] method = "PLAY"     -> { [ session |-> [s EXCEPT !.m_Status = "PLAY", !.m_enStatus = "RUNNING"],
                                  free |-> free, ok |-> TRUE ] }

\* The method is found by the answer's CSeq; an entry of the map is never erased.
HandleRtspResp(s, free, answer) ==
  IF answer.cseq >= Len(s.m_SeqMethodMap) THEN { Fail(s, free) }
  ELSE LET method == s.m_SeqMethodMap[answer.cseq + 1]
       IN  CASE answer.code = "401"   -> Authenticate(s, free, method)
             [] answer.code = "error" -> { Fail(s, free) }
             [] OTHER                 -> HandleOk(s, free, method, answer.sdp)

\* Mutant: reading is armed again after a failure.
AfterRecv_AlwaysArms(o) ==
  IF o.ok THEN [o.session EXCEPT !.recv = TRUE]
          ELSE [o.session EXCEPT !.recv = TRUE, !.m_enStatus = "TEARDOWN"]

\* Mutant: reading is not armed again after a message.
AfterRecv_NeverArms(o) ==
  IF o.ok THEN [o.session EXCEPT !.recv = FALSE]
          ELSE [o.session EXCEPT !.recv = FALSE, !.m_enStatus = "TEARDOWN"]

\* The end of handle_recv: TEARDOWN is reported and reading is not armed again
\* after a failure; after a success setHandleRecv(AS_TRUE) keeps it armed.
AfterRecv(o) ==
  IF o.ok THEN [o.session EXCEPT !.recv = TRUE]
          ELSE [o.session EXCEPT !.recv = FALSE, !.m_enStatus = "TEARDOWN"]

-----------------------------------------------------------------------------
(* The network thread. *)

HandleRecv(c) ==
  /\ Reads(c)
  /\ read[c] < Len(answers[c])
  /\ \E o \in HandleRtspResp(conn[c], m_RtpRtcpfreeList, answers[c][read[c] + 1]) :
       /\ conn' = [conn EXCEPT ![c] = AfterRecv(o)]
       /\ m_RtpRtcpfreeList' = o.free
  /\ read' = [read EXCEPT ![c] = @ + 1]
  /\ UNCHANGED <<setting, answers, created>>

\* recv returns 0 or an error, or the server sends a request, which
\* processRecvedMessage refuses.
ConnectionLost(c) ==
  /\ Reads(c)
  /\ conn' = [conn EXCEPT ![c].recv = FALSE, ![c].m_enStatus = "TEARDOWN"]
  /\ UNCHANGED <<setting, m_RtpRtcpfreeList, answers, read, created>>

(* The timer thread: nothing has been received for MK_CLIENT_RECV_TIMEOUT. *)
CheckClient(c) ==
  /\ Open(c) /\ conn[c].m_bRegister
  /\ conn' = [conn EXCEPT ![c].m_bRegister = FALSE, ![c].m_enStatus = "TIMEOUT"]
  /\ UNCHANGED <<setting, m_RtpRtcpfreeList, answers, read, created>>

-----------------------------------------------------------------------------
(* The application. *)

Create(c) ==
  /\ ~Open(c) /\ created < setting.created
  /\ \E tcp \in setting.transports : conn' = [conn EXCEPT ![c] = NewConnection(tcp)]
  /\ created' = created + 1
  /\ UNCHANGED <<setting, m_RtpRtcpfreeList, answers, read>>

\* start, then registerTimer when it succeeds.  A start that fails before the
\* connection is registered changes nothing.
Start(c) ==
  /\ Open(c) /\ conn[c].m_enStatus = "MAX"
  /\ \E o \in SendRtspReq([conn[c] EXCEPT !.m_enStatus = "CONNECTED"], m_RtpRtcpfreeList, "OPTIONS"),
        timer \in Attempts :
       conn' = [conn EXCEPT ![c] = [o.session EXCEPT !.registered = TRUE, !.recv = o.ok,
                                                     !.m_bRegister = o.ok /\ timer]]
  /\ UNCHANGED <<setting, m_RtpRtcpfreeList, answers, read, created>>

\* Mutant: a slot without a pair is freed too.
Returned_Unchecked(s) == <<s.m_udpHandles["video"], s.m_udpHandles["audio"]>>

Held(s, k) == IF s.m_udpHandles[k] = NoPair THEN <<>> ELSE <<s.m_udpHandles[k]>>

\* free_rtp_rtcp_pair for the video pair, then the audio pair.
Returned(s) == Held(s, "video") \o Held(s, "audio")

\* stop_recv.  stop_handle on the UDP handles returns at once: no code sets
\* their m_bRunning.
Stop(c) ==
  /\ Open(c) /\ conn[c].m_enStatus # "MAX"
  /\ conn' = [conn EXCEPT ![c].registered = FALSE, ![c].recv = FALSE, ![c].m_bRegister = FALSE]
  /\ UNCHANGED <<setting, m_RtpRtcpfreeList, answers, read, created>>

\* destory_client, which the application calls on a client it has stopped or
\* that has reported TEARDOWN.
Destroy(c) ==
  /\ Open(c) /\ (~conn[c].registered \/ conn[c].m_enStatus = "TEARDOWN")
  /\ conn' = [conn EXCEPT ![c] = Closed]
  /\ m_RtpRtcpfreeList' = m_RtpRtcpfreeList \o Returned(conn[c])
  /\ answers' = [answers EXCEPT ![c] = <<>>]
  /\ read' = [read EXCEPT ![c] = 0]
  /\ UNCHANGED <<setting, created>>

-----------------------------------------------------------------------------
(* The server: it answers the requests of a connection in order. *)

Answered(c)   == { answers[c][i].cseq : i \in DOMAIN answers[c] }
Challenges(c) == Cardinality({ i \in DOMAIN answers[c] : answers[c][i].code = "401" })
Repeats(c)    == Len(answers[c]) - Cardinality(Answered(c))

Answer(c) ==
  /\ Reads(c)
  /\ Cardinality(Answered(c)) < Len(conn[c].m_SeqMethodMap)
  /\ LET cseq == Cardinality(Answered(c))
         describes(code) == code = "200" /\ conn[c].m_SeqMethodMap[cseq + 1] = "DESCRIBE"
     IN  \E code \in {"200", "401", "error"} :
           /\ code = "401" => Challenges(c) < setting.challenges
           /\ answers' = [answers EXCEPT ![c] =
                Append(@, [cseq |-> cseq, code |-> code,
                           sdp |-> IF describes(code) THEN setting.describes ELSE NoStreams])]
  /\ UNCHANGED <<setting, conn, m_RtpRtcpfreeList, read, created>>

AnswerAgain(c) ==
  /\ Reads(c)
  /\ Repeats(c) < setting.repeats
  /\ \E i \in DOMAIN answers[c] : answers' = [answers EXCEPT ![c] = Append(@, answers[c][i])]
  /\ UNCHANGED <<setting, conn, m_RtpRtcpfreeList, read, created>>

Next ==
  \E c \in Conn :
    \/ Create(c) \/ Start(c) \/ Stop(c) \/ Destroy(c)
    \/ HandleRecv(c) \/ ConnectionLost(c) \/ CheckClient(c)
    \/ Answer(c) \/ AnswerAgain(c)

Spec == Init /\ [][Next]_vars

\* The network thread reads what has arrived, and the server answers.
FairSpec ==
  Spec /\ \A c \in Conn : WF_vars(HandleRecv(c)) /\ WF_vars(Answer(c))

-----------------------------------------------------------------------------
(* Properties. *)

Connection ==
  [ m_bSetupTcp : BOOLEAN, m_Status : {"INIT", "SETUP", "PLAY"},
    m_enStatus : {"MAX", "CONNECTED", "HANDSHAKE", "RUNNING", "TEARDOWN", "TIMEOUT"},
    m_SeqMethodMap : Seq(Methods), m_ulAuthenTime : 0 .. RTSP_AUTH_TRY_MAX + 1,
    m_sdpInfo : [Media -> Nat], m_mediaInfoList : Seq(Media),
    m_udpHandles : [Media -> Pairs \cup {NoPair}],
    registered : BOOLEAN, recv : BOOLEAN, m_bRegister : BOOLEAN ]

\* Every variable has its type; in particular a connection gives up
\* authentication before m_ulAuthenTime leaves its range.
TypeOK ==
  /\ setting \in Settings
  /\ conn \in [Conn -> Connection \cup {Closed}]
  /\ m_RtpRtcpfreeList \in Seq(Pairs)
  /\ answers \in [Conn -> Seq(Answers)]
  /\ read \in [Conn -> Nat]
  /\ created \in 0 .. setting.created

\* In how many places a pair is: on the free list and in the connections' slots.
Places(p) ==
  Cardinality({ i \in DOMAIN m_RtpRtcpfreeList : m_RtpRtcpfreeList[i] = p })
  + Cardinality({ slot \in { c \in Conn : Open(c) } \X Media : conn[slot[1]].m_udpHandles[slot[2]] = p })

\* A port pair is never in two places: not twice on the free list, not in two
\* streams, not free and in use (get_rtp_rtcp_pair, free_rtp_rtcp_pair, the
\* slots of m_udpHandles and the destructor).
PairsNeverShared == \A p \in Pairs : Places(p) <= 1

PlainServer == setting.repeats = 0 /\ \A k \in Media : setting.describes[k] <= 1

\* No pair is shared, and while the server describes at most one stream of each
\* kind and does not repeat answers, none is lost either, whichever step of a
\* handshake fails: each is free or held by one stream.
PairsOwnedOnce ==
  PairsNeverShared /\ (PlainServer => \A p \in Pairs : Places(p) = 1)

\* The requests of a method that a 200 the client has read answers.
Granted(c, method) ==
  { answers[c][i].cseq : i \in { j \in 1 .. read[c] :
      /\ answers[c][j].code = "200"
      /\ conn[c].m_SeqMethodMap[answers[c][j].cseq + 1] = method } }

Streams(s) == s.m_sdpInfo["video"] + s.m_sdpInfo["audio"]

\* HANDSHAKE and RUNNING are reported, and PLAY is asked for, only when the
\* server has granted a SETUP for every stream of its description; over UDP each
\* kind of stream then has a pair of its own.  The server repeats no answer.
PlayNeedsEverySetup ==
  setting.repeats = 0 =>
    \A c \in Conn : Open(c) /\ Contains(conn[c].m_SeqMethodMap, "PLAY") =>
      /\ Cardinality(Granted(c, "SETUP")) >= Streams(conn[c])
      /\ conn[c].m_bSetupTcp \/
           \A k \in Media : conn[c].m_sdpInfo[k] > 0 => conn[c].m_udpHandles[k] # NoPair

\* However often the server challenges a connection, it sends at most the
\* requests of one handshake and one more for each retry that
\* RTSP_AUTH_TRY_MAX leaves it.  The server repeats no answer.
RetriesBounded ==
  setting.repeats = 0 =>
    \A c \in Conn : Open(c) =>
      Len(conn[c].m_SeqMethodMap) <= 3 + Streams(conn[c]) + RTSP_AUTH_TRY_MAX + 1

\* A connection that has reported TEARDOWN asks for nothing more and takes no
\* pair: the failure is final until the application destroys it.
FailedIsFinal ==
  [][ \A c \in Conn :
        Open(c) /\ conn[c].m_enStatus = "TEARDOWN" /\ Open(c)' =>
          /\ conn'[c].m_SeqMethodMap = conn[c].m_SeqMethodMap
          /\ conn'[c].m_udpHandles = conn[c].m_udpHandles
          /\ conn'[c].m_enStatus \in {"TEARDOWN", "TIMEOUT"} ]_vars

\* The handshake is in lockstep: while the server answers each request once, the
\* client never has two requests waiting for an answer.
OneRequestAtATime ==
  setting.repeats = 0 =>
    \A c \in Conn : Open(c) => Len(conn[c].m_SeqMethodMap) <= read[c] + 1

\* A handshake does not hang: a started connection comes to RUNNING or reports
\* TEARDOWN or TIMEOUT, unless the application stops it.
HandshakeEnds ==
  \A c \in Conn :
    Reads(c) ~>
      (~Open(c) \/ ~conn[c].registered \/ conn[c].m_enStatus \in {"RUNNING", "TEARDOWN", "TIMEOUT"})
=============================================================================

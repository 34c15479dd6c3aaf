-------------------------- MODULE RtspSession_proofs --------------------------
(***************************************************************************)
(* The proof that port pairs are never shared between streams, and, while  *)
(* the server describes at most one stream of each kind and answers once,  *)
(* never lost; that requests and answers go in lockstep; and that a        *)
(* failure is final.  For any number of connections and pairs.             *)
(***************************************************************************)
EXTENDS RtspSession, SequenceTheorems, FiniteSetTheorems, TLAPS

Holds(c, k, p) == Open(c) /\ conn[c].m_udpHandles[k] = p
OnFreeList(p)  == \E i \in DOMAIN m_RtpRtcpfreeList : m_RtpRtcpfreeList[i] = p

\* PairsOwnedOnce, following one pair instead of counting its places.
PairsApart ==
  /\ \A i, j \in DOMAIN m_RtpRtcpfreeList :
       m_RtpRtcpfreeList[i] = m_RtpRtcpfreeList[j] => i = j
  /\ \A p \in Pairs : \A c \in Conn, k \in Media : Holds(c, k, p) => ~OnFreeList(p)
  /\ \A p \in Pairs : \A c, d \in Conn, k, l \in Media :
       Holds(c, k, p) /\ Holds(d, l, p) => c = d /\ k = l
  /\ PlainServer => \A p \in Pairs : OnFreeList(p) \/ \E c \in Conn, k \in Media : Holds(c, k, p)

\* What the status says of a connection: one that has not been started is as it
\* was created, and one that has reported TEARDOWN does not read.
StatusOK ==
  \A c \in Conn :
    /\ ~Open(c) => answers[c] = <<>> /\ read[c] = 0
    /\ Open(c) /\ conn[c].m_enStatus = "MAX" => conn[c] = NewConnection(conn[c].m_bSetupTcp)
    /\ Open(c) /\ conn[c].m_enStatus = "TEARDOWN" => ~conn[c].recv

\* While nothing is repeated, the server's answers have the CSeqs 0, 1, 2, ...,
\* and at most one request waits for an answer.
Lockstep ==
  setting.repeats = 0 =>
    \A c \in Conn :
      /\ read[c] <= Len(answers[c])
      /\ \A i \in DOMAIN answers[c] : answers[c][i].cseq = i - 1
      /\ Open(c) => Len(conn[c].m_SeqMethodMap) <= read[c] + 1

LastMethod(s) == s.m_SeqMethodMap[Len(s.m_SeqMethodMap)]
NoPairs       == [k \in Media |-> NoPair]

\* The streams that still wait for their SETUP are different and have no pair;
\* before the description has come there is no stream and no pair at all.
Ready(s) ==
  /\ s.m_SeqMethodMap # <<>>
  /\ LastMethod(s) \in {"OPTIONS", "DESCRIBE"} => s.m_sdpInfo = NoStreams /\ s.m_udpHandles = NoPairs
  /\ \A i \in DOMAIN s.m_mediaInfoList : s.m_udpHandles[s.m_mediaInfoList[i]] = NoPair
  /\ \A i, j \in DOMAIN s.m_mediaInfoList : s.m_mediaInfoList[i] = s.m_mediaInfoList[j] => i = j

AtMostOneOfEach(sdp) == \A k \in Media : sdp[k] <= 1

PlainOK ==
  PlainServer =>
    \A c \in Conn :
      /\ \A i \in DOMAIN answers[c] : AtMostOneOfEach(answers[c][i].sdp)
      /\ Open(c) /\ conn[c].recv => Ready(conn[c])

SessionInv == TypeOK /\ PairsApart /\ StatusOK /\ Lockstep /\ PlainOK

-----------------------------------------------------------------------------
(* What a handler leaves behind.                                           *)

\* No pair is taken, or the one in front of the free list goes into a slot.
TakesFromFront(s, free, o) ==
  \/ o.free = free /\ o.session.m_udpHandles = s.m_udpHandles
  \/ /\ free # <<>> /\ o.free = Tail(free)
     /\ \E k \in Media : o.session.m_udpHandles = [s.m_udpHandles EXCEPT ![k] = Head(free)]

AsksAtMostOnce(s, t) ==
  \/ t.m_SeqMethodMap = s.m_SeqMethodMap
  \/ \E m \in Methods : t.m_SeqMethodMap = Append(s.m_SeqMethodMap, m)

Results == [session : Connection, free : Seq(Pairs), ok : BOOLEAN]

\* What every outcome of every handler is, for a connection s and a free list.
Outcome(s, free, o) ==
  /\ o \in Results
  /\ o.session.m_enStatus \in {s.m_enStatus, "HANDSHAKE", "RUNNING"}
  /\ TakesFromFront(s, free, o)
  /\ AsksAtMostOnce(s, o.session)

\* What it is besides when the answer is the one to the last request.
FillsEmptySlots(s, o) ==
  /\ \A k \in Media : o.session.m_udpHandles[k] # s.m_udpHandles[k] => s.m_udpHandles[k] = NoPair
  /\ o.ok => Ready(o.session)

LEMMA PairFacts == NoPair \in Nat /\ NoPair \notin Pairs /\ Pairs \subseteq Nat
BY SessionConstants DEF NoPair, Pairs

LEMMA FailOutcome ==
  ASSUME NEW s \in Connection, NEW free \in Seq(Pairs)
  PROVE  Outcome(s, free, Fail(s, free)) /\ FillsEmptySlots(s, Fail(s, free))
BY DEF Outcome, Results, FillsEmptySlots, Fail, TakesFromFront, AsksAtMostOnce

\* t is s after a request: the list of methods has changed only.
Requested(s, t, method) ==
  /\ t \in Connection
  /\ t.m_SeqMethodMap = Append(s.m_SeqMethodMap, method)
  /\ LastMethod(t) = method /\ t.m_SeqMethodMap # <<>>
  /\ t.m_enStatus = s.m_enStatus /\ t.m_udpHandles = s.m_udpHandles
  /\ t.m_mediaInfoList = s.m_mediaInfoList /\ t.m_sdpInfo = s.m_sdpInfo
  /\ t.m_bSetupTcp = s.m_bSetupTcp /\ t.m_ulAuthenTime = s.m_ulAuthenTime

LEMMA SendRtspReqShape ==
  ASSUME NEW s \in Connection, NEW free \in Seq(Pairs), NEW method \in Methods,
         NEW o \in SendRtspReq(s, free, method)
  PROVE  Requested(s, o.session, method) /\ o.free = free /\ o \in Results
<1>1. PICK sent \in Attempts :
        o = [session |-> [s EXCEPT !.m_SeqMethodMap = Append(@, method)], free |-> free, ok |-> sent]
  BY DEF SendRtspReq
<1>2. sent \in BOOLEAN
  BY DEF Attempts
<1>3. s.m_SeqMethodMap \in Seq(Methods)
  BY DEF Connection
<1>4. Append(s.m_SeqMethodMap, method) \in Seq(Methods)
  BY <1>3
<1>5. o.session = [s EXCEPT !.m_SeqMethodMap = Append(@, method)]
  BY <1>1
<1>6. o.session \in Connection
  BY <1>5, <1>4 DEF Connection
<1>7. /\ o.session.m_SeqMethodMap = Append(s.m_SeqMethodMap, method)
      /\ o.session.m_enStatus = s.m_enStatus /\ o.session.m_udpHandles = s.m_udpHandles
      /\ o.session.m_mediaInfoList = s.m_mediaInfoList /\ o.session.m_sdpInfo = s.m_sdpInfo
      /\ o.session.m_bSetupTcp = s.m_bSetupTcp /\ o.session.m_ulAuthenTime = s.m_ulAuthenTime
  BY <1>5 DEF Connection
<1>8. LastMethod(o.session) = method /\ o.session.m_SeqMethodMap # <<>>
  BY <1>7, <1>3 DEF LastMethod
<1> QED
  BY <1>1, <1>2, <1>6, <1>7, <1>8 DEF Requested, Results

\* Sending a request keeps the rest of the outcome, when t differs from s in
\* status and description only.
LEMMA SendRtspReqOutcome ==
  ASSUME NEW s \in Connection, NEW t \in Connection, NEW free \in Seq(Pairs), NEW method \in Methods,
         NEW o \in SendRtspReq(t, free, method),
         t.m_SeqMethodMap = s.m_SeqMethodMap, t.m_udpHandles = s.m_udpHandles,
         t.m_enStatus \in {s.m_enStatus, "HANDSHAKE", "RUNNING"}
  PROVE  Outcome(s, free, o)
<1>1. Requested(t, o.session, method) /\ o.free = free /\ o \in Results
  BY SendRtspReqShape
<1> QED
  BY <1>1 DEF Outcome, TakesFromFront, AsksAtMostOnce, Requested

\* What keeps a connection ready when a request is sent.
LEMMA SendRtspReqReady ==
  ASSUME NEW t \in Connection, NEW free \in Seq(Pairs), NEW method \in Methods,
         NEW o \in SendRtspReq(t, free, method),
         method \in {"OPTIONS", "DESCRIBE"} => t.m_sdpInfo = NoStreams /\ t.m_udpHandles = NoPairs,
         \A i \in DOMAIN t.m_mediaInfoList : t.m_udpHandles[t.m_mediaInfoList[i]] = NoPair,
         \A i, j \in DOMAIN t.m_mediaInfoList : t.m_mediaInfoList[i] = t.m_mediaInfoList[j] => i = j
  PROVE  Ready(o.session)
<1>1. Requested(t, o.session, method)
  BY SendRtspReqShape
<1> QED
  BY <1>1 DEF Ready, Requested

-----------------------------------------------------------------------------
(* SETUP.                                                                  *)

\* t is s with its streams listed.
Listed(s, t) ==
  /\ t \in Connection /\ t.m_mediaInfoList # <<>>
  /\ t.m_SeqMethodMap = s.m_SeqMethodMap /\ t.m_udpHandles = s.m_udpHandles
  /\ t.m_enStatus = s.m_enStatus

\* The SETUP for the stream in front: it may be sent, and over UDP the stream may
\* get the pair in front of the free list.
SetupStep(t, free, o) ==
  /\ o \in Results
  /\ o.session.m_enStatus = t.m_enStatus /\ o.session.m_sdpInfo = t.m_sdpInfo
  /\ o.session.m_bSetupTcp = t.m_bSetupTcp /\ o.session.m_ulAuthenTime = t.m_ulAuthenTime
  /\ \/ o.session.m_SeqMethodMap = t.m_SeqMethodMap /\ ~o.ok
     \/ o.session.m_SeqMethodMap = Append(t.m_SeqMethodMap, "SETUP")
  /\ \/ /\ t.m_bSetupTcp \/ ~o.ok
        /\ o.free = free /\ o.session.m_udpHandles = t.m_udpHandles
     \/ /\ free # <<>> /\ o.free = Tail(free)
        /\ o.session.m_udpHandles = [t.m_udpHandles EXCEPT ![Head(t.m_mediaInfoList)] = Head(free)]

LEMMA SendRtspSetupReqShape ==
  ASSUME NEW t \in Connection, t.m_mediaInfoList # <<>>, NEW free \in Seq(Pairs),
         NEW o \in SendRtspSetupReq(t, free)
  PROVE  SetupStep(t, free, o) /\ o.session.m_mediaInfoList = t.m_mediaInfoList
<1>m. "SETUP" \in Methods
  BY DEF Methods
<1>1. CASE t.m_bSetupTcp
  <2>1. o \in SendRtspReq(t, free, "SETUP")
    BY <1>1 DEF SendRtspSetupReq
  <2>2. Requested(t, o.session, "SETUP") /\ o.free = free /\ o \in Results
    BY <2>1, <1>m, SendRtspReqShape
  <2> QED
    BY <1>1, <2>2 DEF Requested, SetupStep
<1>2. CASE ~t.m_bSetupTcp /\ free = <<>>
  <2>1. o = Fail(t, free)
    BY <1>2 DEF SendRtspSetupReq, SetupOverUdp
  <2> QED
    BY <2>1 DEF Fail, SetupStep, Results
<1>3. CASE ~t.m_bSetupTcp /\ free # <<>>
  <2> DEFINE handles == [t.m_udpHandles EXCEPT ![Head(t.m_mediaInfoList)] = Head(free)]
             holding == [t EXCEPT !.m_udpHandles[Head(t.m_mediaInfoList)] = Head(free)]
  <2>1. PICK opened \in Attempts :
          o \in IF opened THEN SendRtspReq(holding, Tail(free), "SETUP") ELSE { Fail(holding, Tail(free)) }
    BY <1>3 DEF SendRtspSetupReq, SetupOverUdp
  <2>t. Tail(free) \in Seq(Pairs)
    BY <1>3
  <2>2. Head(t.m_mediaInfoList) \in Media /\ Head(free) \in Pairs
    BY <1>3 DEF Connection
  <2>3. t.m_udpHandles \in [Media -> Pairs \cup {NoPair}]
    BY DEF Connection
  <2>4. handles \in [Media -> Pairs \cup {NoPair}]
    BY <2>2, <2>3
  <2>5. holding = [t EXCEPT !.m_udpHandles = handles]
    BY DEF Connection
  <2>6. /\ holding \in Connection /\ holding.m_udpHandles = handles
        /\ holding.m_enStatus = t.m_enStatus /\ holding.m_sdpInfo = t.m_sdpInfo
        /\ holding.m_bSetupTcp = t.m_bSetupTcp /\ holding.m_ulAuthenTime = t.m_ulAuthenTime
        /\ holding.m_mediaInfoList = t.m_mediaInfoList
        /\ holding.m_SeqMethodMap = t.m_SeqMethodMap
    BY <2>4, <2>5 DEF Connection
  <2> HIDE DEF holding, handles
  <2>7. CASE opened
    <3>1. Requested(holding, o.session, "SETUP") /\ o.free = Tail(free) /\ o \in Results
      BY <2>1, <2>6, <2>7, <2>t, <1>m, SendRtspReqShape
    <3> QED
      BY <1>3, <2>t, <2>6, <3>1 DEF handles, Requested, SetupStep
  <2>8. CASE ~opened
    <3>1. o = Fail(holding, Tail(free))
      BY <2>1, <2>8
    <3> QED
      BY <1>3, <2>t, <2>6, <3>1 DEF Fail, handles, SetupStep, Results
  <2> QED
    BY <2>7, <2>8
<1> QED
  BY <1>1, <1>2, <1>3

LEMMA SetupNextShape ==
  ASSUME NEW t \in Connection, t.m_mediaInfoList # <<>>, NEW free \in Seq(Pairs),
         NEW o \in SetupNext(t, free)
  PROVE  /\ SetupStep(t, free, o)
         /\ o.ok => o.session.m_mediaInfoList = Tail(t.m_mediaInfoList)
<1>1. PICK q \in SendRtspSetupReq(t, free) : o = IF q.ok THEN [q EXCEPT !.session.m_mediaInfoList = Tail(@)] ELSE q
  BY DEF SetupNext
<1>2. SetupStep(t, free, q) /\ q.session.m_mediaInfoList = t.m_mediaInfoList
  BY SendRtspSetupReqShape
<1>3. CASE ~q.ok
  BY <1>1, <1>2, <1>3 DEF SetupStep
<1>4. CASE q.ok
  <2> DEFINE left == [q.session EXCEPT !.m_mediaInfoList = Tail(@)]
  <2>1. o = [q EXCEPT !.session = left]
    BY <1>1, <1>4
  <2>2. o.session = left /\ o.ok = q.ok /\ o.free = q.free
    BY <1>2, <2>1 DEF SetupStep, Results
  <2>3. Tail(t.m_mediaInfoList) \in Seq(Media)
    BY DEF Connection
  <2>4. /\ left \in Connection
        /\ left.m_mediaInfoList = Tail(t.m_mediaInfoList)
        /\ left.m_enStatus = q.session.m_enStatus /\ left.m_sdpInfo = q.session.m_sdpInfo
        /\ left.m_bSetupTcp = q.session.m_bSetupTcp
        /\ left.m_ulAuthenTime = q.session.m_ulAuthenTime
        /\ left.m_SeqMethodMap = q.session.m_SeqMethodMap
        /\ left.m_udpHandles = q.session.m_udpHandles
    BY <1>2, <2>3 DEF SetupStep, Results, Connection
  <2>5. o \in Results
    BY <1>2, <2>1, <2>4 DEF SetupStep, Results
  <2> HIDE DEF left
  <2> QED
    BY <1>2, <2>2, <2>4, <2>5 DEF SetupStep
<1> QED
  BY <1>3, <1>4

\* The streams of t are different and have no pair.
StreamsWait(t) ==
  /\ \A i \in DOMAIN t.m_mediaInfoList : t.m_udpHandles[t.m_mediaInfoList[i]] = NoPair
  /\ \A i, j \in DOMAIN t.m_mediaInfoList : t.m_mediaInfoList[i] = t.m_mediaInfoList[j] => i = j

LEMMA SetupNextOutcome ==
  ASSUME NEW s \in Connection, NEW t, Listed(s, t), NEW free \in Seq(Pairs), NEW o \in SetupNext(t, free)
  PROVE  Outcome(s, free, o) /\ (StreamsWait(t) => FillsEmptySlots(s, o))
<1>1. /\ SetupStep(t, free, o)
      /\ o.ok => o.session.m_mediaInfoList = Tail(t.m_mediaInfoList)
  BY SetupNextShape DEF Listed
<1>2. Head(t.m_mediaInfoList) \in Media
  BY DEF Listed, Connection
<1>3. Outcome(s, free, o)
  <2>1. TakesFromFront(s, free, o)
    BY <1>1, <1>2 DEF SetupStep, TakesFromFront, Listed
  <2>2. AsksAtMostOnce(s, o.session)
    BY <1>1 DEF SetupStep, AsksAtMostOnce, Listed, Methods
  <2> QED
    BY <1>1, <2>1, <2>2 DEF SetupStep, Outcome, Listed
<1>4. ASSUME StreamsWait(t)
      PROVE  FillsEmptySlots(s, o)
  <2> DEFINE list == t.m_mediaInfoList
  <2>0. list \in Seq(Media) /\ list # <<>>
    BY DEF Listed, Connection
  <2>h. t.m_udpHandles \in [Media -> Pairs \cup {NoPair}] /\ t.m_udpHandles = s.m_udpHandles
    BY DEF Listed, Connection
  <2>1. Head(list) = list[1] /\ 1 \in DOMAIN list
    BY <2>0
  <2>2. t.m_udpHandles[Head(list)] = NoPair
    BY <1>4, <2>1 DEF StreamsWait
  <2>3. \A k \in Media \ {Head(list)} : o.session.m_udpHandles[k] = s.m_udpHandles[k]
    BY <1>1, <2>h DEF SetupStep
  <2>4. ASSUME o.ok PROVE Ready(o.session)
    <3>1. o.session.m_mediaInfoList = Tail(list)
      BY <1>1, <2>4
    <3>2. \A i \in DOMAIN Tail(list) : i + 1 \in DOMAIN list /\ Tail(list)[i] = list[i + 1] /\ i + 1 # 1
      BY <2>0
    <3>3. \A i \in DOMAIN Tail(list) : Tail(list)[i] # Head(list) /\ Tail(list)[i] \in Media
      BY <1>4, <2>0, <2>1, <3>2 DEF StreamsWait
    <3>4. \A i \in DOMAIN Tail(list) : o.session.m_udpHandles[Tail(list)[i]] = NoPair
      BY <1>4, <2>3, <2>h, <3>2, <3>3 DEF StreamsWait
    <3>d. Tail(list) \in Seq(Media) /\ DOMAIN Tail(list) \subseteq Nat
      BY <2>0
    <3>5. \A i, j \in DOMAIN Tail(list) : Tail(list)[i] = Tail(list)[j] => i = j
      <4> SUFFICES ASSUME NEW i \in DOMAIN Tail(list), NEW j \in DOMAIN Tail(list), Tail(list)[i] = Tail(list)[j]
                   PROVE  i = j
        OBVIOUS
      <4>1. i + 1 = j + 1
        BY <1>4, <3>2 DEF StreamsWait
      <4> QED
        BY <4>1, <3>d
    <3>6. o.session.m_SeqMethodMap = Append(t.m_SeqMethodMap, "SETUP")
      BY <1>1, <2>4 DEF SetupStep
    <3>7. t.m_SeqMethodMap \in Seq(Methods)
      BY DEF Listed, Connection
    <3>8. o.session.m_SeqMethodMap # <<>> /\ LastMethod(o.session) = "SETUP"
      BY <3>6, <3>7 DEF LastMethod
    <3> QED
      BY <3>1, <3>4, <3>5, <3>8 DEF Ready
  <2> QED
    BY <2>2, <2>3, <2>4, <2>h DEF FillsEmptySlots
<1> QED
  BY <1>3, <1>4

-----------------------------------------------------------------------------
(* The answers.                                                            *)

LEMMA StreamListShape ==
  ASSUME NEW sdp \in [Media -> Nat]
  PROVE  /\ StreamList(sdp) \in Seq(Media)
         /\ AtMostOneOfEach(sdp) =>
              \A i, j \in DOMAIN StreamList(sdp) : StreamList(sdp)[i] = StreamList(sdp)[j] => i = j
<1>1. sdp["video"] \in Nat /\ sdp["audio"] \in Nat
  BY DEF Media
<1>2. \A i \in 1 .. sdp["video"] + sdp["audio"] : (IF i <= sdp["video"] THEN "video" ELSE "audio") \in Media
  BY DEF Media
<1>3. StreamList(sdp) \in Seq(Media)
  BY <1>1, <1>2 DEF StreamList
<1>4. ASSUME AtMostOneOfEach(sdp)
      PROVE  \A i, j \in DOMAIN StreamList(sdp) : StreamList(sdp)[i] = StreamList(sdp)[j] => i = j
  <2>1. sdp["video"] <= 1 /\ sdp["audio"] <= 1
    BY <1>4 DEF AtMostOneOfEach, Media
  <2>2. DOMAIN StreamList(sdp) = 1 .. sdp["video"] + sdp["audio"]
    BY DEF StreamList
  <2> QED
    BY <1>1, <2>1, <2>2 DEF StreamList
<1> QED
  BY <1>3, <1>4

LEMMA DescribeOutcome ==
  ASSUME NEW s \in Connection, NEW free \in Seq(Pairs), NEW sdp \in [Media -> Nat],
         NEW o \in HandleRtspDescribeResp(s, free, sdp)
  PROVE  /\ Outcome(s, free, o)
         /\ AtMostOneOfEach(sdp) /\ s.m_sdpInfo = NoStreams /\ s.m_udpHandles = NoPairs =>
              FillsEmptySlots(s, o)
<1> DEFINE decoded == [k \in Media |-> s.m_sdpInfo[k] + sdp[k]]
           listed  == [s EXCEPT !.m_sdpInfo = decoded, !.m_mediaInfoList = StreamList(decoded)]
<1>1. s.m_sdpInfo \in [Media -> Nat]
  BY DEF Connection
<1>2. decoded \in [Media -> Nat]
  BY <1>1
<1>3. StreamList(decoded) \in Seq(Media)
  BY <1>2, StreamListShape
<1>4. o \in IF listed.m_mediaInfoList = <<>> THEN { Fail(listed, free) } ELSE SetupNext(listed, free)
  BY DEF HandleRtspDescribeResp
<1>w. AtMostOneOfEach(sdp) /\ s.m_sdpInfo = NoStreams => AtMostOneOfEach(decoded)
  BY DEF AtMostOneOfEach, NoStreams
<1> HIDE DEF decoded
<1>5. /\ listed \in Connection /\ listed.m_mediaInfoList = StreamList(decoded)
      /\ listed.m_SeqMethodMap = s.m_SeqMethodMap /\ listed.m_udpHandles = s.m_udpHandles
      /\ listed.m_enStatus = s.m_enStatus
  BY <1>2, <1>3 DEF Connection
<1> HIDE DEF listed
<1>6. CASE listed.m_mediaInfoList = <<>>
  <2>1. o = Fail(listed, free)
    BY <1>4, <1>6
  <2> QED
    BY <2>1, <1>5 DEF Fail, Outcome, Results, TakesFromFront, AsksAtMostOnce, FillsEmptySlots
<1>7. CASE listed.m_mediaInfoList # <<>>
  <2>1. o \in SetupNext(listed, free) /\ Listed(s, listed)
    BY <1>4, <1>5, <1>7 DEF Listed
  <2>2. Outcome(s, free, o) /\ (StreamsWait(listed) => FillsEmptySlots(s, o))
    BY <2>1, SetupNextOutcome
  <2>3. ASSUME AtMostOneOfEach(sdp), s.m_sdpInfo = NoStreams, s.m_udpHandles = NoPairs
        PROVE  StreamsWait(listed)
    <3>1. \A i \in DOMAIN listed.m_mediaInfoList : listed.m_mediaInfoList[i] \in Media
      BY <1>3, <1>5
    <3>2. \A i \in DOMAIN listed.m_mediaInfoList : listed.m_udpHandles[listed.m_mediaInfoList[i]] = NoPair
      BY <1>5, <2>3, <3>1 DEF NoPairs
    <3>3. \A i, j \in DOMAIN StreamList(decoded) : StreamList(decoded)[i] = StreamList(decoded)[j] => i = j
      BY <1>2, <1>w, <2>3, StreamListShape
    <3> QED
      BY <1>5, <3>2, <3>3 DEF StreamsWait
  <2> QED
    BY <2>2, <2>3
<1> QED
  BY <1>6, <1>7

LEMMA SetUpRespOutcome ==
  ASSUME NEW s \in Connection, NEW free \in Seq(Pairs), NEW o \in HandleRtspSetUpResp(s, free)
  PROVE  Outcome(s, free, o) /\ (Ready(s) => FillsEmptySlots(s, o))
<1>1. CASE s.m_mediaInfoList # <<>>
  <2>1. o \in SetupNext(s, free) /\ Listed(s, s)
    BY <1>1 DEF HandleRtspSetUpResp, Listed
  <2> QED
    BY <2>1, SetupNextOutcome DEF Ready, StreamsWait
<1>2. CASE s.m_mediaInfoList = <<>>
  <2> DEFINE t == [s EXCEPT !.m_Status = "SETUP", !.m_enStatus = "HANDSHAKE"]
  <2>1. o \in SendRtspReq(t, free, "PLAY")
    BY <1>2 DEF HandleRtspSetUpResp
  <2>2. /\ t \in Connection /\ t.m_SeqMethodMap = s.m_SeqMethodMap /\ t.m_udpHandles = s.m_udpHandles
        /\ t.m_enStatus = "HANDSHAKE" /\ t.m_mediaInfoList = <<>>
    BY <1>2 DEF Connection
  <2> HIDE DEF t
  <2>m. "PLAY" \in Methods
    BY DEF Methods
  <2>3. Outcome(s, free, o)
    BY <2>1, <2>2, <2>m, SendRtspReqOutcome
  <2>4. Requested(t, o.session, "PLAY")
    BY <2>1, <2>2, <2>m, SendRtspReqShape
  <2>5. Ready(o.session)
    BY <2>2, <2>4 DEF Requested, Ready
  <2> QED
    BY <2>2, <2>3, <2>4, <2>5 DEF Requested, FillsEmptySlots
<1> QED
  BY <1>1, <1>2

\* An outcome that sends nothing and changes at most the status.
LEMMA StatusOutcome ==
  ASSUME NEW s \in Connection, NEW free \in Seq(Pairs), NEW t \in Connection, NEW o,
         o = [session |-> t, free |-> free, ok |-> TRUE],
         t.m_SeqMethodMap = s.m_SeqMethodMap, t.m_udpHandles = s.m_udpHandles,
         t.m_mediaInfoList = s.m_mediaInfoList, t.m_sdpInfo = s.m_sdpInfo,
         t.m_enStatus \in {s.m_enStatus, "HANDSHAKE", "RUNNING"}
  PROVE  Outcome(s, free, o) /\ (Ready(s) => FillsEmptySlots(s, o))
<1>1. Outcome(s, free, o)
  BY DEF Outcome, Results, TakesFromFront, AsksAtMostOnce
<1>2. Ready(s) => Ready(t)
  BY DEF Ready, LastMethod
<1> QED
  BY <1>1, <1>2 DEF FillsEmptySlots

LEMMA AuthenticateOutcome ==
  ASSUME NEW s \in Connection, NEW free \in Seq(Pairs), NEW method \in Methods,
         NEW o \in Authenticate(s, free, method)
  PROVE  /\ Outcome(s, free, o)
         /\ Ready(s) /\ method = LastMethod(s) => FillsEmptySlots(s, o)
<1>1. CASE o = Fail(s, free)
  BY <1>1, FailOutcome
<1>2. CASE o # Fail(s, free)
  <2> DEFINE t == [s EXCEPT !.m_ulAuthenTime = @ + 1]
  <2>1. o \in SendRtspReq(t, free, method) /\ ~(RTSP_AUTH_TRY_MAX < s.m_ulAuthenTime)
    BY <1>2 DEF Authenticate
  <2>2. s.m_ulAuthenTime + 1 \in 0 .. RTSP_AUTH_TRY_MAX + 1
    BY <2>1 DEF Connection, RTSP_AUTH_TRY_MAX
  <2>3. /\ t \in Connection /\ t.m_SeqMethodMap = s.m_SeqMethodMap /\ t.m_udpHandles = s.m_udpHandles
        /\ t.m_mediaInfoList = s.m_mediaInfoList /\ t.m_sdpInfo = s.m_sdpInfo
        /\ t.m_enStatus = s.m_enStatus
    BY <2>2 DEF Connection
  <2> HIDE DEF t
  <2>4. Outcome(s, free, o)
    BY <2>1, <2>3, SendRtspReqOutcome
  <2>5. Requested(t, o.session, method)
    BY <2>1, <2>3, SendRtspReqShape
  <2>6. Ready(s) /\ method = LastMethod(s) => Ready(o.session)
    BY <2>3, <2>5 DEF Requested, Ready
  <2> QED
    BY <2>3, <2>4, <2>5, <2>6 DEF Requested, FillsEmptySlots
<1> QED
  BY <1>1, <1>2

LEMMA HandleOkOutcome ==
  ASSUME NEW s \in Connection, NEW free \in Seq(Pairs), NEW method \in Methods,
         NEW sdp \in [Media -> Nat], NEW o \in HandleOk(s, free, method, sdp)
  PROVE  /\ Outcome(s, free, o)
         /\ Ready(s) /\ method = LastMethod(s) /\ AtMostOneOfEach(sdp) => FillsEmptySlots(s, o)
<1>1. CASE method = "OPTIONS"
  <2>1. CASE s.m_Status = "INIT"
    <3>1. o \in SendRtspReq(s, free, "DESCRIBE")
      BY <1>1, <2>1 DEF HandleOk
    <3>2. "DESCRIBE" \in Methods
      BY DEF Methods
    <3>3. Outcome(s, free, o)
      BY <3>1, <3>2, SendRtspReqOutcome
    <3>4. Requested(s, o.session, "DESCRIBE")
      BY <3>1, <3>2, SendRtspReqShape
    <3>5. Ready(s) /\ method = LastMethod(s) => Ready(o.session)
      BY <1>1, <3>4 DEF Requested, Ready
    <3> QED
      BY <3>3, <3>4, <3>5 DEF Requested, FillsEmptySlots
  <2>2. CASE s.m_Status # "INIT"
    <3>1. o = [session |-> s, free |-> free, ok |-> TRUE]
      BY <1>1, <2>2 DEF HandleOk
    <3> QED
      BY <3>1, StatusOutcome
  <2> QED
    BY <2>1, <2>2
<1>2. CASE method = "DESCRIBE"
  <2>1. o \in HandleRtspDescribeResp(s, free, sdp)
    BY <1>2 DEF HandleOk
  <2> QED
    BY <1>2, <2>1, DescribeOutcome DEF Ready
<1>3. CASE method = "SETUP"
  <2>1. o \in HandleRtspSetUpResp(s, free)
    BY <1>3 DEF HandleOk
  <2> QED
    BY <2>1, SetUpRespOutcome
<1>4. CASE method = "PLAY"
  <2> DEFINE t == [s EXCEPT !.m_Status = "PLAY", !.m_enStatus = "RUNNING"]
  <2>1. o = [session |-> t, free |-> free, ok |-> TRUE]
    BY <1>4 DEF HandleOk
  <2>2. /\ t \in Connection /\ t.m_SeqMethodMap = s.m_SeqMethodMap /\ t.m_udpHandles = s.m_udpHandles
        /\ t.m_mediaInfoList = s.m_mediaInfoList /\ t.m_sdpInfo = s.m_sdpInfo
        /\ t.m_enStatus = "RUNNING"
    BY DEF Connection
  <2> HIDE DEF t
  <2> QED
    BY <2>1, <2>2, StatusOutcome
<1> QED
  BY <1>1, <1>2, <1>3, <1>4 DEF Methods

\* The answer is the one to the last request, or to none.
AnswersTheLast(s, answer) == answer.cseq + 1 >= Len(s.m_SeqMethodMap)

LEMMA HandleRtspRespOutcome ==
  ASSUME NEW s \in Connection, NEW free \in Seq(Pairs), NEW answer \in Answers,
         NEW o \in HandleRtspResp(s, free, answer)
  PROVE  /\ Outcome(s, free, o)
         /\ Ready(s) /\ AnswersTheLast(s, answer) /\ AtMostOneOfEach(answer.sdp) => FillsEmptySlots(s, o)
<1>0. /\ answer.cseq \in Nat /\ answer.code \in {"200", "401", "error"} /\ answer.sdp \in [Media -> Nat]
      /\ s.m_SeqMethodMap \in Seq(Methods)
  BY DEF Answers, Connection
<1>1. CASE answer.cseq >= Len(s.m_SeqMethodMap)
  <2>1. o = Fail(s, free)
    BY <1>1 DEF HandleRtspResp
  <2> QED
    BY <2>1, FailOutcome
<1>2. CASE ~(answer.cseq >= Len(s.m_SeqMethodMap))
  <2> DEFINE method == s.m_SeqMethodMap[answer.cseq + 1]
  <2>1. method \in Methods
    BY <1>0, <1>2
  <2>2. AnswersTheLast(s, answer) => method = LastMethod(s)
    <3> SUFFICES ASSUME AnswersTheLast(s, answer) PROVE answer.cseq + 1 = Len(s.m_SeqMethodMap)
      BY DEF LastMethod
    <3> QED
      BY <1>0, <1>2 DEF AnswersTheLast
  <2>3. o \in CASE answer.code = "401"   -> Authenticate(s, free, method)
                [] answer.code = "error" -> { Fail(s, free) }
                [] OTHER                 -> HandleOk(s, free, method, answer.sdp)
    BY <1>2 DEF HandleRtspResp
  <2> HIDE DEF method
  <2>4. CASE answer.code = "401"
    <3>1. o \in Authenticate(s, free, method)
      BY <2>3, <2>4
    <3> QED
      BY <2>1, <2>2, <3>1, AuthenticateOutcome
  <2>5. CASE answer.code = "error"
    <3>1. o = Fail(s, free)
      BY <2>3, <2>5
    <3> QED
      BY <3>1, FailOutcome
  <2>6. CASE answer.code = "200"
    <3>1. o \in HandleOk(s, free, method, answer.sdp)
      BY <2>3, <2>6
    <3> QED
      BY <1>0, <2>1, <2>2, <3>1, HandleOkOutcome
  <2> QED
    BY <1>0, <2>4, <2>5, <2>6
<1> QED
  BY <1>1, <1>2

-----------------------------------------------------------------------------
(* How the pairs move.                                                     *)

LEMMA ConnectionIsOpen == \A r \in Connection : r # Closed
<1>1. \A r \in Connection : "recv" \in DOMAIN r
  BY DEF Connection
<1>2. "recv" \notin DOMAIN Closed
  BY DEF Closed
<1> QED
  BY <1>1, <1>2

LEMMA OpenIsConnection ==
  ASSUME TypeOK, NEW c \in Conn, Open(c)
  PROVE  conn[c] \in Connection
BY DEF TypeOK, Open

\* Nothing moves.
LEMMA PairsStay ==
  ASSUME PairsApart, UNCHANGED <<m_RtpRtcpfreeList, setting>>,
         \A c \in Conn, k \in Media : \A p \in Pairs : Holds(c, k, p)' <=> Holds(c, k, p)
  PROVE  PairsApart'
<1>1. \A p : OnFreeList(p)' <=> OnFreeList(p)
  BY DEF OnFreeList
<1>2. PlainServer' <=> PlainServer
  BY DEF PlainServer
<1> QED
  BY <1>1, <1>2 DEF PairsApart

\* A connection changes and keeps its pairs.
LEMMA PairsStayHeld ==
  ASSUME TypeOK, PairsApart, UNCHANGED <<m_RtpRtcpfreeList, setting>>,
         NEW c \in Conn, Open(c), NEW r \in Connection, conn' = [conn EXCEPT ![c] = r],
         r.m_udpHandles = conn[c].m_udpHandles
  PROVE  PairsApart'
<1>1. \A d \in Conn : conn'[d] = IF d = c THEN r ELSE conn[d]
  BY DEF TypeOK
<1>2. \A d \in Conn, k \in Media : \A p \in Pairs : Holds(d, k, p)' <=> Holds(d, k, p)
  BY <1>1, ConnectionIsOpen DEF Holds, Open
<1> QED
  BY <1>2, PairsStay

\* The pair in front of the free list goes into a slot.
LEMMA PairTaken ==
  ASSUME TypeOK, PairsApart, UNCHANGED setting,
         NEW c \in Conn, Open(c), NEW r \in Connection, conn' = [conn EXCEPT ![c] = r],
         m_RtpRtcpfreeList # <<>>, m_RtpRtcpfreeList' = Tail(m_RtpRtcpfreeList),
         NEW k \in Media,
         r.m_udpHandles = [conn[c].m_udpHandles EXCEPT ![k] = Head(m_RtpRtcpfreeList)],
         PlainServer => conn[c].m_udpHandles[k] = NoPair
  PROVE  PairsApart'
<1> DEFINE free == m_RtpRtcpfreeList
           taken == Head(free)
<1>t. free \in Seq(Pairs) /\ conn[c].m_udpHandles \in [Media -> Pairs \cup {NoPair}]
  BY OpenIsConnection DEF TypeOK, Connection
<1>1. taken \in Pairs /\ taken = free[1] /\ 1 \in DOMAIN free
  BY <1>t
<1>2. OnFreeList(taken)
  BY <1>1 DEF OnFreeList
<1>3. \A i \in DOMAIN Tail(free) : i + 1 \in DOMAIN free /\ i + 1 # 1 /\ Tail(free)[i] = free[i + 1]
  BY <1>t
<1>4. \A i \in DOMAIN free : i # 1 => i - 1 \in DOMAIN Tail(free) /\ Tail(free)[i - 1] = free[i]
  BY <1>t
<1>5. \A p : OnFreeList(p)' <=> OnFreeList(p) /\ p # taken
  <2>1. \A p : OnFreeList(p)' => OnFreeList(p) /\ p # taken
    BY <1>1, <1>3 DEF OnFreeList, PairsApart
  <2>2. \A p : OnFreeList(p) /\ p # taken => OnFreeList(p)'
    BY <1>1, <1>4 DEF OnFreeList
  <2> QED
    BY <2>1, <2>2
<1>6. \A d \in Conn : conn'[d] = IF d = c THEN r ELSE conn[d]
  BY DEF TypeOK
<1>7. \A d \in Conn, l \in Media : \A p \in Pairs :
        Holds(d, l, p)' <=> IF d = c /\ l = k THEN p = taken ELSE Holds(d, l, p)
  BY <1>t, <1>6, ConnectionIsOpen DEF Holds, Open
<1>8. \A i, j \in DOMAIN Tail(free) : Tail(free)[i] = Tail(free)[j] => i = j
  <2> SUFFICES ASSUME NEW i \in DOMAIN Tail(free), NEW j \in DOMAIN Tail(free), Tail(free)[i] = Tail(free)[j]
               PROVE  i = j
    OBVIOUS
  <2>1. i + 1 = j + 1
    BY <1>3 DEF PairsApart
  <2>2. i \in Nat /\ j \in Nat
    BY <1>t
  <2> QED
    BY <2>1, <2>2
<1>9. PlainServer' <=> PlainServer
  BY DEF PlainServer
<1>10. PlainServer => \A p \in Pairs : ~Holds(c, k, p)
  BY PairFacts DEF Holds
<1> HIDE DEF taken
<1>11. \A p \in Pairs : \A d \in Conn, l \in Media : Holds(d, l, p)' => ~OnFreeList(p)'
  BY <1>5, <1>7 DEF PairsApart
<1>12. \A p \in Pairs : \A d, e \in Conn, l, m \in Media : Holds(d, l, p)' /\ Holds(e, m, p)' => d = e /\ l = m
  <2>1. \A d \in Conn, l \in Media : ~Holds(d, l, taken)
    BY <1>1, <1>2 DEF PairsApart
  <2>2. SUFFICES ASSUME NEW p \in Pairs, NEW d \in Conn, NEW e \in Conn, NEW l \in Media, NEW m \in Media,
                        Holds(d, l, p)', Holds(e, m, p)'
                 PROVE  d = e /\ l = m
    OBVIOUS
  <2>3. CASE p = taken
    BY <1>7, <2>1, <2>2, <2>3
  <2>4. CASE p # taken
    <3>1. Holds(d, l, p) /\ Holds(e, m, p)
      BY <1>7, <2>2, <2>4
    <3> QED
      BY <3>1 DEF PairsApart
  <2> QED
    BY <2>3, <2>4
<1>13. PlainServer' => \A p \in Pairs : OnFreeList(p)' \/ \E d \in Conn, l \in Media : Holds(d, l, p)'
  <2> SUFFICES ASSUME PlainServer, NEW p \in Pairs
               PROVE  OnFreeList(p)' \/ \E d \in Conn, l \in Media : Holds(d, l, p)'
    BY <1>9
  <2>1. CASE p = taken
    BY <1>7, <2>1
  <2>2. CASE OnFreeList(p) /\ p # taken
    BY <1>5, <2>2
  <2>3. CASE ~OnFreeList(p)
    <3>1. PICK d \in Conn, l \in Media : Holds(d, l, p)
      BY <2>3 DEF PairsApart
    <3>2. Holds(d, l, p)'
      BY <1>7, <1>10, <3>1
    <3> QED
      BY <3>2
  <2> QED
    BY <2>1, <2>2, <2>3
<1> QED
  BY <1>8, <1>11, <1>12, <1>13 DEF PairsApart

\* A list of different pairs remains one when another pair is put behind it.
Different(q) == \A i, j \in DOMAIN q : q[i] = q[j] => i = j
In(p, q)     == \E i \in DOMAIN q : q[i] = p

LEMMA PutBack ==
  ASSUME NEW q \in Seq(Pairs), Different(q), NEW s \in Connection, NEW k \in Media,
         \A p \in Pairs : s.m_udpHandles[k] = p => ~In(p, q)
  PROVE  /\ q \o Held(s, k) \in Seq(Pairs) /\ Different(q \o Held(s, k))
         /\ \A p \in Pairs : In(p, q \o Held(s, k)) <=> In(p, q) \/ s.m_udpHandles[k] = p
<1>t. s.m_udpHandles[k] \in Pairs \cup {NoPair}
  BY DEF Connection
<1>1. CASE s.m_udpHandles[k] = NoPair
  <2>1. q \o Held(s, k) = q
    BY <1>1 DEF Held
  <2> QED
    BY <1>1, <2>1, PairFacts
<1>2. CASE s.m_udpHandles[k] \in Pairs
  <2> DEFINE r == q \o Held(s, k)
  <2>1. Held(s, k) = <<s.m_udpHandles[k]>>
    BY <1>2, PairFacts DEF Held
  <2>2. /\ r \in Seq(Pairs) /\ DOMAIN r = 1 .. Len(q) + 1
        /\ \A i \in DOMAIN r : r[i] = IF i = Len(q) + 1 THEN s.m_udpHandles[k] ELSE q[i]
    BY <1>2, <2>1
  <2>3. DOMAIN q = 1 .. Len(q) /\ Len(q) \in Nat
    OBVIOUS
  <2>5. ~In(s.m_udpHandles[k], q)
    BY <1>2
  <2> HIDE DEF r
  <2>6. Different(r)
    BY <2>2, <2>3, <2>5 DEF Different, In
  <2>7. \A p \in Pairs : In(p, r) <=> In(p, q) \/ s.m_udpHandles[k] = p
    <3>1. \A p \in Pairs : In(p, r) => In(p, q) \/ s.m_udpHandles[k] = p
      BY <2>2, <2>3 DEF In
    <3>2. \A i \in DOMAIN q : i \in DOMAIN r /\ r[i] = q[i]
      BY <2>2, <2>3
    <3>3. Len(q) + 1 \in DOMAIN r /\ r[Len(q) + 1] = s.m_udpHandles[k]
      BY <2>2, <2>3
    <3> QED
      BY <3>1, <3>2, <3>3 DEF In
  <2> QED
    BY <2>2, <2>6, <2>7 DEF r
<1> QED
  BY <1>t, <1>1, <1>2

LEMMA PairsReturned ==
  ASSUME TypeOK, PairsApart, UNCHANGED setting, NEW c \in Conn, Open(c),
         conn' = [conn EXCEPT ![c] = Closed],
         m_RtpRtcpfreeList' = m_RtpRtcpfreeList \o Returned(conn[c])
  PROVE  PairsApart' /\ m_RtpRtcpfreeList' \in Seq(Pairs)
<1> DEFINE free == m_RtpRtcpfreeList
           once == free \o Held(conn[c], "video")
           twice == once \o Held(conn[c], "audio")
<1>1. conn[c] \in Connection /\ free \in Seq(Pairs) /\ "video" \in Media /\ "audio" \in Media
  BY OpenIsConnection DEF TypeOK, Media
<1>2. \A k \in Media : \A p \in Pairs : conn[c].m_udpHandles[k] = p <=> Holds(c, k, p)
  BY DEF Holds
<1>f. \A p : OnFreeList(p) <=> In(p, free)
  BY DEF OnFreeList, In
<1>3. /\ once \in Seq(Pairs) /\ Different(once)
      /\ \A p \in Pairs : In(p, once) <=> In(p, free) \/ Holds(c, "video", p)
  <2>1. Different(free) /\ \A p \in Pairs : conn[c].m_udpHandles["video"] = p => ~In(p, free)
    BY <1>1, <1>2, <1>f DEF PairsApart, Different
  <2> QED
    BY <1>1, <1>2, <2>1, PutBack
<1>4. \A p \in Pairs : conn[c].m_udpHandles["audio"] = p => ~In(p, once)
  <2> SUFFICES ASSUME NEW p \in Pairs, Holds(c, "audio", p) PROVE ~In(p, free) /\ ~Holds(c, "video", p)
    BY <1>1, <1>2, <1>3
  <2> QED
    BY <1>1, <1>f DEF PairsApart
<1>5. /\ twice \in Seq(Pairs) /\ Different(twice)
      /\ \A p \in Pairs : In(p, twice) <=> In(p, once) \/ Holds(c, "audio", p)
  <2> HIDE DEF once
  <2>1. /\ once \o Held(conn[c], "audio") \in Seq(Pairs) /\ Different(once \o Held(conn[c], "audio"))
        /\ \A p \in Pairs : In(p, once \o Held(conn[c], "audio")) <=>
                              In(p, once) \/ conn[c].m_udpHandles["audio"] = p
    BY <1>1, <1>3, <1>4, PutBack
  <2> QED
    BY <1>1, <1>2, <2>1
<1>6. free' = twice
  <2>1. Held(conn[c], "video") \in Seq(Pairs) /\ Held(conn[c], "audio") \in Seq(Pairs)
    BY <1>1 DEF Held, Connection
  <2> QED
    BY <1>1, <2>1, ConcatAssociative DEF Returned
<1>7. \A p \in Pairs : OnFreeList(p)' <=> OnFreeList(p) \/ \E k \in Media : Holds(c, k, p)
  <2>1. \A p : OnFreeList(p)' <=> In(p, twice)
    BY <1>6 DEF OnFreeList, In
  <2> QED
    BY <1>3, <1>5, <1>f, <2>1 DEF Media
<1> HIDE DEF once, twice
<1>8. \A d \in Conn : conn'[d] = IF d = c THEN Closed ELSE conn[d]
  BY DEF TypeOK
<1>9. \A d \in Conn, k \in Media : \A p \in Pairs : Holds(d, k, p)' <=> d # c /\ Holds(d, k, p)
  BY <1>8 DEF Holds, Open
<1>10. PlainServer' <=> PlainServer
  BY DEF PlainServer
<1>11. \A i, j \in DOMAIN free' : free'[i] = free'[j] => i = j
  BY <1>5, <1>6 DEF Different
<1>12. \A p \in Pairs : \A d \in Conn, k \in Media : Holds(d, k, p)' => ~OnFreeList(p)'
  BY <1>7, <1>9 DEF PairsApart
<1>13. \A p \in Pairs : \A d, e \in Conn, k, l \in Media : Holds(d, k, p)' /\ Holds(e, l, p)' => d = e /\ k = l
  BY <1>9 DEF PairsApart
<1>14. PlainServer' => \A p \in Pairs : OnFreeList(p)' \/ \E d \in Conn, k \in Media : Holds(d, k, p)'
  BY <1>7, <1>9, <1>10 DEF PairsApart
<1> QED
  BY <1>5, <1>6, <1>11, <1>12, <1>13, <1>14 DEF PairsApart

-----------------------------------------------------------------------------
(* The actions.                                                            *)

LEMMA InitSession == Init => SessionInv
<1> SUFFICES ASSUME Init PROVE SessionInv
  OBVIOUS
<1>1. \A c \in Conn : ~Open(c)
  BY DEF Init, Open
<1>2. /\ m_RtpRtcpfreeList = [i \in 1 .. PairCount |-> i - 1]
      /\ m_RtpRtcpfreeList \in Seq(Pairs) /\ DOMAIN m_RtpRtcpfreeList = 1 .. PairCount
  <2>1. \A i \in 1 .. PairCount : i - 1 \in Pairs
    BY SessionConstants DEF Pairs
  <2> QED
    BY <2>1, SessionConstants DEF Init
<1>3. TypeOK
  <2>1. setting \in Settings /\ setting.created \in Nat
    BY SessionConstants DEF Init
  <2>2. answers \in [Conn -> Seq(Answers)] /\ read \in [Conn -> Nat] /\ conn \in [Conn -> Connection \cup {Closed}]
    BY DEF Init
  <2> QED
    BY <1>2, <2>1, <2>2 DEF Init, TypeOK
<1>4. PairsApart
  <2>1. \A i, j \in DOMAIN m_RtpRtcpfreeList : m_RtpRtcpfreeList[i] = m_RtpRtcpfreeList[j] => i = j
    BY <1>2, SessionConstants
  <2>2. \A p \in Pairs : OnFreeList(p)
    <3> SUFFICES ASSUME NEW p \in Pairs PROVE OnFreeList(p)
      OBVIOUS
    <3>1. p + 1 \in 1 .. PairCount /\ (p + 1) - 1 = p
      BY SessionConstants DEF Pairs
    <3> QED
      BY <1>2, <3>1 DEF OnFreeList
  <2> QED
    BY <1>1, <2>1, <2>2 DEF PairsApart, Holds
<1>5. StatusOK
  BY <1>1 DEF StatusOK, Init
<1>6. Lockstep
  BY <1>1 DEF Lockstep, Init
<1>7. PlainOK
  BY <1>1 DEF PlainOK, Init
<1> QED
  BY <1>3, <1>4, <1>5, <1>6, <1>7 DEF SessionInv

\* A connection changes, keeps its pairs and its requests, and does not start
\* reading.
LEMMA QuietChange ==
  ASSUME SessionInv, UNCHANGED <<setting, m_RtpRtcpfreeList, answers, read, created>>,
         NEW c \in Conn, Open(c), NEW r \in Connection, conn' = [conn EXCEPT ![c] = r],
         r.m_SeqMethodMap = conn[c].m_SeqMethodMap, r.m_udpHandles = conn[c].m_udpHandles,
         r.m_mediaInfoList = conn[c].m_mediaInfoList, r.m_sdpInfo = conn[c].m_sdpInfo,
         r.recv => conn[c].recv,
         r.m_enStatus # "MAX" \/ r = conn[c], r.m_enStatus = "TEARDOWN" => ~r.recv
  PROVE  SessionInv'
<1> USE DEF SessionInv
<1>1. \A d \in Conn : conn'[d] = IF d = c THEN r ELSE conn[d]
  BY DEF TypeOK
<1>2. TypeOK'
  BY DEF TypeOK
<1>3. PairsApart'
  BY PairsStayHeld
<1>4. StatusOK'
  BY <1>1, ConnectionIsOpen DEF StatusOK, Open
<1>5. Lockstep'
  BY <1>1, ConnectionIsOpen DEF Lockstep, Open
<1>6. PlainOK'
  <2>1. Ready(conn[c]) => Ready(r)
    BY DEF Ready, LastMethod
  <2> QED
    BY <1>1, <2>1, ConnectionIsOpen DEF PlainOK, PlainServer, Open, AtMostOneOfEach
<1> QED
  BY <1>2, <1>3, <1>4, <1>5, <1>6

LEMMA ConnectionLostKeepsInv ==
  ASSUME SessionInv, NEW c \in Conn, ConnectionLost(c)
  PROVE  SessionInv'
<1> DEFINE r == [conn[c] EXCEPT !.recv = FALSE, !.m_enStatus = "TEARDOWN"]
<1>1. Open(c) /\ conn[c] \in Connection
  BY OpenIsConnection DEF ConnectionLost, Reads, SessionInv
<1>2. conn' = [conn EXCEPT ![c] = r]
  BY <1>1 DEF ConnectionLost, SessionInv, TypeOK, Connection
<1>3. /\ r \in Connection /\ r.m_SeqMethodMap = conn[c].m_SeqMethodMap
      /\ r.m_udpHandles = conn[c].m_udpHandles /\ r.m_mediaInfoList = conn[c].m_mediaInfoList
      /\ r.m_sdpInfo = conn[c].m_sdpInfo /\ ~r.recv /\ r.m_enStatus = "TEARDOWN"
  BY <1>1 DEF Connection
<1> HIDE DEF r
<1> QED
  BY <1>1, <1>2, <1>3, QuietChange DEF ConnectionLost

LEMMA CheckClientKeepsInv ==
  ASSUME SessionInv, NEW c \in Conn, CheckClient(c)
  PROVE  SessionInv'
<1> DEFINE r == [conn[c] EXCEPT !.m_bRegister = FALSE, !.m_enStatus = "TIMEOUT"]
<1>1. Open(c) /\ conn[c] \in Connection
  BY OpenIsConnection DEF CheckClient, SessionInv
<1>2. conn' = [conn EXCEPT ![c] = r]
  BY <1>1 DEF CheckClient, SessionInv, TypeOK, Connection
<1>3. /\ r \in Connection /\ r.m_SeqMethodMap = conn[c].m_SeqMethodMap
      /\ r.m_udpHandles = conn[c].m_udpHandles /\ r.m_mediaInfoList = conn[c].m_mediaInfoList
      /\ r.m_sdpInfo = conn[c].m_sdpInfo /\ r.recv = conn[c].recv /\ r.m_enStatus = "TIMEOUT"
  BY <1>1 DEF Connection
<1> HIDE DEF r
<1> QED
  BY <1>1, <1>2, <1>3, QuietChange DEF CheckClient

LEMMA StopKeepsInv ==
  ASSUME SessionInv, NEW c \in Conn, Stop(c)
  PROVE  SessionInv'
<1> DEFINE r == [conn[c] EXCEPT !.registered = FALSE, !.recv = FALSE, !.m_bRegister = FALSE]
<1>1. Open(c) /\ conn[c] \in Connection /\ conn[c].m_enStatus # "MAX"
  BY OpenIsConnection DEF Stop, SessionInv
<1>2. conn' = [conn EXCEPT ![c] = r]
  BY <1>1 DEF Stop, SessionInv, TypeOK, Connection
<1>3. /\ r \in Connection /\ r.m_SeqMethodMap = conn[c].m_SeqMethodMap
      /\ r.m_udpHandles = conn[c].m_udpHandles /\ r.m_mediaInfoList = conn[c].m_mediaInfoList
      /\ r.m_sdpInfo = conn[c].m_sdpInfo /\ ~r.recv /\ r.m_enStatus = conn[c].m_enStatus
  BY <1>1 DEF Connection
<1> HIDE DEF r
<1> QED
  BY <1>1, <1>2, <1>3, QuietChange DEF Stop

LEMMA CreateKeepsInv ==
  ASSUME SessionInv, NEW c \in Conn, Create(c)
  PROVE  SessionInv'
<1> USE DEF SessionInv
<1>1. PICK tcp \in setting.transports : conn' = [conn EXCEPT ![c] = NewConnection(tcp)]
  BY DEF Create
<1> DEFINE r == NewConnection(tcp)
<1>s. setting.created \in Nat /\ setting.transports \subseteq BOOLEAN
  BY SessionConstants DEF TypeOK
<1>2. /\ r \in Connection /\ r.m_udpHandles = NoPairs /\ r.m_SeqMethodMap = <<>>
      /\ r.m_enStatus = "MAX" /\ ~r.recv /\ r.m_bSetupTcp = tcp
  BY <1>s DEF NewConnection, Connection, NoPairs, NoStreams, RTSP_AUTH_TRY_MAX
<1>0. r = NewConnection(r.m_bSetupTcp)
  BY <1>2
<1> HIDE DEF r
<1>3. \A d \in Conn : conn'[d] = IF d = c THEN r ELSE conn[d]
  BY <1>1 DEF TypeOK, r
<1>4. TypeOK'
  <2>1. created' \in 0 .. setting.created
    BY <1>s DEF Create, TypeOK
  <2> QED
    BY <1>1, <1>2, <2>1 DEF Create, TypeOK, r
<1>5. PairsApart'
  <2>1. \A d \in Conn, k \in Media : \A p \in Pairs : Holds(d, k, p)' <=> Holds(d, k, p)
    BY <1>2, <1>3, PairFacts, ConnectionIsOpen DEF Holds, Open, Create, NoPairs
  <2> QED
    BY <2>1, PairsStay DEF Create
<1>6. StatusOK'
  BY <1>0, <1>2, <1>3, ConnectionIsOpen DEF StatusOK, Open, Create
<1>7. Lockstep'
  <2>1. Len(r.m_SeqMethodMap) = 0
    BY <1>2
  <2>2. read[c] \in Nat
    BY DEF TypeOK
  <2> QED
    BY <1>3, <2>1, <2>2 DEF Lockstep, Open, Create
<1>8. PlainOK'
  BY <1>2, <1>3 DEF PlainOK, PlainServer, Open, Create, AtMostOneOfEach
<1> QED
  BY <1>4, <1>5, <1>6, <1>7, <1>8

LEMMA StartKeepsInv ==
  ASSUME SessionInv, NEW c \in Conn, Start(c)
  PROVE  SessionInv'
<1> USE DEF SessionInv
<1> DEFINE begun == [conn[c] EXCEPT !.m_enStatus = "CONNECTED"]
<1>1. PICK o \in SendRtspReq(begun, m_RtpRtcpfreeList, "OPTIONS"), timer \in Attempts :
        conn' = [conn EXCEPT ![c] = [o.session EXCEPT !.registered = TRUE, !.recv = o.ok,
                                                      !.m_bRegister = o.ok /\ timer]]
  BY DEF Start
<1>2. Open(c) /\ conn[c] \in Connection /\ conn[c] = NewConnection(conn[c].m_bSetupTcp)
  BY OpenIsConnection DEF Start, StatusOK
<1>3. /\ begun \in Connection /\ begun.m_udpHandles = conn[c].m_udpHandles /\ begun.m_mediaInfoList = <<>>
      /\ begun.m_sdpInfo = NoStreams /\ begun.m_SeqMethodMap = <<>> /\ begun.m_enStatus = "CONNECTED"
      /\ begun.m_udpHandles = NoPairs
  BY <1>2 DEF NewConnection, Connection, NoPairs
<1> HIDE DEF begun
<1>4. "OPTIONS" \in Methods /\ m_RtpRtcpfreeList \in Seq(Pairs) /\ timer \in BOOLEAN
  BY DEF Methods, TypeOK, Attempts
<1>5. Requested(begun, o.session, "OPTIONS") /\ o \in Results
  BY <1>3, <1>4, SendRtspReqShape
<1> DEFINE r == [o.session EXCEPT !.registered = TRUE, !.recv = o.ok, !.m_bRegister = o.ok /\ timer]
<1>6. /\ o.session \in Connection /\ o.ok \in BOOLEAN
      /\ o.session.m_SeqMethodMap = <<"OPTIONS">> /\ LastMethod(o.session) = "OPTIONS"
      /\ o.session.m_udpHandles = NoPairs
      /\ o.session.m_mediaInfoList = <<>> /\ o.session.m_sdpInfo = NoStreams
      /\ o.session.m_enStatus = "CONNECTED"
  BY <1>3, <1>5 DEF Requested, Results
<1>7. /\ r \in Connection /\ r.m_SeqMethodMap = o.session.m_SeqMethodMap
      /\ r.m_udpHandles = o.session.m_udpHandles /\ r.m_mediaInfoList = o.session.m_mediaInfoList
      /\ r.m_sdpInfo = o.session.m_sdpInfo /\ r.m_enStatus = o.session.m_enStatus
  BY <1>4, <1>6 DEF Connection
<1> HIDE DEF r
<1>8. conn' = [conn EXCEPT ![c] = r]
  BY <1>1 DEF r
<1>9. \A d \in Conn : conn'[d] = IF d = c THEN r ELSE conn[d]
  BY <1>8 DEF TypeOK
<1>10. TypeOK'
  BY <1>7, <1>8 DEF Start, TypeOK
<1>11. PairsApart'
  <2>1. UNCHANGED <<m_RtpRtcpfreeList, setting>> /\ r.m_udpHandles = conn[c].m_udpHandles
    BY <1>3, <1>6, <1>7 DEF Start
  <2> QED
    BY <1>2, <1>7, <1>8, <2>1, PairsStayHeld
<1>12. StatusOK'
  BY <1>6, <1>7, <1>9, ConnectionIsOpen, ZenonT(40) DEF StatusOK, Open, Start
<1>13. Lockstep'
  <2>1. Len(r.m_SeqMethodMap) = 1
    BY <1>6, <1>7
  <2>2. read[c] \in Nat
    BY DEF TypeOK
  <2>3. 1 <= read[c] + 1
    BY <2>2
  <2> QED
    BY <1>9, <2>1, <2>3 DEF Lockstep, Open, Start
<1>14. PlainOK'
  <2>1. Ready(r)
    BY <1>6, <1>7 DEF Ready, LastMethod
  <2> QED
    BY <1>9, <2>1 DEF PlainOK, PlainServer, Open, Start, AtMostOneOfEach
<1> QED
  BY <1>10, <1>11, <1>12, <1>13, <1>14

LEMMA DestroyKeepsInv ==
  ASSUME SessionInv, NEW c \in Conn, Destroy(c)
  PROVE  SessionInv'
<1> USE DEF SessionInv
<1>1. PairsApart' /\ m_RtpRtcpfreeList' \in Seq(Pairs)
  BY PairsReturned DEF Destroy
<1>2. \A d \in Conn : conn'[d] = IF d = c THEN Closed ELSE conn[d]
  BY DEF Destroy, TypeOK
<1>3. \A d \in Conn : /\ answers'[d] = IF d = c THEN <<>> ELSE answers[d]
                      /\ read'[d] = IF d = c THEN 0 ELSE read[d]
  BY DEF Destroy, TypeOK
<1>4. TypeOK'
  BY <1>1 DEF Destroy, TypeOK
<1>5. StatusOK'
  BY <1>2, <1>3 DEF StatusOK, Open
<1>6. Lockstep'
  BY <1>2, <1>3 DEF Lockstep, Open, Destroy
<1>7. PlainOK'
  BY <1>2, <1>3 DEF PlainOK, PlainServer, Open, Destroy, AtMostOneOfEach
<1> QED
  BY <1>1, <1>4, <1>5, <1>6, <1>7

\* The end of handle_recv.
LEMMA AfterRecvShape ==
  ASSUME NEW s \in Connection, NEW free \in Seq(Pairs), NEW o, Outcome(s, free, o),
         s.m_enStatus \notin {"MAX", "TEARDOWN"}
  PROVE  LET r == AfterRecv(o)
         IN  /\ r \in Connection /\ r.recv = o.ok
             /\ r.m_SeqMethodMap = o.session.m_SeqMethodMap
             /\ r.m_udpHandles = o.session.m_udpHandles
             /\ r.m_mediaInfoList = o.session.m_mediaInfoList
             /\ r.m_sdpInfo = o.session.m_sdpInfo
             /\ r.m_enStatus # "MAX" /\ (r.m_enStatus = "TEARDOWN" => ~r.recv)
<1>1. o.session \in Connection /\ o.ok \in BOOLEAN
  BY DEF Outcome, Results
<1>2. o.session.m_enStatus \in {s.m_enStatus, "HANDSHAKE", "RUNNING"}
  BY DEF Outcome
<1> QED
  BY <1>1, <1>2 DEF AfterRecv, Connection

LEMMA HandleRecvKeepsInv ==
  ASSUME SessionInv, NEW c \in Conn, HandleRecv(c)
  PROVE  SessionInv'
<1> USE DEF SessionInv
<1> DEFINE s == conn[c]
           free == m_RtpRtcpfreeList
           answer == answers[c][read[c] + 1]
<1>1. PICK o \in HandleRtspResp(s, free, answer) :
        conn' = [conn EXCEPT ![c] = AfterRecv(o)] /\ m_RtpRtcpfreeList' = o.free
  BY DEF HandleRecv
<1> DEFINE r == AfterRecv(o)
<1>2. Open(c) /\ s \in Connection /\ free \in Seq(Pairs) /\ s.recv
  BY OpenIsConnection DEF HandleRecv, Reads, TypeOK
<1>3. /\ read[c] + 1 \in DOMAIN answers[c] /\ answer \in Answers
      /\ read[c] \in Nat /\ Len(answers[c]) \in Nat /\ read[c] + 1 <= Len(answers[c])
  BY DEF HandleRecv, TypeOK
<1>4. s.m_enStatus \notin {"MAX", "TEARDOWN"}
  <2>1. \A tcp : NewConnection(tcp).recv = FALSE
    BY DEF NewConnection
  <2> QED
    BY <1>2, <2>1 DEF StatusOK
<1>5. /\ Outcome(s, free, o)
      /\ Ready(s) /\ AnswersTheLast(s, answer) /\ AtMostOneOfEach(answer.sdp) => FillsEmptySlots(s, o)
  BY <1>1, <1>2, <1>3, HandleRtspRespOutcome
<1>6. /\ r \in Connection /\ r.recv = o.ok
      /\ r.m_SeqMethodMap = o.session.m_SeqMethodMap
      /\ r.m_udpHandles = o.session.m_udpHandles
      /\ r.m_mediaInfoList = o.session.m_mediaInfoList
      /\ r.m_sdpInfo = o.session.m_sdpInfo
      /\ r.m_enStatus # "MAX" /\ (r.m_enStatus = "TEARDOWN" => ~r.recv)
  BY <1>2, <1>4, <1>5, AfterRecvShape
<1> HIDE DEF r
<1>7. conn' = [conn EXCEPT ![c] = r]
  BY <1>1 DEF r
<1>8. \A d \in Conn : /\ conn'[d] = IF d = c THEN r ELSE conn[d]
                      /\ read'[d] = IF d = c THEN read[d] + 1 ELSE read[d]
  BY <1>7 DEF HandleRecv, TypeOK
<1>9. TypeOK'
  <2>1. o.free \in Seq(Pairs)
    BY <1>5 DEF Outcome, Results
  <2>2. read' \in [Conn -> Nat]
    BY DEF HandleRecv, TypeOK
  <2> QED
    BY <1>1, <1>6, <1>7, <2>1, <2>2 DEF HandleRecv, TypeOK
<1>10. StatusOK'
  BY <1>6, <1>8, ConnectionIsOpen DEF StatusOK, Open, HandleRecv
<1>11. setting.repeats = 0 => AnswersTheLast(s, answer) /\ Len(s.m_SeqMethodMap) <= read[c] + 1
  <2> SUFFICES ASSUME setting.repeats = 0
               PROVE  AnswersTheLast(s, answer) /\ Len(s.m_SeqMethodMap) <= read[c] + 1
    OBVIOUS
  <2>1. answer.cseq = (read[c] + 1) - 1 /\ Len(s.m_SeqMethodMap) <= read[c] + 1
    BY <1>2, <1>3 DEF Lockstep
  <2>2. Len(s.m_SeqMethodMap) \in Nat
    BY <1>2 DEF Connection
  <2> QED
    BY <1>3, <2>1, <2>2 DEF AnswersTheLast
<1>12. PlainServer => FillsEmptySlots(s, o)
  <2> SUFFICES ASSUME PlainServer PROVE FillsEmptySlots(s, o)
    OBVIOUS
  <2>1. Ready(s) /\ AtMostOneOfEach(answer.sdp)
    BY <1>2, <1>3 DEF PlainOK
  <2> QED
    BY <1>5, <1>11, <2>1 DEF PlainServer
<1>13. Lockstep'
  <2>1. Len(r.m_SeqMethodMap) <= Len(s.m_SeqMethodMap) + 1
    <3>1. s.m_SeqMethodMap \in Seq(Methods)
      BY <1>2 DEF Connection
    <3> QED
      BY <1>5, <1>6, <3>1 DEF Outcome, AsksAtMostOnce
  <2>2. Len(s.m_SeqMethodMap) \in Nat /\ Len(r.m_SeqMethodMap) \in Nat
    BY <1>2, <1>6 DEF Connection
  <2>3. setting.repeats = 0 => Len(r.m_SeqMethodMap) <= (read[c] + 1) + 1
    BY <1>3, <1>11, <2>1, <2>2
  <2>4. setting' = setting /\ answers' = answers
    BY DEF HandleRecv
  <2> QED
    BY <1>3, <1>8, <2>3, <2>4 DEF Lockstep, Open
<1>14. PlainOK'
  <2>1. PlainServer /\ o.ok => Ready(r)
    BY <1>6, <1>12 DEF FillsEmptySlots, Ready, LastMethod
  <2> QED
    BY <1>6, <1>8, <2>1 DEF PlainOK, PlainServer, Open, HandleRecv, AtMostOneOfEach
<1>15. PairsApart'
  <2>1. CASE o.free = free /\ o.session.m_udpHandles = s.m_udpHandles
    <3>1. UNCHANGED <<m_RtpRtcpfreeList, setting>> /\ r.m_udpHandles = conn[c].m_udpHandles
      BY <1>1, <1>6, <2>1 DEF HandleRecv
    <3> QED
      BY <1>2, <1>6, <1>7, <3>1, PairsStayHeld
  <2>2. CASE /\ free # <<>> /\ o.free = Tail(free)
             /\ \E k \in Media : o.session.m_udpHandles = [s.m_udpHandles EXCEPT ![k] = Head(free)]
    <3>1. PICK k \in Media : r.m_udpHandles = [s.m_udpHandles EXCEPT ![k] = Head(free)]
      BY <1>6, <2>2
    <3>2. s.m_udpHandles \in [Media -> Pairs \cup {NoPair}] /\ Head(free) \in Pairs
      BY <1>2, <2>2 DEF Connection
    <3>3. s.m_udpHandles[k] = Head(free) => FALSE
      <4>1. Head(free) = free[1] /\ 1 \in DOMAIN free
        BY <1>2, <2>2
      <4> QED
        BY <1>2, <3>2, <4>1 DEF PairsApart, Holds, OnFreeList
    <3>4. PlainServer => s.m_udpHandles[k] = NoPair
      BY <1>6, <1>12, <3>1, <3>2, <3>3 DEF FillsEmptySlots
    <3> QED
      <4>1. UNCHANGED setting /\ m_RtpRtcpfreeList' = Tail(m_RtpRtcpfreeList)
        BY <1>1, <2>2 DEF HandleRecv
      <4> QED
        BY <1>2, <1>6, <1>7, <2>2, <3>1, <3>4, <4>1, PairTaken
  <2> QED
    BY <1>5, <2>1, <2>2 DEF Outcome, TakesFromFront
<1> QED
  BY <1>9, <1>10, <1>13, <1>14, <1>15

\* While nothing is repeated, the server has answered as many requests as there
\* are answers.
LEMMA AnsweredCount ==
  ASSUME TypeOK, NEW c \in Conn
  PROVE  /\ Cardinality(Answered(c)) \in Nat
         /\ (\A i \in DOMAIN answers[c] : answers[c][i].cseq = i - 1) =>
              Cardinality(Answered(c)) = Len(answers[c])
<1> DEFINE q == answers[c]
           f == [i \in 1 .. Len(q) |-> q[i].cseq]
<1>1. q \in Seq(Answers) /\ Len(q) \in Nat /\ DOMAIN q = 1 .. Len(q)
  BY DEF TypeOK
<1>2. IsFiniteSet(1 .. Len(q)) /\ Cardinality(1 .. Len(q)) = Len(q)
  BY <1>1, FS_Interval
<1>3. f \in Surjection(1 .. Len(q), Answered(c))
  BY <1>1 DEF Surjection, Answered
<1>4. IsFiniteSet(Answered(c))
  BY <1>2, <1>3, FS_Surjection
<1>5. ASSUME \A i \in DOMAIN q : q[i].cseq = i - 1
      PROVE  Cardinality(Answered(c)) = Len(q)
  <2>1. f \in Injection(1 .. Len(q), Answered(c))
    BY <1>1, <1>3, <1>5 DEF Injection, Surjection, IsInjective
  <2> QED
    BY <1>2, <1>3, <2>1, FS_Surjection
<1> QED
  BY <1>4, <1>5, FS_CardinalityType

LEMMA AnswerKeepsInv ==
  ASSUME SessionInv, NEW c \in Conn, Answer(c)
  PROVE  SessionInv'
<1> USE DEF SessionInv
<1> DEFINE cseq == Cardinality(Answered(c))
           describes(code) == code = "200" /\ conn[c].m_SeqMethodMap[cseq + 1] = "DESCRIBE"
<1>1. PICK code \in {"200", "401", "error"} :
        answers' = [answers EXCEPT ![c] =
          Append(@, [cseq |-> cseq, code |-> code,
                     sdp |-> IF describes(code) THEN setting.describes ELSE NoStreams])]
  BY DEF Answer
<1> DEFINE a == [cseq |-> cseq, code |-> code, sdp |-> IF describes(code) THEN setting.describes ELSE NoStreams]
<1>2. /\ Open(c) /\ answers[c] \in Seq(Answers) /\ setting.describes \in [Media -> Nat]
      /\ NoStreams \in [Media -> Nat]
  BY SessionConstants DEF Answer, Reads, TypeOK, NoStreams
<1>3. /\ cseq \in Nat
      /\ (\A i \in DOMAIN answers[c] : answers[c][i].cseq = i - 1) => cseq = Len(answers[c])
  BY AnsweredCount
<1> HIDE DEF cseq, describes
<1>4. a \in Answers /\ a.cseq = cseq /\ (a.sdp = setting.describes \/ a.sdp = NoStreams)
  BY <1>2, <1>3 DEF Answers
<1>5. answers' = [answers EXCEPT ![c] = Append(@, a)]
  BY <1>1
<1> HIDE DEF a
<1>6. \A d \in Conn : answers'[d] = IF d = c THEN Append(answers[c], a) ELSE answers[d]
  BY <1>5 DEF TypeOK
<1>7. Append(answers[c], a) \in Seq(Answers)
  BY <1>2, <1>4
<1>8. /\ Len(Append(answers[c], a)) = Len(answers[c]) + 1 /\ Len(answers[c]) \in Nat
      /\ \A i \in DOMAIN Append(answers[c], a) :
           \/ i \in DOMAIN answers[c] /\ Append(answers[c], a)[i] = answers[c][i]
           \/ i = Len(answers[c]) + 1 /\ Append(answers[c], a)[i] = a
  BY <1>2, <1>4
<1>9. TypeOK'
  BY <1>5, <1>7 DEF Answer, TypeOK
<1>10. PairsApart'
  <2>1. UNCHANGED <<conn, m_RtpRtcpfreeList, setting>>
    BY DEF Answer
  <2> QED
    BY <2>1, PairsStay DEF Holds, Open
<1>11. StatusOK'
  BY <1>2, <1>6 DEF StatusOK, Open, Answer
<1>12. Lockstep'
  <2>1. setting' = setting /\ conn' = conn /\ read' = read
    BY DEF Answer
  <2>2. SUFFICES ASSUME setting.repeats = 0
                 PROVE  \A d \in Conn : /\ read[d] <= Len(answers'[d])
                                        /\ \A i \in DOMAIN answers'[d] : answers'[d][i].cseq = i - 1
    BY <2>1 DEF Lockstep, Open
  <2>3. read[c] \in Nat /\ read[c] <= Len(answers[c]) /\ \A i \in DOMAIN answers[c] : answers[c][i].cseq = i - 1
    BY <2>2 DEF Lockstep, TypeOK
  <2>4. a.cseq = (Len(answers[c]) + 1) - 1
    BY <1>3, <1>4, <1>8, <2>3
  <2>5. read[c] <= Len(Append(answers[c], a))
    BY <1>8, <2>3
  <2>6. \A i \in DOMAIN Append(answers[c], a) : Append(answers[c], a)[i].cseq = i - 1
    BY <1>8, <2>3, <2>4
  <2> QED
    BY <1>6, <2>2, <2>5, <2>6, ZenonT(40) DEF Lockstep
<1>13. PlainOK'
  <2>1. setting' = setting /\ conn' = conn
    BY DEF Answer
  <2>2. PlainServer => AtMostOneOfEach(a.sdp)
    BY <1>4 DEF PlainServer, AtMostOneOfEach, NoStreams
  <2>3. PlainServer => \A i \in DOMAIN Append(answers[c], a) : AtMostOneOfEach(Append(answers[c], a)[i].sdp)
    BY <1>8, <2>2 DEF PlainOK
  <2>4. PlainServer' <=> PlainServer
    BY <2>1 DEF PlainServer
  <2>5. PlainServer => \A d \in Conn : \A i \in DOMAIN answers'[d] : AtMostOneOfEach(answers'[d][i].sdp)
    BY <1>6, <2>3 DEF PlainOK
  <2> QED
    BY <2>1, <2>4, <2>5 DEF PlainOK, Open, AtMostOneOfEach
<1> QED
  BY <1>9, <1>10, <1>11, <1>12, <1>13

LEMMA AnswerAgainKeepsInv ==
  ASSUME SessionInv, NEW c \in Conn, AnswerAgain(c)
  PROVE  SessionInv'
<1> USE DEF SessionInv
<1>1. PICK i \in DOMAIN answers[c] : answers' = [answers EXCEPT ![c] = Append(@, answers[c][i])]
  BY DEF AnswerAgain
<1>2. Open(c) /\ answers[c] \in Seq(Answers) /\ answers[c][i] \in Answers
  BY DEF AnswerAgain, Reads, TypeOK
<1>3. setting.repeats # 0
  <2> SUFFICES ASSUME setting.repeats = 0 PROVE FALSE
    OBVIOUS
  <2>1. Cardinality(Answered(c)) = Len(answers[c]) /\ Len(answers[c]) \in Nat
    BY <1>2, AnsweredCount DEF Lockstep
  <2> QED
    BY <2>1 DEF AnswerAgain, Repeats
<1>4. TypeOK'
  <2>1. Append(answers[c], answers[c][i]) \in Seq(Answers)
    BY <1>2
  <2> QED
    BY <1>1, <2>1 DEF AnswerAgain, TypeOK
<1>5. PairsApart'
  <2>1. UNCHANGED <<conn, m_RtpRtcpfreeList, setting>>
    BY DEF AnswerAgain
  <2> QED
    BY <2>1, PairsStay DEF Holds, Open
<1>6. StatusOK'
  <2>1. \A d \in Conn : d # c => answers'[d] = answers[d]
    BY <1>1 DEF TypeOK
  <2> QED
    BY <1>2, <2>1 DEF StatusOK, Open, AnswerAgain
<1>7. setting'.repeats # 0
  BY <1>3 DEF AnswerAgain
<1> QED
  BY <1>4, <1>5, <1>6, <1>7 DEF Lockstep, PlainOK, PlainServer

-----------------------------------------------------------------------------
(* The invariant, and what follows from it.                                *)

LEMMA NextKeepsInv == SessionInv /\ [Next]_vars => SessionInv'
<1> SUFFICES ASSUME SessionInv, [Next]_vars PROVE SessionInv'
  OBVIOUS
<1>1. CASE UNCHANGED vars
  BY <1>1 DEF vars, SessionInv, TypeOK, PairsApart, Holds, OnFreeList, StatusOK, Lockstep, PlainOK,
              PlainServer, Open, AtMostOneOfEach
<1>2. CASE Next
  <2>1. PICK c \in Conn : \/ Create(c) \/ Start(c) \/ Stop(c) \/ Destroy(c)
                          \/ HandleRecv(c) \/ ConnectionLost(c) \/ CheckClient(c)
                          \/ Answer(c) \/ AnswerAgain(c)
    BY <1>2 DEF Next
  <2> QED
    BY <2>1, CreateKeepsInv, StartKeepsInv, StopKeepsInv, DestroyKeepsInv, HandleRecvKeepsInv,
       ConnectionLostKeepsInv, CheckClientKeepsInv, AnswerKeepsInv, AnswerAgainKeepsInv
<1> QED
  BY <1>1, <1>2

LEMMA SessionInvHolds == Spec => []SessionInv
BY InitSession, NextKeepsInv, PTL DEF Spec

\* A set with at most one element has at most one element to count.
LEMMA AtMostOne ==
  ASSUME NEW S, \A x, y \in S : x = y
  PROVE  /\ Cardinality(S) \in {0, 1}
         /\ Cardinality(S) = 0 <=> S = {}
<1>1. CASE S = {}
  BY <1>1, FS_EmptySet
<1>2. CASE S # {}
  <2>1. PICK x \in S : S = {x}
    BY <1>2
  <2>2. Cardinality(S) = 1
    BY <2>1, FS_Singleton
  <2> QED
    BY <1>2, <2>2
<1> QED
  BY <1>1, <1>2

LEMMA ApartCounts == PairsApart => PairsOwnedOnce
<1> SUFFICES ASSUME PairsApart, NEW p \in Pairs
             PROVE  Places(p) <= 1 /\ (PlainServer => Places(p) = 1)
  BY DEF PairsOwnedOnce, PairsNeverShared
<1> DEFINE listed == { i \in DOMAIN m_RtpRtcpfreeList : m_RtpRtcpfreeList[i] = p }
           slots  == { slot \in { c \in Conn : Open(c) } \X Media : conn[slot[1]].m_udpHandles[slot[2]] = p }
<1>1. \A i, j \in listed : i = j
  BY DEF PairsApart
<1>2. \A slot \in slots : /\ slot[1] \in Conn /\ slot[2] \in Media /\ slot = <<slot[1], slot[2]>>
                          /\ Holds(slot[1], slot[2], p)
  BY DEF Holds
<1>3. \A x, y \in slots : x = y
  BY <1>2 DEF PairsApart
<1>4. listed = {} <=> ~OnFreeList(p)
  BY DEF OnFreeList
<1>5. slots = {} <=> ~\E c \in Conn, k \in Media : Holds(c, k, p)
  <2>1. \A c \in Conn, k \in Media : Holds(c, k, p) => <<c, k>> \in slots
    BY DEF Holds
  <2> QED
    BY <1>2, <2>1
<1>6. Places(p) = Cardinality(listed) + Cardinality(slots)
  BY DEF Places
<1> HIDE DEF listed, slots
<1>7. /\ Cardinality(listed) \in {0, 1} /\ (Cardinality(listed) = 0 <=> listed = {})
      /\ Cardinality(slots) \in {0, 1} /\ (Cardinality(slots) = 0 <=> slots = {})
  BY <1>1, <1>3, AtMostOne
<1>8. listed = {} \/ slots = {}
  BY <1>4, <1>5 DEF PairsApart
<1>9. PlainServer => listed # {} \/ slots # {}
  BY <1>4, <1>5 DEF PairsApart
<1> QED
  BY <1>6, <1>7, <1>8, <1>9

\* Every variable keeps its type: whatever the server answers, in whatever order
\* the threads run, handleRtspResp gives up authentication in time and takes no
\* pair from an empty free list.
THEOREM TypeCorrect == Spec => []TypeOK
<1>1. SessionInv => TypeOK
  BY DEF SessionInv
<1> QED
  BY <1>1, SessionInvHolds, PTL

\* No RTP/RTCP port pair is ever in two places, for any number of connections
\* that share the pool, and any pool; and none is lost while the server describes
\* at most one stream of each kind and repeats no answer.
THEOREM EveryPairOwnedOnce == Spec => []PairsOwnedOnce
<1>1. SessionInv => PairsOwnedOnce
  BY ApartCounts DEF SessionInv
<1> QED
  BY <1>1, SessionInvHolds, PTL

\* While the server repeats no answer, no connection has two requests waiting.
THEOREM RequestsInLockstep == Spec => []OneRequestAtATime
<1>1. SessionInv => OneRequestAtATime
  BY DEF SessionInv, Lockstep, OneRequestAtATime
<1> QED
  BY <1>1, SessionInvHolds, PTL

\* A connection that has reported TEARDOWN sends nothing more, takes no pair and
\* does not come back, on any server and in any order of threads.
THEOREM FailureIsFinal == Spec => FailedIsFinal
<1> DEFINE Final(c) == Open(c) /\ conn[c].m_enStatus = "TEARDOWN" /\ Open(c)' =>
             /\ conn'[c].m_SeqMethodMap = conn[c].m_SeqMethodMap
             /\ conn'[c].m_udpHandles = conn[c].m_udpHandles
             /\ conn'[c].m_enStatus \in {"TEARDOWN", "TIMEOUT"}
<1>1. ASSUME SessionInv, Next, NEW c \in Conn, Open(c), conn[c].m_enStatus = "TEARDOWN", Open(c)'
      PROVE  /\ conn'[c].m_SeqMethodMap = conn[c].m_SeqMethodMap
             /\ conn'[c].m_udpHandles = conn[c].m_udpHandles
             /\ conn'[c].m_enStatus \in {"TEARDOWN", "TIMEOUT"}
  <2>0. conn \in [Conn -> Connection \cup {Closed}] /\ conn[c] \in Connection /\ ~conn[c].recv
    BY <1>1, OpenIsConnection DEF SessionInv, TypeOK, StatusOK
  <2>1. PICK d \in Conn : \/ Create(d) \/ Start(d) \/ Stop(d) \/ Destroy(d)
                          \/ HandleRecv(d) \/ ConnectionLost(d) \/ CheckClient(d)
                          \/ Answer(d) \/ AnswerAgain(d)
    BY <1>1 DEF Next
  <2>2. CASE d # c
    <3>1. conn'[c] = conn[c]
      BY <2>0, <2>1, <2>2, ZenonT(40) DEF Create, Start, Stop, Destroy, HandleRecv, ConnectionLost, CheckClient,
                              Answer, AnswerAgain
    <3> QED
      BY <1>1, <3>1
  <2>3. CASE d = c
    <3>1. ~Create(d) /\ ~Start(d) /\ ~HandleRecv(d) /\ ~ConnectionLost(d)
      <4>1. ~Create(d) /\ ~Start(d)
        BY <1>1, <2>0, <2>3, ZenonT(40) DEF Create, Start
      <4>2. ~HandleRecv(d) /\ ~ConnectionLost(d)
        BY <1>1, <2>0, <2>3 DEF HandleRecv, ConnectionLost, Reads
      <4> QED
        BY <4>1, <4>2
    <3>2. ~Destroy(d)
      BY <1>1, <2>0, <2>3 DEF Destroy, Open
    <3>3. CASE Stop(d)
      BY <1>1, <2>0, <2>3, <3>3 DEF Stop, Connection
    <3>4. CASE CheckClient(d)
      BY <1>1, <2>0, <2>3, <3>4 DEF CheckClient, Connection
    <3>5. CASE Answer(d) \/ AnswerAgain(d)
      BY <1>1, <3>5 DEF Answer, AnswerAgain
    <3> QED
      BY <2>1, <3>1, <3>2, <3>3, <3>4, <3>5
  <2> QED
    BY <2>2, <2>3
<1>2. SessionInv /\ [Next]_vars => [ \A c \in Conn : Final(c) ]_vars
  BY <1>1
<1> QED
  BY <1>2, SessionInvHolds, PTL DEF Spec, FailedIsFinal

-----------------------------------------------------------------------------
(***************************************************************************)
(* The proof that PLAY is asked for only when every SETUP has been granted *)
(* and every stream has its ports, and that the requests of a handshake    *)
(* are bounded however often the server challenges it.  It rests on        *)
(* SessionInv: the answer at hand is the one to the last request.          *)
(***************************************************************************)

\* How many SETUP requests the answers that have been read grant.
Grants(c) == Cardinality(Granted(c, "SETUP"))

NoPlay(s) == \A i \in DOMAIN s.m_SeqMethodMap : s.m_SeqMethodMap[i] # "PLAY"

\* Over UDP every kind of stream has a pair, or will have one when its SETUP is sent.
Provided(s) ==
  s.m_bSetupTcp \/ \A k \in Media : s.m_sdpInfo[k] > 0 => s.m_udpHandles[k] # NoPair
Providing(s) ==
  s.m_bSetupTcp \/
    \A k \in Media : s.m_sdpInfo[k] > 0 => s.m_udpHandles[k] # NoPair \/ In(k, s.m_mediaInfoList)

\* What both properties ask of a connection that has g grants.
Sound(s, g) ==
  /\ Len(s.m_SeqMethodMap) <= 3 + Streams(s) + s.m_ulAuthenTime
  /\ NoPlay(s) \/ (g >= Streams(s) /\ Provided(s))

\* How far a handshake that goes on has come, by the request that waits.
Stage(s, g) ==
  LET sent    == Len(s.m_SeqMethodMap)
      waiting == Len(s.m_mediaInfoList)
      last    == LastMethod(s)
  IN  /\ s.m_SeqMethodMap # <<>>
      /\ last = "OPTIONS" => sent <= 1 + s.m_ulAuthenTime
      /\ last = "DESCRIBE" => sent <= 2 + s.m_ulAuthenTime
      /\ last \in {"OPTIONS", "DESCRIBE"} => s.m_sdpInfo = NoStreams /\ s.m_mediaInfoList = <<>>
      /\ last = "SETUP" => /\ sent + waiting <= 2 + s.m_ulAuthenTime + Streams(s)
                           /\ g + waiting + 1 >= Streams(s)
                           /\ Providing(s)
      /\ last = "PLAY" => /\ sent <= 3 + s.m_ulAuthenTime + Streams(s)
                          /\ s.m_mediaInfoList = <<>> /\ g >= Streams(s) /\ Provided(s)
      /\ last # "PLAY" => NoPlay(s)

\* A connection that is about to send a SETUP.
Due(t, g) ==
  /\ t.m_mediaInfoList # <<>> /\ NoPlay(t) /\ Providing(t)
  /\ Len(t.m_SeqMethodMap) + Len(t.m_mediaInfoList) <= 2 + t.m_ulAuthenTime + Streams(t)
  /\ g + Len(t.m_mediaInfoList) >= Streams(t)

Advance(o, g) == Sound(o.session, g) /\ (o.ok => Stage(o.session, g))

HandshakeInv ==
  setting.repeats = 0 =>
    \A c \in Conn : Open(c) =>
      /\ Len(answers[c]) <= Len(conn[c].m_SeqMethodMap)
      /\ Sound(conn[c], Grants(c))
      /\ conn[c].recv => Stage(conn[c], Grants(c))

-----------------------------------------------------------------------------
(* What the handlers do to a handshake.                                    *)

LEMMA Counts ==
  ASSUME NEW s \in Connection
  PROVE  /\ s.m_SeqMethodMap \in Seq(Methods) /\ Len(s.m_SeqMethodMap) \in Nat
         /\ s.m_mediaInfoList \in Seq(Media) /\ Len(s.m_mediaInfoList) \in Nat
         /\ s.m_sdpInfo \in [Media -> Nat] /\ Streams(s) \in Nat
         /\ s.m_ulAuthenTime \in Nat
<1>1. s.m_SeqMethodMap \in Seq(Methods) /\ s.m_mediaInfoList \in Seq(Media) /\ s.m_sdpInfo \in [Media -> Nat]
  BY DEF Connection
<1>2. s.m_ulAuthenTime \in Nat
  BY DEF Connection, RTSP_AUTH_TRY_MAX
<1> QED
  BY <1>1, <1>2 DEF Streams, Media

\* The sums the bound of the requests needs.
LEMMA Sums ==
  \A a, b, c, d \in Nat :
    /\ a <= 1 + c \/ a <= 2 + c \/ a + b <= 2 + c + d \/ a <= 3 + c + d => a <= 3 + d + c
    /\ b >= 1 /\ a + b <= 2 + c + d => a + 1 <= 3 + d + c /\ (a + 1) + (b - 1) <= 2 + c + d
    /\ \A e \in Nat : e <= a + 1 /\ a + 1 <= 3 + d + c => e <= 3 + d + c
OBVIOUS

\* One more request is allowed for one more retry.
LEMMA OneMore ==
  \A a, b, c, d \in Nat :
    /\ a <= 1 + c => a + 1 <= 1 + (c + 1)
    /\ a <= 2 + c => a + 1 <= 2 + (c + 1)
    /\ a + b <= 2 + c + d => (a + 1) + b <= 2 + (c + 1) + d
    /\ a <= 3 + c + d => a + 1 <= 3 + (c + 1) + d
OBVIOUS

LEMMA StageIsSound ==
  ASSUME NEW s \in Connection, NEW g, Stage(s, g)
  PROVE  Sound(s, g)
<1>1. s.m_SeqMethodMap \in Seq(Methods) /\ s.m_SeqMethodMap # <<>>
  BY Counts DEF Stage
<1>2. LastMethod(s) \in Methods
  BY <1>1 DEF LastMethod
<1>n. /\ Len(s.m_SeqMethodMap) \in Nat /\ Len(s.m_mediaInfoList) \in Nat
      /\ Streams(s) \in Nat /\ s.m_ulAuthenTime \in Nat
  BY Counts
<1>5. \/ Len(s.m_SeqMethodMap) <= 1 + s.m_ulAuthenTime
      \/ Len(s.m_SeqMethodMap) <= 2 + s.m_ulAuthenTime
      \/ Len(s.m_SeqMethodMap) + Len(s.m_mediaInfoList) <= 2 + s.m_ulAuthenTime + Streams(s)
      \/ Len(s.m_SeqMethodMap) <= 3 + s.m_ulAuthenTime + Streams(s)
  BY <1>2, Zenon DEF Stage, Methods
<1>3. Len(s.m_SeqMethodMap) <= 3 + Streams(s) + s.m_ulAuthenTime
  BY <1>n, <1>5, Sums
<1>4. NoPlay(s) \/ (g >= Streams(s) /\ Provided(s))
  BY DEF Stage
<1> QED
  BY <1>3, <1>4 DEF Sound

\* More grants do no harm.
LEMMA MoreGrants ==
  ASSUME NEW s \in Connection, NEW g \in Nat, NEW h \in Nat, h >= g
  PROVE  /\ Sound(s, g) => Sound(s, h)
         /\ Stage(s, g) => Stage(s, h)
<1>1. g >= Streams(s) => h >= Streams(s)
  BY Counts
<1>2. g + Len(s.m_mediaInfoList) + 1 >= Streams(s) => h + Len(s.m_mediaInfoList) + 1 >= Streams(s)
  BY Counts
<1>3. Sound(s, g) => Sound(s, h)
  BY <1>1 DEF Sound
<1>4. Stage(s, g) => Stage(s, h)
  BY <1>1, <1>2 DEF Stage
<1> QED
  BY <1>3, <1>4

LEMMA FailAdvances ==
  ASSUME NEW s \in Connection, NEW free \in Seq(Pairs), NEW g, Sound(s, g)
  PROVE  Advance(Fail(s, free), g)
BY DEF Fail, Advance

\* Only PLAY brings PLAY into the list of methods.
LEMMA NoPlayKept ==
  ASSUME NEW s \in Connection, NoPlay(s), NEW t, NEW method \in Methods \ {"PLAY"},
         t.m_SeqMethodMap = Append(s.m_SeqMethodMap, method)
  PROVE  NoPlay(t)
<1> DEFINE q == s.m_SeqMethodMap
<1>1. q \in Seq(Methods)
  BY Counts
<1>2. \A i \in DOMAIN Append(q, method) : Append(q, method)[i] = method \/ (i \in DOMAIN q /\ Append(q, method)[i] = q[i])
  BY <1>1
<1> QED
  BY <1>2 DEF NoPlay

LEMMA SetupAdvances ==
  ASSUME NEW t \in Connection, NEW free \in Seq(Pairs), NEW g \in Nat, Due(t, g),
         NEW o \in SetupNext(t, free)
  PROVE  Advance(o, g)
<1> DEFINE s == o.session
           list == t.m_mediaInfoList
<1>1. SetupStep(t, free, o) /\ (o.ok => s.m_mediaInfoList = Tail(list))
  BY SetupNextShape DEF Due
<1>2. s \in Connection
  BY <1>1 DEF SetupStep, Results
<1>3. Streams(s) = Streams(t) /\ s.m_ulAuthenTime = t.m_ulAuthenTime /\ s.m_bSetupTcp = t.m_bSetupTcp
      /\ s.m_sdpInfo = t.m_sdpInfo
  BY <1>1 DEF SetupStep, Streams
<1>4. list \in Seq(Media) /\ list # <<>> /\ Len(list) >= 1 /\ Len(Tail(list)) = Len(list) - 1
  BY Counts DEF Due
<1>5. Len(s.m_SeqMethodMap) <= Len(t.m_SeqMethodMap) + 1
  BY <1>1, Counts DEF SetupStep
<1>n. /\ Len(s.m_SeqMethodMap) \in Nat /\ Len(t.m_SeqMethodMap) \in Nat /\ Streams(t) \in Nat
      /\ t.m_ulAuthenTime \in Nat /\ Len(list) \in Nat
  BY <1>2, Counts
<1>6. NoPlay(s)
  <2>1. CASE s.m_SeqMethodMap = t.m_SeqMethodMap
    BY <2>1 DEF NoPlay, Due
  <2>2. CASE s.m_SeqMethodMap = Append(t.m_SeqMethodMap, "SETUP")
    <3>1. "SETUP" \in Methods \ {"PLAY"}
      BY DEF Methods
    <3> QED
      BY <2>2, <3>1, NoPlayKept DEF Due
  <2> QED
    BY <1>1, <2>1, <2>2 DEF SetupStep
<1>7. Sound(s, g)
  <2>1. Len(s.m_SeqMethodMap) <= 3 + Streams(s) + s.m_ulAuthenTime
    <3>1. Len(t.m_SeqMethodMap) + Len(list) <= 2 + t.m_ulAuthenTime + Streams(t)
      BY DEF Due
    <3>2. Len(t.m_SeqMethodMap) + 1 <= 3 + Streams(t) + t.m_ulAuthenTime
      BY <1>4, <1>n, <3>1, Sums
    <3>3. Len(s.m_SeqMethodMap) <= 3 + Streams(t) + t.m_ulAuthenTime
      BY <1>5, <1>n, <3>2, Sums
    <3> QED
      BY <1>3, <3>3
  <2> QED
    BY <1>6, <2>1 DEF Sound
<1>8. ASSUME o.ok PROVE Stage(s, g)
  <2>1. s.m_SeqMethodMap = Append(t.m_SeqMethodMap, "SETUP") /\ s.m_mediaInfoList = Tail(list)
    BY <1>1, <1>8 DEF SetupStep
  <2>m. t.m_SeqMethodMap \in Seq(Methods)
    BY Counts
  <2>2. s.m_SeqMethodMap # <<>> /\ LastMethod(s) = "SETUP" /\ Len(s.m_SeqMethodMap) = Len(t.m_SeqMethodMap) + 1
    <3> DEFINE q == t.m_SeqMethodMap
    <3>1. q \in Seq(Methods) /\ s.m_SeqMethodMap = Append(q, "SETUP")
      BY <2>1, <2>m
    <3> HIDE DEF q, s
    <3>2. /\ s.m_SeqMethodMap # <<>> /\ Len(s.m_SeqMethodMap) = Len(q) + 1
          /\ s.m_SeqMethodMap[Len(s.m_SeqMethodMap)] = "SETUP"
      BY <3>1
    <3> QED
      BY <3>2 DEF LastMethod, q
  <2>d. /\ Len(t.m_SeqMethodMap) + Len(list) <= 2 + t.m_ulAuthenTime + Streams(t)
        /\ g + Len(list) >= Streams(t)
    BY DEF Due
  <2>e. Len(s.m_mediaInfoList) = Len(list) - 1
    BY <1>4, <2>1
  <2>3. Len(s.m_SeqMethodMap) + Len(s.m_mediaInfoList) <= 2 + s.m_ulAuthenTime + Streams(s)
    BY <1>3, <1>4, <1>n, <2>2, <2>d, <2>e, Sums
  <2>4. g + Len(s.m_mediaInfoList) + 1 >= Streams(s)
    BY <1>3, <1>n, <2>d, <2>e
  <2>5. Providing(s)
    <3>1. CASE t.m_bSetupTcp
      BY <1>3, <3>1 DEF Providing
    <3>2. CASE ~t.m_bSetupTcp
      <4> SUFFICES ASSUME NEW k \in Media, s.m_sdpInfo[k] > 0, s.m_udpHandles[k] = NoPair
                   PROVE  In(k, s.m_mediaInfoList)
        BY DEF Providing
      <4>1. free # <<>> /\ s.m_udpHandles = [t.m_udpHandles EXCEPT ![Head(list)] = Head(free)]
        BY <1>1, <1>8, <3>2 DEF SetupStep
      <4>2. Head(free) # NoPair
        BY <4>1, PairFacts
      <4>3. t.m_udpHandles \in [Media -> Pairs \cup {NoPair}]
        BY DEF Connection
      <4>4. k # Head(list) /\ t.m_udpHandles[k] = NoPair
        BY <4>1, <4>2, <4>3
      <4>5. PICK i \in DOMAIN list : list[i] = k
        BY <1>3, <3>2, <4>4 DEF Due, Providing, In
      <4>6. i # 1
        BY <1>4, <4>4, <4>5
      <4>7. i - 1 \in DOMAIN Tail(list) /\ Tail(list)[i - 1] = k
        BY <1>4, <4>5, <4>6
      <4> QED
        BY <2>1, <4>7 DEF In
    <3> QED
      BY <3>1, <3>2
  <2> QED
    BY <1>6, <2>2, <2>3, <2>4, <2>5 DEF Stage
<1> QED
  BY <1>7, <1>8 DEF Advance

LEMMA StreamListCovers ==
  ASSUME NEW sdp \in [Media -> Nat]
  PROVE  /\ Len(StreamList(sdp)) = sdp["video"] + sdp["audio"]
         /\ \A k \in Media : sdp[k] > 0 => In(k, StreamList(sdp))
<1>1. sdp["video"] \in Nat /\ sdp["audio"] \in Nat
  BY DEF Media
<1>2. DOMAIN StreamList(sdp) = 1 .. sdp["video"] + sdp["audio"] /\ StreamList(sdp) \in Seq(Media)
  BY StreamListShape DEF StreamList
<1>3. Len(StreamList(sdp)) = sdp["video"] + sdp["audio"]
  BY <1>1, <1>2
<1>4. ASSUME sdp["video"] > 0 PROVE In("video", StreamList(sdp))
  <2>1. 1 \in DOMAIN StreamList(sdp) /\ StreamList(sdp)[1] = "video"
    BY <1>1, <1>4 DEF StreamList
  <2> QED
    BY <2>1 DEF In
<1>5. ASSUME sdp["audio"] > 0 PROVE In("audio", StreamList(sdp))
  <2> DEFINE n == sdp["video"] + sdp["audio"]
  <2>1. n \in DOMAIN StreamList(sdp) /\ StreamList(sdp)[n] = "audio"
    BY <1>1, <1>5 DEF StreamList
  <2> QED
    BY <2>1 DEF In
<1> QED
  BY <1>3, <1>4, <1>5 DEF Media

LEMMA DescribeAdvances ==
  ASSUME NEW s \in Connection, NEW free \in Seq(Pairs), NEW sdp \in [Media -> Nat], NEW g \in Nat,
         Stage(s, g), LastMethod(s) = "DESCRIBE", NEW o \in HandleRtspDescribeResp(s, free, sdp)
  PROVE  Advance(o, g)
<1> DEFINE decoded == [k \in Media |-> s.m_sdpInfo[k] + sdp[k]]
           listed  == [s EXCEPT !.m_sdpInfo = decoded, !.m_mediaInfoList = StreamList(decoded)]
<1>1. s.m_sdpInfo \in [Media -> Nat]
  BY Counts
<1>2. decoded \in [Media -> Nat]
  BY <1>1
<1>3. StreamList(decoded) \in Seq(Media)
  BY <1>2, StreamListShape
<1>4. o \in IF listed.m_mediaInfoList = <<>> THEN { Fail(listed, free) } ELSE SetupNext(listed, free)
  BY DEF HandleRtspDescribeResp
<1> HIDE DEF decoded
<1>5. /\ listed \in Connection /\ listed.m_mediaInfoList = StreamList(decoded)
      /\ listed.m_SeqMethodMap = s.m_SeqMethodMap /\ listed.m_sdpInfo = decoded
      /\ listed.m_ulAuthenTime = s.m_ulAuthenTime
  BY <1>2, <1>3 DEF Connection
<1> HIDE DEF listed
<1>6. /\ NoPlay(listed) /\ Len(s.m_SeqMethodMap) <= 2 + s.m_ulAuthenTime
  BY <1>5 DEF Stage, NoPlay
<1>7. CASE listed.m_mediaInfoList = <<>>
  <2>1. o = Fail(listed, free)
    BY <1>4, <1>7
  <2>2. Len(listed.m_SeqMethodMap) <= 3 + Streams(listed) + listed.m_ulAuthenTime
    BY <1>5, <1>6, Counts
  <2> QED
    BY <1>5, <1>6, <2>1, <2>2, FailAdvances DEF Sound
<1>8. CASE listed.m_mediaInfoList # <<>>
  <2>1. o \in SetupNext(listed, free)
    BY <1>4, <1>8
  <2>2. Len(listed.m_mediaInfoList) = Streams(listed) /\ \A k \in Media : decoded[k] > 0 => In(k, listed.m_mediaInfoList)
    BY <1>2, <1>5, StreamListCovers DEF Streams
  <2>3. Due(listed, g)
    <3>1. Len(listed.m_SeqMethodMap) + Len(listed.m_mediaInfoList) <= 2 + listed.m_ulAuthenTime + Streams(listed)
      BY <1>5, <1>6, <2>2, Counts
    <3>2. g + Len(listed.m_mediaInfoList) >= Streams(listed)
      BY <1>5, <2>2, Counts
    <3> QED
      BY <1>5, <1>6, <1>8, <2>2, <3>1, <3>2 DEF Due, Providing
  <2> QED
    BY <1>5, <2>1, <2>3, SetupAdvances
<1> QED
  BY <1>7, <1>8

\* The answer to a SETUP is one grant more.
LEMMA SetUpRespAdvances ==
  ASSUME NEW s \in Connection, NEW free \in Seq(Pairs), NEW g \in Nat, NEW h \in Nat, h >= g + 1,
         Stage(s, g), LastMethod(s) = "SETUP", NEW o \in HandleRtspSetUpResp(s, free)
  PROVE  Advance(o, h)
<1>s. /\ Len(s.m_SeqMethodMap) + Len(s.m_mediaInfoList) <= 2 + s.m_ulAuthenTime + Streams(s)
      /\ g + Len(s.m_mediaInfoList) + 1 >= Streams(s) /\ Providing(s) /\ NoPlay(s)
  BY DEF Stage
<1>1. CASE s.m_mediaInfoList # <<>>
  <2>1. o \in SetupNext(s, free)
    BY <1>1 DEF HandleRtspSetUpResp
  <2>2. h + Len(s.m_mediaInfoList) >= Streams(s)
    BY <1>s, Counts
  <2> QED
    BY <1>1, <1>s, <2>1, <2>2, SetupAdvances DEF Due
<1>2. CASE s.m_mediaInfoList = <<>>
  <2> DEFINE t == [s EXCEPT !.m_Status = "SETUP", !.m_enStatus = "HANDSHAKE"]
  <2>1. o \in SendRtspReq(t, free, "PLAY")
    BY <1>2 DEF HandleRtspSetUpResp
  <2>2. /\ t \in Connection /\ t.m_SeqMethodMap = s.m_SeqMethodMap /\ t.m_udpHandles = s.m_udpHandles
        /\ t.m_mediaInfoList = <<>> /\ t.m_sdpInfo = s.m_sdpInfo
        /\ t.m_bSetupTcp = s.m_bSetupTcp /\ t.m_ulAuthenTime = s.m_ulAuthenTime
    BY <1>2 DEF Connection
  <2> HIDE DEF t
  <2>3. "PLAY" \in Methods
    BY DEF Methods
  <2>4. Requested(t, o.session, "PLAY")
    BY <2>1, <2>2, <2>3, SendRtspReqShape
  <2>5. /\ Streams(o.session) = Streams(s) /\ o.session.m_ulAuthenTime = s.m_ulAuthenTime
        /\ Len(o.session.m_SeqMethodMap) = Len(s.m_SeqMethodMap) + 1
        /\ o.session.m_SeqMethodMap # <<>> /\ LastMethod(o.session) = "PLAY"
        /\ o.session.m_mediaInfoList = <<>> /\ o.session \in Connection
    BY <2>2, <2>4, Counts DEF Requested, Streams
  <2>6. Len(s.m_mediaInfoList) = 0
    BY <1>2
  <2>n. Len(s.m_SeqMethodMap) \in Nat /\ Streams(s) \in Nat /\ s.m_ulAuthenTime \in Nat
    BY Counts
  <2>7. Len(o.session.m_SeqMethodMap) <= 3 + s.m_ulAuthenTime + Streams(s) /\ h >= Streams(s)
    BY <1>s, <2>5, <2>6, <2>n, SMTT(30)
  <2>8. Provided(o.session)
    <3>1. \A k : ~In(k, s.m_mediaInfoList)
      BY <1>2 DEF In
    <3> QED
      BY <1>s, <2>2, <2>4, <3>1 DEF Requested, Provided, Providing
  <2>9. Stage(o.session, h)
    BY <2>5, <2>7, <2>8 DEF Stage
  <2> QED
    BY <2>5, <2>9, StageIsSound DEF Advance
<1> QED
  BY <1>1, <1>2

LEMMA AuthenticateAdvances ==
  ASSUME NEW s \in Connection, NEW free \in Seq(Pairs), NEW g \in Nat, Stage(s, g),
         LastMethod(s) \in Methods, NEW o \in Authenticate(s, free, LastMethod(s))
  PROVE  Advance(o, g)
<1>1. CASE o = Fail(s, free)
  BY <1>1, FailAdvances, StageIsSound
<1>2. CASE o # Fail(s, free)
  <2> DEFINE t == [s EXCEPT !.m_ulAuthenTime = @ + 1]
             last == LastMethod(s)
  <2>1. o \in SendRtspReq(t, free, last) /\ ~(RTSP_AUTH_TRY_MAX < s.m_ulAuthenTime)
    BY <1>2 DEF Authenticate
  <2>2. s.m_ulAuthenTime + 1 \in 0 .. RTSP_AUTH_TRY_MAX + 1
    BY <2>1 DEF Connection, RTSP_AUTH_TRY_MAX
  <2>3. /\ t \in Connection /\ t.m_SeqMethodMap = s.m_SeqMethodMap /\ t.m_udpHandles = s.m_udpHandles
        /\ t.m_mediaInfoList = s.m_mediaInfoList /\ t.m_sdpInfo = s.m_sdpInfo
        /\ t.m_bSetupTcp = s.m_bSetupTcp /\ t.m_ulAuthenTime = s.m_ulAuthenTime + 1
    BY <2>2 DEF Connection
  <2> HIDE DEF t
  <2> DEFINE r == o.session
  <2>4. Requested(t, r, last)
    BY <2>1, <2>3, SendRtspReqShape
  <2>5. /\ r \in Connection /\ r.m_SeqMethodMap = Append(s.m_SeqMethodMap, last)
        /\ LastMethod(r) = last /\ r.m_SeqMethodMap # <<>>
        /\ r.m_udpHandles = s.m_udpHandles /\ r.m_mediaInfoList = s.m_mediaInfoList
        /\ r.m_sdpInfo = s.m_sdpInfo /\ r.m_bSetupTcp = s.m_bSetupTcp
        /\ r.m_ulAuthenTime = s.m_ulAuthenTime + 1
    BY <2>3, <2>4 DEF Requested
  <2> HIDE DEF r
  <2>n. /\ s.m_SeqMethodMap \in Seq(Methods) /\ Len(s.m_SeqMethodMap) \in Nat
        /\ Len(s.m_mediaInfoList) \in Nat /\ Streams(s) \in Nat /\ s.m_ulAuthenTime \in Nat
    BY Counts
  <2>6. Len(r.m_SeqMethodMap) = Len(s.m_SeqMethodMap) + 1 /\ Streams(r) = Streams(s)
    BY <2>5, <2>n DEF Streams
  <2>7. (Providing(r) <=> Providing(s)) /\ (Provided(r) <=> Provided(s))
    BY <2>5 DEF Providing, Provided
  <2>8. last # "PLAY" => NoPlay(r)
    BY <2>5, NoPlayKept DEF Stage
  <2>10. LET a == Len(s.m_SeqMethodMap)
             b == Len(s.m_mediaInfoList)
             c == s.m_ulAuthenTime
             d == Streams(s)
         IN  /\ a <= 1 + c => a + 1 <= 1 + (c + 1)
             /\ a <= 2 + c => a + 1 <= 2 + (c + 1)
             /\ a + b <= 2 + c + d => (a + 1) + b <= 2 + (c + 1) + d
             /\ a <= 3 + c + d => a + 1 <= 3 + (c + 1) + d
    BY <2>n, OneMore
  <2>11. Stage(r, g)
    <3>1. CASE last = "OPTIONS"
      BY <2>5, <2>6, <2>8, <2>10, <3>1 DEF Stage
    <3>2. CASE last = "DESCRIBE"
      BY <2>5, <2>6, <2>8, <2>10, <3>2 DEF Stage
    <3>3. CASE last = "SETUP"
      <4>1. Len(s.m_SeqMethodMap) + Len(s.m_mediaInfoList) <= 2 + s.m_ulAuthenTime + Streams(s)
        BY <3>3 DEF Stage
      <4>2. Len(r.m_SeqMethodMap) + Len(r.m_mediaInfoList) <= 2 + r.m_ulAuthenTime + Streams(r)
        BY <2>5, <2>6, <2>10, <4>1
      <4>3. g + Len(r.m_mediaInfoList) + 1 >= Streams(r) /\ Providing(r)
        BY <2>5, <2>6, <2>7, <3>3 DEF Stage
      <4> QED
        BY <2>5, <2>8, <3>3, <4>2, <4>3 DEF Stage
    <3>4. CASE last = "PLAY"
      BY <2>5, <2>6, <2>7, <2>10, <3>4 DEF Stage
    <3> QED
      BY <3>1, <3>2, <3>3, <3>4 DEF Methods
  <2> QED
    BY <2>5, <2>11, StageIsSound DEF Advance, r
<1> QED
  BY <1>1, <1>2

LEMMA OptionsAdvances ==
  ASSUME NEW s \in Connection, NEW free \in Seq(Pairs), NEW g \in Nat, Stage(s, g),
         LastMethod(s) = "OPTIONS", NEW o \in SendRtspReq(s, free, "DESCRIBE")
  PROVE  Advance(o, g)
<1> DEFINE r == o.session
<1>1. "DESCRIBE" \in Methods \ {"PLAY"}
  BY DEF Methods
<1>2. Requested(s, r, "DESCRIBE")
  BY <1>1, SendRtspReqShape
<1>3. Len(r.m_SeqMethodMap) = Len(s.m_SeqMethodMap) + 1 /\ r \in Connection
  BY <1>2, Counts DEF Requested
<1>4. Len(r.m_SeqMethodMap) <= 2 + r.m_ulAuthenTime
  <2>1. Len(s.m_SeqMethodMap) <= 1 + s.m_ulAuthenTime /\ r.m_ulAuthenTime = s.m_ulAuthenTime
    BY <1>2 DEF Stage, Requested
  <2>2. Len(s.m_SeqMethodMap) \in Nat /\ s.m_ulAuthenTime \in Nat
    BY Counts
  <2> QED
    BY <1>3, <2>1, <2>2
<1>5. NoPlay(r)
  BY <1>1, <1>2, NoPlayKept DEF Stage, Requested
<1>6. Stage(r, g)
  BY <1>2, <1>4, <1>5 DEF Stage, Requested
<1> QED
  BY <1>3, <1>6, StageIsSound DEF Advance

\* An outcome that sends nothing and changes at most the status.
LEMMA StatusAdvances ==
  ASSUME NEW s \in Connection, NEW g \in Nat, Stage(s, g), NEW t \in Connection, NEW o, o.session = t,
         t.m_SeqMethodMap = s.m_SeqMethodMap, t.m_udpHandles = s.m_udpHandles,
         t.m_mediaInfoList = s.m_mediaInfoList, t.m_sdpInfo = s.m_sdpInfo,
         t.m_bSetupTcp = s.m_bSetupTcp, t.m_ulAuthenTime = s.m_ulAuthenTime
  PROVE  Advance(o, g)
<1>1. LastMethod(t) = LastMethod(s) /\ Streams(t) = Streams(s) /\ (NoPlay(t) <=> NoPlay(s))
      /\ (Provided(t) <=> Provided(s)) /\ (Providing(t) <=> Providing(s))
  BY DEF LastMethod, Streams, NoPlay, Provided, Providing
<1>2. Stage(t, g)
  BY <1>1 DEF Stage
<1> QED
  BY <1>2, StageIsSound DEF Advance

\* h is the number of grants after the answer, g before.
LEMMA HandleRtspRespAdvances ==
  ASSUME NEW s \in Connection, NEW free \in Seq(Pairs), NEW answer \in Answers,
         NEW g \in Nat, NEW h \in Nat, h >= g, Stage(s, g), AnswersTheLast(s, answer),
         /\ answer.cseq < Len(s.m_SeqMethodMap) /\ answer.code = "200" /\ LastMethod(s) = "SETUP"
           => h >= g + 1,
         NEW o \in HandleRtspResp(s, free, answer)
  PROVE  Advance(o, h)
<1>0. /\ answer.cseq \in Nat /\ answer.code \in {"200", "401", "error"} /\ answer.sdp \in [Media -> Nat]
      /\ s.m_SeqMethodMap \in Seq(Methods)
  BY DEF Answers, Connection
<1>h. Stage(s, h) /\ Sound(s, h)
  BY MoreGrants, StageIsSound
<1>1. CASE answer.cseq >= Len(s.m_SeqMethodMap)
  <2>1. o = Fail(s, free)
    BY <1>1 DEF HandleRtspResp
  <2> QED
    BY <1>h, <2>1, FailAdvances
<1>2. CASE ~(answer.cseq >= Len(s.m_SeqMethodMap))
  <2> DEFINE method == s.m_SeqMethodMap[answer.cseq + 1]
  <2>1. method \in Methods
    BY <1>0, <1>2
  <2>2. method = LastMethod(s)
    <3>1. answer.cseq + 1 = Len(s.m_SeqMethodMap)
      BY <1>0, <1>2 DEF AnswersTheLast
    <3> QED
      BY <3>1 DEF LastMethod
  <2>3. o \in CASE answer.code = "401"   -> Authenticate(s, free, method)
                [] answer.code = "error" -> { Fail(s, free) }
                [] OTHER                 -> HandleOk(s, free, method, answer.sdp)
    BY <1>2 DEF HandleRtspResp
  <2> HIDE DEF method
  <2>4. CASE answer.code = "401"
    <3>1. o \in Authenticate(s, free, LastMethod(s))
      BY <2>2, <2>3, <2>4
    <3> QED
      BY <1>h, <2>1, <2>2, <3>1, AuthenticateAdvances
  <2>5. CASE answer.code = "error"
    <3>1. o = Fail(s, free)
      BY <2>3, <2>5
    <3> QED
      BY <1>h, <3>1, FailAdvances
  <2>6. CASE answer.code = "200"
    <3>1. o \in HandleOk(s, free, method, answer.sdp)
      BY <2>3, <2>6
    <3>2. CASE method = "OPTIONS"
      <4>1. CASE s.m_Status = "INIT"
        <5>1. o \in SendRtspReq(s, free, "DESCRIBE")
          BY <3>1, <3>2, <4>1 DEF HandleOk
        <5> QED
          BY <1>h, <2>2, <3>2, <5>1, OptionsAdvances
      <4>2. CASE s.m_Status # "INIT"
        <5>1. o.session = s
          BY <3>1, <3>2, <4>2 DEF HandleOk
        <5> QED
          BY <1>h, <5>1, StatusAdvances
      <4> QED
        BY <4>1, <4>2
    <3>3. CASE method = "DESCRIBE"
      <4>1. o \in HandleRtspDescribeResp(s, free, answer.sdp)
        BY <3>1, <3>3 DEF HandleOk
      <4> QED
        BY <1>0, <1>h, <2>2, <3>3, <4>1, DescribeAdvances
    <3>4. CASE method = "SETUP"
      <4>1. o \in HandleRtspSetUpResp(s, free)
        BY <3>1, <3>4 DEF HandleOk
      <4>2. h >= g + 1
        BY <1>0, <1>2, <2>2, <2>6, <3>4
      <4> QED
        BY <2>2, <3>4, <4>1, <4>2, SetUpRespAdvances
    <3>5. CASE method = "PLAY"
      <4> DEFINE t == [s EXCEPT !.m_Status = "PLAY", !.m_enStatus = "RUNNING"]
      <4>1. o.session = t
        BY <3>1, <3>5 DEF HandleOk
      <4>2. /\ t \in Connection /\ t.m_SeqMethodMap = s.m_SeqMethodMap /\ t.m_udpHandles = s.m_udpHandles
            /\ t.m_mediaInfoList = s.m_mediaInfoList /\ t.m_sdpInfo = s.m_sdpInfo
            /\ t.m_bSetupTcp = s.m_bSetupTcp /\ t.m_ulAuthenTime = s.m_ulAuthenTime
        BY DEF Connection
      <4> HIDE DEF t
      <4> QED
        BY <1>h, <4>1, <4>2, StatusAdvances
    <3> QED
      BY <2>1, <3>2, <3>3, <3>4, <3>5 DEF Methods
  <2> QED
    BY <1>0, <2>4, <2>5, <2>6
<1> QED
  BY <1>1, <1>2

-----------------------------------------------------------------------------
(* The grants, and the actions.                                            *)

LEMMA GrantedIsFinite ==
  ASSUME TypeOK, NEW c \in Conn
  PROVE  IsFiniteSet(Granted(c, "SETUP")) /\ Grants(c) \in Nat
<1> DEFINE indexes == { j \in 1 .. read[c] : /\ answers[c][j].code = "200"
                                             /\ conn[c].m_SeqMethodMap[answers[c][j].cseq + 1] = "SETUP" }
           f == [i \in indexes |-> answers[c][i].cseq]
<1>1. read[c] \in Nat
  BY DEF TypeOK
<1>2. IsFiniteSet(1 .. read[c])
  BY <1>1, FS_Interval
<1>3. IsFiniteSet(indexes)
  BY <1>2, FS_Subset
<1>4. f \in Surjection(indexes, Granted(c, "SETUP"))
  BY DEF Surjection, Granted
<1>5. IsFiniteSet(Granted(c, "SETUP"))
  BY <1>3, <1>4, FS_Surjection
<1> QED
  BY <1>5, FS_CardinalityType DEF Grants

\* Nothing is read, and what has been read and asked stays.
LEMMA GrantsStay ==
  ASSUME NEW c \in Conn, read'[c] = read[c], conn'[c].m_SeqMethodMap = conn[c].m_SeqMethodMap,
         \A i \in 1 .. read[c] : answers'[c][i] = answers[c][i]
  PROVE  Grants(c)' = Grants(c)
<1>1. Granted(c, "SETUP")' = Granted(c, "SETUP")
  BY DEF Granted
<1> QED
  BY <1>1 DEF Grants

LEMMA SoundDependsOn ==
  ASSUME NEW s, NEW t, NEW g, Sound(s, g),
         t.m_SeqMethodMap = s.m_SeqMethodMap, t.m_udpHandles = s.m_udpHandles,
         t.m_mediaInfoList = s.m_mediaInfoList, t.m_sdpInfo = s.m_sdpInfo,
         t.m_bSetupTcp = s.m_bSetupTcp, t.m_ulAuthenTime = s.m_ulAuthenTime
  PROVE  Sound(t, g) /\ (Stage(s, g) => Stage(t, g))
<1>1. LastMethod(t) = LastMethod(s) /\ Streams(t) = Streams(s) /\ (NoPlay(t) <=> NoPlay(s))
      /\ (Provided(t) <=> Provided(s)) /\ (Providing(t) <=> Providing(s))
  BY DEF LastMethod, Streams, NoPlay, Provided, Providing
<1> QED
  BY <1>1 DEF Sound, Stage

\* What HandshakeInv says of one connection.
HandshakeOK(c) ==
  /\ Len(answers[c]) <= Len(conn[c].m_SeqMethodMap)
  /\ Sound(conn[c], Grants(c))
  /\ conn[c].recv => Stage(conn[c], Grants(c))

\* A connection nothing happens to.
LEMMA OthersKeep ==
  ASSUME NEW c \in Conn, HandshakeOK(c), conn'[c] = conn[c], answers'[c] = answers[c], read'[c] = read[c]
  PROVE  HandshakeOK(c)'
<1>1. Grants(c)' = Grants(c)
  BY GrantsStay
<1> QED
  BY <1>1 DEF HandshakeOK

\* A connection that may stop reading, and asks for nothing.
LEMMA QuietKeeps ==
  ASSUME NEW c \in Conn, HandshakeOK(c), answers'[c] = answers[c], read'[c] = read[c],
         LET s == conn[c]
             t == conn'[c]
         IN  /\ t.m_SeqMethodMap = s.m_SeqMethodMap /\ t.m_udpHandles = s.m_udpHandles
             /\ t.m_mediaInfoList = s.m_mediaInfoList /\ t.m_sdpInfo = s.m_sdpInfo
             /\ t.m_bSetupTcp = s.m_bSetupTcp /\ t.m_ulAuthenTime = s.m_ulAuthenTime
             /\ t.recv => s.recv
  PROVE  HandshakeOK(c)'
<1>1. Grants(c)' = Grants(c)
  BY GrantsStay
<1>2. Sound(conn'[c], Grants(c)) /\ (Stage(conn[c], Grants(c)) => Stage(conn'[c], Grants(c)))
  BY SoundDependsOn DEF HandshakeOK
<1> QED
  BY <1>1, <1>2 DEF HandshakeOK

LEMMA StartHandshake ==
  ASSUME SessionInv, SessionInv', NEW c \in Conn, Start(c), HandshakeOK(c)
  PROVE  HandshakeOK(c)'
<1> DEFINE begun == [conn[c] EXCEPT !.m_enStatus = "CONNECTED"]
<1>1. PICK o \in SendRtspReq(begun, m_RtpRtcpfreeList, "OPTIONS"), timer \in Attempts :
        conn' = [conn EXCEPT ![c] = [o.session EXCEPT !.registered = TRUE, !.recv = o.ok,
                                                      !.m_bRegister = o.ok /\ timer]]
  BY DEF Start
<1>2. Open(c) /\ conn[c] \in Connection /\ conn[c] = NewConnection(conn[c].m_bSetupTcp)
  BY OpenIsConnection DEF Start, StatusOK, SessionInv
<1>3. /\ begun \in Connection /\ begun.m_mediaInfoList = <<>> /\ begun.m_sdpInfo = NoStreams
      /\ begun.m_SeqMethodMap = <<>> /\ begun.m_ulAuthenTime = 0 /\ conn[c].m_SeqMethodMap = <<>>
  BY <1>2 DEF NewConnection, Connection
<1> HIDE DEF begun
<1>4. "OPTIONS" \in Methods /\ m_RtpRtcpfreeList \in Seq(Pairs) /\ timer \in BOOLEAN
  BY DEF Methods, SessionInv, TypeOK, Attempts
<1>5. Requested(begun, o.session, "OPTIONS") /\ o \in Results
  BY <1>3, <1>4, SendRtspReqShape
<1>6. /\ o.session \in Connection /\ o.ok \in BOOLEAN /\ o.session.m_SeqMethodMap = <<"OPTIONS">>
      /\ o.session.m_mediaInfoList = <<>> /\ o.session.m_sdpInfo = NoStreams
      /\ o.session.m_ulAuthenTime = 0
  BY <1>3, <1>5 DEF Requested, Results
<1>7. conn'[c] = [o.session EXCEPT !.registered = TRUE, !.recv = o.ok, !.m_bRegister = o.ok /\ timer]
  BY <1>1 DEF SessionInv, TypeOK
<1> DEFINE r == conn'[c]
<1>8. /\ r.m_SeqMethodMap = <<"OPTIONS">> /\ r.m_mediaInfoList = <<>> /\ r.m_sdpInfo = NoStreams
      /\ r.m_ulAuthenTime = 0
  BY <1>6, <1>7 DEF Connection
<1>9. r \in Connection
  BY <1>4, <1>6, <1>7 DEF Connection
<1> HIDE DEF r
<1>10. NoPlay(r) /\ Len(r.m_SeqMethodMap) = 1 /\ LastMethod(r) = "OPTIONS" /\ r.m_SeqMethodMap # <<>>
  BY <1>8 DEF NoPlay, LastMethod
<1>11. \A g : Stage(r, g)
  BY <1>8, <1>10 DEF Stage
<1>12. \A g : Sound(r, g)
  BY <1>9, <1>11, StageIsSound
<1>13. Len(answers[c]) <= 0
  BY <1>3 DEF HandshakeOK
<1>14. Len(answers[c]) \in Nat /\ answers' = answers
  BY DEF Start, SessionInv, TypeOK
<1> QED
  BY <1>10, <1>11, <1>12, <1>13, <1>14 DEF HandshakeOK, r

LEMMA CreateHandshake ==
  ASSUME SessionInv, SessionInv', NEW c \in Conn, Create(c)
  PROVE  HandshakeOK(c)'
<1>1. PICK tcp \in setting.transports : conn' = [conn EXCEPT ![c] = NewConnection(tcp)]
  BY DEF Create
<1> DEFINE r == conn'[c]
<1>2. r = NewConnection(tcp)
  BY <1>1 DEF SessionInv, TypeOK
<1>3. /\ r.m_SeqMethodMap = <<>> /\ ~r.recv /\ r.m_sdpInfo = NoStreams /\ r.m_ulAuthenTime = 0
  BY <1>2 DEF NewConnection
<1>4. NoPlay(r) /\ Len(r.m_SeqMethodMap) = 0 /\ Streams(r) = 0
  BY <1>3 DEF NoPlay, Streams, NoStreams, Media
<1>5. \A g : Sound(r, g)
  BY <1>3, <1>4 DEF Sound
<1>6. answers'[c] = <<>>
  BY DEF Create, SessionInv, StatusOK
<1> HIDE DEF r
<1> QED
  BY <1>3, <1>4, <1>5, <1>6 DEF HandshakeOK, r

LEMMA AnswerHandshake ==
  ASSUME SessionInv, NEW c \in Conn, Answer(c), HandshakeOK(c), setting.repeats = 0
  PROVE  HandshakeOK(c)'
<1>1. \E a : answers' = [answers EXCEPT ![c] = Append(@, a)]
  BY DEF Answer
<1>2. PICK a : answers'[c] = Append(answers[c], a)
  BY <1>1 DEF SessionInv, TypeOK
<1>3. answers[c] \in Seq(Answers) /\ read[c] \in Nat /\ read[c] <= Len(answers[c])
  BY DEF SessionInv, TypeOK, Lockstep
<1>4. Len(answers'[c]) = Len(answers[c]) + 1 /\ \A i \in 1 .. read[c] : answers'[c][i] = answers[c][i]
  BY <1>2, <1>3
<1>5. conn' = conn /\ read' = read
  BY DEF Answer
<1>6. Grants(c)' = Grants(c)
  BY <1>4, <1>5, GrantsStay
<1>7. Len(answers[c]) + 1 <= Len(conn[c].m_SeqMethodMap)
  <2>1. Cardinality(Answered(c)) = Len(answers[c]) /\ Len(answers[c]) \in Nat
    BY <1>3, AnsweredCount DEF SessionInv, Lockstep
  <2>2. conn[c] \in Connection
    BY OpenIsConnection DEF SessionInv, Answer, Reads
  <2>3. Len(conn[c].m_SeqMethodMap) \in Nat
    BY <2>2, Counts
  <2> QED
    BY <2>1, <2>3 DEF Answer
<1> QED
  BY <1>4, <1>5, <1>6, <1>7 DEF HandshakeOK

LEMMA HandleRecvHandshake ==
  ASSUME SessionInv, SessionInv', NEW c \in Conn, HandleRecv(c), HandshakeOK(c), setting.repeats = 0
  PROVE  HandshakeOK(c)'
<1> DEFINE s == conn[c]
           free == m_RtpRtcpfreeList
           answer == answers[c][read[c] + 1]
           g == Grants(c)
           h == Grants(c)'
<1>1. PICK o \in HandleRtspResp(s, free, answer) : conn' = [conn EXCEPT ![c] = AfterRecv(o)]
  BY DEF HandleRecv
<1>2. Open(c) /\ s \in Connection /\ free \in Seq(Pairs) /\ s.recv
  BY OpenIsConnection DEF HandleRecv, Reads, SessionInv, TypeOK
<1>3. /\ read[c] + 1 \in DOMAIN answers[c] /\ answer \in Answers
      /\ read[c] \in Nat /\ Len(answers[c]) \in Nat /\ read[c] + 1 <= Len(answers[c])
      /\ answers[c] \in Seq(Answers)
  BY DEF HandleRecv, SessionInv, TypeOK
<1>4. \A i \in DOMAIN answers[c] : answers[c][i].cseq = i - 1
  BY DEF SessionInv, Lockstep
<1>5. s.m_SeqMethodMap \in Seq(Methods) /\ Len(s.m_SeqMethodMap) \in Nat
  BY <1>2, Counts
<1>6. AnswersTheLast(s, answer) /\ answer.cseq = read[c] /\ Len(s.m_SeqMethodMap) = read[c] + 1
  <2>1. Len(s.m_SeqMethodMap) <= read[c] + 1
    BY <1>2 DEF SessionInv, Lockstep
  <2>2. Len(answers[c]) <= Len(s.m_SeqMethodMap)
    BY DEF HandshakeOK
  <2>3. answer.cseq = read[c]
    BY <1>3, <1>4
  <2> QED
    BY <1>3, <1>5, <2>1, <2>2, <2>3 DEF AnswersTheLast
<1>7. conn'[c] = AfterRecv(o) /\ read'[c] = read[c] + 1 /\ answers' = answers
  BY <1>1 DEF HandleRecv, SessionInv, TypeOK
<1>8. Outcome(s, free, o)
  BY <1>1, <1>2, <1>3, HandleRtspRespOutcome
<1> DEFINE r == conn'[c]
<1>9. /\ r.m_SeqMethodMap = o.session.m_SeqMethodMap /\ r.m_udpHandles = o.session.m_udpHandles
      /\ r.m_mediaInfoList = o.session.m_mediaInfoList /\ r.m_sdpInfo = o.session.m_sdpInfo
      /\ r.m_bSetupTcp = o.session.m_bSetupTcp /\ r.m_ulAuthenTime = o.session.m_ulAuthenTime
      /\ r.recv => o.ok
  BY <1>7, <1>8 DEF AfterRecv, Outcome, Results, Connection
<1>10. /\ \A i \in DOMAIN s.m_SeqMethodMap : i \in DOMAIN r.m_SeqMethodMap /\ r.m_SeqMethodMap[i] = s.m_SeqMethodMap[i]
       /\ Len(r.m_SeqMethodMap) >= Len(s.m_SeqMethodMap)
  BY <1>5, <1>8, <1>9 DEF Outcome, AsksAtMostOnce
<1>11. Granted(c, "SETUP") \subseteq Granted(c, "SETUP")'
  <2> SUFFICES ASSUME NEW j \in 1 .. read[c], answers[c][j].code = "200",
                      s.m_SeqMethodMap[answers[c][j].cseq + 1] = "SETUP"
               PROVE  answers[c][j].cseq \in Granted(c, "SETUP")'
    BY DEF Granted
  <2>1. answers[c][j].cseq = j - 1 /\ j \in 1 .. read[c] + 1 /\ j \in DOMAIN s.m_SeqMethodMap
    <3>1. j \in Nat /\ j >= 1 /\ j <= read[c] + 1 /\ j <= Len(answers[c])
      BY <1>3
    <3>2. j \in DOMAIN answers[c]
      BY <1>3, <3>1
    <3>3. j \in 1 .. Len(s.m_SeqMethodMap)
      BY <1>6, <3>1
    <3> QED
      BY <1>3, <1>4, <1>5, <3>1, <3>2, <3>3
  <2>2. answers[c][j].cseq + 1 = j
    BY <1>3, <2>1
  <2>3. r.m_SeqMethodMap[answers[c][j].cseq + 1] = "SETUP"
    BY <1>10, <2>1, <2>2
  <2> QED
    BY <1>7, <2>1, <2>3 DEF Granted
<1>12. answer.code = "200" /\ LastMethod(s) = "SETUP" =>
         answer.cseq \in Granted(c, "SETUP")' /\ answer.cseq \notin Granted(c, "SETUP")
  <2> SUFFICES ASSUME answer.code = "200", LastMethod(s) = "SETUP"
               PROVE  answer.cseq \in Granted(c, "SETUP")' /\ answer.cseq \notin Granted(c, "SETUP")
    OBVIOUS
  <2>1. read[c] + 1 \in DOMAIN s.m_SeqMethodMap /\ s.m_SeqMethodMap[read[c] + 1] = "SETUP"
    BY <1>3, <1>5, <1>6 DEF LastMethod
  <2>2. r.m_SeqMethodMap[answer.cseq + 1] = "SETUP"
    BY <1>6, <1>10, <2>1
  <2>3. read[c] + 1 \in 1 .. read'[c]
    BY <1>3, <1>7
  <2>4. answer.cseq \in Granted(c, "SETUP")'
    BY <1>7, <2>2, <2>3 DEF Granted
  <2>5. \A j \in 1 .. read[c] : answers[c][j].cseq # read[c]
    BY <1>3, <1>4
  <2> QED
    BY <1>6, <2>4, <2>5 DEF Granted
<1>13. /\ g \in Nat /\ h \in Nat /\ h >= g
       /\ answer.code = "200" /\ LastMethod(s) = "SETUP" => h >= g + 1
  <2> DEFINE old == Granted(c, "SETUP")
             new == Granted(c, "SETUP")'
  <2>1. IsFiniteSet(old) /\ IsFiniteSet(new) /\ g \in Nat /\ h \in Nat
    <3>1. IsFiniteSet(old) /\ g \in Nat
      BY GrantedIsFinite DEF SessionInv
    <3>2. (TypeOK => IsFiniteSet(Granted(c, "SETUP")) /\ Grants(c) \in Nat)'
      BY GrantedIsFinite, PTL
    <3> QED
      BY <3>1, <3>2 DEF SessionInv
  <2>2. g = Cardinality(old) /\ h = Cardinality(new)
    BY DEF Grants
  <2> HIDE DEF old, new, g, h
  <2>3. Cardinality(old) <= Cardinality(new) /\ (Cardinality(old) = Cardinality(new) => old = new)
    BY <1>11, <2>1, FS_Subset DEF old, new
  <2>4. h >= g
    BY <2>1, <2>2, <2>3
  <2>5. old # new => h >= g + 1
    BY <2>1, <2>2, <2>3
  <2>6. answer.code = "200" /\ LastMethod(s) = "SETUP" => old # new
    BY <1>12 DEF old, new
  <2> QED
    BY <2>1, <2>4, <2>5, <2>6
<1>14. Stage(s, g)
  BY <1>2 DEF HandshakeOK
<1> HIDE DEF g, h, r
<1>15. Advance(o, h)
  BY <1>1, <1>2, <1>3, <1>6, <1>13, <1>14, HandleRtspRespAdvances
<1>16. Sound(r, h) /\ (r.recv => Stage(r, h))
  BY <1>9, <1>15, SoundDependsOn DEF Advance
<1>17. Len(answers'[c]) <= Len(r.m_SeqMethodMap)
  <2>1. Len(answers[c]) <= Len(s.m_SeqMethodMap)
    BY DEF HandshakeOK
  <2>2. Len(r.m_SeqMethodMap) \in Nat
    BY <1>5, <1>8, <1>9 DEF Outcome, AsksAtMostOnce
  <2> QED
    BY <1>3, <1>5, <1>7, <1>10, <2>1, <2>2
<1> QED
  BY <1>16, <1>17 DEF HandshakeOK, r, h

-----------------------------------------------------------------------------
(* The invariant, and what follows from it.                                *)

LEMMA InitHandshake == Init => HandshakeInv
BY DEF Init, HandshakeInv, Open

LEMMA NextKeepsHandshake == SessionInv /\ SessionInv' /\ HandshakeInv /\ [Next]_vars => HandshakeInv'
<1> SUFFICES ASSUME SessionInv, SessionInv', HandshakeInv, [Next]_vars, setting'.repeats = 0,
                    NEW c \in Conn, Open(c)'
             PROVE  HandshakeOK(c)'
  BY DEF HandshakeInv, HandshakeOK
<1>1. CASE UNCHANGED vars
  <2>1. Open(c) /\ setting.repeats = 0 /\ conn'[c] = conn[c] /\ answers'[c] = answers[c] /\ read'[c] = read[c]
    BY <1>1 DEF vars, Open
  <2> QED
    BY <2>1, OthersKeep DEF HandshakeInv, HandshakeOK
<1>2. CASE Next
  <2>1. PICK d \in Conn : \/ Create(d) \/ Start(d) \/ Stop(d) \/ Destroy(d)
                          \/ HandleRecv(d) \/ ConnectionLost(d) \/ CheckClient(d)
                          \/ Answer(d) \/ AnswerAgain(d)
    BY <1>2 DEF Next
  <2>2. setting.repeats = 0
    BY <2>1, Zenon DEF Create, Start, Stop, Destroy, HandleRecv, ConnectionLost, CheckClient, Answer, AnswerAgain
  <2>t. conn \in [Conn -> Connection \cup {Closed}] /\ answers \in [Conn -> Seq(Answers)] /\ read \in [Conn -> Nat]
    BY DEF SessionInv, TypeOK
  <2>3. CASE d # c
    <3>1. conn'[c] = conn[c] /\ answers'[c] = answers[c] /\ read'[c] = read[c]
      BY <2>1, <2>3, <2>t DEF Create, Start, Stop, Destroy, HandleRecv, ConnectionLost, CheckClient,
                              Answer, AnswerAgain
    <3>2. HandshakeOK(c)
      BY <2>2, <3>1 DEF HandshakeInv, HandshakeOK, Open
    <3> QED
      BY <3>1, <3>2, OthersKeep
  <2>4. CASE d = c
    <3>1. CASE Create(c)
      BY <3>1, CreateHandshake
    <3>2. ASSUME ~Create(c) PROVE Open(c) /\ HandshakeOK(c)
      <4>1. Open(c)
        BY <2>1, <2>4, <3>2, Zenon DEF Start, Stop, Destroy, HandleRecv, ConnectionLost, CheckClient,
                                Answer, AnswerAgain, Reads
      <4> QED
        BY <2>2, <4>1 DEF HandshakeInv, HandshakeOK
    <3>3. CASE Start(c) /\ ~Create(c)
      BY <3>2, <3>3, StartHandshake
    <3>4. CASE (Stop(c) \/ ConnectionLost(c) \/ CheckClient(c)) /\ ~Create(c)
      <4>1. conn[c] \in Connection
        BY <3>2, <3>4, OpenIsConnection DEF SessionInv
      <4>2. answers'[c] = answers[c] /\ read'[c] = read[c]
        BY <3>4 DEF Stop, ConnectionLost, CheckClient
      <4>3. LET s == conn[c]
                t == conn'[c]
            IN  /\ t.m_SeqMethodMap = s.m_SeqMethodMap /\ t.m_udpHandles = s.m_udpHandles
                /\ t.m_mediaInfoList = s.m_mediaInfoList /\ t.m_sdpInfo = s.m_sdpInfo
                /\ t.m_bSetupTcp = s.m_bSetupTcp /\ t.m_ulAuthenTime = s.m_ulAuthenTime
                /\ t.recv => s.recv
        <5>1. CASE Stop(c)
          BY <2>t, <4>1, <5>1 DEF Stop, Connection
        <5>2. CASE ConnectionLost(c)
          BY <2>t, <4>1, <5>2 DEF ConnectionLost, Connection
        <5>3. CASE CheckClient(c)
          BY <2>t, <4>1, <5>3 DEF CheckClient, Connection
        <5> QED
          BY <3>4, <5>1, <5>2, <5>3
      <4> QED
        BY <3>2, <3>4, <4>2, <4>3, QuietKeeps
    <3>5. CASE HandleRecv(c) /\ ~Create(c)
      BY <2>2, <3>2, <3>5, HandleRecvHandshake
    <3>6. CASE Answer(c) /\ ~Create(c)
      BY <2>2, <3>2, <3>6, AnswerHandshake
    <3>7. ~Destroy(c)
      BY <2>t DEF Destroy, Open
    <3>8. ~AnswerAgain(c)
      <4>1. Cardinality(Answered(c)) = Len(answers[c]) /\ Len(answers[c]) \in Nat
        BY <2>2, <2>t, AnsweredCount DEF SessionInv, Lockstep
      <4> QED
        BY <2>2, <4>1 DEF AnswerAgain, Repeats
    <3> QED
      BY <2>1, <2>4, <3>1, <3>3, <3>4, <3>5, <3>6, <3>7, <3>8
  <2> QED
    BY <2>3, <2>4
<1> QED
  BY <1>1, <1>2

LEMMA HandshakeInvHolds == Spec => [](SessionInv /\ HandshakeInv)
<1>1. Init => SessionInv /\ HandshakeInv
  BY InitSession, InitHandshake
<1>2. (SessionInv /\ HandshakeInv) /\ [Next]_vars => (SessionInv /\ HandshakeInv)'
  BY NextKeepsInv, NextKeepsHandshake
<1> QED
  BY <1>1, <1>2, PTL DEF Spec

\* PLAY is asked for, and HANDSHAKE reported, only when the server has granted a
\* SETUP for each stream and, over UDP, each kind of stream has its ports: for any
\* description, any number of connections and challenges, in every interleaving.
THEOREM PlayAfterEverySetup == Spec => []PlayNeedsEverySetup
<1>1. SessionInv /\ HandshakeInv => PlayNeedsEverySetup
  <2> SUFFICES ASSUME SessionInv, HandshakeInv, setting.repeats = 0, NEW c \in Conn, Open(c),
                      Contains(conn[c].m_SeqMethodMap, "PLAY")
               PROVE  Grants(c) >= Streams(conn[c]) /\ Provided(conn[c])
    BY DEF PlayNeedsEverySetup, Grants, Provided
  <2>1. ~NoPlay(conn[c])
    BY DEF NoPlay, Contains
  <2> QED
    BY <2>1 DEF HandshakeInv, Sound
<1> QED
  BY <1>1, HandshakeInvHolds, PTL

\* A server that challenges every request gets at most the requests of one
\* handshake and RTSP_AUTH_TRY_MAX + 1 retries.
THEOREM RetriesAreBounded == Spec => []RetriesBounded
<1>1. SessionInv /\ HandshakeInv => RetriesBounded
  <2> SUFFICES ASSUME SessionInv, HandshakeInv, setting.repeats = 0, NEW c \in Conn, Open(c)
               PROVE  Len(conn[c].m_SeqMethodMap) <= 3 + Streams(conn[c]) + RTSP_AUTH_TRY_MAX + 1
    BY DEF RetriesBounded
  <2>1. conn[c] \in Connection
    BY OpenIsConnection DEF SessionInv
  <2>2. Len(conn[c].m_SeqMethodMap) \in Nat /\ Streams(conn[c]) \in Nat
    BY <2>1, Counts
  <2>3. conn[c].m_ulAuthenTime \in 0 .. 4 /\ RTSP_AUTH_TRY_MAX = 3
    BY <2>1 DEF Connection, RTSP_AUTH_TRY_MAX
  <2>4. Len(conn[c].m_SeqMethodMap) <= 3 + Streams(conn[c]) + conn[c].m_ulAuthenTime
    BY DEF HandshakeInv, Sound
  <2>5. \A a, d \in Nat : \A e \in 0 .. 4 : a <= 3 + d + e => a <= 3 + d + 3 + 1
    OBVIOUS
  <2> QED
    BY <2>2, <2>3, <2>4, <2>5
<1> QED
  BY <1>1, HandshakeInvHolds, PTL
=============================================================================

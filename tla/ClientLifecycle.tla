--------------------------- MODULE ClientLifecycle ---------------------------
(***************************************************************************)
(* The life of the clients of libMediaService: create_client and           *)
(* destory_client of mk_media_service.cpp, start_recv, stop_recv and       *)
(* handle_timeout of mk_client_connection.cpp, and the start, stop and     *)
(* handle_recv of the two kinds of client, RTSP and RTMP.                  *)
(*                                                                         *)
(* Three threads run this code: the application's, the thread of the timer *)
(* that checks all clients, and the network thread of a client.  at[t] is  *)
(* where thread t is; the network thread of client x is called x.  A step  *)
(* that reads or writes what another thread uses is an action of its own.  *)
(*                                                                         *)
(* An object that has been deleted keeps its fields: what the code does    *)
(* with it afterwards is what NoUseAfterDelete is about.                   *)
(***************************************************************************)
EXTENDS Naturals, Sequences, FiniteSets

CONSTANTS
  Client,        \* the client objects, each created once
  MaxClient,     \* how many clients mk_lib_init allows
  Applications,  \* how the application may be written
  Waits,         \* cancelTimer and removeTcpClient wait for a running callback
  Nobody         \* no client

ASSUME LifecycleConstants ==
  /\ MaxClient \in Nat /\ Waits \in BOOLEAN
  /\ Applications \subseteq {"own_thread", "callbacks"}
  /\ Nobody \notin Client /\ {"app", "timer"} \cap Client = {}

Kinds   == {"rtsp", "rtmp"}
Index   == 0 .. MaxClient - 1
Threads == {"app", "timer"} \cup Client

VARIABLES
  m_ClientFreeList,  \* the free client indexes
  client,            \* the objects
  at,                \* where each thread is, and with which client
  timers,            \* the clients whose timer is registered with as_timer
  network,           \* the clients registered with the network service
  udp,               \* the clients that are the observer of a registered UDP handle
  application        \* "callbacks": stops and destroys its clients in callbacks

vars == <<m_ClientFreeList, client, at, timers, network, udp, application>>

\* silent: nothing has been received for MK_CLIENT_RECV_TIMEOUT seconds.
\* m_enStatus stands for the failures reported: the statuses on the way to
\* RUNNING are the business of RtspSession.
\* armed, udpArmed: setHandleRecv of the connection and of its UDP handle.
NewClient(kind, index) ==
  [ kind |-> kind, m_ulIndex |-> index, alive |-> TRUE, m_enStatus |-> "ok",
    started |-> FALSE, stopped |-> FALSE, armed |-> FALSE, udpArmed |-> FALSE,
    m_bRegister |-> FALSE, silent |-> FALSE, m_rtmpHandle |-> FALSE ]

NotCreated == [NewClient("rtsp", 0) EXCEPT !.alive = FALSE]

Idle == [pc |-> "idle", x |-> Nobody]

Init ==
  /\ m_ClientFreeList = [i \in 1 .. MaxClient |-> i - 1]
  /\ client = [x \in Client |-> NotCreated]
  /\ at = [t \in Threads |-> Idle]
  /\ timers = {} /\ network = {} /\ udp = {}
  /\ application \in Applications

Alive(x)   == client[x].alive
Is(x, k)   == client[x].kind = k
Created(x) == client[x] # NotCreated

GoTo(t, pc, x) == at' = [at EXCEPT ![t] = IF pc = "idle" THEN Idle ELSE [pc |-> pc, x |-> x]]
In(t, pc, x)   == at[t] = [pc |-> pc, x |-> x]

-----------------------------------------------------------------------------
(* create_client and destory_client, under the mutex of mk_media_service.  *)
(* Which object is created makes no difference.                            *)

Create(x) ==
  /\ at["app"] = Idle
  /\ ~Created(x) /\ x = CHOOSE y \in Client : ~Created(y)
  /\ m_ClientFreeList # <<>>
  /\ \E kind \in Kinds : client' = [client EXCEPT ![x] = NewClient(kind, Head(m_ClientFreeList))]
  /\ m_ClientFreeList' = Tail(m_ClientFreeList)
  /\ UNCHANGED <<at, timers, network, udp, application>>

\* Mutant: the number of the client is given back, not its index.
Deleted_Number(x, status) ==
  /\ client' = [client EXCEPT ![x].alive = FALSE, ![x].m_enStatus = status]
  /\ m_ClientFreeList' = Append(m_ClientFreeList, client[x].m_ulIndex + 1)

\* Mutant: the index is given back twice.
Deleted_Twice(x, status) ==
  /\ client' = [client EXCEPT ![x].alive = FALSE, ![x].m_enStatus = status]
  /\ m_ClientFreeList' = m_ClientFreeList \o <<client[x].m_ulIndex, client[x].m_ulIndex>>

Deleted(x, status) ==
  /\ client' = [client EXCEPT ![x].alive = FALSE, ![x].m_enStatus = status]
  /\ m_ClientFreeList' = Append(m_ClientFreeList, client[x].m_ulIndex)

\* An application that works in its own thread destroys what it has stopped.
Destroy(x) ==
  /\ application = "own_thread"
  /\ at["app"] = Idle /\ Alive(x) /\ client[x].stopped
  /\ Deleted(x, client[x].m_enStatus)
  /\ UNCHANGED <<at, timers, network, udp, application>>

-----------------------------------------------------------------------------
(* start_recv, by the application's thread. *)

\* regTcpClient, which may fail.
StartRtsp(x) ==
  /\ at["app"] = Idle /\ Alive(x) /\ ~client[x].started /\ ~Is(x, "rtmp")
  /\ \/ /\ client' = [client EXCEPT ![x].started = TRUE]
        /\ UNCHANGED <<at, network>>
     \/ /\ client' = [client EXCEPT ![x].started = TRUE]
        /\ network' = network \cup {x}
        /\ GoTo("app", "options", x)
  /\ UNCHANGED <<m_ClientFreeList, timers, udp, application>>

\* sendRtspOptionsReq fails, and the connection stays registered, or the handle
\* is armed.
StartOptions(x) ==
  /\ In("app", "options", x)
  /\ \/ GoTo("app", "idle", x) /\ UNCHANGED client
     \/ /\ client' = [client EXCEPT ![x].armed = TRUE]
        /\ GoTo("app", "timer", x)
  /\ UNCHANGED <<m_ClientFreeList, timers, network, udp, application>>

\* srs_rtmp_create, connect_app, play_stream and regTcpMonitorClient, of which
\* any may fail.
StartRtmp(x) ==
  /\ at["app"] = Idle /\ Alive(x) /\ ~client[x].started /\ Is(x, "rtmp")
  /\ \/ /\ client' = [client EXCEPT ![x].started = TRUE]
        /\ UNCHANGED <<at, network>>
     \/ /\ client' = [client EXCEPT ![x].started = TRUE, ![x].armed = TRUE,
                                    ![x].m_rtmpHandle = TRUE]
        /\ network' = network \cup {x}
        /\ GoTo("app", "timer", x)
  /\ UNCHANGED <<m_ClientFreeList, timers, udp, application>>

RegisterTimer(x) ==
  /\ In("app", "timer", x)
  /\ \/ /\ client' = [client EXCEPT ![x].m_bRegister = FALSE]
        /\ GoTo("app", "idle", x)
        /\ UNCHANGED timers
     \/ /\ timers' = timers \cup {x}
        /\ GoTo("app", "registered", x)
        /\ UNCHANGED client
  /\ UNCHANGED <<m_ClientFreeList, network, udp, application>>

Registered(x) ==
  /\ In("app", "registered", x)
  /\ client' = [client EXCEPT ![x].m_bRegister = TRUE]
  /\ GoTo("app", "idle", x)
  /\ UNCHANGED <<m_ClientFreeList, timers, network, udp, application>>

-----------------------------------------------------------------------------
(* stop_recv, by the application's thread, or by the thread of a callback.  *)

\* Whether thread t may go on: the external functions wait for a callback of
\* the other thread, never for the one they are called from.
TimerFree(t, x)   == Waits /\ t # "timer" => at["timer"].x # x
NetworkFree(t, x) == Waits /\ t # x => at[x] = Idle

\* Mutant: the timer is not cancelled.
StopEntry_NoCancel(x) == "disarm"

StopEntry(x) == IF client[x].m_bRegister THEN "cancel" ELSE "disarm"

Stop(x) ==
  /\ at["app"] = Idle /\ Alive(x) /\ client[x].started /\ ~client[x].stopped
  /\ GoTo("app", StopEntry(x), x)
  /\ UNCHANGED <<m_ClientFreeList, client, timers, network, udp, application>>

StopCancel(t, x) ==
  /\ In(t, "cancel", x)
  /\ TimerFree(t, x)
  /\ timers' = timers \ {x}
  /\ client' = [client EXCEPT ![x].m_bRegister = FALSE]
  /\ GoTo(t, "disarm", x)
  /\ UNCHANGED <<m_ClientFreeList, network, udp, application>>

\* Mutant: RTMP's stop destroys the handle before it leaves the network.
StopDisarm_DestroysFirst(t, x) ==
  /\ In(t, "disarm", x)
  /\ client' = [client EXCEPT ![x].armed = @ /\ Is(x, "rtmp"), ![x].m_rtmpHandle = FALSE]
  /\ GoTo(t, "remove", x)
  /\ UNCHANGED <<m_ClientFreeList, timers, network, udp, application>>

\* setHandleRecv(AS_FALSE), which only the RTSP connection does.
StopDisarm(t, x) ==
  /\ In(t, "disarm", x)
  /\ client' = [client EXCEPT ![x].armed = @ /\ Is(x, "rtmp")]
  /\ GoTo(t, "remove", x)
  /\ UNCHANGED <<m_ClientFreeList, timers, network, udp, application>>

\* removeTcpClient.
StopRemove(t, x) ==
  /\ In(t, "remove", x)
  /\ NetworkFree(t, x)
  /\ network' = network \ {x}
  /\ GoTo(t, "release", x)
  /\ UNCHANGED <<m_ClientFreeList, client, timers, udp, application>>

\* The RTMP handle is destroyed.  stop_handle of the UDP handles returns at
\* once, m_bRunning being false.  The timer thread then goes on in
\* handle_timeout.
StopRelease(t, x) ==
  /\ In(t, "release", x)
  /\ client' = [client EXCEPT ![x].m_rtmpHandle = FALSE, ![x].stopped = @ \/ t = "app"]
  /\ GoTo(t, IF t = "timer" THEN "checked" ELSE "idle", x)
  /\ UNCHANGED <<m_ClientFreeList, timers, network, udp, application>>

-----------------------------------------------------------------------------
(* handle_timeout, by the timer thread. *)

\* Mutant: the condition of handle_timeout is the wrong way round.
CheckClient_Swapped(x) ==
  /\ client' = [client EXCEPT ![x].m_enStatus = IF client[x].silent THEN "TIMEOUT" ELSE @]
  /\ GoTo("timer", IF client[x].silent THEN "idle" ELSE "checked", x)

\* check_client: a silent client is reported, and the application may stop it.
CheckClient(x) ==
  /\ client[x].silent
  /\ client' = [client EXCEPT ![x].m_enStatus = "TIMEOUT"]
  /\ GoTo("timer", IF application = "callbacks" /\ Alive(x) THEN StopEntry(x) ELSE "checked", x)

Timeout(x) ==
  /\ at["timer"] = Idle /\ x \in timers
  /\ CheckClient(x)
  /\ UNCHANGED <<m_ClientFreeList, timers, network, udp, application>>

\* The rest of handle_timeout when check_client has failed.
TimeoutCancel(x) ==
  /\ In("timer", "checked", x)
  /\ IF client[x].m_bRegister
     THEN timers' = timers \ {x} /\ GoTo("timer", "cancelled", x)
     ELSE GoTo("timer", "idle", x) /\ UNCHANGED timers
  /\ UNCHANGED <<m_ClientFreeList, client, network, udp, application>>

TimeoutEnds(x) ==
  /\ In("timer", "cancelled", x)
  /\ client' = [client EXCEPT ![x].m_bRegister = FALSE]
  /\ GoTo("timer", "idle", x)
  /\ UNCHANGED <<m_ClientFreeList, timers, network, udp, application>>

\* MK_CLIENT_RECV_TIMEOUT passes.
Silence(x) ==
  /\ Alive(x) /\ client[x].started /\ ~client[x].silent
  /\ client' = [client EXCEPT ![x].silent = TRUE]
  /\ UNCHANGED <<m_ClientFreeList, at, timers, network, udp, application>>

-----------------------------------------------------------------------------
(* handle_recv, by the network thread, which disarms the handle before. *)

HandleRecv(x) ==
  /\ at[x] = Idle /\ x \in network /\ client[x].armed
  /\ client' = [client EXCEPT ![x].armed = FALSE]
  /\ GoTo(x, "recv", x)
  /\ UNCHANGED <<m_ClientFreeList, timers, network, udp, application>>

\* The connection processes what it has received, which over UDP may open the
\* handles of a stream (start_handle); then it arms itself again.
RtspReceived(x) ==
  /\ In(x, "recv", x) /\ ~Is(x, "rtmp")
  /\ \E opens \in BOOLEAN :
       /\ client' = [client EXCEPT ![x].armed = TRUE, ![x].silent = FALSE,
                                   ![x].udpArmed = @ \/ opens]
       /\ udp' = IF opens THEN udp \cup {x} ELSE udp
  /\ GoTo(x, "idle", x)
  /\ UNCHANGED <<m_ClientFreeList, timers, network, application>>

\* Mutant: stop_recv is called after the report, as two comments have it.
TornDown_Stops(x) == IF client[x].m_bRegister THEN "cancel" ELSE "disarm"

\* Where handle_recv goes after it has reported TEARDOWN.
TornDown(x) == "idle"

\* recv or the handling of a message fails: TEARDOWN is reported, and the
\* application may destroy the client.
RtspFailed(x) ==
  /\ In(x, "recv", x) /\ ~Is(x, "rtmp")
  /\ IF application = "callbacks" /\ Alive(x)
     THEN Deleted(x, "TEARDOWN")
     ELSE client' = [client EXCEPT ![x].m_enStatus = "TEARDOWN"] /\ UNCHANGED m_ClientFreeList
  /\ GoTo(x, TornDown(x), x)
  /\ UNCHANGED <<timers, network, udp, application>>

\* A frame is given to the application, whose callback asks for the next one
\* (recv_next).
RtmpReceived(x) ==
  /\ In(x, "recv", x) /\ Is(x, "rtmp") /\ client[x].m_rtmpHandle
  /\ client' = [client EXCEPT ![x].armed = TRUE, ![x].silent = FALSE]
  /\ GoTo(x, "delivered", x)
  /\ UNCHANGED <<m_ClientFreeList, timers, network, udp, application>>

RtmpEnds(x) ==
  /\ In(x, "delivered", x)
  /\ client' = [client EXCEPT ![x].silent = FALSE]
  /\ GoTo(x, "idle", x)
  /\ UNCHANGED <<m_ClientFreeList, timers, network, udp, application>>

\* There is no handle, the packet cannot be read or has no timestamp, the
\* application has no buffer or the codec is not supported: handle_recv returns
\* without arming the handle and without a report.
RtmpSkipped(x) ==
  /\ In(x, "recv", x) /\ Is(x, "rtmp")
  /\ GoTo(x, "idle", x)
  /\ UNCHANGED <<m_ClientFreeList, client, timers, network, udp, application>>

\* Mutant: what a UDP handle has received goes to its observer.
UdpEntry_Observer(x) == "observer"

\* m_bRunning is false from the constructor on: what a UDP handle receives is
\* dropped, and the handle is not armed again.
UdpEntry(x) == "idle"

UdpRecv(x) ==
  /\ at[x] = Idle /\ x \in udp /\ client[x].udpArmed
  /\ client' = [client EXCEPT ![x].udpArmed = FALSE]
  /\ GoTo(x, UdpEntry(x), x)
  /\ UNCHANGED <<m_ClientFreeList, timers, network, udp, application>>

-----------------------------------------------------------------------------

StopStep(t, x) == StopCancel(t, x) \/ StopDisarm(t, x) \/ StopRemove(t, x) \/ StopRelease(t, x)

AppStep(x) ==
  \/ StartOptions(x) \/ RegisterTimer(x) \/ Registered(x) \/ StopStep("app", x)

TimerStep(x) ==
  \/ Timeout(x) \/ TimeoutCancel(x) \/ TimeoutEnds(x) \/ StopStep("timer", x)

NetworkStep(x) ==
  \/ RtspReceived(x) \/ RtspFailed(x)
  \/ RtmpReceived(x) \/ RtmpEnds(x) \/ RtmpSkipped(x) \/ StopStep(x, x)

Next ==
  \E x \in Client :
    \/ Create(x) \/ StartRtsp(x) \/ StartRtmp(x) \/ Stop(x) \/ Destroy(x)
    \/ AppStep(x) \/ TimerStep(x)
    \/ HandleRecv(x) \/ UdpRecv(x) \/ NetworkStep(x)
    \/ Silence(x)

Spec == Init /\ [][Next]_vars

\* Every thread gets on with what it is doing, the timer checks its clients, and
\* time passes for a client that cannot receive anything.  removeTcpClient gets
\* its turn between two calls of handle_recv, as the holder of a lock does.
FairSpec ==
  /\ Spec
  /\ \A x \in Client :
       /\ WF_vars(AppStep(x)) /\ WF_vars(TimerStep(x)) /\ WF_vars(NetworkStep(x))
       /\ \A t \in {"app", "timer"} : SF_vars(StopCancel(t, x) \/ StopRemove(t, x))
       /\ WF_vars(Silence(x) /\ ~client[x].armed /\ at[x] = Idle)

-----------------------------------------------------------------------------
(* Properties. *)

ClientRecord ==
  [ kind : Kinds, m_ulIndex : Nat, alive : BOOLEAN,
    m_enStatus : {"ok", "TEARDOWN", "TIMEOUT"},
    started : BOOLEAN, stopped : BOOLEAN, armed : BOOLEAN, udpArmed : BOOLEAN,
    m_bRegister : BOOLEAN, silent : BOOLEAN, m_rtmpHandle : BOOLEAN ]

\* Every variable has its type, and a thread that is somewhere is there with a
\* client that has been created.
TypeOK ==
  /\ m_ClientFreeList \in Seq(Index)
  /\ client \in [Client -> ClientRecord]
  /\ \A t \in Threads : at[t] = Idle \/ (at[t].x \in Client /\ Created(at[t].x))
  /\ timers \subseteq Client /\ network \subseteq Client /\ udp \subseteq Client
  /\ application \in Applications

\* An index is never given to two clients: each is once on the free list or
\* with one client that has not been destroyed, wherever the client is
\* destroyed.
IndexesOwnedOnce ==
  \A i \in Index :
    Cardinality({ k \in DOMAIN m_ClientFreeList : m_ClientFreeList[k] = i })
    + Cardinality({ x \in Client : Alive(x) /\ client[x].m_ulIndex = i }) = 1

Used(x) ==
  \/ x \in timers \/ (x \in network /\ client[x].armed)
  \/ \E t \in Threads : at[t].x = x

\* No thread works with, and no service will call, a client that has been
\* destroyed: neither while the timer thread is in handle_timeout nor while the
\* network thread is in handle_recv.
NoUseAfterDelete == \A x \in Client : Created(x) /\ ~Alive(x) => ~Used(x)

\* An application that stops a client in its own thread and then destroys it,
\* and only looks at what the callbacks report, may do so at any time.
StoppedMayBeDestroyed == application = "own_thread" => NoUseAfterDelete

\* When stop_recv has returned to such an application, no callback runs, and
\* none will come.
StoppedIsQuiet ==
  application = "own_thread" =>
    \A x \in Client : client[x].stopped =>
      x \notin timers /\ x \notin network /\ at[x] = Idle /\ at["timer"].x # x

\* The network thread never reads from an RTMP handle that stop has destroyed.
HandleNotPulled ==
  \A x \in Client : In(x, "recv", x) /\ Is(x, "rtmp") => client[x].m_rtmpHandle

\* stop_recv returns: it does not wait for a thread that waits for it.
StopReturns == \A x \in Client : (at["app"].x = x) ~> (at["app"].x # x)

\* A client that cannot receive any more (an RTMP packet was skipped, a session
\* failed) does not stay so unnoticed: TEARDOWN or TIMEOUT is reported, unless
\* it is stopped.
SilenceIsReported ==
  \A x \in Client :
    (client[x].m_bRegister /\ ~client[x].armed /\ at[x] = Idle)
      ~> (client[x].m_enStatus \in {"TEARDOWN", "TIMEOUT"} \/ x \notin network \/ at["app"].x = x)
=============================================================================

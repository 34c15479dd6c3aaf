# Verification of libMediaService

libMediaService is a C++ client library for live video. It opens RTSP and RTMP
sessions, receives RTP over TCP or UDP, puts video frames together, hands them to
the application through callbacks, and can write them into an MP4 file. This
directory holds TLA+ models of its logic, TLC configurations that check them on
small instances, and TLAPS proofs of what matters most, for every instance.

Paths are relative to the repository's root. `PROJECT.json` lists the runs, the
mutants, the theorems, the hazards and, for every definition, the source lines
it stands for.

Contents: 1 the system, 2 the models, 3 the runs, 4 fairness, 5 the proofs,
6 disagreements between code and documents, 7 what is not modelled, 8 the plan.

## 1. The system

### Threads and shared state

| Thread | Runs |
| --- | --- |
| `EvnCount` network threads (`as_network_svr`) | `handle_recv` and `handle_send` of a connection (client index modulo `EvnCount`) or of a UDP socket (pair index modulo `EvnCount`) |
| one timer thread (`as_timer`, 100 ms tick) | `mk_client_connection::handle_timeout`, every `MK_CLIENT_TIMER_INTERVAL` |
| application threads | `mk_create_client_handle`, `mk_start_client_handle`, `mk_recv_next_media_data`, `mk_stop_client_handle`, `mk_destory_client_handle` |

A handle is one-shot: the network service disarms it when it calls `handle_recv`,
and the handler arms it again (`setHandleRecv`). The pools of `mk_rtsp_service`
(receive buffers, UDP port pairs) and the index list of `mk_media_service` are
protected by a mutex. A connection and its frame organizer are not: they rely on
there being one network thread for each connection. Callbacks to the application
run on the network thread or the timer thread, inside the handlers. `as_common`
(sockets, timer, mutex, digest) is a git submodule that is not part of the
repository; the models take from it only what the code here relies on.

### Components

| Component | Source | State | Operations | Talks to |
| --- | --- | --- | --- | --- |
| RTP frame organizer | `rtsp/mk_rtsp_rtp_frame_organizer.*` | map and free list of frame objects, one packet queue per frame, four counters | `init`, `insertRtpPacket`, `checkFrame`, `release` | gets packets from the connection, gives frames back through `handleRtpFrame`, returns buffers to the pool |
| Receive buffer pool | `rtsp/mk_rtsp_service.cpp` | `m_RtpRecvBufList` | `get_rtp_recv_buf`, `free_rtp_recv_buf` | every connection, every UDP handle, every organizer |
| Port pairs | `rtsp/mk_rtsp_service.cpp`, `rtsp/mk_rtsp_udp_handle.*` | `m_RtpRtcpfreeList`, handles with port, observer, `m_bRunning` | `get_rtp_rtcp_pair`, `free_rtp_rtcp_pair`, `start_handle`, `stop_handle`, `handle_recv` | RTSP session (owner and observer), network service |
| RTSP session | `rtsp/mk_rtsp_connection.cpp` | `m_Status`, `m_SeqMethodMap`, `m_mediaInfoList`, `m_ulAuthenTime`, `m_udpHandles` | `start`, `stop`, `handleRtspResp`, `sendRtsp...Req` | server, port pairs, application |
| TCP framing | `rtsp/mk_rtsp_connection.cpp`, `rtsp/mk_rtsp_packet.cpp` | `m_RecvTcpBuf`, `m_ulRecvSize` | `handle_recv`, `processRecvedMessage`, `checkRtsp`, `handleRTPRTCPData` | network service; session; organizer |
| Client lifecycle | `mk_client_connection.*` | timer registration, status, `m_ulLastRecv` | `start_recv`, `stop_recv`, `handle_timeout`, `do_next_recv` | timer thread, application |
| Media service | `mk_media_service.*` | index list, network services, timer | `init`, `release`, `create_client`, `destory_client`, `create_writer` | everything |
| Frame assembly, RTP parser | `rtsp/mk_rtsp_connection.cpp`, `rtsp/mk_rtsp_rtp_packet.*` | none between calls | `handleH264Frame`, `handleH265Frame`, `checkFrameTotalDataLen`, `ParsePacket` | application's buffer |
| RTMP connection | `rtmp/mk_rtmp_connection.*` | `m_rtmpHandle` | `start`, `stop`, `recv_next`, `handle_recv` | vendored librtmp, application |
| MP4 file writer | `mk_mov_file_writer.*` | tracks, last timestamps of each kind | `open_writer`, `write_media_frame`, `close_writer` | libmov |
| libmov | `mov/source/*` | tracks, samples, file offsets | `mov_writer_write`, `mov_writer_destroy`, fragments, reader | file |
| MP4 file access | `mk_mov_file_buffer.c` | cache, offset | read, write, seek, tell | libmov |
| SDP, RTSP message, RTCP, SPS codecs | `rtsp/mk_media_sdp.*`, `rtsp/mk_rtsp_packet.*`, `rtsp/mk_rtsp_rtcp_packet.*`, `mk_nal_sps_parse.*` | none between calls | parse, generate | session, writer |

### What is hard about it

- *Organizer.* UDP-like arrival inside one object: loss, reordering, repetition,
  wrapping 16-bit numbers; a cache of few frame objects that are reused; buffers
  that belong to the pool, the thread or a frame, handed over by return codes.
  Correct when buffers and frame objects are never lost or shared, what comes out
  of a frame is contiguous and comes out once, and the counters count what they say.
- *Session.* A handshake that can fail or be challenged at every step while it
  takes pairs from a pool shared with other sessions, and that the application
  can stop at any moment. Correct when no pair is lost or shared, retries are
  bounded, PLAY waits for every SETUP, a failure is final and nothing hangs.
- *Framing.* The network cuts the stream anywhere; the handle is one-shot. Correct
  when every message is handled once, in order, as soon as it is complete, and the
  reception never stalls.
- *Lifecycle.* Three kinds of threads and callbacks that stop or destroy the
  object that is calling them. Correct when no thread uses a deleted client, a
  stopped client is out of timer and network service, stop returns, and a client
  that cannot receive any more does not stay so unnoticed.
- *Frame assembly.* Fragments, padding, header extensions, two codecs, and units
  whose first fragments are missing. Correct when the application gets what the
  camera sent, or the end of it, in a buffer it was asked for.
- *MP4.* Timestamps from a live stream that jump or repeat; tables built one after
  the other in the same fields; offsets whose size depends on the offsets; a moov
  box moved in place, with a disk that fills up. Correct when the video's times do
  not go back and a reader finds what was written.

Every hazard is listed with its line and the properties that cover it, or the
reason why none does, under "hazards" in `PROJECT.json`.

## 2. The models

| Module | Models | Composes |
| --- | --- | --- |
| `RtpFrameOrganizer` | organizers of several connections over one buffer pool | |
| `RtpStream` | one camera's stream through one organizer | `RtpFrameOrganizer` (extends) |
| `FrameDelivery` | what an application may rely on | implemented by `RtpStream` |
| `RtspSession` | handshakes of several connections over one pool of port pairs | |
| `TcpFraming` | messages out of the byte stream of one connection | |
| `ClientLifecycle` | clients of both kinds across the application's, the timer's and the network threads | |
| `FrameAssembly` | from RTP packets to the application's buffer, byte by byte | |
| `MovFile` | libmov: file, tables, fast start, reader (operators only) | |
| `Mp4Writer` | one recording by `mk_mov_file_writer` | `MovFile` (extends) |

`MC...` modules define the sets the configurations name; `..._proofs` hold the
theorems. Definitions with a suffix (`Insert_NoSort`, `StopEntry_NoCancel`) are
faults, used by no specification: each property is known to fail when the
definition it is paired with in `PROJECT.json` is replaced by one.

### `RtpFrameOrganizer`: organizer and receive buffers

One `rtpFrameMap[c]`, `rtpFrameFreeList[c]` and `frame[c]` for each connection,
one pool `rtpRecvBufList` for all of them. A frame object is identified by a
member of `Slot`; `m_RtpFrameMap` is keyed by timestamp in the code, here it is
the set of objects in use, whose timestamps `QueuesWellFormed` shows to differ.

| Action | Code |
| --- | --- |
| `Create` | constructor of the connection, `init` of the organizer |
| `GetBuffer` | `handleRTPRTCPData` up to the copy: `get_rtp_recv_buf` under its mutex |
| `HandleOther` | every path of `handle_rtp_packet` and `handle_rtcp_packet` past the organizer |
| `InsertAndHold` | `insertRtpPacket`, `insert`, `insertRange`; `checkFrame` finds nothing to deliver |
| `InsertAndDeliver` | the same, and `handleFinishedFrame` delivers and releases the frame |
| `Evict` | `insertRtpPacket` with no free frame object: count, release, return FAIL, and the caller frees the new packet's buffer |
| `Destroy` | `release`, from the destructor |

Taking a buffer and handling the packet are separate steps, so connections
interleave between them; one `insertRtpPacket` is one step, because only the
connection's own network thread touches its organizer. `Destroy` waits until the
thread holds no packet: an application that destroys a client inside a callback
is the subject of `ClientLifecycle`. `SeqSpace` stands for 2^16 and every
computation with sequence numbers is modulo `SeqSpace` where the code's is in
`uint16_t`. `MaxTotal` bounds the packet counter, and with it the behaviours.

### `RtpStream` and `FrameDelivery`: a stream through the organizer

`RtpStream` extends the organizer with a camera and a network, one of `Streams`:
how many frames of how many packets, the number of the first, how many places a
packet may arrive early (`window`), how often it may arrive (`copies`), whether
packets get lost. It records what arrived, what is missing and the `log` of
delivered frames. `FrameDelivery` is what the application may rely on while
packets arrive in order: frames in the order of their timestamps, none twice, each
an end of what was sent, without a gap. `DeliversInOrder` says that `RtpStream`
implements it, with `out <- log`. Only the *end* of a frame is promised: nothing
in the code notices that the first packets of a frame are missing.

### `RtspSession`: the handshake, authentication and port pairs

A connection is a record of the fields of `mk_rtsp_connection` that decide what it
does next, or `Closed`. `registered` and `recv` are the network service's view
(registered with it, armed). The server answers requests in order, with 200, 401
or another code, and may repeat an answer; an answer is found by its `cseq` as
`m_SeqMethodMap` does it. `HandleRecv` is one turn of the loop in `handle_recv`
with one answer: `HandleRtspResp` gives the set of possible outcomes, because
sending, opening a port and parsing a digest may fail. `Start`, `Stop`,
`Create`, `Destroy` are the application's calls; `CheckClient` the timer's
TIMEOUT; `ConnectionLost` a closed socket or a request of the server, which the
code refuses. The application destroys a client it has stopped or that has
reported TEARDOWN, as `test/test_rtxp_client.cpp` does. `Settings` says what the
server describes, what may fail, and bounds challenges, repetitions and the number
of connections.

### `TcpFraming`: messages out of the byte stream

The server's stream is a sequence of units (answers with header and body,
interleaved packets); a byte is known by its position only. An answer has a
`head`, a `body`, and says how much of the body must be there for the session to
accept it (`needed`; of a description, up to the end of its first `m=` line for
video or audio, because `decodeSdp` fails when it has seen no stream). `Receive` is the
`recv` at the top of `handle_recv` with a segment of any size, `Process` one turn
of its loop, `PeerClosed` a `recv` that fails. The server answers in lockstep
with the requests. `WholeBodies` says that the network does not cut bodies off:
the code does not cope with a cut there: it handles the answer with what it holds
(`Accepted`), and either gives the session up or loses count (section 6). When less than the version
of an answer has arrived, `checkRtsp` compares with what an earlier message left
behind in the buffer: the model takes both outcomes.

### `ClientLifecycle`: three kinds of threads

`at[t]` is where thread `t` is: "app", "timer", or the network thread of client
`x`, called `x`. Every step that reads or writes what another thread uses is an
action: `start_recv` is `StartRtsp`, `StartOptions`, `RegisterTimer`,
`Registered`; `stop_recv` is `Stop`, `StopCancel`, `StopDisarm`, `StopRemove`,
`StopRelease`, executed by the thread it is called on; `handle_timeout` is
`Timeout`, `TimeoutCancel`, `TimeoutEnds`. A deleted object keeps its fields, so
that the model shows what the code would go on to do with it.

The application is one of two: "own_thread" stops its clients in its own thread,
destroys them afterwards and only looks at what callbacks report; "callbacks" does
what the test client does, destroys on TEARDOWN and stops on TIMEOUT, inside the
callback. `Waits` is an assumption about `as_common`, which is not in the
repository: `cancelTimer` and `removeTcpClient` wait for a callback that another
thread is in. RTMP and RTSP clients differ where the code does: RTMP is armed
again only by the application's `recv_next`, has early returns that neither arm
nor report, and a handle that `stop` destroys. A UDP handle drops what it receives
while `m_bRunning` is false; no code sets it, so over UDP no media ever arrives,
and it is the only reason why the observer that stays registered is not called.

### `FrameAssembly`: from packets to the application's buffer

Bytes are records (which unit, which position; which header field), so that a
byte in the wrong place is seen. One unit at a time is sent whole or in fragments,
with RTP headers of two lengths, with padding on its last packet or on all of
them; packets get lost. The organizer is reduced to what `RtpStream` shows of it
for one frame: complete when the last fragment arrives and there is no hole.
`ParsePacket` and `Parsers` are the object of `mk_rtp_packet` that a frame's packets
share, `Assembled` is `handleH264Frame` and `handleH265Frame`, `Direct` the
packets `handle_rtp_packet` does not hand to the organizer, `Item` what
`handle_connection_databuf` was asked for and `parse_media_info` found. When only
the last fragment of a unit has come, its payload is given as it is, with the
fragment's header in the place of the unit's; the environment pads the last packet
of a unit or all of them.

### `MovFile` and `Mp4Writer`: a recording

`MovFile` has the file below libmov (cells, position, error), the tables of a
track, the fast start, and the reader. Sizes and offsets count words of four
bytes; what has a fixed size in a box is a constant. `Mp4Writer` is
`mk_mov_file_writer`: the times it gives to H.264, H.265 and G.711 frames, the
tracks it adds, and `close_writer`, which runs all of `mov_writer_destroy`.
`setup` says which codec, what the application has put into `info->code`, how many
words of media data the disk takes (`room`; a failed write leaves its sample in the
table), and `limit`, which stands for `UINT32_MAX`.

`index` is what became of the moov box. `CloseWriter` sets it to "written" when
every write of `mov_writer_destroy` succeeds; to "lost" when one fails, which may
happen to any recording and which nobody is told (what is in the file is left open
then); to "stopped" when an assertion fails in it: the size of the box
(`mov-writer.c:177`), or times that go back (`mov-stts.c:153`, `NeverBack`). The
Makefile of Linux defines `NDEBUG` and leaves assertions out, other builds keep
them, so a recording whose times go back ends in either way. The assertions of the
reader are `Apart`. `SeekTo` is `mov_reader_seek`, in which the tracks with key
frames come first and set the time sought to that of their key frame, for the
tracks after them. `ctts` is never written, because the file
writer passes equal presentation and decode times. One codec in one recording;
buffering of stdio is left out.

## 3. The runs

| Run (module) | Checks | Instance, and why it is enough |
| --- | --- | --- |
| `organizer_shared_pool` (`MCRtpFrameOrganizer`) | `TypeOK`, `SlotsPartitioned`, `QueuesWellFormed`, `BuffersOwnedOnce` | two connections, three buffers, two frame objects, two frames of two fragments and one of one, and packets of other kinds, in any order and number; a third timestamp makes the eviction happen, three buffers make the pool run dry |
| `stream_arrivals` (`MCRtpStream`) | `DeliveredIsSuffix`, `DeliveredOnce`, `LostPacketsAreLost`, `PoolNotWedged`, `WholeStreamDelivered`, `DeliversInOrder`, `EvictedIsIncomplete` | five frames of two packets in order, any lost, with a pool that is large enough; four of three with one that is not; three of two, each packet up to two places early and up to twice, any lost. With two frame objects incomplete frames are evicted while later ones wait; late packets open delivered frames again |
| `stream_wrap` (`MCRtpStream`) | `EvictedIsIncomplete`, violated | numbers modulo 8, a frame numbered 6, 7, 0, 1 (section 6) |
| `session_shared_pairs` (`MCRtspSession`) | `TypeOK`, `PairsOwnedOnce`, `FailedIsFinal` | two connections over TCP or UDP, three created in all, three pairs where two sessions need four, every send, port, timer registration and answer may fail; and two streams of one kind with an answer repeated at any time. 2.6 million states |
| `session_challenged` (`MCRtspSession`) | `PlayNeedsEverySetup`, `OneRequestAtATime`, `RetriesBounded`, `HandshakeEnds` | one connection, no stream, audio alone, or three streams; six 401 answers, two more than the client takes |
| `framing_segments` (`MCTcpFraming`) | `TypeOK`, `HandledInOrder`, `NothingCompleteWaits`, `BufferNeverFull`, `EverythingHandled` | six streams, every segmentation that keeps bodies whole; a header longer than `RTSP_MSG_LENGTH`, an answer longer than the buffer, an answer the session refuses, a packet longer than a receive buffer. The sizes keep the order they have in the code (4 < 8 < header < 12 < 16) |
| `framing_split_body` (`MCTcpFraming`) | `BodyIsWaitedFor`, violated | a description cut inside its body, behind the first `m=` line (section 6) |
| `clients` (`ClientLifecycle`) | `TypeOK`, `IndexesOwnedOnce`, `StoppedMayBeDestroyed`, `StoppedIsQuiet`, `HandleNotPulled`, `StopReturns`, `SilenceIsReported` | two clients after each other and beside each other for one index: the second is created while threads may still be with the first; both kinds, both applications, every failure of start |
| `clients_teardown` (`ClientLifecycle`) | `NoUseAfterDelete`, violated | an application that destroys in the TEARDOWN callback (section 6) |
| `frames` (`MCFrameAssembly`) | `TypeOK`, `GivenAsSent`, `GivenToTheEnd`, `FitsRequest` | two units or audio packets one after the other, of one to five bytes in up to four fragments, of a type that is a key frame in one codec and not in the other, any packet lost, the buffer refused. A unit whose first fragments are lost is compared, byte for byte, with the header and the end of the data |
| `mp4` (`MCMp4Writer`) | `TypeOK`, `SamplesReadable`, `TimesReadBack`, `SeekFindsNearest`, `VideoNeverBack`, `AudioIsRecorded` | four frames of video and audio; limits between the sizes of the recordings, so that offsets are narrow, become wide because the moov box moves them, or are wide, and the media data needs a wide size; one recording whose disk is full after a frame or two, so that media writes fail in the middle; every recording closed with success, with a failing write and, if one can fail, in an assertion; a camera whose time stops, jumps back, or is 0; both media in one recording, with several key frames or none, for the seek |
| `mp4_audio` (`MCMp4Writer`) | `AudioIsRecorded`, violated | frames with the `info->code` the library reports (section 6) |

What the safety runs show beyond the tables of the code:

- The ownership of a buffer is decided by return codes in three files, and no order
  of insertion, delivery, eviction and destruction makes them disagree.
- A pair taken for a SETUP that then fails is held by the connection and returned
  by its destructor, in every order of failures of two sessions. With a second
  stream of one kind, or a repeated answer, the pair in the slot is overwritten and
  lost until the process ends (line 669 of `mk_rtsp_connection.cpp`); it is still
  never shared.
- `RetriesBounded` allows one retry more than `RTSP_AUTH_TRY_MAX`: the test in
  `handleRtspResp` lets a fourth request with credentials through.
- In order of arrival the pool is not wedged when it is as large as the cache;
  packets that arrive twice take a buffer each and do wedge it.
- An application that stops in its own thread is safe in every interleaving,
  provided that `as_common` waits (`Waits`). `stop_recv` inside the report of a
  failure, which two comments in `handle_recv` had once, would wait for the thread
  it is called from.
- Every path on which an RTMP client falls silent ends in a TIMEOUT report, because
  only the timer notices.
- The fast start agrees with itself: the loop that widens the offsets ends, the box
  takes the room computed for it, and the in-place move through two buffers keeps
  every stored word, if no write fails while it works. Media writes that failed
  before do no harm to the samples whose own write succeeded; the lost ones overlap
  in the tables, and the reader's assertion (`mov-stco.c:168`) fails of them.
- After a seek the tracks are together, not each nearest to the time sought: the
  audio resumes at the sample nearest to the key frame that was found, because
  `mov_stss_seek` rewrites the time.
- `AudioIsRecorded` is claimed only while no media write fails: `write_g711_frame`
  says OK also to a frame whose write failed.
- The application's buffer is asked for without the start code's four bytes.

Symmetry is used where connections, buffers or frame objects are interchangeable
(`Permutations`), never in a run with a liveness property. Deadlock is not
checked: a stream ends, the bounds stop the actors, and an application may do
nothing more.

## 4. Fairness

- `FairSpec` of `RtspSession`: weak fairness of `HandleRecv` (the network service
  calls the handler of an armed handle when data waits) and of `Answer` (the
  server answers). Without the second a session ends by TIMEOUT only; the timer,
  the application and failures are not fair, so `HandshakeEnds` does not lean on them.
- `FairSpec` of `TcpFraming`: weak fairness of `Receive` and `Process`: data that
  waits is read while the handle is armed, and a call of `handle_recv` goes on.
- `FairSpec` of `ClientLifecycle`: weak fairness of each thread in what it is doing
  and of the timer's check of a silent client; strong fairness of `StopCancel` and
  `StopRemove`, which need a lock that the other thread takes for one callback at a
  time; time passes for a client that can receive nothing. Nothing is assumed of
  the server, of the application's next call, or of success.

## 5. The proofs

`tlapm` proves, for any values of the constants that satisfy the assumptions of
the modules:

| Module | Theorem | Statement |
| --- | --- | --- |
| `RtpFrameOrganizer_proofs` | `TypeCorrect` | `Spec => []TypeOK` |
| | `SlotsArePartitioned` | `Spec => []SlotsPartitioned` |
| | `QueuesAreWellFormed` | `Spec => []QueuesWellFormed` |
| | `EveryBufferOwnedOnce` | `Spec => []BuffersOwnedOnce` |
| `ClientLifecycle_proofs` | `TypeCorrect` | `Spec => []TypeOK` |
| | `EveryIndexOwnedOnce` | `Spec => []IndexesOwnedOnce` |
| | `StopLeavesQuiet` | `Waits` implies `Spec => []StoppedIsQuiet` |
| | `StoppedClientsMayBeDestroyed` | `Waits` implies `Spec => []StoppedMayBeDestroyed` |
| | `HandleOutlivesReading` | `Waits` implies `Spec => []HandleNotPulled` |
| `RtspSession_proofs` | `TypeCorrect` | `Spec => []TypeOK` |
| | `EveryPairOwnedOnce` | `Spec => []PairsOwnedOnce` |
| | `RequestsInLockstep` | `Spec => []OneRequestAtATime` |
| | `FailureIsFinal` | `Spec => FailedIsFinal` |
| | `PlayAfterEverySetup` | `Spec => []PlayNeedsEverySetup` |
| | `RetriesAreBounded` | `Spec => []RetriesBounded` |
| `RtpStream_proofs` | `DeliveriesAreSuffixes` | `StreamSpec => []DeliveredIsSuffix` |
| | `DeliveriesAreSingle` | `StreamSpec => []DeliveredOnce` |
| | `OrganizerDelivers` | `StreamSpec => DeliversInOrder`: the organizer implements `FrameDelivery` |
| | `InOrderInvariant` | `StreamSpec => []InOrderInv` |
| | `WholeStreamIsDelivered` | `NoFrameWraps` implies `StreamSpec => []WholeStreamDelivered` |
| | `CountedPacketsAreLost` | `NoFrameWraps` implies `StreamSpec => []LostPacketsAreLost` |
| | `PoolIsNotWedged` | `NoFrameWraps` implies `StreamSpec => []PoolNotWedged` |
| | `EvictedAreIncomplete` | `NoFrameWraps` implies `StreamSpec => EvictedIsIncomplete` |
| `TcpFraming_proofs` | `TypeCorrect` | `WholeBodies` implies `Spec => []TypeOK` |
| | `UnitsHandledInOrder` | `WholeBodies` implies `Spec => []HandledInOrder` |
| | `OnlyPartsWait` | `WholeBodies` implies `Spec => []NothingCompleteWaits` |
| | `BufferHasRoom` | `WholeBodies` implies `Spec => []BufferNeverFull` |
| `FrameAssembly_proofs` | `TypeCorrect` | `Spec => []TypeOK` |
| | `UnitsAreWhole` | `Spec => []GivenAsSent` |
| | `UnitsAreGivenToTheEnd` | `Spec => []GivenToTheEnd` |
| | `RequestsFit` | `Spec => []FitsRequest` |
| `MovFile_proofs` | `NearestFinds` | `Nearest` of any sorted times is the index of one with the least `Distance` |
| | `MovedExchanges` | `Moved` exchanges the two parts of any file and changes no word |
| `Mp4Writer_proofs` | `FinishedIs` | `Finished` (all writes of the closing succeed) on any file and tracks: `agrees`, the moov box of the tracks is found, the media data is behind it |
| | `TypeCorrect` | `Spec => []TypeOK` |
| | `VideoAdvances` | `Spec => []VideoNeverBack` |
| | `AcceptedAudioIsRecorded` | `CodeIsSet` implies `Spec => []AudioIsRecorded` (of recordings none of whose media writes failed) |
| | `StoredSamplesAreReadable` | `Spec => []SamplesReadable` |
| | `RecordedTimesAreReadBack` | `Spec => []TimesReadBack` |
| | `SeekEndsAtTheNearest` | `Spec => []SeekFindsNearest` |

*Organizer.* The proofs rest on `OrganizerAssumption` alone: `SeqSpace` is a
positive number, there is a finite number of frame objects and at least one
(`init` refuses 0), fragments have the three header fields, and the two model
values are not fragments. `OrganizerInv` is the conjunction of `TypeOK`,
`SlotsPartitioned`, `QueuesWellFormed` and `ClosedIsEmpty` (a connection that does
not exist has no frames, holds no packet). None is inductive alone. An eviction
keeps the types only if the map has a frame to evict, which is the partition: no
free object, so all are in the map, and there is at least one. `GapsIn` needs a
queue that is not empty, which is `QueuesWellFormed`; a prepared frame starts
with an empty queue only because free objects are empty; and creating a
connection keeps the ownership only because a closed one has nothing.
`SmallFrameExists` (a finite set of frames has one with the least timestamp) and
`InsertShape` (what `insert` does to a sorted queue, either way) are the lemmas
that carry the operators; each action has a lemma of its own.

*Buffers.* `BuffersOwnedOnce` adds three cardinalities, which is unpleasant to
reason with. `OwnedOnce` says instead that a buffer is in exactly one of three
places: once in the pool, in one thread's hand, or at one entry of one frame.
`Take`, `GiveBack`, `PutIntoFrame`, `Move` and `Free` are the ways a buffer
changes its place, and each action is shown to be one or two of them for the
buffer it is about and a `Move` for the others, since an insertion shifts the
entries behind it. `OwnedOnceCounts` turns the invariant into the sum.

*Clients.* A sum of cardinalities does not lend itself to induction; `IndexesApart`
follows one index instead: the positions of the free list hold different indexes, no
living client has one that is on it, no two have the same, and each index has an
owner. `LifecycleInv` adds the types, that a thread inside a client is inside one
that has been created, and that such a client leaves `Traces`, so that it is not
created again. Only `Create` and `Deleted` move an index; `Changes` is what every
other action does to a client, and two lemmas show that it keeps the rest.

*Stopping.* `QuietInv` says, of an application with a thread of its own, how far a
stop has got for each client: from where on the timer does not know the client and
is not in it, from where on the network does not either, and that `m_bRegister`,
which `stop_recv` looks at, is true whenever the timer may know the client, except
where the application's own thread is between `registerTimer` and the assignment.
That exception is why the same thread must call stop, and `Waits` is used exactly
where `StopCancel` and `StopRemove` claim that nobody is inside. A destroyed client
has been stopped, hence the second theorem. The handle of an RTMP client is destroyed
by whoever called `stop`, in `StopRelease`. `HandleInv` says, of either kind of
application, that the network has let go of an RTMP client whose handle is gone or
about to go (neither watched nor being read for), and that a client that was not
started is unknown to the threads and the services. The timer thread of the test
client calls stop too, so it is one of those that may be about to release.

*Sessions.* `SessionConstants` is assumed: the number of pairs and of streams are
natural numbers. `SessionInv` follows one pair, as above (`PairsApart`). That none
is shared needs nothing else: each outcome of a handler takes the front of the free
list into a slot or takes nothing (`Outcome`). That none is lost needs that the slot
was empty, and that is a fact about the protocol. `Ready` says that the streams
whose SETUP is still to come are different and have no pair, and that none has
one before the description is in; it holds of a connection that reads. It is kept
only if the answer at hand is the one to the last request, which is `Lockstep`:
the server's answers are numbered 0, 1, 2, and a connection has at most one
request more than it has read answers. A failed SETUP leaves a stream in the list
whose slot is filled, so `Ready` is lost; but then the handle is not armed again.
One lemma for each handler shows `Outcome` and `FillsEmptySlots`, one for each
action the invariant. `StatusOK` (TEARDOWN means that nothing is read) gives
`FailedIsFinal`.

*Handshakes.* `HandshakeInv` says, on top of `SessionInv`, how far a handshake that
goes on has come, by the request that waits (`Stage`): before the description is in
nothing is to be set up; while SETUPs are sent, the grants that have been read, the
streams still to come and the one that waits cover the description; with PLAY the
grants alone do. Every request beyond those of one handshake is counted by
`m_ulAuthenTime`. `Sound` is what both properties ask, and stays true of a
connection that has given up. An answer is counted as a grant of the request with its
number, so the proof needs `Lockstep` again. Both properties, like
`OneRequestAtATime`, are claimed of a server that repeats no answer.
`PlayNeedsEverySetup` is false of one that does (a second 200 to the same SETUP lets
the client go on); `RetriesBounded` is claimed so because its proof uses `Lockstep`.

*Streams.* `FragmentsAssumption` asks that a frame has fewer packets than there are
sequence numbers (with 2^16 numbers, 90 MB in one frame): then the packets of a
frame have different numbers, although numbers wrap and are reused by later frames.
`StreamInv` has five parts. `OrganizerInv` is that of the organizer. `CacheInv`: what
is in hand or cached are packets of the stream that arrived, under the timestamp of
their frame, and a frame object with the marker has the frame's last packet.
`LogInv`: what was delivered is an end of the frame that was sent, whose last packet
arrived. `OrderInv`: while packets arrive in order, what is in hand or cached is
later than what was delivered, and everything after an awaited packet is awaited.
`OnceInv`: a marker that came once
is in one place, in the thread's hand, in the cache or in the log. Under
`log` as `out`, a delivery is a step of `FrameDelivery` and everything else a stutter.

*In order.* `NoFrameWraps` says of the stream that only the last packet of a frame
may have the last sequence number. Without it a queue is sorted wrongly and its
frame never complete (section 6, `stream_wrap`), so that the four properties are
false; with it the numbers of a frame are consecutive (`NumbersRun`), for frames of
any length and numbers that wrap between frames. `InOrderInv` adds seven parts to
`StreamInv`. `HandIsLast`: the packet in hand is the last that came. `KeptInv`: the
frames of the cache hold exactly what was taken in of them, each packet once and in
order, and of frames that are not in the cache and not in hand nothing is still to
come. From it, a queue with the marker that lacks no number of its frame is the
whole frame (`AllTaken`, by counting). `NoneWaits`: when the last frame object is
taken, the smallest frame is incomplete, since `checkFrame` looks after each
insertion; hence the frame evicted before the next one lacks a packet
(`EvictedLacks`). `OnTime`: without losses no frame of the cache has its marker, and
the log is the beginning of what was sent; it needs that only one frame is in the
cache (`Alone`). `Dropped`: a packet that came but was dropped with an
eviction is one of the first of its frame, never one inside a queue. So the gaps of
a queue are packets that never came (`GapsAreMissing`), which
`CountInv` adds up: the count is at most the number of those of frames that are over. An
injection stands for the sum over entries (`InjectsInto`). For the pool, each buffer
that is not free is at one entry (`OwnedOnce`), and entries inject into pairs of a
frame object and a place in a frame; with as many buffers as pairs the cache would have
to be full of whole frames, which leaves no room for one that lacks a packet
(`NeverWedged`).

*Framing.* The code's loop goes from message to message in a buffer it compacts;
`FramingInv` says that what it has left of the buffer begins where a unit of the
stream begins, and that it waits only for the rest of one unit. The positions of
units are sums, and where a position lies among them is shown by a least
counterexample, since induction over the stream is not available. The hypothesis
`WholeBodies` is what the code needs (section 6): without it `FramingInv` is false.

*Frames.* The operators that go through the packets of a frame are recursive
functions; for each the proofs give a closed form, show that it satisfies the
recursion, and that the recursion has one solution (`SameSteps`, again by a least
counterexample). `ParsersShape`: the one parser of a frame knows each packet's
payload, although it keeps the padding of the last packet that had any, because only
the last one is padded, or all are. `AssembledShape` and `TotalShape` say what
`handleH264Frame` puts together and how much is asked for: a header (`UnitFront`, or
`RawFront` when only the last fragment has come), and behind it exactly the data from
some byte to the end (`RunBehind`), from which `GivenToTheEnd` follows. `AssemblyInv` says which
packets of a unit wait and which are held, and that no unit has the type that marks a
fragment, which is `AssemblyAssumption` on the types sent (H.264 and H.265 reserve
28 and 49 for packets).

*Recordings.* `WriterInv` adds to the types that a track is where the number of its
medium says (`Layout`), so that there are at most two, and that the samples of the
video are in order and none is later than the time of the last frame (`Forward`).
That time runs on also for frames that are not written while parameter sets are
awaited, so it is not the time of the last sample. `AudioHeld` says that what was
accepted is what the sizes of the audio samples add up to, and `AllStored` that every
sample is in the file while the media data has not exceeded the room of the disk
(`NoLoss`: no write has failed then, so that none is skipped): together they are
`AudioIsRecorded`, which is claimed of such a disk only. For a frame, `Pieces`
is shown to add up to its length, whatever `Chunk` is, and the loop of
`write_g711_frame`, a recursive function, to have one solution, in which each piece
adds its sample (`PiecesAdded`). `CodeIsSet` asks that the application puts G.711
into `info->code`; the library does not, and then the property is violated
(section 6, `mp4_audio`).

*Files.* The operators of `MovFile` are recursive functions over tables, files and
pairs of bounds. `RecursionExists` shows, for a recursion whose measure goes down,
that there is a function that satisfies it, and `ByMeasure` what holds of each
argument when it holds after those of a smaller measure; both rest on a least
counterexample. With them: `Ascending` lists the members of its set, in order
(`Lists`), so that the groups of a table have the size they claim; the deltas, added
up by the reader, give the times back (`TimesAreDeltas`); the binary search keeps
the nearest time between its bounds or next to where it ends, which is why the code
must look at both neighbours; and each round of the fast start leaves the file moved
up to that round, with the words it has overwritten in the two buffers.

*Finished recordings.* The fast start writes offsets that depend on the size of the box
they are in. `WideningSettles` shows that the loop ends: `Grown`, what all tables grow
by, rises with the distance and is bounded (`GrownRises`), so the loop goes one way
and cannot go on. A number it leaves unchanged is the one for which the box written
again has the room computed, which is what `mov-writer.c` asserts. `FinishedIs` puts
together that the second box fills that room, that the move brings it to where the
header of the media data was, and that a reader who skips boxes by their sizes gets
there (`MoovIsFound`). It needs only that the file begins as `NewFile` does (`FileOK`)
and `SizesAssumption`: a box takes at least the two words of its header.
`Kept`, which `WriterInv` has while the file is open, says that no sample of a track
begins before the one in front of it, that each stored one has its words there, and
that a sample whose predecessor is stored begins behind it (`Behind`), of which the
reader's assertion (`Apart`) follows when all are stored; that a
piece of a frame is never empty (`PiecesFacts`) keeps the samples of a track apart. When
the writer is closed and no write failed, `ReadableInv` takes over: some `shift` moves
the samples and the offsets in the tables alike. From it follow the three properties, table by
table (`OffsetsOfTrak`, `TimedCounts`, `SeekOfTrak`). For the seek, `SeekToIs` gives the
recursion over the tracks a closed form: there is at most one video track, so the time
is rewritten at most once, and the other tracks seek the time of its key frame. `limit` may be any positive
number, so the theorems cover every place where offsets or sizes become wide.

*Only model-checked.* The liveness properties, which are out of TLAPS's reach:
`HandshakeEnds`, `EverythingHandled`, `StopReturns` and `SilenceIsReported`.

## 6. Disagreements between code and documents

- `stream_wrap`: a frame whose sequence numbers wrap is never complete although all
  its packets arrive in order, and counts as lost (`insert` compares the numbers as
  plain integers). The constants `MAX_RTP_SEQ` and `TURN_OVER_RTP_SEQ` are not used.
- `framing_split_body`: an answer whose body has arrived in part is handled, although
  a comment says the code waits. With a complete `m=` line of video or audio in that
  part the description is accepted, SETUP is sent, and more is taken out of the buffer
  than it holds; with less `decodeSdp` fails and the session is given up.
- `clients_teardown`: the test client destroys its client in the TEARDOWN callback;
  `destory_client` does not cancel the timer, which goes on calling the deleted
  object.
- `mp4_audio`: `write_g711_frame` looks for the codec in `info->code`, which the
  library sets to `MR_MEDIA_CODE_OK`; the frame is accepted and not recorded.

Four more were met, for which there is no run of their own, because the models
describe what the code does and no property claims the opposite:

- `write_g711_frame` sets the time of a track back to 0 when the camera's does not
  advance (line 286), against the assertion of `mov-stts.c:153`. In the model such a
  recording may end as "stopped"; `TimesReadBack` says of its times only how many
  there are.
- After a media write that failed, the samples of a file overlap for its reader,
  against the assertion of `mov-stco.c:168`; `SamplesReadable` claims `Apart` of a disk
  that held (`DiskHeld`).
- Errors of writing are not reported: `write_g711_frame` ignores what
  `mov_writer_write` returns (line 293), and `close_writer` returns OK when the moov
  box is not in the file or its move failed half way ("lost").
- The application's buffer is asked for without the four bytes of the start code;
  `FitsRequest` allows exactly these.

## 7. What is not modelled

- `as_common` (network service, timer, mutex, digest, URL parser), the camera, the
  server and the network are environment, modelled by what the code relies on.
- The vendored `rtmp/mk_librtmp.cpp` (36,000 of the repository's 53,000 lines),
  build files, the Windows entry points, the API that only forwards, and the
  server side, which is a stub.
- Texts: RTSP headers, SDP, the digest; and the payloads. The codecs (`mk_rtsp_packet`,
  `mk_media_sdp`, `mk_rtsp_rtcp_packet`, `mk_nal_sps_parse`) keep no state between calls.
- Timestamps that wrap (`GetSmallFrame` compares them as plain numbers), and
  starting a stopped connection again, which neither the API nor the test client
  does: `m_Status` and the descriptions are not reset, and the handshake would stop
  at the answer to OPTIONS.
- Media over UDP: `m_bRunning` of a handle is never set, so `handle_recv` returns
  before it touches the pool or its observer (`ClientLifecycle` has that return).
- The start and the end of the process (`init` that fails half way, `release`).
- In libmov: fragments, the sample descriptions, other handlers than video and
  audio, the cached file access, and what is left in a file when a write of its
  closing failed.
- A padded packet in front of one that is not padded: the parser keeps the tail of
  the first, which the models' cameras do not bring about.

## 8. The plan

Done: 1 `RtpFrameOrganizer`, `RtpStream`, `FrameDelivery`; 2 `RtspSession`;
3 `TcpFraming`; 4 `ClientLifecycle` (with the media service, RTMP and the UDP
handles); 5 `MovFile` and `Mp4Writer`; 6 `FrameAssembly`; and the proofs of
section 5. Left:

7. `FrameAssembly` over the organizer of `RtpFrameOrganizer` instead of its
   reduction, so that units overlap.

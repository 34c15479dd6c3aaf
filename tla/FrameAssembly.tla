---------------------------- MODULE FrameAssembly ----------------------------
(***************************************************************************)
(* From RTP packets to what the application gets: one connection receives, *)
(* in the order they were sent and some of them lost, the NAL units of a   *)
(* video stream, whole or cut into fragments (FU-A of H.264, FU of H.265), *)
(* and G.711 packets.  Units and audio are given to the application one by *)
(* one, in a buffer it provides.                                           *)
(***************************************************************************)
EXTENDS SequencesExt

CONSTANTS
  Codecs,     \* of "H264" and "H265"
  Types,      \* the types of the NAL units sent
  Lengths,    \* the bytes of their data
  Heads,      \* the RTP headers: csrc entries, words of the extension (-1: none)
  Pads,       \* the bytes of padding, 0: none
  MaxParts,   \* bound: the fragments of a unit
  MaxUnits    \* bound: the units and audio packets sent

ASSUME AssemblyAssumption ==
  /\ Codecs \subseteq {"H264", "H265"}
  /\ Types \subseteq 0 .. 27 \cup 32 .. 40
  /\ Lengths \subseteq Nat \ {0} /\ Pads \subseteq Nat
  /\ Heads \subseteq [csrc : Nat, ext : Int]
  /\ MaxParts \in Nat \ {0} /\ MaxUnits \in Nat

VARIABLES
  Codec,    \* what the server's description says of the video
  units,    \* what was sent
  coming,   \* the packets of the last unit that are under way
  lost,     \* which of its packets got lost: "none", only "first" ones, others ("hole")
  held,     \* its packets in the frame organizer
  given     \* what the application got

vars == <<Codec, units, coming, lost, held, given>>

FixedHeader == 12
FuType == IF Codec = "H264" THEN 28 ELSE 49

\* Bytes: of headers, of data, of a start code, of padding.
Hdr(layer, type) == [byte |-> "hdr", layer |-> layer, type |-> type]
Datum(u, k) == [byte |-> "data", unit |-> u, at |-> k]
Bytes(name, n) == [i \in 1 .. n |-> [byte |-> name, n |-> n]]
StartCode == Bytes("start", 4)

\* The header of a unit: one byte, and a second one in H.265.
UnitHeader(layer, type) ==
  <<Hdr(layer, type)>> \o (IF Codec = "H265" THEN Bytes("tid", 1) ELSE <<>>)

Data(u, from, to) == [i \in 1 .. to - from + 1 |-> Datum(u, from + i - 1)]

UnitBytes(u) ==
  IF units[u].media = "audio" THEN Data(u, 1, units[u].length)
  ELSE UnitHeader(units[u].layer, units[u].type) \o Data(u, 1, units[u].length)

Packet(head, payload, pad) ==
  [csrc |-> head.csrc, ext |-> head.ext, padding |-> pad > 0,
   bytes |-> Bytes("rtp", FixedHeader + 4 * head.csrc + (IF head.ext >= 0 THEN 4 + 4 * head.ext ELSE 0))
               \o payload \o Bytes("pad", pad)]

\* Fragment k of n: the payload header and the FU header in front of its part.
Fragment(unit, u, k, n) ==
  UnitHeader(unit.layer, FuType) \o <<[byte |-> "fu", type |-> unit.type]>>
    \o Data(u, (((k - 1) * unit.length) \div n) + 1, (k * unit.length) \div n)

-----------------------------------------------------------------------------
\* Every variable has its type, and the organizer keeps nothing of a frame that
\* has been delivered.
TypeOK ==
  /\ Codec \in Codecs
  /\ units \in Seq([media : {"video", "audio"}, layer : 0 .. 3, type : Nat, length : Lengths])
  /\ Len(units) <= MaxUnits
  /\ lost \in {"none", "first", "hole"}
  /\ Len(coming) + Len(held) <= MaxParts
  /\ coming = <<>> => held = <<>>
  /\ \A i \in DOMAIN given :
       given[i].key \in BOOLEAN /\ given[i].asked \in Nat /\ given[i].unit \in DOMAIN units

Init ==
  /\ Codec \in Codecs
  /\ units = <<>> /\ coming = <<>> /\ lost = "none" /\ held = <<>> /\ given = <<>>

Sent(unit, packets) ==
  /\ coming = <<>> /\ Len(units) < MaxUnits
  /\ units' = Append(units, unit)
  /\ coming' = packets
  /\ lost' = "none"
  /\ UNCHANGED <<Codec, held, given>>

\* The camera sends a unit in n packets.  Only the last one is padded, or all.
SendVideo(type, layer, length, n, head, pad, all) ==
  LET unit == [media |-> "video", layer |-> layer, type |-> type, length |-> length]
      u == Len(units) + 1
  IN /\ n <= length
     /\ Sent(unit, [k \in 1 .. n |->
          Packet(head, IF n = 1 THEN UnitHeader(layer, type) \o Data(u, 1, length)
                       ELSE Fragment(unit, u, k, n),
                 IF all \/ k = n THEN pad ELSE 0)])

SendAudio(length, head, pad) ==
  Sent([media |-> "audio", layer |-> 0, type |-> 0, length |-> length],
       <<Packet(head, Data(Len(units) + 1, 1, length), pad)>>)

\* Without its last packet a frame is never complete: the frames that follow
\* evict it.
Lose ==
  /\ coming # <<>>
  /\ coming' = Tail(coming)
  /\ lost' = IF held = <<>> THEN "first" ELSE "hole"
  /\ held' = IF Len(coming) = 1 THEN <<>> ELSE held
  /\ UNCHANGED <<Codec, units, given>>

-----------------------------------------------------------------------------
\* mk_rtp_packet: what the object knows after ParsePacket.  The length of the
\* padding is that of the last packet that had any.

NewParser == [head |-> 0, tail |-> 0]

ParsePacket(parser, p) ==
  [head |-> FixedHeader + 4 * p.csrc + (IF p.ext >= 0 THEN 4 + 4 * p.ext ELSE 0),
   tail |-> IF p.padding THEN Last(p.bytes).n ELSE parser.tail]

\* Mutant: the padding counts as payload.
Payload_WithPadding(parser, p) == SubSeq(p.bytes, parser.head + 1, Len(p.bytes))

Payload(parser, p) == SubSeq(p.bytes, parser.head + 1, Len(p.bytes) - parser.tail)

\* The parser after each packet of a frame, one object for all of them.
Parsers(packets) ==
  LET parser[i \in 0 .. Len(packets)] ==
        IF i = 0 THEN NewParser ELSE ParsePacket(parser[i - 1], packets[i])
  IN parser

\* Mutant: the headers of the fragments are not counted.
TotalDataLen_NoHeaders(packets) ==
  LET ps == Parsers(packets)
      sum[i \in 0 .. Len(packets)] ==
        IF i = 0 THEN 0 ELSE sum[i - 1] + Len(Payload(ps[i], packets[i])) - 2
  IN sum[Len(packets)]

\* checkFrameTotalDataLen: the start code is not counted.
TotalDataLen(packets) ==
  LET ps == Parsers(packets)
      sum[i \in 0 .. Len(packets)] ==
        IF i = 0 THEN 0 ELSE sum[i - 1] + Len(Payload(ps[i], packets[i]))
  IN sum[Len(packets)]

\* parse_media_info looks at the byte behind the start code.
KeyType(type) == type \in (IF Codec = "H264" THEN {5, 6, 7, 8} ELSE 16 .. 21)

Item(bytes, asked, whole) ==
  [bytes |-> bytes, asked |-> asked, whole |-> whole, unit |-> Len(units),
   key |-> units[Len(units)].media = "video" /\ KeyType(bytes[5].type)]

\* Mutant: every fragment keeps the header it came with.
Assembled_Raw(packets) ==
  LET ps == Parsers(packets)
      out[i \in 0 .. Len(packets)] ==
        IF i = 0 THEN StartCode ELSE out[i - 1] \o Payload(ps[i], packets[i])
  IN out[Len(packets)]

\* handleH264Frame, handleH265Frame: the header of the unit is put together from
\* those of the first fragment; a single fragment is taken as it is.
Assembled(packets) ==
  LET ps == Parsers(packets)
      first == Payload(ps[1], packets[1])
      skipped == IF Codec = "H264" THEN 2 ELSE 3
      out[i \in 0 .. Len(packets)] ==
        IF i = 0 THEN StartCode \o UnitHeader(first[1].layer, first[skipped].type)
        ELSE LET payload == Payload(ps[i], packets[i])
             IN out[i - 1] \o SubSeq(payload, skipped + 1, Len(payload))
  IN IF Len(packets) = 1 THEN StartCode \o first ELSE out[Len(packets)]

\* DataLen - 2 < head + tail: a packet without two bytes of payload.
TooShort(packets) ==
  LET ps == Parsers(packets)
  IN \E i \in DOMAIN packets : Len(packets[i].bytes) - 2 < ps[i].head + ps[i].tail

\* handle_rtp_packet of a whole unit, with the start code, or of audio, without.
Direct(p) ==
  LET payload == Payload(ParsePacket(NewParser, p), p)
      code == IF units[Len(units)].media = "video" THEN StartCode ELSE <<>>
  IN Item(code \o payload, Len(payload), TRUE)

IsFragment(p) ==
  /\ units[Len(units)].media = "video"
  /\ Payload(ParsePacket(NewParser, p), p)[1].type = FuType

\* A packet arrives that is not a fragment.  refused: the application has no
\* buffer for it.
ReceiveWhole(refused) ==
  /\ coming # <<>> /\ ~IsFragment(Head(coming))
  /\ coming' = Tail(coming)
  /\ given' = IF refused THEN given ELSE Append(given, Direct(Head(coming)))
  /\ UNCHANGED <<Codec, units, lost, held>>

\* The frame is complete with the last fragment when what has arrived of it has
\* no hole, whether its first fragment is there or not (checkFrame).
Completes == Len(coming) = 1 /\ lost # "hole"

\* A fragment arrives and the frame is not complete; with a hole it never will
\* be, and later frames evict it.
ReceiveFragment ==
  /\ coming # <<>> /\ IsFragment(Head(coming)) /\ ~Completes
  /\ coming' = Tail(coming)
  /\ held' = IF Len(coming) = 1 THEN <<>> ELSE Append(held, Head(coming))
  /\ UNCHANGED <<Codec, units, lost, given>>

\* Mutant: the packets of a delivered frame stay.
ReceiveLast_KeepsHeld(refused) ==
  LET packets == Append(held, Head(coming))
  IN /\ Completes /\ IsFragment(Head(coming))
     /\ coming' = <<>>
     /\ given' = IF refused \/ TooShort(packets) THEN given
                 ELSE Append(given, Item(Assembled(packets), TotalDataLen(packets), lost = "none"))
     /\ UNCHANGED <<Codec, units, lost, held>>

\* The last fragment completes the frame.
ReceiveLast(refused) ==
  LET packets == Append(held, Head(coming))
  IN /\ Completes /\ IsFragment(Head(coming))
     /\ coming' = <<>> /\ held' = <<>>
     /\ given' = IF refused \/ TooShort(packets) THEN given
                 ELSE Append(given, Item(Assembled(packets), TotalDataLen(packets), lost = "none"))
     /\ UNCHANGED <<Codec, units, lost>>

Next ==
  \/ \E type \in Types, length \in Lengths, n \in 1 .. MaxParts, head \in Heads,
        pad \in Pads, all \in BOOLEAN : SendVideo(type, type % 4, length, n, head, pad, all)
  \/ \E length \in Lengths, head \in Heads, pad \in Pads : SendAudio(length, head, pad)
  \/ Lose
  \/ ReceiveFragment
  \/ \E refused \in BOOLEAN : ReceiveWhole(refused) \/ ReceiveLast(refused)

Spec == Init /\ [][Next]_vars

-----------------------------------------------------------------------------
\* A unit of which no packet got lost is given to the application byte for byte,
\* behind a start code, and as a key frame exactly if its type says so; audio is
\* given as it was sent.  Nothing is given twice, or before what was sent earlier.
GivenAsSent ==
  \A i \in DOMAIN given :
    LET u == given[i].unit
    IN /\ i > 1 => given[i - 1].unit < u
       /\ given[i].whole =>
            /\ given[i].bytes = (IF units[u].media = "video" THEN StartCode ELSE <<>>) \o UnitBytes(u)
            /\ given[i].key = (units[u].media = "video" /\ KeyType(units[u].type))

\* What may stand in front of the data: the start code and the unit's header, or,
\* when only the last fragment has come, the header of that.
Openings(unit) ==
  IF unit.media = "audio" THEN {<<>>}
  ELSE { StartCode \o UnitHeader(unit.layer, unit.type),
         StartCode \o (UnitHeader(unit.layer, FuType) \o <<[byte |-> "fu", type |-> unit.type]>>) }

\* Whichever first packets of a unit got lost, behind the header the application
\* gets the unit's data from some byte on to the end, without a gap and without
\* a byte of the padding or of another unit.
GivenToTheEnd ==
  \A i \in DOMAIN given :
    LET u == given[i].unit
        n == units[u].length
    IN \E from \in 1 .. n, opening \in Openings(units[u]) :
         given[i].bytes = opening \o Data(u, from, n)

\* The application is asked for a buffer that is at most the start code too short.
FitsRequest == \A i \in DOMAIN given : Len(given[i].bytes) <= given[i].asked + 4
=============================================================================

--------------------------- MODULE MCTcpFraming ---------------------------
(* Streams for the model checker, with a buffer of 16 bytes, receive buffers *)
(* of 3 and header lengths of the code's order.                             *)
EXTENDS TcpFraming

Answer_(head, body, accepted) ==
  [kind |-> "rtsp", head |-> head, body |-> body, needed |-> 0, accepted |-> accepted]
Description(head, body, needed) == [Answer_(head, body, TRUE) EXCEPT !.needed = needed]
Packet(body) ==
  [kind |-> "rtp", head |-> RTSP_INTERLEAVE_HEADER_LEN, body |-> body, needed |-> 0,
   accepted |-> body <= RTP_RECV_BUF_SIZE]

\* A description, PLAY's answer and packets around it; an answer
\* longer than RTSP_MSG_LENGTH; one that does not fit the buffer; a refused
\* answer; a packet that is too big.
Sessions ==
  { << Description(10, 4, 2), Answer_(9, 0, TRUE), Packet(0), Packet(3) >>,
    << Packet(2), Answer_(9, 0, TRUE), Packet(3), Packet(1) >>,
    << Packet(1), Answer_(13, 0, TRUE), Packet(1) >>,
    << Packet(0), Answer_(17, 0, TRUE) >>,
    << Answer_(9, 2, TRUE), Packet(2), Answer_(9, 0, FALSE) >>,
    << Packet(2), Packet(4), Packet(1) >> }

\* The answers to DESCRIBE and SETUP.
Described == { << Description(10, 4, 2), Answer_(9, 0, TRUE) >> }
=============================================================================

------------------------ MODULE MCRtpFrameOrganizer ------------------------
EXTENDS RtpFrameOrganizer

CONSTANTS c1, c2, b1, b2, b3, s1, s2

\* Two frames of two packets, the last one marked, and a frame of one packet;
\* any of them may come at any time, any number of times.  The numbers are
\* uint16_t modulo SeqSpace = 4, so the second frame ends at the largest one.
MCFragment ==
  {[unTimestamp |-> 1, usSeq |-> 0, bMarker |-> FALSE],
   [unTimestamp |-> 1, usSeq |-> 1, bMarker |-> TRUE],
   [unTimestamp |-> 2, usSeq |-> 2, bMarker |-> FALSE],
   [unTimestamp |-> 2, usSeq |-> 3, bMarker |-> TRUE],
   [unTimestamp |-> 3, usSeq |-> 0, bMarker |-> TRUE]}

MCConn == {c1, c2}
MCBuf == {b1, b2, b3}
MCSlot == {s1, s2}

Symmetry == Permutations(MCConn) \cup Permutations(MCBuf) \cup Permutations(MCSlot)
=============================================================================

---------------------------- MODULE MCRtpStream ----------------------------
(* Streams for the model checker. *)
EXTENDS RtpStream

MCConn == {Viewer}
MCFragment == UNION {{Fragments(st)[i] : i \in DOMAIN Fragments(st)} : st \in Streams}

\* In order with losses: frames of two packets, for which the pool is large
\* enough, and of three, for which it is not.  Then frames of two packets that
\* are lost, come twice and overtake each other.
OnTheNetwork ==
  { [frames |-> 5, length |-> 2, first |-> 0, window |-> 0, copies |-> 1, lossy |-> TRUE],
    [frames |-> 4, length |-> 3, first |-> 0, window |-> 0, copies |-> 1, lossy |-> TRUE],
    [frames |-> 3, length |-> 2, first |-> 0, window |-> 2, copies |-> 2, lossy |-> TRUE] }

\* The number of the third of eight packets is 0 again.
Wrapping == { [frames |-> 2, length |-> 4, first |-> 6, window |-> 0, copies |-> 1, lossy |-> FALSE] }

Symmetry == Permutations(Buf) \cup Permutations(Slot)
=============================================================================

--------------------------- MODULE MCRtspSession ---------------------------
(* Values for the model checker: the settings of the runs. *)
EXTENDS RtspSession, TLC

Streamed(video, audio) == "video" :> video @@ "audio" :> audio

Setting(transports, streams, failing, challenges, repeats, count) ==
  [ transports |-> transports, describes |-> streams, failing |-> failing,
    challenges |-> challenges, repeats |-> repeats, created |-> count ]

\* One stream of each kind; and, over UDP, two streams of one kind from a server
\* that may send an answer again.
Sharing ==
  { Setting(BOOLEAN, Streamed(1, 1), TRUE, 0, 0, 3),
    Setting({FALSE}, Streamed(2, 0), FALSE, 0, 1, 2) }

Challenging ==
  { Setting(BOOLEAN, streams, TRUE, 6, 0, 1)
      : streams \in { Streamed(0, 0), Streamed(0, 1), Streamed(2, 1) } }

Symmetry == Permutations(Conn)
=============================================================================

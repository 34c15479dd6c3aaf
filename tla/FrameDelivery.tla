---------------------------- MODULE FrameDelivery ----------------------------
(***************************************************************************)
(* What the application may rely on when the packets of a stream arrive in *)
(* the order they were sent, some of them missing: frames come out in the  *)
(* order of their timestamps, none twice, and what comes out of a frame is *)
(* the end of it, without gaps and with its last packet.                   *)
(***************************************************************************)
EXTENDS Integers, Sequences, SequencesExt

VARIABLES
  sent,  \* the stream: for each timestamp the sequence numbers of its packets
  out    \* the frames handed to the application so far

Init == sent \in Seq(Seq(Nat)) /\ out = <<>>

Deliver(t) ==
  /\ out = <<>> \/ Last(out).unTimestamp < t
  /\ \E q \in Suffixes(sent[t]) \ {<<>>} :
       out' = Append(out, [unTimestamp |-> t, seqs |-> q])
  /\ UNCHANGED sent

Next == \E t \in DOMAIN sent : Deliver(t)

Spec == Init /\ [][Next]_<<sent, out>>
=============================================================================

-------------------------- MODULE MCFrameAssembly --------------------------
(* RTP headers for the model checker: the fixed one, and one with two csrc    *)
(* entries and an extension of one word.                                     *)
EXTENDS FrameAssembly

PlainAndLong == { [csrc |-> 0, ext |-> -1], [csrc |-> 2, ext |-> 1] }
=============================================================================

---------------------------- MODULE MCMp4Writer ----------------------------
(***************************************************************************)
(* Values for the constants of Mp4Writer.  The limits stand for UINT32_MAX *)
(* between the sizes of the recordings: all offsets narrow, wide after the *)
(* moov box has moved the samples, wide anyway, the media data wide.       *)
(***************************************************************************)
EXTENDS Mp4Writer

\* An application that works around the test of info->code, on a disk with and
\* without room for the recording.
Recordings ==
  { [codec |-> "H264", code |-> "G711A", limit |-> 9, room |-> 60],
    [codec |-> "H265", code |-> "G711A", limit |-> 28, room |-> 60],
    [codec |-> "H264", code |-> "G711A", limit |-> 60, room |-> 4] }

\* What the library reports: info->code is MR_MEDIA_CODE_OK.
AsReported == [codec : {"H264"}, code : {"OK"}, limit : {60}, room : {60}]

KeyWithSps    == [config |-> TRUE, sized |-> TRUE, key |-> TRUE, bytes |-> 3]
KeyWithoutSps == [config |-> TRUE, sized |-> FALSE, key |-> TRUE, bytes |-> 2]
Slice         == [config |-> FALSE, sized |-> FALSE, key |-> FALSE, bytes |-> 1]

Frames == {KeyWithSps, KeyWithoutSps, Slice}
=============================================================================

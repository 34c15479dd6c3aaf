------------------------------ MODULE Mp4Writer ------------------------------
(***************************************************************************)
(* mk_mov_file_writer over MovFile: the frames of one camera, video and    *)
(* G.711 audio, recorded into one mp4 file.  The application opens it,     *)
(* hands over frame after frame and closes it.                             *)
(***************************************************************************)
EXTENDS MovFile

CONSTANTS
  Setups,      \* what the application records, with what, onto what disk
  Kinds,       \* the video frames: what their NAL units hold
  Stamps,      \* presentation times of the camera, in ms
  AudioSizes,  \* the lengths of the G.711 frames
  Chunk,       \* the piece an audio frame is cut into (320 bytes)
  MaxFrames    \* bound: the frames of a recording

\* codec: of the video.  code: what the application has in info->code.
\* limit: UINT32_MAX.  room: the words of media data that are written before a
\* write fails, as on a full disk.
\* config: parameter sets are in the frame.  sized: it begins with an SPS that
\* can be decoded.  key: it holds an IDR picture.
ASSUME WriterAssumption ==
  /\ Setups \subseteq [codec : {"H264", "H265"}, code : {"OK", "G711A", "G711U"},
                       limit : Nat \ {0}, room : Nat]
  /\ Kinds \subseteq [config : BOOLEAN, sized : BOOLEAN, key : BOOLEAN, bytes : Nat \ {0}]
  /\ Stamps \subseteq Nat /\ AudioSizes \subseteq Nat
  /\ Chunk \in Nat \ {0} /\ MaxFrames \in Nat

VARIABLES
  setup,      \* one of Setups
  m_mov,      \* open: mov_writer_create gave a writer
  file,       \* the file
  tracks,     \* the tracks, with the samples kept in memory
  track,      \* m_lVideoTrack and m_lAudioTrack, 0: none
  clock,      \* m_ulVideo_pts, m_ulAudio_pts and the _last ones
  avc,        \* m_avc or m_hevc has parameter sets; the width is known
  mdatSize,   \* writer->mdat_size
  index,      \* the moov box: open, written, lost (a write failed), stopped (an assertion)
  frames,     \* the frames handed over
  accepted    \* the words of audio of the frames write_media_frame said OK to

vars == <<setup, m_mov, file, tracks, track, clock, avc, mdatSize, index, frames, accepted>>

Media == {"video", "audio"}

Sample == [bytes : Nat, dts : Int, key : BOOLEAN, offset : Nat, stored : BOOLEAN]

TypeOK ==
  /\ m_mov \in BOOLEAN /\ index \in {"open", "written", "lost", "stopped"}
  /\ m_mov <=> index = "open"
  /\ frames \in 0 .. MaxFrames
  /\ Len(tracks) <= 2
  /\ \A i \in DOMAIN tracks : tracks[i].handler \in Media /\ tracks[i].samples \in Seq(Sample)
  /\ \A m \in Media : track[m] \in 0 .. Len(tracks)
  /\ m_mov => \A m \in Media : track[m] > 0 => tracks[track[m]].handler = m
  /\ mdatSize \in Nat /\ accepted \in Nat
  /\ clock \in [Media -> [pts : Nat, last : Nat]]
  /\ avc \in [config : BOOLEAN, sized : BOOLEAN]

Init ==
  /\ setup \in Setups
  /\ m_mov = TRUE
  /\ file = NewFile
  /\ tracks = <<>>
  /\ track = [m \in Media |-> 0]
  /\ clock = [m \in Media |-> [pts |-> 0, last |-> 0]]
  /\ avc = [config |-> FALSE, sized |-> FALSE]
  /\ mdatSize = 0
  /\ index = "open"
  /\ frames = 0
  /\ accepted = 0

-----------------------------------------------------------------------------
\* mov_writer_write.  A write that fails leaves its sample in the table, and
\* every later one is skipped.  w: the file, its tracks and the size of the media data.

Stored(w, bytes) == ~w.file.error /\ w.mdatSize + bytes <= setup.room

Datum(t, n, i) == [box |-> "data", size |-> 0, of |-> <<t, n, i>>]

MovWrite(w, t, bytes, dts, key) ==
  LET n == Len(w.tracks[t].samples) + 1
      taken == IF w.mdatSize + bytes <= setup.room THEN bytes
               ELSE IF w.mdatSize < setup.room THEN setup.room - w.mdatSize ELSE 0
      data == [i \in 1 .. taken |-> Datum(t, n, i)]
      after == Write(w.file, data)
  IN [tracks |-> [w.tracks EXCEPT ![t].samples =
        Append(@, [bytes |-> bytes, dts |-> dts, key |-> key, offset |-> w.file.pos,
                   stored |-> Stored(w, bytes)])],
      file |-> [after EXCEPT !.error = ~Stored(w, bytes)],
      mdatSize |-> w.mdatSize + bytes]

Writer == [tracks |-> tracks, file |-> file, mdatSize |-> mdatSize]

WriterBecomes(w) ==
  tracks' = w.tracks /\ file' = w.file /\ mdatSize' = w.mdatSize

\* Mutant: an audio track is added as a video track.
NewTrack_Video(handler, sized) == [handler |-> "video", sized |-> sized, samples |-> <<>>]

\* mov_writer_add_video, mov_writer_add_audio
NewTrack(handler, sized) == [handler |-> handler, sized |-> sized, samples |-> <<>>]

-----------------------------------------------------------------------------
\* The time of a video frame: it advances as the camera's does, or by 40 ms.
\* A stored time of 0 stands for no frame yet.

Known(m, pts) == IF clock[m].pts = 0 THEN pts ELSE clock[m].pts

\* Mutant: a camera that does not advance sets the time to 0, as for audio.
VideoTime_Zero(pts) ==
  LET before == Known("video", pts)
  IN IF before < pts THEN clock["video"].last + pts - before ELSE 0

VideoTime(pts) ==
  LET before == Known("video", pts)
  IN IF before < pts \/ (setup.codec = "H265" /\ before = pts)
     THEN clock["video"].last + pts - before
     ELSE clock["video"].last + 40

\* write_h264_frame, write_h265_frame: the clock runs on while the parameter
\* sets are awaited; the width is taken from the frames until there is a track.
WriteVideo(kind, pts) ==
  LET time == VideoTime(pts)
      config == avc.config \/ kind.config
      sized == avc.sized \/ (track["video"] = 0 /\ kind.sized)
      opened == IF track["video"] = 0 THEN Append(tracks, NewTrack("video", sized)) ELSE tracks
      t == IF track["video"] = 0 THEN Len(opened) ELSE track["video"]
  IN /\ m_mov /\ frames < MaxFrames
     /\ clock' = [clock EXCEPT !["video"] = [pts |-> pts, last |-> time]]
     /\ avc' = [config |-> config, sized |-> sized]
     /\ frames' = frames + 1
     /\ IF config
        THEN /\ track' = [track EXCEPT !["video"] = t]
             /\ WriterBecomes(MovWrite([Writer EXCEPT !.tracks = opened], t,
                                       kind.bytes, time, kind.key))
        ELSE UNCHANGED <<track, tracks, file, mdatSize>>
     /\ UNCHANGED <<setup, m_mov, index, accepted>>

\* The time of an audio frame: 0 unless the camera's time advanced.
AudioTime(pts) ==
  LET before == Known("audio", pts)
  IN IF before < pts THEN clock["audio"].last + pts - before ELSE 0

\* Mutant: the last piece is as long as the others.
Pieces_Whole(len) == [k \in 1 .. len \div Chunk |-> Chunk]

\* The pieces of an audio frame.
Pieces(len) ==
  [k \in 1 .. (len + Chunk - 1) \div Chunk |-> Least(Chunk, len - (k - 1) * Chunk)]

\* write_g711_frame.  The track is added when info->code, not info->type, says
\* G.711; what mov_writer_write returns is not looked at.
WriteG711(len, pts) ==
  LET opened == IF track["audio"] = 0 THEN Append(tracks, NewTrack("audio", FALSE)) ELSE tracks
      t == IF track["audio"] = 0 THEN Len(opened) ELSE track["audio"]
      time == AudioTime(pts)
      pieces == Pieces(len)
      written[k \in 0 .. Len(pieces)] ==
        IF k = 0 THEN [Writer EXCEPT !.tracks = opened]
        ELSE MovWrite(written[k - 1], t, pieces[k], time, FALSE)
  IN /\ m_mov /\ frames < MaxFrames
     /\ frames' = frames + 1
     /\ accepted' = accepted + len
     /\ IF track["audio"] > 0 \/ setup.code \in {"G711A", "G711U"}
        THEN /\ track' = [track EXCEPT !["audio"] = t]
             /\ clock' = [clock EXCEPT !["audio"] = [pts |-> pts, last |-> time]]
             /\ WriterBecomes(written[Len(pieces)])
        ELSE UNCHANGED <<track, clock, tracks, file, mdatSize>>
     /\ UNCHANGED <<setup, m_mov, index, avc>>

\* close_writer, called by destory_writer; it says OK whenever it
\* returns.  stopped: in a build with assertions (the Makefile of Linux leaves them
\* out) one of mov_writer_destroy ends the process.  lost: a write of
\* mov_writer_destroy fails, which nothing reports; what the file holds then is left
\* open: no reader can count on a moov box, and the move may have destroyed media data.
CloseWriter ==
  LET done == Finished(file, tracks, mdatSize, setup.limit)
  IN /\ m_mov
     /\ m_mov' = FALSE
     /\ \/ /\ index' = "stopped"
           /\ ~done.agrees \/ \E i \in DOMAIN tracks : ~NeverBack(tracks[i].samples)
           /\ UNCHANGED file
        \/ /\ index' = "lost"
           /\ UNCHANGED file
        \/ /\ index' = "written"
           /\ file' = done.file
     /\ UNCHANGED <<setup, tracks, track, clock, avc, mdatSize, frames, accepted>>

Next ==
  \/ \E kind \in Kinds, pts \in Stamps : WriteVideo(kind, pts)
  \/ \E len \in AudioSizes, pts \in Stamps : WriteG711(len, pts)
  \/ CloseWriter

Spec == Init /\ [][Next]_vars

-----------------------------------------------------------------------------
Recorded == [i \in DOMAIN WithSamples(tracks) |-> tracks[WithSamples(tracks)[i]]]

ReadBack == MoovOf(file.cells)

\* No write of media data failed.
DiskHeld == mdatSize <= setup.room

\* In a recording that was closed without a failing write, every sample that was
\* written is found by a reader where its chunk and the sizes before it say, whatever
\* the widths of the offsets, the media writes that failed and the pieces in which the
\* moov box was moved to the front.  What the reader asserts of the samples holds
\* unless a media write failed (such a sample keeps its size, and the next one the
\* same place).  The box takes the room computed for it, which mov-writer.c asserts,
\* although the offsets in it are moved, and perhaps widened, by its own size: only
\* times that go back let an assertion stop the closing.
SamplesReadable ==
  /\ index = "stopped" => \E i \in DOMAIN tracks : ~NeverBack(tracks[i].samples)
  /\ index = "written" =>
       /\ Len(ReadBack) = Len(Recorded)
       /\ \A i \in DOMAIN Recorded :
            LET t == ReadBack[i]
                at == Offsets(t)
            IN /\ Len(at) = Len(Recorded[i].samples)
               /\ DiskHeld => Apart(t)
               /\ \A n \in DOMAIN at :
                    LET s == Recorded[i].samples[n]
                    IN s.stored =>
                         /\ SizeOf(t.stsz, n) = s.bytes
                         /\ \A k \in 1 .. s.bytes :
                              at[n] + k <= Len(file.cells) /\ file.cells[at[n] + k] = Datum(WithSamples(tracks)[i], n, k)

\* The times a reader gets are those the samples were recorded with, and 1 ms
\* later for every earlier sample that has the time of the one before it.
TimesReadBack ==
  index = "written" =>
    \A i \in DOMAIN Recorded :
      LET s == Recorded[i].samples
          times == Times(ReadBack[i])
      IN /\ Len(times) = Len(s)
         /\ NeverBack(s) =>
              \A n \in DOMAIN s :
                times[n] = s[n].dts + Cardinality({ k \in 2 .. n : s[k].dts = s[k - 1].dts })

\* at is one of entries, and none of them has a time nearer to ts.
IsNearest(at, entries, times, ts) ==
  at \in entries /\ \A n \in entries : Distance(times[at], ts) <= Distance(times[n], ts)

\* A reader that seeks a time resumes a video with key frames at the key frame nearest
\* to it, and the other tracks at the sample nearest to that key frame, so that they
\* stay together; without key frames each at its sample nearest to the time sought.
SeekFindsNearest ==
  index = "written" =>
    LET read == ReadBack
        times == [i \in DOMAIN read |-> Times(read[i])]
        keyed == { v \in DOMAIN read : KeyFramed(read[v]) }
    IN \A ts \in UNION { 0 .. Last(times[j]) + 1 : j \in DOMAIN read } :
         LET at == SeekTo(read, ts)
         IN \A i \in DOMAIN read :
              /\ i \in keyed => IsNearest(at[i], ToSet(read[i].stss), times[i], ts)
              /\ i \notin keyed =>
                   /\ \A v \in keyed :
                        IsNearest(at[i], DOMAIN times[i], times[i], times[v][at[v]])
                   /\ keyed = {} => IsNearest(at[i], DOMAIN times[i], times[i], ts)

\* The times of the video never go back, whatever the camera's do (mov-stts.c
\* asserts it of every track), and those of H.264 always advance.
VideoNeverBack ==
  \A i \in DOMAIN tracks :
    tracks[i].handler = "video" =>
      LET s == tracks[i].samples
      IN /\ NeverBack(s)
         /\ setup.codec = "H264" => \A n \in 2 .. Len(s) : s[n].dts > s[n - 1].dts

\* Every audio frame that was accepted is in the recording (the header: "writer the
\* media frame to file") as long as no write fails; a write that fails is not noticed.
AudioIsRecorded ==
  DiskHeld =>
    accepted = Total([i \in DOMAIN tracks |->
      IF tracks[i].handler = "audio"
      THEN Total([n \in DOMAIN tracks[i].samples |->
             IF tracks[i].samples[n].stored THEN tracks[i].samples[n].bytes ELSE 0])
      ELSE 0])
=============================================================================

------------------------------- MODULE MovFile -------------------------------
(***************************************************************************)
(* The part of libmov that records into an mp4 file and reads it back: the *)
(* file below it, the sample tables of the moov box, the fast start that   *)
(* moves the moov box in front of the media data, and the search for a     *)
(* time.  Sizes and offsets count words of four bytes.                     *)
(***************************************************************************)
EXTENDS SequencesExt

CONSTANTS
  FtypSize,    \* words of the ftyp box
  MoovFixed,   \* words of the moov box outside its tracks
  TrakFixed    \* words of one track outside the entries of its tables

ASSUME SizesAssumption ==
  FtypSize \in Nat \ {0, 1} /\ MoovFixed \in Nat \ {0, 1} /\ TrakFixed \in Nat

Least(a, b) == IF a < b THEN a ELSE b
Distance(a, b) == IF a > b THEN a - b ELSE b - a
Total(s) ==
  LET upTo[n \in 0 .. Len(s)] == IF n = 0 THEN 0 ELSE upTo[n - 1] + s[n]
  IN upTo[Len(s)]

-----------------------------------------------------------------------------
\* The file.  error: a read or write failed, and the position was not set since.

Seek(f, p) == [f EXCEPT !.pos = p, !.error = FALSE]

Write(f, data) ==
  IF f.error THEN f
  ELSE LET end == f.pos + Len(data)
       IN [f EXCEPT !.pos = end,
             !.cells = SubSeq(@, 1, f.pos) \o data \o SubSeq(@, end + 1, Len(@))]

\* A read at the end of the file fills the front of the buffer and fails.
Read(f, buffer) ==
  LET got == SubSeq(f.cells, f.pos + 1, Least(f.pos + Len(buffer), Len(f.cells)))
  IN IF f.error THEN [file |-> f, data |-> buffer]
     ELSE [file |-> [f EXCEPT !.pos = @ + Len(got), !.error = Len(got) < Len(buffer)],
           data |-> got \o SubSeq(buffer, Len(got) + 1, Len(buffer))]

Filler(n) == [i \in 1 .. n |-> [box |-> "-", size |-> 0]]

\* The two words a box begins with.
Header(name, size) == <<[box |-> name, size |-> size]>> \o Filler(1)

MdatOffset == FtypSize + 2

\* ftyp, a free box that leaves room for a wider mdat header, the mdat header.
NewFile ==
  LET cells == Header("ftyp", FtypSize) \o Filler(FtypSize - 2) \o Header("free", 2) \o Header("mdat", 0)
  IN [cells |-> cells, pos |-> Len(cells), error |-> FALSE]

\* mdat_size + 8 <= UINT32_MAX decides the width of the size.
MdatFinished(f, mdatSize, limit) ==
  IF mdatSize + 2 <= limit
  THEN Seek(Write(Seek(f, MdatOffset), Header("mdat", mdatSize + 2)), f.pos)
  ELSE Seek(Write(Seek(f, MdatOffset - 2),
                  Header("mdat", 1) \o <<[box |-> "-", size |-> mdatSize + 4]>> \o Filler(1)), f.pos)

-----------------------------------------------------------------------------
\* The tables of a track.  A sample is bytes, dts, key (sync sample), offset.

\* The members of S up to n, in their order.
Ascending(S, n) ==
  LET upTo[k \in 0 .. n] ==
        IF k = 0 THEN <<>> ELSE IF k \in S THEN Append(upTo[k - 1], k) ELSE upTo[k - 1]
  IN upTo[n]

\* The samples from each start to the next: [first, count].
Groups(starts, n) ==
  LET heads == Ascending(starts, n)
  IN [k \in DOMAIN heads |->
       [first |-> heads[k],
        count |-> (IF k < Len(heads) THEN heads[k + 1] ELSE n + 1) - heads[k]]]

\* Mutant: samples of the same time take no time.
Delta_Zero(s, i) == IF i < Len(s) /\ s[i + 1].dts >= s[i].dts THEN s[i + 1].dts - s[i].dts ELSE 1

Delta(s, i) == IF i < Len(s) /\ s[i + 1].dts > s[i].dts THEN s[i + 1].dts - s[i].dts ELSE 1

\* mov_build_stts asserts it of the times of a track: none is before the one before it.
NeverBack(s) == \A n \in 2 .. Len(s) : s[n].dts >= s[n - 1].dts

Stts(s) ==
  LET runs == Groups({ i \in DOMAIN s : i = 1 \/ Delta(s, i) # Delta(s, i - 1) }, Len(s))
  IN [k \in DOMAIN runs |-> [count |-> runs[k].count, delta |-> Delta(s, runs[k].first)]]

\* Samples that lie next to each other make one chunk.
Chunks(s) ==
  Groups({ i \in DOMAIN s : i = 1 \/ s[i - 1].offset + s[i - 1].bytes # s[i].offset }, Len(s))

Stsc(chunks) ==
  LET news == Ascending({ k \in DOMAIN chunks : k = 1 \/ chunks[k].count # chunks[k - 1].count },
                        Len(chunks))
  IN [e \in DOMAIN news |-> [first_chunk |-> news[e], count |-> chunks[news[e]].count]]

\* One size when all samples have the same.
Stsz(s) ==
  IF \A i \in DOMAIN s : s[i].bytes = s[1].bytes
  THEN [size |-> s[1].bytes, count |-> Len(s), sizes |-> <<>>]
  ELSE [size |-> 0, count |-> Len(s), sizes |-> [i \in DOMAIN s |-> s[i].bytes]]

Stss(track) ==
  IF track.sized
  THEN Ascending({ i \in DOMAIN track.samples : track.samples[i].key }, Len(track.samples))
  ELSE <<>>

\* Offsets are as wide as the last one needs; a narrow one loses its upper part.
Stco(s, shift, limit) ==
  LET wide == Last(s).offset + shift > limit
      chunks == Chunks(s)
  IN [co64 |-> wide,
      offsets |-> [k \in DOMAIN chunks |->
        LET at == s[chunks[k].first].offset + shift
        IN IF wide THEN at ELSE at % (limit + 1)]]

\* mov_write_trak, with the delay mov_write_elst derives from the first sample.
Trak(track, shift, limit) ==
  LET s == track.samples
  IN [handler |-> track.handler, delay |-> s[1].dts,
      stts |-> Stts(s), stss |-> Stss(track), stsc |-> Stsc(Chunks(s)), stsz |-> Stsz(s),
      stco |-> Stco(s, shift, limit)]

TrakSize(t) ==
  TrakFixed + (IF t.delay > 0 THEN 3 ELSE 0)
    + 2 * Len(t.stts) + Len(t.stss) + 3 * Len(t.stsc) + Len(t.stsz.sizes)
    + Len(t.stco.offsets) * (IF t.stco.co64 THEN 2 ELSE 1)

\* The tracks that have samples.
WithSamples(tracks) == Ascending({ i \in DOMAIN tracks : tracks[i].samples # <<>> }, Len(tracks))

\* mov_write_moov
MoovBox(tracks, shift, limit) ==
  LET full == WithSamples(tracks)
      traks == [i \in DOMAIN full |-> Trak(tracks[full[i]], shift, limit)]
      size == MoovFixed + Total([i \in DOMAIN traks |-> TrakSize(traks[i])])
  IN <<[box |-> "moov", size |-> size, traks |-> traks]>> \o Filler(size - 1)

-----------------------------------------------------------------------------
\* Fast start.

\* By how much the table of a track grows when the samples move by offset.
StcoSize(track, offset, limit) ==
  IF track.samples = <<>> THEN 0
  ELSE LET end == Last(track.samples).offset
       IN IF end > limit \/ end + offset <= limit THEN 0 ELSE Len(Chunks(track.samples))

\* Wider tables move the samples further, which may widen another table.
Widening(tracks, size, limit) ==
  LET grown(sz) == Total([i \in DOMAIN tracks |-> StcoSize(tracks[i], size + sz, limit)])
      settled[sz \in Nat] == IF grown(sz) = sz THEN sz ELSE settled[grown(sz)]
  IN settled[grown(0)]

\* Mutant: the two buffers are not exchanged.
Moved_OneBuffer(f, to, from, bytes) ==
  LET last == Read(Seek(f, from), Filler(bytes))
      rounds == (from - to + bytes - 1) \div bytes
      after[k \in 0 .. rounds] ==
        IF k = 0 THEN [file |-> last.file, next |-> last.data]
        ELSE LET st == after[k - 1]
                 i == to + (k - 1) * bytes
                 r == Read(Seek(Write(Seek(st.file, i), st.next), i + bytes), st.next)
             IN [file |-> r.file, next |-> r.data]
      end == to + rounds * bytes
  IN Write(Seek(after[rounds].file, end), SubSeq(after[rounds].next, 1, bytes - (end - from)))

\* Moves the last words, from on, to the front, through two buffers of that size.
Moved(f, to, from, bytes) ==
  LET last == Read(Seek(f, from), Filler(bytes))
      front == Read(Seek(last.file, to), Filler(bytes))
      rounds == (from - to + bytes - 1) \div bytes
      after[k \in 0 .. rounds] ==
        IF k = 0 THEN [file |-> front.file, next |-> last.data, other |-> front.data]
        ELSE LET st == after[k - 1]
                 i == to + (k - 1) * bytes
                 r == Read(Seek(Write(Seek(st.file, i), st.next), i + bytes), st.next)
             IN [file |-> r.file, next |-> st.other, other |-> r.data]
      end == to + rounds * bytes
  IN Write(Seek(after[rounds].file, end), SubSeq(after[rounds].next, 1, bytes - (end - from)))

\* mov_writer_destroy when all its writes succeed: [file, agrees (the moov box took
\* the room computed for it, which is asserted)].
Finished(f, tracks, mdatSize, limit) ==
  LET closed == MdatFinished(f, mdatSize, limit)
      mdatAt == IF mdatSize + 2 <= limit THEN MdatOffset ELSE MdatOffset - 2
      first == MoovBox(tracks, 0, limit)
      written == Write(closed, first)
      co64 == Widening(tracks, Len(first), limit)
      moov == MoovBox(tracks, Len(first) + co64, limit)
      rewritten == Write(Seek(written, closed.pos), moov)
  IN [file |-> Moved(rewritten, mdatAt, closed.pos, Len(moov)),
      agrees |-> rewritten.pos = written.pos + co64]

-----------------------------------------------------------------------------
\* The reader.

\* The size of the box at p: 1 stands for the wide one behind it, which may not be there.
BoxWords(cells, p) ==
  IF cells[p + 1].size # 1 THEN cells[p + 1].size
  ELSE IF p + 3 > Len(cells) THEN 0 ELSE cells[p + 3].size

\* The moov box: the boxes are skipped by their sizes, a size of 0 stands for the
\* rest of the file.
MoovOf(cells) ==
  LET find[p \in 0 .. Len(cells)] ==
        IF p = Len(cells) THEN <<>>
        ELSE IF cells[p + 1].box = "moov" THEN cells[p + 1].traks
        ELSE IF BoxWords(cells, p) = 0 \/ p + BoxWords(cells, p) > Len(cells) THEN <<>>
        ELSE find[p + BoxWords(cells, p)]
  IN find[0]

SizeOf(stsz, i) == IF stsz.size = 0 THEN stsz.sizes[i] ELSE stsz.size

\* mov_apply_stco: chunk by chunk, as many samples as stsc says.
Offsets(t) ==
  LET perChunk(c) ==
        LET e == CHOOSE e \in DOMAIN t.stsc :
              /\ t.stsc[e].first_chunk <= c
              /\ e < Len(t.stsc) => c < t.stsc[e + 1].first_chunk
        IN t.stsc[e].count
      upTo[c \in 0 .. Len(t.stco.offsets)] ==
        IF c = 0 THEN <<>>
        ELSE LET found == upTo[c - 1]
             IN found \o [k \in 1 .. perChunk(c) |->
                  t.stco.offsets[c] + Total([j \in 1 .. k - 1 |-> SizeOf(t.stsz, Len(found) + j)])]
  IN upTo[Len(t.stco.offsets)]

\* mov_apply_stco asserts it: no sample is empty or begins before the end of the one
\* before it.
Apart(t) ==
  LET at == Offsets(t)
  IN \A n \in DOMAIN at :
       /\ SizeOf(t.stsz, n) > 0
       /\ n > 1 => at[n - 1] + SizeOf(t.stsz, n - 1) <= at[n]

\* mov_apply_elst and mov_apply_stts.
Times(t) ==
  LET upTo[e \in 0 .. Len(t.stts)] ==
        IF e = 0 THEN <<t.delay>>
        ELSE LET found == upTo[e - 1]
             IN found \o [k \in 1 .. t.stts[e].count |-> Last(found) + k * t.stts[e].delta]
  IN Front(upTo[Len(t.stts)])

\* Mutant: the later neighbour is not looked at.
Nearest_NoNext(times, clock) ==
  LET n == Len(times)
      search[r \in (0 .. n) \X (0 .. n)] ==
        LET mid == (r[1] + r[2]) \div 2
        IN IF times[mid + 1] > clock /\ r[1] < mid THEN search[<<r[1], mid>>]
           ELSE IF times[mid + 1] < clock /\ mid + 1 < r[2] THEN search[<<mid + 1, r[2]>>]
           ELSE mid
      mid == search[<<0, n>>]
      prev == IF mid > 0 THEN mid - 1 ELSE mid
      gap(i) == Distance(times[i + 1], clock)
  IN (IF gap(prev) < gap(mid) THEN prev ELSE mid) + 1

\* mov_stss_seek and mov_sample_seek: a binary search in times (in the order of
\* index), and a look at the two neighbours of where it ended.
Nearest(times, clock) ==
  LET n == Len(times)
      search[r \in (0 .. n) \X (0 .. n)] ==
        LET mid == (r[1] + r[2]) \div 2
        IN IF times[mid + 1] > clock /\ r[1] < mid THEN search[<<r[1], mid>>]
           ELSE IF times[mid + 1] < clock /\ mid + 1 < r[2] THEN search[<<mid + 1, r[2]>>]
           ELSE mid
      mid == search[<<0, n>>]
      prev == IF mid > 0 THEN mid - 1 ELSE mid
      next == IF mid + 1 < n THEN mid + 1 ELSE mid
      gap(i) == Distance(times[i + 1], clock)
      near == IF gap(prev) < gap(mid) THEN prev ELSE mid
  IN (IF gap(next) < gap(near) THEN next ELSE near) + 1

KeyFramed(t) == t.handler = "video" /\ t.stss # <<>>

\* mov_stss_seek: the key frame whose time is the nearest.
SyncSeek(t, ts) ==
  LET times == Times(t)
  IN t.stss[Nearest([k \in DOMAIN t.stss |-> times[t.stss[k]]], ts)]

\* mov_reader_seek: the sample each track reads next.  A track with key frames sets
\* the time sought to that of its key frame, for the tracks that seek after it: those
\* with key frames first, then the others.
SeekTo(traks, ts) ==
  LET after[i \in 0 .. Len(traks)] ==
        IF i = 0 THEN ts
        ELSE IF KeyFramed(traks[i]) THEN Times(traks[i])[SyncSeek(traks[i], after[i - 1])]
        ELSE after[i - 1]
  IN [i \in DOMAIN traks |->
       IF KeyFramed(traks[i]) THEN SyncSeek(traks[i], after[i - 1])
       ELSE Nearest(Times(traks[i]), after[Len(traks)])]
=============================================================================

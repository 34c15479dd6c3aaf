--------------------------- MODULE Mp4Writer_proofs ---------------------------
(***************************************************************************)
(* The proofs about a recording: the times of the video never go back,     *)
(* every audio frame that was accepted is in the file, and a reader of the *)
(* finished file finds every sample that was stored, with its time, and by *)
(* a seek the nearest one, whatever the frames of the camera and their     *)
(* times, the sizes of the pieces, the width of the offsets, and the room  *)
(* on the disk.                                                            *)
(***************************************************************************)
EXTENDS Mp4Writer, MovFile_proofs

-----------------------------------------------------------------------------
(* The samples of a track.                                                 *)

\* A track.
Track == [handler : Media, sized : BOOLEAN, samples : Seq(Sample)]

\* The samples of a track.
LEMMA SampleIs ==
  ASSUME NEW s \in Seq(Sample)
  PROVE  /\ Len(s) \in Nat /\ DOMAIN s = 1 .. Len(s)
         /\ \A i \in 1 .. Len(s) : /\ s[i] \in Sample /\ s[i].bytes \in Nat
                                   /\ s[i].dts \in Int /\ s[i].offset \in Nat
<1>1. \A x \in Sample : x.bytes \in Nat /\ x.dts \in Int /\ x.offset \in Nat
  BY DEF Sample
<1>2. Len(s) \in Nat /\ DOMAIN s = 1 .. Len(s) /\ \A i \in 1 .. Len(s) : s[i] \in Sample
  OBVIOUS
<1> QED
  BY <1>1, <1>2

\* They have times.
LEMMA DatedSamples ==
  ASSUME NEW s \in Seq(Sample), s # <<>>
  PROVE  Dated(s)
<1>1. Len(s) # 0
  OBVIOUS
<1> QED
  BY <1>1, SampleIs DEF Dated

\* Where a chunk begins.
Gaps(s) == { i \in DOMAIN s : i = 1 \/ s[i - 1].offset + s[i - 1].bytes # s[i].offset }

\* The chunks cut them where they do not lie next to each other.
LEMMA ChunksAre ==
  ASSUME NEW s \in Seq(Sample), s # <<>>
  PROVE  Grouped(Chunks(s), Gaps(s), Len(s))
<1>1. Len(s) \in Nat \ {0} /\ 1 \in Gaps(s)
  BY DEF Gaps
<1>2. Chunks(s) = Groups(Gaps(s), Len(s))
  BY DEF Chunks, Gaps
<1> QED
  BY <1>1, <1>2, GroupsFacts

-----------------------------------------------------------------------------
(* The moov box, and the room it takes when its samples move.              *)

\* The tables of a track take the same room wherever its samples move, but for the
\* width of the offsets.
Narrow(trk) ==
  LET s == trk.samples
  IN TrakFixed + (IF s[1].dts > 0 THEN 3 ELSE 0)
       + 2 * Len(Stts(s)) + Len(Stss(trk)) + 3 * Len(Stsc(Chunks(s))) + Len(Stsz(s).sizes)

\* The room the tables take is a number.
LEMMA TablesSize ==
  ASSUME NEW trk \in Track, trk.samples # <<>>
  PROVE  Narrow(trk) \in Nat /\ Len(Chunks(trk.samples)) \in Nat
<1> DEFINE s == trk.samples
<1>1. s \in Seq(Sample) /\ s # <<>> /\ Len(s) \in Nat /\ DOMAIN s = 1 .. Len(s)
  <2>1. s \in Seq(Sample)
    BY DEF Track
  <2> QED
    BY <2>1
<1>2. Len(Stts(s)) \in Nat
  <2> DEFINE g == Groups(Turns(s), Len(s))
  <2>1. Grouped(g, Turns(s), Len(s))
    <3>1. Len(s) \in Nat \ {0} /\ 1 \in Turns(s)
      BY <1>1 DEF Turns
    <3> QED
      BY <3>1, GroupsFacts
  <2>2. Len(g) \in Nat /\ DOMAIN g = 1 .. Len(g)
    BY <2>1, GroupedLen
  <2>3. Stts(s) = [k \in DOMAIN g |-> [count |-> g[k].count, delta |-> Delta(s, g[k].first)]]
    BY DEF Stts, Turns
  <2> HIDE DEF g
  <2> QED
    BY <2>2, <2>3
<1>3. Len(Stss(trk)) \in Nat
  <2>1. PICK S : Lists(Stss(trk), S, Len(s))
    BY <1>1, StssLists
  <2>2. Stss(trk) \in Seq(Nat)
    BY <2>1 DEF Lists
  <2> QED
    BY <2>2
<1> DEFINE c == Chunks(s)
<1>4. Len(c) \in Nat /\ DOMAIN c = 1 .. Len(c)
  BY <1>1, ChunksAre, GroupedLen
<1>5. Len(Stsc(c)) \in Nat
  <2> HIDE DEF c
  <2> DEFINE S == { k \in DOMAIN c : k = 1 \/ c[k].count # c[k - 1].count }
             news == Ascending(S, Len(c))
  <2>1. Lists(news, S, Len(c))
    BY <1>4, AscendingLists
  <2>2. news \in Seq(Nat)
    BY <2>1 DEF Lists
  <2>3. Stsc(c) = [e \in DOMAIN news |-> [first_chunk |-> news[e], count |-> c[news[e]].count]]
    BY DEF Stsc
  <2> HIDE DEF news
  <2>4. DOMAIN news = 1 .. Len(news) /\ Len(news) \in Nat
    BY <2>2
  <2> QED
    BY <2>3, <2>4
<1>6. Len(Stsz(s).sizes) \in Nat
  <2>1. CASE \A i \in DOMAIN s : s[i].bytes = s[1].bytes
    BY <2>1 DEF Stsz
  <2>2. CASE ~\A i \in DOMAIN s : s[i].bytes = s[1].bytes
    <3>1. Stsz(s).sizes = [i \in DOMAIN s |-> s[i].bytes]
      BY <2>2 DEF Stsz
    <3> QED
      BY <1>1, <3>1
  <2> QED
    BY <2>1, <2>2
<1>7. TrakFixed \in Nat
  BY SizesAssumption
<1> HIDE DEF s, c
<1>8. Narrow(trk) = TrakFixed + (IF s[1].dts > 0 THEN 3 ELSE 0)
        + 2 * Len(Stts(s)) + Len(Stss(trk)) + 3 * Len(Stsc(c)) + Len(Stsz(s).sizes)
  BY DEF Narrow, s, c
<1>9. Narrow(trk) \in Nat
  <2> DEFINE k == IF s[1].dts > 0 THEN 3 ELSE 0
             b == Len(Stts(s))
             d == Len(Stss(trk))
             e == Len(Stsc(c))
             h == Len(Stsz(s).sizes)
  <2>1. k \in Nat /\ b \in Nat /\ d \in Nat /\ e \in Nat /\ h \in Nat
    BY <1>2, <1>3, <1>5, <1>6
  <2>2. Narrow(trk) = TrakFixed + k + 2 * b + d + 3 * e + h
    BY <1>8
  <2> HIDE DEF k, b, d, e, h
  <2> QED
    BY <1>7, <2>1, <2>2
<1> QED
  BY <1>4, <1>9 DEF s, c

\* The samples' move adds to the room of a track what StcoSize says.
LEMMA TrakGrows ==
  ASSUME NEW trk \in Track, trk.samples # <<>>, NEW shift \in Nat, NEW limit \in Nat
  PROVE  /\ TrakSize(Trak(trk, shift, limit)) \in Nat
         /\ StcoSize(trk, shift, limit) \in Nat
         /\ StcoSize(trk, shift, limit) <= Len(Chunks(trk.samples))
         /\ TrakSize(Trak(trk, shift, limit))
              = TrakSize(Trak(trk, 0, limit)) + StcoSize(trk, shift, limit)
<1> DEFINE s == trk.samples
           c == Len(Chunks(s))
           end == Last(s).offset
<1>1. Narrow(trk) \in Nat /\ c \in Nat
  BY TablesSize
<1>2. end \in Nat
  <2>1. s \in Seq(Sample) /\ s # <<>>
    BY DEF Track
  <2>2. Len(s) \in 1 .. Len(s) /\ Last(s) = s[Len(s)]
    BY <2>1 DEF Last
  <2> QED
    BY <2>1, <2>2, SampleIs
<1>3. ASSUME NEW k \in Nat
      PROVE  TrakSize(Trak(trk, k, limit)) = Narrow(trk) + c * (IF end + k > limit THEN 2 ELSE 1)
  <2> DEFINE t == Trak(trk, k, limit)
  <2>1. /\ t.delay = s[1].dts /\ t.stts = Stts(s) /\ t.stss = Stss(trk)
        /\ t.stsc = Stsc(Chunks(s)) /\ t.stsz = Stsz(s) /\ t.stco = Stco(s, k, limit)
    BY DEF Trak
  <2>2. Len(t.stco.offsets) = c /\ t.stco.co64 = (end + k > limit)
    <3> DEFINE chunks == Chunks(s)
               at(j) == s[chunks[j].first].offset + k
               wide == Last(s).offset + k > limit
    <3>1. DOMAIN chunks = 1 .. Len(chunks) /\ Len(chunks) \in Nat
      <4>1. s \in Seq(Sample) /\ s # <<>>
        BY DEF Track
      <4> QED
        BY <4>1, ChunksAre, GroupedLen
    <3>2. /\ Stco(s, k, limit).offsets = [j \in DOMAIN chunks |-> IF wide THEN at(j) ELSE at(j) % (limit + 1)]
          /\ Stco(s, k, limit).co64 = wide
      BY DEF Stco
    <3> HIDE DEF chunks, at
    <3>3. Len(Stco(s, k, limit).offsets) = Len(chunks)
      BY <3>1, <3>2
    <3> QED
      BY <2>1, <3>2, <3>3 DEF chunks
  <2>3. TrakSize(t) = TrakFixed + (IF t.delay > 0 THEN 3 ELSE 0)
                        + 2 * Len(t.stts) + Len(t.stss) + 3 * Len(t.stsc) + Len(t.stsz.sizes)
                        + Len(t.stco.offsets) * (IF t.stco.co64 THEN 2 ELSE 1)
    BY DEF TrakSize
  <2>4. Narrow(trk) = TrakFixed + (IF s[1].dts > 0 THEN 3 ELSE 0)
       + 2 * Len(Stts(s)) + Len(Stss(trk)) + 3 * Len(Stsc(Chunks(s))) + Len(Stsz(s).sizes)
    BY DEF Narrow
  <2> HIDE DEF t, s, c, end
  <2>5. TrakSize(t) = Narrow(trk) + c * (IF t.stco.co64 THEN 2 ELSE 1)
    BY <2>1, <2>2, <2>3, <2>4
  <2> QED
    BY <2>2, <2>5 DEF t
<1>4. StcoSize(trk, shift, limit) = IF end > limit \/ end + shift <= limit THEN 0 ELSE c
  BY DEF StcoSize
<1> HIDE DEF s, c, end
<1>5. TrakSize(Trak(trk, 0, limit)) = Narrow(trk) + c * (IF end + 0 > limit THEN 2 ELSE 1)
  BY <1>3
<1>6. TrakSize(Trak(trk, shift, limit)) = Narrow(trk) + c * (IF end + shift > limit THEN 2 ELSE 1)
  BY <1>3
<1>7. c * 2 = c + c /\ c * 1 = c
  BY <1>1
<1>8. StcoSize(trk, shift, limit) \in Nat /\ StcoSize(trk, shift, limit) <= c
  BY <1>1, <1>4
<1>9. CASE end > limit
  BY <1>1, <1>2, <1>4, <1>5, <1>6, <1>7, <1>8, <1>9 DEF c, s
<1>10. CASE ~(end > limit) /\ end + shift > limit
  BY <1>1, <1>2, <1>4, <1>5, <1>6, <1>7, <1>8, <1>10 DEF c, s
<1>11. CASE ~(end > limit) /\ ~(end + shift > limit)
  BY <1>1, <1>2, <1>4, <1>5, <1>6, <1>7, <1>8, <1>11 DEF c, s
<1> QED
  BY <1>9, <1>10, <1>11

\* The tracks that have samples.
LEMMA WithSamplesList ==
  ASSUME NEW trs \in Seq(Track)
  PROVE  /\ DOMAIN trs = 1 .. Len(trs) /\ Len(trs) \in Nat
         /\ Lists(WithSamples(trs), {i \in DOMAIN trs : trs[i].samples # <<>>}, Len(trs))
         /\ DOMAIN WithSamples(trs) = 1 .. Len(WithSamples(trs)) /\ Len(WithSamples(trs)) \in Nat
         /\ \A a \in DOMAIN WithSamples(trs) :
              /\ WithSamples(trs)[a] \in DOMAIN trs
              /\ trs[WithSamples(trs)[a]] \in Track
              /\ trs[WithSamples(trs)[a]].samples \in Seq(Sample)
              /\ trs[WithSamples(trs)[a]].samples # <<>>
<1> DEFINE S == {i \in DOMAIN trs : trs[i].samples # <<>>}
           h == WithSamples(trs)
<1>1. DOMAIN trs = 1 .. Len(trs) /\ Len(trs) \in Nat /\ \A i \in DOMAIN trs : trs[i] \in Track
  OBVIOUS
<1>2. Lists(h, S, Len(trs))
  BY <1>1, AscendingLists DEF WithSamples
<1> HIDE DEF h
<1>3. DOMAIN h = 1 .. Len(h) /\ Len(h) \in Nat /\ \A a \in 1 .. Len(h) : h[a] \in S
  <2>1. h \in Seq(Nat) /\ \A a \in 1 .. Len(h) : h[a] \in S
    BY <1>2 DEF Lists
  <2> QED
    BY <2>1
<1>4. \A x \in Track : x.samples \in Seq(Sample)
  BY DEF Track
<1> QED
  BY <1>1, <1>2, <1>3, <1>4 DEF h

\* What the moov box holds.
Traks(trs, shift, limit) ==
  [i \in DOMAIN WithSamples(trs) |-> Trak(trs[WithSamples(trs)[i]], shift, limit)]

\* By how much the tables of the tracks are wider when the samples move by offset.
Grown(trs, offset, limit) == Total([i \in DOMAIN trs |-> StcoSize(trs[i], offset, limit)])

\* What the move adds, track by track.
LEMMA StcoSizeOfAll ==
  ASSUME NEW trs \in Seq(Track), NEW shift \in Nat, NEW limit \in Nat
  PROVE  LET x == [i \in DOMAIN trs |-> StcoSize(trs[i], shift, limit)]
         IN x \in Seq(Nat) /\ Len(x) = Len(trs) /\ \A i \in 1 .. Len(trs) : x[i] = StcoSize(trs[i], shift, limit)
<1> DEFINE x == [i \in DOMAIN trs |-> StcoSize(trs[i], shift, limit)]
<1>1. DOMAIN trs = 1 .. Len(trs) /\ Len(trs) \in Nat
  OBVIOUS
<1>2. ASSUME NEW i \in 1 .. Len(trs)
      PROVE  StcoSize(trs[i], shift, limit) \in Nat
  <2>1. trs[i] \in Track
    OBVIOUS
  <2>2. CASE trs[i].samples = <<>>
    BY <2>2 DEF StcoSize
  <2>3. CASE trs[i].samples # <<>>
    BY <2>1, <2>3, TrakGrows
  <2> QED
    BY <2>2, <2>3
<1>3. x \in [1 .. Len(trs) -> Nat]
  BY <1>1, <1>2
<1>4. \A i \in 1 .. Len(trs) : x[i] = StcoSize(trs[i], shift, limit)
  BY <1>1
<1> HIDE DEF x
<1>5. x \in Seq(Nat) /\ Len(x) = Len(trs)
  BY <1>1, <1>3, SeqFrom
<1> QED
  BY <1>4, <1>5 DEF x

\* The room of the moov box.
BoxSize(trs, shift, limit) ==
  LET t == Traks(trs, shift, limit)
  IN MoovFixed + Total([i \in DOMAIN t |-> TrakSize(t[i])])

\* The move adds to it what it adds to the tracks.
LEMMA BoxSizeIs ==
  ASSUME NEW trs \in Seq(Track), NEW shift \in Nat, NEW limit \in Nat
  PROVE  /\ BoxSize(trs, shift, limit) \in Nat /\ BoxSize(trs, shift, limit) >= 2
         /\ BoxSize(trs, shift, limit) = BoxSize(trs, 0, limit) + Grown(trs, shift, limit)
<1> DEFINE n == Len(trs)
           S == {i \in DOMAIN trs : trs[i].samples # <<>>}
           h == WithSamples(trs)
           size(k, i) == IF trs[i].samples = <<>> THEN 0 ELSE TrakSize(Trak(trs[i], k, limit))
           x(k) == [i \in 1 .. n |-> size(k, i)]
           g == [i \in DOMAIN trs |-> StcoSize(trs[i], shift, limit)]
<1>1. DOMAIN trs = 1 .. n /\ n \in Nat /\ \A i \in 1 .. n : trs[i] \in Track
  OBVIOUS
<1>2. ASSUME NEW k \in Nat, NEW i \in 1 .. n
      PROVE  size(k, i) \in Nat
  <2>1. CASE trs[i].samples = <<>>
    BY <2>1
  <2>2. CASE trs[i].samples # <<>>
    BY <1>1, <2>2, TrakGrows
  <2> QED
    BY <2>1, <2>2
<1>3. \A i \in 1 .. n : size(shift, i) = size(0, i) + StcoSize(trs[i], shift, limit)
  <2> SUFFICES ASSUME NEW i \in 1 .. n
               PROVE  size(shift, i) = size(0, i) + StcoSize(trs[i], shift, limit)
    OBVIOUS
  <2>1. CASE trs[i].samples = <<>>
    BY <2>1 DEF StcoSize
  <2>2. CASE trs[i].samples # <<>>
    BY <1>1, <2>2, TrakGrows
  <2> QED
    BY <2>1, <2>2
<1> HIDE DEF size
<1>4. ASSUME NEW k \in Nat
      PROVE  /\ x(k) \in [1 .. n -> Nat] /\ x(k) \in Seq(Nat) /\ Len(x(k)) = n
             /\ \A i \in 1 .. n : x(k)[i] = size(k, i)
  <2>1. x(k) \in [1 .. n -> Nat]
    BY <1>2
  <2>2. \A i \in 1 .. n : x(k)[i] = size(k, i)
    OBVIOUS
  <2> HIDE DEF x
  <2> QED
    BY <1>1, <2>1, <2>2, SeqFrom
<1>5. ASSUME NEW k \in Nat
      PROVE  BoxSize(trs, k, limit) = MoovFixed + Total(x(k))
  <2> DEFINE t == Traks(trs, k, limit)
  <2>1. DOMAIN t = DOMAIN h /\ \A a \in DOMAIN h : t[a] = Trak(trs[h[a]], k, limit)
    BY DEF Traks
  <2> HIDE DEF t
  <2>2. \A a \in DOMAIN h : h[a] \in 1 .. n /\ trs[h[a]].samples # <<>>
    BY <1>1, WithSamplesList
  <2>3. \A a \in DOMAIN h : x(k)[h[a]] = TrakSize(Trak(trs[h[a]], k, limit))
    BY <2>2 DEF size
  <2>4. [a \in DOMAIN t |-> TrakSize(t[a])] = [a \in DOMAIN h |-> x(k)[h[a]]]
    <3> HIDE DEF x, h
    <3> QED
      BY <2>1, <2>3
  <2>5. \A i \in 1 .. n : i \notin S => x(k)[i] = 0
    BY <1>1 DEF size
  <2>6. Total([a \in DOMAIN h |-> x(k)[h[a]]]) = Total(x(k))
    <3>1. h = Ascending(S, n)
      BY DEF WithSamples
    <3>2. x(k) \in [1 .. n -> Nat]
      BY <1>4
    <3> HIDE DEF x, h, S, n
    <3> QED
      BY <1>1, <2>5, <3>1, <3>2, TotalOfListed
  <2> HIDE DEF x
  <2> QED
    BY <2>4, <2>6 DEF BoxSize, t
<1>6. g \in Seq(Nat) /\ Len(g) = n /\ \A i \in 1 .. n : g[i] = StcoSize(trs[i], shift, limit)
  BY StcoSizeOfAll
<1>7. Grown(trs, shift, limit) = Total(g)
  BY DEF Grown
<1> HIDE DEF x, g
<1>8. Total(x(shift)) = Total(x(0)) + Total(g)
  <2>1. \A i \in 1 .. n : x(shift)[i] = x(0)[i] + g[i]
    BY <1>3, <1>4, <1>6
  <2>2. x(shift) \in Seq(Nat) /\ Len(x(shift)) = n /\ x(0) \in Seq(Nat) /\ Len(x(0)) = n
    BY <1>4
  <2> QED
    BY <1>6, <2>1, <2>2, TotalOfSum
<1>9. Total(x(shift)) \in Nat /\ Total(x(0)) \in Nat /\ Total(g) \in Nat
  BY <1>4, <1>6, TotalIsNat
<1>10. MoovFixed \in Nat /\ MoovFixed >= 2
  BY SizesAssumption
<1> QED
  BY <1>5, <1>7, <1>8, <1>9, <1>10

\* Further moves make the tables wider, up to a bound.
LEMMA GrownRises ==
  ASSUME NEW trs \in Seq(Track), NEW limit \in Nat
  PROVE  /\ \A i \in Nat : Grown(trs, i, limit) \in Nat
         /\ \A i, j \in Nat : i <= j => Grown(trs, i, limit) <= Grown(trs, j, limit)
         /\ \E B \in Nat : \A i \in Nat : Grown(trs, i, limit) <= B
<1> DEFINE n == Len(trs)
           g(k) == [i \in DOMAIN trs |-> StcoSize(trs[i], k, limit)]
           all(i) == IF trs[i].samples = <<>> THEN 0 ELSE Len(Chunks(trs[i].samples))
           b == [i \in 1 .. n |-> all(i)]
<1>1. ASSUME NEW k \in Nat
      PROVE  /\ g(k) \in Seq(Nat) /\ Len(g(k)) = n /\ Grown(trs, k, limit) = Total(g(k))
             /\ \A i \in 1 .. n : g(k)[i] = StcoSize(trs[i], k, limit)
  BY StcoSizeOfAll DEF Grown
<1>2. ASSUME NEW k \in Nat
      PROVE  Grown(trs, k, limit) \in Nat
  <2> HIDE DEF g
  <2> QED
    BY <1>1, TotalIsNat
<1>3. n \in Nat /\ \A i \in 1 .. n : trs[i] \in Track
  OBVIOUS
<1>4. ASSUME NEW j \in Nat, NEW k \in Nat, j <= k
      PROVE  Grown(trs, j, limit) <= Grown(trs, k, limit)
  <2>1. ASSUME NEW i \in 1 .. n
        PROVE  StcoSize(trs[i], j, limit) <= StcoSize(trs[i], k, limit)
    <3> DEFINE s == trs[i].samples
               end == Last(s).offset
               c == Len(Chunks(s))
    <3>1. CASE s = <<>>
      BY <3>1 DEF StcoSize
    <3>2. CASE s # <<>>
      <4>1. c \in Nat
        BY <1>3, <3>2, TablesSize
      <4>2. end \in Nat
        <5>1. s \in Seq(Sample)
          BY <1>3 DEF Track
        <5>2. Len(s) \in 1 .. Len(s) /\ Last(s) = s[Len(s)]
          BY <3>2, <5>1 DEF Last
        <5> QED
          BY <5>1, <5>2, SampleIs
      <4>3. /\ StcoSize(trs[i], j, limit) = IF end > limit \/ end + j <= limit THEN 0 ELSE c
            /\ StcoSize(trs[i], k, limit) = IF end > limit \/ end + k <= limit THEN 0 ELSE c
        BY <3>2 DEF StcoSize
      <4> HIDE DEF end, c
      <4>4. end + j <= end + k
        BY <1>4, <4>2
      <4> QED
        BY <1>4, <4>1, <4>2, <4>3, <4>4
    <3> QED
      BY <3>1, <3>2
  <2>2. \A i \in 1 .. n : g(j)[i] <= g(k)[i]
    BY <1>1, <2>1
  <2> HIDE DEF g
  <2>3. g(j) \in Seq(Nat) /\ g(k) \in Seq(Nat) /\ Len(g(j)) = n /\ Len(g(k)) = n
    BY <1>1
  <2>4. Total(g(j)) <= Total(g(k))
    BY <2>2, <2>3, TotalGrows
  <2> QED
    BY <1>1, <2>4
<1>5. ASSUME NEW i \in 1 .. n
      PROVE  /\ all(i) \in Nat /\ \A k \in Nat : StcoSize(trs[i], k, limit) <= all(i)
  <2>1. CASE trs[i].samples = <<>>
    BY <2>1 DEF StcoSize
  <2>2. CASE trs[i].samples # <<>>
    BY <1>3, <2>2, TablesSize, TrakGrows
  <2> QED
    BY <2>1, <2>2
<1> HIDE DEF all
<1>6. b \in Seq(Nat) /\ Len(b) = n /\ \A i \in 1 .. n : b[i] = all(i)
  <2>1. b \in [1 .. n -> Nat]
    BY <1>5
  <2>2. \A i \in 1 .. n : b[i] = all(i)
    OBVIOUS
  <2> HIDE DEF b
  <2> QED
    BY <1>3, <2>1, <2>2, SeqFrom
<1> HIDE DEF b
<1>7. ASSUME NEW k \in Nat
      PROVE  Grown(trs, k, limit) <= Total(b)
  <2>1. \A i \in 1 .. n : g(k)[i] <= b[i]
    BY <1>1, <1>5, <1>6
  <2> HIDE DEF g
  <2>2. g(k) \in Seq(Nat) /\ Len(g(k)) = n
    BY <1>1
  <2>3. Total(g(k)) <= Total(b)
    BY <1>6, <2>1, <2>2, TotalGrows
  <2> QED
    BY <1>1, <2>3
<1>8. Total(b) \in Nat
  BY <1>6, TotalIsNat
<1> HIDE DEF n
<1> QED
  BY <1>2, <1>4, <1>7, <1>8

\* The widening settles: the tables grow by as much as they need when the samples
\* move by the box and this growth.
LEMMA WideningSettles ==
  ASSUME NEW trs \in Seq(Track), NEW size \in Nat, NEW limit \in Nat
  PROVE  /\ Widening(trs, size, limit) \in Nat
         /\ Grown(trs, size + Widening(trs, size, limit), limit) = Widening(trs, size, limit)
<1> DEFINE grown(sz) == Grown(trs, size + sz, limit)
           Step(u) == [sz \in Nat |-> IF grown(sz) = sz THEN sz ELSE u[grown(sz)]]
           settled == CHOOSE u : u = Step(u)
<1>1. Widening(trs, size, limit) = settled[grown(0)]
  BY DEF Widening, Grown
<1>2. PICK B \in Nat : \A i \in Nat : Grown(trs, i, limit) <= B
  BY GrownRises
<1>3. /\ \A i \in Nat : grown(i) \in Nat /\ grown(i) <= B
      /\ \A i, j \in Nat : i <= j => grown(i) <= grown(j)
  <2>1. \A i \in Nat : Grown(trs, i, limit) \in Nat
    BY GrownRises
  <2>2. \A i, j \in Nat : i <= j => Grown(trs, i, limit) <= Grown(trs, j, limit)
    BY GrownRises
  <2>3. \A i \in Nat : size + i \in Nat
    OBVIOUS
  <2>4. \A i, j \in Nat : i <= j => size + i <= size + j
    OBVIOUS
  <2> QED
    BY <1>2, <2>1, <2>2, <2>3, <2>4
<1> HIDE DEF grown
<1> DEFINE Stop == {x \in Nat : grown(x) = x}
           mu == [x \in Nat |-> IF grown(x) = x THEN 0 ELSE IF grown(x) > x THEN B - x ELSE x]
           next == [x \in Nat |-> grown(x)]
           b == [x \in Nat |-> x]
           c == [x \in Nat |-> [r \in Stop |-> r]]
<1>4. mu \in [Nat -> Nat]
  <2>1. ASSUME NEW x \in Nat, grown(x) > x
        PROVE  B - x \in Nat
    <3>1. grown(x) \in Nat /\ grown(x) <= B
      BY <1>3
    <3> QED
      BY <2>1, <3>1
  <2>2. \A x \in Nat : (IF grown(x) = x THEN 0 ELSE IF grown(x) > x THEN B - x ELSE x) \in Nat
    BY <2>1
  <2> QED
    BY <2>2
<1>5. ASSUME NEW x \in Nat \ Stop
      PROVE  grown(x) \in Nat /\ mu[grown(x)] < mu[x]
  <2> DEFINE y == grown(x)
  <2>1. y \in Nat /\ y <= B /\ y # x /\ grown(y) \in Nat
    BY <1>3
  <2>2. CASE y > x
    <3>1. grown(y) >= y
      BY <1>3, <2>1, <2>2
    <3>2. mu[x] = B - x
      BY <2>1, <2>2
    <3>3. mu[y] = IF grown(y) = y THEN 0 ELSE B - y
      BY <2>1, <3>1
    <3> HIDE DEF mu, next, y
    <3> QED
      BY <2>1, <2>2, <3>2, <3>3 DEF y
  <2>3. CASE ~(y > x)
    <3>1. y < x /\ grown(y) <= y
      <4>1. y < x
        BY <2>1, <2>3
      <4>2. grown(y) <= grown(x)
        BY <1>3, <2>1, <4>1
      <4> QED
        BY <4>1, <4>2
    <3>2. mu[x] = x
      BY <2>1, <2>3
    <3>3. mu[y] = IF grown(y) = y THEN 0 ELSE y
      BY <2>1, <3>1
    <3> HIDE DEF mu, next, y
    <3> QED
      BY <2>1, <3>1, <3>2, <3>3 DEF y
  <2> QED
    BY <2>2, <2>3
<1>6. PICK u \in [Nat -> Stop] : Solves(u, Nat, Stop, next, b, c)
  <2>1. \A x \in Nat \ Stop : next[x] \in Nat /\ mu[next[x]] < mu[x]
    <3> HIDE DEF mu
    <3> QED
      BY <1>5
  <2>2. \A x \in Nat \cap Stop : b[x] \in Stop
    OBVIOUS
  <2>3. \A x \in Nat \ Stop : \A r \in Stop : c[x][r] \in Stop
    OBVIOUS
  <2>4. Stop # {}
    <3> DEFINE T == {x \in Nat : grown(x) <= x}
    <3>1. B \in T
      BY <1>3
    <3>2. PICK m \in T : \A x \in T : m <= x
      <4>1. T \in SUBSET Nat /\ T # {}
        BY <3>1
      <4> HIDE DEF T
      <4> QED
        BY <4>1, MinOfNat
    <3>3. grown(m) \in Nat /\ grown(m) <= m /\ grown(grown(m)) <= grown(m)
      BY <1>3
    <3>4. grown(m) \in T
      BY <3>3
    <3>5. grown(m) = m
      BY <3>2, <3>3, <3>4
    <3> QED
      BY <3>5
  <2>5. Recursion(Nat, mu, Stop, Stop, next, b, c)
    <3> HIDE DEF mu, Stop, next, b, c
    <3> QED
      BY <1>4, <2>1, <2>2, <2>3, <2>4 DEF Recursion
  <2> HIDE DEF mu, Stop, next, b, c
  <2> QED
    BY <2>5, RecursionExists, Zenon
<1>7. \A x \in Nat : u[x] = IF grown(x) = x THEN x ELSE u[grown(x)]
  <2> SUFFICES ASSUME NEW x \in Nat
               PROVE  u[x] = IF grown(x) = x THEN x ELSE u[grown(x)]
    OBVIOUS
  <2>1. u[x] = IF x \in Stop THEN b[x] ELSE c[x][u[next[x]]]
    <3> HIDE DEF b, c, Stop, next
    <3> QED
      BY <1>6 DEF Solves
  <2>2. CASE grown(x) = x
    BY <2>1, <2>2
  <2>3. CASE grown(x) # x
    <3>1. next[x] = grown(x) /\ grown(x) \in Nat /\ x \notin Stop
      BY <1>3, <2>3
    <3>2. u[grown(x)] \in Stop
      BY <3>1
    <3>3. c[x][u[grown(x)]] = u[grown(x)]
      BY <3>1, <3>2
    <3> HIDE DEF Stop, c, next
    <3> QED
      BY <2>1, <2>3, <3>1, <3>3
  <2> QED
    BY <2>2, <2>3
<1>8. u = Step(u)
  <2>1. u = [sz \in Nat |-> u[sz]]
    OBVIOUS
  <2> QED
    BY <1>7, <2>1, Zenon
<1> HIDE DEF mu, next, b, c
<1>9. settled = Step(settled)
  BY <1>8, Zenon
<1> HIDE DEF settled
<1>10. \A x \in Nat : settled[x] = IF grown(x) = x THEN x ELSE settled[grown(x)]
  BY <1>9, Zenon
\* The recursion ends in a number that is settled.
<1> DEFINE T == {x \in Nat : settled[x] \in Stop}
<1>11. \A x \in Nat : x \in T
  <2>1. ASSUME NEW x \in Nat, \A y \in Nat : mu[y] < mu[x] => y \in T
        PROVE  x \in T
    <3>1. CASE grown(x) = x
      BY <1>10, <3>1
    <3>2. CASE grown(x) # x
      <4>1. grown(x) \in T
        BY <1>5, <2>1, <3>2
      <4>2. settled[x] = settled[grown(x)]
        BY <1>10, <3>2
      <4> QED
        BY <4>1, <4>2
    <3> QED
      BY <3>1, <3>2
  <2> DEFINE D == Nat
  <2> HIDE DEF T
  <2>2. mu \in [D -> Nat] /\ \A x \in D : (\A y \in D : mu[y] < mu[x] => y \in T) => x \in T
    BY <1>4, <2>1
  <2> HIDE DEF D
  <2>3. \A x \in D : x \in T
    BY <2>2, ByMeasure
  <2> QED
    BY <2>3 DEF D
<1>12. settled[grown(0)] \in Stop
  BY <1>3, <1>11
<1> DEFINE w == Widening(trs, size, limit)
<1>13. w \in Stop
  BY <1>1, <1>12, Zenon
<1> HIDE DEF w
<1>14. w \in Nat /\ grown(w) = w
  BY <1>13
<1> QED
  BY <1>14 DEF grown, w

-----------------------------------------------------------------------------
(* Where a reader finds the samples of a track.                            *)

\* The samples of a track as they lie in the file.
Placed(s) ==
  /\ s \in Seq(Sample) /\ s # <<>>
  /\ \A i \in 1 .. Len(s) : s[i].bytes # 0
  /\ \A i \in 2 .. Len(s) : s[i - 1].offset <= s[i].offset

\* What that says of each sample.
LEMMA PlacedIs ==
  ASSUME NEW s, Placed(s)
  PROVE  /\ Len(s) \in Nat \ {0} /\ DOMAIN s = 1 .. Len(s)
         /\ \A i \in 1 .. Len(s) : s[i].bytes \in Nat \ {0} /\ s[i].offset \in Nat
<1>1. s \in Seq(Sample) /\ s # <<>> /\ \A i \in 1 .. Len(s) : s[i].bytes # 0
  BY DEF Placed
<1>2. Len(s) \in Nat /\ DOMAIN s = 1 .. Len(s) /\ Len(s) # 0
  BY <1>1
<1>3. \A i \in 1 .. Len(s) : s[i].bytes \in Nat /\ s[i].offset \in Nat
  BY <1>1, SampleIs
<1> QED
  BY <1>1, <1>2, <1>3

\* A later sample does not lie in front of an earlier one.
LEMMA OffsetsRise ==
  ASSUME NEW s, Placed(s), NEW i \in 1 .. Len(s), NEW j \in 1 .. Len(s), i <= j
  PROVE  s[i].offset <= s[j].offset
<1> DEFINE n == Len(s)
           T == {d \in 0 .. n - i : s[i].offset <= s[i + d].offset}
<1>1. n \in Nat \ {0} /\ \A k \in 1 .. n : s[k].offset \in Nat
  BY PlacedIs
<1> HIDE DEF n
<1>2. i \in 1 .. n /\ j \in 1 .. n /\ n - i \in Nat
  BY <1>1 DEF n
<1>3. 0 \in T
  <2>1. i + 0 = i
    BY <1>1, <1>2
  <2> QED
    BY <1>1, <1>2, <2>1
<1>4. ASSUME NEW d \in 1 .. n - i, d - 1 \in T
      PROVE  d \in T
  <2>1. i + d \in 2 .. n /\ i + d \in 1 .. n /\ (i + d) - 1 = i + (d - 1) /\ i + (d - 1) \in 1 .. n
    BY <1>1, <1>2
  <2>2. s[(i + d) - 1].offset <= s[i + d].offset
    BY <2>1 DEF Placed, n
  <2>3. s[i].offset <= s[i + (d - 1)].offset
    BY <1>4
  <2>4. s[i].offset <= s[i + d].offset
    BY <1>1, <1>2, <2>1, <2>2, <2>3
  <2> QED
    BY <1>2, <2>4
<1>5. \A d \in 0 .. n - i : d \in T
  <2> HIDE DEF T
  <2> QED
    BY <1>2, <1>3, <1>4, UpToNumber
<1>6. j - i \in 0 .. n - i /\ i + (j - i) = j
  BY <1>1, <1>2
<1>7. j - i \in T
  <2> HIDE DEF T
  <2> QED
    BY <1>5, <1>6
<1> QED
  BY <1>6, <1>7

\* stsz gives the size of every sample.
LEMMA StszIs ==
  ASSUME NEW s, Placed(s)
  PROVE  \A n \in 1 .. Len(s) : SizeOf(Stsz(s), n) = s[n].bytes
<1>1. /\ Len(s) \in Nat \ {0} /\ DOMAIN s = 1 .. Len(s)
      /\ \A i \in 1 .. Len(s) : s[i].bytes \in Nat \ {0}
  BY PlacedIs
<1>2. CASE \A i \in DOMAIN s : s[i].bytes = s[1].bytes
  <2>1. Stsz(s).size = s[1].bytes
    BY <1>2 DEF Stsz
  <2>2. s[1].bytes # 0
    BY <1>1
  <2> QED
    BY <1>1, <1>2, <2>1, <2>2 DEF SizeOf
<1>3. CASE ~\A i \in DOMAIN s : s[i].bytes = s[1].bytes
  <2>1. Stsz(s).size = 0 /\ Stsz(s).sizes = [i \in DOMAIN s |-> s[i].bytes]
    BY <1>3 DEF Stsz
  <2> QED
    BY <1>1, <2>1 DEF SizeOf
<1> QED
  BY <1>2, <1>3

\* The entry of stsc that chunk c has its count from.
EntryOf(stsc, c) ==
  CHOOSE e \in DOMAIN stsc :
    /\ stsc[e].first_chunk <= c
    /\ e < Len(stsc) => c < stsc[e + 1].first_chunk

\* stsc gives the count of every chunk.
LEMMA StscIs ==
  ASSUME NEW g, Len(g) \in Nat \ {0}, DOMAIN g = 1 .. Len(g), NEW c \in 1 .. Len(g)
  PROVE  Stsc(g)[EntryOf(Stsc(g), c)].count = g[c].count
<1> DEFINE K == Len(g)
           S == { k \in DOMAIN g : k = 1 \/ g[k].count # g[k - 1].count }
           h == Ascending(S, K)
           t == Stsc(g)
           N == Len(h)
           Right(e) == h[e] <= c /\ (e < N => c < h[e + 1])
<1>1. Lists(h, S, K)
  BY AscendingLists
<1>2. t = [e \in DOMAIN h |-> [first_chunk |-> h[e], count |-> g[h[e]].count]]
  BY DEF Stsc
<1> HIDE DEF h, t
<1>3. N \in Nat /\ DOMAIN h = 1 .. N /\ \A e \in 1 .. N : h[e] \in S /\ h[e] \in 1 .. K
  BY <1>1 DEF Lists
<1>4. DOMAIN t = 1 .. N /\ Len(t) = N /\ \A e \in 1 .. N : t[e].first_chunk = h[e] /\ t[e].count = g[h[e]].count
  BY <1>2, <1>3
<1>5. K \in Nat \ {0} /\ c \in 1 .. K /\ 1 \in S
  OBVIOUS
<1> HIDE DEF N, K, S
\* The last entry that does not begin behind the chunk.
<1>6. \E e \in 1 .. N : Right(e)
  <2> DEFINE X == {e \in 1 .. N : h[e] <= c}
             Y == {N - e : e \in X}
  <2>1. PICK a \in 1 .. N : h[a] = 1
    <3>1. 1 \in 1 .. K
      BY <1>5
    <3> QED
      BY <1>1, <1>5, <3>1 DEF Lists, N
  <2>2. a \in X
    BY <1>5, <2>1
  <2>3. Y \in SUBSET Nat /\ Y # {}
    <3>1. \A e \in X : N - e \in Nat
      BY <1>3
    <3>2. N - a \in Y
      BY <2>2
    <3> HIDE DEF X
    <3> QED
      BY <3>1, <3>2
  <2>4. PICK m \in Y : \A y \in Y : m <= y
    <3> HIDE DEF Y
    <3> QED
      BY <2>3, MinOfNat
  <2>5. PICK e \in X : m = N - e
    BY <2>4
  <2>6. e \in 1 .. N /\ h[e] <= c
    BY <2>5
  <2>7. e < N => c < h[e + 1]
    <3> SUFFICES ASSUME e < N, ~(c < h[e + 1])
                 PROVE  FALSE
      OBVIOUS
    <3>1. e + 1 \in 1 .. N
      BY <1>3, <2>6
    <3>2. h[e + 1] \in Nat /\ c \in Nat
      BY <1>3, <1>5, <3>1
    <3>3. e + 1 \in X
      BY <3>1, <3>2
    <3>4. N - (e + 1) \in Y
      <4> HIDE DEF X
      <4> QED
        BY <3>3
    <3>5. m <= N - (e + 1)
      <4> HIDE DEF Y
      <4> QED
        BY <2>4, <3>4
    <3> QED
      BY <1>3, <2>5, <2>6, <3>5
  <2> QED
    BY <2>6, <2>7
\* From where the entry begins to the chunk, every chunk has as many samples.
<1>7. ASSUME NEW e \in 1 .. N, Right(e)
      PROVE  g[h[e]].count = g[c].count
  <2> DEFINE a == h[e]
             T == {d \in 0 .. c - a : g[a + d].count = g[a].count}
  <2>1. a \in 1 .. K /\ a <= c /\ c - a \in Nat
    BY <1>3, <1>5, <1>7
  <2>2. ASSUME NEW i \in 1 .. K, a < i, i <= c, i \in S
        PROVE  FALSE
    <3>1. PICK x \in 1 .. N : h[x] = i
      BY <1>1, <2>2 DEF Lists, N
    <3>2. e < x
      <4> SUFFICES ASSUME x <= e
                   PROVE  FALSE
        BY <1>3
      <4>1. CASE x = e
        BY <2>1, <2>2, <3>1, <4>1
      <4>2. CASE x # e
        <5>1. x < e
          BY <1>3, <4>2
        <5>2. h[x] < h[e]
          BY <1>1, <5>1 DEF Lists, N
        <5> QED
          BY <2>1, <2>2, <3>1, <5>2
      <4> QED
        BY <4>1, <4>2
    <3>3. e < N /\ e + 1 \in 1 .. N
      BY <1>3, <3>2
    <3>4. c < h[e + 1] /\ h[e + 1] \in Nat
      BY <1>3, <1>7, <3>3
    <3>5. CASE x = e + 1
      BY <1>5, <2>2, <3>1, <3>4, <3>5
    <3>6. CASE x # e + 1
      <4>1. e + 1 < x
        BY <1>3, <3>2, <3>6
      <4>2. h[e + 1] < h[x]
        BY <1>1, <3>3, <4>1 DEF Lists, N
      <4> QED
        BY <1>5, <2>2, <3>1, <3>4, <4>2
    <3> QED
      BY <3>5, <3>6
  <2> HIDE DEF a
  <2>3. 0 \in T
    BY <2>1
  <2>4. ASSUME NEW d \in 1 .. c - a, d - 1 \in T
        PROVE  d \in T
    <3>1. /\ a + d \in 1 .. K /\ a < a + d /\ a + d <= c /\ a + d # 1
          /\ (a + d) - 1 = a + (d - 1) /\ d \in 0 .. c - a
      BY <1>5, <2>1
    <3>2. a + d \notin S
      BY <2>2, <3>1
    <3>3. a + d \in DOMAIN g
      BY <3>1 DEF K
    <3>4. g[a + d].count = g[(a + d) - 1].count
      BY <3>1, <3>2, <3>3 DEF S
    <3>5. g[a + (d - 1)].count = g[a].count
      BY <2>4
    <3> QED
      BY <3>1, <3>4, <3>5
  <2>5. \A d \in 0 .. c - a : d \in T
    <3> HIDE DEF T
    <3> QED
      BY <2>1, <2>3, <2>4, UpToNumber
  <2>6. c - a \in T
    <3>1. c - a \in 0 .. c - a
      BY <2>1
    <3> HIDE DEF T
    <3> QED
      BY <2>5, <3>1
  <2>7. a + (c - a) = c
    BY <1>5, <2>1
  <2> QED
    BY <2>6, <2>7 DEF a
<1> DEFINE e == EntryOf(t, c)
<1>8. e \in 1 .. N /\ Right(e)
  <2>1. e = CHOOSE x \in 1 .. N : t[x].first_chunk <= c /\ (x < N => c < t[x + 1].first_chunk)
    BY <1>4 DEF EntryOf
  <2>2. \A x \in 1 .. N : x < N => t[x + 1].first_chunk = h[x + 1]
    BY <1>3, <1>4
  <2>3. \E x \in 1 .. N : t[x].first_chunk <= c /\ (x < N => c < t[x + 1].first_chunk)
    BY <1>4, <1>6, <2>2
  <2> HIDE DEF e
  <2>4. e \in 1 .. N /\ t[e].first_chunk <= c /\ (e < N => c < t[e + 1].first_chunk)
    BY <2>1, <2>3, Zenon
  <2> QED
    BY <1>4, <2>2, <2>4
<1>9. t[e].count = g[c].count
  <2> HIDE DEF e, Right
  <2> QED
    BY <1>4, <1>7, <1>8
<1> QED
  BY <1>9 DEF t

\* In a chunk the samples follow each other.
LEMMA ChunkIs ==
  ASSUME NEW s, Placed(s), NEW g, Grouped(g, Gaps(s), Len(s)), NEW k \in 1 .. Len(g),
         NEW j \in 0 .. g[k].count - 1
  PROVE  s[g[k].first + j].offset
           = s[g[k].first].offset + Total([i \in 1 .. j |-> s[g[k].first - 1 + i].bytes])
<1> DEFINE n == Len(s)
           a == g[k].first
           m == g[k].count
           x == [i \in 1 .. j |-> s[a - 1 + i].bytes]
           f == [i \in 0 .. j |-> s[a + i].offset - s[a].offset]
<1>1. /\ n \in Nat \ {0} /\ DOMAIN s = 1 .. n
      /\ \A i \in 1 .. n : s[i].bytes \in Nat \ {0} /\ s[i].offset \in Nat
  BY PlacedIs
<1>2. /\ a \in 1 .. n /\ m \in Nat \ {0} /\ a + m <= n + 1
      /\ \A i \in 1 .. n : a < i /\ i < a + m => i \notin Gaps(s)
  <2>1. g[k] \in [first : Nat, count : Nat \ {0}]
    BY GroupIn
  <2>2. m \in Nat \ {0}
    BY <2>1
  <2> HIDE DEF n, a, m
  <2>3. /\ a \in 1 .. n /\ a + m = StartOf(g, n, k + 1)
        /\ StartOf(g, n, k + 1) \in 2 .. n + 1
        /\ \A i \in 1 .. n : a < i /\ i < StartOf(g, n, k + 1) => i \notin Gaps(s)
    BY DEF Grouped, n, a, m
  <2> QED
    BY <1>1, <2>2, <2>3
<1>3. j \in Nat /\ j < m
  BY <1>2
<1> HIDE DEF n, a, m
<1>4. \A i \in 0 .. j : a + i \in 1 .. n /\ s[a + i].offset \in Nat
  <2>1. \A i \in 0 .. j : a + i \in 1 .. n
    BY <1>1, <1>2, <1>3
  <2> QED
    BY <1>1, <2>1
<1>5. x \in [1 .. j -> Nat] /\ \A i \in 1 .. j : x[i] = s[a - 1 + i].bytes
  <2>1. \A i \in 1 .. j : a - 1 + i \in 1 .. n
    BY <1>1, <1>2, <1>3
  <2> QED
    BY <1>1, <2>1
<1>6. f \in [0 .. j -> Nat]
  <2>1. ASSUME NEW i \in 0 .. j
        PROVE  s[a + i].offset - s[a].offset \in Nat
    <3>1. a \in 1 .. Len(s) /\ a + i \in 1 .. Len(s) /\ a <= a + i
      BY <1>2, <1>4 DEF n
    <3>2. s[a].offset <= s[a + i].offset
      BY <3>1, OffsetsRise
    <3>3. s[a].offset \in Nat /\ s[a + i].offset \in Nat
      BY <1>1, <1>2, <1>4
    <3> QED
      BY <3>2, <3>3
  <2> QED
    BY <2>1
<1>7. f[0] = 0
  <2>1. a + 0 = a /\ s[a].offset \in Nat
    BY <1>1, <1>2
  <2>2. f[0] = s[a + 0].offset - s[a].offset
    BY <1>3
  <2> QED
    BY <2>1, <2>2
<1>8. ASSUME NEW i \in 1 .. j
      PROVE  f[i] = f[i - 1] + x[i]
  <2>1. /\ a + i \in 1 .. n /\ a < a + i /\ a + i < a + m /\ a + i # 1 /\ (a + i) - 1 = a + (i - 1)
        /\ a - 1 + i = a + (i - 1) /\ i - 1 \in 0 .. j /\ i \in 0 .. j
    BY <1>1, <1>2, <1>3, <1>4
  <2>2. a + i \notin Gaps(s)
    BY <1>2, <2>1
  <2>3. s[(a + i) - 1].offset + s[(a + i) - 1].bytes = s[a + i].offset
    BY <1>1, <2>1, <2>2 DEF Gaps
  <2>4. f[i] = s[a + i].offset - s[a].offset /\ f[i - 1] = s[a + (i - 1)].offset - s[a].offset
    BY <2>1
  <2>5. x[i] = s[a + (i - 1)].bytes
    BY <1>5, <2>1
  <2> DEFINE p == s[a + (i - 1)].offset
             q == s[a + i].offset
             r == s[a].offset
             b == s[a + (i - 1)].bytes
  <2>6. p \in Nat /\ q \in Nat /\ r \in Nat /\ b \in Nat
    <3>1. a + (i - 1) \in 1 .. n /\ a + i \in 1 .. n /\ a \in 1 .. n
      BY <1>2, <1>4, <2>1
    <3> QED
      BY <1>1, <3>1
  <2>7. p + b = q /\ f[i] = q - r /\ f[i - 1] = p - r /\ x[i] = b
    BY <2>1, <2>3, <2>4, <2>5
  <2> HIDE DEF p, q, r, b, f, x
  <2> QED
    BY <2>6, <2>7
<1>9. f[j] = s[a + j].offset - s[a].offset
  BY <1>3
<1> HIDE DEF x, f
<1>10. x \in Seq(Nat) /\ Len(x) = j
  BY <1>3, <1>5, SeqFrom
<1>11. Total(x) = f[j]
  BY <1>6, <1>7, <1>8, <1>10, TotalIs
<1>12. s[a + j].offset \in Nat /\ s[a].offset \in Nat
  <2>1. j \in 0 .. j
    BY <1>3
  <2> QED
    BY <1>1, <1>2, <1>4, <2>1
<1>13. s[a + j].offset = s[a].offset + Total(x)
  BY <1>9, <1>11, <1>12
<1> QED
  BY <1>13 DEF a, x

\* A number that fits keeps its value.
LEMMA SmallMod ==
  ASSUME NEW l \in Nat, NEW x \in Nat, x <= l
  PROVE  x % (l + 1) = x
OBVIOUS

\* stco gives where every chunk begins, however wide its entries are.
LEMMA StcoIs ==
  ASSUME NEW s, Placed(s), NEW shift \in Nat, NEW limit \in Nat
  PROVE  LET g == Chunks(s)
             o == Stco(s, shift, limit).offsets
         IN Len(o) = Len(g) /\ \A k \in 1 .. Len(g) : o[k] = s[g[k].first].offset + shift
<1> DEFINE g == Chunks(s)
           o == Stco(s, shift, limit).offsets
           wide == Last(s).offset + shift > limit
           at(k) == s[g[k].first].offset + shift
<1>1. Grouped(g, Gaps(s), Len(s))
  BY ChunksAre DEF Placed
<1>2. o = [k \in DOMAIN g |-> IF wide THEN at(k) ELSE at(k) % (limit + 1)]
  BY DEF Stco
<1>3. DOMAIN g = 1 .. Len(g) /\ Len(g) \in Nat /\ \A k \in 1 .. Len(g) : g[k].first \in 1 .. Len(s)
  BY <1>1, GroupedLen DEF Grouped
<1>4. Last(s) = s[Len(s)] /\ Len(s) \in 1 .. Len(s)
  BY PlacedIs DEF Last
<1> HIDE DEF g, o
<1>5. ASSUME NEW k \in 1 .. Len(g)
      PROVE  at(k) \in Nat /\ at(k) <= Last(s).offset + shift
  <2>1. g[k].first \in 1 .. Len(s) /\ g[k].first <= Len(s) /\ Len(s) \in 1 .. Len(s)
    BY <1>3, <1>4
  <2>2. s[g[k].first].offset <= s[Len(s)].offset
    BY <2>1, OffsetsRise
  <2>3. s[g[k].first].offset \in Nat /\ s[Len(s)].offset \in Nat
    BY <2>1, PlacedIs
  <2> QED
    BY <1>4, <2>2, <2>3
<1>6. Last(s).offset \in Nat
  BY <1>4, PlacedIs
<1> HIDE DEF at
<1>7. ASSUME NEW k \in 1 .. Len(g)
      PROVE  o[k] = at(k)
  <2>1. o[k] = IF wide THEN at(k) ELSE at(k) % (limit + 1)
    BY <1>2, <1>3
  <2>2. CASE wide
    BY <2>1, <2>2
  <2>3. CASE ~wide
    <3>1. at(k) \in Nat /\ at(k) <= limit
      BY <1>5, <1>6, <2>3
    <3>2. at(k) % (limit + 1) = at(k)
      BY <3>1, SmallMod
    <3> QED
      BY <2>1, <2>3, <3>2
  <2> QED
    BY <2>2, <2>3
<1>8. Len(o) = Len(g)
  BY <1>2, <1>3
<1> QED
  BY <1>7, <1>8 DEF g, o, at

\* at is where the first n samples lie in a file in which all moved by shift.
Located(at, s, n, shift) ==
  /\ at \in Seq(Nat) /\ Len(at) = n
  /\ \A i \in 1 .. n : at[i] = s[i].offset + shift

\* The sizes that a reader sees are those of the samples.
Sized(stsz, s) == \A n \in 1 .. Len(s) : SizeOf(stsz, n) = s[n].bytes

\* One more chunk, of which the reader knows where it begins.
LEMMA LocatedMore ==
  ASSUME NEW s, Placed(s), NEW g, Grouped(g, Gaps(s), Len(s)), NEW k \in 1 .. Len(g),
         NEW shift \in Nat, NEW stsz, Sized(stsz, s),
         NEW at, Located(at, s, g[k].first - 1, shift),
         NEW o, o = s[g[k].first].offset + shift
  PROVE  Located(at \o [j \in 1 .. g[k].count |->
                          o + Total([i \in 1 .. j - 1 |-> SizeOf(stsz, Len(at) + i)])],
                 s, g[k].first + g[k].count - 1, shift)
<1> DEFINE n == Len(s)
           a == g[k].first
           m == g[k].count
           more == [j \in 1 .. m |-> o + Total([i \in 1 .. j - 1 |-> SizeOf(stsz, Len(at) + i)])]
           r == at \o more
<1>1. n \in Nat \ {0} /\ \A i \in 1 .. n : s[i].offset \in Nat
  BY PlacedIs
<1>2. a \in 1 .. n /\ m \in Nat \ {0} /\ a + m <= n + 1
  <2>1. g[k] \in [first : Nat, count : Nat \ {0}]
    BY GroupIn
  <2>2. m \in Nat \ {0}
    BY <2>1
  <2> HIDE DEF n, a, m
  <2>3. /\ a \in 1 .. n /\ a + m = StartOf(g, n, k + 1)
        /\ StartOf(g, n, k + 1) \in 2 .. n + 1
    BY DEF Grouped, n, a, m
  <2> QED
    BY <1>1, <2>2, <2>3
<1>3. at \in Seq(Nat) /\ Len(at) = a - 1
  BY DEF Located
<1> HIDE DEF n, a, m
<1>4. ASSUME NEW j \in 1 .. m
      PROVE  o + Total([i \in 1 .. j - 1 |-> SizeOf(stsz, Len(at) + i)])
               = s[a + (j - 1)].offset + shift
  <2>1. PICK d \in 0 .. m - 1 : d = j - 1
    BY <1>2
  <2> DEFINE x == [i \in 1 .. j - 1 |-> SizeOf(stsz, Len(at) + i)]
             y == [i \in 1 .. d |-> s[a - 1 + i].bytes]
  <2>2. \A i \in 1 .. d : Len(at) + i = a - 1 + i /\ a - 1 + i \in 1 .. n
    BY <1>1, <1>2, <1>3
  <2>3. \A i \in 1 .. d : SizeOf(stsz, Len(at) + i) = s[a - 1 + i].bytes
    BY <2>2 DEF Sized, n
  <2>4. x = y
    BY <2>1, <2>3
  <2>5. s[a + d].offset = s[a].offset + Total(y)
    <3>1. d \in 0 .. g[k].count - 1
      BY <2>1 DEF m
    <3>2. s[g[k].first + d].offset = s[g[k].first].offset
            + Total([i \in 1 .. d |-> s[g[k].first - 1 + i].bytes])
      BY <3>1, ChunkIs
    <3> QED
      BY <3>2 DEF a
  <2>6. a + d \in 1 .. n /\ d \in Nat
    BY <1>1, <1>2
  <2> DEFINE p == s[a + d].offset
             q == s[a].offset
             z == Total(y)
  <2>7. p \in Nat /\ q \in Nat
    BY <1>1, <1>2, <2>6
  <2>8. y \in Seq(Nat)
    <3>1. \A i \in 1 .. d : s[a - 1 + i].bytes \in Nat
      BY <2>2, PlacedIs DEF n
    <3>2. y \in [1 .. d -> Nat]
      BY <3>1
    <3> HIDE DEF y
    <3> QED
      BY <2>6, <3>2, SeqFrom
  <2>9. z \in Nat
    <3> HIDE DEF y
    <3> QED
      BY <2>8, TotalIsNat
  <2>10. o = q + shift /\ p = q + z /\ Total(x) = z
    BY <2>4, <2>5 DEF a
  <2> HIDE DEF p, q, z, x, y
  <2>11. o + Total(x) = p + shift
    BY <2>7, <2>9, <2>10
  <2> QED
    BY <2>1, <2>11 DEF p, x
<1>5. \A j \in 1 .. m : a + (j - 1) \in 1 .. n /\ s[a + (j - 1)].offset \in Nat
  <2>1. \A j \in 1 .. m : a + (j - 1) \in 1 .. n
    BY <1>1, <1>2
  <2> QED
    BY <1>1, <2>1
<1>6. more \in Seq(Nat) /\ Len(more) = m /\ \A j \in 1 .. m : more[j] = s[a + (j - 1)].offset + shift
  <2>1. \A j \in 1 .. m : more[j] = s[a + (j - 1)].offset + shift
    BY <1>4
  <2>2. more \in [1 .. m -> Nat]
    <3>1. \A j \in 1 .. m : s[a + (j - 1)].offset + shift \in Nat
      BY <1>5
    <3>2. \A j \in 1 .. m : more[j] \in Nat
      BY <2>1, <3>1
    <3> QED
      BY <3>2
  <2> HIDE DEF more
  <2> QED
    BY <1>2, <2>1, <2>2, SeqFrom
<1> HIDE DEF more
<1>7. /\ r \in Seq(Nat) /\ Len(r) = a - 1 + m
      /\ \A i \in 1 .. a - 1 : r[i] = at[i]
      /\ \A j \in 1 .. m : r[a - 1 + j] = more[j]
  <2>1. /\ at \o more \in Seq(Nat) /\ Len(at \o more) = Len(at) + Len(more)
        /\ \A i \in 1 .. Len(at) : (at \o more)[i] = at[i]
        /\ \A i \in 1 .. Len(more) : (at \o more)[Len(at) + i] = more[i]
    <3>1. at \in Seq(Nat) /\ more \in Seq(Nat)
      BY <1>3, <1>6
    <3> QED
      BY <3>1, ConcatIs
  <2> QED
    BY <1>3, <1>6, <2>1
<1> HIDE DEF r
<1>8. a - 1 + m = a + m - 1 /\ a + m - 1 \in Nat
  BY <1>1, <1>2
<1>9. ASSUME NEW i \in 1 .. a + m - 1
      PROVE  r[i] = s[i].offset + shift
  <2>1. CASE i < a
    <3>1. i \in 1 .. a - 1
      BY <1>2, <2>1
    <3>2. at[i] = s[i].offset + shift
      BY <3>1 DEF Located, a
    <3> QED
      BY <1>7, <3>1, <3>2
  <2>2. CASE ~(i < a)
    <3> DEFINE j == i - (a - 1)
    <3>1. j \in 1 .. m /\ a - 1 + j = i /\ a + (j - 1) = i
      BY <1>1, <1>2, <2>2
    <3> HIDE DEF j
    <3> QED
      BY <1>6, <1>7, <3>1
  <2> QED
    BY <2>1, <2>2
<1>10. Located(r, s, a + m - 1, shift)
  BY <1>7, <1>8, <1>9 DEF Located
<1> QED
  BY <1>10 DEF r, a, m, more

\* Where they lie, they lie in one way only.
LEMMA LocatedAlone ==
  ASSUME NEW s, NEW n, NEW shift, NEW p, Located(p, s, n, shift), NEW q, Located(q, s, n, shift)
  PROVE  p = q
<1>1. p \in Seq(Nat) /\ Len(p) = n /\ q \in Seq(Nat) /\ Len(q) = n
  BY DEF Located
<1>2. \A i \in 1 .. n : p[i] = q[i]
  BY DEF Located
<1> QED
  BY <1>1, <1>2

\* What a track box says about where its samples are.
PlacesOfTrak(t, s, shift, limit) ==
  t.stsc = Stsc(Chunks(s)) /\ t.stsz = Stsz(s) /\ t.stco = Stco(s, shift, limit)

\* A reader finds every sample where it is, moved by what stco was written with.
LEMMA OffsetsOfTrak ==
  ASSUME NEW s, Placed(s), NEW shift \in Nat, NEW limit \in Nat,
         NEW t, PlacesOfTrak(t, s, shift, limit)
  PROVE  Located(Offsets(t), s, Len(s), shift)
<1> DEFINE n == Len(s)
           g == Chunks(s)
           o == t.stco.offsets
           K == Len(o)
           pick(c) == CHOOSE e \in DOMAIN t.stsc :
                        /\ t.stsc[e].first_chunk <= c
                        /\ e < Len(t.stsc) => c < t.stsc[e + 1].first_chunk
           count(c) == t.stsc[pick(c)].count
           more(c, found) == found \o [k \in 1 .. count(c) |->
                               o[c] + Total([j \in 1 .. k - 1 |-> SizeOf(t.stsz, Len(found) + j)])]
           Step(u) == [c \in 0 .. K |->
             IF c = 0 THEN <<>>
             ELSE LET found == u[c - 1]
                  IN found \o [k \in 1 .. count(c) |->
                       o[c] + Total([j \in 1 .. k - 1 |-> SizeOf(t.stsz, Len(found) + j)])]]
           upTo == CHOOSE u : u = Step(u)
<1>1. Offsets(t) = upTo[K]
  BY DEF Offsets
<1>2. /\ n \in Nat \ {0} /\ Grouped(g, Gaps(s), n) /\ Len(g) \in Nat \ {0} /\ DOMAIN g = 1 .. Len(g)
  <2>1. n \in Nat \ {0}
    BY PlacedIs
  <2>2. Grouped(g, Gaps(s), n)
    BY ChunksAre DEF Placed
  <2> HIDE DEF g, n
  <2> QED
    BY <2>1, <2>2, GroupedLen DEF Grouped
<1>3. /\ K = Len(g)
      /\ \A c \in 1 .. K : o[c] = s[g[c].first].offset + shift
  BY StcoIs DEF PlacesOfTrak
<1>4. \A c \in 1 .. K : count(c) = g[c].count
  <2>1. \A c \in 1 .. K : count(c) = t.stsc[EntryOf(t.stsc, c)].count
    BY DEF EntryOf
  <2>2. t.stsc = Stsc(g)
    BY DEF PlacesOfTrak
  <2> HIDE DEF g, K, count
  <2> QED
    BY <1>2, <1>3, <2>1, <2>2, StscIs
<1>5. Sized(t.stsz, s)
  BY StszIs DEF PlacesOfTrak, Sized
<1> HIDE DEF count, g, K, o, n
<1>6. \A c \in 1 .. K : /\ g[c].count \in Nat \ {0} /\ g[c].first \in 1 .. n
                        /\ g[c].first = StartOf(g, n, c)
                        /\ g[c].first + g[c].count = StartOf(g, n, c + 1)
                        /\ o[c] \in Nat
  <2> SUFFICES ASSUME NEW c \in 1 .. K
               PROVE  /\ g[c].count \in Nat \ {0} /\ g[c].first \in 1 .. n
                      /\ g[c].first = StartOf(g, n, c)
                      /\ g[c].first + g[c].count = StartOf(g, n, c + 1)
                      /\ o[c] \in Nat
    OBVIOUS
  <2>1. c \in 1 .. Len(g)
    BY <1>3
  <2>2. g[c] \in [first : Nat, count : Nat \ {0}]
    BY <1>2, <2>1, GroupIn
  <2>3. g[c].first \in 1 .. n /\ g[c].first + g[c].count = StartOf(g, n, c + 1)
    BY <1>2, <2>1 DEF Grouped
  <2>4. g[c].first = StartOf(g, n, c)
    BY <1>2, <2>1 DEF StartOf
  <2>5. s[g[c].first].offset \in Nat
    BY <2>3, PlacedIs DEF n
  <2> QED
    BY <1>3, <2>2, <2>3, <2>4, <2>5
<1>7. K \in Nat \ {0}
  BY <1>2, <1>3
<1>8. ASSUME NEW c \in 1 .. K, NEW found, Located(found, s, StartOf(g, n, c) - 1, shift)
      PROVE  Located(more(c, found), s, StartOf(g, n, c + 1) - 1, shift)
  <2>1. c \in 1 .. Len(g)
    BY <1>3
  <2>2. /\ Located(found, s, g[c].first - 1, shift) /\ Grouped(g, Gaps(s), Len(s))
        /\ o[c] = s[g[c].first].offset + shift
    BY <1>2, <1>3, <1>6, <1>8 DEF n
  <2> DEFINE x == o[c]
             y == t.stsz
  <2>3. x = s[g[c].first].offset + shift /\ Sized(y, s)
    BY <1>5, <2>2
  <2> HIDE DEF x, y
  <2>4. Located(found \o [j \in 1 .. g[c].count |->
                            x + Total([i \in 1 .. j - 1 |-> SizeOf(y, Len(found) + i)])],
                 s, g[c].first + g[c].count - 1, shift)
    BY <2>1, <2>2, <2>3, LocatedMore
  <2>5. more(c, found) = found \o [j \in 1 .. g[c].count |->
                            x + Total([i \in 1 .. j - 1 |-> SizeOf(y, Len(found) + i)])]
    BY <1>4 DEF x, y
  <2>6. g[c].first + g[c].count - 1 = StartOf(g, n, c + 1) - 1
    BY <1>6
  <2> HIDE DEF more
  <2> QED
    BY <2>4, <2>5, <2>6
\* The recursion has a solution, what it should be.
<1> DEFINE end(c) == StartOf(g, n, c + 1) - 1
           u == [c \in 0 .. K |-> [i \in 1 .. end(c) |-> s[i].offset + shift]]
<1>9. \A c \in 0 .. K : end(c) \in 0 .. n
  <2> SUFFICES ASSUME NEW c \in 0 .. K
               PROVE  end(c) \in 0 .. n
    OBVIOUS
  <2>1. CASE c = 0
    <3>1. StartOf(g, n, 0 + 1) = 1
      BY <1>2 DEF Grouped
    <3> QED
      BY <1>2, <2>1, <3>1
  <2>2. CASE c # 0
    <3>1. c \in 1 .. Len(g)
      BY <1>3, <2>2
    <3>2. StartOf(g, n, c + 1) \in 2 .. n + 1
      BY <1>2, <3>1 DEF Grouped
    <3> QED
      BY <1>2, <3>2
  <2> QED
    BY <2>1, <2>2
<1>10. end(0) = 0 /\ \A c \in 1 .. K : end(c - 1) = StartOf(g, n, c) - 1
  <2>1. StartOf(g, n, 0 + 1) = 1
    BY <1>2 DEF Grouped
  <2>2. \A c \in 1 .. K : (c - 1) + 1 = c
    BY <1>7
  <2> QED
    BY <2>1, <2>2
<1> HIDE DEF end, more
<1>11. ASSUME NEW c \in 0 .. K
       PROVE  Located(u[c], s, end(c), shift)
  <2> DEFINE v == [i \in 1 .. end(c) |-> s[i].offset + shift]
  <2>1. u[c] = v
    OBVIOUS
  <2>2. end(c) \in Nat
    BY <1>2, <1>9
  <2>3. \A i \in 1 .. end(c) : s[i].offset + shift \in Nat
    <3>1. \A i \in 1 .. end(c) : i \in 1 .. Len(s)
      BY <1>2, <1>9 DEF n
    <3>2. \A i \in 1 .. end(c) : s[i].offset \in Nat
      BY <3>1, PlacedIs
    <3> QED
      BY <3>2
  <2>4. v \in [1 .. end(c) -> Nat] /\ \A i \in 1 .. end(c) : v[i] = s[i].offset + shift
    BY <2>3
  <2> HIDE DEF v
  <2>5. v \in Seq(Nat) /\ Len(v) = end(c)
    BY <2>2, <2>4, SeqFrom
  <2> QED
    BY <2>1, <2>4, <2>5 DEF Located
<1> DEFINE after(c, w) == IF c = 0 THEN <<>> ELSE more(c, w[c - 1])
<1>12. \A c \in 0 .. K : u[c] = after(c, u)
  <2> SUFFICES ASSUME NEW c \in 0 .. K
               PROVE  u[c] = after(c, u)
    OBVIOUS
  <2>1. CASE c = 0
    <3>1. Located(u[c], s, 0, shift)
      BY <1>10, <1>11, <2>1
    <3> HIDE DEF u
    <3>2. u[c] \in Seq(Nat) /\ Len(u[c]) = 0
      BY <3>1 DEF Located
    <3>3. u[c] = <<>>
      BY <3>2
    <3> QED
      BY <2>1, <3>3
  <2>2. CASE c # 0
    <3>1. c \in 1 .. K /\ c - 1 \in 0 .. K
      BY <1>7, <2>2
    <3> HIDE DEF u
    <3>2. Located(u[c - 1], s, StartOf(g, n, c) - 1, shift)
      BY <1>10, <1>11, <3>1
    <3>3. Located(more(c, u[c - 1]), s, end(c), shift)
      BY <1>8, <3>1, <3>2 DEF end
    <3>4. Located(u[c], s, end(c), shift)
      BY <1>11
    <3>5. u[c] = more(c, u[c - 1])
      BY <3>3, <3>4, LocatedAlone
    <3> QED
      BY <2>2, <3>5
  <2> QED
    BY <2>1, <2>2
<1>13. \A w : Step(w) = [c \in 0 .. K |-> after(c, w)]
  BY DEF more
<1>14. u = Step(u)
  <2>1. u = [c \in 0 .. K |-> u[c]]
    OBVIOUS
  <2> HIDE DEF u, Step, after
  <2>2. [c \in 0 .. K |-> u[c]] = [c \in 0 .. K |-> after(c, u)]
    BY <1>12
  <2> QED
    BY <1>13, <2>1, <2>2, Zenon
<1> HIDE DEF u, Step
<1>15. upTo = Step(upTo)
  BY <1>14, Zenon
<1> HIDE DEF upTo
<1>16. upTo = [c \in 0 .. K |-> after(c, upTo)]
  BY <1>13, <1>15, Zenon
<1>17. upTo[0] = <<>> /\ \A c \in 1 .. K : upTo[c] = more(c, upTo[c - 1])
  <2>1. \A c \in 0 .. K : upTo[c] = IF c = 0 THEN <<>> ELSE more(c, upTo[c - 1])
    BY <1>16, Zenon
  <2>2. 0 \in 0 .. K /\ \A c \in 1 .. K : c \in 0 .. K /\ c # 0
    BY <1>7
  <2> QED
    BY <2>1, <2>2
<1> HIDE DEF after
<1> DEFINE T == {c \in 0 .. K : Located(upTo[c], s, end(c), shift)}
<1>18. \A c \in 0 .. K : c \in T
  <2>1. 0 \in T
    <3>1. Located(<<>>, s, 0, shift)
      BY DEF Located
    <3> QED
      BY <1>7, <1>10, <1>17, <3>1
  <2>2. ASSUME NEW c \in 1 .. K, c - 1 \in T
        PROVE  c \in T
    <3>1. Located(upTo[c - 1], s, StartOf(g, n, c) - 1, shift)
      BY <1>10, <2>2
    <3>2. Located(upTo[c], s, end(c), shift)
      BY <1>8, <1>17, <3>1 DEF end
    <3> QED
      BY <3>2
  <2> HIDE DEF T
  <2> QED
    BY <1>7, <2>1, <2>2, UpToNumber
<1>19. K \in T
  <2> HIDE DEF T
  <2> QED
    BY <1>7, <1>18
<1>20. end(K) = n
  <2>1. StartOf(g, n, K + 1) = n + 1
    BY <1>3, <1>7 DEF StartOf
  <2> QED
    BY <1>2, <2>1 DEF end
<1> QED
  BY <1>1, <1>19, <1>20 DEF n

-----------------------------------------------------------------------------
(* The finished recording.                                                 *)

\* The word a moov box begins with.
MoovWord(trs, shift, limit) ==
  [box |-> "moov", size |-> BoxSize(trs, shift, limit), traks |-> Traks(trs, shift, limit)]

\* The other boxes.
Boxes == {"ftyp", "free", "mdat", "-"}

\* The words of a file.
Word ==
  [box : Boxes, size : Nat] \cup [box : {"data"}, size : {0}, of : Nat \X Nat \X Nat]
    \cup {MoovWord(trs, shift, limit) : trs \in Seq(Track), shift \in Nat, limit \in Nat}

\* What is in that set.
LEMMA WordIs ==
  /\ \A b \in Boxes, n \in Nat : [box |-> b, size |-> n] \in Word
  /\ \A t, n, i \in Nat : Datum(t, n, i) \in Word
  /\ \A trs \in Seq(Track), shift, limit \in Nat : MoovWord(trs, shift, limit) \in Word
  /\ \A c \in Word : c.size \in Nat
<1>1. \A b \in Boxes, n \in Nat : [box |-> b, size |-> n] \in Word
  BY DEF Word
<1>2. \A t, n, i \in Nat : Datum(t, n, i) \in Word
  <2>1. \A t, n, i \in Nat : Datum(t, n, i) \in [box : {"data"}, size : {0}, of : Nat \X Nat \X Nat]
    BY DEF Datum
  <2> QED
    BY <2>1 DEF Word
<1>3. \A trs \in Seq(Track), shift, limit \in Nat : MoovWord(trs, shift, limit) \in Word
  <2> SUFFICES ASSUME NEW trs \in Seq(Track), NEW shift \in Nat, NEW limit \in Nat
               PROVE  MoovWord(trs, shift, limit) \in Word
    OBVIOUS
  <2> DEFINE M == {MoovWord(r, s, l) : r \in Seq(Track), s \in Nat, l \in Nat}
  <2>1. MoovWord(trs, shift, limit) \in M
    OBVIOUS
  <2> HIDE DEF M
  <2>2. M \subseteq Word
    BY DEF Word, M
  <2> QED
    BY <2>1, <2>2
<1>4. ASSUME NEW c \in Word
      PROVE  c.size \in Nat
  <2>1. CASE c \in [box : Boxes, size : Nat]
    BY <2>1
  <2>2. CASE c \in [box : {"data"}, size : {0}, of : Nat \X Nat \X Nat]
    BY <2>2
  <2>3. CASE c \in {MoovWord(trs, shift, limit) : trs \in Seq(Track), shift \in Nat, limit \in Nat}
    <3>1. PICK trs \in Seq(Track), shift \in Nat, limit \in Nat : c = MoovWord(trs, shift, limit)
      BY <2>3
    <3>2. c.size = BoxSize(trs, shift, limit)
      BY <3>1 DEF MoovWord
    <3> QED
      BY <3>2, BoxSizeIs
  <2> QED
    BY <1>4, <2>1, <2>2, <2>3 DEF Word
<1> QED
  BY <1>1, <1>2, <1>3, <1>4

\* Filler is words.
LEMMA FillerIs ==
  ASSUME NEW n \in Nat
  PROVE  Filler(n) \in Seq(Word) /\ Len(Filler(n)) = n
<1>1. [box |-> "-", size |-> 0] \in Word
  BY WordIs DEF Boxes
<1> DEFINE g == Filler(n)
<1>2. g \in [1 .. n -> Word]
  <2> DEFINE w == [box |-> "-", size |-> 0]
  <2>1. g = [i \in 1 .. n |-> w]
    BY DEF Filler
  <2>2. w \in Word
    BY <1>1
  <2> HIDE DEF w, g
  <2> QED
    BY <2>1, <2>2
<1> HIDE DEF g
<1> QED
  BY <1>2, SeqFrom DEF g

\* The header of a box is two words.
LEMMA HeaderIs ==
  ASSUME NEW b \in Boxes, NEW n \in Nat
  PROVE  /\ Header(b, n) \in Seq(Word) /\ Len(Header(b, n)) = 2
         /\ Header(b, n)[1] = [box |-> b, size |-> n]
<1> DEFINE x == <<[box |-> b, size |-> n]>>
           y == Filler(1)
<1>1. x \in Seq(Word) /\ Len(x) = 1 /\ x[1] = [box |-> b, size |-> n]
  BY WordIs
<1>2. y \in Seq(Word) /\ Len(y) = 1
  <2>1. \A i \in Nat : Filler(i) \in Seq(Word) /\ Len(Filler(i)) = i
    BY FillerIs
  <2> QED
    BY <2>1
<1> HIDE DEF x, y
<1>3. /\ x \o y \in Seq(Word) /\ Len(x \o y) = Len(x) + Len(y)
      /\ \A k \in 1 .. Len(x) : (x \o y)[k] = x[k]
  <2>1. x \in Seq(Word) /\ y \in Seq(Word)
    BY <1>1, <1>2
  <2> QED
    BY <2>1, ConcatIs
<1>4. Header(b, n) = x \o y
  BY DEF Header, x, y
<1> QED
  BY <1>1, <1>2, <1>3, <1>4

\* A moov box is as long as it says.
LEMMA MoovBoxIs ==
  ASSUME NEW trs \in Seq(Track), NEW shift \in Nat, NEW limit \in Nat
  PROVE  /\ MoovBox(trs, shift, limit) \in Seq(Word)
         /\ Len(MoovBox(trs, shift, limit)) = BoxSize(trs, shift, limit)
         /\ MoovBox(trs, shift, limit)[1] = MoovWord(trs, shift, limit)
<1> DEFINE n == BoxSize(trs, shift, limit)
           m == MoovWord(trs, shift, limit)
           x == <<m>>
           y == Filler(n - 1)
<1>1. n \in Nat /\ n >= 2
  BY BoxSizeIs
<1>2. MoovBox(trs, shift, limit) = x \o y
  BY DEF MoovBox, BoxSize, Traks, MoovWord
<1>3. m \in Word
  BY WordIs
<1> HIDE DEF n, m
<1>4. x \in Seq(Word) /\ Len(x) = 1 /\ x[1] = m
  BY <1>3
<1>5. y \in Seq(Word) /\ Len(y) = n - 1
  <2>1. n - 1 \in Nat
    BY <1>1
  <2> QED
    BY <2>1, FillerIs
<1> HIDE DEF x, y
<1>6. /\ x \o y \in Seq(Word) /\ Len(x \o y) = Len(x) + Len(y)
      /\ \A k \in 1 .. Len(x) : (x \o y)[k] = x[k]
  BY <1>4, <1>5, ConcatIs
<1>7. Len(x \o y) = n /\ (x \o y)[1] = m
  BY <1>1, <1>4, <1>5, <1>6
<1> QED
  BY <1>2, <1>6, <1>7 DEF n, m

\* The box at p of a file is found by its size.
AtBox(cells, find, p) ==
  find[p] = IF cells[p + 1].box = "moov" THEN cells[p + 1].traks
            ELSE IF BoxWords(cells, p) = 0 \/ p + BoxWords(cells, p) > Len(cells) THEN <<>>
            ELSE find[p + BoxWords(cells, p)]

\* A reader that gets to a moov box, box by box, gets what it holds.
LEMMA MoovIsFound ==
  ASSUME NEW cells \in Seq(Word)
  PROVE  \E find : MoovOf(cells) = find[0] /\ \A p \in 0 .. Len(cells) - 1 : AtBox(cells, find, p)
<1> DEFINE n == Len(cells)
           words(p) == BoxWords(cells, p)
           Step(u) == [p \in 0 .. n |->
             IF p = n THEN <<>>
             ELSE IF cells[p + 1].box = "moov" THEN cells[p + 1].traks
             ELSE IF BoxWords(cells, p) = 0 \/ p + BoxWords(cells, p) > n THEN <<>>
             ELSE u[p + BoxWords(cells, p)]]
           find == CHOOSE u : u = Step(u)
           D == 0 .. n
           ends(p) == p = n \/ cells[p + 1].box = "moov" \/ words(p) = 0 \/ p + words(p) > n
           val(p) == IF p # n /\ cells[p + 1].box = "moov" THEN cells[p + 1].traks ELSE <<>>
           Stop == {p \in D : ends(p)}
           R == {val(p) : p \in D}
           mu == [p \in D |-> n - p]
           next == [p \in D |-> p + words(p)]
           b == [p \in D |-> val(p)]
           c == [p \in D |-> [r \in R |-> r]]
<1>1. n \in Nat
  OBVIOUS
<1>2. MoovOf(cells) = find[0]
  BY DEF MoovOf
<1>3. ASSUME NEW p \in D, p # n
      PROVE  words(p) \in Nat
  <2>1. cells[p + 1].size \in Nat
    <3>1. p + 1 \in 1 .. n
      BY <1>1, <1>3
    <3> QED
      BY <3>1, WordIs
  <2>2. p + 3 <= n => cells[p + 3].size \in Nat
    <3> SUFFICES ASSUME p + 3 <= n
                 PROVE  cells[p + 3].size \in Nat
      OBVIOUS
    <3>1. p + 3 \in 1 .. n
      BY <1>1, <1>3
    <3> QED
      BY <3>1, WordIs
  <2> QED
    BY <1>1, <1>3, <2>1, <2>2 DEF BoxWords
<1> HIDE DEF words
<1>4. \A p \in D \ Stop : p + words(p) \in D /\ p + words(p) > p /\ p # n
  <2> SUFFICES ASSUME NEW p \in D \ Stop
               PROVE  p + words(p) \in D /\ p + words(p) > p /\ p # n
    OBVIOUS
  <2>1. p \in Nat /\ p # n /\ words(p) # 0 /\ ~(p + words(p) > n)
    OBVIOUS
  <2>2. words(p) \in Nat
    BY <1>3, <2>1
  <2> HIDE DEF n
  <2> QED
    BY <1>1, <2>1, <2>2
<1>5. Recursion(D, mu, R, Stop, next, b, c)
  <2>1. mu \in [D -> Nat] /\ \A p \in D : mu[p] = n - p
    BY <1>1
  <2>2. R # {}
    <3>1. val(0) \in R
      BY <1>1
    <3> QED
      BY <3>1
  <2>3. \A p \in D \ Stop : next[p] \in D /\ mu[next[p]] < mu[p]
    <3> SUFFICES ASSUME NEW p \in D \ Stop
                 PROVE  next[p] \in D /\ mu[next[p]] < mu[p]
      OBVIOUS
    <3>1. next[p] = p + words(p)
      OBVIOUS
    <3>2. next[p] \in D /\ next[p] > p
      <4> HIDE DEF Stop, D, next
      <4> QED
        BY <1>4, <3>1
    <3>3. mu[next[p]] = n - next[p] /\ mu[p] = n - p
      <4> HIDE DEF next, D, mu
      <4> QED
        BY <2>1, <3>2
    <3>4. p \in Nat /\ next[p] \in Nat
      BY <3>2
    <3> HIDE DEF mu, next, n
    <3> QED
      BY <1>1, <3>2, <3>3, <3>4
  <2>4. \A p \in D \cap Stop : b[p] \in R
    OBVIOUS
  <2>5. \A p \in D \ Stop : \A r \in R : c[p][r] \in R
    OBVIOUS
  <2> HIDE DEF D, mu, R, Stop, next, b, c
  <2> QED
    BY <2>1, <2>2, <2>3, <2>4, <2>5 DEF Recursion
<1>6. PICK u \in [D -> R] : Solves(u, D, Stop, next, b, c)
  <2> HIDE DEF D, mu, R, Stop, next, b, c
  <2> QED
    BY <1>5, RecursionExists, Zenon
<1>7. \A p \in D : u[p] = IF ends(p) THEN val(p) ELSE u[p + words(p)]
  <2> SUFFICES ASSUME NEW p \in D
               PROVE  u[p] = IF ends(p) THEN val(p) ELSE u[p + words(p)]
    OBVIOUS
  <2>1. u[p] = IF p \in Stop THEN b[p] ELSE c[p][u[next[p]]]
    <3> HIDE DEF b, c, Stop, next, D
    <3> QED
      BY <1>6 DEF Solves
  <2>2. b[p] = val(p) /\ next[p] = p + words(p) /\ (p \in Stop <=> ends(p))
    <3> HIDE DEF ends, val
    <3> QED
      OBVIOUS
  <2>3. p \notin Stop => c[p][u[next[p]]] = u[next[p]]
    <3> SUFFICES ASSUME p \notin Stop
                 PROVE  c[p][u[next[p]]] = u[next[p]]
      OBVIOUS
    <3>1. next[p] \in D
      <4> HIDE DEF Stop, D, next
      <4> QED
        BY <1>4, <2>2
    <3>2. u[next[p]] \in R
      <4> HIDE DEF R, D, next
      <4> QED
        BY <3>1
    <3> HIDE DEF R, next
    <3> QED
      BY <3>2
  <2> HIDE DEF b, c, Stop, next, ends, val
  <2> QED
    BY <2>1, <2>2, <2>3
<1> HIDE DEF R, Stop, mu, next, b, c
<1>8. u = Step(u)
  <2>1. u = [p \in 0 .. n |-> u[p]]
    OBVIOUS
  <2>2. \A p \in 0 .. n :
          u[p] = IF p = n THEN <<>>
                 ELSE IF cells[p + 1].box = "moov" THEN cells[p + 1].traks
                 ELSE IF BoxWords(cells, p) = 0 \/ p + BoxWords(cells, p) > n THEN <<>>
                 ELSE u[p + BoxWords(cells, p)]
    <3> HIDE DEF n
    <3> QED
      BY <1>7, Zenon DEF words
  <2> QED
    BY <2>1, <2>2, Zenon
<1>9. find = Step(find)
  BY <1>8, Zenon
<1> HIDE DEF find
<1>10. \A p \in 0 .. n - 1 : AtBox(cells, find, p)
  <2>1. \A p \in 0 .. n :
          find[p] = IF p = n THEN <<>>
                    ELSE IF cells[p + 1].box = "moov" THEN cells[p + 1].traks
                    ELSE IF BoxWords(cells, p) = 0 \/ p + BoxWords(cells, p) > n THEN <<>>
                    ELSE find[p + BoxWords(cells, p)]
    BY <1>9, Zenon
  <2>2. \A p \in 0 .. n - 1 : p \in 0 .. n /\ p # n
    BY <1>1
  <2> QED
    BY <2>1, <2>2 DEF AtBox
<1> QED
  BY <1>2, <1>10

\* Where the media data of a file begins.
Base == FtypSize + 4

\* A file that is being recorded: ftyp, the free box, the header of the media data,
\* and the position at the end.
FileOK(f) ==
  /\ f \in FileOf(Word) /\ f.pos = Len(f.cells) /\ f.pos >= Base
  /\ f.cells[1] = [box |-> "ftyp", size |-> FtypSize]
  /\ f.cells[FtypSize + 1] = [box |-> "free", size |-> 2]

\* Where the box of the media data is finished.
MdatAt(size, limit) == IF size + 2 <= limit THEN MdatOffset ELSE MdatOffset - 2

\* g is f at another position.
SoughtTo(g, f, p) == g \in FileOf(Word) /\ ~g.error /\ g.pos = p /\ g.cells = f.cells

\* A seek in a file.
LEMMA WordsSought ==
  ASSUME NEW f \in FileOf(Word), NEW p \in Nat
  PROVE  SoughtTo(Seek(f, p), f, p)
<1> DEFINE C == Word
<1>1. f \in FileOf(C)
  OBVIOUS
<1> HIDE DEF C
<1>2. Sought(Seek(f, p), C, f, p)
  BY <1>1, SeekIs
<1> QED
  BY <1>2 DEF Sought, SoughtTo, C

\* g is f with the header of the media data finished from at on.
ClosedAt(g, f, at) ==
  /\ g \in FileOf(Word) /\ ~g.error /\ g.pos = f.pos /\ Len(g.cells) = Len(f.cells)
  /\ \A p \in 1 .. Len(f.cells) : p <= at \/ p > Base => g.cells[p] = f.cells[p]

\* That is what MdatFinished does.
LEMMA MdatFinishes ==
  ASSUME NEW f, FileOK(f), NEW size \in Nat, NEW limit \in Nat
  PROVE  ClosedAt(MdatFinished(f, size, limit), f, MdatAt(size, limit))
<1>1. /\ f \in FileOf(Word) /\ f.pos = Len(f.cells) /\ f.pos >= Base /\ f.pos \in Nat
      /\ f.cells \in Seq(Word) /\ Len(f.cells) \in Nat
  <2>1. f \in FileOf(Word) /\ f.pos = Len(f.cells) /\ f.pos >= Base
    BY DEF FileOK
  <2>2. f.pos \in Nat /\ f.cells \in Seq(Word)
    BY <2>1 DEF FileOf
  <2> QED
    BY <2>1, <2>2
<1>2. FtypSize \in Nat /\ FtypSize >= 2 /\ MdatOffset = FtypSize + 2 /\ Base = FtypSize + 4
  BY SizesAssumption DEF MdatOffset, Base
<1>3. ASSUME NEW at \in Nat, NEW data \in Seq(Word), at + Len(data) = Base
      PROVE  ClosedAt(Seek(Write(Seek(f, at), data), f.pos), f, at)
  <2> DEFINE h == Write(Seek(f, at), data)
             g == Seek(h, f.pos)
  <2>1. HasWritten(h, Word, f, at, data)
    <3>1. at + Len(data) <= Len(f.cells)
      BY <1>1, <1>3
    <3> QED
      BY <1>1, <3>1, WriteTo
  <2>2. /\ h \in FileOf(Word) /\ Len(h.cells) = Len(f.cells)
        /\ \A p \in 1 .. Len(f.cells) :
             h.cells[p] = IF at < p /\ p <= at + Len(data) THEN data[p - at] ELSE f.cells[p]
    BY <2>1 DEF HasWritten
  <2> HIDE DEF h
  <2>3. g \in FileOf(Word) /\ ~g.error /\ g.pos = f.pos /\ g.cells = h.cells
    <3>1. h \in FileOf(Word) /\ f.pos \in Nat
      BY <1>1, <2>2
    <3> QED
      BY <3>1, WordsSought DEF SoughtTo
  <2> HIDE DEF g
  <2>4. \A p \in 1 .. Len(f.cells) : p <= at \/ p > Base => g.cells[p] = f.cells[p]
    <3> SUFFICES ASSUME NEW p \in 1 .. Len(f.cells), p <= at \/ p > Base
                 PROVE  g.cells[p] = f.cells[p]
      OBVIOUS
    <3>1. ~(at < p /\ p <= at + Len(data))
      BY <1>1, <1>2, <1>3
    <3> QED
      BY <2>2, <2>3, <3>1
  <2>5. ClosedAt(g, f, at)
    BY <2>2, <2>3, <2>4 DEF ClosedAt
  <2> QED
    BY <2>5 DEF g, h
<1>4. CASE size + 2 <= limit
  <2> DEFINE data == Header("mdat", size + 2)
  <2>1. data \in Seq(Word) /\ Len(data) = 2
    <3>1. size + 2 \in Nat
      OBVIOUS
    <3> QED
      BY <3>1, HeaderIs DEF Boxes
  <2>2. MdatFinished(f, size, limit) = Seek(Write(Seek(f, MdatOffset), data), f.pos)
    BY <1>4 DEF MdatFinished
  <2>3. MdatAt(size, limit) = MdatOffset
    BY <1>4 DEF MdatAt
  <2> HIDE DEF data
  <2>4. MdatOffset \in Nat /\ MdatOffset + Len(data) = Base
    BY <1>2, <2>1
  <2> QED
    BY <1>3, <2>1, <2>2, <2>3, <2>4
<1>5. CASE ~(size + 2 <= limit)
  <2> DEFINE a == Header("mdat", 1)
             b == <<[box |-> "-", size |-> size + 4]>>
             c == Filler(1)
             data == a \o b \o c
  <2>1. a \in Seq(Word) /\ Len(a) = 2
    <3>1. 1 \in Nat
      OBVIOUS
    <3> QED
      BY <3>1, HeaderIs DEF Boxes
  <2>2. b \in Seq(Word) /\ Len(b) = 1
    <3>1. size + 4 \in Nat
      OBVIOUS
    <3>2. [box |-> "-", size |-> size + 4] \in Word
      BY <3>1, WordIs DEF Boxes
    <3> QED
      BY <3>2
  <2>3. c \in Seq(Word) /\ Len(c) = 1
    <3>1. \A i \in Nat : Filler(i) \in Seq(Word) /\ Len(Filler(i)) = i
      BY FillerIs
    <3> QED
      BY <3>1
  <2>4. MdatFinished(f, size, limit) = Seek(Write(Seek(f, MdatOffset - 2), data), f.pos)
    BY <1>5 DEF MdatFinished
  <2>5. MdatAt(size, limit) = MdatOffset - 2
    BY <1>5 DEF MdatAt
  <2> HIDE DEF a, b, c
  <2>6. a \o b \in Seq(Word) /\ Len(a \o b) = 3
    <3>1. a \o b \in Seq(Word) /\ Len(a \o b) = Len(a) + Len(b)
      BY <2>1, <2>2, ConcatIs
    <3> QED
      BY <2>1, <2>2, <3>1
  <2>7. data \in Seq(Word) /\ Len(data) = 4
    <3> DEFINE ab == a \o b
    <3>1. ab \in Seq(Word) /\ Len(ab) = 3
      BY <2>6
    <3> HIDE DEF ab
    <3>2. ab \o c \in Seq(Word) /\ Len(ab \o c) = Len(ab) + Len(c)
      BY <2>3, <3>1, ConcatIs
    <3>3. ab \o c \in Seq(Word) /\ Len(ab \o c) = 4
      BY <2>3, <3>1, <3>2
    <3> QED
      BY <3>3 DEF ab
  <2> HIDE DEF data
  <2>8. MdatOffset - 2 \in Nat /\ (MdatOffset - 2) + Len(data) = Base
    BY <1>2, <2>7
  <2> QED
    BY <1>3, <2>4, <2>5, <2>7, <2>8
<1> QED
  BY <1>4, <1>5

\* The finished recording: the box of the tracks is found, and its offsets are moved
\* by as much as the media data.
Done(d, f, trs, limit) ==
  \E shift \in Nat :
    /\ d.agrees = TRUE /\ d.file \in FileOf(Word) /\ Len(d.file.cells) = Len(f.cells) + shift
    /\ \A p \in 1 .. Len(f.cells) : p > Base => d.file.cells[p + shift] = f.cells[p]
    /\ MoovOf(d.file.cells) = Traks(trs, shift, limit)

\* g is f after data was written to it.
Overwritten(g, f, data) ==
  /\ g \in FileOf(Word) /\ g.pos = f.pos + Len(data)
  /\ Len(g.cells) = IF g.pos > Len(f.cells) THEN g.pos ELSE Len(f.cells)
  /\ \A p \in 1 .. Len(g.cells) :
       g.cells[p] = IF f.pos < p /\ p <= g.pos THEN data[p - f.pos] ELSE f.cells[p]

\* A write at the end makes the file longer.
LEMMA WordsWritten ==
  ASSUME NEW f \in FileOf(Word), ~f.error, f.pos <= Len(f.cells), NEW data \in Seq(Word)
  PROVE  Overwritten(Write(f, data), f, data)
<1> DEFINE C == Word
<1>1. f \in FileOf(C) /\ data \in Seq(C)
  OBVIOUS
<1> HIDE DEF C
<1>2. LET g == Write(f, data)
      IN /\ g \in FileOf(C) /\ ~g.error /\ g.pos = f.pos + Len(data)
         /\ Len(g.cells) = IF g.pos > Len(f.cells) THEN g.pos ELSE Len(f.cells)
         /\ \A p \in 1 .. Len(g.cells) :
              g.cells[p] = IF f.pos < p /\ p <= g.pos THEN data[p - f.pos] ELSE f.cells[p]
  BY <1>1, WriteAt
<1> DEFINE g == Write(f, data)
<1> HIDE DEF g
<1>3. /\ g \in FileOf(C) /\ ~g.error /\ g.pos = f.pos + Len(data)
      /\ Len(g.cells) = IF g.pos > Len(f.cells) THEN g.pos ELSE Len(f.cells)
      /\ \A p \in 1 .. Len(g.cells) :
           g.cells[p] = IF f.pos < p /\ p <= g.pos THEN data[p - f.pos] ELSE f.cells[p]
  BY <1>2 DEF g
<1>4. Overwritten(g, f, data)
  BY <1>3 DEF Overwritten, C
<1> QED
  BY <1>4 DEF g

\* The box with the tracks, written behind the media data and again in the room it takes
\* when the media data moves.
LEMMA MoovWritten ==
  ASSUME NEW g \in FileOf(Word), ~g.error, g.pos = Len(g.cells),
         NEW trs \in Seq(Track), NEW limit \in Nat
  PROVE  LET first == MoovBox(trs, 0, limit)
             written == Write(g, first)
             co64 == Widening(trs, Len(first), limit)
             moov == MoovBox(trs, Len(first) + co64, limit)
             rewritten == Write(Seek(written, g.pos), moov)
         IN /\ rewritten.pos = written.pos + co64
            /\ Len(moov) \in Nat \ {0} /\ Len(moov) = Len(first) + co64
            /\ rewritten \in FileOf(Word) /\ Len(rewritten.cells) = Len(g.cells) + Len(moov)
            /\ \A p \in 1 .. Len(g.cells) : rewritten.cells[p] = g.cells[p]
            /\ rewritten.cells[Len(g.cells) + 1] = MoovWord(trs, Len(moov), limit)
<1> DEFINE first == MoovBox(trs, 0, limit)
           written == Write(g, first)
           n == Len(first)
           co64 == Widening(trs, n, limit)
           shift == n + co64
           moov == MoovBox(trs, shift, limit)
           back == Seek(written, g.pos)
           rewritten == Write(back, moov)
           L == Len(g.cells)
<1>1. g.pos \in Nat /\ g.cells \in Seq(Word) /\ L \in Nat /\ g.pos = L
  BY DEF FileOf
<1>2. first \in Seq(Word) /\ n = BoxSize(trs, 0, limit) /\ n \in Nat /\ n >= 2
  <2>1. 0 \in Nat
    OBVIOUS
  <2> QED
    BY <2>1, MoovBoxIs, BoxSizeIs
<1> HIDE DEF first, n
<1>3. co64 \in Nat /\ Grown(trs, n + co64, limit) = co64
  BY <1>2, WideningSettles
<1> HIDE DEF co64
<1>4. shift \in Nat /\ shift >= 2
  BY <1>2, <1>3
<1>5. /\ moov \in Seq(Word) /\ Len(moov) = BoxSize(trs, shift, limit)
      /\ moov[1] = MoovWord(trs, shift, limit)
  <2> HIDE DEF shift
  <2> QED
    BY <1>4, MoovBoxIs
<1>6. Len(moov) = shift
  <2>1. BoxSize(trs, shift, limit) = BoxSize(trs, 0, limit) + Grown(trs, shift, limit)
    <3> HIDE DEF shift
    <3> QED
      BY <1>4, BoxSizeIs
  <2> QED
    BY <1>2, <1>3, <1>5, <2>1
<1> HIDE DEF shift, moov
<1>7. /\ written \in FileOf(Word) /\ written.pos = L + n /\ Len(written.cells) = L + n
      /\ \A p \in 1 .. L : written.cells[p] = g.cells[p]
  <2>1. /\ written \in FileOf(Word) /\ written.pos = g.pos + Len(first)
        /\ Len(written.cells) = IF written.pos > Len(g.cells) THEN written.pos ELSE Len(g.cells)
        /\ \A p \in 1 .. Len(written.cells) :
             written.cells[p] = IF g.pos < p /\ p <= written.pos THEN first[p - g.pos] ELSE g.cells[p]
    <3>1. g.pos <= Len(g.cells)
      BY <1>1
    <3>2. Overwritten(written, g, first)
      BY <1>2, <3>1, WordsWritten
    <3> QED
      BY <3>2 DEF Overwritten
  <2> HIDE DEF written
  <2>2. Len(first) = n
    BY DEF n
  <2> HIDE DEF L
  <2>3. written.pos = L + n /\ Len(written.cells) = L + n
    BY <1>1, <1>2, <2>1, <2>2 DEF L
  <2>4. \A p \in 1 .. L : p \in 1 .. L + n /\ ~(g.pos < p)
    BY <1>1, <1>2
  <2> QED
    BY <2>1, <2>3, <2>4
<1> HIDE DEF written
<1>8. /\ back \in FileOf(Word) /\ ~back.error /\ back.pos = L /\ back.cells = written.cells
  <2>1. written \in FileOf(Word) /\ g.pos \in Nat /\ g.pos = L
    BY <1>1, <1>7
  <2> HIDE DEF L
  <2> QED
    BY <2>1, WordsSought DEF SoughtTo
<1> HIDE DEF back
<1>9. /\ rewritten \in FileOf(Word) /\ rewritten.pos = L + shift
      /\ Len(rewritten.cells) = L + shift
      /\ \A p \in 1 .. L : rewritten.cells[p] = g.cells[p]
      /\ rewritten.cells[L + 1] = moov[1]
  <2>1. back.pos <= Len(back.cells)
    BY <1>1, <1>2, <1>7, <1>8
  <2>2. /\ rewritten \in FileOf(Word) /\ rewritten.pos = back.pos + Len(moov)
        /\ Len(rewritten.cells)
             = IF rewritten.pos > Len(back.cells) THEN rewritten.pos ELSE Len(back.cells)
        /\ \A p \in 1 .. Len(rewritten.cells) :
             rewritten.cells[p]
               = IF back.pos < p /\ p <= rewritten.pos THEN moov[p - back.pos] ELSE back.cells[p]
    <3>1. Overwritten(rewritten, back, moov)
      BY <1>5, <1>8, <2>1, WordsWritten
    <3> QED
      BY <3>1 DEF Overwritten
  <2> HIDE DEF rewritten, L
  <2>3. rewritten.pos = L + shift /\ L + shift >= L + n
    BY <1>1, <1>2, <1>3, <1>4, <1>6, <1>8, <2>2 DEF shift
  <2>4. Len(rewritten.cells) = L + shift
    <3>1. Len(back.cells) = L + n
      BY <1>7, <1>8 DEF L
    <3>2. Len(rewritten.cells)
             = IF rewritten.pos > Len(back.cells) THEN rewritten.pos ELSE Len(back.cells)
      BY <2>2
    <3> DEFINE a == L + n
               e == L + shift
               q == rewritten.pos
               l == Len(rewritten.cells)
               k == Len(back.cells)
    <3>3. a \in Nat /\ e \in Nat
      BY <1>1, <1>2, <1>4
    <3>4. q = e /\ e >= a /\ k = a /\ l = IF q > k THEN q ELSE k
      BY <2>3, <3>1, <3>2
    <3> HIDE DEF a, e, q, l, k
    <3>5. l = e
      BY <3>3, <3>4
    <3> QED
      BY <3>5 DEF l, e
  <2>5. \A p \in 1 .. L : p \in 1 .. L + shift /\ ~(L < p)
    BY <1>1, <1>4
  <2>6. \A p \in 1 .. L : rewritten.cells[p] = g.cells[p]
    BY <1>7, <1>8, <2>2, <2>4, <2>5
  <2>7. L + 1 \in 1 .. L + shift /\ L < L + 1 /\ L + 1 <= L + shift /\ L + 1 - L = 1
    BY <1>1, <1>4
  <2>8. rewritten.cells[L + 1] = moov[1]
    <3>2. \A p \in 1 .. Len(rewritten.cells) :
             rewritten.cells[p]
               = IF back.pos < p /\ p <= rewritten.pos THEN moov[p - back.pos] ELSE back.cells[p]
      BY <2>2
    <3> DEFINE e == L + 1
    <3>1. e \in 1 .. L + shift /\ L < e /\ e <= L + shift /\ e - L = 1
      BY <1>1, <1>4
    <3> HIDE DEF e
    <3>3. e \in 1 .. Len(rewritten.cells) /\ back.pos < e /\ e <= rewritten.pos /\ e - back.pos = 1
      BY <1>8, <2>3, <2>4, <3>1
    <3>4. rewritten.cells[e] = moov[1]
      BY <3>2, <3>3
    <3> QED
      BY <3>4 DEF e
  <2> QED
    BY <2>2, <2>3, <2>4, <2>6, <2>8
<1> HIDE DEF rewritten
<1>10. rewritten.pos = written.pos + co64
  BY <1>1, <1>2, <1>3, <1>7, <1>9 DEF shift
<1>11. Len(moov) \in Nat \ {0} /\ Len(moov) = Len(first) + co64
  BY <1>4, <1>6 DEF shift, n
<1> QED
  BY <1>5, <1>6, <1>9, <1>10, <1>11, Zenon DEF rewritten, back, written, moov, shift, co64, n, first

\* The boxes of a finished file are skipped up to the one with the tracks.
LEMMA MoovBehind ==
  ASSUME NEW cells \in Seq(Word), NEW at \in {FtypSize, FtypSize + 2}, at + 1 <= Len(cells),
         cells[1] = [box |-> "ftyp", size |-> FtypSize],
         at # FtypSize => cells[FtypSize + 1] = [box |-> "free", size |-> 2],
         cells[at + 1].box = "moov"
  PROVE  MoovOf(cells) = cells[at + 1].traks
<1> DEFINE n == Len(cells)
<1>1. FtypSize \in Nat /\ FtypSize >= 2 /\ n \in Nat /\ at \in Nat
  BY SizesAssumption
<1>2. PICK find : MoovOf(cells) = find[0] /\ \A p \in 0 .. n - 1 : AtBox(cells, find, p)
  BY MoovIsFound
<1>3. find[0] = find[FtypSize]
  <2>1. 0 \in 0 .. n - 1
    BY <1>1
  <2>2. AtBox(cells, find, 0)
    BY <1>2, <2>1
  <2>3. cells[0 + 1].box = "ftyp" /\ cells[0 + 1].size = FtypSize
    OBVIOUS
  <2>4. BoxWords(cells, 0) = FtypSize
    BY <1>1, <2>3 DEF BoxWords
  <2>5. FtypSize # 0 /\ ~(0 + FtypSize > n) /\ 0 + FtypSize = FtypSize
    BY <1>1
  <2> HIDE DEF n
  <2>6. ~(0 + BoxWords(cells, 0) > Len(cells)) /\ 0 + BoxWords(cells, 0) = FtypSize
        /\ BoxWords(cells, 0) # 0
    BY <2>4, <2>5 DEF n
  <2>7. cells[0 + 1].box # "moov"
    BY <2>3
  <2> QED
    BY <2>2, <2>6, <2>7 DEF AtBox
<1>4. find[FtypSize] = find[at]
  <2> SUFFICES ASSUME at # FtypSize
               PROVE  find[FtypSize] = find[at]
    OBVIOUS
  <2>1. at = FtypSize + 2
    OBVIOUS
  <2>2. FtypSize \in 0 .. n - 1
    BY <1>1, <2>1
  <2>3. AtBox(cells, find, FtypSize)
    BY <1>2, <2>2
  <2>4. cells[FtypSize + 1].box = "free" /\ cells[FtypSize + 1].size = 2
    OBVIOUS
  <2>5. BoxWords(cells, FtypSize) = 2
    BY <2>4 DEF BoxWords
  <2>6. ~(FtypSize + BoxWords(cells, FtypSize) > Len(cells))
        /\ FtypSize + BoxWords(cells, FtypSize) = at /\ BoxWords(cells, FtypSize) # 0
    BY <1>1, <2>1, <2>5
  <2>7. cells[FtypSize + 1].box # "moov"
    BY <2>4
  <2> QED
    BY <2>3, <2>6, <2>7 DEF AtBox
<1>5. find[at] = cells[at + 1].traks
  <2>1. at \in 0 .. n - 1
    BY <1>1
  <2>2. AtBox(cells, find, at)
    BY <1>2, <2>1
  <2> QED
    BY <2>2 DEF AtBox
<1> QED
  BY <1>2, <1>3, <1>4, <1>5

\* Filler fills the buffers.
LEMMA FillsWords == Fills(Word)
BY FillerIs DEF Fills

\* g is f with its last words moved to the place to.
ExchangedIn(g, f, to, bytes) ==
  /\ g \in FileOf(Word) /\ Len(g.cells) = Len(f.cells)
  /\ \A p \in 1 .. Len(f.cells) : g.cells[p] = f.cells[Origin(p, to, Len(f.cells) - bytes, bytes)]

\* That is what Moved does to a file.
LEMMA WordsExchanged ==
  ASSUME NEW f \in FileOf(Word), NEW to \in Nat, NEW from \in Nat, to <= from,
         NEW bytes \in Nat \ {0}, Len(f.cells) = from + bytes
  PROVE  ExchangedIn(Moved(f, to, from, bytes), f, to, bytes)
<1> DEFINE C == Word
           g == Moved(f, to, from, bytes)
<1>1. f \in FileOf(C) /\ Fills(C)
  BY FillsWords
<1> HIDE DEF C
<1>2. LET h == Moved(f, to, from, bytes)
      IN /\ h \in FileOf(C) /\ Len(h.cells) = Len(f.cells)
         /\ \A p \in 1 .. Len(f.cells) : h.cells[p] = f.cells[Origin(p, to, from, bytes)]
  BY <1>1, MovedExchanges
<1>3. Len(f.cells) - bytes = from
  OBVIOUS
<1> HIDE DEF g
<1>4. /\ g \in FileOf(C) /\ Len(g.cells) = Len(f.cells)
      /\ \A p \in 1 .. Len(f.cells) : g.cells[p] = f.cells[Origin(p, to, from, bytes)]
  BY <1>2 DEF g
<1>5. ExchangedIn(g, f, to, bytes)
  BY <1>3, <1>4 DEF ExchangedIn, C
<1> QED
  BY <1>5 DEF g

\* A recording of whatever length, with whatever tables, is finished: the moov box
\* takes the room computed for it (which mov-writer.c asserts), the media data follows it unchanged, and a reader
\* finds in the box the tables of the tracks, with offsets moved as far as the data (mov_writer_destroy).
THEOREM FinishedIs ==
  ASSUME NEW f, FileOK(f), NEW trs \in Seq(Track), NEW size \in Nat, NEW limit \in Nat
  PROVE  Done(Finished(f, trs, size, limit), f, trs, limit)
<1> DEFINE at == MdatAt(size, limit)
           closed == MdatFinished(f, size, limit)
           first == MoovBox(trs, 0, limit)
           written == Write(closed, first)
           co64 == Widening(trs, Len(first), limit)
           moov == MoovBox(trs, Len(first) + co64, limit)
           rewritten == Write(Seek(written, closed.pos), moov)
           moved == Moved(rewritten, at, closed.pos, Len(moov))
           shift == Len(moov)
           L == Len(f.cells)
           d == Finished(f, trs, size, limit)
<1>1. d = [file |-> moved, agrees |-> rewritten.pos = written.pos + co64]
  BY DEF Finished, MdatAt
<1>2. ClosedAt(closed, f, at)
  BY MdatFinishes
<1>3. /\ L \in Nat /\ L >= Base /\ f.pos = L
      /\ f.cells[1] = [box |-> "ftyp", size |-> FtypSize]
      /\ f.cells[FtypSize + 1] = [box |-> "free", size |-> 2]
  BY DEF FileOK, FileOf
<1>4. /\ at \in {FtypSize, FtypSize + 2} /\ at \in Nat /\ at < Base /\ Base \in Nat
      /\ FtypSize \in Nat /\ FtypSize >= 2 /\ Base = FtypSize + 4
  BY SizesAssumption DEF MdatAt, MdatOffset, Base
<1> HIDE DEF at, closed
<1>5. /\ closed \in FileOf(Word) /\ ~closed.error /\ closed.pos = L /\ Len(closed.cells) = L
      /\ \A p \in 1 .. L : p <= at \/ p > Base => closed.cells[p] = f.cells[p]
  BY <1>2, <1>3 DEF ClosedAt
<1>6. /\ rewritten.pos = written.pos + co64 /\ shift \in Nat \ {0}
      /\ rewritten \in FileOf(Word) /\ Len(rewritten.cells) = L + shift
      /\ \A p \in 1 .. L : rewritten.cells[p] = closed.cells[p]
      /\ rewritten.cells[L + 1] = MoovWord(trs, shift, limit)
  <2>1. closed.pos = Len(closed.cells)
    BY <1>5
  <2>2. /\ rewritten.pos = written.pos + co64
        /\ Len(moov) \in Nat \ {0} /\ Len(moov) = Len(first) + co64
        /\ rewritten \in FileOf(Word) /\ Len(rewritten.cells) = Len(closed.cells) + Len(moov)
        /\ \A p \in 1 .. Len(closed.cells) : rewritten.cells[p] = closed.cells[p]
        /\ rewritten.cells[Len(closed.cells) + 1] = MoovWord(trs, Len(moov), limit)
    <3>1. closed \in FileOf(Word) /\ ~closed.error
      BY <1>5
    <3> QED
      BY <2>1, <3>1, MoovWritten
  <2> HIDE DEF rewritten, written, co64, moov, first
  <2> QED
    BY <1>5, <2>2
<1> HIDE DEF first, written, co64, moov, rewritten, shift
<1>7. ExchangedIn(moved, rewritten, at, shift)
  <2>1. at <= closed.pos /\ closed.pos \in Nat /\ Len(rewritten.cells) = closed.pos + shift
    BY <1>3, <1>4, <1>5, <1>6
  <2>2. shift = Len(moov)
    BY DEF shift
  <2> HIDE DEF L
  <2> QED
    BY <1>4, <1>6, <2>1, <2>2, WordsExchanged
<1> HIDE DEF moved
<1> DEFINE cells == moved.cells
<1>8. /\ moved \in FileOf(Word) /\ Len(cells) = L + shift
      /\ \A p \in 1 .. L + shift : cells[p] = rewritten.cells[Origin(p, at, L, shift)]
  <2>1. (L + shift) - shift = L
    BY <1>3, <1>6
  <2> HIDE DEF L
  <2> QED
    <3>1. /\ moved \in FileOf(Word) /\ Len(moved.cells) = Len(rewritten.cells)
          /\ \A p \in 1 .. Len(rewritten.cells) :
               moved.cells[p] = rewritten.cells[Origin(p, at, Len(rewritten.cells) - shift, shift)]
      BY <1>7 DEF ExchangedIn
    <3>2. Len(rewritten.cells) = L + shift
      BY <1>6
    <3> QED
      BY <2>1, <3>1, <3>2
<1>9. cells \in Seq(Word)
  BY <1>8 DEF FileOf
<1> HIDE DEF cells
\* What is in front of the box with the tracks stays.
<1>10. \A p \in 1 .. at : cells[p] = f.cells[p]
  <2> SUFFICES ASSUME NEW p \in 1 .. at
               PROVE  cells[p] = f.cells[p]
    OBVIOUS
  <2>1. p \in 1 .. L /\ p \in 1 .. L + shift /\ p <= at
    BY <1>3, <1>4, <1>6
  <2>2. Origin(p, at, L, shift) = p
    BY <2>1 DEF Origin
  <2> HIDE DEF L
  <2> QED
    BY <1>5, <1>6, <1>8, <2>1, <2>2
\* The box itself.
<1>11. cells[at + 1] = MoovWord(trs, shift, limit)
  <2>1. at + 1 \in 1 .. L + shift
    BY <1>3, <1>4, <1>6
  <2>2. Origin(at + 1, at, L, shift) = L + 1
    BY <1>3, <1>4, <1>6 DEF Origin
  <2> HIDE DEF L
  <2> QED
    BY <1>6, <1>8, <2>1, <2>2
\* The media data behind it.
<1>12. \A p \in 1 .. L : p > Base => cells[p + shift] = f.cells[p]
  <2> SUFFICES ASSUME NEW p \in 1 .. L, p > Base
               PROVE  cells[p + shift] = f.cells[p]
    OBVIOUS
  <2>1. p + shift \in 1 .. L + shift
    BY <1>3, <1>6
  <2>2. Origin(p + shift, at, L, shift) = p
    <3>1. p \in Nat /\ at \in Nat /\ shift \in Nat /\ p > at
      BY <1>3, <1>4, <1>6
    <3>2. ~(p + shift <= at) /\ ~(p + shift <= at + shift) /\ (p + shift) - shift = p
      BY <3>1
    <3> QED
      BY <3>2 DEF Origin
  <2> HIDE DEF L
  <2> QED
    BY <1>5, <1>6, <1>8, <2>1, <2>2
<1>13. MoovOf(cells) = Traks(trs, shift, limit)
  <2>1. MoovWord(trs, shift, limit).box = "moov"
        /\ MoovWord(trs, shift, limit).traks = Traks(trs, shift, limit)
    BY DEF MoovWord
  <2>2. 1 \in 1 .. at /\ (at # FtypSize => FtypSize + 1 \in 1 .. at)
    BY <1>4
  <2>3. cells[1] = [box |-> "ftyp", size |-> FtypSize]
    BY <1>3, <1>10, <2>2
  <2>4. at # FtypSize => cells[FtypSize + 1] = [box |-> "free", size |-> 2]
    BY <1>3, <1>10, <2>2
  <2>5. at + 1 <= Len(cells)
    <3>1. Len(cells) = L + shift
      BY <1>8 DEF cells
    <3> QED
      BY <1>3, <1>4, <1>6, <3>1
  <2>6. cells[at + 1].box = "moov"
    BY <1>11, <2>1
  <2>7. MoovOf(cells) = cells[at + 1].traks
    BY <1>4, <1>9, <2>3, <2>4, <2>5, <2>6, MoovBehind
  <2> QED
    BY <1>11, <2>1, <2>7
<1>14. d.file = moved /\ d.agrees = TRUE
  <2> DEFINE a == rewritten.pos
             b == written.pos + co64
  <2>1. d = [file |-> moved, agrees |-> a = b] /\ a = b
    BY <1>1, <1>6
  <2> HIDE DEF a, b, d
  <2>2. d.agrees <=> a = b
    BY <2>1
  <2>3. d.agrees \in BOOLEAN /\ d.file = moved
    BY <2>1
  <2> QED
    BY <2>1, <2>2, <2>3
<1> HIDE DEF d, L
<1>15. /\ d.agrees = TRUE /\ d.file \in FileOf(Word) /\ Len(d.file.cells) = Len(f.cells) + shift
       /\ \A p \in 1 .. Len(f.cells) : p > Base => d.file.cells[p + shift] = f.cells[p]
       /\ MoovOf(d.file.cells) = Traks(trs, shift, limit)
  BY <1>8, <1>12, <1>13, <1>14 DEF cells, L
<1>16. shift \in Nat
  BY <1>6
<1>17. Done(d, f, trs, limit)
  BY <1>15, <1>16 DEF Done
<1> QED
  BY <1>17 DEF d

-----------------------------------------------------------------------------
(* The file while it is recorded.                                          *)

\* The position, and where the media data begins.
LEMMA FileFacts ==
  ASSUME NEW f, FileOK(f)
  PROVE  /\ f.pos \in Nat /\ f.cells \in Seq(Word) /\ Len(f.cells) = f.pos /\ f.error \in BOOLEAN
         /\ f = [cells |-> f.cells, pos |-> f.pos, error |-> f.error]
         /\ Base \in Nat /\ FtypSize \in Nat /\ FtypSize + 1 <= Base /\ Base <= f.pos
<1> DEFINE C == Word
<1>1. f \in FileOf(C) /\ f.pos = Len(f.cells) /\ f.pos >= Base
  BY DEF FileOK
<1> HIDE DEF C
<1>2. /\ f.pos \in Nat /\ f.cells \in Seq(C) /\ f.error \in BOOLEAN
      /\ f = [cells |-> f.cells, pos |-> f.pos, error |-> f.error]
  BY <1>1 DEF FileOf
<1>3. Base \in Nat /\ FtypSize \in Nat /\ FtypSize + 1 <= Base
  BY SizesAssumption DEF Base
<1> QED
  BY <1>1, <1>2, <1>3 DEF C

\* g is f with more words at the end.
Longer(g, f) ==
  /\ FileOK(g) /\ f.pos <= g.pos
  /\ \A p \in 1 .. f.pos : g.cells[p] = f.cells[p]

\* A file in the place of f that keeps what f begins with is one that is being recorded.
LEMMA LongerFile ==
  ASSUME NEW f, FileOK(f), NEW g, g \in FileOf(Word), g.pos = Len(g.cells), f.pos <= g.pos,
         \A p \in 1 .. f.pos : g.cells[p] = f.cells[p]
  PROVE  Longer(g, f)
<1>1. /\ Base \in Nat /\ FtypSize \in Nat /\ FtypSize + 1 <= Base /\ Base <= f.pos /\ f.pos \in Nat
  BY FileFacts
<1>2. 1 \in 1 .. f.pos /\ FtypSize + 1 \in 1 .. f.pos
  BY <1>1
<1>3. g.cells[1] = f.cells[1] /\ g.cells[FtypSize + 1] = f.cells[FtypSize + 1]
  BY <1>2
<1>4. g.pos >= Base
  <2>1. g.pos \in Nat
    <3> DEFINE C == Word
    <3>1. g \in FileOf(C)
      OBVIOUS
    <3> HIDE DEF C
    <3> QED
      BY <3>1 DEF FileOf
  <2> QED
    BY <1>1, <2>1
<1>5. /\ f.cells[1] = [box |-> "ftyp", size |-> FtypSize]
      /\ f.cells[FtypSize + 1] = [box |-> "free", size |-> 2]
  BY DEF FileOK
<1>6. FileOK(g)
  BY <1>3, <1>4, <1>5 DEF FileOK
<1> QED
  BY <1>6 DEF Longer

\* What a write to it does.
Added(g, f, data) ==
  /\ Longer(g, f)
  /\ ~f.error => /\ g.pos = f.pos + Len(data)
                 /\ \A k \in 1 .. Len(data) : g.cells[f.pos + k] = data[k]

\* That is what it does.
LEMMA WordsAdded ==
  ASSUME NEW f, FileOK(f), NEW data \in Seq(Word)
  PROVE  Added(Write(f, data), f, data)
<1> DEFINE g == Write(f, data)
           n == Len(data)
<1>1. f.pos \in Nat /\ Len(f.cells) = f.pos /\ f.error \in BOOLEAN /\ n \in Nat
  BY FileFacts
<1>2. CASE f.error
  <2>1. g = f
    BY <1>2 DEF Write
  <2>2. Longer(f, f)
    BY <1>1 DEF Longer
  <2> QED
    BY <1>2, <2>1, <2>2 DEF Added
<1>3. CASE ~f.error
  <2>1. Overwritten(g, f, data)
    <3>1. f \in FileOf(Word) /\ f.pos <= Len(f.cells)
      BY <1>1 DEF FileOK
    <3> QED
      BY <1>3, <3>1, WordsWritten
  <2> HIDE DEF g, n
  <2>2. /\ g \in FileOf(Word) /\ g.pos = f.pos + n
        /\ Len(g.cells) = g.pos /\ f.pos <= g.pos /\ g.pos \in Nat
    <3>1. /\ g \in FileOf(Word) /\ g.pos = f.pos + n
          /\ Len(g.cells) = IF g.pos > Len(f.cells) THEN g.pos ELSE Len(f.cells)
      BY <2>1 DEF Overwritten, n
    <3> QED
      BY <1>1, <3>1
  <2>3. \A p \in 1 .. g.pos : g.cells[p] = IF f.pos < p /\ p <= g.pos THEN data[p - f.pos] ELSE f.cells[p]
    BY <2>1, <2>2 DEF Overwritten
  <2>4. \A p \in 1 .. f.pos : g.cells[p] = f.cells[p]
    <3> SUFFICES ASSUME NEW p \in 1 .. f.pos
                 PROVE  g.cells[p] = f.cells[p]
      OBVIOUS
    <3>1. p \in 1 .. g.pos /\ ~(f.pos < p)
      BY <1>1, <2>2
    <3> QED
      BY <2>3, <3>1
  <2>5. \A k \in 1 .. n : g.cells[f.pos + k] = data[k]
    <3> SUFFICES ASSUME NEW k \in 1 .. n
                 PROVE  g.cells[f.pos + k] = data[k]
      OBVIOUS
    <3>1. f.pos + k \in 1 .. g.pos /\ f.pos < f.pos + k /\ f.pos + k <= g.pos /\ (f.pos + k) - f.pos = k
      BY <1>1, <2>2
    <3> QED
      BY <2>3, <3>1
  <2>6. Longer(g, f)
    BY <2>2, <2>4, LongerFile
  <2>7. Added(g, f, data)
    BY <2>2, <2>5, <2>6 DEF Added, n
  <2> QED
    BY <2>7 DEF g
<1> QED
  BY <1>2, <1>3

\* A failed write leaves the words that were written.
LEMMA ErrorSet ==
  ASSUME NEW f, FileOK(f), NEW g, Longer(g, f), NEW e \in BOOLEAN
  PROVE  LET h == [g EXCEPT !.error = e]
         IN Longer(h, f) /\ h.pos = g.pos /\ h.cells = g.cells
<1> DEFINE h == [g EXCEPT !.error = e]
           C == Word
<1>1. FileOK(g) /\ g \in FileOf(C) /\ g.pos = Len(g.cells) /\ f.pos <= g.pos
  BY DEF Longer, FileOK
<1> HIDE DEF C
<1>2. h \in FileOf(C) /\ h.pos = g.pos /\ h.cells = g.cells
  BY <1>1 DEF FileOf
<1> HIDE DEF h
<1>3. \A p \in 1 .. f.pos : h.cells[p] = f.cells[p]
  BY <1>2 DEF Longer
<1>4. Longer(h, f)
  BY <1>1, <1>2, <1>3, LongerFile DEF C
<1> QED
  BY <1>2, <1>4 DEF h

\* Sample s, the n-th of track i, has words in the file f that are its own, if it
\* was stored.
KeptSample(s, i, n, f) ==
  /\ s.bytes # 0 /\ Base <= s.offset /\ s.offset <= f.pos
  /\ s.stored => /\ s.offset + s.bytes <= f.pos
                 /\ \A k \in 1 .. s.bytes : f.cells[s.offset + k] = Datum(i, n, k)

\* No sample begins before the end of a stored one in front of it.
Behind(s) == \A n \in 2 .. Len(s) : s[n - 1].stored => s[n - 1].offset + s[n - 1].bytes <= s[n].offset

\* So have the samples of track i, which lie in the file in their order.
KeptTrack(s, i, f) ==
  /\ \A n \in 1 .. Len(s) : KeptSample(s[n], i, n, f)
  /\ \A n \in 2 .. Len(s) : s[n - 1].offset <= s[n].offset
  /\ Behind(s)

\* So have those of all tracks.
Kept(trs, f) == \A i \in 1 .. Len(trs) : KeptTrack(trs[i].samples, i, f)

\* More words at the end leave it where it is.
LEMMA KeptSampleLonger ==
  ASSUME NEW f, FileOK(f), NEW g, Longer(g, f), NEW s \in Sample, NEW i, NEW n, KeptSample(s, i, n, f)
  PROVE  KeptSample(s, i, n, g)
<1>1. s.offset \in Nat /\ s.bytes \in Nat /\ f.pos \in Nat /\ g.pos \in Nat /\ f.pos <= g.pos
  <2>1. s.offset \in Nat /\ s.bytes \in Nat
    BY DEF Sample
  <2>2. FileOK(g) /\ f.pos <= g.pos
    BY DEF Longer
  <2> QED
    BY <2>1, <2>2, FileFacts
<1>2. s.bytes # 0 /\ Base <= s.offset /\ s.offset <= g.pos
  BY <1>1 DEF KeptSample
<1>3. ASSUME s.stored
      PROVE  /\ s.offset + s.bytes <= g.pos
             /\ \A k \in 1 .. s.bytes : g.cells[s.offset + k] = Datum(i, n, k)
  <2>1. s.offset + s.bytes <= f.pos /\ \A k \in 1 .. s.bytes : f.cells[s.offset + k] = Datum(i, n, k)
    BY <1>3 DEF KeptSample
  <2>2. \A k \in 1 .. s.bytes : s.offset + k \in 1 .. f.pos
    BY <1>1, <2>1
  <2>3. \A k \in 1 .. s.bytes : g.cells[s.offset + k] = f.cells[s.offset + k]
    BY <2>2 DEF Longer
  <2> QED
    BY <1>1, <2>1, <2>3
<1> QED
  BY <1>2, <1>3 DEF KeptSample

\* So they do with all samples of a track.
LEMMA KeptTrackLonger ==
  ASSUME NEW f, FileOK(f), NEW g, Longer(g, f), NEW s \in Seq(Sample), NEW i, KeptTrack(s, i, f)
  PROVE  KeptTrack(s, i, g)
<1>1. \A n \in 1 .. Len(s) : s[n] \in Sample /\ KeptSample(s[n], i, n, f)
  BY SampleIs DEF KeptTrack
<1>2. \A n \in 1 .. Len(s) : KeptSample(s[n], i, n, g)
  BY <1>1, KeptSampleLonger
<1> QED
  BY <1>2 DEF KeptTrack

\* One more sample, that begins at the end of f.
LEMMA KeptTrackMore ==
  ASSUME NEW f, FileOK(f), NEW g, Longer(g, f), NEW s \in Seq(Sample), NEW i, KeptTrack(s, i, f),
         NEW x \in Sample, x.offset = f.pos, KeptSample(x, i, Len(s) + 1, g)
  PROVE  KeptTrack(Append(s, x), i, g)
<1> DEFINE r == Append(s, x)
           m == Len(s)
<1>1. KeptTrack(s, i, g)
  BY KeptTrackLonger
<1>2. m \in Nat /\ Len(r) = m + 1 /\ r[m + 1] = x /\ \A n \in 1 .. m : r[n] = s[n]
  OBVIOUS
<1> HIDE DEF r
<1>3. ASSUME NEW n \in 1 .. m + 1
      PROVE  KeptSample(r[n], i, n, g)
  <2>1. CASE n = m + 1
    BY <1>2, <2>1
  <2>2. CASE n # m + 1
    <3>1. n \in 1 .. m
      BY <1>2, <2>2
    <3>2. KeptSample(s[n], i, n, g)
      BY <1>1, <3>1 DEF KeptTrack
    <3> QED
      BY <1>2, <3>1, <3>2
  <2> QED
    BY <2>1, <2>2
<1>4. ASSUME NEW n \in 2 .. m + 1
      PROVE  r[n - 1].offset <= r[n].offset
  <2>1. n - 1 \in 1 .. m /\ r[n - 1] = s[n - 1]
    BY <1>2
  <2>2. CASE n = m + 1
    <3>1. KeptSample(s[n - 1], i, n - 1, f)
      BY <2>1 DEF KeptTrack
    <3>2. s[n - 1].offset <= f.pos
      BY <3>1 DEF KeptSample
    <3> QED
      BY <1>2, <2>1, <2>2, <3>2
  <2>3. CASE n # m + 1
    <3>1. n \in 2 .. m /\ n \in 1 .. m
      BY <1>2, <2>3
    <3>2. s[n - 1].offset <= s[n].offset
      BY <3>1 DEF KeptTrack
    <3> QED
      BY <1>2, <2>1, <3>1, <3>2
  <2> QED
    BY <2>2, <2>3
<1>6. ASSUME NEW n \in 2 .. m + 1, r[n - 1].stored
      PROVE  r[n - 1].offset + r[n - 1].bytes <= r[n].offset
  <2>1. n - 1 \in 1 .. m /\ r[n - 1] = s[n - 1]
    BY <1>2
  <2>2. CASE n = m + 1
    <3>1. KeptSample(s[n - 1], i, n - 1, f)
      BY <2>1 DEF KeptTrack
    <3>2. s[n - 1].offset + s[n - 1].bytes <= f.pos
      BY <1>6, <2>1, <3>1 DEF KeptSample
    <3> QED
      BY <1>2, <2>1, <2>2, <3>2
  <2>3. CASE n # m + 1
    <3>1. n \in 2 .. m /\ n \in 1 .. m
      BY <1>2, <2>3
    <3>2. s[n - 1].offset + s[n - 1].bytes <= s[n].offset
      BY <1>6, <2>1, <3>1 DEF KeptTrack, Behind
    <3> QED
      BY <1>2, <2>1, <3>1, <3>2
  <2> QED
    BY <2>2, <2>3
<1>5. KeptTrack(r, i, g)
  BY <1>2, <1>3, <1>4, <1>6 DEF KeptTrack, Behind
<1> QED
  BY <1>5 DEF r

-----------------------------------------------------------------------------
(* What one write does.                                                    *)

\* The samples of every track were written.
AllStored(trs) == \A i \in 1 .. Len(trs) : \A n \in 1 .. Len(trs[i].samples) : trs[i].samples[n].stored

\* While the media data has not exceeded the room of the disk no write failed.
NoLoss(trs, f, size, room) == size <= room => ~f.error /\ AllStored(trs)

\* A writer while it records: a file, tracks, and the samples of these in the file.
WriterOK(w) ==
  /\ w = [tracks |-> w.tracks, file |-> w.file, mdatSize |-> w.mdatSize]
  /\ w.tracks \in Seq(Track) /\ FileOK(w.file) /\ w.mdatSize \in Nat
  /\ Kept(w.tracks, w.file) /\ NoLoss(w.tracks, w.file, w.mdatSize, setup.room)

\* v is w with one more sample, in track t.
Adds(w, v, t, bytes, dts) ==
  /\ WriterOK(v)
  /\ DOMAIN v.tracks = DOMAIN w.tracks /\ v.tracks[t].handler = w.tracks[t].handler
  /\ \A i \in DOMAIN w.tracks : i # t => v.tracks[i] = w.tracks[i]
  /\ \E s \in Sample : /\ s.bytes = bytes /\ s.dts = dts
                       /\ v.tracks[t].samples = Append(w.tracks[t].samples, s)

LEMMA TrackBecomes ==
  ASSUME NEW x \in Track, NEW y \in Seq(Sample)
  PROVE  LET z == [x EXCEPT !.samples = y]
         IN z \in Track /\ z.handler = x.handler /\ z.samples = y
<1>1. PICK h \in Media, b \in BOOLEAN, q \in Seq(Sample) :
        x = [handler |-> h, sized |-> b, samples |-> q]
  BY DEF Track
<1>2. [x EXCEPT !.samples = y] = [handler |-> h, sized |-> b, samples |-> y]
  BY <1>1
<1>3. [handler |-> h, sized |-> b, samples |-> y] \in Track
  BY DEF Track
<1> QED
  BY <1>1, <1>2, <1>3

\* The words that a write puts at the end of the file are those of its sample.
LEMMA SampleWritten ==
  ASSUME NEW w, WriterOK(w), NEW t \in DOMAIN w.tracks, setup.room \in Nat,
         NEW bytes \in Nat \ {0}, NEW dts \in Int, NEW key \in BOOLEAN
  PROVE  LET v == MovWrite(w, t, bytes, dts, key)
             n == Len(w.tracks[t].samples) + 1
             x == [bytes |-> bytes, dts |-> dts, key |-> key, offset |-> w.file.pos,
                   stored |-> Stored(w, bytes)]
         IN x \in Sample /\ Longer(v.file, w.file) /\ KeptSample(x, t, n, v.file)
            /\ v.file.error = ~Stored(w, bytes)
<1> DEFINE n == Len(w.tracks[t].samples) + 1
           taken == IF w.mdatSize + bytes <= setup.room THEN bytes
                    ELSE IF w.mdatSize < setup.room THEN setup.room - w.mdatSize ELSE 0
           data == [i \in 1 .. taken |-> Datum(t, n, i)]
           after == Write(w.file, data)
           x == [bytes |-> bytes, dts |-> dts, key |-> key, offset |-> w.file.pos,
                 stored |-> Stored(w, bytes)]
           v == MovWrite(w, t, bytes, dts, key)
           put == [after EXCEPT !.error = ~Stored(w, bytes)]
<1>1. v.file = put
  BY DEF MovWrite
<1>2. /\ FileOK(w.file) /\ w.mdatSize \in Nat /\ t \in Nat
      /\ w.tracks \in Seq(Track) /\ t \in 1 .. Len(w.tracks)
  BY DEF WriterOK
<1>3. taken \in Nat /\ Stored(w, bytes) \in BOOLEAN
  <2>1. w.file.error \in BOOLEAN
    BY <1>2, FileFacts
  <2> QED
    BY <1>2, <2>1 DEF Stored
<1>4. n \in Nat
  <2>1. w.tracks[t] \in Track
    BY <1>2
  <2>2. w.tracks[t].samples \in Seq(Sample)
    BY <2>1 DEF Track
  <2> QED
    BY <2>2
<1> HIDE DEF n
<1>5. data \in Seq(Word) /\ Len(data) = taken /\ \A i \in 1 .. taken : data[i] = Datum(t, n, i)
  <2>1. \A i \in 1 .. taken : Datum(t, n, i) \in Word
    <3>1. \A i \in 1 .. taken : i \in Nat
      BY <1>3
    <3> HIDE DEF taken
    <3> QED
      BY <1>2, <1>4, <3>1, WordIs
  <2>2. data \in [1 .. taken -> Word] /\ \A i \in 1 .. taken : data[i] = Datum(t, n, i)
    BY <2>1
  <2> HIDE DEF data, taken
  <2> QED
    BY <1>3, <2>2, SeqFrom
<1> HIDE DEF data
<1>6. Added(after, w.file, data)
  BY <1>2, <1>5, WordsAdded
<1>7. Longer(put, w.file) /\ put.pos = after.pos /\ put.cells = after.cells
  <2>1. Longer(after, w.file) /\ (~Stored(w, bytes)) \in BOOLEAN
    BY <1>3, <1>6 DEF Added
  <2> HIDE DEF after
  <2> QED
    BY <1>2, <2>1, ErrorSet
<1>12. put.error = ~Stored(w, bytes)
  <2>1. FileOK(after)
    BY <1>6 DEF Added, Longer
  <2>2. after = [cells |-> after.cells, pos |-> after.pos, error |-> after.error]
    BY <2>1, FileFacts
  <2> HIDE DEF after
  <2> QED
    BY <1>3, <2>2
<1> HIDE DEF put, after
<1>8. w.file.pos \in Nat /\ Base <= w.file.pos /\ put.pos \in Nat /\ w.file.pos <= put.pos /\ Base \in Nat
  <2>1. w.file.pos \in Nat /\ Base <= w.file.pos /\ Base \in Nat
    BY <1>2, FileFacts
  <2>2. FileOK(put) /\ w.file.pos <= put.pos
    BY <1>7 DEF Longer
  <2>3. put.pos \in Nat
    BY <2>2, FileFacts
  <2> QED
    BY <2>1, <2>2, <2>3
<1>9. x \in Sample
  BY <1>3, <1>8 DEF Sample
<1>10. ASSUME Stored(w, bytes)
       PROVE  /\ w.file.pos + bytes <= put.pos
              /\ \A k \in 1 .. bytes : put.cells[w.file.pos + k] = Datum(t, n, k)
  <2>1. ~w.file.error /\ taken = bytes
    BY <1>10 DEF Stored
  <2>2. /\ after.pos = w.file.pos + taken
        /\ \A k \in 1 .. taken : after.cells[w.file.pos + k] = data[k]
    BY <1>5, <1>6, <2>1 DEF Added
  <2> HIDE DEF taken
  <2> QED
    BY <1>5, <1>7, <1>8, <2>1, <2>2
<1>11. KeptSample(x, t, n, put)
  <2>1. x.bytes = bytes /\ x.offset = w.file.pos /\ x.stored = Stored(w, bytes)
    OBVIOUS
  <2> HIDE DEF x
  <2> QED
    BY <1>8, <1>10, <2>1 DEF KeptSample
<1> QED
  BY <1>1, <1>7, <1>9, <1>11, <1>12 DEF n

\* A write adds its sample, and keeps those of before.
LEMMA WriteAdds ==
  ASSUME NEW w, WriterOK(w), NEW t \in DOMAIN w.tracks, setup.room \in Nat,
         NEW bytes \in Nat \ {0}, NEW dts \in Int, NEW key \in BOOLEAN
  PROVE  Adds(w, MovWrite(w, t, bytes, dts, key), t, bytes, dts)
<1> DEFINE s == [bytes |-> bytes, dts |-> dts, key |-> key, offset |-> w.file.pos,
                 stored |-> Stored(w, bytes)]
           v == MovWrite(w, t, bytes, dts, key)
           f == v.file
           more == [w.tracks EXCEPT ![t].samples = Append(@, s)]
<1>1. v = [tracks |-> more, file |-> f, mdatSize |-> w.mdatSize + bytes]
  BY DEF MovWrite
<1>2. /\ s \in Sample /\ s.bytes = bytes /\ s.dts = dts /\ s.offset = w.file.pos
      /\ Longer(f, w.file) /\ KeptSample(s, t, Len(w.tracks[t].samples) + 1, f)
      /\ f.error = ~Stored(w, bytes) /\ s.stored = Stored(w, bytes)
  BY SampleWritten
<1> HIDE DEF s, f
<1>3. /\ more \in Seq(Track) /\ DOMAIN more = DOMAIN w.tracks
      /\ more[t].handler = w.tracks[t].handler
      /\ more[t].samples = Append(w.tracks[t].samples, s)
      /\ \A i \in DOMAIN w.tracks : i # t => more[i] = w.tracks[i]
  <2>1. w.tracks \in Seq(Track) /\ w.tracks[t] \in Track
    BY DEF WriterOK
  <2> DEFINE x == w.tracks[t]
             y == Append(x.samples, s)
             z == [x EXCEPT !.samples = y]
  <2>2. x.samples \in Seq(Sample) /\ y \in Seq(Sample)
    BY <1>2, <2>1 DEF Track
  <2>3. z \in Track /\ z.handler = x.handler /\ z.samples = y
    <3> HIDE DEF x, y
    <3>1. x \in Track
      BY <2>1 DEF x
    <3> QED
      BY <2>2, <3>1, TrackBecomes
  <2>4. more = [w.tracks EXCEPT ![t] = z]
    OBVIOUS
  <2> HIDE DEF more, z
  <2> QED
    BY <2>1, <2>3, <2>4
<1> HIDE DEF more
<1>4. /\ FileOK(w.file) /\ Kept(w.tracks, w.file) /\ w.mdatSize \in Nat
      /\ w.tracks \in Seq(Track) /\ \A i \in DOMAIN w.tracks : w.tracks[i].samples \in Seq(Sample)
  <2>1. \A y \in Track : y.samples \in Seq(Sample)
    BY DEF Track
  <2>2. /\ FileOK(w.file) /\ Kept(w.tracks, w.file) /\ w.mdatSize \in Nat
        /\ w.tracks \in Seq(Track)
    BY DEF WriterOK
  <2>3. \A i \in DOMAIN w.tracks : w.tracks[i] \in Track
    BY <2>2
  <2> QED
    BY <2>1, <2>2, <2>3
<1>5. ASSUME NEW i \in 1 .. Len(more)
      PROVE  KeptTrack(more[i].samples, i, f)
  <2>1. i \in DOMAIN w.tracks /\ i \in 1 .. Len(w.tracks)
    BY <1>3, <1>4
  <2>2. w.tracks[i].samples \in Seq(Sample) /\ KeptTrack(w.tracks[i].samples, i, w.file)
    BY <1>4, <2>1 DEF Kept
  <2>3. CASE i = t
    <3> DEFINE q == w.tracks[t].samples
    <3>1. q \in Seq(Sample) /\ KeptTrack(q, t, w.file)
      BY <2>2, <2>3
    <3>2. KeptSample(s, t, Len(q) + 1, f)
      BY <1>2
    <3> HIDE DEF q
    <3>3. KeptTrack(Append(q, s), t, f)
      BY <1>2, <1>4, <3>1, <3>2, KeptTrackMore
    <3> QED
      BY <1>3, <2>3, <3>3 DEF q
  <2>4. CASE i # t
    <3>1. KeptTrack(w.tracks[i].samples, i, f)
      BY <1>2, <1>4, <2>2, KeptTrackLonger
    <3> QED
      BY <1>3, <2>1, <2>4, <3>1
  <2> QED
    BY <2>3, <2>4
<1>11. NoLoss(more, f, w.mdatSize + bytes, setup.room)
  <2> SUFFICES ASSUME w.mdatSize + bytes <= setup.room
               PROVE  ~f.error /\ AllStored(more)
    BY DEF NoLoss
  <2>1. w.mdatSize <= setup.room
    BY <1>4
  <2>2. ~w.file.error /\ AllStored(w.tracks)
    BY <2>1 DEF WriterOK, NoLoss
  <2>3. Stored(w, bytes)
    BY <2>2 DEF Stored
  <2>4. ASSUME NEW i \in 1 .. Len(more), NEW n \in 1 .. Len(more[i].samples)
        PROVE  more[i].samples[n].stored
    <3>1. i \in DOMAIN w.tracks /\ i \in 1 .. Len(w.tracks)
      BY <1>3, <1>4
    <3>2. \A k \in 1 .. Len(w.tracks[i].samples) : w.tracks[i].samples[k].stored
      BY <2>2, <3>1 DEF AllStored
    <3>3. CASE i = t
      <4> DEFINE q == w.tracks[t].samples
      <4>1. q \in Seq(Sample) /\ \A k \in 1 .. Len(q) : q[k].stored
        BY <1>4, <3>1, <3>2, <3>3
      <4>2. more[i].samples = Append(q, s) /\ s.stored
        BY <1>2, <1>3, <2>3, <3>3
      <4> HIDE DEF q
      <4>3. n \in 1 .. Len(q) + 1
        BY <4>1, <4>2
      <4>4. CASE n = Len(q) + 1
        BY <4>1, <4>2, <4>4
      <4>5. CASE n # Len(q) + 1
        <5>1. n \in 1 .. Len(q)
          BY <4>1, <4>3, <4>5
        <5>2. Append(q, s)[n] = q[n]
          BY <4>1, <5>1
        <5> QED
          BY <4>1, <4>2, <5>1, <5>2
      <4> QED
        BY <4>4, <4>5
    <3>4. CASE i # t
      <4>1. more[i] = w.tracks[i]
        BY <1>3, <3>1, <3>4
      <4> QED
        BY <3>2, <4>1
    <3> QED
      BY <3>3, <3>4
  <2>5. AllStored(more)
    BY <2>4 DEF AllStored
  <2> QED
    BY <1>2, <2>3, <2>5
<1> HIDE DEF v
<1>6. v.tracks = more /\ v.file = f /\ v.mdatSize = w.mdatSize + bytes
  BY <1>1
<1>12. NoLoss(v.tracks, v.file, v.mdatSize, setup.room)
  BY <1>6, <1>11
<1>7. Kept(v.tracks, v.file)
  BY <1>5, <1>6 DEF Kept
<1>8. FileOK(v.file)
  BY <1>2, <1>6 DEF Longer
<1>9. WriterOK(v)
  BY <1>1, <1>3, <1>4, <1>6, <1>7, <1>8, <1>12 DEF WriterOK
<1>10. Adds(w, v, t, bytes, dts)
  BY <1>2, <1>3, <1>6, <1>9 DEF Adds
<1> QED
  BY <1>10 DEF v

-----------------------------------------------------------------------------
(* The pieces of an audio frame make up the frame.                         *)

\* What the first k pieces of a frame hold.
UpTo(len, k) == Least(k * Chunk, len)

LEMMA PiecesFacts ==
  ASSUME NEW len \in Nat
  PROVE  /\ Pieces(len) \in Seq(Nat)
         /\ UpTo(len, 0) = 0 /\ UpTo(len, Len(Pieces(len))) = len
         /\ \A k \in 1 .. Len(Pieces(len)) :
              /\ UpTo(len, k - 1) \in Nat /\ Pieces(len)[k] # 0
              /\ UpTo(len, k) = UpTo(len, k - 1) + Pieces(len)[k]
<1> DEFINE K == (len + Chunk - 1) \div Chunk
<1>1. Chunk \in Nat \ {0}
  BY WriterAssumption
<1>2. K \in Nat /\ K * Chunk <= len + Chunk - 1 /\ len + Chunk - 1 < K * Chunk + Chunk
  <2>1. len + Chunk - 1 \in Nat
    BY <1>1
  <2> QED
    BY <1>1, <2>1, DivBounds
<1>3. Pieces(len) = [k \in 1 .. K |-> Least(Chunk, len - (k - 1) * Chunk)]
  BY DEF Pieces
<1> HIDE DEF K
<1>4. K * Chunk \in Nat /\ len <= K * Chunk
  BY <1>1, <1>2
<1>5. ASSUME NEW k \in 1 .. K
      PROVE  /\ (k - 1) * Chunk \in Nat /\ (k - 1) * Chunk < len
             /\ k * Chunk = (k - 1) * Chunk + Chunk
  <2>1. k \in Nat /\ k - 1 \in Nat /\ K - 1 \in Nat /\ k - 1 <= K - 1
    BY <1>2
  <2>2. (k - 1) * Chunk <= (K - 1) * Chunk
    BY <1>1, <2>1, TimesMono
  <2>3. K * Chunk = (K - 1) * Chunk + Chunk /\ k * Chunk = (k - 1) * Chunk + Chunk
    <3>1. K = (K - 1) + 1 /\ k = (k - 1) + 1
      BY <1>2
    <3>2. ASSUME NEW j \in Nat
          PROVE  (j + 1) * Chunk = j * Chunk + Chunk
      BY <1>1
    <3> QED
      BY <2>1, <3>1, <3>2
  <2>4. (k - 1) * Chunk \in Nat /\ (K - 1) * Chunk \in Nat
    BY <1>1, <2>1
  <2>5. (K - 1) * Chunk < len
    BY <1>1, <1>2, <1>4, <2>3, <2>4
  <2> QED
    BY <2>2, <2>3, <2>4, <2>5
<1>6. \A k \in 1 .. K : Least(Chunk, len - (k - 1) * Chunk) \in Nat
  BY <1>1, <1>5 DEF Least
<1>7. Pieces(len) \in Seq(Nat) /\ Len(Pieces(len)) = K
  <2>1. Pieces(len) \in [1 .. K -> Nat]
    BY <1>3, <1>6
  <2> QED
    BY <1>2, <2>1, SeqDef
<1>8. UpTo(len, 0) = 0 /\ UpTo(len, K) = len
  <2>1. 0 * Chunk = 0
    BY <1>1
  <2> QED
    BY <1>2, <1>4, <2>1 DEF UpTo, Least
<1>9. ASSUME NEW k \in 1 .. K
      PROVE  /\ UpTo(len, k - 1) \in Nat /\ Pieces(len)[k] # 0
             /\ UpTo(len, k) = UpTo(len, k - 1) + Pieces(len)[k]
  <2> DEFINE a == (k - 1) * Chunk
             b == k * Chunk
  <2>1. a \in Nat /\ a < len /\ b = a + Chunk
    BY <1>5
  <2>2. Pieces(len)[k] = Least(Chunk, len - a)
    BY <1>3
  <2>3. UpTo(len, k - 1) = Least(a, len) /\ UpTo(len, k) = Least(b, len)
    BY DEF UpTo
  <2> HIDE DEF a, b
  <2> QED
    BY <1>1, <2>1, <2>2, <2>3 DEF Least
<1> QED
  BY <1>7, <1>8, <1>9

Sizes(s) == [n \in DOMAIN s |-> s[n].bytes]

LEMMA SizesOfMore ==
  ASSUME NEW s \in Seq(Sample), NEW x \in Sample
  PROVE  /\ Total(Sizes(s)) \in Nat
         /\ Total(Sizes(Append(s, x))) = Total(Sizes(s)) + x.bytes
<1>1. x.bytes \in Nat /\ \A n \in 1 .. Len(s) : s[n].bytes \in Nat
  <2>1. \A n \in 1 .. Len(s) : s[n] \in Sample
    OBVIOUS
  <2>2. \A y \in Sample : y.bytes \in Nat
    BY DEF Sample
  <2> QED
    BY <2>1, <2>2
<1>2. Sizes(s) \in Seq(Nat) /\ Len(Sizes(s)) = Len(s)
  <2>1. Sizes(s) \in [1 .. Len(s) -> Nat]
    BY <1>1 DEF Sizes
  <2> QED
    BY <2>1, SeqDef
<1>3. Sizes(Append(s, x)) = Append(Sizes(s), x.bytes)
  <2>1. Sizes(Append(s, x)) = [n \in 1 .. Len(s) + 1 |-> Append(s, x)[n].bytes]
    BY DEF Sizes
  <2>2. Append(Sizes(s), x.bytes) = [n \in 1 .. Len(s) + 1 |-> Append(Sizes(s), x.bytes)[n]]
    BY <1>1, <1>2
  <2>3. ASSUME NEW n \in 1 .. Len(s) + 1
        PROVE  Append(s, x)[n].bytes = Append(Sizes(s), x.bytes)[n]
    <3>1. CASE n = Len(s) + 1
      BY <1>1, <1>2, <3>1
    <3>2. CASE n # Len(s) + 1
      <4>1. n \in 1 .. Len(s) /\ Append(s, x)[n] = s[n]
        BY <3>2
      <4>2. Append(Sizes(s), x.bytes)[n] = Sizes(s)[n]
        BY <1>1, <1>2, <4>1
      <4> QED
        BY <4>1, <4>2 DEF Sizes
    <3> QED
      BY <3>1, <3>2
  <2> QED
    BY <2>1, <2>2, <2>3
<1> QED
  BY <1>1, <1>2, <1>3, TotalOfMore

\* v is w with n words more of samples, in track t.
AddsMany(w, v, t, n) ==
  /\ WriterOK(v)
  /\ DOMAIN v.tracks = DOMAIN w.tracks /\ v.tracks[t].handler = w.tracks[t].handler
  /\ \A i \in DOMAIN w.tracks : i # t => v.tracks[i] = w.tracks[i]
  /\ Total(Sizes(v.tracks[t].samples)) = Total(Sizes(w.tracks[t].samples)) + n

LEMMA SamplesOf ==
  ASSUME NEW w, WriterOK(w), NEW t \in DOMAIN w.tracks
  PROVE  w.tracks[t].samples \in Seq(Sample)
<1>1. w.tracks[t] \in Track
  BY DEF WriterOK
<1>2. \A x \in Track : x.samples \in Seq(Sample)
  BY DEF Track
<1> QED
  BY <1>1, <1>2

LEMMA AddsNone ==
  ASSUME NEW w, WriterOK(w), NEW t \in DOMAIN w.tracks
  PROVE  AddsMany(w, w, t, 0)
<1>1. w.tracks[t].samples \in Seq(Sample)
  BY SamplesOf
<1>2. PICK x : x \in Sample
  <2>1. [bytes |-> 0, dts |-> 0, key |-> FALSE, offset |-> 0, stored |-> FALSE] \in Sample
    BY DEF Sample
  <2> QED
    BY <2>1
<1>3. Total(Sizes(w.tracks[t].samples)) \in Nat
  BY <1>1, <1>2, SizesOfMore
<1> QED
  BY <1>3 DEF AddsMany

LEMMA AddsOneMore ==
  ASSUME NEW w, NEW u, NEW v, NEW t \in DOMAIN w.tracks, NEW n \in Nat, NEW bytes \in Nat,
         NEW dts, AddsMany(w, u, t, n), Adds(u, v, t, bytes, dts), WriterOK(w)
  PROVE  AddsMany(w, v, t, n + bytes)
<1>1. WriterOK(u) /\ WriterOK(v) /\ t \in DOMAIN u.tracks
  BY DEF AddsMany, Adds
<1>2. u.tracks[t].samples \in Seq(Sample) /\ w.tracks[t].samples \in Seq(Sample)
  BY <1>1, SamplesOf
<1>3. PICK s \in Sample : s.bytes = bytes /\ v.tracks[t].samples = Append(u.tracks[t].samples, s)
  BY DEF Adds
<1>4. /\ Total(Sizes(v.tracks[t].samples)) = Total(Sizes(u.tracks[t].samples)) + bytes
      /\ Total(Sizes(w.tracks[t].samples)) \in Nat
  BY <1>2, <1>3, SizesOfMore
<1>5. /\ DOMAIN v.tracks = DOMAIN w.tracks /\ v.tracks[t].handler = w.tracks[t].handler
      /\ \A i \in DOMAIN w.tracks : i # t => v.tracks[i] = w.tracks[i]
  BY DEF AddsMany, Adds
<1>6. Total(Sizes(u.tracks[t].samples)) = Total(Sizes(w.tracks[t].samples)) + n
  BY DEF AddsMany
<1>7. Total(Sizes(v.tracks[t].samples)) = Total(Sizes(w.tracks[t].samples)) + (n + bytes)
  BY <1>4, <1>6
<1> QED
  BY <1>1, <1>5, <1>7 DEF AddsMany

\* The pieces are written one after the other.
LEMMA PiecesAdded ==
  ASSUME NEW w, WriterOK(w), NEW t \in DOMAIN w.tracks, setup.room \in Nat,
         NEW len \in Nat, NEW time \in Int
  PROVE  LET pieces == Pieces(len)
             written[k \in 0 .. Len(pieces)] ==
               IF k = 0 THEN w ELSE MovWrite(written[k - 1], t, pieces[k], time, FALSE)
         IN AddsMany(w, written[Len(pieces)], t, len)
<1> DEFINE pieces == Pieces(len)
           K == Len(pieces)
           Piece(u, k) == MovWrite(u, t, pieces[k], time, FALSE)
           Step(u) == [k \in 0 .. K |-> IF k = 0 THEN w ELSE MovWrite(u[k - 1], t, pieces[k], time, FALSE)]
           written == CHOOSE u : u = Step(u)
           Runs(m, g) == /\ g = [k \in 0 .. m |-> g[k]] /\ g[0] = w
                         /\ \A k \in 1 .. m : g[k] = Piece(g[k - 1], k)
                         /\ \A k \in 0 .. m : AddsMany(w, g[k], t, UpTo(len, k))
           Bad == { m \in 0 .. K : ~\E g : Runs(m, g) }
<1>1. /\ pieces \in Seq(Nat) /\ K \in Nat /\ UpTo(len, 0) = 0 /\ UpTo(len, K) = len
      /\ \A k \in 1 .. K : /\ UpTo(len, k - 1) \in Nat /\ pieces[k] \in Nat \ {0}
                           /\ UpTo(len, k) = UpTo(len, k - 1) + pieces[k]
  <2>1. /\ pieces \in Seq(Nat) /\ UpTo(len, 0) = 0 /\ UpTo(len, K) = len
        /\ \A k \in 1 .. K : /\ UpTo(len, k - 1) \in Nat /\ pieces[k] # 0
                             /\ UpTo(len, k) = UpTo(len, k - 1) + pieces[k]
    BY PiecesFacts
  <2> HIDE DEF pieces
  <2>2. K \in Nat /\ \A k \in 1 .. K : pieces[k] \in Nat
    BY <2>1
  <2> QED
    BY <2>1, <2>2
<1>2. ASSUME NEW u, NEW k \in 1 .. K, AddsMany(w, u, t, UpTo(len, k - 1))
      PROVE  AddsMany(w, Piece(u, k), t, UpTo(len, k))
  <2>1. WriterOK(u) /\ t \in DOMAIN u.tracks
    BY <1>2 DEF AddsMany
  <2>2. Adds(u, Piece(u, k), t, pieces[k], time)
    <3> HIDE DEF pieces
    <3> QED
      BY <1>1, <2>1, WriteAdds
  <2> HIDE DEF Piece, pieces
  <2> QED
    BY <1>1, <1>2, <2>2, AddsOneMore
<1> HIDE DEF pieces, Piece
<1>3. Bad = {}
  <2> SUFFICES ASSUME Bad # {}
               PROVE  FALSE
    OBVIOUS
  <2>1. Bad \in SUBSET Nat
    BY <1>1
  <2>2. PICK m \in Bad : \A k \in Bad : m <= k
    <3> HIDE DEF Bad
    <3> QED
      BY <2>1, MinOfNat
  <2>3. m \in 0 .. K
    OBVIOUS
  <2>4. m # 0
    <3> DEFINE g == [k \in 0 .. 0 |-> w]
    <3>1. g[0] = w /\ g = [k \in 0 .. 0 |-> g[k]]
      OBVIOUS
    <3>2. AddsMany(w, w, t, UpTo(len, 0))
      BY <1>1, AddsNone
    <3> HIDE DEF g
    <3>3. Runs(0, g)
      BY <3>1, <3>2
    <3> HIDE DEF Runs
    <3> QED
      BY <2>2, <3>3
  <2>5. m \in 1 .. K /\ m - 1 \in 0 .. K /\ m - 1 \notin Bad
    <3> HIDE DEF Bad
    <3> QED
      BY <1>1, <2>2, <2>3, <2>4
  <2>6. PICK g : Runs(m - 1, g)
    <3> HIDE DEF Runs
    <3> QED
      BY <2>5
  <2> DEFINE h == [k \in 0 .. m |-> IF k = m THEN Piece(g[m - 1], m) ELSE g[k]]
  <2>7. Runs(m, h)
    <3>1. h = [k \in 0 .. m |-> h[k]] /\ h[m] = Piece(g[m - 1], m)
      BY <2>5
    <3>2. \A k \in 0 .. m - 1 : k \in 0 .. m /\ k # m /\ h[k] = g[k]
      BY <2>5
    <3>3. m - 1 \in 0 .. m - 1 /\ 0 \in 0 .. m - 1
      BY <2>5
    <3> HIDE DEF h
    <3>4. h[0] = w
      BY <2>6, <3>2, <3>3
    <3>5. AddsMany(w, h[m], t, UpTo(len, m))
      <4>1. AddsMany(w, g[m - 1], t, UpTo(len, m - 1))
        BY <2>6, <3>3
      <4> QED
        BY <1>2, <2>5, <3>1, <4>1
    <3>6. ASSUME NEW k \in 1 .. m
          PROVE  h[k] = Piece(h[k - 1], k)
      <4>1. k - 1 \in 0 .. m - 1 /\ h[k - 1] = g[k - 1]
        BY <2>5, <3>2
      <4>2. CASE k = m
        BY <3>1, <4>1, <4>2
      <4>3. CASE k # m
        <5>1. k \in 1 .. m - 1 /\ k \in 0 .. m - 1
          BY <2>5, <4>3
        <5>2. g[k] = Piece(g[k - 1], k)
          BY <2>6, <5>1
        <5> QED
          BY <3>2, <4>1, <5>1, <5>2
      <4> QED
        BY <4>2, <4>3
    <3>7. ASSUME NEW k \in 0 .. m
          PROVE  AddsMany(w, h[k], t, UpTo(len, k))
      <4>1. CASE k = m
        BY <3>5, <4>1
      <4>2. CASE k # m
        <5>1. k \in 0 .. m - 1
          BY <2>5, <4>2
        <5> QED
          BY <2>6, <3>2, <5>1
      <4> QED
        BY <4>1, <4>2
    <3> QED
      BY <3>1, <3>4, <3>6, <3>7
  <2>8. m \notin Bad
    <3> HIDE DEF h, Runs
    <3> QED
      BY <2>7
  <2> QED
    BY <2>2, <2>8
<1>4. PICK g : Runs(K, g)
  <2>1. K \in 0 .. K /\ K \notin Bad
    <3> HIDE DEF Bad
    <3> QED
      BY <1>1, <1>3
  <2> HIDE DEF Runs
  <2> QED
    BY <2>1
<1>5. g = Step(g)
  <2>1. \A k \in 0 .. K : g[k] = IF k = 0 THEN w ELSE MovWrite(g[k - 1], t, pieces[k], time, FALSE)
    <3>1. \A k \in 0 .. K : k # 0 => k \in 1 .. K
      BY <1>1
    <3> QED
      BY <1>4, <3>1 DEF Piece
  <2>2. g = [k \in 0 .. K |-> g[k]]
    BY <1>4
  <2> QED
    BY <2>1, <2>2, Zenon
<1>6. written = Step(written)
  BY <1>5, Zenon DEF written
<1>7. written = g
  <2> HIDE DEF written
  <2>1. DOMAIN written = 0 .. K /\ written = [k \in 0 .. K |-> written[k]]
    BY <1>6
  <2>2. \A k \in 0 .. K :
          written[k] = IF k = 0 THEN w ELSE MovWrite(written[k - 1], t, pieces[k], time, FALSE)
    BY <1>6, Zenon
  <2>3. 0 \in 0 .. K /\ \A k \in 1 .. K : k \in 0 .. K /\ k # 0
    BY <1>1
  <2>4. written[0] = w /\ \A k \in 1 .. K : written[k] = Piece(written[k - 1], k)
    BY <2>2, <2>3 DEF Piece
  <2>5. DOMAIN g = 0 .. K /\ g = [k \in 0 .. K |-> g[k]]
    BY <1>4
  <2>6. written[0] = g[0] /\ \A k \in 1 .. K : written[k - 1] = g[k - 1] => written[k] = g[k]
    BY <1>4, <2>4
  <2> QED
    BY <1>1, <2>1, <2>5, <2>6, SameSteps
<1>8. AddsMany(w, written[K], t, len)
  <2>1. K \in 0 .. K
    BY <1>1
  <2> HIDE DEF written
  <2>2. AddsMany(w, g[K], t, UpTo(len, K))
    BY <1>4, <2>1
  <2> QED
    BY <1>1, <1>7, <2>2
<1> QED
  BY <1>8, Zenon DEF pieces

-----------------------------------------------------------------------------
(* The tracks: at most one for each medium, where m_lVideoTrack and         *)
(* m_lAudioTrack say.                                                      *)

Layout(tr, tk) ==
  /\ tr \in Seq(Track) /\ tk \in [Media -> Nat] /\ Len(tr) <= 2
  /\ \A m \in Media : tk[m] \in 0 .. Len(tr) /\ (tk[m] > 0 => tr[tk[m]].handler = m)
  /\ \A i \in DOMAIN tr : tk[tr[i].handler] = i

LEMMA LayoutKept ==
  ASSUME NEW tr, NEW tk, Layout(tr, tk), NEW ur \in Seq(Track), DOMAIN ur = DOMAIN tr,
         \A i \in DOMAIN tr : ur[i].handler = tr[i].handler
  PROVE  Layout(ur, tk)
<1>1. tr \in Seq(Track) /\ Len(ur) = Len(tr) /\ DOMAIN tr = 1 .. Len(tr) /\ Len(tr) \in Nat
  BY DEF Layout
<1>2. ASSUME NEW m \in Media, tk[m] > 0
      PROVE  ur[tk[m]].handler = m
  <2>1. tk[m] \in DOMAIN tr
    BY <1>1, <1>2 DEF Layout
  <2> QED
    BY <1>2, <2>1 DEF Layout
<1> QED
  BY <1>1, <1>2 DEF Layout

\* A frame of a medium that has no track yet opens one.
Opened(tr, tk, m, sized) == IF tk[m] = 0 THEN Append(tr, NewTrack(m, sized)) ELSE tr
TrackOf(tr, tk, m, sized) == IF tk[m] = 0 THEN Len(Opened(tr, tk, m, sized)) ELSE tk[m]

LEMMA LayoutOpened ==
  ASSUME NEW tr, NEW tk, Layout(tr, tk), NEW m \in Media, NEW sized \in BOOLEAN
  PROVE  LET ur == Opened(tr, tk, m, sized)
             t == TrackOf(tr, tk, m, sized)
         IN /\ Layout(ur, [tk EXCEPT ![m] = t])
            /\ t \in DOMAIN ur /\ t # 0 /\ ur[t].handler = m
            /\ ur[t].samples = IF tk[m] = 0 THEN << >> ELSE tr[tk[m]].samples
            /\ \A i \in DOMAIN ur : i # t => i \in DOMAIN tr /\ ur[i] = tr[i]
<1> DEFINE x == NewTrack(m, sized)
           ur == Opened(tr, tk, m, sized)
           t == TrackOf(tr, tk, m, sized)
           uk == [tk EXCEPT ![m] = t]
<1>1. /\ tr \in Seq(Track) /\ Len(tr) \in 0 .. 2 /\ DOMAIN tr = 1 .. Len(tr)
      /\ tk \in [Media -> Nat] /\ \A k \in Media : tk[k] \in 0 .. Len(tr)
      /\ \A k \in Media : tk[k] > 0 => tr[tk[k]].handler = k
      /\ \A i \in DOMAIN tr : tr[i].handler \in Media /\ tk[tr[i].handler] = i
  <2>1. \A y \in Track : y.handler \in Media
    BY DEF Track
  <2>2. tr \in Seq(Track) /\ \A i \in DOMAIN tr : tr[i] \in Track
    BY DEF Layout
  <2>3. Len(tr) \in 0 .. 2 /\ DOMAIN tr = 1 .. Len(tr)
    <3>1. Len(tr) <= 2
      BY DEF Layout
    <3>2. Len(tr) \in Nat /\ DOMAIN tr = 1 .. Len(tr)
      BY <2>2
    <3> QED
      BY <3>1, <3>2
  <2>4. /\ tk \in [Media -> Nat] /\ \A k \in Media : tk[k] \in 0 .. Len(tr)
        /\ \A k \in Media : tk[k] > 0 => tr[tk[k]].handler = k
        /\ \A i \in DOMAIN tr : tk[tr[i].handler] = i
    BY DEF Layout
  <2>5. \A i \in DOMAIN tr : tr[i].handler \in Media
    BY <2>1, <2>2
  <2> QED
    BY <2>2, <2>3, <2>4, <2>5
<1>2. CASE tk[m] # 0
  <2>1. ur = tr /\ t = tk[m]
    BY <1>2 DEF Opened, TrackOf
  <2>2. uk = tk
    BY <1>1, <2>1
  <2>3. t \in DOMAIN ur /\ t # 0 /\ ur[t].handler = m
    BY <1>1, <1>2, <2>1
  <2>4. Layout(ur, uk)
    BY <2>1, <2>2
  <2>5. ur[t].samples = IF tk[m] = 0 THEN << >> ELSE tr[tk[m]].samples
    BY <1>2, <2>1
  <2>6. \A i \in DOMAIN ur : i # t => i \in DOMAIN tr /\ ur[i] = tr[i]
    BY <2>1
  <2> HIDE DEF uk, ur, t
  <2> QED
    BY <2>3, <2>4, <2>5, <2>6 DEF uk, ur, t
<1>3. CASE tk[m] = 0
  <2>1. x \in Track /\ x.handler = m /\ x.samples = << >>
    BY DEF NewTrack, Track
  <2>2. ur = Append(tr, x) /\ t = Len(ur)
    BY <1>3 DEF Opened, TrackOf
  <2> HIDE DEF x, ur, t
  <2>3. /\ ur \in Seq(Track) /\ Len(ur) = Len(tr) + 1 /\ ur[Len(tr) + 1] = x
        /\ DOMAIN ur = 1 .. Len(tr) + 1 /\ \A i \in 1 .. Len(tr) : ur[i] = tr[i]
    BY <1>1, <2>1, <2>2
  <2>4. Len(tr) <= 1
    <3> SUFFICES ASSUME Len(tr) = 2
                 PROVE  FALSE
      BY <1>1
    <3>1. tr[1].handler # m /\ tr[2].handler # m
      BY <1>1, <1>3
    <3>2. tr[1].handler = tr[2].handler
      BY <1>1, <3>1 DEF Media
    <3> QED
      BY <1>1, <3>2
  <2>5. uk \in [Media -> Nat] /\ uk[m] = t /\ \A k \in Media : k # m => uk[k] = tk[k]
    BY <1>1, <2>2, <2>3
  <2> HIDE DEF uk
  <2>6. ASSUME NEW k \in Media
        PROVE  uk[k] \in 0 .. Len(ur) /\ (uk[k] > 0 => ur[uk[k]].handler = k)
    <3>1. CASE k = m
      BY <1>1, <2>1, <2>2, <2>3, <2>5, <3>1
    <3>2. CASE k # m
      <4>1. uk[k] = tk[k] /\ tk[k] \in 0 .. Len(tr)
        BY <1>1, <2>5, <3>2
      <4>2. tk[k] > 0 => ur[tk[k]] = tr[tk[k]]
        BY <1>1, <2>3, <4>1
      <4> QED
        BY <1>1, <2>3, <4>1, <4>2
    <3> QED
      BY <3>1, <3>2
  <2>7. ASSUME NEW i \in DOMAIN ur
        PROVE  uk[ur[i].handler] = i
    <3>1. CASE i = Len(tr) + 1
      BY <2>1, <2>2, <2>3, <2>5, <3>1
    <3>2. CASE i # Len(tr) + 1
      <4>1. i \in DOMAIN tr /\ ur[i] = tr[i] /\ i # 0
        BY <1>1, <2>3, <3>2
      <4>2. tr[i].handler # m
        BY <1>1, <1>3, <4>1
      <4> QED
        BY <1>1, <2>5, <4>1, <4>2
    <3> QED
      BY <3>1, <3>2
  <2>8. Layout(ur, uk)
    BY <1>1, <2>3, <2>4, <2>5, <2>6, <2>7 DEF Layout
  <2>9. \A i \in DOMAIN ur : i # t => i \in DOMAIN tr /\ ur[i] = tr[i]
    BY <1>1, <2>2, <2>3
  <2>10. t \in DOMAIN ur /\ t # 0 /\ ur[t].handler = m /\ ur[t].samples = << >>
    BY <1>1, <2>1, <2>2, <2>3
  <2> QED
    BY <1>3, <2>8, <2>9, <2>10 DEF uk, ur, t
<1> QED
  BY <1>2, <1>3

-----------------------------------------------------------------------------
(* The times of the video.                                                 *)

\* No sample is later than last, and they are in order.
Forward(codec, s, last) ==
  /\ NeverBack(s)
  /\ codec = "H264" => \A n \in 2 .. Len(s) : s[n].dts > s[n - 1].dts
  /\ \A n \in DOMAIN s : s[n].dts <= last

Clocks == [Media -> [pts : Nat, last : Nat]]

LEMMA VideoTimes ==
  ASSUME clock \in Clocks, NEW pts \in Nat
  PROVE  /\ VideoTime(pts) \in Nat /\ VideoTime(pts) >= clock["video"].last
         /\ setup.codec = "H264" => VideoTime(pts) > clock["video"].last
<1> DEFINE last == clock["video"].last
           before == Known("video", pts)
<1>1. last \in Nat /\ clock["video"].pts \in Nat
  BY DEF Clocks, Media
<1>2. before \in Nat
  BY <1>1 DEF Known
<1>3. VideoTime(pts) = IF before < pts \/ (setup.codec = "H265" /\ before = pts)
                       THEN last + pts - before ELSE last + 40
  BY DEF VideoTime
<1> HIDE DEF last, before
<1>4. CASE setup.codec = "H265" /\ before = pts
  BY <1>1, <1>2, <1>3, <1>4 DEF last
<1>5. CASE ~(setup.codec = "H265" /\ before = pts)
  BY <1>1, <1>2, <1>3, <1>5 DEF last
<1> QED
  BY <1>4, <1>5

LEMMA ForwardOfNone ==
  ASSUME NEW codec, NEW last
  PROVE  Forward(codec, << >>, last)
BY DEF Forward, NeverBack

LEMMA ForwardLater ==
  ASSUME NEW codec, NEW s \in Seq(Sample), NEW last \in Int, NEW time \in Int,
         Forward(codec, s, last), last <= time
  PROVE  Forward(codec, s, time)
<1>1. \A n \in DOMAIN s : s[n].dts \in Int
  <2>1. \A x \in Sample : x.dts \in Int
    BY DEF Sample
  <2>2. \A n \in DOMAIN s : s[n] \in Sample
    OBVIOUS
  <2> QED
    BY <2>1, <2>2
<1> QED
  BY <1>1 DEF Forward

LEMMA ForwardOfMore ==
  ASSUME NEW codec, NEW s \in Seq(Sample), NEW x \in Sample, NEW last \in Int,
         Forward(codec, s, last), last <= x.dts, codec = "H264" => last < x.dts
  PROVE  Forward(codec, Append(s, x), x.dts)
<1> DEFINE u == Append(s, x)
<1>1. x.dts \in Int /\ \A n \in 1 .. Len(s) : s[n].dts \in Int /\ s[n].dts <= last
  <2>1. \A y \in Sample : y.dts \in Int
    BY DEF Sample
  <2>2. \A n \in 1 .. Len(s) : s[n] \in Sample
    OBVIOUS
  <2> QED
    BY <2>1, <2>2 DEF Forward
<1>2. /\ Len(s) \in Nat /\ Len(u) = Len(s) + 1 /\ DOMAIN u = 1 .. Len(u) /\ u[Len(u)] = x
      /\ \A n \in 1 .. Len(s) : u[n] = s[n]
  OBVIOUS
<1> HIDE DEF u
<1>3. ASSUME NEW n \in 2 .. Len(u)
      PROVE  u[n].dts >= u[n - 1].dts /\ (codec = "H264" => u[n].dts > u[n - 1].dts)
  <2>1. n - 1 \in 1 .. Len(s) /\ u[n - 1] = s[n - 1]
    BY <1>2
  <2>2. CASE n = Len(u)
    BY <1>1, <1>2, <2>1, <2>2
  <2>3. CASE n # Len(u)
    <3>1. n \in 2 .. Len(s) /\ u[n] = s[n]
      BY <1>2, <2>3
    <3> QED
      BY <2>1, <3>1 DEF Forward, NeverBack
  <2> QED
    BY <2>2, <2>3
<1>4. ASSUME NEW n \in DOMAIN u
      PROVE  u[n].dts <= x.dts
  <2>1. CASE n = Len(u)
    BY <1>1, <1>2, <2>1
  <2>2. CASE n # Len(u)
    <3>1. n \in 1 .. Len(s) /\ u[n] = s[n]
      BY <1>2, <2>2
    <3> QED
      BY <1>1, <3>1
  <2> QED
    BY <2>1, <2>2
<1>5. Forward(codec, u, x.dts)
  BY <1>3, <1>4 DEF Forward, NeverBack
<1> QED
  BY <1>5 DEF u

-----------------------------------------------------------------------------
(* The invariant.                                                          *)

\* The moov box is open as long as the writer is.
MoovState(mov, idx) ==
  mov \in BOOLEAN /\ idx \in {"open", "written", "lost", "stopped"} /\ (mov <=> idx = "open")

\* What the writer keeps while it records.
Recording(trs, f, size, room) == FileOK(f) /\ Kept(trs, f) /\ NoLoss(trs, f, size, room)

WriterInv ==
  /\ setup \in Setups /\ MoovState(m_mov, index)
  /\ frames \in 0 .. MaxFrames /\ mdatSize \in Nat /\ accepted \in Nat
  /\ clock \in Clocks /\ avc \in [config : BOOLEAN, sized : BOOLEAN]
  /\ Layout(tracks, track)
  /\ m_mov => Recording(tracks, file, mdatSize, setup.room)
  /\ DiskHeld => AllStored(tracks)
  /\ \A i \in DOMAIN tracks : tracks[i].handler = "video" =>
       Forward(setup.codec, tracks[i].samples, clock["video"].last)

\* The file a recording begins with.
LEMMA NewFileOK == FileOK(NewFile)
<1> DEFINE a == Header("ftyp", FtypSize)
           b == Filler(FtypSize - 2)
           c == Header("free", 2)
           d == Header("mdat", 0)
           ab == a \o b
           abc == ab \o c
           cells == abc \o d
<1>1. FtypSize \in Nat /\ FtypSize >= 2 /\ FtypSize - 2 \in Nat
  BY SizesAssumption
<1>2. /\ a \in Seq(Word) /\ Len(a) = 2 /\ a[1] = [box |-> "ftyp", size |-> FtypSize]
      /\ b \in Seq(Word) /\ Len(b) = FtypSize - 2
      /\ c \in Seq(Word) /\ Len(c) = 2 /\ c[1] = [box |-> "free", size |-> 2]
      /\ d \in Seq(Word) /\ Len(d) = 2
  BY <1>1, HeaderIs, FillerIs DEF Boxes
<1>3. NewFile = [cells |-> cells, pos |-> Len(cells), error |-> FALSE]
  BY DEF NewFile
<1> HIDE DEF a, b, c, d
<1>4. ab \in Seq(Word) /\ Len(ab) = FtypSize /\ ab[1] = a[1]
  <2>1. /\ a \o b \in Seq(Word) /\ Len(a \o b) = Len(a) + Len(b)
        /\ \A k \in 1 .. Len(a) : (a \o b)[k] = a[k]
    <3>1. a \in Seq(Word) /\ b \in Seq(Word)
      BY <1>2
    <3> QED
      BY <3>1, ConcatIs
  <2> QED
    BY <1>1, <1>2, <2>1
<1> HIDE DEF ab
<1>5. abc \in Seq(Word) /\ Len(abc) = FtypSize + 2 /\ abc[1] = ab[1] /\ abc[FtypSize + 1] = c[1]
  <2>1. /\ ab \o c \in Seq(Word) /\ Len(ab \o c) = Len(ab) + Len(c)
        /\ \A k \in 1 .. Len(ab) : (ab \o c)[k] = ab[k]
        /\ \A k \in 1 .. Len(c) : (ab \o c)[Len(ab) + k] = c[k]
    <3>1. ab \in Seq(Word) /\ c \in Seq(Word)
      BY <1>2, <1>4
    <3> QED
      BY <3>1, ConcatIs
  <2> QED
    BY <1>1, <1>2, <1>4, <2>1
<1> HIDE DEF abc
<1>6. /\ cells \in Seq(Word) /\ Len(cells) = FtypSize + 4
      /\ cells[1] = abc[1] /\ cells[FtypSize + 1] = abc[FtypSize + 1]
  <2>1. /\ abc \o d \in Seq(Word) /\ Len(abc \o d) = Len(abc) + Len(d)
        /\ \A k \in 1 .. Len(abc) : (abc \o d)[k] = abc[k]
    <3>1. abc \in Seq(Word) /\ d \in Seq(Word)
      BY <1>2, <1>5
    <3> QED
      BY <3>1, ConcatIs
  <2> QED
    BY <1>1, <1>2, <1>5, <2>1
<1> HIDE DEF cells
<1>7. /\ NewFile.cells = cells /\ NewFile.pos = Len(cells)
      /\ NewFile \in [cells : {cells}, pos : {Len(cells)}, error : {FALSE}]
  BY <1>3
<1>8. NewFile \in FileOf(Word)
  <2> DEFINE C == Word
  <2>1. cells \in Seq(C) /\ Len(cells) \in Nat
    BY <1>1, <1>6
  <2> HIDE DEF C
  <2>2. NewFile \in FileOf(C)
    BY <1>3, <2>1 DEF FileOf
  <2> QED
    BY <2>2 DEF C
<1>9. NewFile.pos >= Base
  BY <1>1, <1>6, <1>7 DEF Base
<1> QED
  BY <1>2, <1>4, <1>5, <1>6, <1>7, <1>8, <1>9 DEF FileOK

LEMMA InitWriterInv == Init => WriterInv
<1> SUFFICES ASSUME Init
             PROVE  WriterInv
  OBVIOUS
<1>1. FileOK(NewFile)
  BY NewFileOK
<1>2. Layout(<< >>, [m \in Media |-> 0])
  BY DEF Layout
<1>3. clock \in Clocks
  BY DEF Init, Clocks
<1>4. tracks = << >> /\ track = [m \in Media |-> 0] /\ file = NewFile
  BY DEF Init
<1>6. Kept(<< >>, NewFile)
  BY DEF Kept
<1>5. frames \in 0 .. MaxFrames
  BY WriterAssumption DEF Init
<1>7. AllStored(<< >>) /\ ~NewFile.error
  BY DEF AllStored, NewFile
<1>8. Recording(tracks, file, mdatSize, setup.room)
  BY <1>1, <1>4, <1>6, <1>7 DEF Recording, NoLoss
<1>9. MoovState(m_mov, index)
  BY DEF Init, MoovState
<1>10. setup \in Setups /\ mdatSize \in Nat /\ accepted \in Nat
       /\ avc \in [config : BOOLEAN, sized : BOOLEAN]
  BY DEF Init
<1>11. Layout(tracks, track)
  BY <1>2, <1>4
<1>12. AllStored(tracks)
  BY <1>4, <1>7
<1>13. \A i \in DOMAIN tracks : tracks[i].handler = "video" =>
         Forward(setup.codec, tracks[i].samples, clock["video"].last)
  BY <1>4
<1> QED
  BY <1>3, <1>5, <1>8, <1>9, <1>10, <1>11, <1>12, <1>13 DEF WriterInv

LEMMA SetupFacts ==
  ASSUME WriterInv
  PROVE  setup.room \in Nat /\ setup.codec \in {"H264", "H265"}
BY WriterAssumption DEF WriterInv

\* The writer a frame of medium m is written to.
LEMMA OpenedWriter ==
  ASSUME WriterInv, m_mov, NEW m \in Media, NEW sized \in BOOLEAN
  PROVE  LET w == [Writer EXCEPT !.tracks = Opened(tracks, track, m, sized)]
         IN WriterOK(w) /\ w.tracks = Opened(tracks, track, m, sized)
<1> DEFINE ur == Opened(tracks, track, m, sized)
           w == [Writer EXCEPT !.tracks = ur]
<1>1. /\ Layout(tracks, track) /\ FileOK(file) /\ mdatSize \in Nat /\ Kept(tracks, file)
      /\ NoLoss(tracks, file, mdatSize, setup.room)
  BY DEF WriterInv, Recording
<1> DEFINE t == TrackOf(tracks, track, m, sized)
<1>2. /\ ur \in Seq(Track) /\ t \in DOMAIN ur
      /\ ur[t].samples = IF track[m] = 0 THEN << >> ELSE tracks[track[m]].samples
      /\ \A i \in DOMAIN ur : i # t => i \in DOMAIN tracks /\ ur[i] = tracks[i]
  <2>1. /\ Layout(ur, [track EXCEPT ![m] = t]) /\ t \in DOMAIN ur
        /\ ur[t].samples = IF track[m] = 0 THEN << >> ELSE tracks[track[m]].samples
        /\ \A i \in DOMAIN ur : i # t => i \in DOMAIN tracks /\ ur[i] = tracks[i]
    BY <1>1, LayoutOpened
  <2> HIDE DEF ur, t
  <2> QED
    BY <2>1 DEF Layout
<1>4. track[m] # 0 => track[m] = t /\ track[m] \in DOMAIN tracks
  <2>1. tracks \in Seq(Track) /\ track[m] \in 0 .. Len(tracks)
    BY <1>1 DEF Layout
  <2> QED
    BY <2>1 DEF TrackOf
<1> HIDE DEF ur, t
<1>5. tracks \in Seq(Track)
  BY <1>1 DEF Layout
<1>6. Kept(ur, file)
  <2> SUFFICES ASSUME NEW i \in 1 .. Len(ur)
               PROVE  KeptTrack(ur[i].samples, i, file)
    BY DEF Kept
  <2>1. i \in DOMAIN ur
    BY <1>2
  <2>2. \A j \in DOMAIN tracks : KeptTrack(tracks[j].samples, j, file)
    BY <1>1, <1>5 DEF Kept
  <2>3. CASE i = t /\ track[m] = 0
    <3>1. ur[i].samples = << >>
      BY <1>2, <2>3
    <3>2. KeptTrack(<< >>, i, file)
      BY DEF KeptTrack, Behind
    <3> QED
      BY <3>1, <3>2
  <2>4. CASE i = t /\ track[m] # 0
    BY <1>2, <1>4, <2>2, <2>4
  <2>5. CASE i # t
    BY <1>2, <2>1, <2>2, <2>5
  <2> QED
    BY <2>3, <2>4, <2>5
<1>7. AllStored(tracks) => AllStored(ur)
  <2> SUFFICES ASSUME AllStored(tracks), NEW i \in 1 .. Len(ur)
               PROVE  \A n \in 1 .. Len(ur[i].samples) : ur[i].samples[n].stored
    BY DEF AllStored
  <2>1. i \in DOMAIN ur
    BY <1>2
  <2>2. \A j \in DOMAIN tracks : \A n \in 1 .. Len(tracks[j].samples) : tracks[j].samples[n].stored
    BY <1>5 DEF AllStored
  <2>3. CASE i = t /\ track[m] = 0
    <3>1. ur[i].samples = << >>
      BY <1>2, <2>3
    <3> QED
      BY <3>1
  <2>4. CASE i = t /\ track[m] # 0
    BY <1>2, <1>4, <2>2, <2>4
  <2>5. CASE i # t
    BY <1>2, <2>1, <2>2, <2>5
  <2> QED
    BY <2>3, <2>4, <2>5
<1>8. NoLoss(ur, file, mdatSize, setup.room)
  BY <1>1, <1>7 DEF NoLoss
<1>3. w = [tracks |-> ur, file |-> file, mdatSize |-> mdatSize]
  BY DEF Writer
<1> QED
  BY <1>1, <1>2, <1>3, <1>6, <1>8 DEF WriterOK, ur

\* The samples of medium m so far.
SamplesSoFar(m) == IF track[m] = 0 THEN << >> ELSE tracks[track[m]].samples

\* A handler that writes to the track of m leaves the other one alone.
\* v has other samples in track t of the tracks ur, and only there.
WrittenIn(v, ur, t) ==
  /\ WriterOK(v) /\ DOMAIN v.tracks = DOMAIN ur /\ v.tracks[t].handler = ur[t].handler
  /\ \A i \in DOMAIN ur : i # t => v.tracks[i] = ur[i]

OneTrackOf(v, ur, m, t) ==
  /\ Layout(v.tracks, [track EXCEPT ![m] = t])
  /\ t \in DOMAIN v.tracks /\ t # 0 /\ v.tracks[t].handler = m
  /\ ur[t].samples = SamplesSoFar(m)
  /\ \A i \in DOMAIN v.tracks : i # t => i \in DOMAIN tracks /\ v.tracks[i] = tracks[i]

LEMMA OneTrackWritten ==
  ASSUME WriterInv, NEW m \in Media, NEW sized \in BOOLEAN, NEW ur, NEW t, NEW v,
         ur = Opened(tracks, track, m, sized), t = TrackOf(tracks, track, m, sized),
         WrittenIn(v, ur, t)
  PROVE  OneTrackOf(v, ur, m, t)
<1> DEFINE uk == [track EXCEPT ![m] = t]
<1>1. /\ Layout(ur, uk) /\ t \in DOMAIN ur /\ t # 0 /\ ur[t].handler = m
      /\ ur[t].samples = SamplesSoFar(m)
      /\ \A i \in DOMAIN ur : i # t => i \in DOMAIN tracks /\ ur[i] = tracks[i]
  <2>1. Layout(tracks, track)
    BY DEF WriterInv
  <2>2. LET o == Opened(tracks, track, m, sized)
            p == TrackOf(tracks, track, m, sized)
        IN /\ Layout(o, [track EXCEPT ![m] = p])
           /\ p \in DOMAIN o /\ p # 0 /\ o[p].handler = m
           /\ o[p].samples = IF track[m] = 0 THEN << >> ELSE tracks[track[m]].samples
           /\ \A i \in DOMAIN o : i # p => i \in DOMAIN tracks /\ o[i] = tracks[i]
    BY <2>1, LayoutOpened
  <2> QED
    BY <2>2 DEF SamplesSoFar
<1> HIDE DEF uk
<1>2. v.tracks \in Seq(Track)
  BY DEF WriterOK, WrittenIn
<1>3. DOMAIN v.tracks = DOMAIN ur /\ \A i \in DOMAIN ur : v.tracks[i].handler = ur[i].handler
  BY DEF WrittenIn
<1>4. Layout(v.tracks, uk)
  BY <1>1, <1>2, <1>3, LayoutKept
<1> QED
  BY <1>1, <1>4 DEF uk, WrittenIn, OneTrackOf

LEMMA VideoWrites ==
  ASSUME WriterInv, NEW kind \in Kinds, NEW pts \in Stamps, WriteVideo(kind, pts),
         avc.config \/ kind.config
  PROVE  \E t \in Nat \ {0} :
           /\ track' = [track EXCEPT !["video"] = t] /\ Layout(tracks', track')
           /\ t \in DOMAIN tracks' /\ tracks'[t].handler = "video"
           /\ \E x \in Sample : x.dts = VideoTime(pts)
                                /\ tracks'[t].samples = Append(SamplesSoFar("video"), x)
           /\ \A i \in DOMAIN tracks' : i # t => i \in DOMAIN tracks /\ tracks'[i] = tracks[i]
           /\ Recording(tracks', file', mdatSize', setup.room) /\ mdatSize' \in Nat
<1> DEFINE sized == avc.sized \/ (track["video"] = 0 /\ kind.sized)
           ur == Opened(tracks, track, "video", sized)
           t == TrackOf(tracks, track, "video", sized)
           w == [Writer EXCEPT !.tracks = ur]
           v == MovWrite(w, t, kind.bytes, VideoTime(pts), kind.key)
<1>1. sized \in BOOLEAN /\ kind.bytes \in Nat \ {0} /\ kind.key \in BOOLEAN /\ pts \in Nat
  <2>1. kind \in [config : BOOLEAN, sized : BOOLEAN, key : BOOLEAN, bytes : Nat \ {0}] /\ pts \in Nat
    BY WriterAssumption
  <2> QED
    BY <2>1 DEF WriterInv
<1>2. m_mov /\ track' = [track EXCEPT !["video"] = t] /\ WriterBecomes(v)
  <2>1. avc.config \/ kind.config
    OBVIOUS
  <2> QED
    BY <2>1, Zenon DEF WriteVideo, Opened, TrackOf
<1>3. WriterOK(w) /\ w.tracks = ur /\ "video" \in Media
  <2> HIDE DEF sized
  <2> QED
    BY <1>1, <1>2, OpenedWriter DEF Media
<1>4. t \in DOMAIN ur
  <2>1. Layout(tracks, track)
    BY DEF WriterInv
  <2> HIDE DEF sized
  <2> QED
    BY <1>1, <1>3, <2>1, LayoutOpened
<1>5. ur = Opened(tracks, track, "video", sized) /\ t = TrackOf(tracks, track, "video", sized)
  OBVIOUS
<1> HIDE DEF sized, w, t, ur
<1>6. VideoTime(pts) \in Nat /\ setup.room \in Nat
  BY <1>1, VideoTimes, SetupFacts DEF WriterInv
<1>7. Adds(w, v, t, kind.bytes, VideoTime(pts))
  BY <1>1, <1>3, <1>4, <1>6, WriteAdds
<1> HIDE DEF v
<1>8. /\ WriterOK(v) /\ DOMAIN v.tracks = DOMAIN ur /\ v.tracks[t].handler = ur[t].handler
      /\ \A i \in DOMAIN ur : i # t => v.tracks[i] = ur[i]
      /\ \E x \in Sample : x.dts = VideoTime(pts) /\ v.tracks[t].samples = Append(ur[t].samples, x)
  BY <1>3, <1>7 DEF Adds
<1>9. /\ Layout(v.tracks, [track EXCEPT !["video"] = t])
      /\ t \in DOMAIN v.tracks /\ t # 0 /\ v.tracks[t].handler = "video"
      /\ ur[t].samples = SamplesSoFar("video")
      /\ \A i \in DOMAIN v.tracks : i # t => i \in DOMAIN tracks /\ v.tracks[i] = tracks[i]
  <2>1. WrittenIn(v, ur, t)
    BY <1>8 DEF WrittenIn
  <2>2. OneTrackOf(v, ur, "video", t)
    BY <1>1, <1>3, <1>5, <2>1, OneTrackWritten
  <2> QED
    BY <2>2 DEF OneTrackOf
<1>10. tracks' = v.tracks /\ file' = v.file /\ mdatSize' = v.mdatSize
  BY <1>2 DEF WriterBecomes
<1>11. t \in Nat \ {0} /\ Recording(v.tracks, v.file, v.mdatSize, setup.room) /\ v.mdatSize \in Nat
  BY <1>8, <1>9 DEF WriterOK, Recording
<1> QED
  BY <1>2, <1>8, <1>9, <1>10, <1>11

LEMMA AudioWrites ==
  ASSUME WriterInv, NEW len \in AudioSizes, NEW pts \in Stamps, WriteG711(len, pts),
         track["audio"] > 0 \/ setup.code \in {"G711A", "G711U"}
  PROVE  \E t \in Nat \ {0} :
           /\ track' = [track EXCEPT !["audio"] = t] /\ Layout(tracks', track')
           /\ t \in DOMAIN tracks' /\ tracks'[t].handler = "audio"
           /\ Total(Sizes(tracks'[t].samples)) = Total(Sizes(SamplesSoFar("audio"))) + len
           /\ \A i \in DOMAIN tracks' : i # t => i \in DOMAIN tracks /\ tracks'[i] = tracks[i]
           /\ Recording(tracks', file', mdatSize', setup.room) /\ mdatSize' \in Nat
<1> DEFINE ur == Opened(tracks, track, "audio", FALSE)
           t == TrackOf(tracks, track, "audio", FALSE)
           w == [Writer EXCEPT !.tracks = ur]
           time == AudioTime(pts)
           pieces == Pieces(len)
           Step(u) == [k \in 0 .. Len(pieces) |->
                         IF k = 0 THEN w ELSE MovWrite(u[k - 1], t, pieces[k], time, FALSE)]
           written == CHOOSE u : u = Step(u)
           v == written[Len(pieces)]
<1>1. m_mov /\ track' = [track EXCEPT !["audio"] = t] /\ WriterBecomes(v)
  <2>1. track["audio"] > 0 \/ setup.code \in {"G711A", "G711U"}
    OBVIOUS
  <2> DEFINE becomes == track' = [track EXCEPT !["audio"] = t] /\ WriterBecomes(v)
  <2>2. m_mov /\ IF track["audio"] > 0 \/ setup.code \in {"G711A", "G711U"}
                 THEN becomes ELSE UNCHANGED <<track, clock, tracks, file, mdatSize>>
    BY Zenon DEF WriteG711, Opened, TrackOf
  <2> QED
    BY <2>1, <2>2, Zenon
<1>2. WriterOK(w) /\ w.tracks = ur /\ "audio" \in Media
  BY <1>1, OpenedWriter DEF Media
<1>3. t \in DOMAIN ur
  <2>1. Layout(tracks, track)
    BY DEF WriterInv
  <2> QED
    BY <1>2, <2>1, LayoutOpened
<1>4. len \in Nat /\ pts \in Nat /\ setup.room \in Nat
  BY WriterAssumption, SetupFacts
<1>5. time \in Int
  <2>1. clock["audio"].pts \in Nat /\ clock["audio"].last \in Nat
    BY <1>2 DEF WriterInv, Clocks
  <2> QED
    BY <1>4, <2>1 DEF AudioTime, Known
<1>6. ur = Opened(tracks, track, "audio", FALSE) /\ t = TrackOf(tracks, track, "audio", FALSE)
  OBVIOUS
<1> HIDE DEF w, t, ur, time
<1>7. AddsMany(w, v, t, len)
  BY <1>2, <1>3, <1>4, <1>5, PiecesAdded, Zenon
<1> HIDE DEF v
<1>8. /\ WriterOK(v) /\ DOMAIN v.tracks = DOMAIN ur /\ v.tracks[t].handler = ur[t].handler
      /\ \A i \in DOMAIN ur : i # t => v.tracks[i] = ur[i]
      /\ Total(Sizes(v.tracks[t].samples)) = Total(Sizes(ur[t].samples)) + len
  BY <1>2, <1>7 DEF AddsMany
<1>9. /\ Layout(v.tracks, [track EXCEPT !["audio"] = t])
      /\ t \in DOMAIN v.tracks /\ t # 0 /\ v.tracks[t].handler = "audio"
      /\ ur[t].samples = SamplesSoFar("audio")
      /\ \A i \in DOMAIN v.tracks : i # t => i \in DOMAIN tracks /\ v.tracks[i] = tracks[i]
  <2>1. WrittenIn(v, ur, t)
    BY <1>8 DEF WrittenIn
  <2>2. OneTrackOf(v, ur, "audio", t)
    BY <1>2, <1>6, <2>1, OneTrackWritten
  <2> QED
    BY <2>2 DEF OneTrackOf
<1>10. tracks' = v.tracks /\ file' = v.file /\ mdatSize' = v.mdatSize
  BY <1>1 DEF WriterBecomes
<1>11. t \in Nat \ {0} /\ Recording(v.tracks, v.file, v.mdatSize, setup.room) /\ v.mdatSize \in Nat
  BY <1>8, <1>9 DEF WriterOK, Recording
<1> QED
  BY <1>1, <1>8, <1>9, <1>10, <1>11

LEMMA VideoClock ==
  ASSUME WriterInv, NEW kind \in Kinds, NEW pts \in Stamps, WriteVideo(kind, pts)
  PROVE  /\ clock' \in Clocks /\ clock'["video"].last = VideoTime(pts)
         /\ VideoTime(pts) \in Nat /\ VideoTime(pts) >= clock["video"].last
         /\ setup.codec = "H264" => VideoTime(pts) > clock["video"].last
         /\ clock["video"].last \in Nat
<1>1. pts \in Nat /\ clock \in Clocks
  BY WriterAssumption DEF WriterInv
<1>2. clock' = [clock EXCEPT !["video"] = [pts |-> pts, last |-> VideoTime(pts)]]
  BY DEF WriteVideo
<1>3. VideoTime(pts) \in Nat
  BY <1>1, VideoTimes
<1>4. /\ VideoTime(pts) >= clock["video"].last
      /\ setup.codec = "H264" => VideoTime(pts) > clock["video"].last
  BY <1>1, VideoTimes
<1> DEFINE c == [pts |-> pts, last |-> VideoTime(pts)]
<1>5. c \in [pts : Nat, last : Nat] /\ c.last = VideoTime(pts)
  BY <1>1, <1>3
<1> HIDE DEF c
<1>6. clock' = [clock EXCEPT !["video"] = c]
  BY <1>2 DEF c
<1>7. clock' \in Clocks /\ clock'["video"] = c /\ clock["video"].last \in Nat
  BY <1>1, <1>5, <1>6 DEF Clocks, Media
<1> QED
  BY <1>3, <1>4, <1>5, <1>7

LEMMA VideoStep ==
  ASSUME WriterInv, NEW kind \in Kinds, NEW pts \in Stamps, WriteVideo(kind, pts)
  PROVE  WriterInv'
<1>1. /\ m_mov /\ frames < MaxFrames /\ frames' = frames + 1
      /\ UNCHANGED <<setup, m_mov, index, accepted>>
  BY DEF WriteVideo
<1>2. avc' \in [config : BOOLEAN, sized : BOOLEAN]
  <2>1. kind \in [config : BOOLEAN, sized : BOOLEAN, key : BOOLEAN, bytes : Nat \ {0}]
    BY WriterAssumption
  <2>2. avc \in [config : BOOLEAN, sized : BOOLEAN]
    BY DEF WriterInv
  <2>3. avc' = [config |-> avc.config \/ kind.config,
                sized |-> avc.sized \/ (track["video"] = 0 /\ kind.sized)]
    BY DEF WriteVideo
  <2> QED
    BY <2>1, <2>2, <2>3
<1>3. /\ setup' \in Setups /\ MoovState(m_mov', index') /\ accepted' \in Nat
      /\ frames' \in 0 .. MaxFrames /\ clock' \in Clocks
  <2>1. frames \in 0 .. MaxFrames /\ MaxFrames \in Nat
    BY WriterAssumption DEF WriterInv
  <2>2. frames' \in 0 .. MaxFrames
    BY <1>1, <2>1
  <2>3. clock' \in Clocks
    BY VideoClock
  <2> QED
    BY <1>1, <2>2, <2>3 DEF WriterInv
<1> DEFINE last == clock["video"].last
           time == VideoTime(pts)
<1>4. /\ clock'["video"].last = time /\ last \in Nat /\ time \in Nat /\ time >= last
      /\ setup.codec = "H264" => time > last
  BY VideoClock
<1>5. \A i \in DOMAIN tracks : tracks[i].samples \in Seq(Sample)
  <2>1. \A x \in Track : x.samples \in Seq(Sample)
    BY DEF Track
  <2>2. \A i \in DOMAIN tracks : tracks[i] \in Track
    BY DEF WriterInv, Layout
  <2> QED
    BY <2>1, <2>2
<1>6. \A i \in DOMAIN tracks : tracks[i].handler = "video" => Forward(setup.codec, tracks[i].samples, last)
  BY DEF WriterInv
<1>7. \A i \in DOMAIN tracks : tracks[i].handler = "video" => Forward(setup.codec, tracks[i].samples, time)
  <2> HIDE DEF last, time
  <2> QED
    BY <1>4, <1>5, <1>6, ForwardLater
<1> HIDE DEF last, time
<1>8. CASE ~(avc.config \/ kind.config)
  <2>1. UNCHANGED <<track, tracks, file, mdatSize>>
    BY <1>8 DEF WriteVideo
  <2>2. /\ mdatSize' \in Nat /\ Layout(tracks', track')
        /\ m_mov' => Recording(tracks', file', mdatSize', setup'.room)
        /\ mdatSize' <= setup'.room => AllStored(tracks')
    BY <1>1, <2>1 DEF WriterInv, DiskHeld
  <2>3. \A i \in DOMAIN tracks' : tracks'[i].handler = "video" =>
          Forward(setup'.codec, tracks'[i].samples, clock'["video"].last)
    BY <1>1, <1>4, <1>7, <2>1
  <2> QED
    BY <1>2, <1>3, <2>2, <2>3 DEF WriterInv, DiskHeld
<1>9. CASE avc.config \/ kind.config
  <2>1. PICK t \in Nat \ {0} :
          /\ track' = [track EXCEPT !["video"] = t] /\ Layout(tracks', track')
          /\ t \in DOMAIN tracks' /\ tracks'[t].handler = "video"
          /\ \E x \in Sample : x.dts = time
                               /\ tracks'[t].samples = Append(SamplesSoFar("video"), x)
          /\ \A i \in DOMAIN tracks' : i # t => i \in DOMAIN tracks /\ tracks'[i] = tracks[i]
          /\ Recording(tracks', file', mdatSize', setup.room) /\ mdatSize' \in Nat
    BY <1>9, VideoWrites DEF time
  <2>2. SamplesSoFar("video") \in Seq(Sample) /\ Forward(setup.codec, SamplesSoFar("video"), last)
    <3>1. CASE track["video"] = 0
      BY <3>1, ForwardOfNone DEF SamplesSoFar
    <3>2. CASE track["video"] # 0
      <4>1. track["video"] \in DOMAIN tracks /\ tracks[track["video"]].handler = "video"
        <5>1. /\ tracks \in Seq(Track) /\ track["video"] \in 0 .. Len(tracks)
              /\ track["video"] > 0 => tracks[track["video"]].handler = "video"
          BY DEF WriterInv, Layout, Media
        <5> QED
          BY <3>2, <5>1
      <4> QED
        BY <1>5, <1>6, <3>2, <4>1 DEF SamplesSoFar
    <3> QED
      BY <3>1, <3>2
  <2>3. PICK x \in Sample : x.dts = time /\ tracks'[t].samples = Append(SamplesSoFar("video"), x)
    BY <2>1
  <2>4. Forward(setup.codec, tracks'[t].samples, time)
    BY <1>4, <2>2, <2>3, ForwardOfMore
  <2>5. ASSUME NEW i \in DOMAIN tracks', tracks'[i].handler = "video"
        PROVE  Forward(setup.codec, tracks'[i].samples, time)
    BY <1>7, <2>1, <2>4, <2>5
  <2>6. \A i \in DOMAIN tracks' : tracks'[i].handler = "video" =>
          Forward(setup'.codec, tracks'[i].samples, clock'["video"].last)
    BY <1>1, <1>4, <2>5
  <2>7. /\ Recording(tracks', file', mdatSize', setup'.room)
        /\ mdatSize' <= setup'.room => AllStored(tracks')
    BY <1>1, <2>1 DEF Recording, NoLoss
  <2> QED
    BY <1>2, <1>3, <2>1, <2>6, <2>7 DEF WriterInv, DiskHeld
<1> QED
  BY <1>8, <1>9

LEMMA AudioStep ==
  ASSUME WriterInv, NEW len \in AudioSizes, NEW pts \in Stamps, WriteG711(len, pts)
  PROVE  WriterInv'
<1>1. /\ m_mov /\ frames < MaxFrames /\ frames' = frames + 1 /\ accepted' = accepted + len
      /\ UNCHANGED <<setup, m_mov, index, avc>>
  BY DEF WriteG711
<1>2. len \in Nat /\ pts \in Nat /\ clock \in Clocks
  BY WriterAssumption DEF WriterInv
<1>3. clock' \in Clocks /\ clock'["video"] = clock["video"]
  <2>1. clock' = clock \/ clock' = [clock EXCEPT !["audio"] = [pts |-> pts, last |-> AudioTime(pts)]]
    BY Zenon DEF WriteG711
  <2>2. AudioTime(pts) \in Nat
    <3>1. clock["audio"].pts \in Nat /\ clock["audio"].last \in Nat
      BY <1>2 DEF Clocks, Media
    <3> QED
      BY <1>2, <3>1 DEF AudioTime, Known
  <2> DEFINE c == [pts |-> pts, last |-> AudioTime(pts)]
  <2>3. c \in [pts : Nat, last : Nat]
    BY <1>2, <2>2
  <2> HIDE DEF c
  <2>4. clock' = clock \/ clock' = [clock EXCEPT !["audio"] = c]
    BY <2>1 DEF c
  <2> QED
    BY <1>2, <2>3, <2>4 DEF Clocks, Media
<1>4. /\ setup' \in Setups /\ MoovState(m_mov', index') /\ accepted' \in Nat
      /\ frames' \in 0 .. MaxFrames /\ avc' \in [config : BOOLEAN, sized : BOOLEAN]
  <2>1. frames \in 0 .. MaxFrames /\ MaxFrames \in Nat /\ accepted \in Nat
    BY WriterAssumption DEF WriterInv
  <2>2. frames' \in 0 .. MaxFrames /\ accepted' \in Nat
    BY <1>1, <1>2, <2>1
  <2> QED
    BY <1>1, <2>2 DEF WriterInv
<1> DEFINE last == clock["video"].last
<1>5. \A i \in DOMAIN tracks : tracks[i].handler = "video" => Forward(setup.codec, tracks[i].samples, last)
  BY DEF WriterInv
<1>6. setup'.codec = setup.codec /\ clock'["video"].last = last
  BY <1>1, <1>3
<1> HIDE DEF last
<1>7. CASE track["audio"] > 0 \/ setup.code \in {"G711A", "G711U"}
  <2>1. PICK t \in Nat \ {0} :
          /\ Layout(tracks', track') /\ t \in DOMAIN tracks' /\ tracks'[t].handler = "audio"
          /\ \A i \in DOMAIN tracks' : i # t => i \in DOMAIN tracks /\ tracks'[i] = tracks[i]
          /\ Recording(tracks', file', mdatSize', setup.room) /\ mdatSize' \in Nat
    BY <1>7, AudioWrites
  <2>2. \A i \in DOMAIN tracks' : tracks'[i].handler = "video" =>
          Forward(setup'.codec, tracks'[i].samples, clock'["video"].last)
    BY <1>5, <1>6, <2>1
  <2>3. /\ Recording(tracks', file', mdatSize', setup'.room)
        /\ mdatSize' <= setup'.room => AllStored(tracks')
    BY <1>1, <2>1 DEF Recording, NoLoss
  <2> QED
    BY <1>3, <1>4, <2>1, <2>2, <2>3 DEF WriterInv, DiskHeld
<1>8. CASE ~(track["audio"] > 0 \/ setup.code \in {"G711A", "G711U"})
  <2>1. UNCHANGED <<track, tracks, file, mdatSize>>
    BY <1>8, Zenon DEF WriteG711
  <2>2. /\ mdatSize' \in Nat /\ Layout(tracks', track')
        /\ m_mov' => Recording(tracks', file', mdatSize', setup'.room)
        /\ mdatSize' <= setup'.room => AllStored(tracks')
    BY <1>1, <2>1 DEF WriterInv, DiskHeld
  <2>3. \A i \in DOMAIN tracks' : tracks'[i].handler = "video" =>
          Forward(setup'.codec, tracks'[i].samples, clock'["video"].last)
    BY <1>5, <1>6, <2>1
  <2> QED
    BY <1>3, <1>4, <2>2, <2>3 DEF WriterInv, DiskHeld
<1> QED
  BY <1>7, <1>8

LEMMA CloseStep ==
  ASSUME WriterInv, CloseWriter
  PROVE  WriterInv'
<1>1. ~m_mov' /\ UNCHANGED <<setup, tracks, track, clock, avc, mdatSize, frames, accepted>>
  BY DEF CloseWriter
<1>2. m_mov' = FALSE /\ index' \in {"written", "lost", "stopped"}
  BY DEF CloseWriter
<1>3. MoovState(m_mov', index')
  BY <1>2 DEF MoovState
<1>4. mdatSize' <= setup'.room => AllStored(tracks')
  BY <1>1 DEF WriterInv, DiskHeld
<1>5. \A i \in DOMAIN tracks' : tracks'[i].handler = "video" =>
        Forward(setup'.codec, tracks'[i].samples, clock'["video"].last)
  BY <1>1 DEF WriterInv
<1>6. Layout(tracks', track')
  BY <1>1 DEF WriterInv
<1> QED
  BY <1>1, <1>2, <1>3, <1>4, <1>5, <1>6 DEF WriterInv, DiskHeld

LEMMA NextWriterInv == WriterInv /\ [Next]_vars => WriterInv'
<1> SUFFICES ASSUME WriterInv, [Next]_vars
             PROVE  WriterInv'
  OBVIOUS
<1>1. CASE \E kind \in Kinds, pts \in Stamps : WriteVideo(kind, pts)
  BY <1>1, VideoStep
<1>2. CASE \E len \in AudioSizes, pts \in Stamps : WriteG711(len, pts)
  BY <1>2, AudioStep
<1>3. CASE CloseWriter
  BY <1>3, CloseStep
<1>4. CASE UNCHANGED vars
  <2>1. /\ setup' = setup /\ m_mov' = m_mov /\ file' = file /\ tracks' = tracks /\ track' = track
        /\ clock' = clock /\ avc' = avc /\ mdatSize' = mdatSize /\ index' = index
        /\ frames' = frames /\ accepted' = accepted
    BY <1>4 DEF vars
  <2>2. \A i \in DOMAIN tracks' : tracks'[i].handler = "video" =>
          Forward(setup'.codec, tracks'[i].samples, clock'["video"].last)
    BY <2>1 DEF WriterInv
  <2>3. /\ Layout(tracks', track') /\ MoovState(m_mov', index')
        /\ m_mov' => Recording(tracks', file', mdatSize', setup'.room)
        /\ mdatSize' <= setup'.room => AllStored(tracks')
    BY <2>1 DEF WriterInv, DiskHeld
  <2> QED
    BY <2>1, <2>2, <2>3 DEF WriterInv, DiskHeld
<1> QED
  BY <1>1, <1>2, <1>3, <1>4 DEF Next

LEMMA WriterInvHolds == Spec => []WriterInv
BY InitWriterInv, NextWriterInv, PTL DEF Spec

-----------------------------------------------------------------------------
(* The theorems.                                                           *)

\* The writer's variables have their types; there are at most two tracks, each of
\* the kind its number says.
THEOREM TypeCorrect == Spec => []TypeOK
<1>1. WriterInv => TypeOK
  <2> SUFFICES ASSUME WriterInv
               PROVE  TypeOK
    OBVIOUS
  <2>1. \A x \in Track : x.handler \in Media /\ x.samples \in Seq(Sample)
    BY DEF Track
  <2>2. \A i \in DOMAIN tracks : tracks[i] \in Track
    BY DEF WriterInv, Layout
  <2>3. \A i \in DOMAIN tracks : tracks[i].handler \in Media /\ tracks[i].samples \in Seq(Sample)
    BY <2>1, <2>2
  <2>4. /\ Len(tracks) <= 2 /\ \A m \in Media : track[m] \in 0 .. Len(tracks)
        /\ \A m \in Media : track[m] > 0 => tracks[track[m]].handler = m
    BY DEF WriterInv, Layout
  <2> QED
    BY <2>3, <2>4 DEF WriterInv, MoovState, TypeOK, Clocks
<1> QED
  BY <1>1, WriterInvHolds, PTL

\* Whatever times the camera gives, those of the recorded video do not go back, and
\* with H.264 they advance (write_h264_frame, write_h265_frame).
THEOREM VideoAdvances == Spec => []VideoNeverBack
<1>1. WriterInv => VideoNeverBack
  BY DEF WriterInv, Forward, VideoNeverBack
<1> QED
  BY <1>1, WriterInvHolds, PTL

\* The application set info->code to G.711, which the library does not do itself.
CodeIsSet == \A s \in Setups : s.code # "OK"

\* What was accepted is in the track of the audio.
AudioHeld == accepted = Total(Sizes(SamplesSoFar("audio")))

LEMMA NoSizes == Total(Sizes(<< >>)) = 0
<1>1. Sizes(<< >>) = << >>
  BY DEF Sizes
<1> QED
  BY <1>1, TotalOfNone

LEMMA InitAudioHeld == Init => AudioHeld
BY NoSizes DEF Init, AudioHeld, SamplesSoFar, Media

LEMMA NextAudioHeld ==
  ASSUME CodeIsSet, WriterInv, AudioHeld, [Next]_vars
  PROVE  AudioHeld'
<1>1. ASSUME NEW kind \in Kinds, NEW pts \in Stamps, WriteVideo(kind, pts)
      PROVE  AudioHeld'
  <2>1. accepted' = accepted
    BY <1>1 DEF WriteVideo
  <2>2. CASE avc.config \/ kind.config
    <3>1. PICK t \in Nat \ {0} :
            /\ track' = [track EXCEPT !["video"] = t] /\ Layout(tracks', track')
            /\ t \in DOMAIN tracks' /\ tracks'[t].handler = "video"
            /\ \A i \in DOMAIN tracks' : i # t => i \in DOMAIN tracks /\ tracks'[i] = tracks[i]
      BY <1>1, <2>2, VideoWrites
    <3>2. track'["audio"] = track["audio"]
      BY <3>1 DEF WriterInv, Layout, Media
    <3>3. CASE track["audio"] = 0
      BY <2>1, <3>2, <3>3 DEF AudioHeld, SamplesSoFar
    <3>4. CASE track["audio"] # 0
      <4>1. track'["audio"] \in DOMAIN tracks' /\ tracks'[track'["audio"]].handler = "audio"
        <5>1. /\ tracks' \in Seq(Track) /\ track'["audio"] \in 0 .. Len(tracks')
              /\ track'["audio"] > 0 => tracks'[track'["audio"]].handler = "audio"
          BY <3>1 DEF Layout, Media
        <5> QED
          BY <3>2, <3>4, <5>1
      <4>2. tracks'[track'["audio"]] = tracks[track["audio"]]
        BY <3>1, <3>2, <4>1
      <4> QED
        BY <2>1, <3>2, <3>4, <4>2 DEF AudioHeld, SamplesSoFar
    <3> QED
      BY <3>3, <3>4
  <2>3. CASE ~(avc.config \/ kind.config)
    <3>1. UNCHANGED <<track, tracks>>
      BY <1>1, <2>3 DEF WriteVideo
    <3> QED
      BY <2>1, <3>1 DEF AudioHeld, SamplesSoFar
  <2> QED
    BY <2>2, <2>3
<1>2. ASSUME NEW len \in AudioSizes, NEW pts \in Stamps, WriteG711(len, pts)
      PROVE  AudioHeld'
  <2>1. setup.code \in {"G711A", "G711U"}
    BY WriterAssumption DEF CodeIsSet, WriterInv
  <2>2. accepted' = accepted + len
    BY <1>2 DEF WriteG711
  <2>3. PICK t \in Nat \ {0} :
          /\ track' = [track EXCEPT !["audio"] = t]
          /\ Total(Sizes(tracks'[t].samples)) = Total(Sizes(SamplesSoFar("audio"))) + len
    BY <1>2, <2>1, AudioWrites
  <2>4. track'["audio"] = t
    BY <2>3 DEF WriterInv, Layout, Media
  <2> QED
    BY <2>2, <2>3, <2>4 DEF AudioHeld, SamplesSoFar
<1>3. CASE CloseWriter \/ UNCHANGED vars
  <2>1. UNCHANGED <<accepted, track, tracks>>
    BY <1>3 DEF CloseWriter, vars
  <2> QED
    BY <2>1 DEF AudioHeld, SamplesSoFar
<1> QED
  BY <1>1, <1>2, <1>3 DEF Next

\* The words of the samples of a track that were written.
Written(s) == [n \in DOMAIN s |-> IF s[n].stored THEN s[n].bytes ELSE 0]

LEMMA AudioInTracks == WriterInv /\ AudioHeld => AudioIsRecorded
<1> SUFFICES ASSUME WriterInv, AudioHeld, DiskHeld
             PROVE  accepted = Total([i \in DOMAIN tracks |->
                      IF tracks[i].handler = "audio" THEN Total(Written(tracks[i].samples)) ELSE 0])
  BY Zenon DEF AudioIsRecorded, Written
<1> DEFINE held(i) == IF tracks[i].handler = "audio" THEN Total(Written(tracks[i].samples)) ELSE 0
           sums == [i \in DOMAIN tracks |-> held(i)]
           a == track["audio"]
<1>1. /\ tracks \in Seq(Track) /\ Len(tracks) \in 0 .. 2 /\ DOMAIN tracks = 1 .. Len(tracks)
      /\ a \in 0 .. Len(tracks) /\ (a > 0 => tracks[a].handler = "audio")
      /\ \A i \in DOMAIN tracks : tracks[i].handler = "audio" => i = a
  <2>1. tracks \in Seq(Track) /\ Len(tracks) <= 2
    BY DEF WriterInv, Layout
  <2>2. Len(tracks) \in Nat /\ DOMAIN tracks = 1 .. Len(tracks)
    BY <2>1
  <2>3. /\ a \in 0 .. Len(tracks) /\ (a > 0 => tracks[a].handler = "audio")
        /\ \A i \in DOMAIN tracks : tracks[i].handler = "audio" => i = a
    BY DEF WriterInv, Layout, Media
  <2> QED
    BY <2>1, <2>2, <2>3
<1>2. \A i \in DOMAIN tracks : held(i) = IF i = a THEN accepted ELSE 0
  <2>6. \A i \in DOMAIN tracks : Written(tracks[i].samples) = Sizes(tracks[i].samples)
    <3> SUFFICES ASSUME NEW i \in DOMAIN tracks
                 PROVE  Written(tracks[i].samples) = Sizes(tracks[i].samples)
      OBVIOUS
    <3> DEFINE s == tracks[i].samples
    <3>1. AllStored(tracks)
      BY DEF WriterInv
    <3>2. \A x \in Track : x.samples \in Seq(Sample)
      BY DEF Track
    <3>3. tracks[i] \in Track /\ i \in 1 .. Len(tracks)
      BY <1>1
    <3>4. DOMAIN s = 1 .. Len(s) /\ \A n \in 1 .. Len(s) : s[n].stored
      BY <3>1, <3>2, <3>3 DEF AllStored
    <3> HIDE DEF s
    <3>5. Written(s) = Sizes(s)
      BY <3>4 DEF Written, Sizes
    <3> QED
      BY <3>5 DEF s
  <2>1. \A i \in DOMAIN tracks : tracks[i].handler = "audio" => held(i) = Total(Sizes(tracks[i].samples))
    BY <2>6
  <2>2. a > 0 => accepted = Total(Sizes(tracks[a].samples))
    BY DEF AudioHeld, SamplesSoFar
  <2>3. \A i \in DOMAIN tracks : i # a => tracks[i].handler # "audio"
    BY <1>1
  <2>4. \A i \in DOMAIN tracks : i # a => held(i) = 0
    BY <2>3
  <2>5. \A i \in DOMAIN tracks : i = a => held(i) = accepted
    BY <1>1, <2>1, <2>2
  <2> HIDE DEF held
  <2> QED
    BY <2>4, <2>5
<1>3. accepted \in Nat /\ (a = 0 => accepted = 0)
  BY NoSizes DEF WriterInv, AudioHeld, SamplesSoFar
<1> HIDE DEF held, a
<1>4. sums \in Seq(Nat) /\ Len(sums) = Len(tracks)
  <2>1. \A i \in 1 .. Len(tracks) : held(i) \in Nat
    BY <1>1, <1>2, <1>3
  <2>2. sums \in [1 .. Len(tracks) -> Nat]
    BY <1>1, <2>1
  <2>3. Len(tracks) \in Nat
    BY <1>1
  <2> QED
    BY <2>2, <2>3, SeqDef
<1>5. \A i \in 1 .. Len(tracks) : sums[i] = IF i = a THEN accepted ELSE 0
  BY <1>1, <1>2
<1> DEFINE g == [i \in 0 .. Len(sums) |-> IF a # 0 /\ a <= i THEN accepted ELSE 0]
<1>6. g \in [0 .. Len(sums) -> Nat]
  BY <1>3
<1>7. g[0] = 0 /\ g[Len(sums)] = accepted
  BY <1>1, <1>3, <1>4
<1>8. \A i \in 1 .. Len(sums) : g[i] = g[i - 1] + sums[i]
  <2> SUFFICES ASSUME NEW i \in 1 .. Len(sums)
               PROVE  g[i] = g[i - 1] + sums[i]
    OBVIOUS
  <2>1. /\ g[i] = IF a # 0 /\ a <= i THEN accepted ELSE 0
        /\ g[i - 1] = IF a # 0 /\ a <= i - 1 THEN accepted ELSE 0
    OBVIOUS
  <2>2. sums[i] = IF i = a THEN accepted ELSE 0
    BY <1>4, <1>5
  <2>3. i \in Nat /\ i # 0 /\ a \in Nat
    BY <1>1
  <2> HIDE DEF g, sums
  <2> QED
    BY <1>3, <2>1, <2>2, <2>3
<1>9. Total(sums) = accepted
  <2> HIDE DEF g, sums
  <2> QED
    BY <1>4, <1>6, <1>7, <1>8, TotalIs
<1> QED
  BY <1>9 DEF held

\* When the application sets info->code, the words of every audio frame that
\* write_g711_frame accepts are in stored samples of the audio track, however it cuts
\* them, as long as no write of media data fails.
THEOREM AcceptedAudioIsRecorded ==
  ASSUME CodeIsSet
  PROVE  Spec => []AudioIsRecorded
<1>1. WriterInv /\ AudioHeld /\ [Next]_vars => AudioHeld'
  BY NextAudioHeld
<1>2. WriterInv /\ AudioHeld => AudioIsRecorded
  BY AudioInTracks
<1> QED
  BY <1>1, <1>2, InitAudioHeld, WriterInvHolds, PTL DEF Spec

-----------------------------------------------------------------------------
(* What a reader finds in the finished recording.                          *)

\* Sample s, the n-th of track i, has its words in the file f, moved by shift, if it
\* was stored.
FoundSample(s, i, n, shift, f) ==
  s.stored => \A k \in 1 .. s.bytes :
    /\ s.offset + shift + k <= Len(f.cells)
    /\ f.cells[s.offset + shift + k] = Datum(i, n, k)

\* So have the samples of track i, which have a size and lie in their order.
FoundTrack(s, i, shift, f) ==
  /\ s # <<>> => Placed(s)
  /\ Behind(s)
  /\ \A n \in 1 .. Len(s) : FoundSample(s[n], i, n, shift, f)

\* What the finished file f holds: the moov box of the tracks, with the offsets moved
\* as far as the samples were.
Readable(f, trs, limit) ==
  \E shift \in Nat :
    /\ MoovOf(f.cells) = Traks(trs, shift, limit)
    /\ \A i \in 1 .. Len(trs) : FoundTrack(trs[i].samples, i, shift, f)

\* The samples of the file f are found in a file g that holds its words shift further on.
LEMMA KeptIsFound ==
  ASSUME NEW f, FileOK(f), NEW g, NEW shift \in Nat, Len(g.cells) = Len(f.cells) + shift,
         \A p \in 1 .. Len(f.cells) : p > Base => g.cells[p + shift] = f.cells[p],
         NEW s \in Seq(Sample), NEW i, KeptTrack(s, i, f)
  PROVE  FoundTrack(s, i, shift, g)
<1>1. Len(f.cells) = f.pos /\ f.pos \in Nat /\ Base \in Nat
  BY FileFacts, SizesAssumption DEF FileOK, Base
<1>2. ASSUME NEW n \in 1 .. Len(s), s[n].stored, NEW k \in 1 .. s[n].bytes
      PROVE  /\ s[n].offset + shift + k <= Len(g.cells)
             /\ g.cells[s[n].offset + shift + k] = Datum(i, n, k)
  <2> DEFINE o == s[n].offset
             b == s[n].bytes
             p == o + k
  <2>1. o \in Nat /\ b \in Nat
    BY SampleIs
  <2>2. KeptSample(s[n], i, n, f)
    BY DEF KeptTrack
  <2>3. Base <= o /\ o + b <= f.pos /\ f.cells[o + k] = Datum(i, n, k)
    BY <1>2, <2>2 DEF KeptSample
  <2>4. k \in 1 .. b
    OBVIOUS
  <2> HIDE DEF o, b
  <2>5. p \in 1 .. f.pos /\ p > Base /\ o + shift + k = p + shift
    <3> DEFINE e == f.pos
               d == Base
    <3>1. d \in Nat /\ e \in Nat /\ d <= o /\ o + b <= e
      BY <1>1, <2>3
    <3> HIDE DEF d, e
    <3>2. k \in Nat /\ 1 <= k /\ k <= b
      BY <2>1, <2>4
    <3>3. o + k \in 1 .. e /\ o + k > d
      BY <2>1, <3>1, <3>2
    <3>4. o + shift + k = o + k + shift
      BY <2>1, <3>2
    <3> QED
      BY <3>3, <3>4 DEF d, e
  <2>6. p + shift <= f.pos + shift
    BY <1>1, <2>5
  <2>7. g.cells[p + shift] = f.cells[p]
    BY <1>1, <2>5
  <2>8. o + shift + k <= Len(g.cells) /\ g.cells[o + shift + k] = Datum(i, n, k)
    BY <1>1, <2>3, <2>5, <2>6, <2>7
  <2> QED
    BY <2>8 DEF o
<1>3. \A n \in 1 .. Len(s) : FoundSample(s[n], i, n, shift, g)
  BY <1>2 DEF FoundSample
<1>4. \A n \in 1 .. Len(s) : s[n].bytes # 0
  BY DEF KeptTrack, KeptSample
<1>5. \A n \in 2 .. Len(s) : s[n - 1].offset <= s[n].offset
  BY DEF KeptTrack
<1>6. s # <<>> => Placed(s)
  BY <1>4, <1>5 DEF Placed
<1>7. Behind(s)
  BY DEF KeptTrack
<1> QED
  BY <1>3, <1>6, <1>7 DEF FoundTrack

\* mov_writer_destroy makes the file readable.
LEMMA FinishedIsReadable ==
  ASSUME NEW f, FileOK(f), NEW trs \in Seq(Track), Kept(trs, f), NEW size \in Nat, NEW limit \in Nat
  PROVE  LET d == Finished(f, trs, size, limit)
         IN d.agrees = TRUE /\ Readable(d.file, trs, limit)
<1> DEFINE d == Finished(f, trs, size, limit)
<1> HIDE DEF d
<1>1. Done(d, f, trs, limit)
  BY FinishedIs DEF d
<1>2. PICK shift \in Nat :
        /\ d.agrees = TRUE /\ d.file \in FileOf(Word) /\ Len(d.file.cells) = Len(f.cells) + shift
        /\ \A p \in 1 .. Len(f.cells) : p > Base => d.file.cells[p + shift] = f.cells[p]
        /\ MoovOf(d.file.cells) = Traks(trs, shift, limit)
  BY <1>1 DEF Done
<1>3. ASSUME NEW i \in 1 .. Len(trs)
      PROVE  FoundTrack(trs[i].samples, i, shift, d.file)
  <2>1. trs[i] \in Track
    OBVIOUS
  <2>2. trs[i].samples \in Seq(Sample)
    BY <2>1 DEF Track
  <2>3. KeptTrack(trs[i].samples, i, f)
    BY DEF Kept
  <2> QED
    BY <1>2, <2>2, <2>3, KeptIsFound
<1>4. Readable(d.file, trs, limit)
  BY <1>2, <1>3 DEF Readable
<1> QED
  BY <1>2, <1>4 DEF d

\* The times of some track go back.
GoesBack(trs) == \E i \in DOMAIN trs : ~NeverBack(trs[i].samples)

\* Closed without a failing write, the file is readable; only times that go back stop
\* the closing.
ReadableInv ==
  /\ index = "written" => Readable(file, tracks, setup.limit)
  /\ index = "stopped" => GoesBack(tracks)

LEMMA NextReadable == WriterInv /\ ReadableInv /\ [Next]_vars => ReadableInv'
<1> SUFFICES ASSUME WriterInv, ReadableInv, [Next]_vars
             PROVE  ReadableInv'
  OBVIOUS
<1>1. CASE (\E kind \in Kinds, pts \in Stamps : WriteVideo(kind, pts))
           \/ (\E len \in AudioSizes, pts \in Stamps : WriteG711(len, pts))
  <2>1. index' = "open"
    <3>1. m_mov /\ index' = index
      BY <1>1 DEF WriteVideo, WriteG711
    <3> QED
      BY <3>1 DEF WriterInv, MoovState
  <2> QED
    BY <2>1 DEF ReadableInv
<1>2. CASE CloseWriter
  <2> DEFINE d == Finished(file, tracks, mdatSize, setup.limit)
  <2>1. m_mov /\ tracks' = tracks /\ setup' = setup
    BY <1>2 DEF CloseWriter
  <2>2. FileOK(file) /\ Kept(tracks, file) /\ tracks \in Seq(Track) /\ mdatSize \in Nat
    BY <2>1 DEF WriterInv, Recording, Layout
  <2>3. setup.limit \in Nat
    BY WriterAssumption DEF WriterInv
  <2>4. d.agrees = TRUE /\ Readable(d.file, tracks, setup.limit)
    BY <2>2, <2>3, FinishedIsReadable
  <2>5. \/ index' = "stopped" /\ (~d.agrees \/ GoesBack(tracks))
        \/ index' = "lost"
        \/ index' = "written" /\ file' = d.file
    BY <1>2 DEF CloseWriter, GoesBack
  <2> HIDE DEF d
  <2> QED
    BY <2>1, <2>4, <2>5 DEF ReadableInv
<1>3. CASE UNCHANGED vars
  <2>1. index' = index /\ file' = file /\ tracks' = tracks /\ setup' = setup
    BY <1>3 DEF vars
  <2> QED
    BY <2>1 DEF ReadableInv
<1> QED
  BY <1>1, <1>2, <1>3 DEF Next

LEMMA ReadableHolds == Spec => [](WriterInv /\ ReadableInv)
<1>1. Init => ReadableInv
  BY DEF Init, ReadableInv
<1> QED
  BY <1>1, InitWriterInv, NextWriterInv, NextReadable, PTL DEF Spec

\* The j-th track of the moov box is the table of the j-th track that has samples.
Describes(t, trk, shift, limit) ==
  /\ TimesOfTrak(t, trk.samples) /\ PlacesOfTrak(t, trk.samples, shift, limit)
  /\ t.stss = Stss(trk)

LEMMA TrackDescribed ==
  ASSUME NEW trs \in Seq(Track), NEW shift, NEW limit, NEW j \in DOMAIN Traks(trs, shift, limit)
  PROVE  LET i == WithSamples(trs)[j]
         IN /\ i \in 1 .. Len(trs) /\ trs[i].samples \in Seq(Sample) /\ trs[i].samples # <<>>
            /\ Describes(Traks(trs, shift, limit)[j], trs[i], shift, limit)
<1> DEFINE i == WithSamples(trs)[j]
<1>1. j \in DOMAIN WithSamples(trs)
  BY DEF Traks
<1>2. i \in 1 .. Len(trs) /\ trs[i].samples \in Seq(Sample) /\ trs[i].samples # <<>>
  BY <1>1, WithSamplesList
<1>3. Traks(trs, shift, limit)[j] = Trak(trs[i], shift, limit)
  BY <1>1 DEF Traks
<1> HIDE DEF i
<1>4. Describes(Traks(trs, shift, limit)[j], trs[i], shift, limit)
  BY <1>3 DEF Describes, Trak, TimesOfTrak, PlacesOfTrak
<1> QED
  BY <1>2, <1>4 DEF i

\* What the invariants say of a finished recording.
LEMMA WhenClosed ==
  ASSUME WriterInv, ReadableInv, index = "written"
  PROVE  /\ tracks \in Seq(Track) /\ setup.limit \in Nat
         /\ \E shift \in Nat :
              /\ ReadBack = Traks(tracks, shift, setup.limit)
              /\ \A i \in 1 .. Len(tracks) : FoundTrack(tracks[i].samples, i, shift, file)
<1>1. Readable(file, tracks, setup.limit)
  BY DEF ReadableInv
<1>2. tracks \in Seq(Track)
  BY DEF WriterInv, Layout
<1>3. setup.limit \in Nat
  BY WriterAssumption DEF WriterInv
<1> QED
  BY <1>1, <1>2, <1>3 DEF Readable, ReadBack

\* The samples of track i, in the order of the table t, are where the reader of t
\* computes them.
ReadWhole(t, s, i, f) ==
  /\ Len(Offsets(t)) = Len(s) /\ DOMAIN Offsets(t) = 1 .. Len(s)
  /\ (\A n \in 1 .. Len(s) : s[n].stored) => Apart(t)
  /\ \A n \in 1 .. Len(s) : s[n].stored =>
       /\ SizeOf(t.stsz, n) = s[n].bytes
       /\ \A k \in 1 .. s[n].bytes :
            Offsets(t)[n] + k <= Len(f.cells) /\ f.cells[Offsets(t)[n] + k] = Datum(i, n, k)

LEMMA SamplesFound ==
  ASSUME NEW f, NEW s, Placed(s), NEW i, NEW shift \in Nat, NEW limit \in Nat,
         FoundTrack(s, i, shift, f), NEW t, PlacesOfTrak(t, s, shift, limit)
  PROVE  ReadWhole(t, s, i, f)
<1> DEFINE at == Offsets(t)
<1>1. Located(at, s, Len(s), shift)
  BY OffsetsOfTrak
<1> HIDE DEF at
<1>2. at \in Seq(Nat) /\ Len(at) = Len(s) /\ \A n \in 1 .. Len(s) : at[n] = s[n].offset + shift
  BY <1>1 DEF Located
<1>3. ASSUME NEW n \in 1 .. Len(s), s[n].stored, NEW k \in 1 .. s[n].bytes
      PROVE  at[n] + k <= Len(f.cells) /\ f.cells[at[n] + k] = Datum(i, n, k)
  <2>1. FoundSample(s[n], i, n, shift, f)
    BY DEF FoundTrack
  <2>2. s[n].offset + shift + k <= Len(f.cells) /\ f.cells[s[n].offset + shift + k] = Datum(i, n, k)
    BY <1>3, <2>1 DEF FoundSample
  <2> QED
    BY <1>2, <2>2
<1>4. \A n \in 1 .. Len(s) : SizeOf(t.stsz, n) = s[n].bytes
  BY StszIs DEF PlacesOfTrak
<1>5. DOMAIN at = 1 .. Len(s)
  BY <1>2
<1>6. ASSUME \A n \in 1 .. Len(s) : s[n].stored
      PROVE  Apart(t)
  <2>1. \A n \in 1 .. Len(s) : s[n].bytes \in Nat \ {0} /\ s[n].offset \in Nat
    BY PlacedIs
  <2>2. ASSUME NEW n \in 1 .. Len(s), n > 1
        PROVE  at[n - 1] + SizeOf(t.stsz, n - 1) <= at[n]
    <3>1. n \in 2 .. Len(s) /\ n - 1 \in 1 .. Len(s)
      BY <2>2
    <3>2. s[n - 1].offset + s[n - 1].bytes <= s[n].offset
      BY <1>6, <3>1 DEF FoundTrack, Behind
    <3>3. /\ at[n - 1] = s[n - 1].offset + shift /\ at[n] = s[n].offset + shift
          /\ SizeOf(t.stsz, n - 1) = s[n - 1].bytes
      BY <1>2, <1>4, <3>1
    <3>4. s[n - 1].offset \in Nat /\ s[n - 1].bytes \in Nat /\ s[n].offset \in Nat
      BY <2>1, <3>1
    <3> DEFINE p == s[n - 1].offset
               b == s[n - 1].bytes
               q == s[n].offset
    <3>5. p \in Nat /\ b \in Nat /\ q \in Nat /\ p + b <= q
      BY <3>2, <3>4
    <3>6. at[n - 1] = p + shift /\ at[n] = q + shift /\ SizeOf(t.stsz, n - 1) = b
      BY <3>3
    <3> HIDE DEF p, b, q
    <3>7. (p + shift) + b <= q + shift
      BY <3>5
    <3> QED
      BY <3>6, <3>7
  <2>3. \A n \in 1 .. Len(s) : SizeOf(t.stsz, n) > 0
    BY <1>4, <2>1
  <2> QED
    BY <1>5, <2>2, <2>3 DEF Apart, at
<1> QED
  BY <1>2, <1>3, <1>4, <1>5, <1>6 DEF at, ReadWhole

\* In a recording closed without a failing write, every sample whose write succeeded is
\* found where the chunks and the sizes before it say, with every one of its words, also
\* behind media writes that failed; when none failed, what the reader asserts of the
\* samples holds.  Only times that go back let an assertion stop the closing.
THEOREM StoredSamplesAreReadable == Spec => []SamplesReadable
<1>2. WriterInv /\ ReadableInv => SamplesReadable
  <2> SUFFICES ASSUME WriterInv, ReadableInv, index = "written"
               PROVE  /\ Len(ReadBack) = Len(Recorded)
                      /\ \A j \in DOMAIN Recorded :
                           LET t == ReadBack[j]
                               at == Offsets(t)
                           IN /\ Len(at) = Len(Recorded[j].samples)
                              /\ DiskHeld => Apart(t)
                              /\ \A n \in DOMAIN at :
                                   LET s == Recorded[j].samples[n]
                                   IN s.stored =>
                                        /\ SizeOf(t.stsz, n) = s.bytes
                                        /\ \A k \in 1 .. s.bytes :
                                             /\ at[n] + k <= Len(file.cells)
                                             /\ file.cells[at[n] + k] = Datum(WithSamples(tracks)[j], n, k)
    BY DEF SamplesReadable, ReadableInv, GoesBack
  <2>1. tracks \in Seq(Track) /\ setup.limit \in Nat
    BY WhenClosed
  <2>2. PICK shift \in Nat :
          /\ ReadBack = Traks(tracks, shift, setup.limit)
          /\ \A i \in 1 .. Len(tracks) : FoundTrack(tracks[i].samples, i, shift, file)
    BY WhenClosed
  <2>3. Len(ReadBack) = Len(Recorded) /\ DOMAIN Recorded = DOMAIN ReadBack
    <3> DEFINE w == WithSamples(tracks)
               m == Len(w)
               a == ReadBack
               b == Recorded
    <3>1. DOMAIN w = 1 .. m /\ m \in Nat
      BY <2>1, WithSamplesList
    <3>2. a = [k \in DOMAIN w |-> a[k]] /\ b = [k \in DOMAIN w |-> b[k]]
      BY <2>2 DEF Traks, Recorded
    <3> HIDE DEF a, b, w, m
    <3>3. a = [k \in 1 .. m |-> a[k]] /\ b = [k \in 1 .. m |-> b[k]]
      BY <3>1, <3>2
    <3>4. a \in [1 .. m -> {a[k] : k \in 1 .. m}] /\ b \in [1 .. m -> {b[k] : k \in 1 .. m}]
      BY <3>3
    <3>5. Len(a) = m /\ DOMAIN a = 1 .. m
      BY <3>1, <3>4, SeqFrom
    <3>6. Len(b) = m /\ DOMAIN b = 1 .. m
      BY <3>1, <3>4, SeqFrom
    <3> QED
      BY <3>5, <3>6 DEF a, b
  <2>4. ASSUME NEW j \in DOMAIN Recorded
        PROVE  /\ Len(Offsets(ReadBack[j])) = Len(Recorded[j].samples)
               /\ DiskHeld => Apart(ReadBack[j])
               /\ \A n \in DOMAIN Offsets(ReadBack[j]) : Recorded[j].samples[n].stored =>
                    /\ SizeOf(ReadBack[j].stsz, n) = Recorded[j].samples[n].bytes
                    /\ \A k \in 1 .. Recorded[j].samples[n].bytes :
                         /\ Offsets(ReadBack[j])[n] + k <= Len(file.cells)
                         /\ file.cells[Offsets(ReadBack[j])[n] + k] = Datum(WithSamples(tracks)[j], n, k)
    <3> DEFINE i == WithSamples(tracks)[j]
               s == tracks[i].samples
               t == ReadBack[j]
    <3>1. j \in DOMAIN Traks(tracks, shift, setup.limit)
      BY <2>2, <2>3
    <3>2. /\ i \in 1 .. Len(tracks) /\ s \in Seq(Sample) /\ s # <<>>
          /\ Describes(t, tracks[i], shift, setup.limit)
      BY <2>1, <2>2, <3>1, TrackDescribed
    <3>3. Recorded[j].samples = s
      BY DEF Recorded
    <3> HIDE DEF t
    <3>4. PlacesOfTrak(t, s, shift, setup.limit)
      BY <3>2 DEF Describes
    <3>8. DiskHeld => \A n \in 1 .. Len(s) : s[n].stored
      BY <3>2 DEF WriterInv, AllStored
    <3> HIDE DEF i
    <3>5. FoundTrack(s, i, shift, file)
      BY <2>2, <3>2
    <3> HIDE DEF s
    <3>6. Placed(s)
      BY <3>2, <3>5 DEF FoundTrack
    <3>7. ReadWhole(t, s, i, file)
      <4> DEFINE lim == setup.limit
      <4>1. lim \in Nat /\ PlacesOfTrak(t, s, shift, lim)
        BY <2>1, <3>4
      <4> HIDE DEF lim
      <4> QED
        BY <3>5, <3>6, <4>1, SamplesFound
    <3>9. DiskHeld => Apart(t)
      BY <3>7, <3>8 DEF ReadWhole
    <3> QED
      BY <3>3, <3>7, <3>9 DEF t, i, ReadWhole
  <2> QED
    BY <2>3, <2>4
<1> QED
  BY <1>2, ReadableHolds, PTL

\* The times a reader gets are those of the samples, and 1 ms later for every earlier
\* sample that has the time of the one before it.
THEOREM RecordedTimesAreReadBack == Spec => []TimesReadBack
<1>1. WriterInv /\ ReadableInv => TimesReadBack
  <2> SUFFICES ASSUME WriterInv, ReadableInv, index = "written", NEW j \in DOMAIN Recorded
               PROVE  LET s == Recorded[j].samples
                          times == Times(ReadBack[j])
                      IN /\ Len(times) = Len(s)
                         /\ NeverBack(s) =>
                              \A n \in DOMAIN s :
                                times[n] = s[n].dts + Cardinality({ k \in 2 .. n : s[k].dts = s[k - 1].dts })
    BY DEF TimesReadBack
  <2> DEFINE i == WithSamples(tracks)[j]
             s == tracks[i].samples
             times == Times(ReadBack[j])
  <2>1. tracks \in Seq(Track)
    BY WhenClosed
  <2>2. PICK shift \in Nat : ReadBack = Traks(tracks, shift, setup.limit)
    BY WhenClosed
  <2>3. j \in DOMAIN Traks(tracks, shift, setup.limit)
    BY DEF Recorded, Traks
  <2>4. /\ i \in 1 .. Len(tracks) /\ s \in Seq(Sample) /\ s # <<>>
        /\ Describes(ReadBack[j], tracks[i], shift, setup.limit)
    BY <2>1, <2>2, <2>3, TrackDescribed
  <2>5. Recorded[j].samples = s
    BY DEF Recorded
  <2>6. TimesOfTrak(ReadBack[j], s)
    BY <2>4 DEF Describes
  <2> HIDE DEF i, s
  <2>7. Dated(s)
    BY <2>4, DatedSamples
  <2>8. Timed(times, s, Len(s))
    BY <2>6, <2>7, TimesAreDeltas
  <2> HIDE DEF times
  <2>9. Len(times) = Len(s) /\ DOMAIN s = 1 .. Len(s)
    BY <2>7, <2>8 DEF Timed, Dated
  <2>10. ASSUME NeverBack(s), NEW n \in DOMAIN s
         PROVE  times[n] = s[n].dts + Cardinality({ k \in 2 .. n : s[k].dts = s[k - 1].dts })
    <3>1. \A k \in 2 .. Len(s) : s[k].dts >= s[k - 1].dts
      BY <2>10 DEF NeverBack
    <3>2. times[n] = s[n].dts + Cardinality(Late(s, n))
      BY <2>7, <2>8, <2>9, <3>1, TimedCounts
    <3> QED
      BY <3>2 DEF Late
  <2> QED
    BY <2>5, <2>9, <2>10 DEF times
<1> QED
  BY <1>1, ReadableHolds, PTL

\* What every track that was read back knows of its times, and who it is.
LEMMA TrackSeeks ==
  ASSUME WriterInv, ReadableInv, index = "written", NEW j \in DOMAIN ReadBack
  PROVE  LET i == WithSamples(tracks)[j]
         IN /\ \A ts \in Int : Seeks(ReadBack[j], ts)
            /\ \A n \in DOMAIN Times(ReadBack[j]) : Times(ReadBack[j])[n] \in Int
            /\ KeyFramed(ReadBack[j]) => i = track["video"]
            /\ KeyFramed(ReadBack[j]) => ToSet(ReadBack[j].stss) \subseteq DOMAIN Times(ReadBack[j])
<1> DEFINE i == WithSamples(tracks)[j]
           s == tracks[i].samples
<1>1. tracks \in Seq(Track)
  BY WhenClosed
<1>2. PICK shift \in Nat : ReadBack = Traks(tracks, shift, setup.limit)
  BY WhenClosed
<1>3. /\ i \in 1 .. Len(tracks) /\ s \in Seq(Sample) /\ s # <<>>
      /\ Describes(ReadBack[j], tracks[i], shift, setup.limit)
  BY <1>1, <1>2, TrackDescribed
<1>4. TimesOfTrak(ReadBack[j], s) /\ ReadBack[j].stss = Stss(tracks[i])
  BY <1>3 DEF Describes
<1>5. Dated(s)
  BY <1>3, DatedSamples
<1>6. Len(s) \in Nat
  BY <1>3
<1>7. PICK S : Lists(Stss(tracks[i]), S, Len(s))
  BY <1>6, StssLists
<1>8. Lists(ReadBack[j].stss, S, Len(s))
  BY <1>4, <1>7
<1>9. ReadBack[j].handler = tracks[i].handler
  BY <1>2 DEF Traks, Trak
<1>10. KeyFramed(ReadBack[j]) => i = track["video"]
  <2>1. i \in DOMAIN tracks
    BY <1>1, <1>3
  <2>2. track[tracks[i].handler] = i
    BY <2>1 DEF WriterInv, Layout
  <2> QED
    BY <1>9, <2>2 DEF KeyFramed
<1> HIDE DEF s
<1>11. \A ts \in Int : Seeks(ReadBack[j], ts)
  BY <1>4, <1>5, <1>8, SeekOfTrak
<1>12. Timed(Times(ReadBack[j]), s, Len(s))
  BY <1>4, <1>5, TimesAreDeltas
<1> DEFINE times == Times(ReadBack[j])
<1> HIDE DEF times
<1>13. times \in Seq(Int) /\ Len(times) = Len(s)
  BY <1>12 DEF Timed, times
<1>14. DOMAIN times = 1 .. Len(s) /\ \A n \in DOMAIN times : times[n] \in Int
  BY <1>13
<1> DEFINE h == ReadBack[j].stss
<1>15. ToSet(h) \subseteq DOMAIN times
  <2>1. Lists(h, S, Len(s))
    BY <1>8
  <2> HIDE DEF h
  <2>2. h \in Seq(Nat) /\ \A a \in 1 .. Len(h) : h[a] \in 1 .. Len(s)
    BY <2>1 DEF Lists
  <2>3. ToSet(h) = {h[a] : a \in 1 .. Len(h)}
    BY <2>2 DEF ToSet
  <2> QED
    BY <1>14, <2>2, <2>3
<1> QED
  BY <1>10, <1>11, <1>14, <1>15 DEF times, i

\* A seek of the recording is one of each track, the video first.
LEMMA SeekOfTracks ==
  ASSUME WriterInv, ReadableInv, index = "written", NEW ts \in Int
  PROVE  \E v \in 0 .. Len(ReadBack) :
           /\ DOMAIN ReadBack = 1 .. Len(ReadBack) /\ Len(ReadBack) \in Nat /\ OnlyKeyed(ReadBack, v)
           /\ \A i \in 1 .. Len(ReadBack) :
                SeekTo(ReadBack, ts)[i] =
                  SeekOf(ReadBack[i], IF i = v THEN ts ELSE TimeBehind(ReadBack, v, ts))
<1> DEFINE traks == ReadBack
           w == WithSamples(tracks)
           n == Len(w)
           Keyed == {v \in 1 .. n : KeyFramed(traks[v])}
<1>1. tracks \in Seq(Track)
  BY WhenClosed
<1>2. PICK shift \in Nat : traks = Traks(tracks, shift, setup.limit)
  BY WhenClosed
<1>3. /\ DOMAIN w = 1 .. n /\ n \in Nat /\ \A a, b \in 1 .. n : a < b => w[a] < w[b]
      /\ \A a \in 1 .. n : w[a] \in Nat
  <2>1. /\ Lists(w, {i \in DOMAIN tracks : tracks[i].samples # <<>>}, Len(tracks))
        /\ DOMAIN w = 1 .. n /\ n \in Nat
    BY <1>1, WithSamplesList
  <2> HIDE DEF w
  <2> QED
    BY <2>1 DEF Lists
<1>4. DOMAIN traks = 1 .. n /\ Len(traks) = n
  <2>1. traks = [k \in DOMAIN w |-> traks[k]]
    BY <1>2 DEF Traks
  <2> HIDE DEF traks, w, n
  <2>2. traks \in [1 .. n -> {traks[k] : k \in 1 .. n}]
    BY <1>3, <2>1
  <2> QED
    BY <1>3, <2>2, SeqFrom
<1>5. \A j \in 1 .. n : KeyFramed(traks[j]) => w[j] = track["video"]
  BY <1>4, TrackSeeks
<1> HIDE DEF traks, w, n
<1>6. \A a, b \in Keyed : a = b
  BY <1>3, <1>5
<1>7. PICK v \in 0 .. n : \A i \in 1 .. n : KeyFramed(traks[i]) <=> i = v
  <2>1. CASE Keyed = {}
    <3>1. 0 \in 0 .. n /\ \A i \in 1 .. n : i # 0 /\ i \notin Keyed
      BY <1>3, <2>1
    <3> QED
      BY <3>1
  <2>2. CASE Keyed # {}
    <3>1. PICK v \in 1 .. n : v \in Keyed
      BY <2>2
    <3>2. v \in 0 .. n
      BY <3>1
    <3> QED
      BY <1>6, <3>1, <3>2
  <2> QED
    BY <2>1, <2>2
<1>8. OnlyKeyed(traks, v)
  BY <1>4, <1>7 DEF OnlyKeyed
<1>9. \A i \in 1 .. n : SeekTo(traks, ts)[i] = SeekOf(traks[i], IF i = v THEN ts ELSE TimeBehind(traks, v, ts))
  BY <1>3, <1>4, <1>8, SeekToIs
<1> QED
  BY <1>3, <1>4, <1>8, <1>9 DEF traks

\* A seek resumes a video with key frames at the key frame that is the nearest to the
\* time sought, and every other track at the sample that is the nearest to that key
\* frame; without key frames, to the time sought.
THEOREM SeekEndsAtTheNearest == Spec => []SeekFindsNearest
<1>1. WriterInv /\ ReadableInv => SeekFindsNearest
  <2> DEFINE read == ReadBack
             keyed == {v \in DOMAIN read : KeyFramed(read[v])}
             at(ts) == SeekTo(read, ts)
  <2> SUFFICES ASSUME WriterInv, ReadableInv, index = "written", NEW j \in DOMAIN read,
                      NEW ts \in 0 .. Last(Times(read[j])) + 1, NEW i \in DOMAIN read
               PROVE  LET times == Times(read[i])
                      IN /\ i \in keyed => IsNearest(at(ts)[i], ToSet(read[i].stss), times, ts)
                         /\ i \notin keyed =>
                              /\ \A v \in keyed :
                                   IsNearest(at(ts)[i], DOMAIN times, times, Times(read[v])[at(ts)[v]])
                              /\ keyed = {} => IsNearest(at(ts)[i], DOMAIN times, times, ts)
    BY Zenon DEF SeekFindsNearest
  <2>1. ts \in Int
    OBVIOUS
  <2>2. PICK v \in 0 .. Len(read) :
          /\ DOMAIN read = 1 .. Len(read) /\ Len(read) \in Nat /\ OnlyKeyed(read, v)
          /\ \A k \in 1 .. Len(read) :
               at(ts)[k] = SeekOf(read[k], IF k = v THEN ts ELSE TimeBehind(read, v, ts))
    BY <2>1, SeekOfTracks
  <2>3. \A k \in DOMAIN read :
          /\ \A t \in Int : Seeks(read[k], t)
          /\ \A n \in DOMAIN Times(read[k]) : Times(read[k])[n] \in Int
          /\ KeyFramed(read[k]) => ToSet(read[k].stss) \subseteq DOMAIN Times(read[k])
    BY TrackSeeks
  <2> HIDE DEF read, at
  <2>4. \A k \in DOMAIN read : k \in keyed <=> k = v
    BY <2>2 DEF OnlyKeyed
  <2>5. \A k \in DOMAIN read, t \in Int : IsNearest(SeekOf(read[k], t), Entries(read[k]), Times(read[k]), t)
    BY <2>3 DEF Seeks, IsNearest
  <2>6. ASSUME v # 0
        PROVE  /\ v \in DOMAIN read /\ KeyFramed(read[v])
               /\ at(ts)[v] = SeekOf(read[v], ts) /\ Times(read[v])[at(ts)[v]] \in Int
               /\ TimeBehind(read, v, ts) = Times(read[v])[at(ts)[v]]
    <3>1. v \in DOMAIN read
      BY <2>2, <2>6
    <3>2. KeyFramed(read[v])
      BY <2>4, <3>1
    <3>3. at(ts)[v] = SeekOf(read[v], ts)
      BY <2>2, <3>1
    <3>4. SeekOf(read[v], ts) \in Entries(read[v])
      BY <2>1, <2>5, <3>1 DEF IsNearest
    <3>5. at(ts)[v] \in DOMAIN Times(read[v])
      BY <2>3, <3>1, <3>2, <3>3, <3>4 DEF Entries
    <3> QED
      BY <2>3, <2>6, <3>1, <3>2, <3>3, <3>5 DEF TimeBehind, SeekOf
  <2>7. CASE i = v
    <3>1. at(ts)[i] = SeekOf(read[i], ts) /\ KeyFramed(read[i]) /\ i \in keyed
      BY <2>2, <2>4, <2>7
    <3> QED
      BY <2>1, <2>5, <3>1 DEF Entries
  <2>8. CASE i # v
    <3> DEFINE t == TimeBehind(read, v, ts)
    <3>1. at(ts)[i] = SeekOf(read[i], t) /\ ~KeyFramed(read[i]) /\ i \notin keyed
      BY <2>2, <2>4, <2>8
    <3>2. t \in Int
      BY <2>1, <2>6 DEF TimeBehind
    <3>3. \A k \in keyed : k = v /\ v # 0 /\ t = Times(read[k])[at(ts)[k]]
      BY <2>2, <2>4, <2>6
    <3>4. keyed = {} => t = ts
      BY <2>4, <2>6 DEF TimeBehind
    <3> HIDE DEF t, keyed
    <3>5. IsNearest(at(ts)[i], DOMAIN Times(read[i]), Times(read[i]), t)
      BY <2>5, <3>1, <3>2 DEF Entries
    <3> QED
      BY <3>1, <3>3, <3>4, <3>5
  <2> QED
    BY <2>7, <2>8
<1> QED
  BY <1>1, ReadableHolds, PTL
=============================================================================

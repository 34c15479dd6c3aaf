---------------------------- MODULE MovFile_proofs ----------------------------
(***************************************************************************)
(* What the operators of MovFile compute, for tables and files of every    *)
(* size: the search of a seek finds the nearest time, the fast start moves *)
(* the moov box and nothing else, and the times a reader gets are those    *)
(* the deltas of the samples make.                                         *)
(***************************************************************************)
EXTENDS MovFile, SequenceTheorems, FiniteSetTheorems, WellFoundedInduction, TLAPS

-----------------------------------------------------------------------------
(* Recursion over numbers.                                                 *)

\* A set of numbers has a least one.
LEMMA MinOfNat ==
  ASSUME NEW S \in SUBSET Nat, S # {}
  PROVE  \E m \in S : \A x \in S : m <= x
<1> DEFINE T == {0 .. x : x \in S}
           R == StrictSubsetOrdering(Nat)
<1>1. T \subseteq FiniteSubsetsOf(Nat) /\ T # {}
  <2>1. ASSUME NEW x \in S
        PROVE  0 .. x \in SUBSET Nat /\ IsFiniteSet(0 .. x)
    BY FS_Interval
  <2> QED
    BY <2>1 DEF FiniteSubsetsOf
<1>2. PICK u \in T : \A v \in T : ~(<<v, u>> \in R)
  BY <1>1, WFMin, FS_StrictSubsetOrderingWellFounded
<1>3. PICK m \in S : u = 0 .. m
  BY <1>2
<1>4. ASSUME NEW x \in S, x < m
      PROVE  FALSE
  <2>1. 0 .. x \in T
    OBVIOUS
  <2>2. 0 .. x \subseteq u /\ m \in u /\ m \notin 0 .. x
    BY <1>3, <1>4
  <2>3. <<0 .. x, u>> \in R
    BY <1>3, <2>2 DEF StrictSubsetOrdering
  <2> QED
    BY <1>2, <2>1, <2>3
<1>5. \A x \in S : m <= x
  BY <1>4
<1> QED
  BY <1>5

\* Induction over a measure.
LEMMA ByMeasure ==
  ASSUME NEW D, NEW mu \in [D -> Nat], NEW S,
         \A x \in D : (\A y \in D : mu[y] < mu[x] => y \in S) => x \in S
  PROVE  \A x \in D : x \in S
<1> DEFINE Bad == {mu[x] : x \in D \ S}
<1> SUFFICES ASSUME D \ S # {}
             PROVE  FALSE
  OBVIOUS
<1>1. Bad \in SUBSET Nat /\ Bad # {}
  <2>1. PICK x \in D \ S : TRUE
    OBVIOUS
  <2>2. mu[x] \in Bad
    OBVIOUS
  <2>3. \A y \in D : mu[y] \in Nat
    OBVIOUS
  <2> QED
    BY <2>2, <2>3
<1>2. PICK m \in Bad : \A k \in Bad : m <= k
  <2> HIDE DEF Bad
  <2> QED
    BY <1>1, MinOfNat
<1>3. PICK x \in D \ S : m = mu[x]
  BY <1>2
<1>4. ASSUME NEW y \in D, mu[y] < mu[x]
      PROVE  y \in S
  <2>1. CASE y \notin S
    <3>1. mu[y] \in Bad /\ mu[y] \in Nat /\ mu[x] \in Nat
      BY <2>1
    <3>2. mu[x] \in Nat /\ mu[x] <= mu[y]
      BY <1>2, <1>3, <3>1
    <3> QED
      BY <1>4, <3>1, <3>2
  <2> QED
    BY <2>1
<1> QED
  BY <1>3, <1>4

\* Induction up to a number.
LEMMA UpToNumber ==
  ASSUME NEW m \in Nat, NEW S, 0 \in S, \A n \in 1 .. m : n - 1 \in S => n \in S
  PROVE  \A n \in 0 .. m : n \in S
<1> DEFINE D == 0 .. m
           mu == [n \in D |-> n]
<1>1. mu \in [D -> Nat]
  OBVIOUS
<1>2. ASSUME NEW x \in D, \A y \in D : mu[y] < mu[x] => y \in S
      PROVE  x \in S
  <2>1. CASE x = 0
    BY <2>1
  <2>2. CASE x # 0
    <3>1. x \in 1 .. m /\ x - 1 \in D /\ mu[x - 1] < mu[x]
      BY <2>2
    <3> QED
      BY <1>2, <3>1
  <2> QED
    BY <2>1, <2>2
<1>3. \A x \in D : x \in S
  <2> HIDE DEF D, mu
  <2> QED
    BY <1>1, <1>2, ByMeasure
<1> QED
  BY <1>3

\* Two runs of the same steps from the same value are one.
LEMMA SameSteps ==
  ASSUME NEW m \in Nat, NEW f, NEW g,
         DOMAIN f = 0 .. m, DOMAIN g = 0 .. m, f = [i \in 0 .. m |-> f[i]], g = [i \in 0 .. m |-> g[i]],
         f[0] = g[0],
         \A i \in 1 .. m : f[i - 1] = g[i - 1] => f[i] = g[i]
  PROVE  f = g
<1> DEFINE Differ == { i \in 0 .. m : f[i] # g[i] }
<1>1. CASE Differ = {}
  <2>1. \A i \in 0 .. m : f[i] = g[i]
    BY <1>1
  <2> QED
    BY <2>1
<1>2. CASE Differ # {}
  <2>1. Differ \in SUBSET Nat
    OBVIOUS
  <2>2. PICK i \in Differ : \A k \in Differ : i <= k
    <3> HIDE DEF Differ
    <3> QED
      BY <1>2, <2>1, MinOfNat
  <2>3. i \in 1 .. m /\ i - 1 \in 0 .. m /\ i - 1 \notin Differ
    BY <2>2
  <2> QED
    BY <2>2, <2>3
<1> QED
  BY <1>1, <1>2

\* A recursion over D that stops with b in Stop, goes on with next elsewhere, and
\* comes closer to its end, as mu measures, at every step.
Recursion(D, mu, R, Stop, next, b, c) ==
  /\ mu \in [D -> Nat] /\ R # {}
  /\ \A x \in D \ Stop : next[x] \in D /\ mu[next[x]] < mu[x]
  /\ \A x \in D \cap Stop : b[x] \in R
  /\ \A x \in D \ Stop : \A r \in R : c[x][r] \in R

\* f satisfies the equation of the recursion.
Solves(f, D, Stop, next, b, c) ==
  \A x \in D : f[x] = IF x \in Stop THEN b[x] ELSE c[x][f[next[x]]]

\* The equation has a solution, which CHOOSE then picks.
LEMMA RecursionExists ==
  ASSUME NEW D, NEW mu, NEW R, NEW Stop, NEW next, NEW b, NEW c,
         Recursion(D, mu, R, Stop, next, b, c)
  PROVE  \E f \in [D -> R] : Solves(f, D, Stop, next, b, c)
<1> USE DEF Recursion
<1> DEFINE Step(f, x) == IF x \in Stop THEN b[x] ELSE c[x][f[next[x]]]
           SolvesTo(f, m) == \A x \in D : mu[x] <= m => f[x] = Step(f, x)
           G == {m \in Nat : \E f \in [D -> R] : SolvesTo(f, m)}
<1>1. \A f \in [D -> R] : \A x \in D : Step(f, x) \in R
  OBVIOUS
<1>2. 0 \in G
  <2> DEFINE f == [x \in D |-> IF x \in Stop THEN b[x] ELSE CHOOSE r \in R : TRUE]
  <2>1. f \in [D -> R]
    OBVIOUS
  <2>2. ASSUME NEW x \in D, mu[x] <= 0
        PROVE  f[x] = Step(f, x)
    <3>1. x \in Stop
      <4>1. ASSUME x \notin Stop
            PROVE  FALSE
        <5>1. mu[next[x]] \in Nat /\ mu[x] \in Nat /\ mu[next[x]] < mu[x]
          BY <4>1
        <5> QED
          BY <2>2, <5>1
      <4> QED
        BY <4>1
    <3> QED
      BY <3>1
  <2> HIDE DEF f, Step
  <2> QED
    BY <2>1, <2>2
<1>3. ASSUME NEW m \in Nat, m \in G
      PROVE  m + 1 \in G
  <2>1. PICK f \in [D -> R] : SolvesTo(f, m)
    BY <1>3
  <2> DEFINE g == [x \in D |-> IF mu[x] <= m THEN f[x] ELSE Step(f, x)]
  <2>2. g \in [D -> R]
    <3> HIDE DEF Step
    <3> QED
      BY <1>1
  <2>3. ASSUME NEW x \in D, mu[x] <= m + 1
        PROVE  g[x] = Step(g, x)
    <3>1. g[x] = Step(f, x)
      BY <2>1
    <3>2. CASE x \in Stop
      BY <3>1, <3>2
    <3>3. CASE x \notin Stop
      <4>1. next[x] \in D /\ mu[next[x]] < mu[x] /\ mu[next[x]] \in Nat /\ mu[x] \in Nat
        BY <3>3
      <4>2. mu[next[x]] <= m
        BY <2>3, <4>1
      <4>3. g[next[x]] = f[next[x]]
        BY <4>1, <4>2
      <4> HIDE DEF g
      <4> QED
        BY <3>1, <3>3, <4>3
    <3> QED
      BY <3>2, <3>3
  <2> HIDE DEF g, Step
  <2> QED
    BY <2>2, <2>3
<1>4. ASSUME NEW m \in Nat
      PROVE  m \in G
  <2>1. \A n \in 1 .. m : n - 1 \in G => n \in G
    <3> HIDE DEF G
    <3>1. ASSUME NEW n \in 1 .. m, n - 1 \in G
          PROVE  n \in G
      <4>1. n - 1 \in Nat /\ (n - 1) + 1 = n
        OBVIOUS
      <4>2. (n - 1) + 1 \in G
        BY <1>3, <3>1, <4>1
      <4> QED
        BY <4>1, <4>2
    <3> QED
      BY <3>1
  <2> HIDE DEF G
  <2>2. \A n \in 0 .. m : n \in G
    BY <1>2, <2>1, UpToNumber
  <2> QED
    BY <2>2
<1>5. ASSUME NEW m \in Nat, NEW k \in Nat, m <= k, NEW f \in [D -> R], NEW g \in [D -> R],
             SolvesTo(f, m), SolvesTo(g, k)
      PROVE  \A x \in D : mu[x] <= m => f[x] = g[x]
  <2> DEFINE S == {x \in D : mu[x] <= m => f[x] = g[x]}
  <2>1. ASSUME NEW x \in D, \A y \in D : mu[y] < mu[x] => y \in S
        PROVE  x \in S
    <3>1. SUFFICES ASSUME mu[x] <= m
                   PROVE  f[x] = g[x]
      OBVIOUS
    <3>2. mu[x] \in Nat /\ mu[x] <= k
      BY <1>5, <3>1
    <3>3. f[x] = Step(f, x) /\ g[x] = Step(g, x)
      BY <1>5, <3>1, <3>2
    <3>4. CASE x \in Stop
      BY <3>3, <3>4
    <3>5. CASE x \notin Stop
      <4>1. next[x] \in D /\ mu[next[x]] < mu[x] /\ mu[next[x]] \in Nat
        BY <3>5
      <4>2. next[x] \in S /\ mu[next[x]] <= m
        BY <2>1, <3>1, <3>2, <4>1
      <4>3. f[next[x]] = g[next[x]]
        BY <4>2
      <4> QED
        BY <3>3, <3>5, <4>3
    <3> QED
      BY <3>4, <3>5
  <2>2. \A x \in D : x \in S
    <3> HIDE DEF S
    <3> QED
      BY <2>1, ByMeasure
  <2> QED
    BY <2>2
<1> DEFINE F(m) == CHOOSE f \in [D -> R] : SolvesTo(f, m)
           f == [x \in D |-> F(mu[x])[x]]
<1>6. \A m \in Nat : F(m) \in [D -> R] /\ SolvesTo(F(m), m)
  <2>1. ASSUME NEW m \in Nat
        PROVE  \E u \in [D -> R] : SolvesTo(u, m)
    BY <1>4
  <2> HIDE DEF SolvesTo
  <2> QED
    BY <2>1
<1> HIDE DEF F
<1>7. f \in [D -> R]
  BY <1>6
<1>8. ASSUME NEW x \in D
      PROVE  f[x] = Step(f, x)
  <2>1. mu[x] \in Nat /\ f[x] = F(mu[x])[x]
    OBVIOUS
  <2>2. f[x] = Step(F(mu[x]), x)
    <3>1. SolvesTo(F(mu[x]), mu[x])
      BY <1>6, <2>1
    <3> QED
      BY <2>1, <3>1
  <2>3. CASE x \in Stop
    BY <2>2, <2>3
  <2>4. CASE x \notin Stop
    <3>1. next[x] \in D /\ mu[next[x]] < mu[x] /\ mu[next[x]] \in Nat
      BY <2>4
    <3>2. F(mu[next[x]])[next[x]] = F(mu[x])[next[x]]
      <4>1. mu[next[x]] <= mu[x] /\ mu[next[x]] <= mu[next[x]]
        BY <2>1, <3>1
      <4> HIDE DEF SolvesTo, f
      <4> QED
        BY <1>5, <1>6, <2>1, <3>1, <4>1
    <3>3. f[next[x]] = F(mu[x])[next[x]]
      BY <3>1, <3>2
    <3> HIDE DEF f
    <3> QED
      BY <2>2, <2>4, <3>3
  <2> QED
    BY <2>3, <2>4
<1> HIDE DEF f
<1> QED
  BY <1>7, <1>8 DEF Solves

\* A recursion over the numbers up to m.
StaysIn(c, m, R) == \A k \in 1 .. m : \A r \in R : c[k][r] \in R

\* u runs from b through the steps c.
Follows(u, m, b, c) == u[0] = b /\ \A k \in 1 .. m : u[k] = c[k][u[k - 1]]

\* There is such a run, as the recursive functions of MovFile define it.
LEMMA UpToExists ==
  ASSUME NEW m \in Nat, NEW R, NEW b \in R, NEW c, StaysIn(c, m, R)
  PROVE  \E u \in [0 .. m -> R] : Follows(u, m, b, c)
<1> DEFINE D == 0 .. m
           mu == [k \in D |-> k]
           next == [k \in D |-> k - 1]
           base == [k \in D |-> b]
<1>1. mu \in [D -> Nat] /\ R # {}
  OBVIOUS
<1>2. \A k \in D \ {0} : next[k] \in D /\ mu[next[k]] < mu[k]
  OBVIOUS
<1>3. \A k \in D \cap {0} : base[k] \in R
  OBVIOUS
<1>4. \A k \in D \ {0} : \A r \in R : c[k][r] \in R
  <2>1. \A k \in D \ {0} : k \in 1 .. m
    OBVIOUS
  <2> QED
    BY <2>1 DEF StaysIn
<1>5. Recursion(D, mu, R, {0}, next, base, c)
  <2> HIDE DEF D, mu, next, base
  <2> QED
    BY <1>1, <1>2, <1>3, <1>4 DEF Recursion
<1>6. PICK u \in [D -> R] : Solves(u, D, {0}, next, base, c)
  <2> HIDE DEF D, mu, next, base
  <2> QED
    BY <1>5, RecursionExists, Zenon
<1>7. u[0] = b
  <2>1. 0 \in D /\ 0 \in {0} /\ base[0] = b
    OBVIOUS
  <2> HIDE DEF D, base
  <2> QED
    BY <1>6, <2>1 DEF Solves
<1>8. ASSUME NEW k \in 1 .. m
      PROVE  u[k] = c[k][u[k - 1]]
  <2>1. k \in D /\ k \notin {0} /\ next[k] = k - 1
    OBVIOUS
  <2>2. u[k] = IF k \in {0} THEN base[k] ELSE c[k][u[next[k]]]
    <3> HIDE DEF D, next, base
    <3> QED
      BY <1>6, <2>1 DEF Solves
  <2> QED
    BY <2>1, <2>2
<1> QED
  BY <1>7, <1>8 DEF Follows

\* A function on 1 .. n is a sequence.
LEMMA SeqFrom ==
  ASSUME NEW n \in Nat, NEW T, NEW f \in [1 .. n -> T]
  PROVE  f \in Seq(T) /\ Len(f) = n /\ DOMAIN f = 1 .. n
<1>1. f \in Seq(T)
  BY SeqDef
<1> QED
  BY <1>1

-----------------------------------------------------------------------------
(* Sums.                                                                   *)

\* The recursion of Total has a solution.
LEMMA SumExists ==
  ASSUME NEW s \in Seq(Nat)
  PROVE  \E g \in [0 .. Len(s) -> Nat] :
           g[0] = 0 /\ \A n \in 1 .. Len(s) : g[n] = g[n - 1] + s[n]
<1> DEFINE Sums(m, g) == g[0] = 0 /\ \A n \in 1 .. m : g[n] = g[n - 1] + s[n]
           Bad == { m \in 0 .. Len(s) : ~\E g \in [0 .. m -> Nat] : Sums(m, g) }
<1>1. CASE Bad = {}
  <2>1. Len(s) \in 0 .. Len(s)
    OBVIOUS
  <2> QED
    BY <1>1, <2>1
<1>2. CASE Bad # {}
  <2>1. Bad \in SUBSET Nat
    OBVIOUS
  <2>2. PICK m \in Bad : \A k \in Bad : m <= k
    <3> HIDE DEF Bad
    <3> QED
      BY <1>2, <2>1, MinOfNat
  <2>3. m # 0
    <3>1. [i \in 0 .. 0 |-> 0] \in [0 .. 0 -> Nat] /\ Sums(0, [i \in 0 .. 0 |-> 0])
      OBVIOUS
    <3> QED
      BY <2>2, <3>1
  <2>4. m \in 1 .. Len(s) /\ m - 1 \in 0 .. Len(s) /\ m - 1 \notin Bad
    <3>1. m \in 0 .. Len(s) /\ Len(s) \in Nat
      OBVIOUS
    <3> HIDE DEF Bad
    <3> QED
      BY <2>2, <2>3, <3>1
  <2>5. PICK g \in [0 .. m - 1 -> Nat] : Sums(m - 1, g)
    BY <2>4
  <2> DEFINE h == [i \in 0 .. m |-> IF i = m THEN g[m - 1] + s[m] ELSE g[i]]
  <2>6. h \in [0 .. m -> Nat]
    <3>1. s[m] \in Nat /\ g[m - 1] \in Nat
      BY <2>4
    <3>2. \A i \in 0 .. m : i # m => i \in 0 .. m - 1
      BY <2>4
    <3> QED
      BY <3>1, <3>2
  <2>7. Sums(m, h)
    <3>1. h[0] = 0
      BY <2>3, <2>4, <2>5
    <3>2. ASSUME NEW n \in 1 .. m
          PROVE  h[n] = h[n - 1] + s[n]
      <4>1. h[n - 1] = g[n - 1]
        BY <2>4, <3>2
      <4>2. CASE n = m
        BY <2>4, <4>1, <4>2
      <4>3. CASE n # m
        <5>1. n \in 1 .. m - 1
          BY <2>4, <4>3
        <5>2. h[n] = g[n]
          BY <4>3
        <5> QED
          BY <2>5, <4>1, <5>1, <5>2
      <4> QED
        BY <4>2, <4>3
    <3> HIDE DEF h
    <3> QED
      BY <3>1, <3>2
  <2>8. m \notin Bad
    <3> HIDE DEF h, Sums
    <3> QED
      BY <2>6, <2>7
  <2> QED
    BY <2>2, <2>8
<1> QED
  BY <1>1, <1>2

\* Total is what adding one number after the other gives.
LEMMA TotalIs ==
  ASSUME NEW s \in Seq(Nat), NEW g \in [0 .. Len(s) -> Nat],
         g[0] = 0, \A n \in 1 .. Len(s) : g[n] = g[n - 1] + s[n]
  PROVE  Total(s) = g[Len(s)]
<1> DEFINE m == Len(s)
           Step(u) == [n \in 0 .. m |-> IF n = 0 THEN 0 ELSE u[n - 1] + s[n]]
           upTo == CHOOSE u : u = Step(u)
<1>1. m \in Nat
  OBVIOUS
<1>2. Total(s) = upTo[m]
  BY DEF Total
<1>3. g = Step(g)
  <2>1. \A n \in 0 .. m : g[n] = IF n = 0 THEN 0 ELSE g[n - 1] + s[n]
    <3>1. \A n \in 0 .. m : n # 0 => n \in 1 .. m
      OBVIOUS
    <3> QED
      BY <3>1
  <2>2. g = [n \in 0 .. m |-> g[n]]
    OBVIOUS
  <2> QED
    BY <2>1, <2>2
<1>4. upTo = Step(upTo)
  BY <1>3, Zenon DEF upTo
<1>5. upTo = g
  <2> HIDE DEF upTo
  <2>1. DOMAIN upTo = 0 .. m /\ upTo = [n \in 0 .. m |-> upTo[n]]
    BY <1>1, <1>4
  <2>2. upTo[0] = 0 /\ \A n \in 1 .. m : upTo[n] = upTo[n - 1] + s[n]
    <3>1. \A n \in 0 .. m : upTo[n] = IF n = 0 THEN 0 ELSE upTo[n - 1] + s[n]
      BY <1>1, <1>4, Zenon
    <3>2. 0 \in 0 .. m /\ \A n \in 1 .. m : n \in 0 .. m /\ n # 0
      BY <1>1
    <3> QED
      BY <3>1, <3>2
  <2>3. DOMAIN g = 0 .. m /\ g = [n \in 0 .. m |-> g[n]]
    OBVIOUS
  <2>4. upTo[0] = g[0] /\ \A n \in 1 .. m : upTo[n - 1] = g[n - 1] => upTo[n] = g[n]
    BY <2>2
  <2> QED
    BY <1>1, <2>1, <2>3, <2>4, SameSteps
<1> QED
  BY <1>2, <1>5

\* Nothing adds up to 0.
LEMMA TotalOfNone == Total(<< >>) = 0
<1> DEFINE g == [n \in 0 .. 0 |-> 0]
<1>1. << >> \in Seq(Nat) /\ Len(<< >>) = 0
  OBVIOUS
<1>2. g \in [0 .. 0 -> Nat] /\ g[0] = 0 /\ \A n \in 1 .. 0 : g[n] = g[n - 1] + (<< >>)[n]
  OBVIOUS
<1> HIDE DEF g
<1> QED
  BY <1>1, <1>2, TotalIs

\* A longer sequence has the sum of the shorter one and its last number.
LEMMA TotalOfMore ==
  ASSUME NEW s \in Seq(Nat), NEW x \in Nat
  PROVE  Total(s) \in Nat /\ Total(Append(s, x)) = Total(s) + x
<1>1. PICK g \in [0 .. Len(s) -> Nat] : g[0] = 0 /\ \A n \in 1 .. Len(s) : g[n] = g[n - 1] + s[n]
  BY SumExists
<1> DEFINE m == Len(s)
           t == Append(s, x)
           h == [n \in 0 .. m + 1 |-> IF n = m + 1 THEN g[m] + x ELSE g[n]]
<1>2. m \in Nat /\ Total(s) = g[m] /\ g[m] \in Nat
  BY <1>1, TotalIs
<1>3. t \in Seq(Nat) /\ Len(t) = m + 1 /\ t[m + 1] = x /\ \A n \in 1 .. m : t[n] = s[n]
  OBVIOUS
<1>4. h \in [0 .. Len(t) -> Nat] /\ h[Len(t)] = g[m] + x
  <2>1. \A n \in 0 .. m + 1 : n # m + 1 => n \in 0 .. m
    BY <1>2
  <2> QED
    BY <1>2, <1>3, <2>1
<1>5. h[0] = 0
  BY <1>1, <1>2
<1>6. ASSUME NEW n \in 1 .. Len(t)
      PROVE  h[n] = h[n - 1] + t[n]
  <2>1. h[n - 1] = g[n - 1]
    BY <1>2, <1>3
  <2>2. CASE n = m + 1
    BY <1>2, <1>3, <2>1, <2>2
  <2>3. CASE n # m + 1
    <3>1. n \in 1 .. m
      BY <1>2, <1>3, <2>3
    <3>2. h[n] = g[n]
      BY <2>3, <3>1
    <3> QED
      BY <1>1, <1>3, <2>1, <3>1, <3>2
  <2> QED
    BY <2>2, <2>3
<1>7. Total(t) = h[Len(t)]
  <2> HIDE DEF h, t
  <2> QED
    BY <1>3, <1>4, <1>5, <1>6, TotalIs
<1> QED
  BY <1>2, <1>4, <1>7

\* What is known of a sum: the sums up to every place.
LEMMA TotalFacts ==
  ASSUME NEW s \in Seq(Nat)
  PROVE  \E g \in [0 .. Len(s) -> Nat] :
           /\ g[0] = 0 /\ \A n \in 1 .. Len(s) : g[n] = g[n - 1] + s[n]
           /\ Total(s) = g[Len(s)]
<1>1. PICK g \in [0 .. Len(s) -> Nat] : g[0] = 0 /\ \A n \in 1 .. Len(s) : g[n] = g[n - 1] + s[n]
  BY SumExists
<1>2. Total(s) = g[Len(s)]
  BY <1>1, TotalIs
<1> QED
  BY <1>1, <1>2

\* A sum of natural numbers is one.
LEMMA TotalIsNat ==
  ASSUME NEW s \in Seq(Nat)
  PROVE  Total(s) \in Nat
<1>1. Len(s) \in Nat
  OBVIOUS
<1> QED
  BY <1>1, TotalFacts

\* A sum of larger numbers is larger.
LEMMA TotalGrows ==
  ASSUME NEW s \in Seq(Nat), NEW t \in Seq(Nat), Len(s) = Len(t),
         \A i \in 1 .. Len(s) : s[i] <= t[i]
  PROVE  Total(s) <= Total(t)
<1> DEFINE m == Len(s)
<1>1. PICK g \in [0 .. m -> Nat] :
        /\ g[0] = 0 /\ \A n \in 1 .. m : g[n] = g[n - 1] + s[n]
        /\ Total(s) = g[m]
  BY TotalFacts
<1>2. PICK h \in [0 .. m -> Nat] :
        /\ h[0] = 0 /\ \A n \in 1 .. m : h[n] = h[n - 1] + t[n]
        /\ Total(t) = h[m]
  BY TotalFacts
<1>3. /\ m \in Nat /\ \A i \in 1 .. m : s[i] \in Nat /\ t[i] \in Nat /\ s[i] <= t[i]
      /\ \A i \in 0 .. m : g[i] \in Nat /\ h[i] \in Nat
  <2>1. m \in Nat /\ \A i \in 1 .. m : s[i] \in Nat
    OBVIOUS
  <2>2. \A i \in 1 .. m : t[i] \in Nat
    OBVIOUS
  <2>3. \A i \in 0 .. m : g[i] \in Nat /\ h[i] \in Nat
    OBVIOUS
  <2> HIDE DEF m
  <2> QED
    BY <2>1, <2>2, <2>3 DEF m
<1> DEFINE T == {i \in 0 .. m : g[i] <= h[i]}
<1>4. \A i \in 0 .. m : i \in T
  <2> HIDE DEF m
  <2>1. 0 \in T
    BY <1>1, <1>2, <1>3
  <2>2. ASSUME NEW i \in 1 .. m, i - 1 \in T
        PROVE  i \in T
    <3>1. g[i] = g[i - 1] + s[i] /\ h[i] = h[i - 1] + t[i] /\ g[i - 1] <= h[i - 1]
      BY <1>1, <1>2, <2>2
    <3>2. i \in 0 .. m /\ i - 1 \in 0 .. m
      BY <1>3
    <3>3. g[i] \in Nat /\ h[i] \in Nat /\ g[i - 1] \in Nat /\ h[i - 1] \in Nat
      BY <1>3, <3>2
    <3>4. s[i] \in Nat /\ t[i] \in Nat /\ s[i] <= t[i]
      BY <1>3
    <3>5. g[i] <= h[i]
      <4> DEFINE p == g[i]
                 q == h[i]
                 u == g[i - 1]
                 v == h[i - 1]
                 x == s[i]
                 y == t[i]
      <4>1. /\ p = u + x /\ q = v + y /\ u <= v /\ x <= y
            /\ u \in Nat /\ v \in Nat /\ x \in Nat /\ y \in Nat
        BY <3>1, <3>3, <3>4
      <4> HIDE DEF p, q, u, v, x, y
      <4>2. p <= q
        BY <4>1
      <4> QED
        BY <4>2 DEF p, q
    <3> QED
      BY <3>2, <3>5
  <2> HIDE DEF T
  <2> QED
    BY <1>3, <2>1, <2>2, UpToNumber
<1>5. m \in T
  <2> HIDE DEF T
  <2> QED
    BY <1>3, <1>4
<1> QED
  BY <1>1, <1>2, <1>5

\* The sum of sums.
LEMMA TotalOfSum ==
  ASSUME NEW x \in Seq(Nat), NEW y \in Seq(Nat), NEW z \in Seq(Nat),
         Len(y) = Len(x), Len(z) = Len(x), \A i \in 1 .. Len(x) : z[i] = x[i] + y[i]
  PROVE  Total(z) = Total(x) + Total(y)
<1> DEFINE m == Len(x)
<1>1. PICK f \in [0 .. m -> Nat] :
        /\ f[0] = 0 /\ \A n \in 1 .. m : f[n] = f[n - 1] + x[n]
        /\ Total(x) = f[m]
  BY TotalFacts
<1>2. PICK g \in [0 .. m -> Nat] :
        /\ g[0] = 0 /\ \A n \in 1 .. m : g[n] = g[n - 1] + y[n]
        /\ Total(y) = g[m]
  BY TotalFacts
<1> DEFINE h == [i \in 0 .. m |-> f[i] + g[i]]
<1>3. h \in [0 .. Len(z) -> Nat]
  OBVIOUS
<1>4. h[0] = 0
  BY <1>1, <1>2
<1>5. ASSUME NEW n \in 1 .. m
      PROVE  h[n] = h[n - 1] + z[n]
  <2>1. f[n] = f[n - 1] + x[n] /\ g[n] = g[n - 1] + y[n] /\ z[n] = x[n] + y[n]
    BY <1>1, <1>2
  <2>2. f[n - 1] \in Nat /\ g[n - 1] \in Nat
    <3>1. n - 1 \in 0 .. m
      OBVIOUS
    <3> QED
      BY <3>1
  <2>3. x[n] \in Nat /\ y[n] \in Nat
    <3>1. n \in 1 .. Len(x) /\ n \in 1 .. Len(y)
      OBVIOUS
    <3> QED
      BY <3>1
  <2>4. h[n] = f[n] + g[n] /\ h[n - 1] = f[n - 1] + g[n - 1]
    <3>1. n - 1 \in 0 .. m /\ n \in 0 .. m
      OBVIOUS
    <3> QED
      BY <3>1
  <2> DEFINE a == f[n - 1]
             c == g[n - 1]
             xn == x[n]
             yn == y[n]
  <2> HIDE DEF h
  <2>5. h[n] = (a + xn) + (c + yn) /\ h[n - 1] = a + c /\ z[n] = xn + yn
    BY <2>1, <2>4
  <2>6. a \in Nat /\ c \in Nat /\ xn \in Nat /\ yn \in Nat
    BY <2>2, <2>3
  <2> HIDE DEF a, c, xn, yn
  <2> QED
    BY <2>5, <2>6
<1>6. Total(z) = h[Len(z)]
  <2> HIDE DEF h
  <2> QED
    BY <1>3, <1>4, <1>5, TotalIs
<1>7. h[m] = f[m] + g[m]
  <2>1. m \in 0 .. m
    OBVIOUS
  <2> QED
    BY <2>1
<1> HIDE DEF h
<1> QED
  BY <1>1, <1>2, <1>6, <1>7

-----------------------------------------------------------------------------
(* The search of a seek.                                                   *)

\* The binary search of mov_stss_seek and mov_sample_seek: where it ends.
SearchOf(times, clock) ==
  LET n == Len(times)
      search[r \in (0 .. n) \X (0 .. n)] ==
        LET mid == (r[1] + r[2]) \div 2
        IN IF times[mid + 1] > clock /\ r[1] < mid THEN search[<<r[1], mid>>]
           ELSE IF times[mid + 1] < clock /\ mid + 1 < r[2] THEN search[<<mid + 1, r[2]>>]
           ELSE mid
  IN search

\* The middle of a range lies in it.
LEMMA HalfWay ==
  ASSUME NEW n \in Nat, NEW lo \in 0 .. n, NEW hi \in 0 .. n
  PROVE  /\ (lo + hi) \div 2 \in 0 .. n
         /\ lo < (lo + hi) \div 2 => (lo + hi) \div 2 < hi
         /\ lo < hi => lo <= (lo + hi) \div 2 /\ (lo + hi) \div 2 < hi
         /\ (lo + hi) \div 2 + 1 < hi => lo <= (lo + hi) \div 2
  OBVIOUS

\* The recursion of the search ends, at each range in what the code goes on with.
LEMMA SearchSteps ==
  ASSUME NEW times \in Seq(Int), NEW clock \in Int
  PROVE  LET n == Len(times)
             f == SearchOf(times, clock)
         IN \A lo, hi \in 0 .. n :
              LET mid == (lo + hi) \div 2
              IN f[<<lo, hi>>] =
                   IF times[mid + 1] > clock /\ lo < mid THEN f[<<lo, mid>>]
                   ELSE IF times[mid + 1] < clock /\ mid + 1 < hi THEN f[<<mid + 1, hi>>]
                   ELSE mid
<1> DEFINE n == Len(times)
           N == 0 .. n
           D == N \X N
           M(x) == (x[1] + x[2]) \div 2
           Left(x) == times[M(x) + 1] > clock /\ x[1] < M(x)
           Right(x) == times[M(x) + 1] < clock /\ M(x) + 1 < x[2]
           Step(u) == [x \in D |-> IF Left(x) THEN u[<<x[1], M(x)>>]
                                   ELSE IF Right(x) THEN u[<<M(x) + 1, x[2]>>]
                                   ELSE M(x)]
           f == CHOOSE u : u = Step(u)
<1>1. f = SearchOf(times, clock)
  BY DEF SearchOf
<1>2. n \in Nat
  OBVIOUS
<1> HIDE DEF n
<1> DEFINE mu == [x \in D |-> IF x[1] < x[2] THEN x[2] - x[1] ELSE 0]
           next == [x \in D |-> IF Left(x) THEN <<x[1], M(x)>> ELSE <<M(x) + 1, x[2]>>]
           Stop == {x \in D : ~Left(x) /\ ~Right(x)}
           b == [x \in D |-> M(x)]
           c == [x \in D |-> [r \in N |-> r]]
<1>3. mu \in [D -> Nat] /\ N # {}
  <2>1. \A x \in D : x[1] \in Int /\ x[2] \in Int
    BY <1>2
  <2>2. \A x \in D : (IF x[1] < x[2] THEN x[2] - x[1] ELSE 0) \in Nat
    BY <2>1
  <2>3. 0 \in N
    BY <1>2
  <2> HIDE DEF D, N
  <2> QED
    BY <2>2, <2>3
<1>4. ASSUME NEW x \in D
      PROVE  /\ x[1] \in N /\ x[2] \in N /\ M(x) \in N
             /\ x[1] < M(x) => M(x) < x[2]
             /\ M(x) + 1 < x[2] => x[1] <= M(x)
  <2>1. x[1] \in N /\ x[2] \in N
    OBVIOUS
  <2> QED
    BY <1>2, <2>1, HalfWay
<1>5. ASSUME NEW x \in D \ Stop
      PROVE  next[x] \in D /\ mu[next[x]] < mu[x]
  <2>1. CASE Left(x)
    <3>1. next[x] = <<x[1], M(x)>> /\ x[1] < M(x)
      BY <2>1
    <3>2. /\ x[1] \in N /\ x[2] \in N /\ M(x) \in N /\ x \in D
          /\ M(x) < x[2]
      BY <1>4, <3>1
    <3> HIDE DEF M, Left, next
    <3>3. <<x[1], M(x)>> \in D /\ mu[<<x[1], M(x)>>] = M(x) - x[1]
      BY <3>1, <3>2
    <3>4. mu[x] = x[2] - x[1]
      BY <1>2, <3>1, <3>2
    <3> HIDE DEF mu, D
    <3> QED
      BY <1>2, <3>1, <3>2, <3>3, <3>4
  <2>2. CASE ~Left(x)
    <3>1. next[x] = <<M(x) + 1, x[2]>> /\ M(x) + 1 < x[2]
      BY <2>2
    <3>2. /\ x[1] \in N /\ x[2] \in N /\ M(x) \in N /\ x \in D
          /\ x[1] <= M(x)
      BY <1>4, <3>1
    <3> HIDE DEF M, Left, next
    <3>3. <<M(x) + 1, x[2]>> \in D /\ mu[<<M(x) + 1, x[2]>>] = x[2] - (M(x) + 1)
      BY <1>2, <3>1, <3>2
    <3>4. mu[x] = x[2] - x[1]
      BY <1>2, <3>1, <3>2
    <3> HIDE DEF mu, D
    <3> QED
      BY <1>2, <3>1, <3>2, <3>3, <3>4
  <2> QED
    BY <2>1, <2>2
<1>6. \A x \in D \cap Stop : b[x] \in N
  BY <1>4
<1>7. \A x \in D \ Stop : \A r \in N : c[x][r] \in N
  OBVIOUS
<1>8. PICK g \in [D -> N] : Solves(g, D, Stop, next, b, c)
  <2>1. \A x \in D \ Stop : next[x] \in D /\ mu[next[x]] < mu[x]
    BY <1>5
  <2> HIDE DEF D, mu, N, Stop, b, c, next
  <2>2. Recursion(D, mu, N, Stop, next, b, c)
    BY <1>3, <2>1, <1>6, <1>7 DEF Recursion
  <2> QED
    BY <2>2, RecursionExists
<1>9. g = Step(g)
  <2>1. ASSUME NEW x \in D
        PROVE  g[x] = IF Left(x) THEN g[<<x[1], M(x)>>]
                      ELSE IF Right(x) THEN g[<<M(x) + 1, x[2]>>]
                      ELSE M(x)
    <3>1. x \notin Stop => next[x] \in D
      BY <1>5
    <3>2. x \notin Stop => g[next[x]] \in N
      <4> HIDE DEF Stop, D, next, N
      <4> QED
        BY <3>1
    <3>3. g[x] = IF x \in Stop THEN M(x) ELSE g[next[x]]
      <4>1. b[x] = M(x) /\ (x \notin Stop => c[x][g[next[x]]] = g[next[x]])
        <5> HIDE DEF Stop, next, D, N, M, Left, Right
        <5> QED
          BY <3>2
      <4> HIDE DEF Stop, next, D, N, M, Left, Right, b, c
      <4> QED
        BY <1>8, <4>1 DEF Solves
    <3>4. x \in Stop <=> ~Left(x) /\ ~Right(x)
      OBVIOUS
    <3>5. next[x] = IF Left(x) THEN <<x[1], M(x)>> ELSE <<M(x) + 1, x[2]>>
      OBVIOUS
    <3> HIDE DEF Left, Right, Stop, M, D, next
    <3> QED
      BY <3>3, <3>4, <3>5
  <2> HIDE DEF Left, Right, M, D
  <2>2. g = [x \in D |-> g[x]]
    OBVIOUS
  <2> QED
    BY <2>1, <2>2
<1>10. f = Step(f)
  BY <1>9, Zenon DEF f
<1> HIDE DEF f
<1>11. ASSUME NEW lo \in N, NEW hi \in N
       PROVE  LET x == <<lo, hi>>
              IN f[x] = IF Left(x) THEN f[<<lo, M(x)>>]
                        ELSE IF Right(x) THEN f[<<M(x) + 1, hi>>]
                        ELSE M(x)
  <2> DEFINE x == <<lo, hi>>
  <2>1. x \in D /\ x[1] = lo /\ x[2] = hi
    OBVIOUS
  <2>2. f[x] = IF Left(x) THEN f[<<x[1], M(x)>>]
               ELSE IF Right(x) THEN f[<<M(x) + 1, x[2]>>]
               ELSE M(x)
    <3> HIDE DEF Left, Right, M, D, x
    <3> QED
      BY <1>10, <2>1
  <2> HIDE DEF Left, Right, M, D, x
  <2> QED
    BY <2>1, <2>2 DEF x
<1> QED
  BY <1>1, <1>11 DEF n

\* The search ends where the time is, or between the times before and after it.
Between(times, clock, m) ==
  /\ m \in 0 .. Len(times) - 1
  /\ \/ times[m + 1] = clock
     \/ times[m + 1] > clock /\ \A i \in 1 .. m : times[i] < clock
     \/ times[m + 1] < clock /\ \A i \in m + 2 .. Len(times) : times[i] > clock

\* The times do not go back.
Sorted(times) == \A i, j \in DOMAIN times : i < j => times[i] <= times[j]

\* The search ends next to the time it is for.
LEMMA SearchEnds ==
  ASSUME NEW times \in Seq(Int), times # <<>>, Sorted(times), NEW clock \in Int
  PROVE  Between(times, clock, SearchOf(times, clock)[<<0, Len(times)>>])
<1> DEFINE n == Len(times)
           f == SearchOf(times, clock)
           D == (0 .. n) \X (0 .. n)
           Around(lo, hi) ==
             /\ lo < hi /\ \A i \in 1 .. lo : times[i] < clock
             /\ \A i \in hi + 1 .. n : times[i] > clock
           mu == [x \in D |-> IF x[1] < x[2] THEN x[2] - x[1] ELSE 0]
           S == {x \in D : Around(x[1], x[2]) => Between(times, clock, f[x])}
<1>1. n \in Nat /\ n > 0 /\ \A i \in 1 .. n : times[i] \in Int
  <2>1. Len(times) \in Nat /\ (Len(times) = 0 => times = <<>>)
    BY EmptySeq
  <2> QED
    BY <2>1
<1>2. \A i, j \in 1 .. n : i < j => times[i] <= times[j]
  BY DEF Sorted
<1> HIDE DEF f
<1>3. mu \in [D -> Nat]
  <2> HIDE DEF n
  <2>1. \A x \in D : x[1] \in Int /\ x[2] \in Int
    BY <1>1
  <2>2. \A x \in D : (IF x[1] < x[2] THEN x[2] - x[1] ELSE 0) \in Nat
    BY <2>1
  <2> HIDE DEF D
  <2> QED
    BY <2>2
<1>4. ASSUME NEW x \in D, \A y \in D : mu[y] < mu[x] => y \in S
      PROVE  x \in S
  <2> DEFINE lo == x[1]
             hi == x[2]
             mid == (lo + hi) \div 2
  <2>1. lo \in 0 .. n /\ hi \in 0 .. n /\ x = <<lo, hi>>
    OBVIOUS
  <2> SUFFICES ASSUME Around(lo, hi)
               PROVE  Between(times, clock, f[x])
    OBVIOUS
  <2> HIDE DEF n, lo, hi
  <2>2. /\ mid \in 0 .. n /\ lo <= mid /\ mid < hi /\ mid + 1 \in 1 .. n /\ times[mid + 1] \in Int
        /\ mid \in Nat /\ lo < hi
    <3>1. /\ mid \in 0 .. n
          /\ lo < hi => lo <= mid /\ mid < hi
      BY <1>1, <2>1, HalfWay
    <3> HIDE DEF mid
    <3>2. mid + 1 \in 1 .. n
      BY <1>1, <2>1, <3>1
    <3> QED
      BY <1>1, <3>1, <3>2
  <2>3. f[x] = IF times[mid + 1] > clock /\ lo < mid THEN f[<<lo, mid>>]
               ELSE IF times[mid + 1] < clock /\ mid + 1 < hi THEN f[<<mid + 1, hi>>]
               ELSE mid
    <3>1. f[<<lo, hi>>] = IF times[mid + 1] > clock /\ lo < mid THEN f[<<lo, mid>>]
                          ELSE IF times[mid + 1] < clock /\ mid + 1 < hi THEN f[<<mid + 1, hi>>]
                          ELSE mid
      <4>1. lo \in 0 .. Len(times) /\ hi \in 0 .. Len(times)
        BY <2>1 DEF n
      <4> QED
        BY <4>1, SearchSteps, Zenon DEF f
    <3> HIDE DEF mid
    <3> QED
      BY <2>1, <3>1
  <2>4. mu[x] = hi - lo
    BY <2>1, <2>2 DEF lo, hi
  <2> HIDE DEF mid, S
  <2>5. CASE times[mid + 1] > clock /\ lo < mid
    <3> DEFINE y == <<lo, mid>>
    <3>1. y \in D /\ mu[y] = mid - lo /\ y[1] = lo /\ y[2] = mid
      BY <1>1, <2>1, <2>2, <2>5
    <3>2. \A i \in mid + 1 .. n : times[i] > clock
      <4>1. ASSUME NEW i \in mid + 1 .. n
            PROVE  times[i] > clock
        <5>1. i \in 1 .. n /\ (mid + 1 < i \/ mid + 1 = i)
          BY <1>1, <2>2
        <5>2. times[mid + 1] <= times[i]
          BY <1>1, <1>2, <2>2, <5>1
        <5> QED
          BY <1>1, <2>2, <2>5, <5>1, <5>2
      <4> QED
        BY <4>1
    <3>3. Around(lo, mid)
      BY <2>5, <3>2
    <3>4. y \in S
      <4>1. mu[y] < mu[x]
        BY <1>1, <2>1, <2>2, <2>4, <3>1
      <4> HIDE DEF mu, y
      <4> QED
        BY <1>4, <3>1, <4>1
    <3> HIDE DEF Around, y
    <3>5. Between(times, clock, f[y])
      BY <3>1, <3>3, <3>4 DEF S
    <3> QED
      BY <2>3, <2>5, <3>5 DEF y
  <2>6. CASE times[mid + 1] < clock /\ mid + 1 < hi
    <3> DEFINE y == <<mid + 1, hi>>
    <3>1. y \in D /\ mu[y] = hi - (mid + 1) /\ y[1] = mid + 1 /\ y[2] = hi
      BY <1>1, <2>1, <2>2, <2>6
    <3>2. \A i \in 1 .. mid + 1 : times[i] < clock
      <4>1. ASSUME NEW i \in 1 .. mid + 1
            PROVE  times[i] < clock
        <5>1. i \in 1 .. n /\ (i < mid + 1 \/ mid + 1 = i)
          BY <1>1, <2>2
        <5>2. times[i] <= times[mid + 1]
          BY <1>1, <1>2, <2>2, <5>1
        <5> QED
          BY <1>1, <2>2, <2>6, <5>1, <5>2
      <4> QED
        BY <4>1
    <3>3. Around(mid + 1, hi)
      BY <2>6, <3>2
    <3>4. y \in S
      <4>1. mu[y] < mu[x]
        BY <1>1, <2>1, <2>2, <2>4, <3>1
      <4> HIDE DEF mu, y
      <4> QED
        BY <1>4, <3>1, <4>1
    <3> HIDE DEF Around, y
    <3>5. Between(times, clock, f[y])
      BY <3>1, <3>3, <3>4 DEF S
    <3>6. ~(times[mid + 1] > clock)
      BY <2>2, <2>6
    <3> QED
      BY <2>3, <2>6, <3>5, <3>6 DEF y
  <2>7. CASE ~(times[mid + 1] > clock /\ lo < mid) /\ ~(times[mid + 1] < clock /\ mid + 1 < hi)
    <3>1. f[x] = mid
      BY <2>3, <2>7
    <3>2. mid \in 0 .. n - 1
      BY <1>1, <2>2
    <3>3. CASE times[mid + 1] = clock
      BY <3>1, <3>2, <3>3 DEF Between, n
    <3>4. CASE times[mid + 1] > clock
      <4>1. mid = lo
        BY <1>1, <2>1, <2>2, <2>7, <3>4
      <4> QED
        BY <3>1, <3>2, <3>4, <4>1 DEF Between, n
    <3>5. CASE times[mid + 1] < clock
      <4>1. mid + 2 = hi + 1
        BY <1>1, <2>1, <2>2, <2>7, <3>5
      <4> QED
        BY <3>1, <3>2, <3>5, <4>1 DEF Between, n
    <3> QED
      BY <2>2, <3>3, <3>4, <3>5
  <2> QED
    BY <2>5, <2>6, <2>7
<1>5. <<0, n>> \in D /\ Around(0, n)
  BY <1>1
<1>6. \A x \in D : x \in S
  <2> HIDE DEF D, mu, S
  <2> QED
    BY <1>3, <1>4, ByMeasure
<1> QED
  <2> DEFINE x == <<0, n>>
  <2>1. x \in S /\ x[1] = 0 /\ x[2] = n
    BY <1>5, <1>6
  <2> HIDE DEF Around, x
  <2>2. Between(times, clock, f[x])
    BY <1>5, <2>1
  <2> QED
    BY <2>2 DEF x, n, f

\* The nearest of a sorted table is found, whatever time is asked for.
THEOREM NearestFinds ==
  ASSUME NEW times \in Seq(Int), times # <<>>, Sorted(times), NEW clock \in Int
  PROVE  /\ Nearest(times, clock) \in DOMAIN times
         /\ \A i \in DOMAIN times :
              Distance(times[Nearest(times, clock)], clock) <= Distance(times[i], clock)
<1> DEFINE n == Len(times)
           mid == SearchOf(times, clock)[<<0, n>>]
           prev == IF mid > 0 THEN mid - 1 ELSE mid
           next == IF mid + 1 < n THEN mid + 1 ELSE mid
           gap(i) == Distance(times[i + 1], clock)
           near == IF gap(prev) < gap(mid) THEN prev ELSE mid
           found == (IF gap(next) < gap(near) THEN next ELSE near) + 1
<1>1. Nearest(times, clock) = found
  BY DEF Nearest, SearchOf
<1>2. Between(times, clock, mid)
  BY SearchEnds
<1>3. n \in Nat /\ DOMAIN times = 1 .. n /\ \A i \in 1 .. n : times[i] \in Int
  OBVIOUS
<1>4. \A i, j \in 1 .. n : i < j => times[i] <= times[j]
  BY <1>3 DEF Sorted
<1> HIDE DEF mid
<1>5. mid \in 0 .. n - 1 /\ mid \in Int
  BY <1>2, <1>3 DEF Between
<1>6. CASE times[mid + 1] = clock
  <2>1. gap(mid) = 0
    BY <1>3, <1>5, <1>6 DEF Distance
  <2>2. \A i \in 1 .. n : Distance(times[i], clock) >= 0 /\ Distance(times[i], clock) \in Int
    BY <1>3 DEF Distance
  <2>3. /\ prev \in 0 .. n - 1 /\ next \in 0 .. n - 1
        /\ prev + 1 \in 1 .. n /\ next + 1 \in 1 .. n
    BY <1>3, <1>5
  <2> QED
    BY <1>1, <1>3, <1>5, <2>1, <2>2, <2>3
<1>7. ASSUME NEW i \in 1 .. n, NEW j \in 1 .. n, i <= j, times[j] < clock
      PROVE  Distance(times[j], clock) <= Distance(times[i], clock)
  <2>1. times[i] <= times[j] /\ times[i] \in Int /\ times[j] \in Int
    BY <1>3, <1>4, <1>7
  <2> QED
    BY <1>7, <2>1 DEF Distance
<1>8. ASSUME NEW i \in 1 .. n, NEW j \in 1 .. n, j <= i, times[j] > clock
      PROVE  Distance(times[j], clock) <= Distance(times[i], clock)
  <2>1. times[j] <= times[i] /\ times[i] \in Int /\ times[j] \in Int
    BY <1>3, <1>4, <1>8
  <2> QED
    BY <1>8, <2>1 DEF Distance
<1>9. /\ prev \in 0 .. n - 1 /\ next \in 0 .. n - 1 /\ prev \in Int /\ next \in Int
      /\ prev + 1 \in 1 .. n /\ next + 1 \in 1 .. n
      /\ gap(prev) \in Int /\ gap(next) \in Int /\ gap(mid) \in Int
      /\ \A i \in 1 .. n : Distance(times[i], clock) \in Int
  <2>1. /\ prev \in 0 .. n - 1 /\ next \in 0 .. n - 1 /\ prev \in Int /\ next \in Int
        /\ prev + 1 \in 1 .. n /\ next + 1 \in 1 .. n /\ mid + 1 \in 1 .. n
    BY <1>3, <1>5
  <2>2. \A i \in 1 .. n : Distance(times[i], clock) \in Int
    BY <1>3 DEF Distance
  <2> QED
    BY <2>1, <2>2
<1>10. /\ found \in {prev + 1, next + 1, mid + 1}
       /\ gap(found - 1) <= gap(prev) /\ gap(found - 1) <= gap(mid) /\ gap(found - 1) <= gap(next)
  <2> HIDE DEF prev, next, gap
  <2>1. near \in {prev, mid} /\ gap(near) <= gap(prev) /\ gap(near) <= gap(mid) /\ gap(near) \in Int
    BY <1>9
  <2> HIDE DEF near
  <2> DEFINE it == IF gap(next) < gap(near) THEN next ELSE near
  <2>2. it \in {next, near} /\ gap(it) <= gap(next) /\ gap(it) <= gap(near) /\ gap(it) \in Int
    BY <1>9, <2>1
  <2>3. it \in Int /\ found = it + 1
    BY <1>5, <1>9, <2>1
  <2> HIDE DEF it, found
  <2>4. found - 1 = it
    BY <2>3
  <2>5. gap(found - 1) = gap(it)
    BY <2>4, Zenon
  <2>6. gap(it) <= gap(prev) /\ gap(it) <= gap(mid) /\ gap(it) <= gap(next)
    BY <1>9, <2>1, <2>2
  <2>7. found \in {prev + 1, next + 1, mid + 1}
    BY <2>1, <2>2, <2>3
  <2> QED
    BY <2>5, <2>6, <2>7
<1>11. /\ found \in 1 .. n /\ gap(found - 1) = Distance(times[found], clock)
  BY <1>3, <1>5, <1>9, <1>10
<1> HIDE DEF found
<1>12. CASE times[mid + 1] > clock /\ \A i \in 1 .. mid : times[i] < clock
  <2>1. ASSUME NEW i \in 1 .. n
        PROVE  Distance(times[found], clock) <= Distance(times[i], clock)
    <3>1. CASE i <= mid
      <4>1. mid > 0 /\ prev = mid - 1 /\ prev + 1 = mid /\ mid \in 1 .. n /\ mid \in 1 .. mid
        BY <1>5, <3>1
      <4>2. Distance(times[mid], clock) <= Distance(times[i], clock)
        BY <1>7, <1>12, <3>1, <4>1
      <4> QED
        BY <1>9, <1>10, <1>11, <4>1, <4>2
    <3>2. CASE i > mid
      <4>1. mid + 1 <= i /\ mid + 1 \in 1 .. n
        BY <1>3, <1>5, <3>2
      <4>2. gap(mid) <= Distance(times[i], clock)
        BY <1>8, <1>12, <4>1
      <4> QED
        BY <1>9, <1>10, <1>11, <4>2
    <3> QED
      BY <1>5, <3>1, <3>2
  <2> QED
    BY <1>1, <1>3, <1>11, <2>1
<1>13. CASE times[mid + 1] < clock /\ \A i \in mid + 2 .. n : times[i] > clock
  <2>1. ASSUME NEW i \in 1 .. n
        PROVE  Distance(times[found], clock) <= Distance(times[i], clock)
    <3>1. CASE i <= mid + 1
      <4>1. mid + 1 \in 1 .. n
        BY <1>3, <1>5
      <4>2. gap(mid) <= Distance(times[i], clock)
        BY <1>7, <1>13, <3>1, <4>1
      <4> QED
        BY <1>9, <1>10, <1>11, <4>2
    <3>2. CASE i > mid + 1
      <4>1. /\ mid + 1 < n /\ next = mid + 1 /\ next + 1 = mid + 2 /\ mid + 2 \in 1 .. n
            /\ mid + 2 \in mid + 2 .. n /\ mid + 2 <= i
        BY <1>3, <1>5, <3>2
      <4>2. Distance(times[mid + 2], clock) <= Distance(times[i], clock)
        BY <1>8, <1>13, <4>1
      <4> QED
        BY <1>9, <1>10, <1>11, <4>1, <4>2
    <3> QED
      BY <1>5, <3>1, <3>2
  <2> QED
    BY <1>1, <1>3, <1>11, <2>1
<1> QED
  BY <1>2, <1>6, <1>12, <1>13 DEF Between

-----------------------------------------------------------------------------
(* The file.                                                               *)

\* A file of words of C.
FileOf(C) == [cells : Seq(C), pos : Nat, error : BOOLEAN]

\* A piece of a sequence.
LEMMA SubSeqIs ==
  ASSUME NEW C, NEW s \in Seq(C), NEW m \in Nat \ {0}, NEW n \in Nat, n <= Len(s)
  PROVE  /\ SubSeq(s, m, n) \in Seq(C)
         /\ Len(SubSeq(s, m, n)) = IF m <= n THEN n - m + 1 ELSE 0
         /\ \A k \in 1 .. n - m + 1 : SubSeq(s, m, n)[k] = s[m + k - 1]
  OBVIOUS

\* One sequence behind another.
LEMMA ConcatIs ==
  ASSUME NEW C, NEW s \in Seq(C), NEW t \in Seq(C)
  PROVE  /\ s \o t \in Seq(C) /\ Len(s \o t) = Len(s) + Len(t)
         /\ \A k \in 1 .. Len(s) : (s \o t)[k] = s[k]
         /\ \A k \in 1 .. Len(t) : (s \o t)[Len(s) + k] = t[k]
  OBVIOUS

\* A sequence with some of its elements replaced.
LEMMA Splice ==
  ASSUME NEW C, NEW s \in Seq(C), NEW t \in Seq(C), NEW P \in Nat, P <= Len(s)
  PROVE  LET e == P + Len(t)
             r == SubSeq(s, 1, P) \o t \o SubSeq(s, e + 1, Len(s))
         IN /\ r \in Seq(C) /\ Len(r) = IF e > Len(s) THEN e ELSE Len(s)
            /\ \A p \in 1 .. Len(r) : r[p] = IF P < p /\ p <= e THEN t[p - P] ELSE s[p]
<1> DEFINE L == Len(s)
           d == Len(t)
           e == P + d
           a == SubSeq(s, 1, P)
           b == a \o t
           z == SubSeq(s, e + 1, L)
           r == b \o z
<1>1. L \in Nat /\ d \in Nat /\ e \in Nat /\ e >= P /\ P <= L /\ e + 1 \in Nat \ {0}
  OBVIOUS
<1>2. a \in Seq(C) /\ z \in Seq(C)
  OBVIOUS
<1>3. Len(a) = P /\ \A k \in 1 .. P : a[k] = s[k]
  OBVIOUS
<1>4. Len(z) = (IF e + 1 <= L THEN L - e ELSE 0) /\ \A k \in 1 .. L - e : z[k] = s[e + k]
  <2> DEFINE m == e + 1
  <2> HIDE DEF L, e, m
  <2>1. /\ Len(SubSeq(s, m, L)) = IF m <= L THEN L - m + 1 ELSE 0
        /\ \A k \in 1 .. L - m + 1 : SubSeq(s, m, L)[k] = s[m + k - 1]
    BY <1>1, SubSeqIs DEF L, m
  <2>2. z = SubSeq(s, m, L)
    BY DEF m
  <2> HIDE DEF z
  <2>3. /\ Len(z) = IF m <= L THEN L - m + 1 ELSE 0
        /\ \A k \in 1 .. L - m + 1 : z[k] = s[m + k - 1]
    BY <2>1, <2>2, Zenon
  <2>4. L - m + 1 = L - e /\ \A k \in 1 .. L - e : m + k - 1 = e + k
    BY <1>1 DEF m
  <2>5. \A k \in 1 .. L - e : z[k] = s[e + k]
    BY <2>3, <2>4
  <2> QED
    BY <1>1, <2>3, <2>4, <2>5 DEF m
<1> HIDE DEF a, z
<1>5. /\ b \in Seq(C) /\ Len(b) = Len(a) + Len(t)
      /\ \A k \in 1 .. Len(a) : b[k] = a[k]
      /\ \A k \in 1 .. Len(t) : b[Len(a) + k] = t[k]
  BY <1>2
<1> HIDE DEF b
<1>6. b \in Seq(C)
  BY <1>5
<1>7. /\ r \in Seq(C) /\ Len(r) = Len(b) + Len(z)
      /\ \A k \in 1 .. Len(b) : r[k] = b[k]
      /\ \A k \in 1 .. Len(z) : r[Len(b) + k] = z[k]
  BY <1>2, <1>6
<1> HIDE DEF r
<1>8. /\ Len(b) = e
      /\ \A k \in 1 .. P : b[k] = s[k]
      /\ \A k \in 1 .. d : b[P + k] = t[k]
  BY <1>1, <1>3, <1>5
<1> HIDE DEF L, d, e
<1>9. Len(r) = IF e > L THEN e ELSE L
  BY <1>1, <1>4, <1>7, <1>8
<1>10. ASSUME NEW p \in 1 .. Len(r)
       PROVE  r[p] = IF P < p /\ p <= e THEN t[p - P] ELSE s[p]
  <2>0. p \in Nat /\ p >= 1
    BY <1>1, <1>9
  <2>1. CASE p <= P
    <3>1. p \in 1 .. P /\ p \in 1 .. Len(b) /\ ~(P < p)
      BY <1>1, <1>8, <2>0, <2>1
    <3> QED
      BY <1>7, <1>8, <3>1
  <2>2. CASE P < p /\ p <= e
    <3>1. p - P \in 1 .. d /\ p = P + (p - P) /\ p \in 1 .. Len(b)
      BY <1>1, <1>8, <2>0, <2>2 DEF e
    <3>2. r[p] = b[P + (p - P)]
      BY <1>7, <3>1
    <3> QED
      BY <1>8, <2>2, <3>1, <3>2
  <2>3. CASE e < p
    <3> DEFINE k == p - e
    <3>1. k \in 1 .. Len(z) /\ p = e + k /\ k \in 1 .. L - e
      BY <1>1, <1>4, <1>9, <2>0, <2>3
    <3> HIDE DEF k
    <3>2. r[Len(b) + k] = s[e + k]
      BY <1>4, <1>7, <3>1
    <3>3. r[p] = s[p]
      BY <1>8, <3>1, <3>2
    <3> QED
      BY <1>1, <2>0, <2>3, <3>3
  <2> QED
    BY <1>1, <2>0, <2>1, <2>2, <2>3
<1>11. e = P + Len(t) /\ L = Len(s) /\ r = a \o t \o z
  BY DEF e, L, d, r, b
<1> QED
  BY <1>7, <1>9, <1>10, <1>11 DEF a, z

\* A write replaces the words from the position on, or adds to the file.
LEMMA WriteAt ==
  ASSUME NEW C, NEW f \in FileOf(C), ~f.error, f.pos <= Len(f.cells), NEW data \in Seq(C)
  PROVE  LET g == Write(f, data)
         IN /\ g \in FileOf(C) /\ ~g.error /\ g.pos = f.pos + Len(data)
            /\ Len(g.cells) = IF g.pos > Len(f.cells) THEN g.pos ELSE Len(f.cells)
            /\ \A p \in 1 .. Len(g.cells) :
                 g.cells[p] = IF f.pos < p /\ p <= g.pos THEN data[p - f.pos] ELSE f.cells[p]
<1> DEFINE s == f.cells
           P == f.pos
           e == P + Len(data)
           r == SubSeq(s, 1, P) \o data \o SubSeq(s, e + 1, Len(s))
           g == Write(f, data)
<1>1. s \in Seq(C) /\ P \in Nat /\ f.error = FALSE /\ P <= Len(s)
  BY DEF FileOf
<1>2. g = [cells |-> r, pos |-> e, error |-> FALSE]
  BY DEF Write, FileOf
<1>3. /\ r \in Seq(C) /\ Len(r) = IF e > Len(s) THEN e ELSE Len(s)
      /\ \A p \in 1 .. Len(r) : r[p] = IF P < p /\ p <= e THEN data[p - P] ELSE s[p]
  <2> HIDE DEF s, P
  <2> QED
    BY <1>1, Splice
<1>4. e \in Nat
  BY <1>1
<1> HIDE DEF r, g, e
<1>5. g \in FileOf(C) /\ ~g.error /\ g.pos = e /\ g.cells = r
  BY <1>2, <1>3, <1>4 DEF FileOf
<1>6. e = f.pos + Len(data)
  BY DEF e
<1> QED
  BY <1>3, <1>5, <1>6 DEF g

\* A read fills the buffer with the words from the position on, as far as there
\* are any.
LEMMA ReadAt ==
  ASSUME NEW C, NEW f \in FileOf(C), ~f.error, f.pos <= Len(f.cells), NEW buffer \in Seq(C)
  PROVE  LET r == Read(f, buffer)
         IN /\ r.file \in FileOf(C) /\ r.file.cells = f.cells
            /\ r.data \in Seq(C) /\ Len(r.data) = Len(buffer)
            /\ \A k \in 1 .. Len(buffer) :
                 f.pos + k <= Len(f.cells) => r.data[k] = f.cells[f.pos + k]
<1> DEFINE n == Len(f.cells)
           m == Len(buffer)
           e == Least(f.pos + m, n)
           got == SubSeq(f.cells, f.pos + 1, e)
           rest == SubSeq(buffer, Len(got) + 1, m)
           data == got \o rest
<1>1. /\ f.cells \in Seq(C) /\ f.pos \in Nat /\ n \in Nat /\ m \in Nat
      /\ f = [cells |-> f.cells, pos |-> f.pos, error |-> f.error] /\ f.error \in BOOLEAN
  BY DEF FileOf
<1>2. Read(f, buffer) = [file |-> [cells |-> f.cells, pos |-> f.pos + Len(got), error |-> Len(got) < m],
                         data |-> data]
  BY <1>1 DEF Read
<1>3. e \in Nat /\ e <= n /\ f.pos <= e /\ e <= f.pos + m /\ (e < n => e = f.pos + m)
  BY <1>1 DEF Least
<1> HIDE DEF e, n, m
<1>4. /\ got \in Seq(C) /\ Len(got) = e - f.pos
      /\ \A k \in 1 .. e - f.pos : got[k] = f.cells[f.pos + k]
  <2> DEFINE l == f.pos + 1
  <2>0. l \in Nat \ {0} /\ l - 1 = f.pos
    BY <1>1
  <2>1. /\ SubSeq(f.cells, l, e) \in Seq(C)
        /\ Len(SubSeq(f.cells, l, e)) = IF l <= e THEN e - l + 1 ELSE 0
        /\ \A k \in 1 .. e - l + 1 : SubSeq(f.cells, l, e)[k] = f.cells[l + k - 1]
    <3> DEFINE c == f.cells
    <3>1. c \in Seq(C) /\ e \in Nat /\ e <= Len(c)
      BY <1>1, <1>3 DEF n
    <3> HIDE DEF c, l
    <3>2. /\ SubSeq(c, l, e) \in Seq(C)
          /\ Len(SubSeq(c, l, e)) = IF l <= e THEN e - l + 1 ELSE 0
          /\ \A k \in 1 .. e - l + 1 : SubSeq(c, l, e)[k] = c[l + k - 1]
      BY <2>0, <3>1, SubSeqIs
    <3> QED
      BY <3>2 DEF c
  <2> QED
    BY <1>1, <1>3, <2>0, <2>1
<1> HIDE DEF got
<1>5. rest \in Seq(C) /\ Len(rest) = m - Len(got)
  <2> DEFINE l == Len(got) + 1
  <2>0. l \in Nat \ {0} /\ Len(got) <= m
    BY <1>1, <1>3, <1>4
  <2>1. /\ SubSeq(buffer, l, m) \in Seq(C)
        /\ Len(SubSeq(buffer, l, m)) = IF l <= m THEN m - l + 1 ELSE 0
    BY <1>1, <2>0, SubSeqIs DEF m
  <2> QED
    BY <1>1, <1>3, <1>4, <2>0, <2>1
<1> HIDE DEF rest
<1>6. /\ data \in Seq(C) /\ Len(data) = Len(got) + Len(rest)
      /\ \A k \in 1 .. Len(got) : data[k] = got[k]
  <2>1. got \in Seq(C) /\ rest \in Seq(C)
    BY <1>4, <1>5
  <2> QED
    BY <2>1, ConcatIs
<1>7. Len(data) = m
  BY <1>1, <1>3, <1>4, <1>5, <1>6
<1> HIDE DEF data
<1>8. ASSUME NEW k \in 1 .. m, f.pos + k <= n
      PROVE  data[k] = f.cells[f.pos + k]
  <2>1. k \in 1 .. e - f.pos
    BY <1>1, <1>3, <1>8
  <2> QED
    BY <1>4, <1>6, <2>1
<1>9. f.pos + Len(got) \in Nat /\ (Len(got) < m) \in BOOLEAN
  BY <1>1, <1>3, <1>4
<1> QED
  BY <1>1, <1>2, <1>6, <1>7, <1>8, <1>9 DEF FileOf, n, m

\* g is f at position p.
Sought(g, C, f, p) ==
  g \in FileOf(C) /\ ~g.error /\ g.pos = p /\ g.cells = f.cells

\* A seek sets the position, and clears the error.
LEMMA SeekIs ==
  ASSUME NEW C, NEW f \in FileOf(C), NEW p \in Nat
  PROVE  Sought(Seek(f, p), C, f, p)
BY DEF Seek, FileOf, Sought

-----------------------------------------------------------------------------
(* The fast start: the last words of a file are moved in front of the others. *)

\* What a division leaves is less than the divisor.
LEMMA DivBounds ==
  ASSUME NEW x \in Nat, NEW n \in Nat \ {0}
  PROVE  /\ x \div n \in Nat
         /\ (x \div n) * n <= x /\ x < (x \div n) * n + n
OBVIOUS

\* A product with a larger factor is larger.
LEMMA TimesMono ==
  ASSUME NEW a \in Nat, NEW b \in Nat, NEW n \in Nat, a <= b
  PROVE  a * n <= b * n
<1>1. PICK d \in Nat : b = a + d
  <2>1. b - a \in Nat /\ b = a + (b - a)
    OBVIOUS
  <2> QED
    BY <2>1
<1>2. b * n = a * n + d * n /\ d * n \in Nat /\ a * n \in Nat
  BY <1>1
<1> QED
  BY <1>2

\* The rounds that a distance takes in steps of n.
LEMMA RoundsFacts ==
  ASSUME NEW way \in Nat, NEW n \in Nat \ {0}
  PROVE  LET rounds == (way + n - 1) \div n
         IN /\ rounds \in Nat /\ rounds * n \in Nat
            /\ way <= rounds * n /\ rounds * n <= way + n - 1
            /\ \A k \in 1 .. rounds :
                 /\ k * n \in Nat /\ (k - 1) * n \in Nat
                 /\ k * n = (k - 1) * n + n /\ (k - 1) * n < way
<1> DEFINE rounds == (way + n - 1) \div n
<1>1. /\ rounds \in Nat /\ rounds * n <= way + n - 1
      /\ way + n - 1 < rounds * n + n
  <2>1. way + n - 1 \in Nat
    OBVIOUS
  <2> HIDE DEF rounds
  <2> QED
    BY <2>1, DivBounds DEF rounds
<1> HIDE DEF rounds
<1>2. rounds * n \in Nat
  BY <1>1
<1>3. way <= rounds * n
  BY <1>1, <1>2
<1>4. ASSUME NEW k \in 1 .. rounds
      PROVE  /\ k * n \in Nat /\ (k - 1) * n \in Nat
             /\ k * n = (k - 1) * n + n /\ (k - 1) * n < way
  <2>1. k - 1 \in Nat /\ k \in Nat /\ k <= rounds
    BY <1>1
  <2>2. k * n \in Nat /\ (k - 1) * n \in Nat
    BY <2>1
  <2>3. k * n = (k - 1) * n + n
    BY <2>1
  <2>4. k * n <= rounds * n
    BY <1>1, <2>1, TimesMono
  <2> QED
    BY <1>1, <1>2, <2>2, <2>3, <2>4
<1> QED
  BY <1>1, <1>2, <1>3, <1>4 DEF rounds

\* r is what a read into the buffer at position p of file f gives.
HasRead(r, C, f, p, buffer) ==
  /\ r.file \in FileOf(C) /\ r.file.cells = f.cells
  /\ r.data \in Seq(C) /\ Len(r.data) = Len(buffer)
  /\ \A k \in 1 .. Len(buffer) : p + k <= Len(f.cells) => r.data[k] = f.cells[p + k]

\* A read in the file gives what is there.
LEMMA ReadFrom ==
  ASSUME NEW C, NEW f \in FileOf(C), NEW p \in Nat, p <= Len(f.cells), NEW buffer \in Seq(C)
  PROVE  HasRead(Read(Seek(f, p), buffer), C, f, p, buffer)
<1> DEFINE g == Seek(f, p)
<1>1. g \in FileOf(C) /\ ~g.error /\ g.pos = p /\ g.cells = f.cells
  <2>1. Sought(g, C, f, p)
    BY SeekIs
  <2> QED
    BY <2>1 DEF Sought
<1>2. g.pos <= Len(g.cells)
  BY <1>1
<1> HIDE DEF g
<1>3. LET r == Read(g, buffer)
      IN /\ r.file \in FileOf(C) /\ r.file.cells = g.cells
         /\ r.data \in Seq(C) /\ Len(r.data) = Len(buffer)
         /\ \A k \in 1 .. Len(buffer) : g.pos + k <= Len(g.cells) => r.data[k] = g.cells[g.pos + k]
  BY <1>1, <1>2, ReadAt
<1> QED
  BY <1>1, <1>3 DEF g, HasRead

\* g is file f with data written at position i, which leaves its length.
HasWritten(g, C, f, i, data) ==
  /\ g \in FileOf(C) /\ ~g.error /\ Len(g.cells) = Len(f.cells)
  /\ \A p \in 1 .. Len(f.cells) :
       g.cells[p] = IF i < p /\ p <= i + Len(data) THEN data[p - i] ELSE f.cells[p]

\* A write in the file changes what it covers.
LEMMA WriteTo ==
  ASSUME NEW C, NEW f \in FileOf(C), NEW i \in Nat, NEW data \in Seq(C),
         i + Len(data) <= Len(f.cells)
  PROVE  HasWritten(Write(Seek(f, i), data), C, f, i, data)
<1> DEFINE h == Seek(f, i)
           g == Write(h, data)
<1>1. h \in FileOf(C) /\ ~h.error /\ h.pos = i /\ h.cells = f.cells
  <2>1. Sought(h, C, f, i)
    BY SeekIs
  <2> QED
    BY <2>1 DEF Sought
<1>2. Len(f.cells) \in Nat /\ Len(data) \in Nat
  BY DEF FileOf
<1>3. h.pos <= Len(h.cells) /\ h.pos + Len(data) = i + Len(data)
  BY <1>1, <1>2
<1> HIDE DEF h
<1>4. /\ g \in FileOf(C) /\ ~g.error /\ g.pos = h.pos + Len(data)
      /\ Len(g.cells) = IF g.pos > Len(h.cells) THEN g.pos ELSE Len(h.cells)
      /\ \A p \in 1 .. Len(g.cells) :
           g.cells[p] = IF h.pos < p /\ p <= g.pos THEN data[p - h.pos] ELSE h.cells[p]
  BY <1>1, <1>3, WriteAt
<1> HIDE DEF g
<1>5. g.pos = i + Len(data) /\ Len(g.cells) = Len(f.cells)
  BY <1>1, <1>2, <1>3, <1>4
<1> QED
  BY <1>1, <1>4, <1>5 DEF g, h, HasWritten

\* Where the word comes from that is at p when the last words, from on, have been
\* moved to the front.
Origin(p, to, from, bytes) ==
  IF p <= to THEN p ELSE IF p <= to + bytes THEN from + (p - to) ELSE p - bytes

\* The buffers hold words of C from the start.
Fills(C) == \A n \in Nat : Filler(n) \in Seq(C)

\* The move through two buffers exchanges the two parts, whatever their lengths.
THEOREM MovedExchanges ==
  ASSUME NEW C, Fills(C),
         NEW f \in FileOf(C), NEW to \in Nat, NEW from \in Nat, to <= from,
         NEW bytes \in Nat \ {0}, Len(f.cells) = from + bytes
  PROVE  LET g == Moved(f, to, from, bytes)
         IN /\ g \in FileOf(C) /\ Len(g.cells) = Len(f.cells)
            /\ \A p \in 1 .. Len(f.cells) : g.cells[p] = f.cells[Origin(p, to, from, bytes)]
<1> DEFINE L == Len(f.cells)
           rot(p) == f.cells[Origin(p, to, from, bytes)]
           last == Read(Seek(f, from), Filler(bytes))
           front == Read(Seek(last.file, to), Filler(bytes))
           rounds == (from - to + bytes - 1) \div bytes
           start == [file |-> front.file, next |-> last.data, other |-> front.data]
           at(k) == to + (k - 1) * bytes
           read(k, st) == Read(Seek(Write(Seek(st.file, at(k)), st.next), at(k) + bytes), st.next)
           step(k, st) == [file |-> read(k, st).file, next |-> st.other, other |-> read(k, st).data]
           Step(u) == [k \in 0 .. rounds |-> IF k = 0 THEN start ELSE step(k, u[k - 1])]
           after == CHOOSE u : u = Step(u)
           end == to + rounds * bytes
           rest == SubSeq(after[rounds].next, 1, bytes - (end - from))
           State == {st \in [file : FileOf(C), next : Seq(C), other : Seq(C)] :
                       /\ Len(st.file.cells) = L
                       /\ Len(st.next) = bytes /\ Len(st.other) = bytes}
<1>1. Moved(f, to, from, bytes) = Write(Seek(after[rounds].file, end), rest)
  BY DEF Moved
<1>2. /\ rounds \in Nat /\ rounds * bytes \in Nat
      /\ from - to <= rounds * bytes /\ rounds * bytes <= from - to + bytes - 1
      /\ \A k \in 1 .. rounds :
           /\ k * bytes \in Nat /\ (k - 1) * bytes \in Nat
           /\ k * bytes = (k - 1) * bytes + bytes /\ (k - 1) * bytes < from - to
  <2>1. from - to \in Nat
    OBVIOUS
  <2> HIDE DEF rounds
  <2> QED
    BY <2>1, RoundsFacts DEF rounds
<1>3. L \in Nat /\ L = from + bytes /\ f.cells \in Seq(C)
  BY DEF FileOf
<1> HIDE DEF L, rounds, rot
\* The buffers before the first round.
<1>4. /\ start \in State /\ start.file.cells = f.cells
      /\ \A j \in 1 .. bytes : start.next[j] = f.cells[from + j]
      /\ \A j \in 1 .. bytes : to + j <= L => start.other[j] = f.cells[to + j]
  <2> DEFINE empty == Filler(bytes)
  <2>1. empty \in Seq(C) /\ Len(empty) = bytes
    BY DEF Filler, Fills
  <2> HIDE DEF empty
  <2>2. last = Read(Seek(f, from), empty)
    BY DEF empty
  <2>3. front = Read(Seek(last.file, to), empty)
    BY DEF empty
  <2> HIDE DEF last, front
  <2>4. from <= Len(f.cells) /\ to <= Len(f.cells)
    BY <1>3 DEF L
  <2>5. /\ last.file \in FileOf(C) /\ last.file.cells = f.cells
        /\ last.data \in Seq(C) /\ Len(last.data) = Len(empty)
        /\ \A j \in 1 .. Len(empty) : from + j <= Len(f.cells) => last.data[j] = f.cells[from + j]
    <3>1. HasRead(last, C, f, from, empty)
      BY <2>1, <2>2, <2>4, ReadFrom
    <3> QED
      BY <3>1 DEF HasRead
  <2>6. last.file \in FileOf(C) /\ to <= Len(last.file.cells)
    BY <2>4, <2>5
  <2>7. /\ front.file \in FileOf(C) /\ front.file.cells = last.file.cells
        /\ front.data \in Seq(C) /\ Len(front.data) = Len(empty)
        /\ \A j \in 1 .. Len(empty) :
             to + j <= Len(last.file.cells) => front.data[j] = last.file.cells[to + j]
    <3>1. HasRead(front, C, last.file, to, empty)
      BY <2>1, <2>3, <2>6, ReadFrom
    <3> QED
      BY <3>1 DEF HasRead
  <2>8. \A j \in 1 .. bytes : from + j <= L
    BY <1>3
  <2> QED
    BY <2>1, <2>5, <2>7, <2>8 DEF L
<1> HIDE DEF start
\* What one round does.
<1>5. ASSUME NEW k \in 1 .. rounds, NEW st \in State
      PROVE  LET i == at(k)
                 new == step(k, st)
             IN /\ new \in State /\ new.next = st.other
                /\ \A p \in 1 .. L :
                     new.file.cells[p] = IF i < p /\ p <= i + bytes THEN st.next[p - i]
                                         ELSE st.file.cells[p]
                /\ \A j \in 1 .. bytes :
                     i + bytes + j <= L => new.other[j] = new.file.cells[i + bytes + j]
  <2> DEFINE i == at(k)
             r == read(k, st)
             new == step(k, st)
  <2>1. i \in Nat /\ i + bytes <= L
    BY <1>2, <1>3
  <2>2. /\ st.file \in FileOf(C) /\ st.next \in Seq(C) /\ st.other \in Seq(C)
        /\ Len(st.file.cells) = L /\ Len(st.next) = bytes /\ Len(st.other) = bytes
    OBVIOUS
  <2> HIDE DEF i, State
  <2> DEFINE g == Write(Seek(st.file, i), st.next)
             m == i + bytes
  <2>3. r = Read(Seek(g, m), st.next)
    BY DEF i
  <2> HIDE DEF read, r, g
  <2>4. HasWritten(g, C, st.file, i, st.next)
    <3>1. i + Len(st.next) <= Len(st.file.cells)
      BY <2>1, <2>2
    <3> QED
      BY <2>1, <2>2, <3>1, WriteTo DEF g
  <2>5. g \in FileOf(C) /\ m \in Nat /\ m <= Len(g.cells)
    BY <2>1, <2>2, <2>4 DEF HasWritten
  <2> HIDE DEF m
  <2>6. HasRead(r, C, g, m, st.next)
    BY <2>2, <2>3, <2>5, ReadFrom
  <2>7. new = [file |-> r.file, next |-> st.other, other |-> r.data]
    BY DEF r
  <2> HIDE DEF new
  <2>8. new \in State /\ new.next = st.other /\ new.other = r.data /\ new.file = r.file
    BY <2>2, <2>4, <2>6, <2>7 DEF State, HasRead, HasWritten
  <2>9. \A p \in 1 .. L :
          new.file.cells[p] = IF i < p /\ p <= i + bytes THEN st.next[p - i] ELSE st.file.cells[p]
    BY <2>2, <2>4, <2>6, <2>8 DEF HasRead, HasWritten
  <2>10. \A j \in 1 .. bytes : i + bytes + j <= L => new.other[j] = new.file.cells[i + bytes + j]
    BY <2>2, <2>4, <2>6, <2>8 DEF HasRead, HasWritten, m
  <2> QED
    BY <2>8, <2>9, <2>10 DEF i, new
<1> DEFINE D == 0 .. rounds
<1>6. /\ after[0] = start /\ \A k \in 1 .. rounds : after[k] = step(k, after[k - 1])
      /\ \A k \in D : after[k] \in State
  <2> DEFINE mu == [k \in D |-> k]
             next == [k \in D |-> k - 1]
             b == [k \in D |-> start]
             c == [k \in D |-> [st \in State |-> step(k, st)]]
  <2>1. \A k \in 1 .. rounds : \A st \in State : step(k, st) \in State
    BY <1>5, Zenon
  <2> HIDE DEF State, step, at, read
  <2>2. Recursion(D, mu, State, {0}, next, b, c)
    <3>1. mu \in [D -> Nat] /\ State # {}
      BY <1>2, <1>4
    <3>2. \A k \in D \ {0} : next[k] \in D /\ mu[next[k]] < mu[k]
      BY <1>2
    <3>3. \A k \in D \cap {0} : b[k] \in State
      BY <1>4
    <3>4. ASSUME NEW k \in D \ {0}, NEW st \in State
          PROVE  c[k][st] \in State
      <4>1. k \in 1 .. rounds /\ k \in D
        BY <1>2
      <4>2. c[k][st] = step(k, st)
        OBVIOUS
      <4> HIDE DEF c
      <4> QED
        BY <2>1, <4>1, <4>2
    <3> HIDE DEF D, mu, next, b, c
    <3> QED
      BY <3>1, <3>2, <3>3, <3>4 DEF Recursion
  <2>3. PICK u \in [D -> State] : Solves(u, D, {0}, next, b, c)
    <3> HIDE DEF D, mu, next, b, c
    <3> QED
      BY <2>2, RecursionExists, Zenon
  <2>4. \A k \in D : u[k] = IF k = 0 THEN start ELSE step(k, u[k - 1])
    <3>1. ASSUME NEW k \in D
          PROVE  u[k] = IF k = 0 THEN start ELSE step(k, u[k - 1])
      <4>1. u[k] = IF k \in {0} THEN b[k] ELSE c[k][u[next[k]]]
        <5> HIDE DEF D, next, b, c
        <5> QED
          BY <2>3 DEF Solves
      <4>2. CASE k = 0
        BY <4>1, <4>2
      <4>3. CASE k # 0
        <5>1. next[k] = k - 1 /\ k - 1 \in D
          BY <1>2, <4>3
        <5>2. u[k - 1] \in State
          BY <5>1
        <5>3. c[k][u[k - 1]] = step(k, u[k - 1])
          BY <5>2
        <5> HIDE DEF c, next
        <5> QED
          BY <4>1, <4>3, <5>1, <5>3
      <4> QED
        BY <4>2, <4>3
    <3> QED
      BY <3>1
  <2>5. u = Step(u)
    <3> HIDE DEF start, step
    <3> QED
      BY <2>4
  <2> HIDE DEF Step, mu, next, b, c
  <2>6. after = Step(after)
    BY <2>5, Zenon
  <2>7. \A k \in D : after[k] = IF k = 0 THEN start ELSE step(k, after[k - 1])
    <3> HIDE DEF after, start, step
    <3> QED
      BY <2>6 DEF Step
  <2> HIDE DEF after
  <2>8. after[0] = start /\ \A k \in 1 .. rounds : after[k] = step(k, after[k - 1])
    BY <1>2, <2>7
  <2> DEFINE S == {k \in D : after[k] \in State}
  <2>9. \A k \in D : k \in S
    <3>1. 0 \in S
      BY <1>2, <1>4, <2>8
    <3>2. ASSUME NEW k \in 1 .. rounds, k - 1 \in S
          PROVE  k \in S
      <4>1. after[k - 1] \in State /\ after[k] = step(k, after[k - 1]) /\ k \in D
        BY <1>2, <2>8, <3>2
      <4> QED
        BY <2>1, <4>1
    <3> HIDE DEF S
    <3> QED
      BY <1>2, <3>1, <3>2, UpToNumber
  <2> QED
    BY <2>8, <2>9
<1> HIDE DEF after
\* Between the rounds: what has been moved, and what the two buffers hold.
<1> DEFINE reached(k) == to + k * bytes
           Moving(st, i) ==
             /\ \A p \in 1 .. L : st.file.cells[p] = IF p <= i THEN rot(p) ELSE f.cells[p]
             /\ \A j \in 1 .. bytes : i + j <= L => st.next[j] = rot(i + j)
             /\ \A j \in 1 .. bytes : i + j <= L => st.other[j] = f.cells[i + j]
<1>7. Moving(after[0], reached(0))
  <2>1. reached(0) = to
    OBVIOUS
  <2>2. \A p \in 1 .. L : p <= to => rot(p) = f.cells[p]
    BY DEF rot, Origin
  <2>3. \A j \in 1 .. bytes : rot(to + j) = f.cells[from + j]
    BY DEF rot, Origin
  <2> HIDE DEF reached
  <2> QED
    BY <1>4, <1>6, <2>1, <2>2, <2>3
<1>8. ASSUME NEW k \in 1 .. rounds, Moving(after[k - 1], reached(k - 1))
      PROVE  Moving(after[k], reached(k))
  <2> DEFINE i == reached(k - 1)
             st == after[k - 1]
             new == after[k]
  <2>1. i \in Nat /\ to <= i /\ reached(k) = i + bytes
    BY <1>2
  <2>2. /\ new.next = st.other
        /\ \A p \in 1 .. L :
             new.file.cells[p] = IF i < p /\ p <= i + bytes THEN st.next[p - i]
                                 ELSE st.file.cells[p]
        /\ \A j \in 1 .. bytes : i + bytes + j <= L => new.other[j] = new.file.cells[i + bytes + j]
    <3>1. k - 1 \in D /\ st \in State
      BY <1>2, <1>6
    <3>2. new = step(k, st) /\ i = at(k)
      BY <1>6
    <3> HIDE DEF State, step, new, st, i, at
    <3> QED
      BY <1>5, <3>1, <3>2
  <2>3. Moving(st, i)
    BY <1>8
  <2> HIDE DEF i, st, new
  <2>4. ASSUME NEW p \in 1 .. L
        PROVE  new.file.cells[p] = IF p <= i + bytes THEN rot(p) ELSE f.cells[p]
    <3>1. CASE i < p /\ p <= i + bytes
      <4>1. p - i \in 1 .. bytes /\ i + (p - i) = p /\ p <= L
        BY <1>3, <2>1, <3>1
      <4>2. st.next[p - i] = rot(i + (p - i))
        BY <2>3, <4>1
      <4> QED
        BY <2>2, <3>1, <4>1, <4>2
    <3>2. CASE ~(i < p /\ p <= i + bytes)
      BY <1>3, <2>1, <2>2, <2>3, <3>2
    <3> QED
      BY <3>1, <3>2
  <2>5. ASSUME NEW j \in 1 .. bytes, i + bytes + j <= L
        PROVE  new.next[j] = rot(i + bytes + j) /\ new.other[j] = f.cells[i + bytes + j]
    <3>1. rot(i + bytes + j) = f.cells[i + j]
      BY <2>1 DEF rot, Origin
    <3>2. i + j <= L /\ i + bytes + j \in 1 .. L /\ ~(i + bytes + j <= i + bytes)
      BY <1>3, <2>1, <2>5
    <3>3. st.other[j] = f.cells[i + j]
      BY <2>3, <3>2
    <3> QED
      BY <2>2, <2>4, <2>5, <3>1, <3>2, <3>3
  <2> HIDE DEF reached
  <2> QED
    BY <2>1, <2>4, <2>5 DEF new
<1>9. \A k \in D : Moving(after[k], reached(k))
  <2> DEFINE S == {k \in D : Moving(after[k], reached(k))}
  <2> HIDE DEF Moving, reached
  <2>1. 0 \in S
    BY <1>2, <1>7
  <2>2. ASSUME NEW k \in 1 .. rounds, k - 1 \in S
        PROVE  k \in S
    BY <1>2, <1>8, <2>2
  <2>3. \A k \in 0 .. rounds : k \in S
    <3> HIDE DEF S
    <3> QED
      BY <1>2, <2>1, <2>2, UpToNumber
  <2> QED
    BY <2>3
<1> DEFINE done == after[rounds]
           e == reached(rounds)
<1>10. done \in State /\ Moving(done, e)
  <2>1. rounds \in D
    BY <1>2
  <2> HIDE DEF State, Moving, reached
  <2> QED
    BY <1>6, <1>9, <2>1
<1>11. e \in Nat /\ from <= e /\ e <= from + bytes - 1 /\ e = end
  BY <1>2
<1> DEFINE n == bytes - (e - from)
           tail == SubSeq(done.next, 1, n)
           g == Write(Seek(done.file, e), tail)
<1>12. n \in Nat \ {0} /\ n <= bytes /\ e + n = L
  BY <1>3, <1>11
<1>13. g = Moved(f, to, from, bytes)
  <2> HIDE DEF done, e, end
  <2>1. rest = tail
    BY <1>11 DEF done
  <2> QED
    BY <1>1, <1>11, <2>1 DEF done
<1>14. /\ done.file \in FileOf(C) /\ done.next \in Seq(C)
       /\ Len(done.file.cells) = L /\ Len(done.next) = bytes
  BY <1>10
<1> HIDE DEF done, e, State, end, rest, reached
<1>15. tail \in Seq(C) /\ Len(tail) = n /\ \A k \in 1 .. n : tail[k] = done.next[k]
  <2>1. /\ tail \in Seq(C) /\ Len(tail) = IF 1 <= n THEN n - 1 + 1 ELSE 0
        /\ \A k \in 1 .. n - 1 + 1 : tail[k] = done.next[1 + k - 1]
    <3> HIDE DEF n
    <3> QED
      BY <1>12, <1>14, SubSeqIs
  <2> HIDE DEF tail
  <2> QED
    BY <1>12, <2>1
<1> HIDE DEF n, tail
<1>16. HasWritten(g, C, done.file, e, tail)
  <2>1. e + Len(tail) <= Len(done.file.cells)
    BY <1>12, <1>14, <1>15, <1>11
  <2> QED
    BY <1>11, <1>14, <1>15, <2>1, WriteTo
<1> HIDE DEF g
<1>17. /\ g \in FileOf(C) /\ Len(g.cells) = L
       /\ \A p \in 1 .. L :
            g.cells[p] = IF e < p /\ p <= e + n THEN tail[p - e] ELSE done.file.cells[p]
  BY <1>14, <1>15, <1>16 DEF HasWritten
<1>18. ASSUME NEW p \in 1 .. L
       PROVE  g.cells[p] = rot(p)
  <2>1. CASE e < p
    <3>1. p - e \in 1 .. n /\ p - e \in 1 .. bytes /\ e + (p - e) = p /\ p <= e + n /\ p <= L
      BY <1>3, <1>11, <1>12, <2>1
    <3>2. done.next[p - e] = rot(e + (p - e))
      BY <1>10, <3>1
    <3> QED
      BY <1>15, <1>17, <2>1, <3>1, <3>2
  <2>2. CASE ~(e < p)
    BY <1>3, <1>10, <1>11, <1>17, <2>2
  <2> QED
    BY <2>1, <2>2
<1> QED
  BY <1>13, <1>17, <1>18 DEF L, rot

-----------------------------------------------------------------------------
(* What the tables list, and the groups they cut the samples into.         *)

\* h lists the members of S up to n in their order.
Lists(h, S, n) ==
  /\ h \in Seq(Nat)
  /\ \A a \in 1 .. Len(h) : h[a] \in S /\ h[a] \in 1 .. n
  /\ \A a, b \in 1 .. Len(h) : a < b => h[a] < h[b]
  /\ \A i \in 1 .. n : i \in S => \E a \in 1 .. Len(h) : h[a] = i

\* One more number is looked at.
LEMMA ListsMore ==
  ASSUME NEW h, NEW S, NEW k \in Nat \ {0}, Lists(h, S, k - 1)
  PROVE  Lists(IF k \in S THEN Append(h, k) ELSE h, S, k)
<1>1. CASE k \notin S
  <2>1. \A i \in 1 .. k : i # k => i \in 1 .. k - 1
    OBVIOUS
  <2>2. \A i \in 1 .. k - 1 : i \in 1 .. k
    OBVIOUS
  <2> QED
    BY <1>1, <2>1, <2>2 DEF Lists
<1>2. CASE k \in S
  <2> DEFINE g == Append(h, k)
             n == Len(h)
  <2>1. h \in Seq(Nat) /\ n \in Nat
    BY DEF Lists
  <2>2. g \in Seq(Nat) /\ Len(g) = n + 1 /\ g[n + 1] = k /\ \A a \in 1 .. n : g[a] = h[a]
    BY <2>1
  <2> HIDE DEF g
  <2>3. \A a \in 1 .. n : h[a] \in S /\ h[a] \in 1 .. k - 1
    BY DEF Lists
  <2>4. ASSUME NEW a \in 1 .. n + 1
        PROVE  g[a] \in S /\ g[a] \in 1 .. k
    BY <1>2, <2>1, <2>2, <2>3
  <2>5. ASSUME NEW a \in 1 .. n + 1, NEW b \in 1 .. n + 1, a < b
        PROVE  g[a] < g[b]
    <3>1. a \in 1 .. n /\ g[a] = h[a] /\ h[a] \in 1 .. k - 1
      BY <2>1, <2>2, <2>3, <2>5
    <3>2. CASE b = n + 1
      BY <2>2, <3>1, <3>2
    <3>3. CASE b # n + 1
      <4>1. b \in 1 .. n /\ g[b] = h[b]
        BY <2>1, <2>2, <3>3
      <4>2. h[a] < h[b]
        BY <2>5, <3>1, <4>1 DEF Lists
      <4> QED
        BY <3>1, <4>1, <4>2
    <3> QED
      BY <3>2, <3>3
  <2>6. ASSUME NEW i \in 1 .. k, i \in S
        PROVE  \E a \in 1 .. n + 1 : g[a] = i
    <3>1. CASE i = k
      BY <2>1, <2>2, <3>1
    <3>2. CASE i # k
      <4>1. i \in 1 .. k - 1
        BY <3>2
      <4>2. PICK a \in 1 .. n : h[a] = i
        BY <2>6, <4>1 DEF Lists
      <4>3. a \in 1 .. n + 1 /\ g[a] = i
        BY <2>1, <2>2, <4>2
      <4> QED
        BY <4>3
    <3> QED
      BY <3>1, <3>2
  <2>7. Lists(g, S, k)
    BY <2>2, <2>4, <2>5, <2>6 DEF Lists
  <2> QED
    BY <1>2, <2>7 DEF g
<1> QED
  BY <1>1, <1>2

\* How Ascending comes about.
LEMMA AscendingSteps ==
  ASSUME NEW S, NEW n \in Nat
  PROVE  \E u \in [0 .. n -> Seq(Nat)] :
           /\ u[0] = <<>>
           /\ \A k \in 1 .. n : u[k] = IF k \in S THEN Append(u[k - 1], k) ELSE u[k - 1]
           /\ \A k \in 0 .. n : Lists(u[k], S, k)
           /\ Ascending(S, n) = u[n]
<1> DEFINE more(k, r) == IF k \in S THEN Append(r, k) ELSE r
           Step(u) == [k \in 0 .. n |->
                         IF k = 0 THEN <<>> ELSE IF k \in S THEN Append(u[k - 1], k) ELSE u[k - 1]]
           upTo == CHOOSE u : u = Step(u)
           R == Seq(Nat)
           c == [k \in 1 .. n |-> [r \in R |-> more(k, r)]]
<1>1. Ascending(S, n) = upTo[n]
  BY DEF Ascending
<1>2. \A k \in 1 .. n : \A r \in R : c[k][r] \in R /\ c[k][r] = more(k, r)
  OBVIOUS
<1>3. <<>> \in R
  OBVIOUS
<1>4. PICK u \in [0 .. n -> R] : Follows(u, n, <<>>, c)
  <2>1. StaysIn(c, n, R)
    BY <1>2 DEF StaysIn
  <2> HIDE DEF c, R
  <2> QED
    BY <1>3, <2>1, UpToExists
<1>5. \A k \in 1 .. n : u[k] = more(k, u[k - 1])
  <2>1. \A k \in 1 .. n : u[k - 1] \in R
    BY <1>4
  <2> HIDE DEF c, R, more
  <2> QED
    BY <1>2, <1>4, <2>1 DEF Follows
<1>6. u = Step(u)
  <2>1. \A k \in 0 .. n : k # 0 => k \in 1 .. n
    OBVIOUS
  <2>2. \A k \in 0 .. n :
          u[k] = IF k = 0 THEN <<>> ELSE IF k \in S THEN Append(u[k - 1], k) ELSE u[k - 1]
    BY <1>4, <1>5, <2>1 DEF Follows
  <2>3. u = [k \in 0 .. n |-> u[k]]
    OBVIOUS
  <2> QED
    BY <2>2, <2>3, Zenon
<1> HIDE DEF c
<1>7. upTo = Step(upTo)
  BY <1>6, Zenon
<1> HIDE DEF upTo
<1>8. upTo[0] = <<>> /\ \A k \in 1 .. n : upTo[k] = more(k, upTo[k - 1])
  <2>1. \A k \in 0 .. n :
          upTo[k] = IF k = 0 THEN <<>> ELSE IF k \in S THEN Append(upTo[k - 1], k) ELSE upTo[k - 1]
    BY <1>7, Zenon
  <2>2. 0 \in 0 .. n /\ \A k \in 1 .. n : k \in 0 .. n /\ k # 0
    OBVIOUS
  <2> QED
    BY <2>1, <2>2
<1>9. upTo = u
  <2>1. DOMAIN upTo = 0 .. n /\ upTo = [k \in 0 .. n |-> upTo[k]]
    BY <1>7
  <2>2. DOMAIN u = 0 .. n /\ u = [k \in 0 .. n |-> u[k]]
    OBVIOUS
  <2>3. upTo[0] = u[0] /\ \A k \in 1 .. n : upTo[k - 1] = u[k - 1] => upTo[k] = u[k]
    BY <1>4, <1>5, <1>8 DEF Follows
  <2> QED
    BY <2>1, <2>2, <2>3, SameSteps
<1> DEFINE T == {k \in 0 .. n : Lists(upTo[k], S, k)}
<1>10. \A k \in 0 .. n : k \in T
  <2>1. 0 \in T
    <3>1. Lists(<<>>, S, 0)
      BY DEF Lists
    <3> QED
      BY <1>8, <3>1
  <2>2. ASSUME NEW k \in 1 .. n, k - 1 \in T
        PROVE  k \in T
    <3>1. Lists(upTo[k - 1], S, k - 1)
      BY <2>2
    <3>2. Lists(more(k, upTo[k - 1]), S, k)
      BY <3>1, ListsMore
    <3> QED
      BY <1>8, <3>2
  <2> HIDE DEF T
  <2> QED
    BY <2>1, <2>2, UpToNumber
<1>11. u[0] = <<>> /\ \A k \in 1 .. n : u[k] = IF k \in S THEN Append(u[k - 1], k) ELSE u[k - 1]
  BY <1>8, <1>9
<1>12. \A k \in 0 .. n : Lists(u[k], S, k)
  <2>1. \A k \in 0 .. n : Lists(upTo[k], S, k)
    BY <1>10
  <2> QED
    BY <1>9, <2>1
<1> QED
  BY <1>1, <1>9, <1>11, <1>12

\* Ascending lists them.
LEMMA AscendingLists ==
  ASSUME NEW S, NEW n \in Nat
  PROVE  Lists(Ascending(S, n), S, n)
<1>1. PICK u \in [0 .. n -> Seq(Nat)] :
        /\ u[0] = <<>>
        /\ \A k \in 1 .. n : u[k] = IF k \in S THEN Append(u[k - 1], k) ELSE u[k - 1]
        /\ \A k \in 0 .. n : Lists(u[k], S, k)
        /\ Ascending(S, n) = u[n]
  BY AscendingSteps
<1>2. n \in 0 .. n
  OBVIOUS
<1> QED
  BY <1>1, <1>2

\* What a table holds at the listed places.
Values(x, h) == [a \in DOMAIN h |-> x[h[a]]]

\* One more listed place.
LEMMA ValuesOfMore ==
  ASSUME NEW n \in Nat, NEW x \in [1 .. n -> Nat], NEW h \in Seq(Nat),
         \A a \in 1 .. Len(h) : h[a] \in 1 .. n, NEW k \in 1 .. n
  PROVE  Values(x, Append(h, k)) = Append(Values(x, h), x[k])
<1> DEFINE l == Len(h)
           m == l + 1
           g == Append(h, k)
           v == Values(x, h)
           e == Append(v, x[k])
<1>1. l \in Nat /\ DOMAIN h = 1 .. l /\ x[k] \in Nat
  OBVIOUS
<1>2. DOMAIN g = 1 .. m /\ g[m] = k /\ \A a \in 1 .. l : g[a] = h[a]
  OBVIOUS
<1>3. v \in [1 .. l -> Nat] /\ \A a \in 1 .. l : v[a] = x[h[a]]
  BY <1>1 DEF Values
<1> HIDE DEF v, g, l
<1>4. v \in Seq(Nat) /\ Len(v) = l
  BY <1>1, <1>3, SeqFrom
<1>5. e = [a \in 1 .. m |-> e[a]] /\ e[m] = x[k] /\ \A a \in 1 .. l : e[a] = v[a]
  BY <1>1, <1>4
<1> HIDE DEF e
<1>6. ASSUME NEW a \in 1 .. m
      PROVE  x[g[a]] = e[a]
  <2>1. CASE a = m
    BY <1>2, <1>5, <2>1
  <2>2. CASE a # m
    <3>1. a \in 1 .. l
      BY <1>1, <2>2
    <3> QED
      BY <1>2, <1>3, <1>5, <3>1
  <2> QED
    BY <2>1, <2>2
<1>7. Values(x, g) = [a \in 1 .. m |-> x[g[a]]]
  BY <1>2 DEF Values
<1> HIDE DEF m
<1> QED
  BY <1>5, <1>6, <1>7 DEF e, g, v

\* The sum over the listed places is the sum over all when the others hold 0.
LEMMA TotalOfListed ==
  ASSUME NEW S, NEW n \in Nat, NEW x \in [1 .. n -> Nat],
         \A i \in 1 .. n : i \notin S => x[i] = 0
  PROVE  LET h == Ascending(S, n)
         IN Total([a \in DOMAIN h |-> x[h[a]]]) = Total(x)
<1>1. PICK u \in [0 .. n -> Seq(Nat)] :
        /\ u[0] = <<>>
        /\ \A k \in 1 .. n : u[k] = IF k \in S THEN Append(u[k - 1], k) ELSE u[k - 1]
        /\ \A k \in 0 .. n : Lists(u[k], S, k)
        /\ Ascending(S, n) = u[n]
  BY AscendingSteps
<1>2. PICK g \in [0 .. n -> Nat] :
        /\ g[0] = 0 /\ \A k \in 1 .. n : g[k] = g[k - 1] + x[k]
        /\ Total(x) = g[n]
  <2>1. x \in Seq(Nat) /\ Len(x) = n
    BY SeqFrom
  <2> QED
    BY <2>1, TotalFacts
<1> DEFINE vals(h) == Values(x, h)
           T == {k \in 0 .. n : Total(vals(u[k])) = g[k]}
<1>3. 0 \in T
  <2>1. vals(u[0]) = <<>>
    BY <1>1 DEF Values
  <2> HIDE DEF vals
  <2> QED
    BY <1>2, <2>1, TotalOfNone
<1>4. ASSUME NEW k \in 1 .. n, k - 1 \in T
      PROVE  k \in T
  <2> DEFINE h == u[k - 1]
             v == vals(h)
  <2>1. k \in 0 .. n /\ k - 1 \in 0 .. n /\ g[k] = g[k - 1] + x[k] /\ x[k] \in Nat /\ g[k - 1] \in Nat
    BY <1>2
  <2>2. h \in Seq(Nat) /\ Len(h) \in Nat /\ DOMAIN h = 1 .. Len(h)
        /\ \A a \in 1 .. Len(h) : h[a] \in 1 .. n
    <3>1. h \in Seq(Nat) /\ \A a \in 1 .. Len(h) : h[a] \in 1 .. k - 1
      BY <1>1, <2>1 DEF Lists
    <3> HIDE DEF h, v
    <3>2. Len(h) \in Nat /\ DOMAIN h = 1 .. Len(h)
      BY <3>1
    <3>3. \A a \in 1 .. Len(h) : h[a] \in 1 .. n
      <4>1. \A i \in 1 .. k - 1 : i \in 1 .. n
        OBVIOUS
      <4> QED
        BY <3>1, <4>1
    <3> QED
      BY <3>1, <3>2, <3>3
  <2> HIDE DEF h
  <2>3. v \in Seq(Nat) /\ Len(v) = Len(h) /\ DOMAIN v = 1 .. Len(h)
    <3>1. v \in [1 .. Len(h) -> Nat]
      BY <2>2 DEF Values
    <3> HIDE DEF v
    <3> QED
      BY <2>2, <3>1, SeqFrom
  <2>4. Total(v) = g[k - 1]
    BY <1>4 DEF h
  <2>5. CASE k \in S
    <3>1. u[k] = Append(h, k)
      BY <1>1, <2>5 DEF h
    <3>2. vals(Append(h, k)) = Append(v, x[k])
      BY <2>1, <2>2, ValuesOfMore DEF Values
    <3>3. Total(Append(v, x[k])) = Total(v) + x[k]
      <4> HIDE DEF v
      <4> QED
        BY <2>1, <2>3, TotalOfMore
    <3> HIDE DEF v, vals
    <3> QED
      BY <2>1, <2>4, <3>1, <3>2, <3>3
  <2>6. CASE k \notin S
    <3>1. u[k] = h /\ x[k] = 0
      BY <1>1, <2>6 DEF h
    <3> HIDE DEF vals
    <3> QED
      BY <2>1, <2>4, <3>1 DEF v
  <2> QED
    BY <2>5, <2>6
<1>5. \A k \in 0 .. n : k \in T
  <2> HIDE DEF T
  <2> QED
    BY <1>3, <1>4, UpToNumber
<1>6. n \in T
  <2> HIDE DEF T
  <2> QED
    BY <1>5
<1> QED
  BY <1>1, <1>2, <1>6 DEF Values

\* The group after the last one begins behind n.
StartOf(g, n, k) == IF k <= Len(g) THEN g[k].first ELSE n + 1

\* g cuts 1 .. n into groups that begin with the members of S.
Grouped(g, S, n) ==
  /\ g \in Seq([first : Nat, count : Nat \ {0}]) /\ Len(g) \in Nat \ {0}
  /\ StartOf(g, n, 1) = 1
  /\ \A k \in 1 .. Len(g) :
       /\ g[k].first \in S /\ g[k].first \in 1 .. n
       /\ g[k].first + g[k].count = StartOf(g, n, k + 1)
       /\ StartOf(g, n, k + 1) \in 2 .. n + 1
       /\ \A i \in 1 .. n : g[k].first < i /\ i < StartOf(g, n, k + 1) => i \notin S

\* Groups cuts the samples where a group starts, and leaves none out.
LEMMA GroupsFacts ==
  ASSUME NEW S, NEW n \in Nat \ {0}, 1 \in S
  PROVE  Grouped(Groups(S, n), S, n)
<1> DEFINE h == Ascending(S, n)
           K == Len(h)
           g == Groups(S, n)
           then(k) == IF k < K THEN h[k + 1] ELSE n + 1
<1>1. Lists(h, S, n)
  BY AscendingLists
<1>2. g = [k \in DOMAIN h |-> [first |-> h[k], count |-> then(k) - h[k]]]
  BY DEF Groups
<1> HIDE DEF h, g
<1>3. /\ h \in Seq(Nat) /\ K \in Nat /\ DOMAIN h = 1 .. K
      /\ \A k \in 1 .. K : h[k] \in S /\ h[k] \in 1 .. n
  BY <1>1 DEF Lists
<1>4. PICK a \in 1 .. K : h[a] = 1
  BY <1>1 DEF Lists
<1>5. K >= 1 /\ h[1] = 1
  <2>1. K >= 1 /\ 1 \in 1 .. K
    BY <1>3, <1>4
  <2>2. a = 1
    <3> SUFFICES ASSUME a # 1
                 PROVE  FALSE
      OBVIOUS
    <3>1. 1 < a
      BY <1>3
    <3>2. h[1] < h[a]
      BY <1>1, <2>1, <3>1 DEF Lists
    <3>3. h[1] \in 1 .. n
      BY <1>3, <2>1
    <3> QED
      BY <1>4, <3>2, <3>3
  <2> QED
    BY <1>4, <2>1, <2>2
<1>6. ASSUME NEW k \in 1 .. K
      PROVE  /\ then(k) \in 2 .. n + 1 /\ h[k] < then(k)
             /\ \A i \in 1 .. n : h[k] < i /\ i < then(k) => i \notin S
  <2>1. h[k] \in 1 .. n
    BY <1>3
  <2>2. then(k) \in 2 .. n + 1 /\ h[k] < then(k)
    <3>1. CASE k < K
      <4>1. k + 1 \in 1 .. K /\ k < k + 1
        BY <1>3, <3>1
      <4>2. h[k] < h[k + 1] /\ h[k + 1] \in 1 .. n
        BY <1>1, <1>3, <4>1 DEF Lists
      <4> QED
        BY <2>1, <3>1, <4>2
    <3>2. CASE ~(k < K)
      BY <2>1, <3>2
    <3> QED
      BY <3>1, <3>2
  <2>3. ASSUME NEW i \in 1 .. n, h[k] < i, i < then(k), i \in S
        PROVE  FALSE
    <3>1. PICK b \in 1 .. K : h[b] = i
      BY <1>1, <2>3 DEF Lists
    <3>2. k < b
      <4> SUFFICES ASSUME b <= k
                   PROVE  FALSE
        BY <1>3
      <4>1. CASE b = k
        BY <2>1, <2>3, <3>1, <4>1
      <4>2. CASE b # k
        <5>1. b < k
          BY <1>3, <4>2
        <5>2. h[b] < h[k]
          BY <1>1, <5>1 DEF Lists
        <5> QED
          BY <2>1, <2>3, <3>1, <5>2
      <4> QED
        BY <4>1, <4>2
    <3>3. k < K /\ k + 1 \in 1 .. K /\ then(k) = h[k + 1] /\ h[k + 1] \in 1 .. n
      BY <1>3, <3>2
    <3>4. CASE b = k + 1
      BY <2>3, <3>1, <3>3, <3>4
    <3>5. CASE b # k + 1
      <4>1. k + 1 < b
        BY <1>3, <3>2, <3>5
      <4>2. h[k + 1] < h[b]
        BY <1>1, <3>3, <4>1 DEF Lists
      <4> QED
        BY <2>3, <3>1, <3>3, <4>2
    <3> QED
      BY <3>4, <3>5
  <2> QED
    BY <2>2, <2>3
<1>7. \A k \in 1 .. K : g[k].first = h[k] /\ g[k].count = then(k) - h[k]
  BY <1>2, <1>3
<1>8. g \in Seq([first : Nat, count : Nat \ {0}]) /\ Len(g) = K
  <2>1. \A k \in 1 .. K : h[k] \in Nat /\ then(k) - h[k] \in Nat \ {0}
    BY <1>3, <1>6
  <2> HIDE DEF then
  <2>2. \A k \in 1 .. K :
          [first |-> h[k], count |-> then(k) - h[k]] \in [first : Nat, count : Nat \ {0}]
    BY <2>1
  <2> DEFINE G == [first : Nat, count : Nat \ {0}]
  <2>3. g \in [1 .. K -> G]
    BY <1>2, <1>3, <2>2
  <2> HIDE DEF G, K
  <2>4. K \in Nat
    BY <1>3
  <2>5. g \in Seq(G) /\ Len(g) = K
    BY <2>3, <2>4, SeqFrom
  <2> QED
    BY <2>5 DEF G
<1>9. \A k \in 1 .. K : StartOf(g, n, k) = h[k] /\ StartOf(g, n, k + 1) = then(k)
  <2>1. Len(g) = K /\ K \in Nat
    BY <1>3, <1>8
  <2> HIDE DEF K
  <2>2. ASSUME NEW k \in 1 .. K
        PROVE  StartOf(g, n, k) = h[k] /\ StartOf(g, n, k + 1) = then(k)
    <3>1. StartOf(g, n, k) = h[k]
      BY <1>7, <2>1 DEF StartOf
    <3>2. CASE k < K
      <4>1. k + 1 \in 1 .. K /\ then(k) = h[k + 1]
        BY <2>1, <3>2
      <4>2. StartOf(g, n, k + 1) = h[k + 1]
        BY <1>7, <2>1, <4>1 DEF StartOf
      <4> QED
        BY <3>1, <4>1, <4>2
    <3>3. CASE ~(k < K)
      BY <2>1, <3>1, <3>3 DEF StartOf
    <3> QED
      BY <3>2, <3>3
  <2> QED
    BY <2>2
<1>10. StartOf(g, n, 1) = 1
  BY <1>3, <1>5, <1>9
<1>11. ASSUME NEW k \in 1 .. K
       PROVE  /\ g[k].first \in S /\ g[k].first \in 1 .. n
              /\ g[k].first + g[k].count = StartOf(g, n, k + 1)
              /\ StartOf(g, n, k + 1) \in 2 .. n + 1
              /\ \A i \in 1 .. n : g[k].first < i /\ i < StartOf(g, n, k + 1) => i \notin S
  <2>1. g[k].first = h[k] /\ StartOf(g, n, k + 1) = then(k) /\ g[k].count = then(k) - h[k]
    BY <1>7, <1>9
  <2> HIDE DEF then
  <2> QED
    BY <1>3, <1>6, <2>1
<1> HIDE DEF K
<1>12. Grouped(g, S, n)
  <2>1. Len(g) \in Nat \ {0} /\ Len(g) = K
    BY <1>3, <1>5, <1>8
  <2> QED
    BY <1>8, <1>10, <1>11, <2>1 DEF Grouped
<1> QED
  BY <1>12 DEF g

\* A group has a first sample and a count.
LEMMA GroupIn ==
  ASSUME NEW S, NEW n, NEW g, Grouped(g, S, n), NEW k \in 1 .. Len(g)
  PROVE  g[k] \in [first : Nat, count : Nat \ {0}]
<1> DEFINE G == [first : Nat, count : Nat \ {0}]
<1>1. g \in Seq(G)
  BY DEF Grouped
<1> HIDE DEF G
<1>2. g[k] \in G
  BY <1>1
<1> QED
  BY <1>2 DEF G

\* There is a group.
LEMMA GroupedLen ==
  ASSUME NEW S, NEW n, NEW g, Grouped(g, S, n)
  PROVE  Len(g) \in Nat \ {0} /\ DOMAIN g = 1 .. Len(g)
BY DEF Grouped

-----------------------------------------------------------------------------
(* The times of a track.                                                   *)

\* A table of samples, one at least, that have times.
Dated(s) ==
  /\ Len(s) \in Nat \ {0} /\ DOMAIN s = 1 .. Len(s)
  /\ \A i \in 1 .. Len(s) : s[i].dts \in Int

\* The time between two samples is never 0.
LEMMA DeltaIs ==
  ASSUME NEW s, Dated(s)
  PROVE  \A i \in 1 .. Len(s) : Delta(s, i) \in Nat \ {0}
<1> SUFFICES ASSUME NEW i \in 1 .. Len(s)
             PROVE  Delta(s, i) \in Nat \ {0}
  OBVIOUS
<1>1. CASE i < Len(s) /\ s[i + 1].dts > s[i].dts
  <2>1. i + 1 \in 1 .. Len(s) /\ s[i + 1].dts \in Int /\ s[i].dts \in Int
    BY <1>1 DEF Dated
  <2> QED
    BY <1>1, <2>1 DEF Delta
<1>2. CASE ~(i < Len(s) /\ s[i + 1].dts > s[i].dts)
  BY <1>2 DEF Delta
<1> QED
  BY <1>1, <1>2

\* The first of times is the time of the first sample, every later one that of
\* the one before and the delta of the sample before.
Timed(times, s, n) ==
  /\ times \in Seq(Int) /\ Len(times) = n /\ n >= 1
  /\ times[1] = s[1].dts
  /\ \A i \in 1 .. n - 1 : times[i + 1] = times[i] + Delta(s, i)

\* One more entry of stts, for the samples from n on.
LEMMA TimedMore ==
  ASSUME NEW s, NEW n \in Nat, NEW times, Timed(times, s, n),
         NEW count \in Nat, NEW delta \in Int,
         \A j \in 0 .. count - 1 : Delta(s, n + j) = delta
  PROVE  Timed(times \o [k \in 1 .. count |-> Last(times) + k * delta], s, n + count)
<1> DEFINE last == times[n]
           t == [k \in 1 .. count |-> last + k * delta]
           r == times \o t
<1>1. times \in Seq(Int) /\ Len(times) = n /\ n \in Nat /\ n >= 1 /\ last \in Int
  BY DEF Timed
<1>2. Last(times) = last
  BY <1>1 DEF Last
<1>3. t \in Seq(Int) /\ Len(t) = count /\ \A k \in 1 .. count : t[k] = last + k * delta
  <2>1. \A k \in 1 .. count : last + k * delta \in Int
    BY <1>1
  <2>2. t \in [1 .. count -> Int]
    BY <2>1
  <2>3. \A k \in 1 .. count : t[k] = last + k * delta
    OBVIOUS
  <2> HIDE DEF t
  <2> QED
    BY <2>2, <2>3, SeqFrom
<1> HIDE DEF t, last
<1>4. /\ r \in Seq(Int) /\ Len(r) = n + count
      /\ \A k \in 1 .. n : r[k] = times[k]
      /\ \A k \in 1 .. count : r[n + k] = t[k]
  <2>1. times \in Seq(Int) /\ t \in Seq(Int)
    BY <1>1, <1>3
  <2>2. /\ times \o t \in Seq(Int) /\ Len(times \o t) = Len(times) + Len(t)
        /\ \A k \in 1 .. Len(times) : (times \o t)[k] = times[k]
        /\ \A k \in 1 .. Len(t) : (times \o t)[Len(times) + k] = t[k]
    BY <2>1, ConcatIs
  <2> QED
    BY <1>1, <1>3, <2>2
<1> HIDE DEF r
<1>5. r[1] = s[1].dts
  BY <1>1, <1>4 DEF Timed
<1>6. ASSUME NEW i \in 1 .. n + count - 1
      PROVE  r[i + 1] = r[i] + Delta(s, i)
  <2>1. CASE i < n
    <3>1. i \in 1 .. n - 1 /\ i \in 1 .. n /\ i + 1 \in 1 .. n
      BY <1>1, <2>1
    <3> QED
      BY <1>4, <3>1 DEF Timed
  <2>2. CASE i >= n
    <3> DEFINE j == i - n
    <3>1. j \in 0 .. count - 1 /\ i = n + j /\ j + 1 \in 1 .. count /\ i + 1 = n + (j + 1)
      BY <1>1, <2>2
    <3> HIDE DEF j
    <3>2. Delta(s, i) = delta
      BY <3>1
    <3>3. r[i + 1] = last + (j + 1) * delta
      BY <1>3, <1>4, <3>1
    <3>4. r[i] = last + j * delta
      <4>1. CASE j = 0
        <5>1. n \in 1 .. n /\ i = n
          BY <1>1, <3>1, <4>1
        <5>2. r[i] = last
          BY <1>4, <5>1 DEF last
        <5> QED
          BY <1>1, <4>1, <5>2
      <4>2. CASE j # 0
        <5>1. j \in 1 .. count
          BY <3>1, <4>2
        <5> QED
          BY <1>3, <1>4, <3>1, <5>1
      <4> QED
        BY <4>1, <4>2
    <3>5. (j + 1) * delta = j * delta + delta /\ j * delta \in Int
      BY <3>1
    <3> QED
      BY <1>1, <3>2, <3>3, <3>4, <3>5
  <2> QED
    BY <1>1, <2>1, <2>2
<1>7. Timed(r, s, n + count)
  BY <1>1, <1>4, <1>5, <1>6 DEF Timed
<1> QED
  BY <1>2, <1>7 DEF r, t

\* The samples that have the delta of the one before share an entry of stts.
Turns(s) == { i \in DOMAIN s : i = 1 \/ Delta(s, i) # Delta(s, i - 1) }

\* All samples of an entry of stts have its delta.
LEMMA SameDelta ==
  ASSUME NEW s, Dated(s), NEW g, Grouped(g, Turns(s), Len(s)), NEW k \in 1 .. Len(g)
  PROVE  \A j \in 0 .. g[k].count - 1 : Delta(s, g[k].first + j) = Delta(s, g[k].first)
<1> DEFINE n == Len(s)
           a == g[k].first
           m == g[k].count
           T == {j \in 0 .. m - 1 : Delta(s, a + j) = Delta(s, a)}
<1>1. /\ a \in 1 .. n /\ m \in Nat \ {0} /\ n \in Nat /\ a + m = StartOf(g, n, k + 1)
      /\ a + m <= n + 1
      /\ \A i \in 1 .. n : a < i /\ i < a + m => i \notin Turns(s)
  <2>1. g[k] \in [first : Nat, count : Nat \ {0}]
    BY GroupIn
  <2>2. m \in Nat \ {0}
    BY <2>1
  <2> HIDE DEF n, a, m
  <2>3. /\ a \in 1 .. n /\ n \in Nat /\ a + m = StartOf(g, n, k + 1)
        /\ StartOf(g, n, k + 1) \in 2 .. n + 1
        /\ \A i \in 1 .. n : a < i /\ i < StartOf(g, n, k + 1) => i \notin Turns(s)
    BY DEF Grouped, Dated, n, a, m
  <2> QED
    BY <2>2, <2>3
<1> HIDE DEF n, a, m
<1>2. 0 \in T
  BY <1>1
<1>3. ASSUME NEW j \in 1 .. m - 1, j - 1 \in T
      PROVE  j \in T
  <2>1. /\ a + j \in 1 .. n /\ a < a + j /\ a + j < a + m /\ a + j # 1
        /\ (a + j) - 1 = a + (j - 1) /\ j \in 0 .. m - 1
    BY <1>1
  <2>2. a + j \notin Turns(s) /\ a + j \in DOMAIN s
    BY <1>1, <2>1 DEF Dated, n
  <2>3. Delta(s, a + j) = Delta(s, (a + j) - 1)
    BY <2>1, <2>2 DEF Turns
  <2>4. Delta(s, a + (j - 1)) = Delta(s, a)
    BY <1>3
  <2> QED
    BY <2>1, <2>3, <2>4
<1>4. \A j \in 0 .. m - 1 : j \in T
  <2>1. m - 1 \in Nat
    BY <1>1
  <2> HIDE DEF T
  <2> QED
    BY <1>2, <1>3, <2>1, UpToNumber
<1> QED
  BY <1>4 DEF a, m

\* What a track box says about the times of its samples.
TimesOfTrak(t, s) == t.delay = s[1].dts /\ t.stts = Stts(s)

\* The times read back start with that of the first sample and advance by the deltas.
LEMMA TimesAreDeltas ==
  ASSUME NEW s, Dated(s), NEW t, TimesOfTrak(t, s)
  PROVE  Timed(Times(t), s, Len(s))
<1> DEFINE n == Len(s)
           g == Groups(Turns(s), n)
           K == Len(t.stts)
           more(e, found) == found \o [k \in 1 .. t.stts[e].count |->
                                         Last(found) + k * t.stts[e].delta]
           Step(u) == [e \in 0 .. K |->
             IF e = 0 THEN <<t.delay>>
             ELSE LET found == u[e - 1]
                  IN found \o [k \in 1 .. t.stts[e].count |-> Last(found) + k * t.stts[e].delta]]
           upTo == CHOOSE u : u = Step(u)
<1>1. Times(t) = Front(upTo[K])
  BY DEF Times
<1>2. /\ n \in Nat \ {0} /\ 1 \in Turns(s)
      /\ Grouped(g, Turns(s), n) /\ Len(g) \in Nat \ {0}
  <2>1. n \in Nat \ {0} /\ 1 \in Turns(s)
    BY DEF Dated, Turns
  <2>2. Grouped(g, Turns(s), n)
    BY <2>1, GroupsFacts
  <2> QED
    BY <2>1, <2>2 DEF Grouped
<1>3. t.stts = [k \in DOMAIN g |-> [count |-> g[k].count, delta |-> Delta(s, g[k].first)]]
  BY DEF TimesOfTrak, Stts, Turns
<1>4. DOMAIN g = 1 .. Len(g)
  BY <1>2 DEF Grouped
<1> HIDE DEF g
<1>5. /\ K = Len(g)
      /\ \A k \in 1 .. K : t.stts[k].count = g[k].count /\ t.stts[k].delta = Delta(s, g[k].first)
  BY <1>2, <1>3, <1>4
<1>6. \A k \in 1 .. K : /\ g[k].count \in Nat \ {0} /\ Delta(s, g[k].first) \in Nat \ {0}
                        /\ g[k].first \in 1 .. n
                        /\ g[k].first = StartOf(g, n, k)
                        /\ g[k].first + g[k].count = StartOf(g, n, k + 1)
  <2> SUFFICES ASSUME NEW k \in 1 .. K
               PROVE  /\ g[k].count \in Nat \ {0} /\ Delta(s, g[k].first) \in Nat \ {0}
                      /\ g[k].first \in 1 .. n
                      /\ g[k].first = StartOf(g, n, k)
                      /\ g[k].first + g[k].count = StartOf(g, n, k + 1)
    OBVIOUS
  <2>1. k \in 1 .. Len(g)
    BY <1>5
  <2>2. g[k] \in [first : Nat, count : Nat \ {0}]
    BY <1>2, <2>1, GroupIn
  <2>3. g[k].first \in 1 .. n /\ g[k].first + g[k].count = StartOf(g, n, k + 1)
    BY <1>2, <2>1 DEF Grouped
  <2>4. g[k].first = StartOf(g, n, k)
    BY <1>2, <2>1 DEF StartOf
  <2>5. Delta(s, g[k].first) \in Nat \ {0}
    BY <2>3, DeltaIs
  <2> QED
    BY <2>2, <2>3, <2>4, <2>5
<1>7. <<t.delay>> \in Seq(Int) /\ Timed(<<t.delay>>, s, 1)
  <2>1. t.delay \in Int /\ t.delay = s[1].dts
    BY <1>2 DEF TimesOfTrak, Dated
  <2> QED
    BY <2>1 DEF Timed
<1> HIDE DEF K, n
<1>0. ASSUME NEW e \in 1 .. K
      PROVE  t.stts[e].count \in Nat /\ t.stts[e].delta \in Int
  BY <1>5, <1>6
<1> DEFINE R == Seq(Int) \ {<<>>}
           c == [e \in 1 .. K |-> [found \in R |-> more(e, found)]]
<1>8. K \in Nat \ {0}
  BY <1>2, <1>5
<1>9. \A e \in 1 .. K : \A found \in R : c[e][found] = more(e, found)
  <2> HIDE DEF R, more
  <2> QED
    OBVIOUS
<1>10. StaysIn(c, K, R)
  <2>1. ASSUME NEW e \in 1 .. K, NEW found \in R
        PROVE  more(e, found) \in R
    <3> DEFINE count == t.stts[e].count
               delta == t.stts[e].delta
               last == Last(found)
               more1 == [k \in 1 .. count |-> last + k * delta]
    <3>1. found \in Seq(Int) /\ Len(found) \in Nat \ {0} /\ last \in Int
      BY DEF Last
    <3>2. count \in Nat /\ delta \in Int
      BY <1>0
    <3>3. more(e, found) = found \o more1
      OBVIOUS
    <3> HIDE DEF count, delta, last, R, more
    <3>4. \A k \in 1 .. count : last + k * delta \in Int
      BY <3>1, <3>2
    <3>5. more1 \in [1 .. count -> Int]
      BY <3>4
    <3> HIDE DEF more1
    <3>6. more1 \in Seq(Int) /\ Len(more1) \in Nat
      BY <3>2, <3>5, SeqFrom
    <3>7. found \o more1 \in Seq(Int) /\ Len(found \o more1) = Len(found) + Len(more1)
      BY <3>1, <3>6, ConcatIs
    <3>8. found \o more1 # <<>>
      <4>1. Len(found \o more1) # 0
        BY <3>1, <3>6, <3>7
      <4> QED
        BY <4>1
    <3> QED
      BY <3>3, <3>7, <3>8 DEF R
  <2> HIDE DEF R, more, c
  <2> QED
    BY <1>9, <2>1 DEF StaysIn
<1>11. <<t.delay>> \in R
  BY <1>7
<1>12. PICK u \in [0 .. K -> R] : Follows(u, K, <<t.delay>>, c)
  <2> HIDE DEF R, c
  <2> QED
    BY <1>8, <1>10, <1>11, UpToExists
<1>13. u[0] = <<t.delay>> /\ \A e \in 1 .. K : u[e] = more(e, u[e - 1])
  <2>1. \A e \in 1 .. K : u[e - 1] \in R
    BY <1>8, <1>12
  <2> HIDE DEF c, R, more
  <2> QED
    BY <1>9, <1>12, <2>1 DEF Follows
<1> HIDE DEF R, c
<1>14. u = Step(u)
  <2>1. \A e \in 0 .. K : e # 0 => e \in 1 .. K
    BY <1>8
  <2>2. \A e \in 0 .. K :
          u[e] = IF e = 0 THEN <<t.delay>>
                 ELSE LET found == u[e - 1]
                      IN found \o [k \in 1 .. t.stts[e].count |-> Last(found) + k * t.stts[e].delta]
    BY <1>13, <2>1
  <2>3. u = [e \in 0 .. K |-> u[e]]
    BY <1>12
  <2> QED
    BY <2>2, <2>3, Zenon
<1>15. upTo = Step(upTo)
  BY <1>14, Zenon
<1> HIDE DEF upTo
<1>16. upTo[0] = <<t.delay>> /\ \A e \in 1 .. K : upTo[e] = more(e, upTo[e - 1])
  <2>1. \A e \in 0 .. K :
          upTo[e] = IF e = 0 THEN <<t.delay>>
                    ELSE LET found == upTo[e - 1]
                         IN found \o [k \in 1 .. t.stts[e].count |-> Last(found) + k * t.stts[e].delta]
    BY <1>15, Zenon
  <2>2. 0 \in 0 .. K /\ \A e \in 1 .. K : e \in 0 .. K /\ e # 0
    BY <1>8
  <2> QED
    BY <2>1, <2>2
<1> DEFINE T == {e \in 0 .. K : Timed(upTo[e], s, StartOf(g, n, e + 1))}
<1>17. \A e \in 0 .. K : e \in T
  <2>1. 0 \in T
    <3>1. StartOf(g, n, 0 + 1) = 1
      BY <1>2 DEF Grouped
    <3> QED
      BY <1>7, <1>8, <1>16, <3>1
  <2>2. ASSUME NEW e \in 1 .. K, e - 1 \in T
        PROVE  e \in T
    <3> DEFINE count == t.stts[e].count
               delta == t.stts[e].delta
               before == upTo[e - 1]
               from == g[e].first
    <3>1. (e - 1) + 1 = e /\ e \in 0 .. K
      BY <1>8
    <3>2. /\ count \in Nat /\ delta \in Int /\ from \in Nat /\ from = StartOf(g, n, e)
          /\ from + count = StartOf(g, n, e + 1)
      BY <1>5, <1>6
    <3>3. Timed(before, s, from)
      BY <2>2, <3>1, <3>2
    <3>4. \A j \in 0 .. count - 1 : Delta(s, from + j) = delta
      <4>1. e \in 1 .. Len(g)
        BY <1>5
      <4>2. \A j \in 0 .. g[e].count - 1 : Delta(s, g[e].first + j) = Delta(s, g[e].first)
        BY <1>2, <4>1, SameDelta DEF n
      <4> QED
        BY <1>5, <4>2
    <3>5. upTo[e] = before \o [k \in 1 .. count |-> Last(before) + k * delta]
      BY <1>16
    <3> HIDE DEF count, delta, before, from, more
    <3>6. Timed(before \o [k \in 1 .. count |-> Last(before) + k * delta], s, from + count)
      BY <3>2, <3>3, <3>4, TimedMore
    <3> QED
      BY <3>1, <3>2, <3>5, <3>6
  <2> HIDE DEF T
  <2> QED
    BY <1>8, <2>1, <2>2, UpToNumber
<1>18. Timed(upTo[K], s, n + 1)
  <2>1. K \in T
    <3> HIDE DEF T
    <3> QED
      BY <1>8, <1>17
  <2>2. StartOf(g, n, K + 1) = n + 1
    BY <1>5, <1>8 DEF StartOf
  <2> QED
    BY <2>1, <2>2
<1> DEFINE whole == upTo[K]
<1> HIDE DEF T, more, whole
<1>19. whole \in Seq(Int) /\ Len(whole) = n + 1 /\ n \in Nat \ {0}
  BY <1>2, <1>18 DEF Timed, whole
<1>20. Times(t) = SubSeq(whole, 1, n)
  <2>1. Len(whole) - 1 = n
    BY <1>19
  <2> QED
    BY <1>1, <2>1 DEF Front, whole
<1>21. /\ SubSeq(whole, 1, n) \in Seq(Int) /\ Len(SubSeq(whole, 1, n)) = n
       /\ \A k \in 1 .. n : SubSeq(whole, 1, n)[k] = whole[k]
  BY <1>19
<1>22. Timed(Times(t), s, n)
  <2> DEFINE times == Times(t)
  <2>1. times \in Seq(Int) /\ Len(times) = n /\ \A k \in 1 .. n : times[k] = whole[k]
    BY <1>20, <1>21
  <2> HIDE DEF times
  <2>2. Timed(whole, s, n + 1)
    BY <1>18 DEF whole
  <2>3. times[1] = s[1].dts
    BY <1>19, <2>1, <2>2 DEF Timed
  <2>4. ASSUME NEW i \in 1 .. n - 1
        PROVE  times[i + 1] = times[i] + Delta(s, i)
    <3>1. i \in 1 .. n /\ i + 1 \in 1 .. n /\ i \in 1 .. (n + 1) - 1
      BY <1>19
    <3> QED
      BY <2>1, <2>2, <3>1 DEF Timed
  <2>5. n >= 1
    BY <1>19
  <2>6. Timed(times, s, n)
    BY <2>1, <2>3, <2>4, <2>5 DEF Timed
  <2> QED
    BY <2>6 DEF times
<1> QED
  BY <1>22 DEF n

\* They advance at every sample.
LEMMA TimedAscends ==
  ASSUME NEW s, Dated(s), NEW times, Timed(times, s, Len(s))
  PROVE  \A i, j \in 1 .. Len(s) : i < j => times[i] < times[j]
<1> DEFINE n == Len(s)
<1>1. n \in Nat \ {0} /\ \A i \in 1 .. n : times[i] \in Int
  BY DEF Dated, Timed
<1>2. ASSUME NEW i \in 1 .. n, i # n
      PROVE  i + 1 \in 1 .. n /\ times[i] < times[i + 1]
  <2>1. i \in 1 .. n - 1 /\ i + 1 \in 1 .. n
    BY <1>1, <1>2
  <2>2. times[i + 1] = times[i] + Delta(s, i)
    BY <2>1 DEF Timed
  <2>3. Delta(s, i) \in Nat \ {0}
    BY DeltaIs
  <2> QED
    BY <1>1, <2>1, <2>2, <2>3
<1> HIDE DEF n
<1> SUFFICES ASSUME NEW i \in 1 .. n
             PROVE  \A j \in 1 .. n : i < j => times[i] < times[j]
  BY DEF n
<1> DEFINE T == {d \in 0 .. n - i : d = 0 \/ times[i] < times[i + d]}
<1>3. \A d \in 0 .. n - i : d \in T
  <2>1. n - i \in Nat /\ 0 \in T
    BY <1>1
  <2>2. ASSUME NEW d \in 1 .. n - i, d - 1 \in T
        PROVE  d \in T
    <3> DEFINE j == i + (d - 1)
    <3>1. j \in 1 .. n /\ j # n /\ j + 1 = i + d
      BY <1>1
    <3>2. j = i \/ times[i] < times[j]
      BY <2>2
    <3> HIDE DEF j
    <3>3. times[j] < times[i + d] /\ times[i] \in Int /\ times[j] \in Int /\ times[i + d] \in Int
      BY <1>1, <1>2, <3>1
    <3>4. times[i] < times[i + d]
      BY <3>2, <3>3
    <3> QED
      BY <3>4
  <2> HIDE DEF T
  <2> QED
    BY <2>1, <2>2, UpToNumber
<1>4. ASSUME NEW j \in 1 .. n, i < j
      PROVE  times[i] < times[j]
  <2>1. j - i \in 0 .. n - i /\ j - i # 0 /\ i + (j - i) = j
    BY <1>1, <1>4
  <2>2. j - i \in T
    <3> HIDE DEF T
    <3> QED
      BY <1>3, <2>1
  <2> QED
    BY <2>1, <2>2
<1> QED
  BY <1>4

\* When the samples are not recorded out of order, a time read back is that of the
\* sample, 1 later for every earlier sample of the time of the one before it.
Late(s, n) == { k \in 2 .. n : s[k].dts = s[k - 1].dts }

\* They are those of the samples, and 1 later for each sample that shared its time.
LEMMA TimedCounts ==
  ASSUME NEW s, Dated(s), NEW times, Timed(times, s, Len(s)),
         \A k \in 2 .. Len(s) : s[k].dts >= s[k - 1].dts
  PROVE  \A n \in 1 .. Len(s) : times[n] = s[n].dts + Cardinality(Late(s, n))
<1> DEFINE N == Len(s)
           T == {d \in 0 .. N - 1 : times[d + 1] = s[d + 1].dts + Cardinality(Late(s, d + 1))}
<1>1. /\ N \in Nat \ {0} /\ \A i \in 1 .. N : times[i] \in Int /\ s[i].dts \in Int
      /\ times[1] = s[1].dts
  <2>1. /\ N \in Nat \ {0} /\ \A i \in 1 .. N : s[i].dts \in Int
        /\ times[1] = s[1].dts
    BY DEF Dated, Timed
  <2>2. times \in Seq(Int) /\ Len(times) = N
    BY DEF Timed
  <2>3. \A i \in 1 .. N : times[i] \in Int
    BY <2>2
  <2> QED
    BY <2>1, <2>3
<1>2. \A n \in 1 .. N : IsFiniteSet(Late(s, n)) /\ Cardinality(Late(s, n)) \in Nat
  <2> SUFFICES ASSUME NEW n \in 1 .. N
               PROVE  IsFiniteSet(Late(s, n)) /\ Cardinality(Late(s, n)) \in Nat
    OBVIOUS
  <2>1. IsFiniteSet(2 .. n) /\ Late(s, n) \subseteq 2 .. n
    BY <1>1, FS_Interval DEF Late
  <2>2. IsFiniteSet(Late(s, n))
    BY <2>1, FS_Subset
  <2> QED
    BY <2>2, FS_CardinalityType
<1>3. 0 \in T
  <2>1. Late(s, 1) = {}
    BY DEF Late
  <2>2. Cardinality(Late(s, 1)) = 0
    BY <2>1, FS_EmptySet
  <2>3. times[0 + 1] = s[0 + 1].dts + Cardinality(Late(s, 0 + 1))
    BY <1>1, <2>2
  <2> QED
    BY <1>1, <2>3
<1>4. ASSUME NEW d \in 1 .. N - 1, d - 1 \in T
      PROVE  d \in T
  <2>1. d \in 1 .. N /\ d + 1 \in 1 .. N /\ d + 1 \in 2 .. N /\ (d - 1) + 1 = d /\ d \in 0 .. N - 1
        /\ (d + 1) - 1 = d
    BY <1>1
  <2>2. times[d] = s[d].dts + Cardinality(Late(s, d))
    BY <1>4, <2>1
  <2>3. times[d + 1] = times[d] + Delta(s, d)
    BY DEF Timed
  <2>4. s[d + 1].dts >= s[d].dts
    BY <2>1
  <2>5. Cardinality(Late(s, d)) \in Nat /\ IsFiniteSet(Late(s, d))
    BY <1>2, <2>1
  <2>6. CASE s[d + 1].dts = s[d].dts
    <3>1. Late(s, d + 1) = Late(s, d) \cup {d + 1} /\ d + 1 \notin Late(s, d)
      BY <1>1, <2>1, <2>6 DEF Late
    <3>2. Cardinality(Late(s, d + 1)) = Cardinality(Late(s, d)) + 1
      BY <2>5, <3>1, FS_AddElement
    <3>3. Delta(s, d) = 1
      BY <1>1, <2>1, <2>6 DEF Delta
    <3>4. times[d + 1] = s[d + 1].dts + Cardinality(Late(s, d + 1))
      BY <1>1, <2>1, <2>2, <2>3, <2>5, <2>6, <3>2, <3>3
    <3> QED
      BY <2>1, <3>4
  <2>7. CASE s[d + 1].dts # s[d].dts
    <3>1. Late(s, d + 1) = Late(s, d)
      <4>1. \A k \in 2 .. d + 1 : k # d + 1 => k \in 2 .. d
        BY <1>1, <2>1
      <4>2. \A k \in 2 .. d : k \in 2 .. d + 1
        BY <1>1, <2>1
      <4>3. \A k \in Late(s, d + 1) : k # d + 1
        BY <2>1, <2>7 DEF Late
      <4> QED
        BY <4>1, <4>2, <4>3 DEF Late
    <3>2. Delta(s, d) = s[d + 1].dts - s[d].dts
      BY <1>1, <2>1, <2>4, <2>7 DEF Delta
    <3>3. times[d + 1] = s[d + 1].dts + Cardinality(Late(s, d + 1))
      BY <1>1, <2>1, <2>2, <2>3, <2>5, <3>1, <3>2
    <3> QED
      BY <2>1, <3>3
  <2> QED
    BY <2>6, <2>7
<1>5. \A d \in 0 .. N - 1 : d \in T
  <2>1. N - 1 \in Nat
    BY <1>1
  <2> HIDE DEF T
  <2> QED
    BY <1>3, <1>4, <2>1, UpToNumber
<1>6. ASSUME NEW n \in 1 .. N
      PROVE  times[n] = s[n].dts + Cardinality(Late(s, n))
  <2>1. n - 1 \in 0 .. N - 1 /\ (n - 1) + 1 = n
    BY <1>1
  <2>2. n - 1 \in T
    <3> HIDE DEF T
    <3> QED
      BY <1>5, <2>1
  <2> QED
    BY <2>1, <2>2
<1> QED
  BY <1>6

-----------------------------------------------------------------------------
(* A seek in a track.                                                      *)

\* The samples a seek in a track may resume at.
Entries(t) == IF KeyFramed(t) THEN ToSet(t.stss) ELSE DOMAIN Times(t)

\* The one it does resume at, when the time it seeks is ts.
SeekOf(t, ts) == IF KeyFramed(t) THEN SyncSeek(t, ts) ELSE Nearest(Times(t), ts)

\* The sample a seek resumes at is one it may, and none of these is nearer.
Seeks(t, ts) ==
  /\ SeekOf(t, ts) \in Entries(t)
  /\ \A n \in Entries(t) : Distance(Times(t)[SeekOf(t, ts)], ts) <= Distance(Times(t)[n], ts)

\* So it is in every track that was read back.
LEMMA SeekOfTrak ==
  ASSUME NEW s, Dated(s), NEW t, TimesOfTrak(t, s), NEW S, Lists(t.stss, S, Len(s)),
         NEW ts \in Int
  PROVE  Seeks(t, ts)
<1> DEFINE times == Times(t)
           n == Len(s)
<1>1. Timed(times, s, n)
  BY TimesAreDeltas
<1>2. /\ times \in Seq(Int) /\ Len(times) = n /\ n \in Nat \ {0} /\ DOMAIN times = 1 .. n
      /\ \A i, j \in 1 .. n : i < j => times[i] < times[j]
  <2>1. times \in Seq(Int) /\ Len(times) = n /\ n \in Nat \ {0}
    BY <1>1 DEF Timed, Dated
  <2>2. \A i, j \in 1 .. n : i < j => times[i] < times[j]
    BY <1>1, TimedAscends
  <2> HIDE DEF times
  <2> QED
    BY <2>1, <2>2
<1>3. CASE KeyFramed(t)
  <2> DEFINE h == t.stss
             keys == [k \in DOMAIN h |-> times[h[k]]]
             i == Nearest(keys, ts)
  <2>1. SeekOf(t, ts) = h[i]
    BY <1>3 DEF SeekOf, SyncSeek
  <2>2. Entries(t) = {h[k] : k \in DOMAIN h}
    BY <1>3 DEF Entries, ToSet
  <2>10. h # <<>>
    BY <1>3 DEF KeyFramed
  <2> HIDE DEF times, n
  <2>11. Lists(h, S, n)
    BY DEF n
  <2> HIDE DEF h
  <2>3. /\ h \in Seq(Nat) /\ DOMAIN h = 1 .. Len(h) /\ Len(h) \in Nat /\ Len(h) # 0
        /\ \A k \in 1 .. Len(h) : h[k] \in 1 .. n
        /\ \A a, b \in 1 .. Len(h) : a < b => h[a] < h[b]
    BY <2>10, <2>11 DEF Lists
  <2>4. /\ keys \in Seq(Int) /\ Len(keys) = Len(h) /\ DOMAIN keys = DOMAIN h
        /\ \A k \in DOMAIN h : keys[k] = times[h[k]]
    <3>1. \A k \in 1 .. Len(h) : times[h[k]] \in Int
      BY <1>2, <2>3
    <3>2. keys \in [1 .. Len(h) -> Int]
      BY <2>3, <3>1
    <3>3. \A k \in DOMAIN h : keys[k] = times[h[k]]
      OBVIOUS
    <3> HIDE DEF keys
    <3> QED
      BY <2>3, <3>2, <3>3, SeqFrom
  <2> HIDE DEF keys
  <2>5. Sorted(keys) /\ keys # <<>>
    <3>1. \A a, b \in DOMAIN keys : a < b => keys[a] <= keys[b]
      <4> SUFFICES ASSUME NEW a \in DOMAIN keys, NEW b \in DOMAIN keys, a < b
                   PROVE  keys[a] <= keys[b]
        OBVIOUS
      <4>1. h[a] < h[b] /\ h[a] \in 1 .. n /\ h[b] \in 1 .. n
        BY <2>3, <2>4
      <4>2. times[h[a]] < times[h[b]] /\ times[h[a]] \in Int /\ times[h[b]] \in Int
        BY <1>2, <4>1
      <4> QED
        BY <2>4, <4>2
    <3> QED
      BY <2>3, <2>4, <3>1 DEF Sorted
  <2>6. /\ i \in DOMAIN keys
        /\ \A k \in DOMAIN keys : Distance(keys[i], ts) <= Distance(keys[k], ts)
    BY <2>4, <2>5, NearestFinds
  <2> HIDE DEF i
  <2>7. h[i] \in Entries(t)
    BY <2>2, <2>4, <2>6
  <2>8. ASSUME NEW m \in Entries(t)
        PROVE  Distance(times[h[i]], ts) <= Distance(times[m], ts)
    <3>1. PICK k \in DOMAIN h : m = h[k]
      BY <2>2
    <3>2. keys[k] = times[m] /\ keys[i] = times[h[i]]
      BY <2>4, <2>6, <3>1
    <3> QED
      BY <2>4, <2>6, <3>2
  <2> QED
    BY <2>1, <2>7, <2>8 DEF Seeks, times
<1>4. CASE ~KeyFramed(t)
  <2>1. SeekOf(t, ts) = Nearest(times, ts)
    BY <1>4 DEF SeekOf
  <2>2. Entries(t) = DOMAIN times
    BY <1>4 DEF Entries
  <2> HIDE DEF times, n
  <2>3. Sorted(times) /\ times # <<>>
    BY <1>2 DEF Sorted
  <2>4. /\ Nearest(times, ts) \in DOMAIN times
        /\ \A k \in DOMAIN times :
             Distance(times[Nearest(times, ts)], ts) <= Distance(times[k], ts)
    BY <1>2, <2>3, NearestFinds
  <2> QED
    BY <2>1, <2>2, <2>4 DEF Seeks, times
<1> QED
  BY <1>3, <1>4

\* stss lists sync samples, or nothing.
LEMMA StssLists ==
  ASSUME NEW trk, Len(trk.samples) \in Nat
  PROVE  \E S : Lists(Stss(trk), S, Len(trk.samples))
<1> DEFINE n == Len(trk.samples)
<1>1. \A S : Lists(Ascending(S, n), S, n)
  BY AscendingLists
<1>2. Lists(<<>>, {}, n)
  BY DEF Lists
<1> HIDE DEF n
<1>3. \/ Stss(trk) = <<>>
      \/ \E S : Stss(trk) = Ascending(S, n)
  BY Zenon DEF Stss, n
<1> QED
  BY <1>1, <1>2, <1>3 DEF n

-----------------------------------------------------------------------------
(* A seek in a recording.                                                  *)

\* v is the only track with key frames, 0: there is none.
OnlyKeyed(traks, v) == \A i \in 1 .. Len(traks) : KeyFramed(traks[i]) <=> i = v

\* The time that the tracks without key frames seek.
TimeBehind(traks, v, ts) == IF v = 0 THEN ts ELSE Times(traks[v])[SyncSeek(traks[v], ts)]

\* With one such track at most, that track seeks the time that was asked for, and the
\* others that of its key frame.
LEMMA SeekToIs ==
  ASSUME NEW traks, NEW n \in Nat, DOMAIN traks = 1 .. n, Len(traks) = n,
         NEW v \in 0 .. n, OnlyKeyed(traks, v), NEW ts, NEW i \in 1 .. n
  PROVE  SeekTo(traks, ts)[i] = SeekOf(traks[i], IF i = v THEN ts ELSE TimeBehind(traks, v, ts))
<1> DEFINE Step(u) == [k \in 0 .. Len(traks) |->
                         IF k = 0 THEN ts
                         ELSE IF KeyFramed(traks[k]) THEN Times(traks[k])[SyncSeek(traks[k], u[k - 1])]
                         ELSE u[k - 1]]
           after == CHOOSE u : u = Step(u)
           end == TimeBehind(traks, v, ts)
           g == [k \in 0 .. n |-> IF v # 0 /\ v <= k THEN end ELSE ts]
<1>1. \A k \in 1 .. n : KeyFramed(traks[k]) <=> k = v
  BY DEF OnlyKeyed
<1>2. g[0] = ts /\ g[n] = end /\ g = [k \in 0 .. n |-> g[k]]
  BY DEF TimeBehind
<1>3. ASSUME NEW k \in 1 .. n
      PROVE  /\ k = v => g[k - 1] = ts /\ g[k] = Times(traks[k])[SyncSeek(traks[k], ts)]
             /\ k # v => g[k] = g[k - 1]
  <2>1. k - 1 \in 0 .. n /\ k \in 0 .. n
    OBVIOUS
  <2>2. k = v => end = Times(traks[k])[SyncSeek(traks[k], ts)]
    BY DEF TimeBehind
  <2> HIDE DEF end
  <2>3. /\ g[k] = IF v # 0 /\ v <= k THEN end ELSE ts
        /\ g[k - 1] = IF v # 0 /\ v <= k - 1 THEN end ELSE ts
    BY <2>1
  <2> HIDE DEF g
  <2> QED
    BY <2>2, <2>3
<1> HIDE DEF g, end
<1>4. g = Step(g)
  <2>1. \A k \in 0 .. n : k # 0 => k \in 1 .. n
    OBVIOUS
  <2>2. \A k \in 0 .. n :
          g[k] = IF k = 0 THEN ts
                 ELSE IF KeyFramed(traks[k]) THEN Times(traks[k])[SyncSeek(traks[k], g[k - 1])]
                 ELSE g[k - 1]
    BY <1>1, <1>2, <1>3, <2>1
  <2> QED
    BY <1>2, <2>2, Zenon
<1>5. after = Step(after)
  BY <1>4, Zenon DEF after
<1>6. after = g
  <2> HIDE DEF after
  <2>1. DOMAIN after = 0 .. n /\ after = [k \in 0 .. n |-> after[k]]
    BY <1>5
  <2>2. \A k \in 0 .. n :
          after[k] = IF k = 0 THEN ts
                     ELSE IF KeyFramed(traks[k]) THEN Times(traks[k])[SyncSeek(traks[k], after[k - 1])]
                     ELSE after[k - 1]
    BY <1>5, Zenon
  <2>3. 0 \in 0 .. n /\ \A k \in 1 .. n : k \in 0 .. n /\ k # 0
    OBVIOUS
  <2>4. after[0] = g[0]
    BY <1>2, <2>2, <2>3
  <2>5. \A k \in 1 .. n : after[k - 1] = g[k - 1] => after[k] = g[k]
    BY <1>1, <1>3, <2>2, <2>3
  <2>6. DOMAIN g = 0 .. n
    BY <1>2
  <2> QED
    BY <1>2, <2>1, <2>4, <2>5, <2>6, SameSteps
<1>7. SeekTo(traks, ts) =
        [k \in DOMAIN traks |-> IF KeyFramed(traks[k]) THEN SyncSeek(traks[k], after[k - 1])
                                ELSE Nearest(Times(traks[k]), after[Len(traks)])]
  BY Zenon DEF SeekTo
<1> HIDE DEF after
<1>8. SeekTo(traks, ts)[i] = IF i = v THEN SyncSeek(traks[i], g[i - 1]) ELSE Nearest(Times(traks[i]), g[n])
  BY <1>1, <1>6, <1>7
<1>9. i = v => g[i - 1] = ts
  BY <1>3
<1>10. KeyFramed(traks[i]) <=> i = v
  BY <1>1
<1> QED
  BY <1>2, <1>8, <1>9, <1>10 DEF SeekOf, end
=============================================================================

------------------------ MODULE RedisLimiter_proofs ------------------------
(***************************************************************************)
(* Theorems about the sliding window of the rate limiter.                  *)
(***************************************************************************)
EXTENDS RedisCoordination_proofs

(***************************************************************************)
(* Totals.                                                                 *)
(***************************************************************************)

\* What a total counts.
LEMMA EntriesElements ==
    ASSUME NEW f, NEW S, NEW e
    PROVE  e \in Entries(f, S) <=> \E a \in S : \E i \in 1..f[a] : e = <<a, i>>
BY DEF Entries

\* A total grows with its set and with its function.
LEMMA TotalMonotone ==
    ASSUME NEW f, NEW g, NEW S, NEW T, S \subseteq T,
           \A a \in S : f[a] \in Nat /\ g[a] \in Nat /\ f[a] <= g[a],
           IsFiniteSet(Entries(g, T))
    PROVE  /\ IsFiniteSet(Entries(f, S))
           /\ Total(f, S) \in Nat /\ Total(g, T) \in Nat
           /\ Total(f, S) <= Total(g, T)
<1>1. Entries(f, S) \subseteq Entries(g, T)
  <2> SUFFICES ASSUME NEW e, e \in Entries(f, S) PROVE e \in Entries(g, T)
    OBVIOUS
  <2>1. PICK a, i : a \in S /\ i \in 1..f[a] /\ e = <<a, i>>
    BY EntriesElements
  <2>2. i \in 1..g[a]
    BY <2>1
  <2>3. QED
    BY <2>1, <2>2, EntriesElements
<1>2. QED
  BY <1>1, FS_Subset, FS_CardinalityType DEF Total

\* An empty count.
LEMMA TotalZero ==
    ASSUME NEW f, NEW S, \A a \in S : f[a] = 0
    PROVE  IsFiniteSet(Entries(f, S)) /\ Total(f, S) = 0
<1>1. Entries(f, S) = {}
  <2> SUFFICES ASSUME NEW e, e \in Entries(f, S) PROVE FALSE
    OBVIOUS
  <2>1. PICK a, i : a \in S /\ i \in 1..f[a] /\ e = <<a, i>>
    BY EntriesElements
  <2>2. QED
    BY <2>1
<1>2. QED
  BY <1>1, FS_EmptySet DEF Total

\* g counts one more request than f, of age x.
OneMore(f, g, x, D) ==
    /\ f \in [D -> Nat] /\ g \in [D -> Nat] /\ x \in D
    /\ \A a \in D : g[a] = IF a = x THEN f[a] + 1 ELSE f[a]

\* One more at one age adds one to the totals that include the age.
LEMMA TotalIncrement ==
    ASSUME NEW D, NEW f, NEW g, NEW x, OneMore(f, g, x, D),
           NEW S \in SUBSET D, x \in S, IsFiniteSet(Entries(f, S))
    PROVE  /\ IsFiniteSet(Entries(g, S))
           /\ Total(f, S) \in Nat
           /\ Total(g, S) = Total(f, S) + 1
<1> DEFINE e == <<x, f[x] + 1>>
<1> USE DEF OneMore
<1>1. \A a \in S : a # x => g[a] = f[a]
  OBVIOUS
<1>2. e \notin Entries(f, S)
  <2> SUFFICES ASSUME e \in Entries(f, S) PROVE FALSE
    OBVIOUS
  <2>1. PICK a, i : a \in S /\ i \in 1..f[a] /\ e = <<a, i>>
    BY EntriesElements
  <2>2. QED
    BY <2>1
<1>3. Entries(g, S) = Entries(f, S) \cup {e}
  <2>1. g[x] = f[x] + 1 /\ f[x] \in Nat
    OBVIOUS
  <2>2. 1..g[x] = (1..f[x]) \cup {f[x] + 1}
    BY <2>1
  <2>3. ASSUME NEW d PROVE d \in Entries(g, S) <=> d \in Entries(f, S) \/ d = e
    <3>1. ASSUME NEW a \in S, NEW i \in 1..g[a], d = <<a, i>>
          PROVE  d \in Entries(f, S) \/ d = e
      <4>1. CASE a = x /\ i = f[x] + 1
        BY <3>1, <4>1
      <4>2. CASE ~ (a = x /\ i = f[x] + 1)
        <5>1. i \in 1..f[a]
          BY <1>1, <2>2, <3>1, <4>2
        <5>2. QED
          BY <3>1, <5>1, EntriesElements
      <4>3. QED
        BY <4>1, <4>2
    <3>2. ASSUME NEW a \in S, NEW i \in 1..f[a], d = <<a, i>>
          PROVE  d \in Entries(g, S)
      <4>1. i \in 1..g[a]
        BY <1>1, <2>2
      <4>2. QED
        BY <3>2, <4>1, EntriesElements
    <3>3. e \in Entries(g, S)
      <4>1. f[x] + 1 \in 1..g[x]
        BY <2>1
      <4>2. QED
        BY <4>1, EntriesElements
    <3>4. ASSUME d \in Entries(g, S) PROVE d \in Entries(f, S) \/ d = e
      <4>1. PICK a, i : a \in S /\ i \in 1..g[a] /\ d = <<a, i>>
        <5> HIDE DEF e
        <5>1. \E a \in S : \E i \in 1..g[a] : d = <<a, i>>
          BY <3>4 DEF Entries
        <5>2. QED
          BY <5>1, Zenon
      <4>2. QED
        BY <3>1, <4>1
    <3>5. ASSUME d \in Entries(f, S) PROVE d \in Entries(g, S)
      <4>1. PICK a, i : a \in S /\ i \in 1..f[a] /\ d = <<a, i>>
        <5> HIDE DEF e
        <5> QED
          BY <3>5, EntriesElements
      <4>2. QED
        BY <3>2, <4>1
    <3>6. QED
      BY <3>3, <3>4, <3>5
  <2>4. QED
    BY <2>3
<1>4. QED
  <2> HIDE DEF e
  <2>1. /\ IsFiniteSet(Entries(f, S) \cup {e})
        /\ Cardinality(Entries(f, S) \cup {e}) = Cardinality(Entries(f, S)) + 1
    BY <1>2, FS_AddElement
  <2>2. Cardinality(Entries(f, S)) \in Nat
    BY FS_CardinalityType
  <2>3. QED
    BY <1>3, <2>1, <2>2 DEF Total

\* A request of another age.
LEMMA TotalSame ==
    ASSUME NEW D, NEW f, NEW g, NEW x, OneMore(f, g, x, D),
           NEW S \in SUBSET D, x \notin S
    PROVE  Total(g, S) = Total(f, S)
<1>1. \A a \in S : g[a] = f[a]
  BY DEF OneMore
<1>2. QED
  BY <1>1 DEF Total, Entries

\* g is f when everything is a tick older.
Older(f, g, lo, hi) ==
    /\ f \in [lo..hi -> Nat] /\ g \in [lo..hi -> Nat]
    /\ \A a \in lo..hi : g[a] = IF a = lo THEN 0 ELSE f[a - 1]

\* A tick moves every count to the next age.
LEMMA TotalShift ==
    ASSUME NEW lo \in Int, NEW hi \in Int, NEW f, NEW g, Older(f, g, lo, hi),
           NEW n \in Int, n <= hi, IsFiniteSet(Entries(f, lo..hi))
    PROVE  /\ IsFiniteSet(Entries(g, lo..n))
           /\ Total(g, lo..n) \in Nat
           /\ Total(g, lo..n) = Total(f, lo..(n - 1))
<1> DEFINE F == Entries(f, lo..(n - 1))
           G == Entries(g, lo..n)
           older == [e \in F |-> <<e[1] + 1, e[2]>>]
<1> USE DEF Older
<1>1. IsFiniteSet(F)
  <2>1. /\ lo..(n - 1) \subseteq lo..hi
        /\ \A a \in lo..(n - 1) : f[a] \in Nat /\ f[a] <= f[a]
    OBVIOUS
  <2>2. QED
    BY <2>1, TotalMonotone
<1>2. \A e \in F : e[1] \in lo..(n - 1) /\ e[2] \in 1..f[e[1]] /\ e = <<e[1], e[2]>>
  <2> TAKE e \in F
  <2>1. e \in Entries(f, lo..(n - 1))
    OBVIOUS
  <2> HIDE DEF F
  <2>2. PICK a, i : a \in lo..(n - 1) /\ i \in 1..f[a] /\ e = <<a, i>>
    BY <2>1 DEF Entries
  <2>3. QED
    BY <2>2
<1>3. \A e \in F : older[e] \in G
  <2> TAKE e \in F
  <2>1. e[1] + 1 \in lo..n /\ e[1] + 1 # lo /\ e[1] + 1 \in lo..hi /\ e[1] + 1 - 1 = e[1]
    BY <1>2
  <2>2. e[2] \in 1..g[e[1] + 1]
    BY <1>2, <2>1
  <2>3. QED
    BY <2>1, <2>2, EntriesElements
<1>4. ASSUME NEW d \in F, NEW e \in F, older[d] = older[e] PROVE d = e
  <2>1. d[1] + 1 = e[1] + 1 /\ d[2] = e[2]
    BY <1>4
  <2>2. d[1] = e[1]
    BY <1>2, <2>1
  <2>3. QED
    BY <1>2, <2>1, <2>2
<1>5. ASSUME NEW d \in G PROVE \E e \in F : older[e] = d
  <2>1. PICK a, i : a \in lo..n /\ i \in 1..g[a] /\ d = <<a, i>>
    BY EntriesElements
  <2>2. a # lo /\ a \in lo..hi /\ a - 1 \in lo..(n - 1) /\ g[a] = f[a - 1]
    BY <2>1
  <2>3. <<a - 1, i>> \in F
    BY <2>1, <2>2, EntriesElements
  <2>4. older[<<a - 1, i>>] = <<a, i>>
    <3>1. older[<<a - 1, i>>] = <<a - 1 + 1, i>>
      BY <2>3
    <3>2. a - 1 + 1 = a
      BY <2>2
    <3>3. QED
      <4> HIDE DEF older
      <4> QED
        BY <3>1, <3>2
  <2>5. QED
    BY <2>1, <2>3, <2>4
<1>6. older \in Bijection(F, G)
  <2> HIDE DEF F, G
  <2>1. older \in [F -> G]
    BY <1>3
  <2> HIDE DEF older
  <2>2. QED
    BY <1>4, <1>5, <2>1 DEF Bijection, Injection, Surjection, IsInjective
<1>7. IsFiniteSet(G) /\ Cardinality(G) = Cardinality(F)
  <2> HIDE DEF F, G, older
  <2> QED
    BY <1>1, <1>6, FS_Bijection DEF ExistsBijection
<1>8. QED
  BY <1>7, FS_CardinalityType DEF Total

(***************************************************************************)
(* Totals up to an age.                                                    *)
(***************************************************************************)

\* Totals up to an age, from the lemmas on totals: more at each age is more,
LEMMA UpToMonotone ==
    ASSUME NEW D \in SUBSET Int, NEW f \in [D -> Nat], NEW g \in [D -> Nat], IsFiniteSet(Entries(g, D)),
           NEW m \in Int, NEW n \in Int, m <= n, \A a \in D : a <= m => f[a] <= g[a]
    PROVE  UpTo(f, m) \in Nat /\ UpTo(g, n) \in Nat /\ UpTo(f, m) <= UpTo(g, n)
<1> DEFINE S == {a \in D : a <= m}
           T == {a \in D : a <= n}
<1>1. S \subseteq T /\ T \subseteq D
  <2>1. ASSUME NEW a \in S PROVE a \in D /\ a <= n
    <3>1. a \in D /\ a \in Int /\ a <= m
      OBVIOUS
    <3>2. QED
      BY <3>1
  <2>2. QED
    BY <2>1
<1>2. DOMAIN f = D /\ DOMAIN g = D
  OBVIOUS
<1>3. UpTo(f, m) = Total(f, S) /\ UpTo(g, n) = Total(g, T)
  BY <1>2 DEF UpTo
<1>4. ASSUME NEW a \in S PROVE f[a] \in Nat /\ g[a] \in Nat /\ f[a] <= g[a]
  <2>1. a \in D /\ a <= m
    OBVIOUS
  <2>2. QED
    BY <2>1
<1>5. \A a \in T : g[a] \in Nat /\ g[a] <= g[a]
  OBVIOUS
<1>6. QED
  <2> HIDE DEF S, T
  <2>1. IsFiniteSet(Entries(g, T))
    BY <1>1, <1>5, TotalMonotone
  <2>2. QED
    BY <1>1, <1>3, <1>4, <2>1, TotalMonotone

\* one more at an age up to n adds one,
LEMMA UpToIncrement ==
    ASSUME NEW D, NEW f, NEW g, NEW x, OneMore(f, g, x, D),
           IsFiniteSet(Entries(f, D)), NEW n \in Int
    PROVE  /\ IsFiniteSet(Entries(g, D))
           /\ UpTo(g, n) = UpTo(f, n) + (IF x <= n THEN 1 ELSE 0)
<1> DEFINE S == {a \in D : a <= n}
<1>1. (x \in S <=> x <= n) /\ S \in SUBSET D
  BY DEF OneMore
<1>2. DOMAIN f = D /\ DOMAIN g = D
  BY DEF OneMore
<1>3. UpTo(f, n) = Total(f, S) /\ UpTo(g, n) = Total(g, S)
  BY <1>2 DEF UpTo
<1>4. \A a \in S : f[a] \in Nat /\ f[a] <= f[a]
  BY DEF OneMore
<1>5. QED
  <2> HIDE DEF S
  <2>1. IsFiniteSet(Entries(f, S))
    BY <1>1, <1>4, TotalMonotone
  <2>2. S \in SUBSET D
    BY <1>1
  <2>3. IsFiniteSet(Entries(g, D))
    <3>1. x \in D
      BY DEF OneMore
    <3>2. QED
      BY <3>1, TotalIncrement
  <2>4. ASSUME x \in S PROVE Total(g, S) = Total(f, S) + 1
    BY <2>1, <2>2, <2>4, TotalIncrement
  <2>5. ASSUME x \notin S PROVE Total(g, S) = Total(f, S)
    BY <2>2, <2>5, TotalSame
  <2>6. Total(f, S) \in Nat
    BY <2>1, FS_CardinalityType DEF Total
  <2>7. QED
    BY <1>1, <1>3, <2>3, <2>4, <2>5, <2>6

\* a tick moves the totals,
LEMMA UpToShift ==
    ASSUME NEW lo \in Int, NEW hi \in Int, NEW f, NEW g, Older(f, g, lo, hi),
           NEW n \in Int, n <= hi, IsFiniteSet(Entries(f, lo..hi))
    PROVE  /\ IsFiniteSet(Entries(g, lo..hi))
           /\ UpTo(g, n) = UpTo(f, n - 1)
<1>1. {a \in lo..hi : a <= n} = lo..n /\ {a \in lo..hi : a <= n - 1} = lo..(n - 1)
  OBVIOUS
<1>2. DOMAIN f = lo..hi /\ DOMAIN g = lo..hi
  BY DEF Older
<1>3. UpTo(g, n) = Total(g, lo..n) /\ UpTo(f, n - 1) = Total(f, lo..(n - 1))
  BY <1>1, <1>2 DEF UpTo
<1>4. Total(g, lo..n) = Total(f, lo..(n - 1))
  BY TotalShift
<1>5. IsFiniteSet(Entries(g, lo..hi))
  <2>1. hi <= hi
    OBVIOUS
  <2>2. QED
    BY <2>1, TotalShift
<1>6. QED
  BY <1>3, <1>4, <1>5

\* and nothing totals zero.
LEMMA UpToZero ==
    ASSUME NEW D, NEW f \in [D -> Nat], \A a \in D : f[a] = 0
    PROVE  IsFiniteSet(Entries(f, D)) /\ \A n \in Int : UpTo(f, n) = 0
<1>1. IsFiniteSet(Entries(f, D))
  BY TotalZero
<1>2. ASSUME NEW n \in Int PROVE UpTo(f, n) = 0
  <2>1. \A a \in {b \in DOMAIN f : b <= n} : f[a] = 0
    OBVIOUS
  <2>2. QED
    BY <2>1, TotalZero DEF UpTo
<1>3. QED
  BY <1>1, <1>2

-----------------------------------------------------------------------------
(***************************************************************************)
(* The inductive invariant of the limiter.                                 *)
(***************************************************************************)

\* What the totals count is finite.
Finite == IsFiniteSet(Entries(zset, Age)) /\ IsFiniteSet(Entries(passed, Past))

LInv ==
    /\ Finite
    /\ PassedAreCounted
    /\ CountedWithinLimit
    /\ QuietSinceExpire
    /\ CountedHavePassed

\* A total of f up to any age is a natural number, and grows with the age.
Counts(f) ==
    /\ \A n \in Int : UpTo(f, n) \in Nat
    /\ \A m, n \in Int : m <= n => UpTo(f, m) <= UpTo(f, n)

\* Finite counts have natural totals.
LEMMA FunctionCounts ==
    ASSUME NEW D \in SUBSET Int, NEW f \in [D -> Nat], IsFiniteSet(Entries(f, D))
    PROVE  Counts(f)
<1>1. \A a \in D : f[a] <= f[a]
  OBVIOUS
<1>2. ASSUME NEW m \in Int, NEW n \in Int, m <= n
      PROVE  UpTo(f, m) \in Nat /\ UpTo(f, n) \in Nat /\ UpTo(f, m) <= UpTo(f, n)
  BY <1>1, <1>2, UpToMonotone
<1>3. \A n \in Int : n <= n
  OBVIOUS
<1>4. QED
  BY <1>2, <1>3 DEF Counts

\* The ages are integers.
LEMMA AgesAreIntervals ==
    /\ Age = (-MaxSkew)..(Window + MaxSkew - 1) /\ Age \subseteq Int
    /\ Past = 0..(Window + MaxSkew - 1) /\ Past \subseteq Int
    /\ -MaxSkew \in Int /\ Window + MaxSkew - 1 \in Int /\ 0 \in Int
BY SkewBound, RedisAssumption DEF Age, Past

\* So have the two counts of the model.
LEMMA StateCounts == TypeOK /\ Finite => Counts(zset) /\ Counts(passed)
<1> SUFFICES ASSUME TypeOK, Finite PROVE Counts(zset) /\ Counts(passed)
  OBVIOUS
<1>1. zset \in [Age -> Nat] /\ passed \in [Past -> Nat]
  BY DEF TypeOK
<1>2. Counts(zset)
  BY <1>1, AgesAreIntervals, FunctionCounts DEF Finite
<1>3. Counts(passed)
  BY <1>1, AgesAreIntervals, FunctionCounts DEF Finite
<1>4. QED
  BY <1>2, <1>3

\* Process p removes what is outside of its window, and nothing else.
LEMMA PurgedCounts ==
    ASSUME TypeOK, Finite, NEW p \in Process
    PROVE  /\ Purged(p) \in [Age -> Nat]
           /\ IsFiniteSet(Entries(Purged(p), Age))
           /\ Counts(Purged(p))
           /\ \A n \in Int : UpTo(Purged(p), n) <= UpTo(zset, n)
           /\ \A n \in Int : n < Window - Skew[p] => UpTo(Purged(p), n) = UpTo(zset, n)
<1>1. zset \in [Age -> Nat] /\ Purged(p) \in [Age -> Nat] /\ IsFiniteSet(Entries(zset, Age))
  BY DEF TypeOK, Purged, Finite
<1>2. \A a \in Age : Purged(p)[a] \in Nat /\ zset[a] \in Nat /\ Purged(p)[a] <= zset[a]
  BY <1>1 DEF Purged
<1>3. IsFiniteSet(Entries(Purged(p), Age))
  BY <1>1, <1>2, TotalMonotone
<1>4. Counts(Purged(p))
  BY <1>1, <1>3, AgesAreIntervals, FunctionCounts
<1>5. ASSUME NEW n \in Int PROVE UpTo(Purged(p), n) <= UpTo(zset, n)
  BY <1>1, <1>2, AgesAreIntervals, UpToMonotone
<1>6. ASSUME NEW n \in Int, \A a \in Age : a <= n => zset[a] <= Purged(p)[a]
      PROVE  UpTo(zset, n) <= UpTo(Purged(p), n)
  <2>1. \A a \in Age : a \in Int /\ (a <= n => zset[a] \in Nat /\ Purged(p)[a] \in Nat /\ zset[a] <= Purged(p)[a])
    BY <1>2, <1>6, AgesAreIntervals
  <2>2. n <= n
    OBVIOUS
  <2>3. QED
    BY <1>1, <1>3, <2>1, <2>2, AgesAreIntervals, UpToMonotone
<1>7. ASSUME NEW n \in Int, n < Window - Skew[p] PROVE UpTo(Purged(p), n) = UpTo(zset, n)
  <2>1. ASSUME NEW a \in Age, a <= n PROVE zset[a] <= Purged(p)[a]
    <3>1. a \in Int /\ Skew[p] \in Int /\ Window \in Int /\ zset[a] \in Nat
      BY <1>1, SkewBound, AgesAreIntervals, RedisAssumption
    <3>2. a \in InWindow(p)
      BY <1>7, <2>1, <3>1 DEF InWindow
    <3>3. QED
      BY <1>1, <3>1, <3>2 DEF Purged
  <2>2. UpTo(zset, n) <= UpTo(Purged(p), n)
    BY <1>6, <2>1
  <2>3. UpTo(zset, n) \in Nat /\ UpTo(Purged(p), n) \in Nat
    BY <1>4, StateCounts DEF Counts
  <2>4. QED
    BY <1>5, <2>2, <2>3
<1>8. QED
  BY <1>1, <1>3, <1>4, <1>5, <1>7

\* ZADD counts one more, at the age that the clock of p makes it.
LEMMA AllowCounts ==
    ASSUME TypeOK, Finite, NEW p \in Process, Allow(p)
    PROVE  /\ IsFiniteSet(Entries(zset', Age))
           /\ \A n \in Int : UpTo(zset', n) = UpTo(Purged(p), n) + (IF -Skew[p] <= n THEN 1 ELSE 0)
<1>1. Purged(p) \in [Age -> Nat] /\ IsFiniteSet(Entries(Purged(p), Age))
  BY PurgedCounts
<1>2. OneMore(Purged(p), zset', -Skew[p], Age)
  BY <1>1, AgesExist DEF Allow, OneMore
<1>3. QED
  BY <1>1, <1>2, UpToIncrement

\* A request passes now.
LEMMA PassCounts ==
    ASSUME TypeOK, Finite, Pass
    PROVE  /\ IsFiniteSet(Entries(passed', Past))
           /\ \A n \in Int : UpTo(passed', n) = UpTo(passed, n) + (IF 0 <= n THEN 1 ELSE 0)
<1>1. passed \in [Past -> Nat] /\ IsFiniteSet(Entries(passed, Past))
  BY DEF TypeOK, Finite
<1>2. OneMore(passed, passed', 0, Past)
  BY <1>1, AgesExist DEF Pass, OneMore
<1>3. QED
  BY <1>1, <1>2, UpToIncrement

\* The script compares what is within the window of the process that asks.
LEMMA FullCounts ==
    ASSUME TypeOK, NEW p \in Process
    PROVE  Full(p) <=> UpTo(zset, Window - Skew[p] - 1) >= MaxAllowed
<1>1. DOMAIN zset = Age
  BY DEF TypeOK
<1>2. InWindow(p) = {a \in Age : a <= Window - Skew[p] - 1}
  BY SkewBound, AgesAreIntervals, RedisAssumption DEF InWindow
<1>3. QED
  BY <1>1, <1>2 DEF Full, UpTo

-----------------------------------------------------------------------------
(***************************************************************************)
(* The steps.                                                              *)
(***************************************************************************)

\* The numbers that the steps compare.
LEMMA Numbers ==
    /\ Window \in Nat \ {0} /\ MaxSkew \in Nat /\ MaxSkew < Window /\ MaxAllowed \in Nat
    /\ \A p \in Process : Skew[p] \in Nat /\ Skew[p] <= MaxSkew
    /\ TypeOK => faults \in Nat /\ zsetTtl \in 0..Window
BY SkewBound, RedisAssumption DEF TypeOK

\* A request that passes was below the limit and is counted.
LEMMA AllowKeepsLimit ==
    ASSUME TypeOK, LInv, NEW p \in Process, Allow(p)
    PROVE  LInv'
<1> DEFINE s == Skew[p]
           W == Window
           M == MaxSkew
<1>1. /\ W \in Nat \ {0} /\ M \in Nat /\ M < W /\ s \in Nat /\ s <= M
      /\ MaxAllowed \in Nat /\ faults \in Nat
  BY Numbers
<1>2. Finite /\ Counts(zset) /\ Counts(passed) /\ Pass /\ ~Full(p)
  BY StateCounts DEF LInv, Allow
<1>3. faults' = faults /\ zsetTtl' = W
  BY DEF Allow
<1>4. \A n \in Int : n >= 0 => UpTo(passed', n) = UpTo(passed, n) + 1
  BY <1>2, PassCounts
<1>5. \A n \in Int : -s <= n /\ n < W - s => UpTo(zset', n) = UpTo(zset, n) + 1
  BY <1>2, AllowCounts, PurgedCounts
<1>6. \A n \in Int : UpTo(zset', n) <= UpTo(zset, n) + 1
  <2> TAKE n \in Int
  <2>1. UpTo(Purged(p), n) \in Nat /\ UpTo(zset, n) \in Nat /\ UpTo(Purged(p), n) <= UpTo(zset, n)
    BY <1>2, PurgedCounts DEF Counts
  <2>2. UpTo(zset', n) = UpTo(Purged(p), n) + (IF -s <= n THEN 1 ELSE 0)
    BY <1>2, AllowCounts
  <2>3. QED
    BY <2>1, <2>2
<1>7. Finite'
  BY <1>2, AllowCounts, PassCounts DEF Finite, Age, Past
<1>8. PassedAreCounted'
  <2> SUFFICES ASSUME NEW n \in 0..(W - M - 1) PROVE UpTo(passed', n) <= UpTo(zset', n) + faults'
    BY DEF PassedAreCounted
  <2>1. n \in Int /\ n >= 0 /\ -s <= n /\ n < W - s
    BY <1>1
  <2>2. UpTo(passed, n) <= UpTo(zset, n) + faults
    BY DEF LInv, PassedAreCounted
  <2>3. UpTo(passed, n) \in Nat /\ UpTo(zset, n) \in Nat
    BY <1>2, <2>1 DEF Counts
  <2>4. QED
    BY <1>1, <1>3, <1>4, <1>5, <2>1, <2>2, <2>3
<1>9. CountedWithinLimit'
  <2>1. W - M - 1 \in Int /\ W - s - 1 \in Int /\ W - M - 1 <= W - s - 1
    BY <1>1
  <2>2. UpTo(zset, W - s - 1) < MaxAllowed
    <3>1. UpTo(zset, W - s - 1) \in Nat
      BY <1>2, <2>1 DEF Counts
    <3>2. ~ (UpTo(zset, W - s - 1) >= MaxAllowed)
      BY <1>2, FullCounts
    <3>3. QED
      BY <1>1, <3>1, <3>2
  <2>3. /\ UpTo(zset, W - M - 1) \in Nat /\ UpTo(zset, W - s - 1) \in Nat
        /\ UpTo(zset, W - M - 1) <= UpTo(zset, W - s - 1)
    BY <1>2, <2>1 DEF Counts
  <2>4. UpTo(zset', W - M - 1) = UpTo(zset, W - M - 1) + 1
    BY <1>1, <1>5, <2>1
  <2>5. QED
    BY <1>1, <2>2, <2>3, <2>4 DEF CountedWithinLimit
<1>10. QuietSinceExpire'
  BY <1>1, <1>3, AgesAreIntervals DEF QuietSinceExpire, Past
<1>11. CountedHavePassed'
  <2> SUFFICES ASSUME NEW n \in (-M)..(W - 1) PROVE UpTo(zset', n) <= UpTo(passed', n + M)
    BY DEF CountedHavePassed
  <2>1. n \in Int /\ n + M \in Int /\ n + M >= 0
    BY <1>1
  <2>2. UpTo(zset, n) <= UpTo(passed, n + M)
    BY DEF LInv, CountedHavePassed
  <2>3. UpTo(passed, n + M) \in Nat /\ UpTo(zset, n) \in Nat
    BY <1>2, <2>1 DEF Counts
  <2>4. UpTo(passed', n + M) = UpTo(passed, n + M) + 1
    BY <1>4, <2>1
  <2>5. UpTo(zset', n) <= UpTo(zset, n) + 1 /\ UpTo(zset', n) \in Int
    <3>1. UpTo(Purged(p), n) \in Nat
      BY <1>2, <2>1, PurgedCounts DEF Counts
    <3>2. QED
      BY <1>2, <1>6, <2>1, <3>1, AllowCounts
  <2>6. QED
    BY <2>2, <2>3, <2>4, <2>5
<1>12. QED
  BY <1>7, <1>8, <1>9, <1>10, <1>11 DEF LInv

\* Nothing is added to the sorted set; a request may pass, by a fault.
LEMMA NoEntryKeepsLimit ==
    ASSUME TypeOK, LInv, NEW p \in Process, zset' = Purged(p) \/ zset' = zset,
           zsetTtl' = zsetTtl \/ zsetTtl' = Window,
           (passed' = passed /\ faults' = faults) \/ (Pass /\ faults' = faults + 1)
    PROVE  LInv'
<1> DEFINE W == Window
           M == MaxSkew
<1>1. /\ W \in Nat \ {0} /\ M \in Nat /\ M < W /\ Skew[p] \in Nat /\ Skew[p] <= M
      /\ MaxAllowed \in Nat /\ faults \in Nat /\ zsetTtl \in 0..W
  BY Numbers
<1>2. Finite /\ Counts(zset) /\ Counts(passed)
  BY StateCounts DEF LInv
<1>3. /\ IsFiniteSet(Entries(zset', Age))
      /\ \A n \in Int : UpTo(zset', n) \in Nat /\ UpTo(zset', n) <= UpTo(zset, n)
      /\ \A n \in Int : n < W - Skew[p] => UpTo(zset', n) = UpTo(zset, n)
  <2>1. CASE zset' = zset
    BY <1>2, <2>1 DEF Counts, Finite
  <2>2. CASE zset' = Purged(p)
    BY <1>2, <2>2, PurgedCounts DEF Counts
  <2>3. QED
    BY <2>1, <2>2
<1>4. /\ IsFiniteSet(Entries(passed', Past)) /\ faults' \in Nat
      /\ \A n \in Int : /\ UpTo(passed', n) \in Nat
                        /\ UpTo(passed', n) >= UpTo(passed, n)
                        /\ UpTo(passed', n) - faults' <= UpTo(passed, n) - faults
  <2>1. CASE passed' = passed /\ faults' = faults
    <3>1. \A n \in Int : UpTo(passed, n) \in Nat
      BY <1>2 DEF Counts
    <3>2. QED
      BY <1>1, <1>2, <2>1, <3>1 DEF Finite
  <2>2. CASE Pass /\ faults' = faults + 1
    <3>1. IsFiniteSet(Entries(passed', Past))
      BY <1>2, <2>2, PassCounts
    <3>2. ASSUME NEW n \in Int
          PROVE  /\ UpTo(passed', n) \in Nat
                 /\ UpTo(passed', n) >= UpTo(passed, n)
                 /\ UpTo(passed', n) - faults' <= UpTo(passed, n) - faults
      <4>1. UpTo(passed, n) \in Nat
        BY <1>2 DEF Counts
      <4>2. UpTo(passed', n) = UpTo(passed, n) + (IF 0 <= n THEN 1 ELSE 0)
        BY <1>2, <2>2, PassCounts
      <4>3. QED
        BY <1>1, <2>2, <4>1, <4>2
    <3>3. QED
      BY <1>1, <2>2, <3>1, <3>2
  <2>3. QED
    BY <2>1, <2>2
<1>5. \A n \in Int : UpTo(passed, n) \in Nat /\ UpTo(zset, n) \in Nat
  BY <1>2 DEF Counts
<1>6. Finite'
  BY <1>3, <1>4 DEF Finite, Age, Past
<1>7. PassedAreCounted'
  <2> SUFFICES ASSUME NEW n \in 0..(W - M - 1) PROVE UpTo(passed', n) <= UpTo(zset', n) + faults'
    BY DEF PassedAreCounted
  <2>1. n \in Int /\ n < W - Skew[p]
    BY <1>1
  <2>2. UpTo(passed, n) <= UpTo(zset, n) + faults
    BY DEF LInv, PassedAreCounted
  <2>3. QED
    BY <1>1, <1>3, <1>4, <1>5, <2>1, <2>2
<1>8. CountedWithinLimit'
  <2>1. W - M - 1 \in Int
    BY <1>1
  <2>2. UpTo(zset, W - M - 1) <= MaxAllowed
    BY DEF LInv, CountedWithinLimit
  <2>3. QED
    BY <1>1, <1>3, <1>5, <2>1, <2>2 DEF CountedWithinLimit
<1>9. QuietSinceExpire'
  <2> SUFFICES ASSUME NEW n \in Past, n < W - zsetTtl' PROVE UpTo(passed', n) <= faults'
    BY DEF QuietSinceExpire, Past
  <2>1. n \in Int /\ n >= 0
    BY AgesAreIntervals
  <2>2. zsetTtl' = zsetTtl
    BY <1>1, <2>1
  <2>3. UpTo(passed, n) <= faults
    BY <2>2 DEF LInv, QuietSinceExpire
  <2>4. QED
    BY <1>1, <1>4, <1>5, <2>1, <2>3
<1>10. CountedHavePassed'
  <2> SUFFICES ASSUME NEW n \in (-M)..(W - 1) PROVE UpTo(zset', n) <= UpTo(passed', n + M)
    BY DEF CountedHavePassed
  <2>1. n \in Int /\ n + M \in Int
    BY <1>1
  <2>2. UpTo(zset, n) <= UpTo(passed, n + M)
    BY DEF LInv, CountedHavePassed
  <2>3. QED
    BY <1>3, <1>4, <1>5, <2>1, <2>2
<1>11. QED
  BY <1>6, <1>7, <1>8, <1>9, <1>10 DEF LInv

\* Everything is a tick older; the sorted set may expire.
LEMMA TickKeepsLimit == ASSUME TypeOK, LInv, Tick PROVE LInv'
<1> DEFINE W == Window
           M == MaxSkew
           H == W + M - 1
<1>1. /\ W \in Nat \ {0} /\ M \in Nat /\ M < W /\ MaxAllowed \in Nat /\ faults \in Nat
      /\ zsetTtl \in 0..W /\ faults' = faults
  BY Numbers DEF Tick
<1>2. Finite /\ Counts(zset) /\ Counts(passed)
  BY StateCounts DEF LInv
<1>3. zset \in [Age -> Nat] /\ passed \in [Past -> Nat]
  BY DEF TypeOK
<1>4. \A n \in Int : UpTo(passed, n) \in Nat /\ UpTo(zset, n) \in Nat
  BY <1>2 DEF Counts
<1>5. /\ IsFiniteSet(Entries(passed', Past))
      /\ \A n \in Int : n <= H => UpTo(passed', n) = UpTo(passed, n - 1)
  <2>1. passed' = [a \in Past |-> IF a = 0 THEN 0 ELSE passed[a - 1]]
    BY DEF Tick
  <2>2. \A a \in Past : a # 0 => a - 1 \in Past
    BY <1>1, AgesAreIntervals
  <2>3. passed' \in [Past -> Nat]
    BY <1>3, <2>1, <2>2
  <2>4. Older(passed, passed', 0, H)
    BY <1>3, <2>1, <2>3, AgesAreIntervals DEF Older
  <2>5. IsFiniteSet(Entries(passed, 0..H))
    BY <1>2, AgesAreIntervals DEF Finite
  <2>6. H <= H /\ 0 \in Int /\ H \in Int
    BY <1>1
  <2>7. IsFiniteSet(Entries(passed', 0..H))
    BY <2>4, <2>5, <2>6, UpToShift
  <2>8. ASSUME NEW n \in Int, n <= H PROVE UpTo(passed', n) = UpTo(passed, n - 1)
    BY <2>4, <2>5, <2>6, <2>8, UpToShift
  <2>9. QED
    BY <2>7, <2>8, AgesAreIntervals
<1>6. \/ /\ zsetTtl' = 0
         /\ IsFiniteSet(Entries(zset', Age))
         /\ \A n \in Int : UpTo(zset', n) = 0
      \/ /\ zsetTtl > 0 /\ zsetTtl' = zsetTtl - 1 /\ zsetTtl' > 0
         /\ IsFiniteSet(Entries(zset', Age))
         /\ \A n \in Int : n <= H => UpTo(zset', n) = UpTo(zset, n - 1)
  <2>1. zset' = [a \in Age |-> IF zsetTtl' = 0 \/ a - 1 \notin Age THEN 0 ELSE zset[a - 1]]
    BY DEF Tick
  <2>2. zset' \in [Age -> Nat]
    BY <1>3, <2>1
  <2>3. CASE zsetTtl' = 0
    <3>1. \A a \in Age : zset'[a] = 0
      BY <2>1, <2>3
    <3>2. QED
      BY <2>2, <2>3, <3>1, UpToZero
  <2>4. CASE zsetTtl' # 0
    <3>1. \A a \in Age : a - 1 \in Age <=> a # -M
      BY <1>1, AgesAreIntervals
    <3>2. \A a \in Age : zset'[a] = IF a = -M THEN 0 ELSE zset[a - 1]
      BY <2>1, <2>4, <3>1
    <3>3. Older(zset, zset', -M, H)
      BY <1>3, <2>2, <3>2, AgesAreIntervals DEF Older
    <3>4. IsFiniteSet(Entries(zset, (-M)..H))
      BY <1>2, AgesAreIntervals DEF Finite
    <3>5. H <= H /\ -M \in Int /\ H \in Int
      BY <1>1
    <3>6. IsFiniteSet(Entries(zset', (-M)..H))
      BY <3>3, <3>4, <3>5, UpToShift
    <3>7. ASSUME NEW n \in Int, n <= H PROVE UpTo(zset', n) = UpTo(zset, n - 1)
      BY <3>3, <3>4, <3>5, <3>7, UpToShift
    <3>8. zsetTtl > 0 /\ zsetTtl' = zsetTtl - 1 /\ zsetTtl' > 0
      BY <1>1, <2>4 DEF Tick
    <3>9. QED
      BY <3>6, <3>7, <3>8, AgesAreIntervals
  <2>5. QED
    BY <2>3, <2>4
<1>7. UpTo(passed, -1) = 0 /\ UpTo(zset, -M - 1) = 0
  <2>1. {a \in DOMAIN passed : a <= -1} = {}
    BY <1>3, AgesAreIntervals
  <2>2. {a \in DOMAIN zset : a <= -M - 1} = {}
    BY <1>1, <1>3, AgesAreIntervals
  <2>3. Total(passed, {}) = 0 /\ Total(zset, {}) = 0
    BY TotalZero
  <2>4. QED
    BY <2>1, <2>2, <2>3 DEF UpTo
<1>8. Finite'
  BY <1>5, <1>6 DEF Finite, Age, Past
<1>9. QuietSinceExpire'
  <2> SUFFICES ASSUME NEW n \in Past, n < W - zsetTtl' PROVE UpTo(passed', n) <= faults'
    BY DEF QuietSinceExpire, Past
  <2>1. n \in Int /\ n >= 0 /\ n <= H /\ n - 1 \in Int
    BY <1>1, AgesAreIntervals
  <2>2. UpTo(passed', n) = UpTo(passed, n - 1)
    BY <1>5, <2>1
  <2>3. CASE n = 0
    BY <1>1, <1>7, <2>2, <2>3
  <2>4. CASE n # 0
    <3>1. n - 1 \in Past
      BY <1>1, <2>1, <2>4, AgesAreIntervals
    <3>2. n - 1 < W - zsetTtl
      BY <1>1, <2>1 DEF Tick
    <3>3. UpTo(passed, n - 1) <= faults
      BY <3>1, <3>2 DEF LInv, QuietSinceExpire
    <3>4. QED
      BY <1>1, <2>2, <3>3
  <2>5. QED
    BY <2>3, <2>4
<1>10. PassedAreCounted'
  <2> SUFFICES ASSUME NEW n \in 0..(W - M - 1) PROVE UpTo(passed', n) <= UpTo(zset', n) + faults'
    BY DEF PassedAreCounted
  <2>1. n \in Int /\ n >= 0 /\ n <= H /\ n - 1 \in Int /\ n \in Past /\ n < W
    BY <1>1, AgesAreIntervals
  <2>2. UpTo(passed', n) = UpTo(passed, n - 1)
    BY <1>5, <2>1
  <2>3. CASE zsetTtl' = 0
    <3>1. n < W - zsetTtl'
      BY <1>1, <2>1, <2>3
    <3>2. UpTo(passed', n) <= faults'
      BY <1>9, <2>1, <3>1 DEF QuietSinceExpire, Past
    <3>3. UpTo(passed', n) \in Nat /\ UpTo(zset', n) = 0
      BY <1>4, <1>6, <2>1, <2>2, <2>3
    <3>4. QED
      BY <1>1, <3>2, <3>3
  <2>4. CASE zsetTtl' # 0
    <3>1. UpTo(zset', n) = UpTo(zset, n - 1)
      BY <1>6, <2>1, <2>4
    <3>2. UpTo(zset, n - 1) \in Nat
      BY <1>4, <2>1
    <3>3. CASE n = 0
      BY <1>1, <1>7, <2>2, <3>1, <3>2, <3>3
    <3>4. CASE n # 0
      <4>1. n - 1 \in 0..(W - M - 1)
        BY <1>1, <2>1, <3>4
      <4>2. UpTo(passed, n - 1) <= UpTo(zset, n - 1) + faults
        BY <4>1 DEF LInv, PassedAreCounted
      <4>3. QED
        BY <1>1, <2>2, <3>1, <4>2
    <3>5. QED
      BY <3>3, <3>4
  <2>5. QED
    BY <2>3, <2>4
<1>11. CountedWithinLimit'
  <2>1. W - M - 1 \in Int /\ W - M - 2 \in Int /\ W - M - 1 <= H /\ W - M - 1 - 1 = W - M - 2
    BY <1>1
  <2>2. CASE zsetTtl' = 0
    BY <1>1, <1>6, <2>1, <2>2 DEF CountedWithinLimit
  <2>3. CASE zsetTtl' # 0
    <3>1. UpTo(zset', W - M - 1) = UpTo(zset, W - M - 2)
      BY <1>6, <2>1, <2>3
    <3>2. UpTo(zset, W - M - 2) <= UpTo(zset, W - M - 1)
      BY <1>1, <1>2, <2>1 DEF Counts
    <3>3. UpTo(zset, W - M - 1) <= MaxAllowed
      BY DEF LInv, CountedWithinLimit
    <3>4. QED
      BY <1>1, <1>4, <2>1, <3>1, <3>2, <3>3 DEF CountedWithinLimit
  <2>4. QED
    BY <2>2, <2>3
<1>12. CountedHavePassed'
  <2> SUFFICES ASSUME NEW n \in (-M)..(W - 1) PROVE UpTo(zset', n) <= UpTo(passed', n + M)
    BY DEF CountedHavePassed
  <2>1. /\ n \in Int /\ n <= H /\ n - 1 \in Int /\ n + M \in Int /\ n + M <= H
        /\ n + M - 1 \in Int
    BY <1>1
  <2>2. UpTo(passed', n + M) = UpTo(passed, n + M - 1)
    BY <1>1, <1>5, <2>1
  <2>3. UpTo(passed, n + M - 1) \in Nat
    BY <1>4, <2>1
  <2>4. CASE zsetTtl' = 0
    BY <1>6, <2>1, <2>2, <2>3, <2>4
  <2>5. CASE zsetTtl' # 0
    <3>1. UpTo(zset', n) = UpTo(zset, n - 1)
      BY <1>6, <2>1, <2>5
    <3>2. CASE n = -M
      BY <1>7, <2>2, <2>3, <3>1, <3>2
    <3>3. CASE n # -M
      <4>1. n - 1 \in (-M)..(W - 1) /\ n - 1 + M = n + M - 1
        BY <1>1, <2>1, <3>3
      <4>2. UpTo(zset, n - 1) <= UpTo(passed, n + M - 1)
        BY <4>1 DEF LInv, CountedHavePassed
      <4>3. QED
        BY <2>2, <3>1, <4>2
    <3>4. QED
      BY <3>2, <3>3
  <2>6. QED
    BY <2>4, <2>5
<1>13. QED
  BY <1>8, <1>9, <1>10, <1>11, <1>12 DEF LInv

\* A purge of every key forgets the window and what passed in it.
LEMMA PurgeKeepsLimit == ASSUME TypeOK, LInv, NEW x \in Key \cup Others, PurgeKey(x) PROVE LInv'
<1>1. CASE x # "window"
  <2>1. UNCHANGED <<zset, zsetTtl, passed, faults>>
    BY <1>1 DEF PurgeKey, limitVars
  <2>2. QED
    BY <2>1 DEF LInv, Finite, PassedAreCounted, CountedWithinLimit, QuietSinceExpire, CountedHavePassed, Past, Age
<1>2. CASE x = "window"
  <2>1. zset' \in [Age -> Nat] /\ passed' \in [Past -> Nat] /\ faults' = faults /\ faults \in Nat
    BY <1>2, Numbers DEF PurgeKey
  <2>2. (\A a \in Age : zset'[a] = 0) /\ (\A a \in Past : passed'[a] = 0)
    BY <1>2 DEF PurgeKey
  <2>3. /\ IsFiniteSet(Entries(zset', Age)) /\ \A n \in Int : UpTo(zset', n) = 0
        /\ IsFiniteSet(Entries(passed', Past)) /\ \A n \in Int : UpTo(passed', n) = 0
    BY <2>1, <2>2, UpToZero
  <2>4. Finite'
    BY <2>3 DEF Finite, Age, Past
  <2>5. PassedAreCounted' /\ CountedHavePassed'
    BY <2>1, <2>3, Numbers DEF PassedAreCounted, CountedHavePassed
  <2>6. CountedWithinLimit' /\ QuietSinceExpire'
    BY <2>1, <2>3, Numbers, AgesAreIntervals DEF CountedWithinLimit, QuietSinceExpire, Past
  <2>7. QED
    BY <2>4, <2>5, <2>6 DEF LInv
<1>3. QED
  BY <1>1, <1>2

\* In the beginning nothing is counted.
LEMMA InitLimit == Init => LInv
<1> SUFFICES ASSUME Init PROVE LInv
  OBVIOUS
<1>1. zset \in [Age -> Nat] /\ passed \in [Past -> Nat] /\ faults = 0
  BY DEF Init
<1>2. (\A a \in Age : zset[a] = 0) /\ (\A a \in Past : passed[a] = 0)
  BY DEF Init
<1>3. /\ IsFiniteSet(Entries(zset, Age)) /\ \A n \in Int : UpTo(zset, n) = 0
      /\ IsFiniteSet(Entries(passed, Past)) /\ \A n \in Int : UpTo(passed, n) = 0
  BY <1>1, <1>2, UpToZero
<1>4. PassedAreCounted /\ CountedHavePassed /\ CountedWithinLimit /\ QuietSinceExpire
  BY <1>1, <1>3, Numbers, AgesAreIntervals
     DEF PassedAreCounted, CountedHavePassed, CountedWithinLimit, QuietSinceExpire
<1>5. QED
  BY <1>3, <1>4 DEF LInv, Finite

\* Every step keeps the invariant.
LEMMA NextKeepsLimit == TypeOK /\ LInv /\ [Next]_vars => LInv'
<1> SUFFICES ASSUME TypeOK, LInv, [Next]_vars PROVE LInv'
  OBVIOUS
<1>1. ASSUME UNCHANGED <<limitVars, faults>> PROVE LInv'
  BY <1>1 DEF limitVars, LInv, Finite, PassedAreCounted, CountedWithinLimit, QuietSinceExpire,
              CountedHavePassed, Past, Age
<1>2. ASSUME UNCHANGED limitVars, Fault PROVE LInv'
  <2>1. faults' = faults + 1 /\ faults \in Nat /\ UNCHANGED <<zset, zsetTtl, passed>>
    BY <1>2, Numbers DEF Fault, limitVars
  <2>2. Counts(zset) /\ Counts(passed)
    BY StateCounts DEF LInv
  <2>3. Finite' /\ CountedWithinLimit' /\ CountedHavePassed'
    BY <2>1 DEF LInv, Finite, CountedWithinLimit, CountedHavePassed, Past, Age
  <2>4. PassedAreCounted'
    <3> SUFFICES ASSUME NEW n \in 0..(Window - MaxSkew - 1)
                 PROVE  UpTo(passed, n) <= UpTo(zset, n) + (faults + 1)
      BY <2>1 DEF PassedAreCounted
    <3>1. UpTo(passed, n) <= UpTo(zset, n) + faults
      BY DEF LInv, PassedAreCounted
    <3>2. UpTo(passed, n) \in Nat /\ UpTo(zset, n) \in Nat
      BY <2>2 DEF Counts
    <3>3. QED
      BY <2>1, <3>1, <3>2
  <2>5. QuietSinceExpire'
    <3> SUFFICES ASSUME NEW n \in Past, n < Window - zsetTtl PROVE UpTo(passed, n) <= faults + 1
      BY <2>1 DEF QuietSinceExpire, Past
    <3>1. UpTo(passed, n) <= faults
      BY DEF LInv, QuietSinceExpire
    <3>2. UpTo(passed, n) \in Nat
      BY <2>2, AgesAreIntervals DEF Counts
    <3>3. QED
      BY <2>1, <3>1, <3>2
  <2>6. QED
    BY <2>3, <2>4, <2>5 DEF LInv
<1>3. CASE UNCHANGED vars
  BY <1>1, <1>3 DEF vars
<1>4. ASSUME NEW c \in Client,
             Enter(c) \/ Acquire(c) \/ GiveUp(c) \/ AcquireFails(c) \/ Release(c) \/ ReleaseFails(c)
      PROVE  LInv'
  BY <1>1, <1>2, <1>4 DEF Enter, Acquire, GiveUp, AcquireFails, Release, ReleaseFails
<1>5. ASSUME NEW p \in Process, Deny(p) \/ AllowSameTime(p) \/ FailOpen(p) PROVE LInv'
  <2>1. /\ zset' = Purged(p) \/ zset' = zset
        /\ zsetTtl' = zsetTtl \/ zsetTtl' = Window
        /\ (passed' = passed /\ faults' = faults) \/ (Pass /\ faults' = faults + 1)
    BY <1>5 DEF Deny, AllowSameTime, FailOpen, Fault
  <2>2. QED
    BY <2>1, NoEntryKeepsLimit
<1>6. ASSUME NEW p \in Process, Allow(p) PROVE LInv'
  BY <1>6, AllowKeepsLimit
<1>7. ASSUME \/ \E k \in Key : CacheSet(k) \/ CacheDrop(k)
             \/ \E pattern \in {"cache", "all"} : BeginPurge(pattern)
             \/ PurgeReturns
             \/ PurgeFails
      PROVE  LInv'
  BY <1>1, <1>2, <1>7 DEF CacheSet, CacheDrop, BeginPurge, PurgeReturns, PurgeFails, EndPurge
<1>8. QED
  BY <1>3, <1>4, <1>5, <1>6, <1>7, TickKeepsLimit, PurgeKeepsLimit DEF Next

\* The invariant of the limiter.
LEMMA LimiterInductive == Spec => []LInv
BY InitLimit, NextKeepsLimit, TypeCorrect, PTL DEF Spec

-----------------------------------------------------------------------------
\* The invariant of lock, cache and limiter that a run checks holds for all constants.
THEOREM Inductive == Spec => []KInv
<1>1. HolderOwnsKey /\ OldAreLeft /\ LInv => KInv
  BY DEF KInv, LInv
<1>2. QED
  BY <1>1, HolderCorrect, OldCorrect, LimiterInductive, PTL

\* In a window, less the difference of the clocks, no more requests pass than
\* max_requests and the faults that happened.
THEOREM LimitCorrect == Spec => []LimitHolds
<1>1. TypeOK /\ LInv => LimitHolds
  <2> SUFFICES ASSUME TypeOK, LInv PROVE LimitHolds
    OBVIOUS
  <2> DEFINE n == Window - MaxSkew - 1
  <2>1. n \in 0..n /\ n \in Int /\ n <= Window + MaxSkew - 1 /\ MaxAllowed \in Nat /\ faults \in Nat
    BY Numbers
  <2>2. UpTo(passed, n) <= UpTo(zset, n) + faults /\ UpTo(zset, n) <= MaxAllowed
    BY <2>1 DEF LInv, PassedAreCounted, CountedWithinLimit
  <2>3. UpTo(passed, n) \in Nat /\ UpTo(zset, n) \in Nat
    BY <2>1, StateCounts DEF LInv, Counts
  <2>4. {a \in DOMAIN passed : a <= n} = 0..n
    <3>1. DOMAIN passed = Past
      BY DEF TypeOK
    <3>2. QED
      BY <2>1, <3>1, Numbers, AgesAreIntervals
  <2>5. UpTo(passed, n) = Total(passed, 0..n)
    BY <2>4 DEF UpTo
  <2>6. UpTo(passed, n) <= MaxAllowed + faults
    BY <2>1, <2>2, <2>3
  <2>7. QED
    BY <2>5, <2>6 DEF LimitHolds
<1>2. QED
  BY <1>1, TypeCorrect, LimiterInductive, PTL

\* No request is rejected for the sake of requests that did not pass, or passed before
\* the window and the difference of the clocks.
THEOREM DenyCorrect == Spec => []DeniedJustly
<1>1. TypeOK /\ LInv => DeniedJustly
  <2> SUFFICES ASSUME TypeOK, LInv, NEW p \in Process, Full(p)
               PROVE  Total(passed, Past) >= MaxAllowed
    BY DEF DeniedJustly
  <2> DEFINE n == Window - Skew[p] - 1
             H == Window + MaxSkew - 1
  <2>1. /\ n \in (-MaxSkew)..(Window - 1) /\ n \in Int /\ n + MaxSkew \in Int /\ H \in Int
        /\ n + MaxSkew <= H /\ MaxAllowed \in Nat
    BY Numbers
  <2>2. UpTo(zset, n) >= MaxAllowed
    BY FullCounts
  <2>3. UpTo(zset, n) <= UpTo(passed, n + MaxSkew)
    BY <2>1 DEF LInv, CountedHavePassed
  <2>4. /\ UpTo(zset, n) \in Nat /\ UpTo(passed, n + MaxSkew) \in Nat /\ UpTo(passed, H) \in Nat
        /\ UpTo(passed, n + MaxSkew) <= UpTo(passed, H)
    BY <2>1, StateCounts DEF LInv, Counts
  <2>5. UpTo(passed, H) >= MaxAllowed
    BY <2>1, <2>2, <2>3, <2>4
  <2>6. {a \in DOMAIN passed : a <= H} = Past
    <3>1. DOMAIN passed = Past
      BY DEF TypeOK
    <3>2. QED
      BY <2>1, <3>1, AgesAreIntervals
  <2>7. QED
    BY <2>5, <2>6 DEF UpTo
<1>2. QED
  BY <1>1, TypeCorrect, LimiterInductive, PTL

=============================================================================

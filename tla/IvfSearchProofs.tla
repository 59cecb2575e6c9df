--------------------------- MODULE IvfSearchProofs ---------------------------
(***************************************************************************)
(* Theorems about IvfIndex and IvfSearch: the index stays in agreement     *)
(* with itself, the pushdown is sound for filters of any shape, a search   *)
(* of all partitions is exact, filtering first wastes no probe, a vector   *)
(* finds itself, and saving and loading changes no answer. And about       *)
(* SqlParse: the parser of filters follows their grammar.                  *)
(***************************************************************************)
EXTENDS IvfSearch, SqlParse, SequenceTheorems, FiniteSetTheorems,
        NaturalsInduction, WellFoundedInduction, TLAPS

(* Every set of natural numbers has a least member. *)
LEMMA Least ==
  ASSUME NEW S \in SUBSET Nat, S # {}
  PROVE  \E m \in S : \A n \in S : m <= n
<1> DEFINE Less == {ss \in Nat \X Nat : ss[1] < ss[2]}
<1>1. IsWellFoundedOn(Less, Nat)
  BY NatLessThanWellFounded DEF OpToRel
<1> HIDE DEF Less
<1>2. PICK m \in S : \A n \in S : ~(<<n, m>> \in Less)
  BY <1>1, WFMin
<1>3. ASSUME NEW n \in S PROVE m <= n
  <2>1. n \in Nat /\ m \in Nat /\ <<n, m>> \notin Less
    BY <1>2
  <2>. QED
    BY <2>1 DEF Less
<1>. QED
  BY <1>3

LEMMA SquaresAreNatural ==
  ASSUME NEW x \in Int, NEW y \in Int
  PROVE  Distance(x, y) \in Nat /\ (Distance(x, y) = 0 <=> x = y)
<1> DEFINE d == x - y
<1>1. d \in Int /\ (d = 0 <=> x = y)
  OBVIOUS
<1> HIDE DEF d
<1>2. d * d \in Nat /\ (d * d = 0 <=> d = 0)
  BY <1>1
<1>. QED
  BY <1>1, <1>2 DEF Distance, d

(* There is one nearest partition, when there are centroids. *)
LEMMA NearestExists ==
  ASSUME NEW cs \in Seq(Points), cs # <<>>, NEW x \in Points
  PROVE  /\ NearestPartition(cs, x) \in DOMAIN cs
         /\ \A j \in DOMAIN cs :
              /\ Distance(x, cs[NearestPartition(cs, x)]) <= Distance(x, cs[j])
              /\ j < NearestPartition(cs, x) =>
                   Distance(x, cs[NearestPartition(cs, x)]) < Distance(x, cs[j])
<1> DEFINE D(j) == Distance(x, cs[j])
           Ds == {D(j) : j \in DOMAIN cs}
<1>1. DOMAIN cs \subseteq Nat /\ DOMAIN cs # {} /\ \A j \in DOMAIN cs : D(j) \in Nat
  <2>1. DOMAIN cs = 1..Len(cs) /\ Len(cs) \in Nat \ {0} /\ \A j \in DOMAIN cs : cs[j] \in Int
    <3>1. DOMAIN cs = 1..Len(cs) /\ Len(cs) \in Nat
      OBVIOUS
    <3>2. Len(cs) # 0
      BY EmptySeq
    <3>3. \A j \in DOMAIN cs : cs[j] \in Points
      BY <3>1
    <3>. QED
      BY <3>1, <3>2, <3>3, PointsAssumption
  <2>2. \A j \in DOMAIN cs : D(j) \in Nat
    BY <2>1, SquaresAreNatural, PointsAssumption
  <2>. QED
    BY <2>1, <2>2
<1>2. Ds \subseteq Nat /\ Ds # {}
  BY <1>1
<1> HIDE DEF D
<1>3. PICK d \in Ds : \A e \in Ds : d <= e
  <2> HIDE DEF Ds
  <2>. QED
    BY <1>2, Least
<1> DEFINE Bests == {j \in DOMAIN cs : D(j) = d}
<1>4. Bests \subseteq Nat /\ Bests # {}
  BY <1>1
<1>5. PICK b \in Bests : \A j \in Bests : b <= j
  <2> HIDE DEF Bests
  <2>. QED
    BY <1>4, Least
<1>6. b \in DOMAIN cs /\ \A j \in DOMAIN cs : D(b) <= D(j) /\ (j < b => D(b) < D(j))
  <2>1. ASSUME NEW j \in DOMAIN cs PROVE D(b) <= D(j) /\ (j < b => D(b) < D(j))
    <3>1. D(b) = d /\ D(j) \in Nat /\ d \in Nat /\ d <= D(j)
      BY <1>1, <1>2, <1>3
    <3>2. D(j) = d => b <= j
      BY <1>5
    <3>. QED
      BY <1>1, <3>1, <3>2
  <2>. QED
    BY <2>1
<1>. QED
  BY <1>6 DEF NearestPartition, D

(* There is a square root, so there is at least one partition. *)
LEMMA SomePartitions ==
  ASSUME NEW n \in Nat
  PROVE  NumPartitions(n) \in Nat \ {0}
<1> DEFINE S == {m \in Nat : m * m > n}
<1>1. S \subseteq Nat /\ S # {}
  <2>1. (n + 1) * (n + 1) = n * n + 2 * n + 1 /\ n * n \in Nat
    OBVIOUS
  <2>2. n + 1 \in S
    BY <2>1
  <2>. QED
    BY <2>2
<1>2. PICK m \in S : \A i \in S : m <= i
  <2> HIDE DEF S
  <2>. QED
    BY <1>1, Least
<1>3. m \in Nat \ {0} /\ m - 1 \notin S /\ m * m > n
  BY <1>2
<1> DEFINE r == m - 1
<1>4. r \in Nat /\ r * r <= n /\ (r + 1) * (r + 1) > n
  BY <1>3
<1>5. r <= n
  <2>1. r = 0 \/ r * r >= r
    BY <1>4
  <2>. QED
    BY <1>4, <2>1
<1> DEFINE root == CHOOSE q \in 0..n : q * q <= n /\ (q + 1) * (q + 1) > n
<1>6. root \in 0..n
  <2>1. r \in 0..n
    BY <1>4, <1>5
  <2> HIDE DEF r
  <2>. QED
    BY <1>4, <2>1
<1> HIDE DEF root
<1>7. NumPartitions(n) = IF n < MinPartitions THEN MinPartitions
                         ELSE IF root < MinPartitions THEN MinPartitions ELSE root
  BY DEF NumPartitions, root
<1>. QED
  BY <1>6, <1>7, SizesAssumption

-----------------------------------------------------------------------------
(* Statistics. *)

(* A payload is what the statistics it went into say, *)
Covers(s, p) ==
  /\ \A f \in NumFields(p) : f \in DOMAIN s.ranges /\ InRange(p[f].v, s.ranges[f])
  /\ \A f \in StringFields(p) :
       /\ f \in DOMAIN s.strings
       /\ p[f].v \in s.strings[f] \/ ~(Cardinality(s.strings[f]) < StringCap)

(* whose ranges are pairs of numbers. *)
HasRanges(s) == \A f \in DOMAIN s.ranges : s.ranges[f] \in Int \X Int

IsPayload(p) == \A f \in DOMAIN p : p[f].v \in Int

LEMMA UpdateRanges ==
  ASSUME NEW s, NEW p, HasRanges(s), IsPayload(p)
  PROVE  /\ HasRanges(UpdateStats(s, p))
         /\ \A f \in DOMAIN s.ranges :
              /\ f \in DOMAIN UpdateStats(s, p).ranges
              /\ \A n \in Int : InRange(n, s.ranges[f]) => InRange(n, UpdateStats(s, p).ranges[f])
         /\ \A f \in NumFields(p) :
              /\ f \in DOMAIN UpdateStats(s, p).ranges
              /\ InRange(p[f].v, UpdateStats(s, p).ranges[f])
<1> DEFINE u == UpdateStats(s, p).ranges
<1>1. /\ DOMAIN u = DOMAIN s.ranges \cup NumFields(p)
      /\ \A f \in DOMAIN u : u[f] =
            IF f \notin NumFields(p) THEN s.ranges[f]
            ELSE IF f \notin DOMAIN s.ranges THEN <<p[f].v, p[f].v>>
            ELSE Widen(s.ranges[f], p[f].v)
  BY DEF UpdateStats
<1> HIDE DEF u
<1>2. \A f \in NumFields(p) : p[f].v \in Int
  BY DEF NumFields, IsPayload
<1>3. ASSUME NEW r \in Int \X Int, NEW n \in Int
      PROVE  /\ Widen(r, n) \in Int \X Int /\ InRange(n, Widen(r, n))
             /\ \A k \in Int : InRange(k, r) => InRange(k, Widen(r, n))
  <2>1. r[1] \in Int /\ r[2] \in Int
    OBVIOUS
  <2> DEFINE a == IF n < r[1] THEN n ELSE r[1]
             b == IF n > r[2] THEN n ELSE r[2]
  <2>2. a \in Int /\ b \in Int /\ a <= n /\ n <= b /\ a <= r[1] /\ r[2] <= b
    BY <2>1
  <2>3. Widen(r, n) = <<a, b>>
    BY DEF Widen
  <2> HIDE DEF a, b
  <2>4. Widen(r, n)[1] = a /\ Widen(r, n)[2] = b /\ Widen(r, n) \in Int \X Int
    BY <2>2, <2>3
  <2>. QED
    BY <2>1, <2>2, <2>4 DEF InRange
<1>4. ASSUME NEW f \in DOMAIN u
      PROVE  /\ u[f] \in Int \X Int
             /\ f \in NumFields(p) => InRange(p[f].v, u[f])
             /\ f \in DOMAIN s.ranges => \A n \in Int : InRange(n, s.ranges[f]) => InRange(n, u[f])
  <2>1. CASE f \notin NumFields(p)
    <3>1. u[f] = s.ranges[f] /\ f \in DOMAIN s.ranges
      BY <1>1, <2>1
    <3>. QED
      BY <2>1, <3>1 DEF HasRanges
  <2>2. CASE f \in NumFields(p) /\ f \notin DOMAIN s.ranges
    <3>1. u[f] = <<p[f].v, p[f].v>> /\ p[f].v \in Int
      BY <1>1, <1>2, <2>2
    <3>. QED
      BY <2>2, <3>1 DEF InRange
  <2>3. CASE f \in NumFields(p) /\ f \in DOMAIN s.ranges
    <3>1. s.ranges[f] \in Int \X Int
      BY <2>3 DEF HasRanges
    <3>2. u[f] = Widen(s.ranges[f], p[f].v) /\ p[f].v \in Int
      BY <1>1, <1>2, <2>3
    <3>. QED
      BY <1>3, <3>1, <3>2
  <2>. QED
    BY <2>1, <2>2, <2>3
<1>. QED
  BY <1>1, <1>4 DEF HasRanges, u

(* What a partition's statistics cover stays covered. *)
LEMMA UpdateCovers ==
  ASSUME NEW s, NEW p, HasRanges(s), IsPayload(p)
  PROVE  /\ Covers(UpdateStats(s, p), p)
         /\ \A q : IsPayload(q) /\ Covers(s, q) => Covers(UpdateStats(s, p), q)
<1> DEFINE u == UpdateStats(s, p).strings
<1>1. /\ DOMAIN u = DOMAIN s.strings \cup StringFields(p)
      /\ \A f \in DOMAIN u : u[f] =
            IF f \notin StringFields(p) THEN s.strings[f]
            ELSE IF f \notin DOMAIN s.strings THEN {p[f].v}
            ELSE IF Cardinality(s.strings[f]) < StringCap THEN s.strings[f] \cup {p[f].v}
            ELSE s.strings[f]
  BY DEF UpdateStats
<1> HIDE DEF u
<1>2. ASSUME NEW f \in StringFields(p)
      PROVE  f \in DOMAIN u /\ (p[f].v \in u[f] \/ ~(Cardinality(u[f]) < StringCap))
  BY <1>1
<1>3. ASSUME NEW f \in DOMAIN s.strings, NEW v,
             v \in s.strings[f] \/ ~(Cardinality(s.strings[f]) < StringCap)
      PROVE  f \in DOMAIN u /\ (v \in u[f] \/ ~(Cardinality(u[f]) < StringCap))
  BY <1>1, <1>3
<1>4. Covers(UpdateStats(s, p), p)
  BY <1>2, UpdateRanges DEF Covers, u
<1>5. ASSUME NEW q, IsPayload(q), Covers(s, q) PROVE Covers(UpdateStats(s, p), q)
  <2>1. ASSUME NEW f \in NumFields(q)
        PROVE  f \in DOMAIN UpdateStats(s, p).ranges /\ InRange(q[f].v, UpdateStats(s, p).ranges[f])
    <3>1. q[f].v \in Int /\ f \in DOMAIN s.ranges /\ InRange(q[f].v, s.ranges[f])
      BY <1>5 DEF Covers, NumFields, IsPayload
    <3>. QED
      BY <3>1, UpdateRanges
  <2>2. ASSUME NEW f \in StringFields(q)
        PROVE  f \in DOMAIN u /\ (q[f].v \in u[f] \/ ~(Cardinality(u[f]) < StringCap))
    <3>1. f \in DOMAIN s.strings /\ (q[f].v \in s.strings[f] \/ ~(Cardinality(s.strings[f]) < StringCap))
      BY <1>5 DEF Covers
    <3>. QED
      BY <1>3, <3>1
  <2>. QED
    BY <2>1, <2>2 DEF Covers, u
<1>. QED
  BY <1>4, <1>5

LEMMA NoStatsCovers ==
  /\ HasRanges(NoStats) /\ Covers(NoStats, <<>>) /\ IsPayload(<<>>)
  /\ UpdateStats(NoStats, <<>>) = NoStats
<1>1. DOMAIN <<>> = {}
  OBVIOUS
<1>2. NumFields(<<>>) = {} /\ StringFields(<<>>) = {}
  BY <1>1 DEF NumFields, StringFields
<1>3. DOMAIN NoStats.ranges = {} /\ DOMAIN NoStats.strings = {}
  BY DEF NoStats
<1>4. UpdateStats(NoStats, <<>>) = NoStats
  <2>1. UpdateStats(NoStats, <<>>).ranges = NoStats.ranges
    BY <1>2, <1>3 DEF UpdateStats, NoStats
  <2>2. UpdateStats(NoStats, <<>>).strings = NoStats.strings
    BY <1>2, <1>3 DEF UpdateStats, NoStats
  <2>3. UpdateStats(NoStats, <<>>) = [ranges |-> UpdateStats(NoStats, <<>>).ranges,
                                      strings |-> UpdateStats(NoStats, <<>>).strings]
    BY DEF UpdateStats
  <2>4. NoStats = [ranges |-> NoStats.ranges, strings |-> NoStats.strings]
    BY DEF NoStats
  <2>. QED
    BY <2>1, <2>2, <2>3, <2>4
<1>. QED
  BY <1>1, <1>2, <1>3, <1>4 DEF HasRanges, Covers, IsPayload

(* What a recursive definition over 0..n yields: the values it runs        *)
(* through exist, by extension,                                            *)
Trail(ids, pl, n, f) ==
  f = [m \in 0..n |-> IF m = 0 THEN NoStats ELSE UpdateStats(f[m - 1], pl[ids[m] + 1])]

LEMMA TrailExists ==
  ASSUME NEW ids, NEW pl, NEW n \in Nat
  PROVE  \E f : Trail(ids, pl, n, f)
<1> DEFINE Bad == {m \in Nat : ~\E f : Trail(ids, pl, m, f)}
<1>1. SUFFICES ASSUME Bad # {} PROVE FALSE
  OBVIOUS
<1>2. PICK m \in Bad : \A i \in Bad : m <= i
  <2>1. Bad \subseteq Nat
    OBVIOUS
  <2> HIDE DEF Bad
  <2>. QED
    BY <1>1, <2>1, Least
<1>3. m # 0
  <2>1. Trail(ids, pl, 0, [i \in 0..0 |-> NoStats])
    BY DEF Trail
  <2>. QED
    BY <1>2, <2>1
<1>4. m \in Nat /\ m - 1 \in Nat /\ m - 1 \notin Bad
  BY <1>2, <1>3
<1>5. PICK f : Trail(ids, pl, m - 1, f)
  BY <1>4
<1> DEFINE g == [i \in 0..m |-> IF i = m THEN UpdateStats(f[m - 1], pl[ids[m] + 1]) ELSE f[i]]
           h == [i \in 0..m |-> IF i = 0 THEN NoStats ELSE UpdateStats(g[i - 1], pl[ids[i] + 1])]
<1>6. ASSUME NEW i \in 0..m PROVE g[i] = h[i]
  <2>1. CASE i = m
    BY <1>3, <1>4, <2>1
  <2>2. CASE i # m
    <3>1. i \in 0..(m - 1) /\ g[i] = f[i]
      BY <1>4, <2>2
    <3>2. f[i] = IF i = 0 THEN NoStats ELSE UpdateStats(f[i - 1], pl[ids[i] + 1])
      BY <1>5, <3>1 DEF Trail
    <3>3. i # 0 => g[i - 1] = f[i - 1]
      BY <1>4, <3>1
    <3>. QED
      BY <3>1, <3>2, <3>3
  <2>. QED
    BY <2>1, <2>2
<1>7. g = h
  BY <1>6
<1>8. Trail(ids, pl, m, g)
  BY <1>7 DEF Trail
<1>. QED
  BY <1>2, <1>8

(* they are the same wherever the same payloads went in,                   *)
LEMMA TrailsAgree ==
  ASSUME NEW ids, NEW pl, NEW n \in Nat, NEW f, Trail(ids, pl, n, f),
         NEW jds, NEW ql, NEW k \in Nat, NEW g, Trail(jds, ql, k, g),
         NEW m \in Nat, m <= n, m <= k,
         \A i \in 1..m : pl[ids[i] + 1] = ql[jds[i] + 1]
  PROVE  f[m] = g[m]
<1> DEFINE Bad == {i \in 0..m : f[i] # g[i]}
<1>1. SUFFICES ASSUME Bad # {} PROVE FALSE
  OBVIOUS
<1>2. PICK b \in Bad : \A i \in Bad : b <= i
  <2>1. Bad \subseteq Nat
    OBVIOUS
  <2> HIDE DEF Bad
  <2>. QED
    BY <1>1, <2>1, Least
<1>3. ASSUME NEW i \in 0..m
      PROVE  /\ f[i] = (IF i = 0 THEN NoStats ELSE UpdateStats(f[i - 1], pl[ids[i] + 1]))
             /\ g[i] = (IF i = 0 THEN NoStats ELSE UpdateStats(g[i - 1], ql[jds[i] + 1]))
  BY DEF Trail
<1>4. b # 0
  BY <1>2, <1>3
<1>5. b \in 1..m /\ b - 1 \in 0..m /\ b - 1 \notin Bad
  BY <1>2, <1>4
<1>6. f[b - 1] = g[b - 1]
  BY <1>5
<1>7. f[b] = g[b]
  BY <1>3, <1>4, <1>5, <1>6
<1>. QED
  BY <1>2, <1>7

(* and the statistics are the last of them.                                *)
LEMMA StatsOfIs ==
  ASSUME NEW S, NEW ids \in Seq(S), NEW pl
  PROVE  \E f : Trail(ids, pl, Len(ids), f) /\ StatsOf(ids, pl) = f[Len(ids)]
<1> DEFINE f == CHOOSE g : Trail(ids, pl, Len(ids), g)
<1>1. Trail(ids, pl, Len(ids), f)
  <2>1. Len(ids) \in Nat
    OBVIOUS
  <2>. QED
    BY <2>1, TrailExists
<1>2. StatsOf(ids, pl) = f[Len(ids)]
  BY DEF StatsOf, Trail
<1>. QED
  BY <1>1, <1>2

LEMMA StatsOfNone ==
  ASSUME NEW pl
  PROVE  StatsOf(<<>>, pl) = NoStats
<1>1. <<>> \in Seq(Nat) /\ Len(<<>>) = 0
  BY EmptySeq
<1>2. PICK f : Trail(<<>>, pl, 0, f) /\ StatsOf(<<>>, pl) = f[0]
  BY <1>1, StatsOfIs
<1>3. f[0] = NoStats
  BY <1>2 DEF Trail
<1>. QED
  BY <1>2, <1>3

LEMMA StatsOfSame ==
  ASSUME NEW S, NEW ids \in Seq(S), NEW pl, NEW ql,
         \A i \in 1..Len(ids) : pl[ids[i] + 1] = ql[ids[i] + 1]
  PROVE  StatsOf(ids, pl) = StatsOf(ids, ql)
<1>1. Len(ids) \in Nat
  OBVIOUS
<1>2. PICK f : Trail(ids, pl, Len(ids), f) /\ StatsOf(ids, pl) = f[Len(ids)]
  BY StatsOfIs
<1>3. PICK g : Trail(ids, ql, Len(ids), g) /\ StatsOf(ids, ql) = g[Len(ids)]
  BY StatsOfIs
<1>. QED
  BY <1>1, <1>2, <1>3, TrailsAgree

LEMMA StatsOfMore ==
  ASSUME NEW S, NEW ids \in Seq(S), NEW id \in S, NEW pl
  PROVE  StatsOf(Append(ids, id), pl) = UpdateStats(StatsOf(ids, pl), pl[id + 1])
<1> DEFINE n == Len(ids)
           jds == Append(ids, id)
<1>1. /\ n \in Nat /\ jds \in Seq(S) /\ Len(jds) = n + 1 /\ jds[n + 1] = id
      /\ \A i \in 1..n : jds[i] = ids[i]
  OBVIOUS
<1>2. PICK f : Trail(ids, pl, n, f) /\ StatsOf(ids, pl) = f[n]
  BY StatsOfIs
<1> HIDE DEF jds
<1>3. PICK g : Trail(jds, pl, n + 1, g) /\ StatsOf(jds, pl) = g[n + 1]
  BY <1>1, StatsOfIs
<1> HIDE DEF n
<1>4. g[n + 1] = UpdateStats(g[n], pl[jds[n + 1] + 1])
  <2>1. n + 1 \in 0..(n + 1) /\ n + 1 # 0 /\ (n + 1) - 1 = n
    BY <1>1
  <2>. QED
    BY <1>3, <2>1 DEF Trail
<1>5. f[n] = g[n]
  <2> DEFINE k == n + 1
  <2>1. n \in Nat /\ n <= k /\ k \in Nat /\ n <= n
    BY <1>1
  <2>2. Trail(ids, pl, n, f) /\ Trail(jds, pl, k, g)
    BY <1>2, <1>3
  <2>3. \A i \in 1..n : pl[ids[i] + 1] = pl[jds[i] + 1]
    BY <1>1
  <2> HIDE DEF k
  <2>. QED
    BY <2>1, <2>2, <2>3, TrailsAgree
<1>. QED
  BY <1>1, <1>2, <1>3, <1>4, <1>5 DEF jds

(* The statistics of vectors without payloads tell nothing. *)
LEMMA StatsOfEmpty ==
  ASSUME NEW S, NEW ids \in Seq(S), NEW pl, \A i \in 1..Len(ids) : pl[ids[i] + 1] = <<>>
  PROVE  StatsOf(ids, pl) = NoStats
<1> DEFINE g == [m \in 0..Len(ids) |-> NoStats]
<1>1. Len(ids) \in Nat
  OBVIOUS
<1>2. PICK f : Trail(ids, pl, Len(ids), f) /\ StatsOf(ids, pl) = f[Len(ids)]
  BY StatsOfIs
<1>3. Trail(ids, pl, Len(ids), g)
  <2>1. ASSUME NEW m \in 0..Len(ids)
        PROVE  NoStats = IF m = 0 THEN NoStats ELSE UpdateStats(g[m - 1], pl[ids[m] + 1])
    <3>1. CASE m # 0
      <4>1. m - 1 \in 0..Len(ids) /\ m \in 1..Len(ids)
        BY <1>1, <3>1
      <4>2. g[m - 1] = NoStats /\ pl[ids[m] + 1] = <<>>
        BY <4>1
      <4>. QED
        BY <3>1, <4>2, NoStatsCovers
    <3>. QED
      BY <3>1
  <2>. QED
    BY <2>1 DEF Trail
<1>4. f[Len(ids)] = g[Len(ids)]
  <2>1. Len(ids) <= Len(ids)
    BY <1>1
  <2> HIDE DEF g
  <2>. QED
    BY <1>1, <1>2, <1>3, <2>1, TrailsAgree
<1>. QED
  BY <1>1, <1>2, <1>4

-----------------------------------------------------------------------------
(* Partitions. *)

LEMMA Listed ==
  ASSUME NEW S, NEW s \in Seq(S), NEW y
  PROVE  Contains(s, y) <=> y \in ToSet(s)
<1>1. DOMAIN s = 1..Len(s)
  OBVIOUS
<1>. QED
  BY <1>1 DEF Contains, ToSet

(* A sequence with a new entry at its end. *)
LEMMA Longer ==
  ASSUME NEW S, NEW s \in Seq(S), NEW x \in S
  PROVE  /\ Append(s, x) \in Seq(S) /\ Len(Append(s, x)) = Len(s) + 1
         /\ Append(s, x)[Len(s) + 1] = x
         /\ \A j \in 1..Len(s) : Append(s, x)[j] = s[j]
  OBVIOUS

LEMMA Appended ==
  ASSUME NEW S, NEW s \in Seq(S), NEW x \in S
  PROVE  /\ Append(s, x) \in Seq(S) /\ ToSet(Append(s, x)) = ToSet(s) \cup {x}
         /\ IsInjective(s) /\ x \notin ToSet(s) => IsInjective(Append(s, x))
         /\ \A y : Contains(Append(s, x), y) <=> Contains(s, y) \/ y = x
         /\ \A y : Contains(s, y) <=> y \in ToSet(s)
<1> DEFINE r == Append(s, x)
<1>1. /\ r \in Seq(S) /\ Len(r) = Len(s) + 1 /\ Len(s) \in Nat
      /\ r[Len(s) + 1] = x /\ \A i \in 1..Len(s) : r[i] = s[i]
  OBVIOUS
<1> HIDE DEF r
<1>2. DOMAIN r = 1..(Len(s) + 1) /\ DOMAIN s = 1..Len(s)
  BY <1>1
<1>3. ASSUME NEW i \in DOMAIN r PROVE (i \in DOMAIN s /\ r[i] = s[i]) \/ (i = Len(s) + 1 /\ r[i] = x)
  BY <1>1, <1>2
<1>4. DOMAIN s \subseteq DOMAIN r /\ Len(s) + 1 \in DOMAIN r
  BY <1>1, <1>2
<1>5. ToSet(r) = ToSet(s) \cup {x}
  <2>1. ToSet(r) \subseteq ToSet(s) \cup {x}
    BY <1>3 DEF ToSet
  <2>2. ToSet(s) \subseteq ToSet(r)
    BY <1>1, <1>2, <1>4 DEF ToSet
  <2>3. x \in ToSet(r)
    BY <1>1, <1>4 DEF ToSet
  <2>. QED
    BY <2>1, <2>2, <2>3
<1>6. ASSUME IsInjective(s), x \notin ToSet(s) PROVE IsInjective(r)
  <2>1. \A i \in DOMAIN s : s[i] # x
    BY <1>6 DEF ToSet
  <2>2. ASSUME NEW i \in DOMAIN r, NEW j \in DOMAIN r, r[i] = r[j] PROVE i = j
    <3>1. CASE i \in DOMAIN s /\ j \in DOMAIN s
      BY <1>1, <1>2, <1>6, <2>2, <3>1 DEF IsInjective
    <3>2. CASE ~(i \in DOMAIN s /\ j \in DOMAIN s)
      BY <1>3, <2>1, <2>2, <3>2
    <3>. QED
      BY <3>1, <3>2
  <2>. QED
    BY <2>2 DEF IsInjective
<1>7. \A y : Contains(s, y) <=> y \in ToSet(s)
  BY <1>2 DEF Contains, ToSet
<1>8. \A y : Contains(r, y) <=> y \in ToSet(r)
  BY <1>1, <1>2 DEF Contains, ToSet
<1>. QED
  BY <1>1, <1>5, <1>6, <1>7, <1>8 DEF r

(* The same for the ids that build puts in a partition.                    *)
Placing(place, i, n, f) ==
  f = [m \in 0..n |-> IF m = 0 THEN <<>>
                      ELSE IF place[m] = i THEN Append(f[m - 1], m - 1) ELSE f[m - 1]]

LEMMA PlacingExists ==
  ASSUME NEW place, NEW p, NEW n \in Nat
  PROVE  \E f : Placing(place, p, n, f)
<1> DEFINE Bad == {m \in Nat : ~\E f : Placing(place, p, m, f)}
<1>1. SUFFICES ASSUME Bad # {} PROVE FALSE
  OBVIOUS
<1>2. PICK m \in Bad : \A i \in Bad : m <= i
  <2>1. Bad \subseteq Nat
    OBVIOUS
  <2> HIDE DEF Bad
  <2>. QED
    BY <1>1, <2>1, Least
<1>3. m # 0
  <2>1. Placing(place, p, 0, [i \in 0..0 |-> <<>>])
    BY DEF Placing
  <2>. QED
    BY <1>2, <2>1
<1>4. m \in Nat /\ m - 1 \in Nat /\ m - 1 \notin Bad
  BY <1>2, <1>3
<1>5. PICK f : Placing(place, p, m - 1, f)
  BY <1>4
<1> DEFINE g == [i \in 0..m |-> IF i = m THEN IF place[m] = p THEN Append(f[m - 1], m - 1) ELSE f[m - 1]
                                ELSE f[i]]
           h == [i \in 0..m |-> IF i = 0 THEN <<>>
                                ELSE IF place[i] = p THEN Append(g[i - 1], i - 1) ELSE g[i - 1]]
<1>6. ASSUME NEW i \in 0..m PROVE g[i] = h[i]
  <2>1. CASE i = m
    BY <1>3, <1>4, <2>1
  <2>2. CASE i # m
    <3>1. i \in 0..(m - 1) /\ g[i] = f[i]
      BY <1>4, <2>2
    <3>2. f[i] = IF i = 0 THEN <<>> ELSE IF place[i] = p THEN Append(f[i - 1], i - 1) ELSE f[i - 1]
      BY <1>5, <3>1 DEF Placing
    <3>3. i # 0 => g[i - 1] = f[i - 1]
      BY <1>4, <3>1
    <3>. QED
      BY <3>1, <3>2, <3>3
  <2>. QED
    BY <2>1, <2>2
<1>7. g = h
  BY <1>6
<1>8. Placing(place, p, m, g)
  BY <1>7 DEF Placing
<1>. QED
  BY <1>2, <1>8

(* It is given the ids that are placed in it, each once. *)
LEMMA PlacedAtIs ==
  ASSUME NEW S, NEW place \in Seq(S), NEW p
  PROVE  /\ PlacedAt(place, p) \in Seq(Nat)
         /\ IsInjective(PlacedAt(place, p))
         /\ ToSet(PlacedAt(place, p)) = {id \in 0..(Len(place) - 1) : place[id + 1] = p}
<1> DEFINE n == Len(place)
           f == CHOOSE g : Placing(place, p, n, g)
           Want(m) == {id \in 0..(m - 1) : place[id + 1] = p}
           Good(m) == f[m] \in Seq(Nat) /\ IsInjective(f[m]) /\ ToSet(f[m]) = Want(m)
           Bad == {m \in 0..n : ~Good(m)}
<1>1. n \in Nat
  OBVIOUS
<1>2. Placing(place, p, n, f)
  BY <1>1, PlacingExists
<1>3. PlacedAt(place, p) = f[n]
  BY DEF PlacedAt, Placing
<1> HIDE DEF f, n
<1>4. ASSUME NEW m \in 0..n
      PROVE  f[m] = IF m = 0 THEN <<>>
                    ELSE IF place[m] = p THEN Append(f[m - 1], m - 1) ELSE f[m - 1]
  BY <1>2 DEF Placing
<1>5. Good(0)
  <2>1. f[0] = <<>> /\ DOMAIN <<>> = {} /\ <<>> \in Seq(Nat)
    BY <1>1, <1>4
  <2>2. Want(0) = {}
    OBVIOUS
  <2>. QED
    BY <2>1, <2>2 DEF IsInjective, ToSet
<1>6. ASSUME NEW m \in 1..n, Good(m - 1) PROVE Good(m)
  <2>1. m \in 0..n /\ m # 0 /\ m \in Nat /\ m - 1 \in Nat /\ (m - 1) + 1 = m
    BY <1>1
  <2>2. Want(m) = IF place[m] = p THEN Want(m - 1) \cup {m - 1} ELSE Want(m - 1)
    BY <2>1
  <2>3. CASE place[m] # p
    BY <1>4, <1>6, <2>1, <2>2, <2>3
  <2>4. CASE place[m] = p
    <3>1. f[m] = Append(f[m - 1], m - 1)
      BY <1>4, <2>1, <2>4
    <3>2. m - 1 \notin ToSet(f[m - 1])
      BY <1>6, <2>1
    <3>3. /\ Append(f[m - 1], m - 1) \in Seq(Nat) /\ IsInjective(Append(f[m - 1], m - 1))
          /\ ToSet(Append(f[m - 1], m - 1)) = ToSet(f[m - 1]) \cup {m - 1}
      BY <1>6, <2>1, <3>2, Appended
    <3>. QED
      BY <1>6, <2>2, <2>4, <3>1, <3>3
  <2>. QED
    BY <2>3, <2>4
<1> HIDE DEF Good
<1>7. Bad = {}
  <2>1. SUFFICES ASSUME Bad # {} PROVE FALSE
    OBVIOUS
  <2>2. Bad \subseteq Nat
    OBVIOUS
  <2>3. PICK b \in Bad : \A i \in Bad : b <= i
    <3> HIDE DEF Bad
    <3>. QED
      BY <2>1, <2>2, Least
  <2>4. b \in 1..n /\ b - 1 \in 0..n /\ b - 1 \notin Bad
    BY <1>1, <1>5, <2>3
  <2>. QED
    BY <1>6, <2>3, <2>4
<1>8. Good(n)
  BY <1>1, <1>7
<1>. QED
  BY <1>3, <1>8 DEF Good, n

-----------------------------------------------------------------------------
(* The inductive invariant of the index. *)

(* Every partition with a centroid is one of the partitions, and each has  *)
(* statistics; a payload is one that was inserted or the empty one of      *)
(* build;                                                                  *)
ShapeInv ==
  /\ centroids # <<>> /\ Len(centroids) <= Len(partitions)
  /\ payloads \in Seq(Payloads \cup {<<>>})
  /\ stats = [i \in Pids |-> stats[i]]

(* a vector is in the partition that is nearest to it;                     *)
PlacedNearest ==
  \A id \in Ids : idToPartition[id + 1] = NearestPartition(centroids, raw[id + 1])

(* and the statistics of its partition cover its payload.                  *)
StatsCover ==
  /\ \A i \in Pids : HasRanges(stats[i])
  /\ \A id \in Ids : Covers(stats[idToPartition[id + 1]], payloads[id + 1])

IvfIInv == IndexInv /\ ShapeInv /\ PlacedNearest /\ StatsCover

LEMMA AreSequences ==
  ASSUME NEW n \in Nat, NEW f, f = [i \in 1..n |-> f[i]]
  PROVE  Len(f) = n /\ DOMAIN f = 1..n /\ f \in Seq({f[i] : i \in 1..n})
<1> DEFINE S == {f[i] : i \in 1..n}
<1>1. \A i \in 1..n : f[i] \in S
  OBVIOUS
<1> HIDE DEF S
<1>2. f \in [1..n -> S]
  BY <1>1
<1>3. f \in Seq(S) /\ DOMAIN f = 1..n
  BY <1>2
<1>4. Len(f) = n
  BY <1>3
<1>. QED
  BY <1>3, <1>4 DEF S

LEMMA ArePayloads ==
  \A p \in Payloads \cup {<<>>} : IsPayload(p)
  BY PayloadsAssumption, NoStatsCovers DEF IsPayload

(* What the proofs use of the types. *)
LEMMA Shapes ==
  ASSUME IvfIInv
  PROVE  /\ Len(partitions) \in Nat \ {0} /\ Len(centroids) \in Nat \ {0}
         /\ Pids = 1..Len(partitions) /\ DOMAIN partitions = Pids
         /\ DOMAIN centroids = 1..Len(centroids) /\ DOMAIN centroids \subseteq Pids
         /\ \A i \in Pids : partitions[i] \in Seq(Nat) /\ ToSet(partitions[i]) \subseteq Ids
         /\ \A i \in Pids : \A j \in 1..Len(partitions[i]) : partitions[i][j] \in Ids
         /\ \A i \in DOMAIN centroids : centroids[i] \in Points
         /\ Len(raw) = nextId /\ Len(payloads) = nextId /\ Len(idToPartition) = nextId
         /\ nextId \in Nat
         /\ \A id \in Ids : /\ id \in Nat /\ id + 1 \in 1..nextId /\ raw[id + 1] \in Points
                            /\ payloads[id + 1] \in Payloads \cup {<<>>}
                            /\ idToPartition[id + 1] \in Pids
<1>1. /\ centroids \in Seq(Points) /\ raw \in Seq(Points) /\ partitions \in Seq(Seq(Nat))
      /\ Len(payloads) = Len(raw) /\ idToPartition \in Seq(Pids) /\ nextId \in Nat
      /\ Len(raw) = nextId /\ Len(idToPartition) = nextId
      /\ \A i \in Pids : ToSet(partitions[i]) \subseteq Ids
      /\ centroids # <<>> /\ Len(centroids) <= Len(partitions)
      /\ payloads \in Seq(Payloads \cup {<<>>})
  BY DEF IvfIInv, IndexInv, TypeOK, IdsPlacedOnce, ShapeInv
<1>2. Len(centroids) \in Nat /\ Len(partitions) \in Nat /\ Len(centroids) # 0
  BY <1>1, EmptySeq
<1>3. DOMAIN partitions = Pids /\ DOMAIN centroids = 1..Len(centroids)
  BY <1>1 DEF Pids
<1>4. \A i \in Pids : partitions[i] \in Seq(Nat)
  BY <1>1, <1>3
<1>5. \A i \in Pids : \A j \in 1..Len(partitions[i]) : partitions[i][j] \in Ids
  <2>1. ASSUME NEW i \in Pids, NEW j \in 1..Len(partitions[i]) PROVE partitions[i][j] \in ToSet(partitions[i])
    BY <1>4 DEF ToSet
  <2>. QED
    BY <1>1, <2>1
<1>6. ASSUME NEW id \in Ids PROVE id \in Nat /\ id + 1 \in 1..nextId
  BY <1>1 DEF Ids
<1>7. ASSUME NEW j \in 1..nextId
      PROVE  raw[j] \in Points /\ payloads[j] \in Payloads \cup {<<>>} /\ idToPartition[j] \in Pids
  <2>1. raw[j] \in Points
    BY <1>1
  <2>2. payloads[j] \in Payloads \cup {<<>>}
    BY <1>1
  <2>3. idToPartition[j] \in Pids
    BY <1>1
  <2>. QED
    BY <2>1, <2>2, <2>3
<1>8. \A i \in DOMAIN centroids : centroids[i] \in Points
  BY <1>1
<1>9. DOMAIN centroids \subseteq Pids
  BY <1>1, <1>2, <1>3 DEF Pids
<1>. QED
  BY <1>1, <1>2, <1>3, <1>4, <1>5, <1>6, <1>7, <1>8, <1>9 DEF Pids

LEMMA CodesAre ==
  ASSUME NEW ids \in Seq(Nat), NEW rw \in Seq(Points),
         \A j \in 1..Len(ids) : ids[j] \in 0..(Len(rw) - 1)
  PROVE  CodesOf(ids, rw) \in Seq(Points)
<1>1. Len(ids) \in Nat /\ Len(rw) \in Nat
  OBVIOUS
<1>2. ASSUME NEW j \in 1..Len(ids) PROVE rw[ids[j] + 1] \in Points
  <2>1. ids[j] + 1 \in 1..Len(rw)
    BY <1>1
  <2>. QED
    BY <2>1
<1> DEFINE n == Len(ids)
           c == CodesOf(ids, rw)
<1>3. c \in [1..n -> Points]
  BY <1>2 DEF CodesOf
<1> HIDE DEF n, c
<1>4. n \in Nat
  BY <1>1 DEF n
<1>5. c \in Seq(Points)
  BY <1>3, <1>4
<1>. QED
  BY <1>5 DEF c

(* Making the codes anew keeps the rest. *)
LEMMA Recoded ==
  ASSUME IvfIInv,
         sq8' = [i \in Pids |-> CodesOf(partitions[i], raw)], sq8Dirty' = FALSE,
         UNCHANGED <<centroids, partitions, raw, payloads, stats, idToPartition, nextId>>
  PROVE  IvfIInv'
<1>1. Pids' = Pids /\ Ids' = Ids
  BY DEF Pids, Ids
<1>2. sq8' \in Seq(Seq(Points))
  <2>1. raw \in Seq(Points)
    BY DEF IvfIInv, IndexInv, TypeOK
  <2>2. ASSUME NEW i \in Pids PROVE CodesOf(partitions[i], raw) \in Seq(Points)
    <3>1. partitions[i] \in Seq(Nat) /\ \A j \in 1..Len(partitions[i]) : partitions[i][j] \in 0..(Len(raw) - 1)
      BY Shapes DEF Ids
    <3>. QED
      BY <2>1, <3>1, CodesAre
  <2>3. sq8' \in [1..Len(partitions) -> Seq(Points)] /\ Len(partitions) \in Nat
    BY <2>2, Shapes
  <2>. QED
    BY <2>3
<1>3. TypeOK'
  BY <1>1, <1>2 DEF IvfIInv, IndexInv, TypeOK
<1>4. IdsPlacedOnce' /\ StatsReproducible' /\ ShapeInv' /\ PlacedNearest' /\ StatsCover'
  BY <1>1 DEF IvfIInv, IndexInv, IdsPlacedOnce, StatsReproducible, ShapeInv, PlacedNearest, StatsCover
<1>5. Sq8Fresh'
  BY <1>1 DEF Sq8Fresh
<1>. QED
  BY <1>3, <1>4, <1>5 DEF IvfIInv, IndexInv

(* What a load makes again is what was there. *)
LEMMA ReloadSame ==
  ASSUME IvfIInv, Reload
  PROVE  UNCHANGED <<centroids, partitions, raw, payloads, stats, idToPartition, nextId>>
<1>1. UNCHANGED <<centroids, partitions, raw, payloads, nextId>>
  BY DEF Reload
<1>2. stats' = stats
  <2>1. stats' = [i \in Pids |-> StatsOf(partitions[i], payloads)]
    BY DEF Reload
  <2>2. \A i \in Pids : StatsOf(partitions[i], payloads) = stats[i]
    BY DEF IvfIInv, IndexInv, StatsReproducible
  <2>3. stats = [i \in Pids |-> stats[i]]
    BY DEF IvfIInv, ShapeInv
  <2>. QED
    BY <2>1, <2>2, <2>3
<1>3. idToPartition' = idToPartition
  <2>1. idToPartition' = [j \in 1..nextId |-> PartitionOf(partitions, j - 1)]
    BY Shapes DEF Reload
  <2>2. ASSUME NEW j \in 1..nextId PROVE PartitionOf(partitions, j - 1) = idToPartition[j]
    <3>1. j - 1 \in Ids /\ (j - 1) + 1 = j
      BY Shapes DEF Ids
    <3>2. \A i \in Pids : Contains(partitions[i], j - 1) <=> idToPartition[j] = i
      BY <3>1 DEF IvfIInv, IndexInv, IdsPlacedOnce
    <3>3. idToPartition[j] \in Pids /\ DOMAIN partitions = Pids
      BY <3>1, Shapes
    <3>. QED
      BY <3>2, <3>3 DEF PartitionOf
  <2>3. idToPartition = [j \in 1..nextId |-> idToPartition[j]]
    <3>1. idToPartition \in Seq(Pids) /\ Len(idToPartition) = nextId
      BY DEF IvfIInv, IndexInv, TypeOK, IdsPlacedOnce
    <3>. QED
      BY <3>1
  <2>. QED
    BY <2>1, <2>2, <2>3
<1>. QED
  BY <1>1, <1>2, <1>3

(* An insert adds its id to one partition. *)
LEMMA AddKeeps ==
  ASSUME IvfIInv, NEW x \in Points, NEW p \in Payloads, Add(x, p)
  PROVE  IvfIInv'
<1> DEFINE pid == NearestPartition(centroids, x)
           n == nextId
<1>1. /\ partitions' = [partitions EXCEPT ![pid] = Append(@, n)]
      /\ stats' = [stats EXCEPT ![pid] = UpdateStats(@, p)]
      /\ raw' = Append(raw, x) /\ payloads' = Append(payloads, p)
      /\ sq8Dirty' = TRUE
      /\ idToPartition' = Append(idToPartition, pid)
      /\ nextId' = n + 1
      /\ UNCHANGED <<centroids, sq8>>
  BY DEF Add, PutStats
<1>2. /\ centroids \in Seq(Points) /\ raw \in Seq(Points) /\ partitions \in Seq(Seq(Nat))
      /\ idToPartition \in Seq(Pids) /\ payloads \in Seq(Payloads \cup {<<>>})
      /\ centroids # <<>> /\ stats = [i \in Pids |-> stats[i]]
  BY DEF IvfIInv, IndexInv, TypeOK, ShapeInv
<1>3. pid \in DOMAIN centroids /\ pid \in Pids
  BY <1>2, NearestExists, Shapes
<1>4. /\ n \in Nat /\ Len(raw) = n /\ Len(payloads) = n /\ Len(idToPartition) = n
      /\ Len(partitions) \in Nat \ {0} /\ Pids = 1..Len(partitions) /\ DOMAIN partitions = Pids
      /\ \A i \in Pids : partitions[i] \in Seq(Nat) /\ ToSet(partitions[i]) \subseteq Ids
      /\ \A i \in Pids : \A j \in 1..Len(partitions[i]) : partitions[i][j] \in Ids
      /\ \A id \in Ids : id \in Nat /\ id + 1 \in 1..n
  BY Shapes
<1> HIDE DEF pid, n
<1>5. /\ raw' \in Seq(Points) /\ Len(raw') = n + 1 /\ raw'[n + 1] = x
      /\ \A j \in 1..n : raw'[j] = raw[j]
  BY <1>1, <1>2, <1>4
<1>6. /\ payloads' \in Seq(Payloads \cup {<<>>}) /\ Len(payloads') = n + 1 /\ payloads'[n + 1] = p
      /\ \A j \in 1..n : payloads'[j] = payloads[j]
  <2>1. p \in Payloads \cup {<<>>}
    OBVIOUS
  <2> DEFINE S == Payloads \cup {<<>>}
  <2>2. payloads \in Seq(S) /\ p \in S
    BY <1>2, <2>1
  <2> HIDE DEF S
  <2>3. /\ payloads' \in Seq(S) /\ Len(payloads') = n + 1 /\ payloads'[n + 1] = p
        /\ \A j \in 1..n : payloads'[j] = payloads[j]
    BY <1>1, <1>4, <2>2, Longer
  <2>. QED
    BY <2>3 DEF S
<1>7. /\ idToPartition' \in Seq(Pids) /\ Len(idToPartition') = n + 1 /\ idToPartition'[n + 1] = pid
      /\ \A j \in 1..n : idToPartition'[j] = idToPartition[j]
  BY <1>1, <1>2, <1>3, <1>4
<1>8. /\ partitions' \in Seq(Seq(Nat)) /\ Len(partitions') = Len(partitions)
      /\ partitions'[pid] = Append(partitions[pid], n)
      /\ \A i \in Pids : i # pid => partitions'[i] = partitions[i]
  <2>1. Append(partitions[pid], n) \in Seq(Nat)
    BY <1>3, <1>4
  <2>. QED
    BY <1>1, <1>2, <1>3, <1>4, <2>1
<1>9. Pids' = Pids
  BY <1>8 DEF Pids
<1>10. Ids' = Ids \cup {n} /\ n \notin Ids
  BY <1>1, <1>4 DEF Ids, n
<1>11. /\ DOMAIN stats' = Pids /\ stats' = [i \in Pids |-> stats'[i]]
       /\ stats'[pid] = UpdateStats(stats[pid], p)
       /\ \A i \in Pids : i # pid => stats'[i] = stats[i]
  BY <1>1, <1>2, <1>3
<1>12. TypeOK'
  <2>1. Len(stats') = Len(partitions')
    <3>1. stats' = [i \in 1..Len(partitions) |-> stats'[i]]
      BY <1>4, <1>11
    <3> HIDE <1>1
    <3>2. Len(stats') = Len(partitions)
      BY <1>4, <3>1, AreSequences
    <3>. QED
      BY <1>8, <3>2
  <2>2. sq8' \in Seq(Seq(Points)) /\ centroids' \in Seq(Points) /\ nextId' \in Nat
    BY <1>1, <1>2, <1>4 DEF IvfIInv, IndexInv, TypeOK
  <2>. QED
    BY <1>1, <1>5, <1>6, <1>7, <1>8, <1>9, <2>1, <2>2 DEF TypeOK
<1>13. /\ IsInjective(partitions'[pid]) /\ ToSet(partitions'[pid]) = ToSet(partitions[pid]) \cup {n}
       /\ \A y : Contains(partitions'[pid], y) <=> Contains(partitions[pid], y) \/ y = n
       /\ \A i \in Pids : ~Contains(partitions[i], n)
  <2>1. n \notin ToSet(partitions[pid]) /\ IsInjective(partitions[pid])
    BY <1>3, <1>4, <1>10 DEF IvfIInv, IndexInv, IdsPlacedOnce
  <2>2. \A i \in Pids : ~Contains(partitions[i], n)
    <3>1. ASSUME NEW i \in Pids PROVE ~Contains(partitions[i], n)
      <4>1. n \notin ToSet(partitions[i]) /\ partitions[i] \in Seq(Nat)
        BY <1>4, <1>10
      <4>. QED
        BY <4>1, Listed
    <3>. QED
      BY <3>1
  <2>3. partitions[pid] \in Seq(Nat)
    BY <1>3, <1>4
  <2>. QED
    BY <1>4, <1>8, <2>1, <2>2, <2>3, Appended
<1>14. IdsPlacedOnce'
  <2>1. ASSUME NEW i \in Pids
        PROVE  IsInjective(partitions'[i]) /\ ToSet(partitions'[i]) \subseteq Ids'
    <3>1. CASE i = pid
      BY <1>3, <1>4, <1>10, <1>13, <3>1
    <3>2. CASE i # pid
      BY <1>4, <1>8, <1>10, <3>2 DEF IvfIInv, IndexInv, IdsPlacedOnce
    <3>. QED
      BY <3>1, <3>2
  <2>2. ASSUME NEW id \in Ids', NEW i \in Pids
        PROVE  Contains(partitions'[i], id) <=> idToPartition'[id + 1] = i
    <3>1. CASE id = n
      <4>1. idToPartition'[id + 1] = pid
        BY <1>7, <3>1
      <4>. QED
        BY <1>8, <1>13, <3>1, <4>1
    <3>2. CASE id # n
      <4>1. id \in Ids
        BY <1>10, <2>2, <3>2
      <4>2. idToPartition'[id + 1] = idToPartition[id + 1]
        BY <1>4, <1>7, <4>1
      <4>3. Contains(partitions'[i], id) <=> Contains(partitions[i], id)
        BY <1>8, <1>13, <3>2
      <4>4. Contains(partitions[i], id) <=> idToPartition[id + 1] = i
        BY <4>1 DEF IvfIInv, IndexInv, IdsPlacedOnce
      <4>. QED
        BY <4>2, <4>3, <4>4
    <3>. QED
      BY <3>1, <3>2
  <2>3. Len(raw') = nextId' /\ Len(idToPartition') = nextId'
    BY <1>1, <1>5, <1>7
  <2>. QED
    BY <1>9, <2>1, <2>2, <2>3 DEF IdsPlacedOnce
<1>15. StatsReproducible'
  <2>1. ASSUME NEW i \in Pids PROVE stats'[i] = StatsOf(partitions'[i], payloads')
    <3>1. partitions[i] \in Seq(Nat) /\ \A j \in 1..Len(partitions[i]) :
             payloads[partitions[i][j] + 1] = payloads'[partitions[i][j] + 1]
      BY <1>4, <1>6
    <3>2. StatsOf(partitions[i], payloads) = StatsOf(partitions[i], payloads')
      BY <3>1, StatsOfSame
    <3>3. stats[i] = StatsOf(partitions[i], payloads')
      BY <3>2 DEF IvfIInv, IndexInv, StatsReproducible
    <3>4. CASE i # pid
      BY <1>8, <1>11, <3>3, <3>4
    <3>5. CASE i = pid
      <4>1. StatsOf(Append(partitions[i], n), payloads') =
              UpdateStats(StatsOf(partitions[i], payloads'), payloads'[n + 1])
        BY <1>4, <3>1, StatsOfMore
      <4>. QED
        BY <1>6, <1>8, <1>11, <3>3, <3>5, <4>1
    <3>. QED
      BY <3>4, <3>5
  <2>. QED
    BY <1>9, <2>1 DEF StatsReproducible
<1>16. Sq8Fresh'
  BY <1>1 DEF Sq8Fresh
<1>17. ShapeInv'
  <2>1. centroids' # <<>> /\ Len(centroids') <= Len(partitions')
    BY <1>1, <1>2, <1>8 DEF IvfIInv, ShapeInv
  <2>. QED
    BY <1>6, <1>9, <1>11, <2>1 DEF ShapeInv
<1>18. PlacedNearest'
  <2>1. ASSUME NEW id \in Ids'
        PROVE  idToPartition'[id + 1] = NearestPartition(centroids', raw'[id + 1])
    <3>1. CASE id = n
      BY <1>1, <1>5, <1>7, <3>1 DEF pid
    <3>2. CASE id # n
      <4>1. id \in Ids /\ id + 1 \in 1..n
        BY <1>4, <1>10, <2>1, <3>2
      <4>. QED
        BY <1>1, <1>5, <1>7, <4>1 DEF IvfIInv, PlacedNearest
    <3>. QED
      BY <3>1, <3>2
  <2>. QED
    BY <2>1 DEF PlacedNearest
<1>19. StatsCover'
  <2>1. ASSUME NEW i \in Pids PROVE HasRanges(stats'[i])
    <3>1. HasRanges(stats[i]) /\ IsPayload(p)
      BY ArePayloads DEF IvfIInv, StatsCover
    <3>. QED
      BY <1>11, <3>1, UpdateRanges
  <2>2. ASSUME NEW id \in Ids'
        PROVE  Covers(stats'[idToPartition'[id + 1]], payloads'[id + 1])
    <3>1. HasRanges(stats[pid]) /\ IsPayload(p)
      BY <1>3, ArePayloads DEF IvfIInv, StatsCover
    <3>2. CASE id = n
      BY <1>6, <1>7, <1>11, <3>1, <3>2, UpdateCovers
    <3>3. CASE id # n
      <4>1. id \in Ids /\ id + 1 \in 1..n
        BY <1>4, <1>10, <2>2, <3>3
      <4>2. /\ payloads'[id + 1] = payloads[id + 1] /\ idToPartition'[id + 1] = idToPartition[id + 1]
            /\ idToPartition[id + 1] \in Pids /\ IsPayload(payloads[id + 1])
        BY <1>6, <1>7, <4>1, Shapes, ArePayloads
      <4>3. Covers(stats[idToPartition[id + 1]], payloads[id + 1])
        BY <4>1 DEF IvfIInv, StatsCover
      <4>4. CASE idToPartition[id + 1] = pid
        BY <1>11, <3>1, <4>2, <4>3, <4>4, UpdateCovers
      <4>5. CASE idToPartition[id + 1] # pid
        BY <1>11, <4>2, <4>3, <4>5
      <4>. QED
        BY <4>4, <4>5
    <3>. QED
      BY <3>2, <3>3
  <2>. QED
    BY <1>9, <2>1, <2>2 DEF StatsCover
<1>. QED
  BY <1>12, <1>14, <1>15, <1>16, <1>17, <1>18, <1>19 DEF IvfIInv, IndexInv

(* A new index has empty partitions around the zero vector. *)
LEMMA NewHolds == New => IvfIInv
<1> SUFFICES ASSUME New PROVE IvfIInv
  OBVIOUS
<1> DEFINE k == MinPartitions
<1>1. k \in Nat \ {0} /\ 0 \in Points
  BY SizesAssumption, PointsAssumption
<1>2. /\ centroids = [i \in 1..k |-> 0] /\ partitions = [i \in 1..k |-> <<>>]
      /\ raw = <<>> /\ payloads = <<>> /\ stats = [i \in 1..k |-> NoStats]
      /\ sq8 = [i \in 1..k |-> <<>>] /\ idToPartition = <<>>
      /\ sq8Dirty = FALSE /\ nextId = 0
  BY DEF New
<1> HIDE DEF k
<1>3. <<>> \in Seq(Nat) /\ <<>> \in Seq(Points) /\ <<>> \in Seq(Payloads \cup {<<>>})
      /\ <<>> \in Seq(Pids) /\ DOMAIN <<>> = {} /\ Len(<<>>) = 0
  BY EmptySeq
<1>4. centroids \in Seq(Points) /\ Len(centroids) = k
  BY <1>1, <1>2
<1>5. partitions \in Seq(Seq(Nat)) /\ Len(partitions) = k
  BY <1>1, <1>2, <1>3
<1>6. sq8 \in Seq(Seq(Points))
  <2> DEFINE S == Seq(Points)
  <2>1. sq8 \in [1..k -> S] /\ k \in Nat
    BY <1>1, <1>2, <1>3
  <2> HIDE DEF S
  <2>2. sq8 \in Seq(S)
    BY <2>1
  <2>. QED
    BY <2>2 DEF S
<1>7. Pids = 1..k /\ Ids = {}
  <2>1. nextId = 0
    BY <1>2
  <2>2. Ids = {}
    BY <2>1 DEF Ids
  <2>. QED
    BY <1>5, <2>2 DEF Pids
<1>8. Len(stats) = k /\ stats = [i \in Pids |-> stats[i]]
  <2>1. stats = [i \in 1..k |-> stats[i]]
    BY <1>2
  <2>2. Len(stats) = k
    BY <1>1, <2>1, AreSequences
  <2>. QED
    BY <1>7, <2>1, <2>2
<1>9. TypeOK
  BY <1>2, <1>3, <1>4, <1>5, <1>6, <1>8 DEF TypeOK
<1>10. IdsPlacedOnce
  <2>1. ToSet(<<>>) = {} /\ IsInjective(<<>>)
    BY <1>3 DEF ToSet, IsInjective
  <2>2. \A i \in Pids : partitions[i] = <<>>
    BY <1>2, <1>7
  <2>. QED
    BY <1>2, <1>3, <1>7, <2>1, <2>2 DEF IdsPlacedOnce
<1>11. StatsReproducible
  BY <1>2, <1>7, StatsOfNone DEF StatsReproducible
<1>12. Sq8Fresh
  <2>1. CodesOf(<<>>, raw) = <<>>
    BY <1>3 DEF CodesOf
  <2>. QED
    BY <1>2, <1>7, <2>1 DEF Sq8Fresh
<1>13. ShapeInv
  <2>1. centroids # <<>>
    BY <1>1, <1>3, <1>4
  <2>2. payloads \in Seq(Payloads \cup {<<>>})
    BY <1>2, <1>3
  <2>3. Len(centroids) <= Len(partitions)
    BY <1>1, <1>4, <1>5
  <2>. QED
    BY <1>8, <2>1, <2>2, <2>3 DEF ShapeInv
<1>14. PlacedNearest /\ StatsCover
  BY <1>2, <1>7, NoStatsCovers DEF PlacedNearest, StatsCover
<1>. QED
  BY <1>9, <1>10, <1>11, <1>12, <1>13, <1>14 DEF IvfIInv, IndexInv

(* build puts each vector into the partition nearest to it. *)
LEMMA BuildHolds ==
  ASSUME NEW vs \in Builds, Build(vs)
  PROVE  IvfIInv
<1> DEFINE k == NumPartitions(Len(vs))
           n == Len(vs)
<1>1. vs \in Seq(Points) /\ vs # <<>> /\ n \in Nat \ {0}
  <2>1. vs \in Seq(Points) /\ vs # <<>>
    BY BuildsAssumption
  <2>. QED
    BY <2>1, EmptySeq
<1>2. k \in Nat \ {0}
  BY <1>1, SomePartitions
<1>3. /\ centroids \in KMeans(vs, k) /\ raw = vs
      /\ payloads = [i \in 1..n |-> <<>>]
      /\ idToPartition = [i \in 1..n |-> NearestPartition(centroids, vs[i])]
      /\ partitions = [i \in 1..k |-> PlacedAt(idToPartition, i)]
      /\ stats = [i \in 1..k |-> StatsOf(partitions[i], payloads)]
      /\ sq8 = [i \in 1..k |-> CodesOf(partitions[i], raw)]
      /\ sq8Dirty = FALSE /\ nextId = n
  BY DEF Build
<1> HIDE DEF k
<1>4. centroids \in Seq(Points) /\ Len(centroids) \in 1..k
  <2>1. CASE k >= Len(vs)
    BY <1>1, <1>2, <1>3, <2>1 DEF KMeans
  <2>2. CASE ~(k >= Len(vs))
    <3>1. centroids \in [1..k -> Points]
      BY <1>3, <2>2 DEF KMeans
    <3>. QED
      BY <1>2, <3>1
  <2>. QED
    BY <2>1, <2>2
<1> HIDE DEF n
<1>5. centroids # <<>>
  BY <1>2, <1>4, EmptySeq
<1>6. ASSUME NEW i \in 1..n PROVE vs[i] \in Points /\ NearestPartition(centroids, vs[i]) \in 1..k
  <2>1. vs[i] \in Points
    BY <1>1 DEF n
  <2>2. NearestPartition(centroids, vs[i]) \in DOMAIN centroids
    BY <1>4, <1>5, <2>1, NearestExists
  <2>. QED
    BY <1>2, <1>4, <2>1, <2>2
<1>7. idToPartition \in Seq(1..k) /\ Len(idToPartition) = n
  <2> DEFINE S == 1..k
  <2>1. idToPartition \in [1..n -> S] /\ n \in Nat
    BY <1>1, <1>3, <1>6
  <2> HIDE DEF S
  <2>2. idToPartition \in Seq(S) /\ Len(idToPartition) = n
    BY <2>1
  <2>. QED
    BY <2>2 DEF S
<1>8. ASSUME NEW i \in 1..k
      PROVE  /\ partitions[i] \in Seq(Nat) /\ IsInjective(partitions[i])
             /\ ToSet(partitions[i]) = {id \in 0..(n - 1) : idToPartition[id + 1] = i}
  <2>1. partitions[i] = PlacedAt(idToPartition, i)
    BY <1>3
  <2>. QED
    BY <1>7, <2>1, PlacedAtIs
<1>9. partitions \in Seq(Seq(Nat)) /\ Len(partitions) = k
  <2>1. partitions \in [1..k -> Seq(Nat)]
    BY <1>3, <1>8
  <2>. QED
    BY <1>2, <2>1
<1>10. Pids = 1..k /\ Ids = 0..(n - 1)
  BY <1>3, <1>9 DEF Pids, Ids
<1>11. payloads \in Seq(Payloads \cup {<<>>}) /\ Len(payloads) = n
  BY <1>1, <1>3
<1>12. ASSUME NEW i \in 1..k, NEW j \in 1..Len(partitions[i])
       PROVE  partitions[i][j] \in Ids
  <2>1. partitions[i][j] \in ToSet(partitions[i])
    BY <1>8 DEF ToSet
  <2>. QED
    BY <1>8, <1>10, <2>1
<1>13. ASSUME NEW i \in 1..k PROVE StatsOf(partitions[i], payloads) = NoStats
  <2>1. \A j \in 1..Len(partitions[i]) : payloads[partitions[i][j] + 1] = <<>>
    <3>1. ASSUME NEW j \in 1..Len(partitions[i]) PROVE payloads[partitions[i][j] + 1] = <<>>
      <4>1. partitions[i][j] + 1 \in 1..n
        BY <1>1, <1>10, <1>12
      <4>. QED
        BY <1>3, <4>1
    <3>. QED
      BY <3>1
  <2>. QED
    BY <1>8, <2>1, StatsOfEmpty
<1>14. sq8 \in Seq(Seq(Points))
  <2>1. ASSUME NEW i \in 1..k PROVE CodesOf(partitions[i], raw) \in Seq(Points)
    <3>1. \A j \in 1..Len(partitions[i]) : partitions[i][j] \in 0..(Len(raw) - 1)
      BY <1>3, <1>10, <1>12 DEF n
    <3>. QED
      BY <1>1, <1>3, <1>8, <3>1, CodesAre
  <2>2. sq8 \in [1..k -> Seq(Points)]
    BY <1>3, <2>1
  <2>. QED
    BY <1>2, <2>2
<1>15. Len(stats) = k /\ stats = [i \in Pids |-> stats[i]]
  <2>1. stats = [i \in 1..k |-> stats[i]]
    BY <1>3
  <2>2. Len(stats) = k
    BY <1>2, <2>1, AreSequences
  <2>. QED
    BY <1>10, <2>1, <2>2
<1>16. TypeOK
  <2>1. Len(payloads) = Len(raw) /\ raw \in Seq(Points)
    BY <1>1, <1>3, <1>11 DEF n
  <2>2. nextId \in Nat /\ sq8Dirty \in BOOLEAN /\ idToPartition \in Seq(Pids)
    BY <1>1, <1>3, <1>7, <1>10
  <2>. QED
    BY <1>4, <1>9, <1>14, <1>15, <2>1, <2>2 DEF TypeOK
<1>17. IdsPlacedOnce
  <2>1. \A i \in Pids : IsInjective(partitions[i]) /\ ToSet(partitions[i]) \subseteq Ids
    BY <1>8, <1>10
  <2>2. ASSUME NEW id \in Ids, NEW i \in Pids
        PROVE  Contains(partitions[i], id) <=> idToPartition[id + 1] = i
    <3>1. Contains(partitions[i], id) <=> id \in ToSet(partitions[i])
      BY <1>8, <1>10, Listed
    <3>. QED
      BY <1>8, <1>10, <3>1
  <2>. QED
    BY <1>3, <1>7, <2>1, <2>2 DEF IdsPlacedOnce, n
<1>18. StatsReproducible /\ Sq8Fresh
  BY <1>3, <1>10 DEF StatsReproducible, Sq8Fresh
<1>19. ShapeInv
  BY <1>4, <1>5, <1>9, <1>11, <1>15 DEF ShapeInv
<1>20. PlacedNearest
  <2>1. ASSUME NEW id \in Ids
        PROVE  idToPartition[id + 1] = NearestPartition(centroids, raw[id + 1])
    <3>1. id + 1 \in 1..n
      BY <1>1, <1>10
    <3>. QED
      BY <1>3, <3>1
  <2>. QED
    BY <2>1 DEF PlacedNearest
<1>21. StatsCover
  <2>1. \A i \in Pids : stats[i] = NoStats
    BY <1>3, <1>10, <1>13
  <2>2. ASSUME NEW id \in Ids PROVE idToPartition[id + 1] \in Pids /\ payloads[id + 1] = <<>>
    <3>1. id + 1 \in 1..n
      BY <1>1, <1>10
    <3>. QED
      BY <1>3, <1>6, <1>10, <3>1
  <2>. QED
    BY <2>1, <2>2, NoStatsCovers DEF StatsCover
<1>. QED
  BY <1>16, <1>17, <1>18, <1>19, <1>20, <1>21 DEF IvfIInv, IndexInv

LEMMA IvfStep == IvfIInv /\ [Next]_vars => IvfIInv'
<1> SUFFICES ASSUME IvfIInv, [Next]_vars PROVE IvfIInv'
  OBVIOUS
<1>1. CASE RebuildSq8
  BY <1>1, Recoded DEF RebuildSq8
<1>2. CASE Reload
  <2>1. sq8' = [i \in Pids |-> CodesOf(partitions[i], raw)] /\ sq8Dirty' = FALSE
    BY <1>2 DEF Reload
  <2>. QED
    BY <1>2, <2>1, ReloadSame, Recoded
<1>3. CASE UNCHANGED vars
  <2>1. Pids' = Pids /\ Ids' = Ids
    BY <1>3 DEF vars, Pids, Ids
  <2>2. UNCHANGED <<centroids, partitions, raw, payloads, stats, sq8, idToPartition, sq8Dirty, nextId>>
    BY <1>3 DEF vars
  <2>3. IndexInv'
    BY <2>1, <2>2 DEF IvfIInv, IndexInv, TypeOK, IdsPlacedOnce, StatsReproducible, Sq8Fresh
  <2>4. ShapeInv' /\ PlacedNearest' /\ StatsCover'
    BY <2>1, <2>2 DEF IvfIInv, ShapeInv, PlacedNearest, StatsCover
  <2>. QED
    BY <2>3, <2>4 DEF IvfIInv
<1>. QED
  BY <1>1, <1>2, <1>3, AddKeeps DEF Next

LEMMA IvfInvariant == Spec => []IvfIInv
<1>1. Init => IvfIInv
  BY NewHolds, BuildHolds DEF Init
<1>. QED
  BY <1>1, IvfStep, PTL DEF Spec

(* Inserts, rebuilds of the codes and reloads keep the arrays, the         *)
(* partitions, the statistics and the codes of the index in agreement.     *)
THEOREM IndexAgrees == Spec => []IndexInv
<1>1. IvfIInv => IndexInv
  BY DEF IvfIInv
<1>. QED
  BY <1>1, IvfInvariant, PTL

-----------------------------------------------------------------------------
(* Filters. *)

(* What is true of the trees of a set for a reason: a comparison in L, a   *)
(* node of ors with one such part, any other node with both.               *)
Because(t, L, ors, F) ==
  IF t.op \in {"and", "or"}
  THEN IF t.op \in ors THEN t.left \in F \/ t.right \in F
       ELSE t.left \in F /\ t.right \in F
  ELSE t \in L

(* A recursive definition over the trees has a solution: the largest set   *)
(* of trees that justifies itself.                                         *)
LEMMA TruthExists ==
  ASSUME NEW L, NEW ors
  PROVE  \E E \in SUBSET Trees : \A t \in Trees : t \in E <=> Because(t, L, ors, E)
<1> DEFINE Fs == {F \in SUBSET Trees : \A t \in F : Because(t, L, ors, F)}
           E == UNION Fs
<1>1. ASSUME NEW F, NEW G, F \subseteq G, NEW t, Because(t, L, ors, F) PROVE Because(t, L, ors, G)
  BY <1>1 DEF Because
<1>2. E \in SUBSET Trees
  OBVIOUS
<1>3. ASSUME NEW t \in E PROVE Because(t, L, ors, E)
  <2>1. PICK F \in Fs : t \in F
    OBVIOUS
  <2>2. Because(t, L, ors, F) /\ F \subseteq E
    BY <2>1
  <2>. QED
    BY <1>1, <2>2
<1>4. ASSUME NEW t \in Trees, Because(t, L, ors, E) PROVE t \in E
  <2> DEFINE G == E \cup {t}
  <2>1. ASSUME NEW u \in G PROVE Because(u, L, ors, E)
    BY <1>3, <1>4, <2>1
  <2>2. E \subseteq G /\ t \in G /\ G \in SUBSET Trees
    BY <1>2
  <2> HIDE DEF G, E
  <2>3. \A u \in G : Because(u, L, ors, G)
    BY <1>1, <2>1, <2>2
  <2>4. G \in Fs
    BY <2>2, <2>3
  <2>. QED
    BY <2>2, <2>4 DEF E
<1> HIDE DEF E
<1>. QED
  BY <1>2, <1>3, <1>4

LEMMA FilterSolves ==
  ASSUME NEW A \in [Trees -> BOOLEAN]
  PROVE  \E f : f = [t \in Trees |-> CASE t.op = "and" -> f[t.left] /\ f[t.right]
                                       [] t.op = "or"  -> f[t.left] \/ f[t.right]
                                       [] OTHER        -> A[t]]
<1> DEFINE Body(f, t) == CASE t.op = "and" -> f[t.left] /\ f[t.right]
                           [] t.op = "or"  -> f[t.left] \/ f[t.right]
                           [] OTHER        -> A[t]
           L == {t \in Trees : A[t]}
<1>1. PICK E \in SUBSET Trees : \A t \in Trees : t \in E <=> Because(t, L, {"or"}, E)
  BY TruthExists
<1> DEFINE f == [t \in Trees |-> t \in E]
<1>2. ASSUME NEW t \in Trees PROVE (t \in E) = Body(f, t)
  <2>1. CASE t.op = "and"
    <3>1. t.left \in Trees /\ t.right \in Trees
      BY <2>1, TreesAssumption
    <3>2. t \in E <=> t.left \in E /\ t.right \in E
      BY <1>1, <2>1 DEF Because
    <3>3. Body(f, t) = (f[t.left] /\ f[t.right])
      BY <2>1
    <3>4. f[t.left] = (t.left \in E) /\ f[t.right] = (t.right \in E)
      BY <3>1
    <3>5. (t \in E) = (t.left \in E /\ t.right \in E)
      BY <3>2
    <3>6. (f[t.left] /\ f[t.right]) = (t.left \in E /\ t.right \in E)
      BY <3>4
    <3> HIDE DEF Body, f
    <3>. QED
      BY <3>3, <3>5, <3>6
  <2>2. CASE t.op = "or"
    <3>1. t.left \in Trees /\ t.right \in Trees
      BY <2>2, TreesAssumption
    <3>2. t \in E <=> t.left \in E \/ t.right \in E
      BY <1>1, <2>2 DEF Because
    <3>3. Body(f, t) = (f[t.left] \/ f[t.right])
      BY <2>2
    <3>4. f[t.left] = (t.left \in E) /\ f[t.right] = (t.right \in E)
      BY <3>1
    <3>5. (t \in E) = (t.left \in E \/ t.right \in E)
      BY <3>2
    <3>6. (f[t.left] \/ f[t.right]) = (t.left \in E \/ t.right \in E)
      BY <3>4
    <3> HIDE DEF Body, f
    <3>. QED
      BY <3>3, <3>5, <3>6
  <2>3. CASE t.op \notin {"and", "or"}
    <3>1. t \in E <=> A[t]
      BY <1>1, <2>3 DEF Because
    <3>2. Body(f, t) = A[t]
      BY <2>3
    <3>. QED
      BY <3>1, <3>2
  <2>. QED
    BY <2>1, <2>2, <2>3
<1>3. f = [t \in Trees |-> Body(f, t)]
  BY <1>2
<1>. QED
  BY <1>3

LEMMA TellsSolves ==
  ASSUME NEW A \in [Trees -> BOOLEAN]
  PROVE  \E f : f = [t \in Trees |-> IF t.op \in {"and", "or"} THEN f[t.left] /\ f[t.right]
                                     ELSE A[t]]
<1> DEFINE Body(f, t) == IF t.op \in {"and", "or"} THEN f[t.left] /\ f[t.right]
                         ELSE A[t]
           L == {t \in Trees : A[t]}
<1>1. PICK E \in SUBSET Trees : \A t \in Trees : t \in E <=> Because(t, L, {}, E)
  BY TruthExists
<1> DEFINE f == [t \in Trees |-> t \in E]
<1>2. ASSUME NEW t \in Trees PROVE (t \in E) = Body(f, t)
  <2>1. CASE t.op \in {"and", "or"}
    <3>1. t.left \in Trees /\ t.right \in Trees
      BY <2>1, TreesAssumption
    <3>2. t \in E <=> t.left \in E /\ t.right \in E
      BY <1>1, <2>1 DEF Because
    <3>3. Body(f, t) = (f[t.left] /\ f[t.right])
      BY <2>1
    <3>4. f[t.left] = (t.left \in E) /\ f[t.right] = (t.right \in E)
      BY <3>1
    <3>5. (t \in E) = (t.left \in E /\ t.right \in E)
      BY <3>2
    <3>6. (f[t.left] /\ f[t.right]) = (t.left \in E /\ t.right \in E)
      BY <3>4
    <3> HIDE DEF Body, f
    <3>. QED
      BY <3>3, <3>5, <3>6
  <2>2. CASE t.op \notin {"and", "or"}
    <3>1. t \in E <=> A[t]
      BY <1>1, <2>2 DEF Because
    <3>2. Body(f, t) = A[t]
      BY <2>2
    <3>. QED
      BY <3>1, <3>2
  <2>. QED
    BY <2>1, <2>2
<1>3. f = [t \in Trees |-> Body(f, t)]
  BY <1>2
<1>. QED
  BY <1>3

(* What the filters say of a payload and of statistics, part by part.      *)
LEMMA EvalIs ==
  ASSUME NEW p
  PROVE  \A t \in Trees :
           /\ t.op = "and" => (Eval(t, p) <=> Eval(t.left, p) /\ Eval(t.right, p))
           /\ t.op = "or" => (Eval(t, p) <=> Eval(t.left, p) \/ Eval(t.right, p))
           /\ t.op \notin {"and", "or"} => (Eval(t, p) <=> EvalAtom(t, p))
<1> DEFINE Body(f, t) == CASE t.op = "and" -> f[t.left] /\ f[t.right]
                           [] t.op = "or"  -> f[t.left] \/ f[t.right]
                           [] OTHER        -> EvalAtom(t, p)
           A == [t \in Trees |-> EvalAtom(t, p)]
<1>1. ASSUME NEW t PROVE EvalAtom(t, p) \in BOOLEAN
  BY DEF EvalAtom
<1>2. A \in [Trees -> BOOLEAN] /\ \A t \in Trees : A[t] = EvalAtom(t, p)
  BY <1>1
<1> HIDE DEF A
<1>3. PICK f : f = [t \in Trees |-> CASE t.op = "and" -> f[t.left] /\ f[t.right]
                                      [] t.op = "or"  -> f[t.left] \/ f[t.right]
                                      [] OTHER        -> A[t]]
  BY <1>2, FilterSolves
<1>4. f = [t \in Trees |-> Body(f, t)]
  BY <1>2, <1>3
<1> DEFINE g == CHOOSE h : h = [t \in Trees |-> Body(h, t)]
<1>5. g = [t \in Trees |-> Body(g, t)]
  BY <1>4
<1>6. \A t : Eval(t, p) = g[t]
  BY DEF Eval
<1> HIDE DEF g
<1>7. \A t \in Trees : g[t] = Body(g, t)
  BY <1>5
<1>. QED
  BY <1>6, <1>7

LEMMA MatchIs ==
  ASSUME NEW s
  PROVE  \A t \in Trees :
           /\ t.op = "and" => (Match(t, s) <=> Match(t.left, s) /\ Match(t.right, s))
           /\ t.op = "or" => (Match(t, s) <=> Match(t.left, s) \/ Match(t.right, s))
           /\ t.op \notin {"and", "or"} => (Match(t, s) <=> MatchAtom(t, s))
<1> DEFINE Body(f, t) == CASE t.op = "and" -> f[t.left] /\ f[t.right]
                           [] t.op = "or"  -> f[t.left] \/ f[t.right]
                           [] OTHER        -> MatchAtom(t, s)
           A == [t \in Trees |-> MatchAtom(t, s)]
<1>1. ASSUME NEW t PROVE MatchAtom(t, s) \in BOOLEAN
  BY DEF MatchAtom, MatchIn
<1>2. A \in [Trees -> BOOLEAN] /\ \A t \in Trees : A[t] = MatchAtom(t, s)
  BY <1>1
<1> HIDE DEF A
<1>3. PICK f : f = [t \in Trees |-> CASE t.op = "and" -> f[t.left] /\ f[t.right]
                                      [] t.op = "or"  -> f[t.left] \/ f[t.right]
                                      [] OTHER        -> A[t]]
  BY <1>2, FilterSolves
<1>4. f = [t \in Trees |-> Body(f, t)]
  BY <1>2, <1>3
<1> DEFINE g == CHOOSE h : h = [t \in Trees |-> Body(h, t)]
<1>5. g = [t \in Trees |-> Body(g, t)]
  BY <1>4
<1>6. \A t : Match(t, s) = g[t]
  BY DEF Match
<1> HIDE DEF g
<1>7. \A t \in Trees : g[t] = Body(g, t)
  BY <1>5
<1>. QED
  BY <1>6, <1>7

LEMMA DescribesIs ==
  ASSUME NEW s
  PROVE  \A t \in Trees :
           /\ t.op \in {"and", "or"} =>
                (Describes(s, t) <=> Describes(s, t.left) /\ Describes(s, t.right))
           /\ t.op \notin {"and", "or"} => (Describes(s, t) <=> TellsOf(s, t.field))
<1> DEFINE Body(f, t) == IF t.op \in {"and", "or"} THEN f[t.left] /\ f[t.right]
                         ELSE TellsOf(s, t.field)
           A == [t \in Trees |-> TellsOf(s, t.field)]
<1>1. ASSUME NEW t PROVE TellsOf(s, t.field) \in BOOLEAN
  BY DEF TellsOf
<1>2. A \in [Trees -> BOOLEAN] /\ \A t \in Trees : A[t] = TellsOf(s, t.field)
  BY <1>1
<1> HIDE DEF A
<1>3. PICK f : f = [t \in Trees |-> IF t.op \in {"and", "or"} THEN f[t.left] /\ f[t.right]
                                    ELSE A[t]]
  BY <1>2, TellsSolves
<1>4. f = [t \in Trees |-> Body(f, t)]
  BY <1>2, <1>3
<1> DEFINE g == CHOOSE h : h = [t \in Trees |-> Body(h, t)]
<1>5. g = [t \in Trees |-> Body(g, t)]
  BY <1>4
<1>6. \A t : Describes(s, t) = g[t]
  BY DEF Describes
<1> HIDE DEF g
<1>7. \A t \in Trees : g[t] = Body(g, t)
  BY <1>5
<1>. QED
  BY <1>6, <1>7

(* A comparison that a payload passes is not ruled out by statistics that  *)
(* cover the payload and tell all there is to tell of the field.           *)
LEMMA AtomPushed ==
  ASSUME NEW a \in Trees, a.op \notin {"and", "or"}, NEW s, NEW p,
         HasRanges(s), IsPayload(p), Covers(s, p), TellsOf(s, a.field), EvalAtom(a, p)
  PROVE  MatchAtom(a, s)
<1> DEFINE f == a.field
<1>1. ASSUME f \in NumFields(p)
      PROVE  /\ f \in DOMAIN s.ranges /\ InRange(p[f].v, s.ranges[f]) /\ f \notin DOMAIN s.strings
             /\ p[f].v \in Int /\ s.ranges[f] \in Int \X Int
  BY <1>1 DEF Covers, HasRanges, IsPayload, TellsOf, NumFields
<1>2. ASSUME f \in StringFields(p)
      PROVE  f \in DOMAIN s.strings /\ p[f].v \in s.strings[f]
  BY <1>2 DEF Covers, TellsOf
<1>3. CASE a.op = "in"
  <2>1. PICK v \in a.values : Same(p, f, v)
    BY <1>3 DEF EvalAtom
  <2>2. f \in DOMAIN p /\ p[f].kind = v.kind /\ p[f].v = v.v
    BY <2>1 DEF Same, Comparable
  <2>3. v.kind \in {"num", "str"}
    BY <1>3, TreesAssumption
  <2>4. MatchIn(f, a.values, s)
    <3>1. CASE v.kind = "str"
      <4>1. f \in StringFields(p)
        BY <2>2, <3>1 DEF StringFields
      <4>. QED
        BY <1>2, <2>2, <3>1, <4>1 DEF MatchIn
    <3>2. CASE v.kind = "num"
      <4>1. f \in NumFields(p)
        BY <2>2, <3>2 DEF NumFields
      <4>. QED
        BY <1>1, <2>2, <3>2, <4>1 DEF MatchIn
    <3>. QED
      BY <2>3, <3>1, <3>2
  <2>. QED
    BY <1>3, <2>4 DEF MatchAtom
<1>4. CASE a.op = "!="
  BY <1>4 DEF MatchAtom
<1>5. CASE a.op \notin {"in", "!="} /\ a.value.kind = "num"
  <2>1. /\ a.op \in {"=", "<", "<=", ">", ">="}
        /\ f \in DOMAIN p /\ p[f].kind = a.value.kind
    BY <1>5 DEF EvalAtom, Same, Below, Above, Comparable
  <2>2. f \in NumFields(p) /\ a.value.v \in Int
    BY <1>5, <2>1, TreesAssumption DEF NumFields
  <2> DEFINE m == p[f].v
             n == a.value.v
             r == s.ranges[f]
  <2>3. /\ f \in DOMAIN s.ranges /\ m \in Int /\ n \in Int /\ r[1] \in Int /\ r[2] \in Int
        /\ r[1] <= m /\ m <= r[2]
    BY <1>1, <2>2 DEF InRange
  <2>4. /\ a.op = "=" => m = n
        /\ a.op = "<" => m < n
        /\ a.op = "<=" => m < n \/ m = n
        /\ a.op = ">" => m > n
        /\ a.op = ">=" => m > n \/ m = n
    BY DEF EvalAtom, Same, Below, Above
  <2> HIDE DEF m, n, r
  <2>5. /\ a.op = "=" => r[1] <= n /\ n <= r[2]
        /\ a.op = "<" => r[1] < n
        /\ a.op = "<=" => r[1] <= n
        /\ a.op = ">" => r[2] > n
        /\ a.op = ">=" => r[2] >= n
    BY <2>3, <2>4
  <2>6. MatchOrder(a.op, n, r)
    BY <2>1, <2>5 DEF MatchOrder, InRange
  <2>. QED
    BY <1>5, <2>6 DEF MatchAtom, n, r
<1>6. CASE a.op \notin {"in", "!="} /\ a.value.kind # "num"
  <2>1. CASE a.op = "=" /\ a.value.kind = "str"
    <3>1. f \in StringFields(p) /\ p[f].v = a.value.v
      BY <2>1 DEF EvalAtom, Same, Comparable, StringFields
    <3>2. a.value.v \in s.strings[f]
      BY <1>2, <3>1
    <3>. QED
      BY <2>1, <3>2 DEF MatchAtom
  <2>2. CASE ~(a.op = "=" /\ a.value.kind = "str")
    BY <1>6, <2>2 DEF MatchAtom
  <2>. QED
    BY <2>1, <2>2
<1>. QED
  BY <1>3, <1>4, <1>5, <1>6

(* The same of a filter, by the height of its tree. *)
LEMMA FilterPushed ==
  ASSUME NEW s, NEW p, HasRanges(s), IsPayload(p), Covers(s, p)
  PROVE  \A q \in Trees : Describes(s, q) /\ Eval(q, p) => Match(q, s)
<1> DEFINE Bad == {q \in Trees : Describes(s, q) /\ Eval(q, p) /\ ~Match(q, s)}
           Hs == {Height[q] : q \in Bad}
<1>1. SUFFICES ASSUME Bad # {} PROVE FALSE
  OBVIOUS
<1>2. PICK h \in Hs : \A n \in Hs : h <= n
  <2>1. Hs \in SUBSET Nat /\ Hs # {}
    BY <1>1, TreesAssumption
  <2>. QED
    BY <2>1, Least
<1>3. PICK q \in Bad : Height[q] = h
  BY <1>2
<1>4. q \in Trees /\ Describes(s, q) /\ Eval(q, p) /\ ~Match(q, s)
  BY <1>3
<1>5. CASE q.op \notin {"and", "or"}
  BY <1>4, <1>5, AtomPushed, EvalIs, MatchIs, DescribesIs
<1>6. CASE q.op \in {"and", "or"}
  <2>1. ASSUME NEW u \in {q.left, q.right}, Describes(s, u), Eval(u, p) PROVE Match(u, s)
    <3>1. u \in Trees /\ Height[u] < Height[q] /\ Height[u] \in Nat /\ Height[q] \in Nat
      BY <1>4, <1>6, TreesAssumption
    <3>2. u \notin Bad
      BY <1>2, <1>3, <3>1
    <3>. QED
      BY <2>1, <3>1, <3>2
  <2>2. Describes(s, q.left) /\ Describes(s, q.right)
    BY <1>4, <1>6, DescribesIs
  <2>3. CASE q.op = "and"
    <3>1. Eval(q.left, p) /\ Eval(q.right, p)
      BY <1>4, <2>3, EvalIs
    <3>2. Match(q.left, s) /\ Match(q.right, s)
      BY <2>1, <2>2, <3>1
    <3>. QED
      BY <1>4, <2>3, <3>2, MatchIs
  <2>4. CASE q.op = "or"
    <3>1. Eval(q.left, p) \/ Eval(q.right, p)
      BY <1>4, <2>4, EvalIs
    <3>2. Match(q.left, s) \/ Match(q.right, s)
      BY <2>1, <2>2, <3>1
    <3>. QED
      BY <1>4, <2>4, <3>2, MatchIs
  <2>. QED
    BY <1>6, <2>3, <2>4
<1>. QED
  BY <1>5, <1>6

LEMMA MatchesAreEligible ==
  ASSUME IvfIInv, NEW q \in Trees, Described(q), NEW id \in Ids, Eval(q, payloads[id + 1])
  PROVE  Match(q, stats[idToPartition[id + 1]])
<1>1. /\ idToPartition[id + 1] \in Pids /\ payloads[id + 1] \in Payloads \cup {<<>>}
  BY Shapes
<1> DEFINE s == stats[idToPartition[id + 1]]
           p == payloads[id + 1]
<1>2. HasRanges(s) /\ Covers(s, p) /\ IsPayload(p) /\ Describes(s, q) /\ Eval(q, p)
  BY <1>1, ArePayloads DEF IvfIInv, StatsCover, Described
<1> HIDE DEF s, p
<1>3. Match(q, s)
  BY <1>2, FilterPushed
<1>. QED
  BY <1>3 DEF s

(* For every filter, whatever its shape: a partition that holds a match is *)
(* not skipped, as long as the statistics describe it.                     *)
THEOREM PushdownIsSound == Spec => []PushdownSound
<1>1. IvfIInv => PushdownSound
  <2> SUFFICES ASSUME IvfIInv, NEW q \in Pushdowns, Described(q), NEW id \in Matching(q)
               PROVE  Match(q, stats[idToPartition[id + 1]])
    BY DEF PushdownSound
  <2>1. q \in Trees /\ id \in Ids /\ Passes(q, payloads[id + 1])
    BY FiltersAssumption DEF Matching
  <2>2. q # NoFilter
    BY <2>1, TreesAssumption DEF NoFilter
  <2>. QED
    BY <2>1, <2>2, MatchesAreEligible DEF Passes
<1>. QED
  BY <1>1, IvfInvariant, PTL

-----------------------------------------------------------------------------
(* Searches. *)

LEMMA LesserOf ==
  ASSUME NEW a \in Nat, NEW b \in Nat
  PROVE  Min({a, b}) = IF a <= b THEN a ELSE b
<1>1. CASE a <= b
  BY <1>1 DEF Min
<1>2. CASE ~(a <= b)
  BY <1>2 DEF Min
<1>. QED
  BY <1>1, <1>2

LEMMA WholeSubset ==
  ASSUME NEW S, IsFiniteSet(S)
  PROVE  kSubset(Cardinality(S), S) = {S}
<1>1. ASSUME NEW T \in kSubset(Cardinality(S), S) PROVE T = S
  BY FS_Subset DEF kSubset
<1>2. S \in kSubset(Cardinality(S), S)
  BY DEF kSubset
<1>. QED
  BY <1>1, <1>2

(* Partitions, ids and what is taken of them are finite. *)
LEMMA Finite ==
  ASSUME IvfIInv, NEW q
  PROVE  /\ IsFiniteSet(Pids) /\ Cardinality(Pids) = Len(partitions)
         /\ IsFiniteSet(Ids) /\ Cardinality(Ids) = nextId
         /\ Eligible(q) \subseteq Pids /\ IsFiniteSet(Eligible(q))
         /\ Cardinality(Eligible(q)) \in Nat /\ Cardinality(Eligible(q)) <= Len(partitions)
         /\ Matching(q) \subseteq Ids /\ IsFiniteSet(Matching(q))
<1>1. Len(partitions) \in Nat /\ nextId \in Nat /\ Pids = 1..Len(partitions) /\ Ids = 0..(nextId - 1)
  BY Shapes DEF Ids
<1>2. IsFiniteSet(Pids) /\ Cardinality(Pids) = Len(partitions)
  <2>1. \A m \in Nat : IsFiniteSet(1..m) /\ Cardinality(1..m) = m
    BY FS_Interval
  <2>. QED
    BY <1>1, <2>1
<1>3. IsFiniteSet(Ids) /\ Cardinality(Ids) = nextId
  BY <1>1, FS_Interval
<1>4. Eligible(q) \subseteq Pids /\ Matching(q) \subseteq Ids
  BY DEF Eligible, Matching
<1>5. IsFiniteSet(Eligible(q)) /\ Cardinality(Eligible(q)) <= Len(partitions)
  BY <1>2, <1>4, FS_Subset
<1>6. IsFiniteSet(Matching(q))
  BY <1>3, <1>4, FS_Subset
<1>7. Cardinality(Eligible(q)) \in Nat
  BY <1>5, FS_CardinalityType
<1>. QED
  BY <1>2, <1>3, <1>4, <1>5, <1>6, <1>7

(* A search of all partitions takes all of them that are left, and finds   *)
(* every vector that the filter lets through.                              *)
LEMMA SearchAll ==
  ASSUME IvfIInv, NEW x, NEW k, NEW rk, NEW q, q = NoFilter \/ (q \in Trees /\ Described(q)),
         Routable(q)
  PROVE  Search(x, q, k, 0, rk) = TopK(x, Matching(q), k)
<1> DEFINE E == Eligible(q)
           M == Matching(q)
           n == Len(partitions)
<1>1. n \in Nat /\ Probes(0) = n
  BY Shapes DEF Probes
<1>2. /\ IsFiniteSet(E) /\ Cardinality(E) \in Nat /\ Cardinality(E) <= n
      /\ IsFiniteSet(M) /\ M \subseteq Ids
  BY Finite
<1>3. Routes(x, q, n) = {E}
  <2>1. Min({n, Cardinality(E)}) = Cardinality(E)
    BY <1>1, <1>2, LesserOf
  <2>2. kSubset(Cardinality(E), E) = {E}
    BY <1>2, WholeSubset
  <2>3. Routes(x, q, n) = {R \in kSubset(Min({n, Cardinality(E)}), E) :
           \A r \in R, i \in E \ R :
             /\ Distance(x, centroids[r]) <= Distance(x, centroids[i])
             /\ centroids[r] = centroids[i] => r < i}
    BY DEF Routes
  <2>4. E \ E = {}
    OBVIOUS
  <2> HIDE DEF E, n
  <2>. QED
    BY <2>1, <2>2, <2>3, <2>4
<1>4. Scan(E, q) = M
  <2>1. ASSUME NEW id \in M PROVE \E i \in E : Contains(partitions[i], id)
    <3>1. id \in Ids /\ Passes(q, payloads[id + 1])
      BY DEF Matching
    <3>2. idToPartition[id + 1] \in Pids
      BY <3>1, Shapes
    <3>3. Contains(partitions[idToPartition[id + 1]], id)
      BY <3>1, <3>2 DEF IvfIInv, IndexInv, IdsPlacedOnce
    <3>4. q = NoFilter \/ Match(q, stats[idToPartition[id + 1]])
      BY <3>1, MatchesAreEligible DEF Passes
    <3>. QED
      BY <3>2, <3>3, <3>4 DEF Eligible
  <2>. QED
    BY <2>1 DEF Scan
<1>5. Refined(M, n, rk) = Cardinality(M)
  BY DEF Refined
<1>6. kSubset(Cardinality(M), M) = {M}
  BY <1>2, WholeSubset
<1> DEFINE answers(C) == UNION {TopK(x, S, k) : S \in kSubset(Refined(C, n, rk), C)}
<1>7. Search(x, q, k, 0, rk) = UNION {answers(Scan(R, q)) : R \in Routes(x, q, n)}
  BY <1>1 DEF Search
<1>8. answers(M) = TopK(x, M, k)
  BY <1>5, <1>6
<1> HIDE DEF answers, M, E, n
<1>9. UNION {answers(Scan(R, q)) : R \in {E}} = answers(M)
  BY <1>4
<1>. QED
  BY <1>3, <1>7, <1>8, <1>9 DEF M

(* Looking into all partitions with refinement is an exact search. *)
THEOREM ExhaustiveSearchIsExact == Spec => []ExhaustiveIsExact
<1>1. IvfIInv => ExhaustiveIsExact
  <2> SUFFICES ASSUME IvfIInv, NEW x \in Points, NEW k \in Ks
      PROVE
        /\ \A q \in {NoFilter} \cup {p \in Filters : Described(p)}, rk \in RefineKs :
             Routable(q) => Search(x, q, k, 0, rk) = TopK(x, Matching(q), k)
        /\ FlatSearch(x, k) = TopK(x, Matching(NoFilter), k)
        /\ Routable(NoFilter) => MmapSearch(x, k, 0) = FlatSearch(x, k)
    BY DEF ExhaustiveIsExact
  <2>1. ASSUME NEW q \in {NoFilter} \cup {p \in Filters : Described(p)}, NEW rk, Routable(q)
        PROVE  Search(x, q, k, 0, rk) = TopK(x, Matching(q), k)
    <3>1. q = NoFilter \/ (q \in Trees /\ Described(q))
      BY FiltersAssumption
    <3>. QED
      BY <2>1, <3>1, SearchAll
  <2>2. Matching(NoFilter) = Ids
    BY DEF Matching, Passes
  <2>3. FlatSearch(x, k) = TopK(x, Matching(NoFilter), k)
    BY <2>2 DEF FlatSearch
  <2>4. ASSUME Routable(NoFilter) PROVE MmapSearch(x, k, 0) = FlatSearch(x, k)
    BY <2>1, <2>3, <2>4 DEF MmapSearch
  <2>. QED
    BY <2>1, <2>3, <2>4
<1>. QED
  BY <1>1, IvfInvariant, PTL

(* With one probe one partition is looked into. *)
LEMMA OneProbe ==
  ASSUME IvfIInv, NEW x, NEW q, Eligible(q) # {}, NEW R \in Routes(x, q, Probes(1))
  PROVE  \E r \in Eligible(q) :
           /\ R = {r}
           /\ \A i \in Eligible(q) \ {r} :
                /\ Distance(x, centroids[r]) <= Distance(x, centroids[i])
                /\ centroids[r] = centroids[i] => r < i
<1> DEFINE E == Eligible(q)
<1>1. /\ IsFiniteSet(E) /\ Cardinality(E) \in Nat /\ Len(partitions) \in Nat \ {0}
      /\ Cardinality(E) # 0
  BY Finite, Shapes, FS_EmptySet
<1>2. Probes(1) = 1
  BY <1>1, LesserOf DEF Probes
<1>3. Min({1, Cardinality(E)}) = 1
  BY <1>1, LesserOf
<1>4. /\ R \in kSubset(1, E)
      /\ \A r \in R, i \in E \ R :
           /\ Distance(x, centroids[r]) <= Distance(x, centroids[i])
           /\ centroids[r] = centroids[i] => r < i
  BY <1>2, <1>3 DEF Routes
<1> HIDE DEF E
<1>5. R \in SUBSET E /\ Cardinality(R) = 1
  BY <1>4 DEF kSubset
<1>6. IsFiniteSet(R)
  BY <1>1, <1>5, FS_Subset
<1>7. PICK r : R = {r}
  BY <1>5, <1>6, FS_Singleton
<1>. QED
  BY <1>4, <1>5, <1>7 DEF E

(* What is taken of the candidates, and what is answered of that. *)
LEMMA Taken ==
  ASSUME NEW C, IsFiniteSet(C), C # {}, NEW n, NEW rk \in Nat \ {0},
         NEW S \in kSubset(Refined(C, n, rk), C), NEW x, NEW T \in TopK(x, S, 1)
  PROVE  /\ S \subseteq C
         /\ Cardinality(C) <= rk => S = C
         /\ \E t \in S : T = {t} /\ \A s \in S \ {t} : Far(x, t) <= Far(x, s)
<1>1. Cardinality(C) \in Nat /\ Cardinality(C) # 0
  BY FS_CardinalityType, FS_EmptySet
<1>2. S \in SUBSET C /\ Cardinality(S) = Refined(C, n, rk)
  BY DEF kSubset
<1>3. Refined(C, n, rk) \in Nat \ {0} /\ (Cardinality(C) <= rk => Refined(C, n, rk) = Cardinality(C))
  BY <1>1, LesserOf DEF Refined
<1>4. IsFiniteSet(S) /\ (Cardinality(C) <= rk => S = C)
  BY <1>2, <1>3, FS_Subset
<1>5. Min({1, Cardinality(S)}) = 1
  BY <1>2, <1>3, LesserOf
<1>6. /\ T \in SUBSET S /\ Cardinality(T) = 1
      /\ \A t \in T, s \in S \ T : Far(x, t) <= Far(x, s)
  BY <1>5 DEF TopK, kSubset
<1>7. IsFiniteSet(T)
  BY <1>4, <1>6, FS_Subset
<1>8. PICK t : T = {t}
  BY <1>6, <1>7, FS_Singleton
<1>. QED
  BY <1>2, <1>4, <1>6, <1>8

(* An answer of a search with one probe, and where it comes from. *)
LEMMA OneAnswer ==
  ASSUME IvfIInv, NEW x, NEW q, NEW rk, NEW T \in Search(x, q, 1, 1, rk)
  PROVE  /\ Routable(q)
         /\ \E R \in Routes(x, q, Probes(1)) :
            \E S \in kSubset(Refined(Scan(R, q), Probes(1), rk), Scan(R, q)) :
              T \in TopK(x, S, 1)
  BY DEF Search

(* Filtering first: one probe finds a match when every partition that is   *)
(* left has one.                                                           *)
THEOREM ProbesAreNotWasted == Spec => []ProbeNotWasted
<1>1. IvfIInv => ProbeNotWasted
  <2> SUFFICES ASSUME IvfIInv, NEW x \in Points, NEW q \in Filters, NEW rk \in RefineKs,
                      \A i \in Eligible(q) : \E id \in Matching(q) : Contains(partitions[i], id),
                      Eligible(q) # {}, {} \in Search(x, q, 1, 1, rk)
               PROVE  FALSE
    BY DEF ProbeNotWasted
  <2>1. PICK R \in Routes(x, q, Probes(1)) :
          \E S \in kSubset(Refined(Scan(R, q), Probes(1), rk), Scan(R, q)) : {} \in TopK(x, S, 1)
    BY OneAnswer
  <2>2. PICK r \in Eligible(q) : R = {r}
    BY <2>1, OneProbe
  <2> DEFINE C == Scan(R, q)
  <2>3. C # {} /\ C \subseteq Matching(q)
    BY <2>2 DEF Scan
  <2>4. IsFiniteSet(C)
    BY <2>3, Finite, FS_Subset
  <2>5. rk \in Nat \ {0}
    BY LimitsAssumption
  <2>6. PICK S \in kSubset(Refined(C, Probes(1), rk), C) : {} \in TopK(x, S, 1)
    BY <2>1
  <2> HIDE DEF C
  <2>7. \E t \in S : {} = {t}
    BY <2>3, <2>4, <2>5, <2>6, Taken
  <2>. QED
    BY <2>7
<1>. QED
  BY <1>1, IvfInvariant, PTL

LEMMA DistanceToSelf ==
  ASSUME NEW x \in Points, NEW y \in Points
  PROVE  Distance(x, x) = 0 /\ Distance(x, y) \in Nat
  BY SquaresAreNatural, PointsAssumption

(* Inserts and queries route alike: a vector with one nearest centroid is  *)
(* found with one probe.                                                   *)
THEOREM VectorsFindThemselves == Spec => []SelfFound
<1>1. IvfIInv => SelfFound
  <2> SUFFICES ASSUME IvfIInv, NEW id \in Ids
               PROVE  LET x == raw[id + 1]
                          c == centroids[idToPartition[id + 1]]
                      IN  (\A j \in DOMAIN centroids :
                             centroids[j] # c => Distance(x, centroids[j]) # Distance(x, c)) =>
                            \A T \in Search(x, NoFilter, 1, 1, nextId) : \E t \in T : Far(x, t) = 0
    BY DEF SelfFound
  <2> DEFINE x == raw[id + 1]
             pid == idToPartition[id + 1]
             c == centroids[pid]
  <2> SUFFICES ASSUME \A j \in DOMAIN centroids :
                        centroids[j] # c => Distance(x, centroids[j]) # Distance(x, c),
                      NEW T \in Search(x, NoFilter, 1, 1, nextId)
               PROVE  \E t \in T : Far(x, t) = 0
    OBVIOUS
  <2>1. /\ id \in Nat /\ x \in Points /\ pid \in Pids /\ nextId \in Nat \ {0}
        /\ \A i \in DOMAIN centroids : centroids[i] \in Points
        /\ DOMAIN centroids \subseteq Pids
    BY Shapes DEF Ids
  <2>2. pid = NearestPartition(centroids, x)
    BY DEF IvfIInv, PlacedNearest
  <2>3. /\ pid \in DOMAIN centroids
        /\ \A j \in DOMAIN centroids :
             /\ Distance(x, c) <= Distance(x, centroids[j])
             /\ j < pid => Distance(x, c) < Distance(x, centroids[j])
    <3>1. centroids \in Seq(Points) /\ centroids # <<>>
      BY DEF IvfIInv, IndexInv, TypeOK, ShapeInv
    <3>. QED
      BY <2>1, <2>2, <3>1, NearestExists
  <2> HIDE DEF pid
  <2>4. Eligible(NoFilter) = Pids
    BY DEF Eligible
  <2>5. DOMAIN centroids = Pids
    BY <2>1, <2>4, OneAnswer DEF Routable
  <2>6. PICK R \in Routes(x, NoFilter, Probes(1)) :
          \E S \in kSubset(Refined(Scan(R, NoFilter), Probes(1), nextId), Scan(R, NoFilter)) :
            T \in TopK(x, S, 1)
    BY OneAnswer
  <2>7. PICK r \in Pids :
          /\ R = {r}
          /\ \A i \in Pids \ {r} :
               /\ Distance(x, centroids[r]) <= Distance(x, centroids[i])
               /\ centroids[r] = centroids[i] => r < i
    BY <2>1, <2>4, <2>6, OneProbe
  <2>8. r = pid
    <3> SUFFICES ASSUME r # pid PROVE FALSE
      OBVIOUS
    <3>1. Distance(x, c) \in Nat /\ Distance(x, centroids[r]) \in Nat
      BY <2>1, <2>3, <2>5, <2>7, DistanceToSelf
    <3>2. Distance(x, centroids[r]) <= Distance(x, c) /\ (centroids[r] = c => r < pid)
      BY <2>1, <2>7
    <3>3. Distance(x, c) <= Distance(x, centroids[r])
      BY <2>3, <2>5, <2>7
    <3>4. centroids[r] = c
      BY <2>5, <2>7, <3>1, <3>2, <3>3
    <3>5. Distance(x, c) < Distance(x, centroids[r])
      BY <2>3, <2>5, <2>7, <3>2, <3>4
    <3>. QED
      BY <3>1, <3>2, <3>5
  <2> DEFINE C == Scan(R, NoFilter)
  <2>9. id \in C /\ C \subseteq Ids
    <3>1. Contains(partitions[pid], id)
      BY <2>1 DEF IvfIInv, IndexInv, IdsPlacedOnce, pid
    <3>. QED
      BY <2>7, <2>8, <3>1 DEF Scan, Matching, Passes
  <2>10. IsFiniteSet(C) /\ Cardinality(C) <= nextId
    BY <2>9, Finite, FS_Subset
  <2>11. PICK S \in kSubset(Refined(C, Probes(1), nextId), C) : T \in TopK(x, S, 1)
    BY <2>6
  <2> HIDE DEF C
  <2>12. /\ S = C
         /\ \E t \in S : T = {t} /\ \A s \in S \ {t} : Far(x, t) <= Far(x, s)
    BY <2>1, <2>9, <2>10, <2>11, Taken
  <2>13. PICK t \in S : T = {t} /\ \A s \in S \ {t} : Far(x, t) <= Far(x, s)
    BY <2>12
  <2>14. Far(x, id) = 0 /\ Far(x, t) \in Nat
    BY <2>1, <2>9, <2>12, <2>13, Shapes, DistanceToSelf DEF Far
  <2>15. Far(x, t) = 0
    BY <2>9, <2>12, <2>13, <2>14
  <2>. QED
    BY <2>13, <2>15
<1>. QED
  BY <1>1, IvfInvariant, PTL

(* Saving and loading changes no answer. *)
THEOREM ReloadIsUnseen == Spec => ReloadKeepsAnswers
<1>1. ASSUME IvfIInv, Reload
      PROVE  \A x \in Points, q \in Filters, k \in Ks :
               Search(x, q, k, 1, nextId)' = Search(x, q, k, 1, nextId)
  <2>1. UNCHANGED <<centroids, partitions, raw, payloads, stats, idToPartition, nextId>>
    BY <1>1, ReloadSame
  <2>2. Ids' = Ids /\ Pids' = Pids
    BY <2>1 DEF Ids, Pids
  <2>3. \A q : Matching(q)' = Matching(q)
    BY <2>1, <2>2 DEF Matching
  <2>4. \A q : Eligible(q)' = Eligible(q)
    BY <2>1, <2>2 DEF Eligible
  <2>5. \A R, q : Scan(R, q)' = Scan(R, q)
    BY <2>1, <2>3 DEF Scan
  <2>6. \A x, S, k : TopK(x, S, k)' = TopK(x, S, k)
    BY <2>1 DEF TopK, Far
  <2>7. \A x, q, n : Routes(x, q, n)' = Routes(x, q, n)
    BY <2>1, <2>4 DEF Routes
  <2>8. \A q : Routable(q)' <=> Routable(q)
    BY <2>1, <2>4 DEF Routable
  <2>9. Probes(1)' = Probes(1) /\ \A C, n, rk : Refined(C, n, rk)' = Refined(C, n, rk)
    BY <2>1 DEF Probes, Refined
  <2>. QED
    BY <2>1, <2>5, <2>6, <2>7, <2>8, <2>9 DEF Search
<1>2. IvfIInv /\ [Next]_vars =>
        [Reload => \A x \in Points, q \in Filters, k \in Ks :
           Search(x, q, k, 1, nextId)' = Search(x, q, k, 1, nextId)]_vars
  BY <1>1
<1>. QED
  BY <1>2, IvfInvariant, PTL DEF Spec, ReloadKeepsAnswers

-----------------------------------------------------------------------------
(* The parser of filters: its recursive functions exist, each parser stays *)
(* within the tokens and moves on.                                         *)

IsTokens(t) == Len(t) \in Nat /\ DOMAIN t = 1..Len(t)

LEMMA KindIs ==
  ASSUME NEW t, IsTokens(t), NEW i, Kind(t, i) # "end"
  PROVE  i \in 1..Len(t)
  BY DEF Kind, IsTokens

(* A loop, after any number of turns. *)
Looped(t, op, c, i, k, f) ==
  f = [n \in 0..k |-> IF n = 0 THEN c[i] ELSE Turn(t, op, c, f[n - 1])]

LEMMA LoopedExists ==
  ASSUME NEW t, NEW op, NEW c, NEW i, NEW k \in Nat
  PROVE  \E f : Looped(t, op, c, i, k, f)
<1> DEFINE Bad == {m \in Nat : ~\E f : Looped(t, op, c, i, m, f)}
<1>1. SUFFICES ASSUME Bad # {} PROVE FALSE
  OBVIOUS
<1>2. PICK m \in Bad : \A n \in Bad : m <= n
  <2>1. Bad \subseteq Nat
    OBVIOUS
  <2> HIDE DEF Bad
  <2>. QED
    BY <1>1, <2>1, Least
<1>3. m # 0
  <2> DEFINE f == [n \in 0..0 |-> c[i]]
  <2>1. \A n \in 0..0 : n = 0
    OBVIOUS
  <2>2. Looped(t, op, c, i, 0, f)
    BY <2>1 DEF Looped
  <2>. QED
    BY <1>2, <2>2
<1>4. m \in Nat /\ m - 1 \in Nat /\ m - 1 \notin Bad
  BY <1>2, <1>3
<1>5. PICK f : Looped(t, op, c, i, m - 1, f)
  BY <1>4
<1> DEFINE g == [n \in 0..m |-> IF n = m THEN Turn(t, op, c, f[m - 1]) ELSE f[n]]
           h == [n \in 0..m |-> IF n = 0 THEN c[i] ELSE Turn(t, op, c, g[n - 1])]
<1>6. ASSUME NEW n \in 0..m PROVE g[n] = h[n]
  <2>1. CASE n = 0
    <3>1. f[0] = c[i] /\ 0 # m /\ 0 \in 0..m
      BY <1>3, <1>4, <1>5 DEF Looped
    <3>2. g[0] = f[0] /\ h[0] = c[i]
      BY <3>1
    <3>. QED
      BY <2>1, <3>1, <3>2
  <2>2. ASSUME n # 0 PROVE n - 1 \in 0..(m - 1) /\ n - 1 \in 0..m /\ g[n - 1] = f[n - 1]
    BY <1>4, <2>2
  <2>3. CASE n = m
    <3>1. g[n] = Turn(t, op, c, f[m - 1]) /\ h[n] = Turn(t, op, c, g[m - 1])
      BY <1>3, <2>3
    <3>. QED
      BY <1>3, <2>2, <2>3, <3>1
  <2>4. CASE n # 0 /\ n # m
    <3>1. n \in 0..(m - 1) /\ g[n] = f[n]
      BY <1>4, <2>4
    <3>2. f[n] = Turn(t, op, c, f[n - 1])
      BY <1>5, <2>4, <3>1 DEF Looped
    <3>3. h[n] = Turn(t, op, c, g[n - 1])
      BY <2>4
    <3>. QED
      BY <2>2, <2>4, <3>1, <3>2, <3>3
  <2>. QED
    BY <2>1, <2>3, <2>4
<1>7. g = h
  BY <1>6
<1>8. Looped(t, op, c, i, m, g)
  BY <1>7 DEF Looped
<1>. QED
  BY <1>2, <1>8

(* f[n] is where the loop of op that begins at i is after n turns. *)
Turns(t, op, c, i, f) ==
  /\ f[0] = c[i]
  /\ \A n \in 1..Len(t) : f[n] = Turn(t, op, c, f[n - 1])
  /\ Loop(t, op, c, i) = f[Len(t)]

LEMMA LoopIs ==
  ASSUME NEW t, IsTokens(t), NEW op, NEW c, NEW i
  PROVE  \E f : Turns(t, op, c, i, f)
<1> DEFINE f == CHOOSE g : Looped(t, op, c, i, Len(t), g)
<1>1. Looped(t, op, c, i, Len(t), f)
  <2>1. Len(t) \in Nat
    BY DEF IsTokens
  <2>. QED
    BY <2>1, LoopedExists
<1>2. Loop(t, op, c, i) = f[Len(t)]
  BY DEF Loop, Looped
<1> HIDE DEF f
<1>3. Len(t) \in Nat
  BY DEF IsTokens
<1> DEFINE k == Len(t)
<1>4. k \in Nat /\ Looped(t, op, c, i, k, f)
  BY <1>1, <1>3
<1> HIDE DEF k
<1>5. f[0] = c[i] /\ \A n \in 1..k : f[n] = Turn(t, op, c, f[n - 1])
  BY <1>4 DEF Looped
<1>. QED
  BY <1>2, <1>5 DEF Turns, k

(* A parser that has read something is behind its own position and not     *)
(* beyond the end.                                                         *)
MovesOn(t, r, i) == r.ok => r.pos \in (i + 1)..(Len(t) + 1)

Ahead(t, c, i) == \A j \in i..(Len(t) + 1) : MovesOn(t, c[j], j)

LEMMA TurnMovesOn ==
  ASSUME NEW t, IsTokens(t), NEW op \in {"and", "or"}, NEW c, NEW d, NEW i \in Nat,
         Ahead(t, c, i), \A j \in i..(Len(t) + 1) : c[j] = d[j],
         NEW r, MovesOn(t, r, i)
  PROVE  Turn(t, op, c, r) = Turn(t, op, d, r) /\ MovesOn(t, Turn(t, op, c, r), i)
<1>1. CASE r.ok /\ Kind(t, r.pos) = op
  <2> DEFINE j == r.pos + 1
  <2>1. r.pos \in 1..Len(t)
    BY <1>1, KindIs
  <2>2. r.pos \in (i + 1)..(Len(t) + 1) /\ Len(t) \in Nat
    BY <1>1 DEF MovesOn, IsTokens
  <2>3. j \in Nat /\ j \in i..(Len(t) + 1) /\ i < j
    BY <2>1, <2>2
  <2>4. c[j] = d[j] /\ (c[j].ok => c[j].pos \in (j + 1)..(Len(t) + 1))
    BY <2>3 DEF Ahead, MovesOn
  <2>5. c[j].ok => c[j].pos \in (i + 1)..(Len(t) + 1)
    BY <2>2, <2>3, <2>4
  <2>6. Turn(t, op, c, r) = IF c[j].ok THEN Got(Node(op, r.tree, c[j].tree), c[j].pos) ELSE Fail
    BY <1>1 DEF Turn
  <2>7. Turn(t, op, d, r) = IF d[j].ok THEN Got(Node(op, r.tree, d[j].tree), d[j].pos) ELSE Fail
    BY <1>1 DEF Turn
  <2> HIDE DEF j
  <2>8. MovesOn(t, Turn(t, op, c, r), i)
    BY <2>5, <2>6 DEF MovesOn, Got, Fail
  <2>. QED
    BY <2>4, <2>6, <2>7, <2>8
<1>2. CASE ~(r.ok /\ Kind(t, r.pos) = op)
  BY <1>2 DEF Turn
<1>. QED
  BY <1>1, <1>2

(* A loop looks only at operands at its position and behind it. *)
LEMMA LoopAgrees ==
  ASSUME NEW t, IsTokens(t), NEW op \in {"and", "or"}, NEW c, NEW d, NEW i \in Nat,
         Ahead(t, c, i), \A j \in i..(Len(t) + 1) : c[j] = d[j], i <= Len(t) + 1
  PROVE  Loop(t, op, c, i) = Loop(t, op, d, i) /\ MovesOn(t, Loop(t, op, c, i), i)
<1>1. PICK f : Turns(t, op, c, i, f)
  BY LoopIs
<1>2. PICK g : Turns(t, op, d, i, g)
  BY LoopIs
<1> DEFINE k == Len(t)
           Bad == {n \in 0..k : ~(f[n] = g[n] /\ MovesOn(t, f[n], i))}
<1>3. k \in Nat /\ i \in i..(k + 1)
  BY DEF IsTokens
<1>4. /\ f[0] = c[i] /\ \A n \in 1..k : f[n] = Turn(t, op, c, f[n - 1])
      /\ g[0] = d[i] /\ \A n \in 1..k : g[n] = Turn(t, op, d, g[n - 1])
      /\ Loop(t, op, c, i) = f[k] /\ Loop(t, op, d, i) = g[k]
  BY <1>1, <1>2 DEF Turns
<1>5. c[i] = d[i] /\ MovesOn(t, c[i], i)
  BY <1>3 DEF Ahead
<1> HIDE DEF k
<1>6. Bad = {}
  <2>1. SUFFICES ASSUME Bad # {} PROVE FALSE
    OBVIOUS
  <2>2. PICK b \in Bad : \A n \in Bad : b <= n
    <3>1. Bad \subseteq Nat
      OBVIOUS
    <3> HIDE DEF Bad
    <3>. QED
      BY <2>1, <3>1, Least
  <2>3. b \in 0..k /\ b # 0
    BY <1>4, <1>5, <2>2
  <2>4. b \in 1..k /\ b - 1 \in 0..k /\ b - 1 \notin Bad
    BY <1>3, <2>2, <2>3
  <2>5. f[b - 1] = g[b - 1] /\ MovesOn(t, f[b - 1], i)
    BY <2>4
  <2>6. f[b] = Turn(t, op, c, f[b - 1]) /\ g[b] = Turn(t, op, d, g[b - 1])
    BY <1>4, <2>4
  <2> DEFINE r == f[b - 1]
  <2>7. MovesOn(t, r, i) /\ f[b] = Turn(t, op, c, r) /\ g[b] = Turn(t, op, d, r)
    BY <2>5, <2>6
  <2> HIDE DEF r, Bad
  <2>8. f[b] = g[b] /\ MovesOn(t, f[b], i)
    BY <2>7, TurnMovesOn
  <2>. QED
    BY <2>2, <2>8 DEF Bad
<1>7. k \in 0..k
  BY <1>3
<1>8. k \notin Bad
  BY <1>6
<1>. QED
  BY <1>4, <1>7, <1>8

LEMMA AndAgrees ==
  ASSUME NEW t, IsTokens(t), NEW c, NEW d, NEW i \in Nat,
         Ahead(t, c, i), \A j \in i..(Len(t) + 1) : c[j] = d[j], i <= Len(t) + 1
  PROVE  ParseAnd(t, c, i) = ParseAnd(t, d, i) /\ MovesOn(t, ParseAnd(t, c, i), i)
  BY LoopAgrees DEF ParseAnd

(* The operands of the loop of parse_or. *)
Ands(t, c) == [j \in Positions(t) |-> ParseAnd(t, c, j)]

LEMMA OrIs ==
  ASSUME NEW t, NEW c, NEW i
  PROVE  ParseOr(t, c, i) = Loop(t, "or", Ands(t, c), i)
  BY DEF ParseOr, Ands

LEMMA AndsAhead ==
  ASSUME NEW t, IsTokens(t), NEW c, NEW i \in Nat \ {0}, Ahead(t, c, i)
  PROVE  /\ Ahead(t, Ands(t, c), i)
         /\ \A j \in i..(Len(t) + 1) : Ands(t, c)[j] = ParseAnd(t, c, j)
<1>1. ASSUME NEW j \in i..(Len(t) + 1)
      PROVE  Ands(t, c)[j] = ParseAnd(t, c, j) /\ MovesOn(t, ParseAnd(t, c, j), j)
  <2>1. Len(t) \in Nat /\ j \in Nat /\ j <= Len(t) + 1 /\ j \in Positions(t)
    BY DEF IsTokens, Positions
  <2>2. Ahead(t, c, j)
    <3>1. \A l \in j..(Len(t) + 1) : l \in i..(Len(t) + 1)
      BY <2>1
    <3>. QED
      BY <3>1 DEF Ahead
  <2>3. MovesOn(t, ParseAnd(t, c, j), j)
    BY <2>1, <2>2, AndAgrees
  <2>. QED
    BY <2>1, <2>3 DEF Ands
<1>. QED
  BY <1>1 DEF Ahead

LEMMA OrAgrees ==
  ASSUME NEW t, IsTokens(t), NEW c, NEW d, NEW i \in Nat \ {0},
         Ahead(t, c, i), \A j \in i..(Len(t) + 1) : c[j] = d[j], i <= Len(t) + 1
  PROVE  ParseOr(t, c, i) = ParseOr(t, d, i) /\ MovesOn(t, ParseOr(t, c, i), i)
<1>1. Len(t) \in Nat
  BY DEF IsTokens
<1>2. Ahead(t, d, i)
  BY DEF Ahead
<1>3. /\ Ahead(t, Ands(t, c), i)
      /\ \A j \in i..(Len(t) + 1) : Ands(t, c)[j] = ParseAnd(t, c, j)
      /\ \A j \in i..(Len(t) + 1) : Ands(t, d)[j] = ParseAnd(t, d, j)
  BY <1>2, AndsAhead
<1>4. ASSUME NEW j \in i..(Len(t) + 1) PROVE Ands(t, c)[j] = Ands(t, d)[j]
  <2>1. j \in Nat /\ j <= Len(t) + 1 /\ \A l \in j..(Len(t) + 1) : l \in i..(Len(t) + 1)
    BY <1>1
  <2>2. Ahead(t, c, j) /\ \A l \in j..(Len(t) + 1) : c[l] = d[l]
    BY <2>1 DEF Ahead
  <2>3. ParseAnd(t, c, j) = ParseAnd(t, d, j)
    BY <2>1, <2>2, AndAgrees
  <2>. QED
    BY <1>3, <2>3
<1>5. /\ Loop(t, "or", Ands(t, c), i) = Loop(t, "or", Ands(t, d), i)
      /\ MovesOn(t, Loop(t, "or", Ands(t, c), i), i)
  BY <1>3, <1>4, LoopAgrees
<1>. QED
  BY <1>5, OrIs

-----------------------------------------------------------------------------
(* Parsers of one operand. *)

LEMMA ClosingMovesOn ==
  ASSUME NEW t, IsTokens(t), NEW i \in Nat, NEW r, MovesOn(t, r, i)
  PROVE  MovesOn(t, Closing(t, r), i)
<1>1. CASE r.ok /\ Kind(t, r.pos) = ")"
  <2>1. r.pos \in 1..Len(t) /\ r.pos \in (i + 1)..(Len(t) + 1) /\ Len(t) \in Nat
    BY <1>1, KindIs DEF MovesOn, IsTokens
  <2>2. r.pos + 1 \in (i + 1)..(Len(t) + 1)
    BY <2>1
  <2>. QED
    BY <1>1, <2>2 DEF Closing, MovesOn, Got
<1>2. CASE ~(r.ok /\ Kind(t, r.pos) = ")")
  BY <1>2 DEF Closing, MovesOn, Fail
<1>. QED
  BY <1>1, <1>2

(* The commas of the list that begins at i. *)
LEMMA ListIs ==
  ASSUME NEW t, IsTokens(t), NEW i \in Nat \ {0}
  PROVE  \E n \in 0..Len(t) :
           /\ \A m \in 0..(n - 1) : IsScalar(t, i + 2 * m) /\ Kind(t, i + 2 * m + 1) = ","
           /\ ~(IsScalar(t, i + 2 * n) /\ Kind(t, i + 2 * n + 1) = ",")
           /\ ParseList(t, i) = IF IsScalar(t, i + 2 * n)
                                THEN Got({t[i + 2 * m] : m \in 0..n}, i + 2 * n + 1)
                                ELSE Fail
<1> DEFINE Stop(m) == ~(IsScalar(t, i + 2 * m) /\ Kind(t, i + 2 * m + 1) = ",")
           k == Len(t)
           Stops == {m \in 0..k : Stop(m)}
<1>1. k \in Nat
  BY DEF IsTokens
<1>2. Stop(k)
  <2>1. i + 2 * k + 1 \notin 1..Len(t)
    BY <1>1
  <2>2. Kind(t, i + 2 * k + 1) = "end"
    BY <2>1, KindIs
  <2>. QED
    BY <2>2
<1> HIDE DEF k, Stop
<1>3. Stops \subseteq Nat /\ Stops # {}
  BY <1>1, <1>2
<1>4. PICK n \in Stops : \A m \in Stops : n <= m
  <2> HIDE DEF Stops
  <2>. QED
    BY <1>3, Least
<1>5. n \in 0..k /\ Stop(n) /\ \A m \in 0..(n - 1) : ~Stop(m)
  BY <1>1, <1>4
<1>6. Min(Stops) = n
  <2>1. \A m \in Stops : m \in Nat /\ (m <= n => m = n)
    BY <1>3, <1>4
  <2> HIDE DEF Stops
  <2>. QED
    BY <1>3, <1>4, <2>1 DEF Min
<1>7. ParseList(t, i) = IF IsScalar(t, i + 2 * n)
                        THEN Got({t[i + 2 * m] : m \in 0..n}, i + 2 * n + 1)
                        ELSE Fail
  BY <1>6 DEF ParseList, k, Stop
<1>. QED
  BY <1>5, <1>7 DEF Stop, k

LEMMA ListMovesOn ==
  ASSUME NEW t, IsTokens(t), NEW i \in Nat \ {0}
  PROVE  MovesOn(t, ParseList(t, i), i)
<1>1. PICK n \in 0..Len(t) :
        ParseList(t, i) = IF IsScalar(t, i + 2 * n)
                          THEN Got({t[i + 2 * m] : m \in 0..n}, i + 2 * n + 1)
                          ELSE Fail
  BY ListIs
<1>2. CASE IsScalar(t, i + 2 * n)
  <2>1. i + 2 * n \in 1..Len(t)
    BY <1>2, KindIs DEF IsScalar
  <2>2. n \in Nat /\ Len(t) \in Nat
    BY DEF IsTokens
  <2>3. i + 2 * n + 1 \in (i + 1)..(Len(t) + 1)
    BY <2>1, <2>2
  <2>. QED
    BY <1>1, <1>2, <2>3 DEF MovesOn, Got
<1>3. CASE ~IsScalar(t, i + 2 * n)
  BY <1>1, <1>3 DEF MovesOn, Fail
<1>. QED
  BY <1>2, <1>3

LEMMA InMovesOn ==
  ASSUME NEW t, IsTokens(t), NEW i \in Nat \ {0}
  PROVE  MovesOn(t, ParseIn(t, i), i)
<1> DEFINE list == Closing(t, ParseList(t, i + 3))
<1>1. MovesOn(t, list, i + 3)
  BY ListMovesOn, ClosingMovesOn
<1>2. Len(t) \in Nat
  BY DEF IsTokens
<1>3. ParseIn(t, i) = IF Kind(t, i + 2) = "(" /\ list.ok
                      THEN Got(InList(t[i].v, list.tree), list.pos) ELSE Fail
  BY DEF ParseIn
<1> HIDE DEF list
<1>4. list.ok => list.pos \in (i + 1)..(Len(t) + 1)
  BY <1>1, <1>2 DEF MovesOn
<1>. QED
  BY <1>3, <1>4 DEF MovesOn, Got, Fail

(* What parse_comparison yields at i, when it yields c behind i. *)
Operand(t, c, i) ==
  CASE Kind(t, i) = "(" -> Closing(t, ParseOr(t, c, i + 1))
    [] Kind(t, i) = "ident" /\ Kind(t, i + 1) = "in" -> ParseIn(t, i)
    [] Kind(t, i) = "ident" /\ Kind(t, i + 1) \in Operators /\ IsScalar(t, i + 2) ->
         Got(Leaf(t[i + 1].kind, t[i].v, t[i + 2]), i + 3)
    [] OTHER -> Fail

LEMMA OperandIs ==
  ASSUME NEW t, NEW c, NEW i
  PROVE  /\ Kind(t, i) = "(" => Operand(t, c, i) = Closing(t, ParseOr(t, c, i + 1))
         /\ Kind(t, i) = "ident" /\ Kind(t, i + 1) = "in" => Operand(t, c, i) = ParseIn(t, i)
         /\ Kind(t, i) = "ident" /\ Kind(t, i + 1) \in Operators =>
              Operand(t, c, i) =
                IF IsScalar(t, i + 2) THEN Got(Leaf(t[i + 1].kind, t[i].v, t[i + 2]), i + 3)
                                      ELSE Fail
         /\ ~(Kind(t, i) = "(") /\ ~(Kind(t, i) = "ident" /\ Kind(t, i + 1) = "in")
              /\ ~(Kind(t, i) = "ident" /\ Kind(t, i + 1) \in Operators) =>
              Operand(t, c, i) = Fail
  BY DEF Operand, Operators

(* An operand looks only at operands behind it. *)
LEMMA OperandAgrees ==
  ASSUME NEW t, IsTokens(t), NEW c, NEW d, NEW i \in Nat \ {0}, Ahead(t, c, i + 1),
         \A j \in (i + 1)..(Len(t) + 1) : c[j] = d[j]
  PROVE  Operand(t, c, i) = Operand(t, d, i) /\ MovesOn(t, Operand(t, c, i), i)
<1>1. Len(t) \in Nat
  BY DEF IsTokens
<1>2. CASE Kind(t, i) = "("
  <2>1. i + 1 <= Len(t) + 1
    BY <1>1, <1>2, KindIs
  <2>2. /\ ParseOr(t, c, i + 1) = ParseOr(t, d, i + 1)
        /\ MovesOn(t, ParseOr(t, c, i + 1), i + 1)
    BY <2>1, OrAgrees
  <2>3. MovesOn(t, Closing(t, ParseOr(t, c, i + 1)), i + 1)
    BY <2>2, ClosingMovesOn
  <2>4. \A r : MovesOn(t, r, i + 1) => MovesOn(t, r, i)
    BY <1>1 DEF MovesOn
  <2>5. /\ Operand(t, c, i) = Closing(t, ParseOr(t, c, i + 1))
        /\ Operand(t, d, i) = Closing(t, ParseOr(t, d, i + 1))
    BY <1>2, OperandIs
  <2>. QED
    BY <2>2, <2>3, <2>4, <2>5
<1>3. CASE Kind(t, i) = "ident" /\ Kind(t, i + 1) = "in"
  <2>1. Operand(t, c, i) = ParseIn(t, i) /\ Operand(t, d, i) = ParseIn(t, i)
    BY <1>3, OperandIs
  <2>. QED
    BY <2>1, InMovesOn
<1>4. CASE Kind(t, i) = "ident" /\ Kind(t, i + 1) \in Operators
  <2> DEFINE leaf == Got(Leaf(t[i + 1].kind, t[i].v, t[i + 2]), i + 3)
  <2>1. /\ Operand(t, c, i) = IF IsScalar(t, i + 2) THEN leaf ELSE Fail
        /\ Operand(t, d, i) = IF IsScalar(t, i + 2) THEN leaf ELSE Fail
    BY <1>4, OperandIs
  <2>2. IsScalar(t, i + 2) => i + 3 \in (i + 1)..(Len(t) + 1)
    <3>1. IsScalar(t, i + 2) => i + 2 \in 1..Len(t)
      BY KindIs DEF IsScalar
    <3>. QED
      BY <1>1, <3>1
  <2>3. leaf.ok /\ leaf.pos = i + 3 /\ ~Fail.ok
    BY DEF Got, Fail
  <2> HIDE DEF leaf
  <2>. QED
    BY <2>1, <2>2, <2>3 DEF MovesOn
<1>5. CASE /\ ~(Kind(t, i) = "(") /\ ~(Kind(t, i) = "ident" /\ Kind(t, i + 1) = "in")
           /\ ~(Kind(t, i) = "ident" /\ Kind(t, i + 1) \in Operators)
  <2>1. Operand(t, c, i) = Fail /\ Operand(t, d, i) = Fail
    BY <1>5, OperandIs
  <2>. QED
    BY <2>1 DEF MovesOn, Fail
<1>. QED
  BY <1>2, <1>3, <1>4, <1>5

(* c is parse_comparison at the last k positions. *)
Compares(t, c, k) ==
  \A i \in Positions(t) : i > Len(t) + 1 - k => c[i] = Operand(t, c, i) /\ MovesOn(t, c[i], i)

LEMMA ComparesExists ==
  ASSUME NEW t, IsTokens(t), NEW k \in 0..(Len(t) + 1)
  PROVE  \E c : Compares(t, c, k)
<1> DEFINE e == Len(t) + 1
           Bad == {m \in 0..e : ~\E c : Compares(t, c, m)}
<1>1. SUFFICES ASSUME Bad # {} PROVE FALSE
  OBVIOUS
<1>2. PICK b \in Bad : \A m \in Bad : b <= m
  <2>1. Bad \subseteq Nat
    OBVIOUS
  <2> HIDE DEF Bad
  <2>. QED
    BY <1>1, <2>1, Least
<1>3. e \in Nat /\ Positions(t) = 1..e
  BY DEF IsTokens, Positions
<1>4. b # 0
  <2>1. ASSUME NEW c PROVE Compares(t, c, 0)
    <3>1. \A i \in Positions(t) : ~(i > e - 0)
      BY <1>3
    <3>. QED
      BY <3>1 DEF Compares
  <2>. QED
    BY <1>2, <2>1
<1>5. b \in 0..e /\ b - 1 \in 0..e /\ b - 1 \notin Bad
  BY <1>2, <1>3, <1>4
<1>6. PICK c : Compares(t, c, b - 1)
  BY <1>5
<1> DEFINE l == e - b + 1
           d == [i \in Positions(t) |-> IF i = l THEN Operand(t, c, l) ELSE c[i]]
<1>7. l \in Nat \ {0} /\ l \in 1..e /\ e - (b - 1) = l
  BY <1>3, <1>4, <1>5
<1>8. \A i \in (l + 1)..e : c[i] = Operand(t, c, i) /\ MovesOn(t, c[i], i)
  <2>1. \A i \in (l + 1)..e : i \in Positions(t) /\ i > e - (b - 1)
    BY <1>3, <1>7
  <2>. QED
    BY <1>6, <2>1 DEF Compares
<1>9. d[l] = Operand(t, c, l) /\ \A i \in (l + 1)..e : d[i] = c[i]
  <2>1. l \in Positions(t) /\ \A i \in (l + 1)..e : i \in Positions(t) /\ i # l
    BY <1>3, <1>7
  <2>. QED
    BY <2>1
<1>10. \A i \in Positions(t) : i > e - b => i = l \/ i \in (l + 1)..e
  BY <1>3, <1>5
<1> HIDE DEF d, l
<1>11. ASSUME NEW i \in Positions(t), i > e - b
       PROVE  d[i] = Operand(t, d, i) /\ MovesOn(t, d[i], i)
  <2>1. i \in Nat \ {0} /\ i >= l /\ \A j \in (i + 1)..e : j \in (l + 1)..e
    BY <1>3, <1>7, <1>10, <1>11
  <2>2. Ahead(t, c, i + 1) /\ \A j \in (i + 1)..e : c[j] = d[j]
    BY <1>8, <1>9, <2>1 DEF Ahead
  <2>3. d[i] = Operand(t, c, i)
    BY <1>8, <1>9, <1>10, <1>11
  <2>. QED
    BY <2>1, <2>2, <2>3, OperandAgrees
<1>12. Compares(t, d, b)
  BY <1>11 DEF Compares
<1>. QED
  BY <1>2, <1>12

LEMMA SolutionMovesOn ==
  ASSUME NEW t, IsTokens(t), NEW c, \A i \in Positions(t) : c[i] = Operand(t, c, i)
  PROVE  Ahead(t, c, 1)
<1> DEFINE e == Len(t) + 1
           Bad == {m \in 0..(e - 1) : ~MovesOn(t, c[e - m], e - m)}
<1>1. e \in Nat \ {0} /\ Positions(t) = 1..e
  BY DEF IsTokens, Positions
<1>2. Bad = {}
  <2>1. SUFFICES ASSUME Bad # {} PROVE FALSE
    OBVIOUS
  <2>2. PICK b \in Bad : \A m \in Bad : b <= m
    <3>1. Bad \subseteq Nat
      OBVIOUS
    <3> HIDE DEF Bad
    <3>. QED
      BY <2>1, <3>1, Least
  <2> DEFINE i == e - b
  <2>3. i \in Positions(t) /\ i \in Nat \ {0} /\ ~MovesOn(t, c[i], i)
    BY <1>1, <2>2
  <2>4. ASSUME NEW j \in (i + 1)..e PROVE MovesOn(t, c[j], j)
    <3>1. e - j \in 0..(e - 1) /\ e - j < b /\ e - (e - j) = j
      BY <1>1, <2>2
    <3>2. e - j \notin Bad
      BY <1>1, <2>2, <3>1
    <3>. QED
      BY <3>1, <3>2
  <2> HIDE DEF i
  <2>5. Ahead(t, c, i + 1)
    BY <2>4 DEF Ahead
  <2>6. MovesOn(t, Operand(t, c, i), i)
    BY <2>3, <2>5, OperandAgrees
  <2>. QED
    BY <2>3, <2>6
<1>3. ASSUME NEW j \in 1..e PROVE MovesOn(t, c[j], j)
  <2>1. e - j \in 0..(e - 1) /\ e - (e - j) = j
    BY <1>1
  <2>. QED
    BY <1>2, <2>1
<1>. QED
  BY <1>3 DEF Ahead

(* parse_comparison exists, at every position. *)
LEMMA ComparisonIs ==
  ASSUME NEW t, IsTokens(t)
  PROVE  /\ Ahead(t, ParseComparison(t), 1)
         /\ \A i \in Positions(t) :
              ParseComparison(t)[i] = Operand(t, ParseComparison(t), i)
<1> DEFINE e == Len(t) + 1
<1>1. e \in Nat \ {0} /\ Positions(t) = 1..e
  BY DEF IsTokens, Positions
<1>2. PICK c : Compares(t, c, e)
  BY <1>1, ComparesExists
<1>3. \A i \in Positions(t) : c[i] = Operand(t, c, i) /\ MovesOn(t, c[i], i)
  <2>1. \A i \in Positions(t) : i > e - e
    BY <1>1
  <2>. QED
    BY <1>2, <2>1 DEF Compares
<1> DEFINE Solves(d) == d = [i \in Positions(t) |-> Operand(t, d, i)]
           d == [i \in Positions(t) |-> c[i]]
<1>4. ASSUME NEW i \in Positions(t) PROVE d[i] = Operand(t, d, i)
  <2>1. i \in Nat \ {0} /\ \A j \in (i + 1)..e : j \in Positions(t)
    BY <1>1
  <2>2. Ahead(t, c, i + 1) /\ \A j \in (i + 1)..e : c[j] = d[j]
    BY <1>3, <2>1 DEF Ahead
  <2> HIDE DEF d
  <2>3. Operand(t, c, i) = Operand(t, d, i)
    BY <2>1, <2>2, OperandAgrees
  <2>. QED
    BY <1>3, <2>3 DEF d
<1>5. Solves(d)
  BY <1>4
<1> HIDE DEF d
<1> DEFINE p == CHOOSE f : Solves(f)
<1>6. Solves(p)
  BY <1>5
<1>7. ParseComparison(t) = p
  BY DEF ParseComparison, Operand
<1> HIDE DEF p
<1>8. \A i \in Positions(t) : p[i] = Operand(t, p, i)
  BY <1>6
<1>. QED
  <2>1. Ahead(t, p, 1)
    BY <1>8, SolutionMovesOn
  <2>. QED
    BY <1>7, <1>8, <2>1

-----------------------------------------------------------------------------
(* How deep in parentheses a token is. *)

Sign(t, k) == IF Kind(t, k) = "(" THEN 1 ELSE IF Kind(t, k) = ")" THEN -1 ELSE 0

Count(t, x, i, k) == Cardinality({m \in i..(k - 1) : Kind(t, m) = x})

LEMMA CountStep ==
  ASSUME NEW t, NEW x, NEW i \in Nat, NEW k \in Nat, i <= k
  PROVE  /\ Count(t, x, i, k) \in Nat /\ Count(t, x, i, i) = 0
         /\ Count(t, x, i, k + 1) = Count(t, x, i, k) + (IF Kind(t, k) = x THEN 1 ELSE 0)
<1> DEFINE S(l) == {m \in i..(l - 1) : Kind(t, m) = x}
<1>1. IsFiniteSet(S(k)) /\ k \notin S(k)
  <2>1. IsFiniteSet(i..(k - 1)) /\ S(k) \subseteq i..(k - 1)
    BY FS_Interval
  <2>2. k \notin i..(k - 1)
    OBVIOUS
  <2>. QED
    BY <2>1, <2>2, FS_Subset
<1>2. S(i) = {}
  OBVIOUS
<1>3. S(k + 1) = IF Kind(t, k) = x THEN S(k) \cup {k} ELSE S(k)
  <2>1. i..((k + 1) - 1) = (i..(k - 1)) \cup {k}
    OBVIOUS
  <2>. QED
    BY <2>1
<1> HIDE DEF S
<1>4. Cardinality(S(k)) \in Nat /\ Cardinality(S(i)) = 0
  BY <1>1, <1>2, FS_CardinalityType, FS_EmptySet
<1>5. Cardinality(S(k) \cup {k}) = Cardinality(S(k)) + 1
  BY <1>1, FS_AddElement
<1>6. Cardinality(S(k + 1)) = Cardinality(S(k)) + (IF Kind(t, k) = x THEN 1 ELSE 0)
  BY <1>3, <1>4, <1>5
<1>. QED
  BY <1>4, <1>6 DEF S, Count

LEMMA DepthStep ==
  ASSUME NEW t, NEW i \in Nat, NEW k \in Nat, i <= k
  PROVE  /\ Depth(t, i, k) \in Int /\ Depth(t, i, i) = 0
         /\ Depth(t, i, k + 1) = Depth(t, i, k) + Sign(t, k)
<1>1. \A l : Depth(t, i, l) = Count(t, "(", i, l) - Count(t, ")", i, l)
  BY DEF Depth, Count
<1>2. /\ Count(t, "(", i, k) \in Nat /\ Count(t, "(", i, i) = 0
      /\ Count(t, "(", i, k + 1) = Count(t, "(", i, k) + (IF Kind(t, k) = "(" THEN 1 ELSE 0)
  BY CountStep
<1>3. /\ Count(t, ")", i, k) \in Nat /\ Count(t, ")", i, i) = 0
      /\ Count(t, ")", i, k + 1) = Count(t, ")", i, k) + (IF Kind(t, k) = ")" THEN 1 ELSE 0)
  BY CountStep
<1>4. Sign(t, k) = (IF Kind(t, k) = "(" THEN 1 ELSE 0) - (IF Kind(t, k) = ")" THEN 1 ELSE 0)
  BY DEF Sign
<1>. QED
  BY <1>1, <1>2, <1>3, <1>4

(* The depth of a token is that of an earlier one, and what comes between. *)
LEMMA DepthAdds ==
  ASSUME NEW t, NEW i \in Nat, NEW l \in Nat, NEW k \in Nat, i <= l, l <= k
  PROVE  Depth(t, i, k) = Depth(t, i, l) + Depth(t, l, k)
<1> DEFINE Bad == {m \in Nat : l <= m /\ Depth(t, i, m) # Depth(t, i, l) + Depth(t, l, m)}
<1>1. SUFFICES ASSUME Bad # {} PROVE FALSE
  OBVIOUS
<1>2. PICK b \in Bad : \A m \in Bad : b <= m
  <2>1. Bad \subseteq Nat
    OBVIOUS
  <2> HIDE DEF Bad
  <2>. QED
    BY <1>1, <2>1, Least
<1>3. b \in Nat /\ l <= b
  BY <1>2
<1>4. b # l
  <2>1. Depth(t, i, l) \in Int /\ Depth(t, l, l) = 0
    BY DepthStep
  <2>. QED
    BY <1>2, <2>1
<1> DEFINE a == b - 1
<1>5. a \in Nat /\ l <= a /\ i <= a /\ a + 1 = b /\ a \notin Bad
  BY <1>2, <1>3, <1>4
<1>6. Depth(t, i, a) = Depth(t, i, l) + Depth(t, l, a)
  BY <1>5
<1> HIDE DEF a
<1>7. /\ Depth(t, i, b) = Depth(t, i, a) + Sign(t, a)
      /\ Depth(t, l, b) = Depth(t, l, a) + Sign(t, a)
      /\ Depth(t, l, a) \in Int /\ Depth(t, i, l) \in Int
  <2>1. /\ Depth(t, i, a + 1) = Depth(t, i, a) + Sign(t, a)
        /\ Depth(t, l, a + 1) = Depth(t, l, a) + Sign(t, a)
        /\ Depth(t, l, a) \in Int /\ Depth(t, i, l) \in Int
    BY <1>5, DepthStep
  <2>. QED
    BY <1>5, <2>1
<1>8. Sign(t, a) \in Int
  BY DEF Sign
<1>9. Depth(t, i, b) = Depth(t, i, l) + Depth(t, l, b)
  BY <1>6, <1>7, <1>8
<1>. QED
  BY <1>2, <1>9

(* From i to before j each parenthesis has its partner. *)
Balanced(t, i, j) ==
  /\ i <= j /\ Depth(t, i, j) = 0
  /\ \A k \in i..j : Depth(t, i, k) >= 0

(* A range without parentheses is balanced. *)
LEMMA FlatIsBalanced ==
  ASSUME NEW t, NEW i \in Nat, NEW j \in Nat, i <= j,
         \A k \in i..(j - 1) : Kind(t, k) \notin {"(", ")"}
  PROVE  Balanced(t, i, j)
<1> DEFINE Bad == {m \in i..j : Depth(t, i, m) # 0}
<1>1. Bad = {}
  <2>1. SUFFICES ASSUME Bad # {} PROVE FALSE
    OBVIOUS
  <2>2. PICK b \in Bad : \A m \in Bad : b <= m
    <3>1. Bad \subseteq Nat
      OBVIOUS
    <3> HIDE DEF Bad
    <3>. QED
      BY <2>1, <3>1, Least
  <2>3. b # i
    BY <2>2, DepthStep
  <2> DEFINE a == b - 1
  <2>4. a \in i..(j - 1) /\ a \in Nat /\ i <= a /\ a + 1 = b /\ a \in i..j /\ a \notin Bad
    BY <2>2, <2>3
  <2>5. Depth(t, i, a) = 0 /\ Sign(t, a) = 0
    BY <2>4 DEF Sign
  <2> HIDE DEF a
  <2>6. Depth(t, i, a + 1) = Depth(t, i, a) + Sign(t, a)
    BY <2>4, DepthStep
  <2>. QED
    BY <2>2, <2>4, <2>5, <2>6
<1>2. \A k \in i..j : Depth(t, i, k) = 0
  BY <1>1
<1>. QED
  BY <1>2 DEF Balanced

(* Two balanced ranges and a token between them. *)
LEMMA JoinIsBalanced ==
  ASSUME NEW t, NEW i \in Nat, NEW l \in Nat, NEW j \in Nat,
         Balanced(t, i, l), Balanced(t, l + 1, j), Kind(t, l) \notin {"(", ")"}
  PROVE  /\ Balanced(t, i, j)
         /\ \A op : /\ Kind(t, l) = op => l \in Outside(t, op, i, j)
                    /\ \A k \in Outside(t, op, i, j) :
                         \/ k \in Outside(t, op, i, l)
                         \/ k = l
                         \/ k \in Outside(t, op, l + 1, j)
<1>1. i <= l /\ l + 1 <= j /\ Depth(t, i, l) = 0 /\ Depth(t, l + 1, j) = 0
  BY DEF Balanced
<1>2. Depth(t, i, l + 1) = 0
  <2>1. Sign(t, l) = 0
    BY DEF Sign
  <2>2. i <= l /\ Depth(t, i, l) = 0
    BY <1>1
  <2>3. Depth(t, i, l + 1) = Depth(t, i, l) + Sign(t, l)
    BY <2>2, DepthStep
  <2>. QED
    BY <2>1, <2>2, <2>3
<1>3. ASSUME NEW k \in (l + 1)..j PROVE Depth(t, i, k) = Depth(t, l + 1, k)
  <2>1. k \in Nat /\ i <= l + 1 /\ l + 1 <= k /\ l + 1 \in Nat
    BY <1>1
  <2>2. Depth(t, i, k) = Depth(t, i, l + 1) + Depth(t, l + 1, k)
    BY <2>1, DepthAdds
  <2>3. Depth(t, l + 1, k) \in Int
    BY <2>1, DepthStep
  <2>. QED
    BY <1>2, <2>2, <2>3
<1>4. Balanced(t, i, j)
  <2>1. \A k \in i..j : k \in i..l \/ k \in (l + 1)..j
    BY <1>1
  <2>2. \A k \in i..j : Depth(t, i, k) >= 0
    BY <1>3, <2>1 DEF Balanced
  <2>3. Depth(t, i, j) = 0 /\ i <= j
    BY <1>1, <1>3
  <2>. QED
    BY <2>2, <2>3 DEF Balanced
<1>5. ASSUME NEW op, NEW k \in Outside(t, op, i, j)
      PROVE  k \in Outside(t, op, i, l) \/ k = l \/ k \in Outside(t, op, l + 1, j)
  <2>1. k \in i..(j - 1) /\ Kind(t, k) = op /\ Depth(t, i, k) = 0
    BY DEF Outside
  <2>2. k \in i..(l - 1) \/ k = l \/ (k \in (l + 1)..j /\ k \in (l + 1)..(j - 1))
    BY <1>1, <2>1
  <2>. QED
    BY <1>3, <2>1, <2>2 DEF Outside
<1>6. ASSUME NEW op, Kind(t, l) = op PROVE l \in Outside(t, op, i, j)
  BY <1>1, <1>6 DEF Outside
<1>. QED
  BY <1>4, <1>5, <1>6

(* Parentheses around a balanced range. *)
LEMMA WrapIsBalanced ==
  ASSUME NEW t, NEW i \in Nat, NEW j \in Nat,
         Balanced(t, i + 1, j), Kind(t, i) = "(", Kind(t, j) = ")"
  PROVE  Balanced(t, i, j + 1) /\ \A op \in {"and", "or"} : Outside(t, op, i, j + 1) = {}
<1>1. i + 1 <= j /\ Depth(t, i + 1, j) = 0
  BY DEF Balanced
<1>2. Depth(t, i, i) = 0 /\ Depth(t, i, i + 1) = 1
  <2>1. Sign(t, i) = 1 /\ i <= i
    BY DEF Sign
  <2>2. Depth(t, i, i) = 0 /\ Depth(t, i, i + 1) = Depth(t, i, i) + Sign(t, i)
    BY <2>1, DepthStep
  <2>. QED
    BY <2>1, <2>2
<1>3. ASSUME NEW k \in (i + 1)..j
      PROVE  Depth(t, i, k) = 1 + Depth(t, i + 1, k) /\ Depth(t, i + 1, k) >= 0
                              /\ Depth(t, i + 1, k) \in Int
  <2>1. k \in Nat /\ i <= i + 1 /\ i + 1 <= k /\ i + 1 \in Nat
    OBVIOUS
  <2>2. Depth(t, i, k) = Depth(t, i, i + 1) + Depth(t, i + 1, k)
    BY <2>1, DepthAdds
  <2>3. Depth(t, i + 1, k) \in Int
    BY <2>1, DepthStep
  <2>4. Depth(t, i + 1, k) >= 0
    BY DEF Balanced
  <2>. QED
    BY <1>2, <2>2, <2>3, <2>4
<1>4. Depth(t, i, j + 1) = 0
  <2>1. Depth(t, i, j) = 1
    BY <1>1, <1>3
  <2>2. Sign(t, j) = -1
    BY DEF Sign
  <2>3. i <= j
    BY <1>1
  <2>4. Depth(t, i, j + 1) = Depth(t, i, j) + Sign(t, j)
    BY <2>3, DepthStep
  <2>. QED
    BY <2>1, <2>2, <2>4
<1>5. \A k \in i..(j + 1) : k = i \/ k \in (i + 1)..j \/ k = j + 1
  BY <1>1
<1>6. Balanced(t, i, j + 1)
  <2>1. ASSUME NEW k \in i..(j + 1) PROVE Depth(t, i, k) >= 0
    BY <1>2, <1>3, <1>4, <1>5
  <2>. QED
    BY <1>1, <1>4, <2>1 DEF Balanced
<1>7. ASSUME NEW op \in {"and", "or"}, NEW k \in Outside(t, op, i, j + 1) PROVE FALSE
  <2>1. k \in i..((j + 1) - 1) /\ Kind(t, k) = op /\ Depth(t, i, k) = 0
    BY DEF Outside
  <2>2. k # i /\ k \in (i + 1)..j
    BY <2>1
  <2>. QED
    BY <1>3, <2>1, <2>2
<1>. QED
  BY <1>6, <1>7

-----------------------------------------------------------------------------
(* The grammar: its recursive function exists. *)

LEMMA LastIs ==
  ASSUME NEW t, NEW op, NEW i \in Nat, NEW j \in Nat, Outside(t, op, i, j) # {}
  PROVE  /\ Max(Outside(t, op, i, j)) \in Outside(t, op, i, j)
         /\ \A k \in Outside(t, op, i, j) : k <= Max(Outside(t, op, i, j))
         /\ Max(Outside(t, op, i, j)) \in i..(j - 1)
<1> DEFINE S == Outside(t, op, i, j)
           B == {n \in Nat : \A k \in S : k <= n}
<1>1. S \subseteq i..(j - 1)
  BY DEF Outside
<1> HIDE DEF S
<1>2. j \in B
  BY <1>1
<1>3. PICK b \in B : \A n \in B : b <= n
  <2>1. B \subseteq Nat /\ B # {}
    BY <1>2
  <2> HIDE DEF B
  <2>. QED
    BY <2>1, Least
<1>4. b \in S
  <2>1. SUFFICES ASSUME b \notin S PROVE FALSE
    OBVIOUS
  <2>2. b \in Nat /\ \A k \in S : k < b
    BY <1>1, <1>3, <2>1
  <2>3. b # 0
    <3>1. PICK k \in S : TRUE
      BY DEF S
    <3>. QED
      BY <1>1, <2>2, <3>1
  <2>4. b - 1 \in B
    BY <1>1, <2>2, <2>3
  <2>. QED
    BY <1>3, <2>2, <2>4
<1>5. \A k \in S : k <= b
  BY <1>3
<1>6. Max(S) = b
  <2>1. \A x \in S : (\A y \in S : x >= y) => x = b
    BY <1>1, <1>4, <1>5
  <2>2. \A y \in S : b >= y
    BY <1>1, <1>4, <1>5
  <2>. QED
    BY <1>4, <2>1, <2>2 DEF Max
<1>. QED
  BY <1>1, <1>4, <1>5, <1>6 DEF S

(* The tree of the tokens from i to before j, when g gives those of all    *)
(* shorter ranges.                                                         *)
TreeOf(t, g, i, j) ==
  LET at(op) == Max(Outside(t, op, i, j))
      split(op) == Split(op, g[<<i, at(op)>>], g[<<at(op) + 1, j>>])
  IN  IF Outside(t, "or", i, j) # {} THEN split("or")
      ELSE IF Outside(t, "and", i, j) # {} THEN split("and")
      ELSE IF IsLeaf(t, i, j) THEN Leaf(t[i + 1].kind, t[i].v, t[i + 2])
      ELSE IF IsList(t, i, j)
      THEN InList(t[i].v, {t[k] : k \in {m \in i..(j - 1) : IsScalar(t, m)}})
      ELSE IF i + 2 < j /\ Kind(t, i) = "(" /\ Kind(t, j - 1) = ")"
      THEN g[<<i + 1, j - 1>>]
      ELSE NoTree

LEMMA TreeAgrees ==
  ASSUME NEW t, IsTokens(t), NEW g, NEW h, NEW i \in Positions(t), NEW j \in Positions(t),
         \A a, b \in Positions(t) : a <= b /\ b - a < j - i => g[<<a, b>>] = h[<<a, b>>]
  PROVE  TreeOf(t, g, i, j) = TreeOf(t, h, i, j)
<1>1. Positions(t) = 1..(Len(t) + 1) /\ Len(t) \in Nat
  BY DEF Positions, IsTokens
<1>2. i \in Nat /\ j \in Nat
  BY <1>1
<1>3. ASSUME NEW op, Outside(t, op, i, j) # {}
      PROVE  LET k == Max(Outside(t, op, i, j)) IN
             Split(op, g[<<i, k>>], g[<<k + 1, j>>]) = Split(op, h[<<i, k>>], h[<<k + 1, j>>])
  <2> DEFINE k == Max(Outside(t, op, i, j))
  <2>1. k \in i..(j - 1)
    BY <1>2, <1>3, LastIs
  <2> HIDE DEF k
  <2>2. /\ k \in Positions(t) /\ i <= k /\ k - i < j - i
        /\ k + 1 \in Positions(t) /\ k + 1 <= j /\ j - (k + 1) < j - i
    BY <1>1, <2>1
  <2>3. g[<<i, k>>] = h[<<i, k>>] /\ g[<<k + 1, j>>] = h[<<k + 1, j>>]
    BY <2>2
  <2>4. Split(op, g[<<i, k>>], g[<<k + 1, j>>]) = Split(op, h[<<i, k>>], h[<<k + 1, j>>])
    BY <2>3
  <2>. QED
    BY <2>4 DEF k
<1>4. i + 2 < j => g[<<i + 1, j - 1>>] = h[<<i + 1, j - 1>>]
  <2>1. i + 2 < j => /\ i + 1 \in Positions(t) /\ j - 1 \in Positions(t)
                     /\ i + 1 <= j - 1 /\ (j - 1) - (i + 1) < j - i
    BY <1>1
  <2>. QED
    BY <2>1
<1>5. CASE Outside(t, "or", i, j) # {}
  BY <1>3, <1>5 DEF TreeOf
<1>6. CASE Outside(t, "or", i, j) = {} /\ Outside(t, "and", i, j) # {}
  BY <1>3, <1>6 DEF TreeOf
<1>7. CASE Outside(t, "or", i, j) = {} /\ Outside(t, "and", i, j) = {}
  BY <1>4, <1>7 DEF TreeOf
<1>. QED
  BY <1>5, <1>6, <1>7

(* g gives the trees of the ranges of less than n tokens. *)
Grows(t, g, n) ==
  \A a, b \in Positions(t) : a <= b /\ b - a < n => g[<<a, b>>] = TreeOf(t, g, a, b)

LEMMA GrowsExists ==
  ASSUME NEW t, IsTokens(t), NEW n \in Nat
  PROVE  \E g : Grows(t, g, n)
<1> DEFINE Bad == {m \in Nat : ~\E g : Grows(t, g, m)}
<1>1. SUFFICES ASSUME Bad # {} PROVE FALSE
  OBVIOUS
<1>2. PICK m \in Bad : \A k \in Bad : m <= k
  <2>1. Bad \subseteq Nat
    OBVIOUS
  <2> HIDE DEF Bad
  <2>. QED
    BY <1>1, <2>1, Least
<1>3. \A a, b \in Positions(t) : a \in Nat /\ b \in Nat
  BY DEF Positions, IsTokens
<1>4. m # 0
  <2>1. \A g : Grows(t, g, 0)
    BY <1>3 DEF Grows
  <2>. QED
    BY <1>2, <2>1
<1>5. m \in Nat /\ m - 1 \in Nat /\ m - 1 \notin Bad
  BY <1>2, <1>4
<1>6. PICK g : Grows(t, g, m - 1)
  BY <1>5
<1> DEFINE h == [r \in Ranges(t) |-> IF r[2] - r[1] < m - 1 THEN g[r] ELSE TreeOf(t, g, r[1], r[2])]
<1>7. ASSUME NEW a \in Positions(t), NEW b \in Positions(t), a <= b
      PROVE  h[<<a, b>>] = IF b - a < m - 1 THEN g[<<a, b>>] ELSE TreeOf(t, g, a, b)
  <2>1. <<a, b>> \in Ranges(t) /\ <<a, b>>[1] = a /\ <<a, b>>[2] = b
    BY <1>7 DEF Ranges
  <2>. QED
    BY <2>1
<1> HIDE DEF h
<1>8. ASSUME NEW a \in Positions(t), NEW b \in Positions(t), a <= b, b - a < m
      PROVE  h[<<a, b>>] = TreeOf(t, h, a, b)
  <2>1. ASSUME NEW x \in Positions(t), NEW y \in Positions(t), x <= y, y - x < b - a
        PROVE  g[<<x, y>>] = h[<<x, y>>]
    <3>1. y - x < m - 1
      BY <1>3, <1>5, <1>8, <2>1
    <3>. QED
      BY <1>7, <2>1, <3>1
  <2>2. TreeOf(t, g, a, b) = TreeOf(t, h, a, b)
    BY <2>1, TreeAgrees
  <2>3. CASE b - a < m - 1
    <3>1. h[<<a, b>>] = g[<<a, b>>]
      BY <1>7, <1>8, <2>3
    <3>2. g[<<a, b>>] = TreeOf(t, g, a, b)
      BY <1>6, <1>8, <2>3 DEF Grows
    <3>. QED
      BY <2>2, <3>1, <3>2
  <2>4. CASE ~(b - a < m - 1)
    BY <1>7, <1>8, <2>2, <2>4
  <2>. QED
    BY <2>3, <2>4
<1>9. Grows(t, h, m)
  BY <1>8 DEF Grows
<1>. QED
  BY <1>2, <1>9

(* The grammar of every range. *)
TreeAt(t, i, j) == Grammar(t)[<<i, j>>]

LEMMA GrammarIs ==
  ASSUME NEW t, IsTokens(t), NEW i \in Positions(t), NEW j \in Positions(t), i <= j
  PROVE  TreeAt(t, i, j) = TreeOf(t, Grammar(t), i, j)
<1> DEFINE e == Len(t) + 2
           Solves(g) == g = [r \in Ranges(t) |-> TreeOf(t, g, r[1], r[2])]
<1>1. e \in Nat /\ Positions(t) = 1..(e - 1)
  BY DEF IsTokens, Positions
<1>2. PICK g : Grows(t, g, e)
  BY <1>1, GrowsExists
<1>3. ASSUME NEW a \in Positions(t), NEW b \in Positions(t), a <= b
      PROVE  g[<<a, b>>] = TreeOf(t, g, a, b)
  <2>1. b - a < e
    BY <1>1
  <2>. QED
    BY <1>2, <1>3, <2>1 DEF Grows
<1> DEFINE h == [r \in Ranges(t) |-> g[r]]
<1>4. ASSUME NEW a \in Positions(t), NEW b \in Positions(t), a <= b
      PROVE  h[<<a, b>>] = g[<<a, b>>]
  BY <1>4 DEF Ranges
<1>5. ASSUME NEW r \in Ranges(t) PROVE h[r] = TreeOf(t, h, r[1], r[2])
  <2>1. PICK a \in Positions(t), b \in Positions(t) : r = <<a, b>> /\ a <= b
    BY DEF Ranges
  <2> HIDE DEF h
  <2>2. h[<<a, b>>] = TreeOf(t, g, a, b)
    BY <1>3, <1>4, <2>1
  <2>3. TreeOf(t, g, a, b) = TreeOf(t, h, a, b)
    BY <1>4, TreeAgrees
  <2>4. r[1] = a /\ r[2] = b
    BY <2>1
  <2>. QED
    BY <2>1, <2>2, <2>3, <2>4
<1>6. Solves(h)
  BY <1>5
<1> HIDE DEF h
<1> DEFINE p == CHOOSE f : Solves(f)
<1>7. Solves(p)
  BY <1>6
<1>8. Grammar(t) = p
  BY DEF Grammar, TreeOf
<1> HIDE DEF p
<1>9. <<i, j>> \in Ranges(t) /\ <<i, j>>[1] = i /\ <<i, j>>[2] = j
  BY DEF Ranges
<1>10. p[<<i, j>>] = TreeOf(t, p, i, j)
  BY <1>7, <1>9
<1>. QED
  BY <1>8, <1>10 DEF TreeAt

(* A filter with an OR or AND outside of parentheses is split at the last, *)
LEMMA GrammarSplits ==
  ASSUME NEW t, IsTokens(t), NEW i \in Positions(t), NEW j \in Positions(t), i <= j,
         NEW op \in {"and", "or"}, op = "and" => Outside(t, "or", i, j) = {},
         NEW k \in Outside(t, op, i, j), \A l \in Outside(t, op, i, j) : l <= k
  PROVE  TreeAt(t, i, j) = Split(op, TreeAt(t, i, k), TreeAt(t, k + 1, j))
<1>1. i \in Nat /\ j \in Nat
  BY DEF Positions, IsTokens
<1>2. Max(Outside(t, op, i, j)) = k
  <2> DEFINE S == Outside(t, op, i, j)
             m == Max(S)
  <2>1. m \in S /\ k <= m /\ m \in i..(j - 1)
    BY <1>1, LastIs
  <2>2. m <= k /\ k \in i..(j - 1)
    BY <2>1 DEF Outside
  <2> HIDE DEF m
  <2>3. m = k
    BY <1>1, <2>1, <2>2
  <2>. QED
    BY <2>3 DEF m
<1>3. TreeOf(t, Grammar(t), i, j) = Split(op, TreeAt(t, i, k), TreeAt(t, k + 1, j))
  <2>1. CASE op = "or"
    BY <1>2, <2>1 DEF TreeOf, TreeAt
  <2>2. CASE op = "and"
    BY <1>2, <2>2 DEF TreeOf, TreeAt
  <2>. QED
    BY <2>1, <2>2
<1>. QED
  BY <1>3, GrammarIs

(* and one without is an operand. *)
ScalarsOf(t, i, j) == {t[k] : k \in {m \in i..(j - 1) : IsScalar(t, m)}}

LEMMA GrammarOfOperand ==
  ASSUME NEW t, IsTokens(t), NEW i \in Positions(t), NEW j \in Positions(t), i <= j,
         \A op \in {"and", "or"} : Outside(t, op, i, j) = {}
  PROVE  TreeAt(t, i, j) =
           IF IsLeaf(t, i, j) THEN Leaf(t[i + 1].kind, t[i].v, t[i + 2])
           ELSE IF IsList(t, i, j)
           THEN InList(t[i].v, ScalarsOf(t, i, j))
           ELSE IF i + 2 < j /\ Kind(t, i) = "(" /\ Kind(t, j - 1) = ")"
           THEN TreeAt(t, i + 1, j - 1)
           ELSE NoTree
  BY GrammarIs DEF TreeOf, TreeAt, ScalarsOf

-----------------------------------------------------------------------------
(* IN lists. *)

LEMMA Halves ==
  ASSUME NEW x \in Nat
  PROVE  \E m \in Nat : x = 2 * m \/ x = 2 * m + 1
<1> DEFINE Bad == {y \in Nat : ~\E m \in Nat : y = 2 * m \/ y = 2 * m + 1}
<1>1. SUFFICES ASSUME Bad # {} PROVE FALSE
  OBVIOUS
<1>2. PICK b \in Bad : \A y \in Bad : b <= y
  <2>1. Bad \subseteq Nat
    OBVIOUS
  <2> HIDE DEF Bad
  <2>. QED
    BY <1>1, <2>1, Least
<1>3. b \in Nat /\ b # 0 /\ b # 1
  <2>1. b # 2 * 0 /\ b # 2 * 0 + 1
    BY <1>2
  <2>. QED
    BY <1>2, <2>1
<1>4. b - 2 \in Nat /\ b - 2 \notin Bad
  BY <1>2, <1>3
<1>5. PICK m \in Nat : b - 2 = 2 * m \/ b - 2 = 2 * m + 1
  BY <1>4
<1>6. m + 1 \in Nat /\ (b = 2 * (m + 1) \/ b = 2 * (m + 1) + 1)
  BY <1>3, <1>5
<1>. QED
  BY <1>2, <1>6

(* The list of n + 1 values that ends before j. *)
Lists(t, i, j, n) ==
  /\ j = i + 2 * n + 5
  /\ Kind(t, i) = "ident" /\ Kind(t, i + 1) = "in" /\ Kind(t, i + 2) = "("
  /\ \A m \in 0..n : IsScalar(t, i + 3 + 2 * m)
  /\ \A m \in 0..(n - 1) : Kind(t, i + 4 + 2 * m) = ","
  /\ Kind(t, j - 1) = ")"

(* Between its parentheses are values and commas, in turn. *)
LEMMA ListHolds ==
  ASSUME NEW t, NEW i \in Nat, NEW j \in Nat, NEW n \in Nat, Lists(t, i, j, n),
         NEW k \in (i + 3)..(j - 2)
  PROVE  \/ IsScalar(t, k) /\ \E m \in 0..n : k = i + 3 + 2 * m
         \/ Kind(t, k) = ","
<1>1. j = i + 2 * n + 5
  BY DEF Lists
<1>2. k - (i + 3) \in Nat
  OBVIOUS
<1>3. PICK m \in Nat : k - (i + 3) = 2 * m \/ k - (i + 3) = 2 * m + 1
  BY <1>2, Halves
<1>4. CASE k - (i + 3) = 2 * m
  <2>1. m \in 0..n /\ k = i + 3 + 2 * m
    BY <1>1, <1>4
  <2>2. IsScalar(t, i + 3 + 2 * m)
    BY <2>1 DEF Lists
  <2>. QED
    BY <2>1, <2>2
<1>5. CASE k - (i + 3) = 2 * m + 1
  <2>1. m \in 0..(n - 1) /\ k = i + 4 + 2 * m
    BY <1>1, <1>5
  <2>2. Kind(t, i + 4 + 2 * m) = ","
    BY <2>1 DEF Lists
  <2>. QED
    BY <2>1, <2>2
<1>. QED
  BY <1>3, <1>4, <1>5

LEMMA ListIsBalanced ==
  ASSUME NEW t, NEW i \in Nat, NEW j \in Nat, IsTokens(t), IsList(t, i, j)
  PROVE  Balanced(t, i, j) /\ \A op \in {"and", "or"} : Outside(t, op, i, j) = {}
<1>1. PICK n \in 0..Len(t) : Lists(t, i, j, n)
  BY DEF IsList, Lists
<1>2. n \in Nat /\ j = i + 2 * n + 5
  <2>1. Len(t) \in Nat
    BY DEF IsTokens
  <2>2. n \in Nat
    BY <2>1
  <2>. QED
    BY <1>1, <2>2 DEF Lists
<1>3. /\ Kind(t, i) = "ident" /\ Kind(t, i + 1) = "in" /\ Kind(t, i + 2) = "("
      /\ Kind(t, j - 1) = ")"
  BY <1>1 DEF Lists
<1> DEFINE l == j - 1
<1>4. l \in Nat /\ i + 3 <= l /\ l + 1 = j /\ \A k \in (i + 3)..(l - 1) : k \in (i + 3)..(j - 2)
  BY <1>2
<1> HIDE DEF l
<1>5. Balanced(t, i + 3, l)
  <2>1. ASSUME NEW k \in (i + 3)..(l - 1) PROVE Kind(t, k) \notin {"(", ")"}
    <3>1. IsScalar(t, k) \/ Kind(t, k) = ","
      BY <1>1, <1>2, <1>4, ListHolds
    <3>. QED
      BY <3>1 DEF IsScalar
  <2>. QED
    BY <1>4, <2>1, FlatIsBalanced
<1>6. Balanced(t, i + 2, j) /\ \A op \in {"and", "or"} : Outside(t, op, i + 2, j) = {}
  <2> DEFINE a == i + 2
  <2>1. a \in Nat /\ a + 1 = i + 3 /\ Kind(t, a) = "(" /\ Kind(t, l) = ")"
    BY <1>3 DEF l
  <2> HIDE DEF a
  <2>2. Balanced(t, a + 1, l)
    BY <1>5, <2>1
  <2>3. Balanced(t, a, l + 1) /\ \A op \in {"and", "or"} : Outside(t, op, a, l + 1) = {}
    BY <1>4, <2>1, <2>2, WrapIsBalanced
  <2>. QED
    BY <1>4, <2>3 DEF a
<1> DEFINE b == i + 1
<1>7. b \in Nat /\ i <= b /\ b + 1 = i + 2 /\ Kind(t, b) = "in" /\ \A k \in i..(b - 1) : k = i
  BY <1>3
<1> HIDE DEF b
<1>8. Balanced(t, i, b) /\ \A op \in {"and", "or"} : Outside(t, op, i, b) = {}
  <2>1. \A k \in i..(b - 1) : Kind(t, k) = "ident"
    BY <1>3, <1>7
  <2>2. Balanced(t, i, b)
    BY <1>7, <2>1, FlatIsBalanced
  <2>. QED
    BY <2>1, <2>2 DEF Outside
<1>9. Balanced(t, b + 1, j) /\ \A op \in {"and", "or"} : Outside(t, op, b + 1, j) = {}
  BY <1>6, <1>7
<1>10. /\ Balanced(t, i, j)
       /\ \A op : \A k \in Outside(t, op, i, j) :
            k \in Outside(t, op, i, b) \/ k = b \/ k \in Outside(t, op, b + 1, j)
  BY <1>7, <1>8, <1>9, JoinIsBalanced
<1>11. ASSUME NEW op \in {"and", "or"}, NEW k \in Outside(t, op, i, j) PROVE FALSE
  <2>1. k = b
    BY <1>8, <1>9, <1>10
  <2>2. Kind(t, k) = op
    BY DEF Outside
  <2>. QED
    BY <1>7, <2>1, <2>2
<1>. QED
  BY <1>10, <1>11

(* Its values, from the first, at a. *)
ValuesAt(t, a, j, n) ==
  /\ j = a + 2 * n + 2
  /\ \A m \in 0..n : IsScalar(t, a + 2 * m)
  /\ \A m \in 0..(n - 1) : Kind(t, a + 2 * m + 1) = ","
  /\ Kind(t, a + 2 * n + 1) = ")"

LEMMA ListValues ==
  ASSUME NEW t, NEW i \in Nat, NEW j \in Nat, NEW n \in Nat, Lists(t, i, j, n),
         NEW a \in Nat, a = i + 3
  PROVE  ValuesAt(t, a, j, n)
<1>1. j = i + 2 * n + 5
  BY DEF Lists
<1>2. ASSUME NEW m \in 0..n PROVE IsScalar(t, a + 2 * m)
  <2>1. IsScalar(t, i + 3 + 2 * m)
    BY DEF Lists
  <2>. QED
    BY <2>1
<1>3. ASSUME NEW m \in 0..(n - 1) PROVE Kind(t, a + 2 * m + 1) = ","
  <2>1. Kind(t, i + 4 + 2 * m) = ","
    BY DEF Lists
  <2>2. i + 4 + 2 * m = a + 2 * m + 1
    OBVIOUS
  <2>. QED
    BY <2>1, <2>2
<1>4. Kind(t, a + 2 * n + 1) = ")"
  <2>1. Kind(t, j - 1) = ")"
    BY DEF Lists
  <2>2. j - 1 = a + 2 * n + 1
    BY <1>1
  <2>. QED
    BY <2>1, <2>2
<1>5. j = a + 2 * n + 2
  BY <1>1
<1>. QED
  BY <1>2, <1>3, <1>4, <1>5 DEF ValuesAt

(* They are the scalars of the list. *)
ValuesOf(t, a, n) == {t[a + 2 * m] : m \in 0..n}

LEMMA ListScalars ==
  ASSUME NEW t, NEW i \in Nat, NEW j \in Nat, NEW n \in Nat, Lists(t, i, j, n),
         NEW a \in Nat, a = i + 3
  PROVE  ValuesOf(t, a, n) = ScalarsOf(t, i, j)
<1> DEFINE V == {t[a + 2 * m] : m \in 0..n}
           W == {t[k] : k \in {m \in i..(j - 1) : IsScalar(t, m)}}
<1>1. ValuesAt(t, a, j, n) /\ j = a + 2 * n + 2
  <2>1. ValuesAt(t, a, j, n)
    BY ListValues
  <2>. QED
    BY <2>1 DEF ValuesAt
<1>2. ASSUME NEW m \in 0..n PROVE t[a + 2 * m] \in W
  <2>1. IsScalar(t, a + 2 * m)
    BY <1>1 DEF ValuesAt
  <2>2. a + 2 * m \in i..(j - 1)
    BY <1>1
  <2>. QED
    BY <2>1, <2>2
<1>3. ASSUME NEW k \in i..(j - 1), IsScalar(t, k) PROVE t[k] \in V
  <2>1. k # i /\ k # i + 1 /\ k # i + 2 /\ k # j - 1
    BY <1>3 DEF Lists, IsScalar
  <2>2. k \in (i + 3)..(j - 2)
    BY <2>1
  <2>3. Kind(t, k) # ","
    BY <1>3 DEF IsScalar
  <2>4. PICK m \in 0..n : k = i + 3 + 2 * m
    BY <2>2, <2>3, ListHolds
  <2>5. k = a + 2 * m
    BY <2>4
  <2>. QED
    BY <2>5
<1>4. V = W
  BY <1>2, <1>3
<1>. QED
  BY <1>4 DEF ValuesOf, ScalarsOf

(* A list is parsed as the grammar says. *)
LEMMA ListParses ==
  ASSUME NEW t, IsTokens(t), NEW i \in Nat \ {0}, NEW j \in Nat, IsList(t, i, j)
  PROVE  ParseIn(t, i) = Got(InList(t[i].v, ScalarsOf(t, i, j)), j)
<1>1. PICK n \in 0..Len(t) : Lists(t, i, j, n)
  BY DEF IsList, Lists
<1> DEFINE a == i + 3
           W == ScalarsOf(t, i, j)
<1>2. a \in Nat \ {0} /\ a = i + 3 /\ n \in Nat
  BY DEF IsTokens
<1> HIDE DEF a
<1>3. PICK q \in 0..Len(t) :
        /\ \A m \in 0..(q - 1) : IsScalar(t, a + 2 * m) /\ Kind(t, a + 2 * m + 1) = ","
        /\ ~(IsScalar(t, a + 2 * q) /\ Kind(t, a + 2 * q + 1) = ",")
        /\ ParseList(t, a) = IF IsScalar(t, a + 2 * q)
                             THEN Got(ValuesOf(t, a, q), a + 2 * q + 1)
                             ELSE Fail
  BY <1>2, ListIs DEF ValuesOf
<1>4. q \in Nat
  BY DEF IsTokens
<1> HIDE DEF W
<1>5. /\ j = a + 2 * n + 2
      /\ \A m \in 0..n : IsScalar(t, a + 2 * m)
      /\ \A m \in 0..(n - 1) : Kind(t, a + 2 * m + 1) = ","
      /\ Kind(t, a + 2 * n + 1) = ")"
      /\ ValuesOf(t, a, n) = W
  <2>1. ValuesAt(t, a, j, n)
    BY <1>1, <1>2, i \in Nat, ListValues
  <2>2. ValuesOf(t, a, n) = W
    BY <1>1, <1>2, i \in Nat, ListScalars DEF W
  <2>. QED
    BY <2>1, <2>2 DEF ValuesAt
<1>6. ~(q < n)
  <2>1. q < n => q \in 0..n /\ q \in 0..(n - 1)
    BY <1>2, <1>4
  <2>. QED
    BY <1>3, <1>5, <2>1
<1>7. ~(n < q)
  <2>1. n < q => n \in 0..(q - 1)
    BY <1>2, <1>4
  <2>. QED
    BY <1>3, <1>5, <2>1
<1>8. q = n
  BY <1>2, <1>4, <1>6, <1>7
<1>9. IsScalar(t, a + 2 * n) /\ a + 2 * n + 1 = j - 1
  <2>1. n \in 0..n
    BY <1>2
  <2>2. j = a + 2 * n + 2
    BY <1>5
  <2>3. a + 2 * n + 1 = j - 1
    BY <1>2, <2>2
  <2>. QED
    BY <1>5, <2>1, <2>3
<1>10. ParseList(t, a) = Got(W, j - 1)
  BY <1>3, <1>5, <1>8, <1>9
<1>11. Closing(t, Got(W, j - 1)) = Got(W, j)
  <2>1. Kind(t, j - 1) = ")"
    BY <1>1 DEF Lists
  <2>2. (j - 1) + 1 = j
    OBVIOUS
  <2>. QED
    BY <2>1, <2>2 DEF Closing, Got
<1>12. Kind(t, i + 2) = "("
  BY <1>1 DEF Lists
<1>13. ParseIn(t, i) = Got(InList(t[i].v, W), j)
  <2> DEFINE list == Closing(t, ParseList(t, i + 3))
  <2>1. list = Got(W, j)
    BY <1>2, <1>10, <1>11
  <2>2. ParseIn(t, i) = IF Kind(t, i + 2) = "(" /\ list.ok
                        THEN Got(InList(t[i].v, list.tree), list.pos) ELSE Fail
    BY DEF ParseIn
  <2> HIDE DEF list
  <2>3. list.ok /\ list.tree = W /\ list.pos = j
    BY <2>1 DEF Got
  <2>. QED
    BY <1>12, <2>2, <2>3
<1>. QED
  BY <1>13 DEF W

(* What is parsed as a list is one. *)
LEMMA ParsedIsList ==
  ASSUME NEW t, IsTokens(t), NEW i \in Nat \ {0}, ParseIn(t, i).ok,
         Kind(t, i) = "ident", Kind(t, i + 1) = "in"
  PROVE  IsList(t, i, ParseIn(t, i).pos) /\ ParseIn(t, i).pos \in Nat
<1> DEFINE a == i + 3
           list == ParseList(t, a)
           closed == Closing(t, list)
<1>1. /\ Kind(t, i + 2) = "(" /\ closed.ok
      /\ ParseIn(t, i) = Got(InList(t[i].v, closed.tree), closed.pos)
  BY DEF ParseIn, Fail
<1>2. ParseIn(t, i).pos = closed.pos
  BY <1>1 DEF Got
<1>3. a \in Nat \ {0} /\ a = i + 3
  OBVIOUS
<1> HIDE DEF list, a
<1>4. list.ok /\ Kind(t, list.pos) = ")" /\ closed.pos = list.pos + 1
  BY <1>1 DEF Closing, Fail, Got
<1>5. PICK n \in 0..Len(t) :
        /\ \A m \in 0..(n - 1) : IsScalar(t, a + 2 * m) /\ Kind(t, a + 2 * m + 1) = ","
        /\ list = IF IsScalar(t, a + 2 * n)
                  THEN Got({t[a + 2 * m] : m \in 0..n}, a + 2 * n + 1)
                  ELSE Fail
  BY <1>3, ListIs DEF list
<1>6. n \in Nat
  BY DEF IsTokens
<1>7. IsScalar(t, a + 2 * n) /\ list.pos = a + 2 * n + 1
  BY <1>4, <1>5 DEF Got, Fail
<1> DEFINE j == i + 2 * n + 5
<1>8. j \in Nat /\ j - 1 = list.pos /\ list.pos + 1 = j
  BY <1>3, <1>6, <1>7
<1>9. ASSUME NEW m \in 0..n PROVE IsScalar(t, i + 3 + 2 * m)
  <2>1. m = n \/ m \in 0..(n - 1)
    BY <1>6
  <2>2. IsScalar(t, a + 2 * m)
    BY <1>5, <1>7, <2>1
  <2>. QED
    BY <1>3, <2>2
<1>10. ASSUME NEW m \in 0..(n - 1) PROVE Kind(t, i + 4 + 2 * m) = ","
  <2>1. a + 2 * m + 1 = i + 4 + 2 * m
    BY <1>3, <1>6
  <2>. QED
    BY <1>5, <2>1
<1>11. Kind(t, j - 1) = ")"
  BY <1>4, <1>8
<1>12. Lists(t, i, j, n)
  BY <1>1, <1>9, <1>10, <1>11 DEF Lists
<1>13. IsList(t, i, j)
  <2> HIDE DEF j
  <2>. QED
    BY <1>12 DEF Lists, IsList
<1>. QED
  BY <1>2, <1>4, <1>8, <1>13

-----------------------------------------------------------------------------
(* What is parsed is in the grammar. *)

(* tree is that of the tokens from i to before j, which have none of ops   *)
(* outside of parentheses.                                                 *)
Says(t, ops, i, j, tree) ==
  /\ i < j /\ j \in Positions(t) /\ Balanced(t, i, j)
  /\ TreeAt(t, i, j) = tree /\ tree # NoTree
  /\ \A op \in ops : Outside(t, op, i, j) = {}

Right(t, ops, r, i) == r.ok => Says(t, ops, i, r.pos, r.tree)

Both == {"and", "or"}

(* The operators that bind less than op. *)
Looser(op) == IF op = "and" THEN {"or"} ELSE {}

(* Two filters with an operator between them make one. *)
LEMMA NodesSay ==
  ASSUME NEW t, IsTokens(t), NEW i \in Positions(t), NEW k, NEW j, NEW l, NEW r,
         NEW op \in Both, Kind(t, k) = op,
         Says(t, Looser(op), i, k, l), Says(t, Looser(op) \cup {op}, k + 1, j, r)
  PROVE  Says(t, Looser(op), i, j, Node(op, l, r))
<1>1. /\ Positions(t) = 1..(Len(t) + 1) /\ Len(t) \in Nat
      /\ i \in Nat /\ k \in Nat /\ j \in Nat /\ i < k /\ k + 1 < j
      /\ k \in Positions(t) /\ j \in Positions(t)
  BY DEF Says, Positions, IsTokens
<1>2. Balanced(t, i, k) /\ Balanced(t, k + 1, j) /\ Kind(t, k) \notin {"(", ")"}
  BY DEF Says, Both
<1>3. /\ Balanced(t, i, j)
      /\ \A o : /\ Kind(t, k) = o => k \in Outside(t, o, i, j)
                /\ \A x \in Outside(t, o, i, j) :
                     x \in Outside(t, o, i, k) \/ x = k \/ x \in Outside(t, o, k + 1, j)
  BY <1>1, <1>2, JoinIsBalanced
<1>4. ASSUME NEW o \in Looser(op) PROVE Outside(t, o, i, j) = {}
  <2>1. Outside(t, o, i, k) = {} /\ Outside(t, o, k + 1, j) = {}
    BY DEF Says
  <2>2. ASSUME NEW x \in Outside(t, o, i, j) PROVE FALSE
    <3>1. x = k
      BY <1>3, <2>1
    <3>2. Kind(t, x) = o
      BY DEF Outside
    <3>. QED
      BY <3>1, <3>2 DEF Looser, Both
  <2>. QED
    BY <2>2
<1>5. ASSUME NEW x \in Outside(t, op, i, j) PROVE x <= k
  <2>1. Outside(t, op, k + 1, j) = {}
    BY DEF Says
  <2>2. x \in Outside(t, op, i, k) \/ x = k
    BY <1>3, <2>1
  <2>3. x \in Outside(t, op, i, k) => x \in i..(k - 1)
    BY DEF Outside
  <2>. QED
    BY <1>1, <2>2, <2>3
<1>6. TreeAt(t, i, j) = Split(op, l, r)
  <2>1. TreeAt(t, i, k) = l /\ TreeAt(t, k + 1, j) = r
    BY DEF Says
  <2>2. op = "and" => Outside(t, "or", i, j) = {}
    BY <1>4 DEF Looser
  <2>3. k \in Outside(t, op, i, j) /\ i <= j /\ op \in {"and", "or"}
    BY <1>1, <1>3 DEF Both
  <2>4. TreeAt(t, i, j) = Split(op, TreeAt(t, i, k), TreeAt(t, k + 1, j))
    BY <1>1, <1>5, <2>2, <2>3, GrammarSplits
  <2>. QED
    BY <2>1, <2>4
<1>7. Split(op, l, r) = Node(op, l, r) /\ Node(op, l, r) # NoTree
  <2>1. l # NoTree /\ r # NoTree
    BY DEF Says
  <2>2. Node(op, l, r).op = op /\ NoTree.op = "none" /\ op # "none"
    BY DEF Node, NoTree, Both
  <2>3. Node(op, l, r) # NoTree
    BY <2>2
  <2>. QED
    BY <2>1, <2>3 DEF Split
<1>8. i < j
  BY <1>1
<1>. QED
  BY <1>1, <1>3, <1>4, <1>6, <1>7, <1>8 DEF Says

LEMMA TurnIsRight ==
  ASSUME NEW t, IsTokens(t), NEW i \in Positions(t), NEW op \in Both, NEW c,
         \A j \in Positions(t) : j >= i => Right(t, Looser(op) \cup {op}, c[j], j),
         NEW r, Right(t, Looser(op), r, i)
  PROVE  Right(t, Looser(op), Turn(t, op, c, r), i)
<1>1. CASE r.ok /\ Kind(t, r.pos) = op
  <2> DEFINE k == r.pos
             s == c[k + 1]
  <2>1. Turn(t, op, c, r) = IF s.ok THEN Got(Node(op, r.tree, s.tree), s.pos) ELSE Fail
    BY <1>1 DEF Turn
  <2>2. Says(t, Looser(op), i, k, r.tree)
    BY <1>1 DEF Right
  <2>3. k \in Positions(t) /\ i < k /\ k \in 1..Len(t)
    <3>1. k \in 1..Len(t)
      BY <1>1, KindIs DEF Both
    <3>. QED
      BY <2>2, <3>1 DEF Says
  <2> HIDE DEF s
  <2>4. s.ok => Says(t, Looser(op) \cup {op}, k + 1, s.pos, s.tree)
    <3>1. k + 1 \in Positions(t) /\ k + 1 >= i
      BY <2>3 DEF Positions, IsTokens
    <3>. QED
      BY <3>1 DEF Right, s
  <2>5. s.ok => Says(t, Looser(op), i, s.pos, Node(op, r.tree, s.tree))
    BY <1>1, <2>2, <2>4, NodesSay
  <2>. QED
    BY <2>1, <2>5 DEF Right, Got, Fail
<1>2. CASE ~(r.ok /\ Kind(t, r.pos) = op)
  BY <1>2 DEF Turn
<1>. QED
  BY <1>1, <1>2

LEMMA LoopIsRight ==
  ASSUME NEW t, IsTokens(t), NEW i \in Positions(t), NEW op \in Both, NEW c,
         \A j \in Positions(t) : j >= i => Right(t, Looser(op) \cup {op}, c[j], j)
  PROVE  Right(t, Looser(op), Loop(t, op, c, i), i)
<1>1. PICK f : Turns(t, op, c, i, f)
  BY LoopIs
<1> DEFINE k == Len(t)
           Bad == {n \in 0..k : ~Right(t, Looser(op), f[n], i)}
<1>2. /\ f[0] = c[i] /\ \A n \in 1..k : f[n] = Turn(t, op, c, f[n - 1])
      /\ Loop(t, op, c, i) = f[k]
  BY <1>1 DEF Turns
<1>3. k \in Nat
  BY DEF IsTokens
<1> HIDE DEF k
<1>4. Right(t, Looser(op), c[i], i)
  <2>1. i >= i
    BY DEF Positions, IsTokens
  <2>2. Right(t, Looser(op) \cup {op}, c[i], i)
    BY <2>1
  <2>. QED
    BY <2>2 DEF Right, Says
<1>5. Bad = {}
  <2>1. SUFFICES ASSUME Bad # {} PROVE FALSE
    OBVIOUS
  <2>2. PICK b \in Bad : \A n \in Bad : b <= n
    <3>1. Bad \subseteq Nat
      OBVIOUS
    <3> HIDE DEF Bad
    <3>. QED
      BY <2>1, <3>1, Least
  <2>3. b \in 0..k /\ b # 0
    BY <1>2, <1>4, <2>2
  <2>4. b \in 1..k /\ b - 1 \in 0..k /\ b - 1 \notin Bad
    BY <1>3, <2>2, <2>3
  <2> DEFINE r == f[b - 1]
  <2>5. Right(t, Looser(op), r, i) /\ f[b] = Turn(t, op, c, r)
    BY <1>2, <2>4
  <2> HIDE DEF r, Bad
  <2>6. Right(t, Looser(op), f[b], i)
    BY <2>5, TurnIsRight
  <2>. QED
    BY <2>2, <2>6 DEF Bad
<1>6. k \in 0..k /\ k \notin Bad
  BY <1>3, <1>5
<1>. QED
  BY <1>2, <1>6

LEMMA AndIsRight ==
  ASSUME NEW t, IsTokens(t), NEW i \in Positions(t), NEW c,
         \A j \in Positions(t) : j >= i => Right(t, Both, c[j], j)
  PROVE  Right(t, {"or"}, ParseAnd(t, c, i), i)
<1>1. Looser("and") = {"or"} /\ Looser("and") \cup {"and"} = Both /\ "and" \in Both
  BY DEF Looser, Both
<1>2. Right(t, Looser("and"), Loop(t, "and", c, i), i)
  BY <1>1, LoopIsRight
<1>. QED
  BY <1>1, <1>2 DEF ParseAnd

LEMMA OrIsRight ==
  ASSUME NEW t, IsTokens(t), NEW i \in Positions(t), NEW c,
         \A j \in Positions(t) : j >= i => Right(t, Both, c[j], j)
  PROVE  Right(t, {}, ParseOr(t, c, i), i)
<1>1. Looser("or") = {} /\ Looser("or") \cup {"or"} = {"or"} /\ "or" \in Both
  BY DEF Looser, Both
<1>2. ASSUME NEW j \in Positions(t), j >= i PROVE Right(t, {"or"}, Ands(t, c)[j], j)
  <2>1. \A x \in Positions(t) : x >= j => x >= i
    BY <1>2 DEF Positions, IsTokens
  <2>2. Right(t, {"or"}, ParseAnd(t, c, j), j)
    BY <2>1, AndIsRight
  <2>. QED
    BY <2>2 DEF Ands
<1>3. Right(t, Looser("or"), Loop(t, "or", Ands(t, c), i), i)
  BY <1>1, <1>2, LoopIsRight
<1>. QED
  BY <1>1, <1>3, OrIs

(* A filter in parentheses, *)
LEMMA ClosedSays ==
  ASSUME NEW t, IsTokens(t), NEW i \in Positions(t), NEW k \in 1..Len(t), NEW tree,
         Says(t, {}, i + 1, k, tree), Kind(t, i) = "(", Kind(t, k) = ")"
  PROVE  Says(t, Both, i, k + 1, tree)
<1>1. i \in Nat /\ k \in Nat /\ i + 1 < k /\ k + 1 \in Positions(t) /\ i <= k + 1 /\ i < k + 1
  BY DEF Says, Positions, IsTokens
<1>2. Balanced(t, i, k + 1) /\ \A op \in {"and", "or"} : Outside(t, op, i, k + 1) = {}
  BY <1>1, WrapIsBalanced DEF Says
<1> DEFINE j == k + 1
<1>3. j \in Positions(t) /\ i <= j /\ i + 2 < j /\ j - 1 = k
  BY <1>1
<1>4. ~IsLeaf(t, i, j) /\ ~IsList(t, i, j)
  BY DEF IsLeaf, IsList
<1> HIDE DEF j
<1>5. Kind(t, j - 1) = ")" /\ \A op \in {"and", "or"} : Outside(t, op, i, j) = {}
  BY <1>2, <1>3 DEF j
<1>6. TreeAt(t, i, j) = TreeAt(t, i + 1, j - 1)
  BY <1>3, <1>4, <1>5, GrammarOfOperand
<1>7. TreeAt(t, i, k + 1) = tree /\ tree # NoTree
  BY <1>3, <1>6 DEF Says, j
<1>. QED
  BY <1>1, <1>2, <1>7 DEF Says, Both

(* a comparison *)
LEMMA LeafSays ==
  ASSUME NEW t, IsTokens(t), NEW i \in Positions(t), NEW j \in Positions(t), IsLeaf(t, i, j)
  PROVE  Says(t, Both, i, j, Leaf(t[i + 1].kind, t[i].v, t[i + 2]))
<1>1. i \in Nat /\ j \in Nat /\ j = i + 3 /\ i <= j /\ i < j
  BY DEF Positions, IsTokens, IsLeaf
<1>2. ASSUME NEW k \in i..(j - 1) PROVE Kind(t, k) \notin {"(", ")", "and", "or"}
  <2>1. k = i \/ k = i + 1 \/ k = i + 2
    BY <1>1
  <2>. QED
    BY <2>1 DEF IsLeaf, IsScalar, Operators
<1>3. Balanced(t, i, j)
  BY <1>1, <1>2, FlatIsBalanced
<1>4. \A op \in {"and", "or"} : Outside(t, op, i, j) = {}
  BY <1>2 DEF Outside
<1>5. TreeAt(t, i, j) = Leaf(t[i + 1].kind, t[i].v, t[i + 2])
  BY <1>1, <1>4, GrammarOfOperand
<1>6. t[i + 1].kind \in Operators
  <2>1. Kind(t, i + 1) \in Operators
    BY DEF IsLeaf
  <2>. QED
    BY <2>1 DEF Kind, Operators
<1>7. Leaf(t[i + 1].kind, t[i].v, t[i + 2]) # NoTree
  <2>1. /\ Leaf(t[i + 1].kind, t[i].v, t[i + 2]).op = t[i + 1].kind
        /\ NoTree.op = "none" /\ t[i + 1].kind # "none"
    BY <1>6 DEF Leaf, NoTree, Operators
  <2>. QED
    BY <2>1
<1>. QED
  BY <1>1, <1>3, <1>4, <1>5, <1>7 DEF Says, Both

(* and a list. *)
LEMMA ListSays ==
  ASSUME NEW t, IsTokens(t), NEW i \in Positions(t), NEW j \in Positions(t), IsList(t, i, j)
  PROVE  Says(t, Both, i, j, InList(t[i].v, ScalarsOf(t, i, j)))
<1>1. i \in Nat /\ j \in Nat
  BY DEF Positions, IsTokens
<1>2. i < j /\ i <= j
  <2>1. PICK n \in 0..Len(t) : j = i + 2 * n + 5
    BY DEF IsList
  <2>. QED
    BY <1>1, <2>1 DEF IsTokens
<1>3. Balanced(t, i, j) /\ \A op \in {"and", "or"} : Outside(t, op, i, j) = {}
  BY <1>1, ListIsBalanced
<1>4. ~IsLeaf(t, i, j)
  BY DEF IsLeaf, IsList, Operators
<1>5. TreeAt(t, i, j) = InList(t[i].v, ScalarsOf(t, i, j))
  BY <1>2, <1>3, <1>4, GrammarOfOperand
<1>6. InList(t[i].v, ScalarsOf(t, i, j)) # NoTree
  <2>1. InList(t[i].v, ScalarsOf(t, i, j)).op = "in" /\ NoTree.op = "none"
    BY DEF InList, NoTree
  <2>. QED
    BY <2>1
<1>. QED
  BY <1>2, <1>3, <1>5, <1>6 DEF Says, Both

(* What parse_comparison yields is in the grammar, *)
LEMMA OperandIsRight ==
  ASSUME NEW t, IsTokens(t), NEW i \in Positions(t), NEW c,
         \A j \in Positions(t) : j > i => Right(t, Both, c[j], j)
  PROVE  Right(t, Both, Operand(t, c, i), i)
<1>1. i \in Nat \ {0} /\ Positions(t) = 1..(Len(t) + 1) /\ Len(t) \in Nat
  BY DEF Positions, IsTokens
<1>2. SUFFICES ASSUME Operand(t, c, i).ok
               PROVE  Says(t, Both, i, Operand(t, c, i).pos, Operand(t, c, i).tree)
  BY DEF Right
<1>3. CASE Kind(t, i) = "("
  <2> DEFINE r == ParseOr(t, c, i + 1)
  <2>1. i + 1 \in Positions(t) /\ \A j \in Positions(t) : j >= i + 1 => j > i
    BY <1>1, <1>3, KindIs
  <2>2. Right(t, {}, r, i + 1)
    BY <2>1, OrIsRight
  <2>3. Operand(t, c, i) = Closing(t, r)
    BY <1>3, OperandIs
  <2> HIDE DEF r
  <2>4. r.ok /\ Kind(t, r.pos) = ")" /\ Operand(t, c, i) = Got(r.tree, r.pos + 1)
    BY <1>2, <2>3 DEF Closing, Fail
  <2>5. r.pos \in 1..Len(t) /\ Says(t, {}, i + 1, r.pos, r.tree)
    BY <2>2, <2>4, KindIs DEF Right
  <2>6. Says(t, Both, i, r.pos + 1, r.tree)
    BY <1>3, <2>4, <2>5, ClosedSays
  <2>. QED
    BY <2>4, <2>6 DEF Got
<1>4. CASE Kind(t, i) = "ident" /\ Kind(t, i + 1) = "in"
  <2> DEFINE r == ParseIn(t, i)
  <2>1. Operand(t, c, i) = r /\ r.ok
    BY <1>2, <1>4, OperandIs
  <2>2. IsList(t, i, r.pos) /\ r.pos \in Nat /\ r.pos \in Positions(t)
    <3>1. IsList(t, i, r.pos) /\ r.pos \in Nat
      BY <1>1, <1>4, <2>1, ParsedIsList
    <3>2. r.pos \in Positions(t)
      BY <1>1, <2>1, InMovesOn DEF MovesOn
    <3>. QED
      BY <3>1, <3>2
  <2>3. r = Got(InList(t[i].v, ScalarsOf(t, i, r.pos)), r.pos)
    BY <1>1, <2>2, ListParses
  <2> HIDE DEF r
  <2>4. r.tree = InList(t[i].v, ScalarsOf(t, i, r.pos))
    BY <2>3 DEF Got
  <2>. QED
    BY <2>1, <2>2, <2>4, ListSays
<1>5. CASE Kind(t, i) = "ident" /\ Kind(t, i + 1) \in Operators
  <2>1. /\ IsScalar(t, i + 2)
        /\ Operand(t, c, i) = Got(Leaf(t[i + 1].kind, t[i].v, t[i + 2]), i + 3)
    <3>1. Operand(t, c, i) =
            IF IsScalar(t, i + 2) THEN Got(Leaf(t[i + 1].kind, t[i].v, t[i + 2]), i + 3)
                                  ELSE Fail
      BY <1>5, OperandIs
    <3>. QED
      BY <1>2, <3>1 DEF Fail
  <2>2. i + 3 \in Positions(t) /\ IsLeaf(t, i, i + 3)
    <3>1. i + 2 \in 1..Len(t)
      BY <2>1, KindIs DEF IsScalar
    <3>. QED
      BY <1>1, <1>5, <2>1, <3>1 DEF IsLeaf
  <2>3. Says(t, Both, i, i + 3, Leaf(t[i + 1].kind, t[i].v, t[i + 2]))
    BY <2>2, LeafSays
  <2>. QED
    BY <2>1, <2>3 DEF Got
<1>6. CASE /\ ~(Kind(t, i) = "(") /\ ~(Kind(t, i) = "ident" /\ Kind(t, i + 1) = "in")
           /\ ~(Kind(t, i) = "ident" /\ Kind(t, i + 1) \in Operators)
  BY <1>2, <1>6, OperandIs DEF Fail
<1>. QED
  BY <1>3, <1>4, <1>5, <1>6

(* from the last token to the first, *)
LEMMA ComparisonIsRight ==
  ASSUME NEW t, IsTokens(t), NEW i \in Positions(t)
  PROVE  Right(t, Both, ParseComparison(t)[i], i)
<1> DEFINE c == ParseComparison(t)
           e == Len(t) + 1
           Bad == {m \in 0..(e - 1) : ~Right(t, Both, c[e - m], e - m)}
<1>1. e \in Nat \ {0} /\ Positions(t) = 1..e
  BY DEF IsTokens, Positions
<1>2. \A j \in Positions(t) : c[j] = Operand(t, c, j)
  BY ComparisonIs
<1> HIDE DEF c, e
<1>3. Bad = {}
  <2>1. SUFFICES ASSUME Bad # {} PROVE FALSE
    OBVIOUS
  <2>2. PICK b \in Bad : \A m \in Bad : b <= m
    <3>1. Bad \subseteq Nat
      OBVIOUS
    <3> HIDE DEF Bad
    <3>. QED
      BY <2>1, <3>1, Least
  <2> DEFINE k == e - b
  <2>3. k \in Positions(t) /\ ~Right(t, Both, c[k], k)
    BY <1>1, <2>2
  <2>4. ASSUME NEW j \in Positions(t), j > k PROVE Right(t, Both, c[j], j)
    <3>1. e - j \in 0..(e - 1) /\ e - j < b /\ e - (e - j) = j
      BY <1>1, <2>2, <2>4
    <3>2. e - j \notin Bad
      BY <1>1, <2>2, <3>1
    <3>. QED
      BY <3>1, <3>2
  <2> HIDE DEF k
  <2>5. Right(t, Both, Operand(t, c, k), k)
    BY <2>3, <2>4, OperandIsRight
  <2>. QED
    BY <1>2, <2>3, <2>5
<1>4. e - i \in 0..(e - 1) /\ e - (e - i) = i
  BY <1>1
<1>5. e - i \notin Bad
  BY <1>3
<1>. QED
  BY <1>4, <1>5 DEF c

(* and so is what parse accepts. *)
LEMMA ParsedIsInGrammar ==
  ASSUME NEW t, IsTokens(t), Parse(t).ok
  PROVE  Parse(t).tree = TreeAt(t, 1, Len(t) + 1)
<1> DEFINE r == ParseOr(t, ParseComparison(t), 1)
<1>1. 1 \in Positions(t)
  BY DEF Positions, IsTokens
<1>2. Right(t, {}, r, 1)
  BY <1>1, ComparisonIsRight, OrIsRight
<1>3. r.ok /\ r.pos = Len(t) + 1 /\ Parse(t) = r
  BY DEF Parse, Fail
<1> HIDE DEF r
<1>. QED
  BY <1>2, <1>3 DEF Right, Says

-----------------------------------------------------------------------------
(* What is in the grammar is parsed. *)

(* The loop of op that begins at i yields tree before j after fewer turns  *)
(* than there are tokens between.                                          *)
Reaches(t, op, c, i, j, tree) ==
  \E f : /\ Turns(t, op, c, i, f)
         /\ \E n \in 0..Len(t) : n < j - i /\ f[n] = Got(tree, j)

LEMMA FirstReaches ==
  ASSUME NEW t, IsTokens(t), NEW op, NEW c, NEW i \in Positions(t), NEW j \in Positions(t),
         NEW tree, c[i] = Got(tree, j), i < j
  PROVE  Reaches(t, op, c, i, j, tree)
<1>1. PICK f : Turns(t, op, c, i, f)
  BY LoopIs
<1>2. f[0] = Got(tree, j)
  BY <1>1 DEF Turns
<1>3. 0 \in 0..Len(t) /\ 0 < j - i
  BY DEF Positions, IsTokens
<1>. QED
  BY <1>1, <1>2, <1>3 DEF Reaches

LEMMA NextReaches ==
  ASSUME NEW t, IsTokens(t), NEW op, NEW c, NEW i \in Positions(t), NEW j \in Positions(t),
         NEW k \in Positions(t), i < k, k + 1 < j, Kind(t, k) = op,
         NEW l, NEW r, Reaches(t, op, c, i, k, l), c[k + 1] = Got(r, j)
  PROVE  Reaches(t, op, c, i, j, Node(op, l, r))
<1>1. PICK f : /\ Turns(t, op, c, i, f)
               /\ \E n \in 0..Len(t) : n < k - i /\ f[n] = Got(l, k)
  BY DEF Reaches
<1>2. PICK n \in 0..Len(t) : n < k - i /\ f[n] = Got(l, k)
  BY <1>1
<1>3. n \in Nat /\ n + 1 \in 1..Len(t) /\ n + 1 \in 0..Len(t) /\ n + 1 < j - i /\ (n + 1) - 1 = n
  BY <1>2 DEF Positions, IsTokens
<1>4. f[n + 1] = Turn(t, op, c, f[n])
  <2>1. f[n + 1] = Turn(t, op, c, f[(n + 1) - 1])
    BY <1>1, <1>3 DEF Turns
  <2>. QED
    BY <1>3, <2>1
<1>5. Turn(t, op, c, Got(l, k)) = Got(Node(op, l, r), j)
  <2> DEFINE left == Got(l, k)
             right == c[k + 1]
  <2>1. left.ok /\ left.tree = l /\ left.pos = k
    BY DEF Got
  <2>2. right.ok /\ right.tree = r /\ right.pos = j
    BY DEF Got
  <2> HIDE DEF left
  <2>3. Turn(t, op, c, left) =
          IF right.ok THEN Got(Node(op, left.tree, right.tree), right.pos) ELSE Fail
    BY <2>1 DEF Turn
  <2> HIDE DEF right
  <2>4. Turn(t, op, c, left) = Got(Node(op, l, r), j)
    BY <2>1, <2>2, <2>3
  <2>. QED
    BY <2>4 DEF left
<1>6. f[n + 1] = Got(Node(op, l, r), j)
  BY <1>2, <1>4, <1>5
<1>. QED
  BY <1>1, <1>3, <1>6 DEF Reaches

(* A loop stops where its operator does not follow. *)
LEMMA LoopStops ==
  ASSUME NEW t, IsTokens(t), NEW op, NEW c, NEW i, NEW j, NEW tree,
         Reaches(t, op, c, i, j, tree), Kind(t, j) # op
  PROVE  Loop(t, op, c, i) = Got(tree, j)
<1>1. PICK f : /\ Turns(t, op, c, i, f)
               /\ \E n \in 0..Len(t) : f[n] = Got(tree, j)
  BY DEF Reaches
<1>2. PICK n \in 0..Len(t) : f[n] = Got(tree, j)
  BY <1>1
<1> DEFINE k == Len(t)
           Bad == {m \in n..k : f[m] # Got(tree, j)}
<1>3. /\ \A m \in 1..k : f[m] = Turn(t, op, c, f[m - 1])
      /\ Loop(t, op, c, i) = f[k]
  BY <1>1 DEF Turns
<1>4. k \in Nat /\ n \in Nat /\ n <= k
  BY DEF IsTokens
<1> HIDE DEF k
<1>5. Turn(t, op, c, Got(tree, j)) = Got(tree, j)
  BY DEF Turn, Got
<1>6. Bad = {}
  <2>1. SUFFICES ASSUME Bad # {} PROVE FALSE
    OBVIOUS
  <2>2. PICK b \in Bad : \A m \in Bad : b <= m
    <3>1. Bad \subseteq Nat
      BY <1>4
    <3> HIDE DEF Bad
    <3>. QED
      BY <2>1, <3>1, Least
  <2>3. b # n
    BY <1>2, <2>2
  <2>4. b - 1 \in n..k /\ b - 1 \notin Bad /\ b \in 1..k
    BY <1>4, <2>2, <2>3
  <2>5. f[b - 1] = Got(tree, j)
    BY <2>4
  <2>. QED
    BY <1>3, <1>5, <2>2, <2>4, <2>5
<1>7. k \in n..k
  BY <1>4
<1>. QED
  BY <1>3, <1>6, <1>7

(* What is outside of parentheses in two balanced ranges with a token      *)
(* between them is so in both together.                                    *)
LEMMA OutsideStays ==
  ASSUME NEW t, NEW i \in Nat, NEW l \in Nat, NEW j \in Nat, NEW op,
         Balanced(t, i, l), Balanced(t, l + 1, j), Kind(t, l) \notin {"(", ")"}
  PROVE  /\ Outside(t, op, i, l) \subseteq Outside(t, op, i, j)
         /\ Outside(t, op, l + 1, j) \subseteq Outside(t, op, i, j)
<1>1. i <= l /\ l + 1 <= j /\ Depth(t, i, l) = 0
  BY DEF Balanced
<1>2. Depth(t, i, l + 1) = 0
  <2>1. Sign(t, l) = 0
    BY DEF Sign
  <2>2. i <= l
    BY <1>1
  <2>3. Depth(t, i, l + 1) = Depth(t, i, l) + Sign(t, l)
    BY <2>2, DepthStep
  <2>. QED
    BY <1>1, <2>1, <2>3
<1>3. ASSUME NEW k \in Outside(t, op, l + 1, j) PROVE k \in Outside(t, op, i, j)
  <2>1. k \in (l + 1)..(j - 1) /\ Kind(t, k) = op /\ Depth(t, l + 1, k) = 0
    BY DEF Outside
  <2>2. k \in Nat /\ i <= l + 1 /\ l + 1 <= k /\ l + 1 \in Nat /\ k \in i..(j - 1)
    BY <1>1, <2>1
  <2>3. Depth(t, i, k) = Depth(t, i, l + 1) + Depth(t, l + 1, k)
    BY <2>2, DepthAdds
  <2>. QED
    BY <1>2, <2>1, <2>2, <2>3 DEF Outside
<1>4. ASSUME NEW k \in Outside(t, op, i, l) PROVE k \in Outside(t, op, i, j)
  <2>1. k \in i..(l - 1) /\ Kind(t, k) = op /\ Depth(t, i, k) = 0
    BY DEF Outside
  <2>2. k \in i..(j - 1)
    BY <1>1, <2>1
  <2>. QED
    BY <2>1, <2>2 DEF Outside
<1>. QED
  BY <1>3, <1>4

(* The parsers read all of the tokens from i to before j when they have a  *)
(* tree: parse_comparison when no operator is outside of parentheses,      *)
(* parse_and when no OR is, parse_or when no AND follows.                  *)
Complete(t, i, j) ==
  TreeAt(t, i, j) # NoTree =>
    /\ i < j /\ Balanced(t, i, j)
    /\ (\A op \in Both : Outside(t, op, i, j) = {}) =>
         ParseComparison(t)[i] = Got(TreeAt(t, i, j), j)
    /\ Outside(t, "or", i, j) = {} =>
         Reaches(t, "and", ParseComparison(t), i, j, TreeAt(t, i, j))
    /\ Kind(t, j) # "and" =>
         Reaches(t, "or", Ands(t, ParseComparison(t)), i, j, TreeAt(t, i, j))

LEMMA AndStops ==
  ASSUME NEW t, IsTokens(t), NEW i \in Positions(t), NEW j \in Positions(t), NEW tree,
         Reaches(t, "and", ParseComparison(t), i, j, tree), Kind(t, j) # "and"
  PROVE  Ands(t, ParseComparison(t))[i] = Got(tree, j)
<1>1. Loop(t, "and", ParseComparison(t), i) = Got(tree, j)
  BY LoopStops
<1>. QED
  BY <1>1 DEF Ands, ParseAnd

(* A filter that is split at an operator. *)
LEMMA SplitParts ==
  ASSUME NEW t, IsTokens(t), NEW i \in Positions(t), NEW j \in Positions(t), i <= j,
         NEW op \in Both, op = "and" => Outside(t, "or", i, j) = {},
         Outside(t, op, i, j) # {}, TreeAt(t, i, j) # NoTree,
         \A a, b \in Positions(t) : a <= b /\ b - a < j - i => Complete(t, a, b)
  PROVE  \E k \in Positions(t) :
           /\ i < k /\ k + 1 < j /\ k + 1 \in Positions(t) /\ Kind(t, k) = op
           /\ TreeAt(t, i, j) = Node(op, TreeAt(t, i, k), TreeAt(t, k + 1, j))
           /\ TreeAt(t, i, k) # NoTree /\ TreeAt(t, k + 1, j) # NoTree
           /\ Complete(t, i, k) /\ Complete(t, k + 1, j) /\ Balanced(t, i, j)
           /\ Outside(t, op, k + 1, j) = {}
           /\ \A o \in Looser(op) : Outside(t, o, i, k) = {} /\ Outside(t, o, k + 1, j) = {}
<1>1. Positions(t) = 1..(Len(t) + 1) /\ Len(t) \in Nat /\ i \in Nat /\ j \in Nat
  BY DEF Positions, IsTokens
<1>2. PICK k \in Outside(t, op, i, j) : /\ k \in i..(j - 1)
                                        /\ \A x \in Outside(t, op, i, j) : x <= k
  BY <1>1, LastIs
<1>3. Kind(t, k) = op
  BY DEF Outside
<1>4. /\ k \in Nat /\ k \in Positions(t) /\ i <= k /\ k - i < j - i
      /\ k + 1 \in Positions(t) /\ k + 1 <= j /\ j - (k + 1) < j - i
  BY <1>1, <1>2
<1>5. TreeAt(t, i, j) = Split(op, TreeAt(t, i, k), TreeAt(t, k + 1, j))
  BY <1>2, GrammarSplits DEF Both
<1>6. /\ TreeAt(t, i, k) # NoTree /\ TreeAt(t, k + 1, j) # NoTree
      /\ TreeAt(t, i, j) = Node(op, TreeAt(t, i, k), TreeAt(t, k + 1, j))
  BY <1>5 DEF Split
<1>7. Complete(t, i, k) /\ Complete(t, k + 1, j)
  BY <1>4
<1>8. i < k /\ k + 1 < j /\ Balanced(t, i, k) /\ Balanced(t, k + 1, j)
  BY <1>6, <1>7 DEF Complete
<1>9. Kind(t, k) \notin {"(", ")"}
  BY <1>3 DEF Both
<1>10. Balanced(t, i, j)
  BY <1>1, <1>4, <1>8, <1>9, JoinIsBalanced
<1>11. \A o : /\ Outside(t, o, i, k) \subseteq Outside(t, o, i, j)
              /\ Outside(t, o, k + 1, j) \subseteq Outside(t, o, i, j)
  BY <1>1, <1>4, <1>8, <1>9, OutsideStays
<1>12. Outside(t, op, k + 1, j) = {}
  <2>1. ASSUME NEW x \in Outside(t, op, k + 1, j) PROVE FALSE
    <3>1. x \in (k + 1)..(j - 1)
      BY DEF Outside
    <3>2. x <= k
      BY <1>2, <1>11
    <3>. QED
      BY <1>4, <3>1, <3>2
  <2>. QED
    BY <2>1
<1>13. \A o \in Looser(op) : Outside(t, o, i, k) = {} /\ Outside(t, o, k + 1, j) = {}
  <2>1. \A o \in Looser(op) : Outside(t, o, i, j) = {}
    BY DEF Looser
  <2>. QED
    BY <1>11, <2>1
<1>. QED
  BY <1>3, <1>4, <1>6, <1>7, <1>8, <1>10, <1>12, <1>13

LEMMA OrCompletes ==
  ASSUME NEW t, IsTokens(t), NEW i \in Positions(t), NEW j \in Positions(t), i <= j,
         Outside(t, "or", i, j) # {}, TreeAt(t, i, j) # NoTree,
         \A a, b \in Positions(t) : a <= b /\ b - a < j - i => Complete(t, a, b)
  PROVE  Complete(t, i, j)
<1> DEFINE c == Ands(t, ParseComparison(t))
<1>1. PICK k \in Positions(t) :
        /\ i < k /\ k + 1 < j /\ k + 1 \in Positions(t) /\ Kind(t, k) = "or"
        /\ TreeAt(t, i, j) = Node("or", TreeAt(t, i, k), TreeAt(t, k + 1, j))
        /\ TreeAt(t, i, k) # NoTree /\ TreeAt(t, k + 1, j) # NoTree
        /\ Complete(t, i, k) /\ Complete(t, k + 1, j) /\ Balanced(t, i, j)
        /\ Outside(t, "or", k + 1, j) = {}
  <2>1. "or" \in Both /\ "or" # "and"
    BY DEF Both
  <2>. QED
    BY <2>1, SplitParts
<1>2. Reaches(t, "or", c, i, k, TreeAt(t, i, k))
  BY <1>1 DEF Complete
<1>3. Reaches(t, "and", ParseComparison(t), k + 1, j, TreeAt(t, k + 1, j))
  BY <1>1 DEF Complete
<1>4. ASSUME Kind(t, j) # "and" PROVE Reaches(t, "or", c, i, j, TreeAt(t, i, j))
  <2>1. c[k + 1] = Got(TreeAt(t, k + 1, j), j)
    BY <1>1, <1>3, <1>4, AndStops
  <2> HIDE DEF c
  <2>2. Reaches(t, "or", c, i, j, Node("or", TreeAt(t, i, k), TreeAt(t, k + 1, j)))
    BY <1>1, <1>2, <2>1, NextReaches
  <2>. QED
    BY <1>1, <2>2
<1>5. i < j
  BY <1>1 DEF Positions, IsTokens
<1>. QED
  BY <1>1, <1>4, <1>5 DEF Complete, Both

LEMMA AndCompletes ==
  ASSUME NEW t, IsTokens(t), NEW i \in Positions(t), NEW j \in Positions(t), i <= j,
         Outside(t, "or", i, j) = {}, Outside(t, "and", i, j) # {},
         TreeAt(t, i, j) # NoTree,
         \A a, b \in Positions(t) : a <= b /\ b - a < j - i => Complete(t, a, b)
  PROVE  Complete(t, i, j)
<1> DEFINE c == ParseComparison(t)
<1>1. PICK k \in Positions(t) :
        /\ i < k /\ k + 1 < j /\ k + 1 \in Positions(t) /\ Kind(t, k) = "and"
        /\ TreeAt(t, i, j) = Node("and", TreeAt(t, i, k), TreeAt(t, k + 1, j))
        /\ TreeAt(t, i, k) # NoTree /\ TreeAt(t, k + 1, j) # NoTree
        /\ Complete(t, i, k) /\ Complete(t, k + 1, j) /\ Balanced(t, i, j)
        /\ Outside(t, "and", k + 1, j) = {}
        /\ Outside(t, "or", i, k) = {} /\ Outside(t, "or", k + 1, j) = {}
  <2>1. "and" \in Both /\ "or" \in Looser("and")
    BY DEF Both, Looser
  <2>. QED
    BY <2>1, SplitParts
<1>2. Reaches(t, "and", c, i, k, TreeAt(t, i, k))
  BY <1>1 DEF Complete
<1>3. c[k + 1] = Got(TreeAt(t, k + 1, j), j)
  BY <1>1 DEF Complete, Both
<1> HIDE DEF c
<1>4. Reaches(t, "and", c, i, j, TreeAt(t, i, j))
  <2>1. Reaches(t, "and", c, i, j, Node("and", TreeAt(t, i, k), TreeAt(t, k + 1, j)))
    BY <1>1, <1>2, <1>3, NextReaches
  <2>. QED
    BY <1>1, <2>1
<1>5. i < j
  BY <1>1 DEF Positions, IsTokens
<1>6. ASSUME Kind(t, j) # "and" PROVE Reaches(t, "or", Ands(t, c), i, j, TreeAt(t, i, j))
  <2>1. Ands(t, c)[i] = Got(TreeAt(t, i, j), j)
    BY <1>4, <1>6, AndStops DEF c
  <2>. QED
    BY <1>5, <2>1, FirstReaches
<1>. QED
  BY <1>1, <1>4, <1>5, <1>6 DEF Complete, Both, c

(* A filter without an operator outside of parentheses. *)
LEMMA OperandReads ==
  ASSUME NEW t, IsTokens(t), NEW i \in Positions(t), NEW j \in Positions(t), i <= j,
         \A op \in Both : Outside(t, op, i, j) = {}, TreeAt(t, i, j) # NoTree,
         \A a, b \in Positions(t) : a <= b /\ b - a < j - i => Complete(t, a, b)
  PROVE  /\ ParseComparison(t)[i] = Got(TreeAt(t, i, j), j)
         /\ i < j /\ Balanced(t, i, j)
<1> DEFINE c == ParseComparison(t)
<1>1. c[i] = Operand(t, c, i)
  BY ComparisonIs
<1>2. /\ Positions(t) = 1..(Len(t) + 1) /\ Len(t) \in Nat
      /\ i \in Nat \ {0} /\ j \in Nat
  BY DEF Positions, IsTokens
<1>3. TreeAt(t, i, j) =
        IF IsLeaf(t, i, j) THEN Leaf(t[i + 1].kind, t[i].v, t[i + 2])
        ELSE IF IsList(t, i, j) THEN InList(t[i].v, ScalarsOf(t, i, j))
        ELSE IF i + 2 < j /\ Kind(t, i) = "(" /\ Kind(t, j - 1) = ")"
        THEN TreeAt(t, i + 1, j - 1)
        ELSE NoTree
  BY GrammarOfOperand DEF Both
<1> HIDE DEF c
<1>4. CASE IsLeaf(t, i, j)
  <2>1. Says(t, Both, i, j, Leaf(t[i + 1].kind, t[i].v, t[i + 2]))
    BY <1>4, LeafSays
  <2>2. Operand(t, c, i) = Got(Leaf(t[i + 1].kind, t[i].v, t[i + 2]), j)
    BY <1>4, OperandIs DEF IsLeaf
  <2>. QED
    BY <1>1, <2>1, <2>2 DEF Says, c
<1>5. CASE IsList(t, i, j)
  <2>1. Says(t, Both, i, j, InList(t[i].v, ScalarsOf(t, i, j)))
    BY <1>5, ListSays
  <2>2. ParseIn(t, i) = Got(InList(t[i].v, ScalarsOf(t, i, j)), j)
    BY <1>2, <1>5, ListParses
  <2>3. Operand(t, c, i) = ParseIn(t, i)
    BY <1>5, OperandIs DEF IsList
  <2>. QED
    BY <1>1, <2>1, <2>2, <2>3 DEF Says, c
<1>6. CASE ~IsLeaf(t, i, j) /\ ~IsList(t, i, j)
  <2> DEFINE k == j - 1
             tree == TreeAt(t, i + 1, k)
  <2>1. i + 2 < j /\ Kind(t, i) = "(" /\ Kind(t, k) = ")" /\ TreeAt(t, i, j) = tree
    BY <1>3, <1>6
  <2>2. /\ i + 1 \in Positions(t) /\ k \in Positions(t) /\ i + 1 <= k /\ k \in Nat
        /\ k - (i + 1) < j - i /\ k + 1 = j /\ i < j
    BY <1>2, <2>1
  <2> HIDE DEF k
  <2>3. Complete(t, i + 1, k) /\ tree # NoTree
    BY <2>1, <2>2
  <2>4. Balanced(t, i + 1, k) /\ Reaches(t, "or", Ands(t, c), i + 1, k, tree)
    BY <2>1, <2>3 DEF Complete, c
  <2>5. Balanced(t, i, j)
    <3>1. Balanced(t, i, k + 1)
      BY <1>2, <2>1, <2>2, <2>4, WrapIsBalanced
    <3>. QED
      BY <2>2, <3>1
  <2>6. ParseOr(t, c, i + 1) = Got(tree, k)
    <3>1. Kind(t, k) # "or"
      BY <2>1
    <3>2. Loop(t, "or", Ands(t, c), i + 1) = Got(tree, k)
      BY <2>4, <3>1, LoopStops
    <3>. QED
      BY <3>2, OrIs
  <2> HIDE DEF tree
  <2>7. Closing(t, Got(tree, k)) = Got(tree, j)
    BY <2>1, <2>2 DEF Closing, Got
  <2>8. Operand(t, c, i) = Got(tree, j)
    BY <2>1, <2>6, <2>7, OperandIs
  <2>. QED
    BY <1>1, <2>1, <2>2, <2>5, <2>8 DEF c
<1>. QED
  BY <1>4, <1>5, <1>6

LEMMA OperandCompletes ==
  ASSUME NEW t, IsTokens(t), NEW i \in Positions(t), NEW j \in Positions(t), i <= j,
         \A op \in Both : Outside(t, op, i, j) = {}, TreeAt(t, i, j) # NoTree,
         \A a, b \in Positions(t) : a <= b /\ b - a < j - i => Complete(t, a, b)
  PROVE  Complete(t, i, j)
<1> DEFINE c == ParseComparison(t)
<1>1. c[i] = Got(TreeAt(t, i, j), j) /\ i < j /\ Balanced(t, i, j)
  BY OperandReads
<1> HIDE DEF c
<1>2. Reaches(t, "and", c, i, j, TreeAt(t, i, j))
  BY <1>1, FirstReaches
<1>3. ASSUME Kind(t, j) # "and" PROVE Reaches(t, "or", Ands(t, c), i, j, TreeAt(t, i, j))
  <2>1. Ands(t, c)[i] = Got(TreeAt(t, i, j), j)
    BY <1>2, <1>3, AndStops DEF c
  <2>. QED
    BY <1>1, <2>1, FirstReaches
<1>. QED
  BY <1>1, <1>2, <1>3 DEF Complete, c

(* From the shorter ranges to the longer ones. *)
LEMMA AllComplete ==
  ASSUME NEW t, IsTokens(t), NEW i \in Positions(t), NEW j \in Positions(t), i <= j
  PROVE  Complete(t, i, j)
<1> DEFINE Bad == {n \in Nat : \E a, b \in Positions(t) : a <= b /\ b - a = n /\ ~Complete(t, a, b)}
<1>1. \A a, b \in Positions(t) : a \in Nat /\ b \in Nat /\ (a <= b => b - a \in Nat)
  BY DEF Positions, IsTokens
<1>2. Bad = {}
  <2>1. SUFFICES ASSUME Bad # {} PROVE FALSE
    OBVIOUS
  <2>2. PICK n \in Bad : \A m \in Bad : n <= m
    <3>1. Bad \subseteq Nat
      OBVIOUS
    <3> HIDE DEF Bad
    <3>. QED
      BY <2>1, <3>1, Least
  <2>3. PICK a \in Positions(t), b \in Positions(t) : a <= b /\ b - a = n /\ ~Complete(t, a, b)
    BY <2>2
  <2>4. ASSUME NEW x \in Positions(t), NEW y \in Positions(t), x <= y, y - x < b - a
        PROVE  Complete(t, x, y)
    <3>1. y - x \in Nat /\ y - x < n
      BY <1>1, <2>3, <2>4
    <3>2. y - x \notin Bad
      BY <1>1, <2>2, <2>3, <3>1
    <3>. QED
      BY <2>4, <3>1, <3>2
  <2> HIDE DEF Bad
  <2>5. TreeAt(t, a, b) # NoTree
    BY <2>3 DEF Complete
  <2>6. CASE Outside(t, "or", a, b) # {}
    BY <2>3, <2>4, <2>5, <2>6, OrCompletes
  <2>7. CASE Outside(t, "or", a, b) = {} /\ Outside(t, "and", a, b) # {}
    BY <2>3, <2>4, <2>5, <2>7, AndCompletes
  <2>8. CASE \A op \in Both : Outside(t, op, a, b) = {}
    BY <2>3, <2>4, <2>5, <2>8, OperandCompletes
  <2>. QED
    BY <2>6, <2>7, <2>8 DEF Both
<1>3. j - i \in Nat /\ j - i \notin Bad
  BY <1>1, <1>2
<1>. QED
  BY <1>3

(* Nothing follows the last token, so parse reads all of a filter. *)
LEMMA GrammarIsParsed ==
  ASSUME NEW t, IsTokens(t), TreeAt(t, 1, Len(t) + 1) # NoTree
  PROVE  Parse(t) = Got(TreeAt(t, 1, Len(t) + 1), Len(t) + 1)
<1> DEFINE j == Len(t) + 1
           tree == TreeAt(t, 1, j)
           c == ParseComparison(t)
<1>1. 1 \in Positions(t) /\ j \in Positions(t) /\ 1 <= j /\ j \notin 1..Len(t)
  BY DEF Positions, IsTokens
<1>2. Kind(t, j) = "end"
  BY <1>1, KindIs
<1>3. Complete(t, 1, j)
  BY <1>1, AllComplete
<1>4. Reaches(t, "or", Ands(t, c), 1, j, tree)
  BY <1>2, <1>3 DEF Complete
<1>5. ParseOr(t, c, 1) = Got(tree, j)
  <2> HIDE DEF j, tree, c
  <2>1. Kind(t, j) # "or"
    BY <1>2
  <2>2. Loop(t, "or", Ands(t, c), 1) = Got(tree, j)
    BY <1>4, <2>1, LoopStops
  <2>. QED
    BY <2>2, OrIs
<1> DEFINE r == ParseOr(t, c, 1)
<1>6. r.ok /\ r.pos = j
  <2> HIDE DEF j, tree, c
  <2>. QED
    BY <1>5 DEF Got
<1>7. Parse(t) = IF r.ok /\ r.pos = j THEN r ELSE Fail
  BY DEF Parse
<1> HIDE DEF r
<1>8. Parse(t) = r
  BY <1>6, <1>7
<1>. QED
  BY <1>5, <1>8 DEF r

(* The parser accepts exactly the filters of the grammar, with their trees. *)
LEMMA ParserIsGrammar ==
  ASSUME NEW t, IsTokens(t)
  PROVE  (IF Parse(t).ok THEN Parse(t).tree ELSE NoTree) = Grammar(t)[<<1, Len(t) + 1>>]
<1>1. CASE Parse(t).ok
  BY <1>1, ParsedIsInGrammar DEF TreeAt
<1>2. CASE ~Parse(t).ok
  <2>1. TreeAt(t, 1, Len(t) + 1) = NoTree
    BY <1>2, GrammarIsParsed DEF Got
  <2>. QED
    BY <1>2, <2>1 DEF TreeAt
<1>. QED
  BY <1>1, <1>2

-----------------------------------------------------------------------------
ParseInv ==
  /\ alphabet \in Alphabets
  /\ \E S : tokens \in Seq(S)
  /\ parsed = Parse(tokens)

LEMMA ParseInvHolds == ParseSpec => []ParseInv
<1>1. ParseInit => ParseInv
  <2>1. <<>> \in Seq({})
    OBVIOUS
  <2>. QED
    BY <2>1 DEF ParseInit, ParseInv
<1>2. ParseInv /\ [ParseSqlFilter]_parseVars => ParseInv'
  <2>1. CASE UNCHANGED parseVars
    BY <2>1 DEF ParseInv, parseVars
  <2>2. ASSUME ParseInv, ParseSqlFilter PROVE ParseInv'
    <3>1. PICK p \in alphabet.pieces : tokens' = tokens \o p
      BY <2>2 DEF ParseSqlFilter
    <3>2. PICK S : tokens \in Seq(S)
      BY <2>2 DEF ParseInv
    <3> DEFINE P == ToSet(p)
    <3>3. p \in Seq(P)
      BY <2>2, <3>1, AlphabetsAssumption DEF ParseInv
    <3> HIDE DEF P
    <3>4. tokens \in Seq(S \cup P) /\ p \in Seq(S \cup P)
      <4>1. \A A, B, s : A \subseteq B /\ s \in Seq(A) => s \in Seq(B)
        OBVIOUS
      <4>. QED
        BY <3>2, <3>3, <4>1
    <3>5. tokens' \in Seq(S \cup P)
      BY <3>1, <3>4
    <3>. QED
      BY <2>2, <3>5 DEF ParseInv, ParseSqlFilter
  <2>. QED
    BY <2>1, <2>2
<1>. QED
  BY <1>1, <1>2, PTL DEF ParseSpec

(* For every filter: the parser accepts those of the grammar, no others,   *)
(* and gives each the grammar's tree.                                      *)
THEOREM ParserImplementsGrammar == ParseSpec => []ParsesGrammar
<1>1. ParseInv => ParsesGrammar
  <2>1. SUFFICES ASSUME ParseInv PROVE ParsesGrammar
    OBVIOUS
  <2>2. IsTokens(tokens)
    BY <2>1 DEF ParseInv, IsTokens
  <2>. QED
    BY <2>1, <2>2, ParserIsGrammar DEF ParseInv, ParsesGrammar
<1>. QED
  BY <1>1, ParseInvHolds, PTL
=============================================================================

--------------------------- MODULE IndexFileProofs ---------------------------
(***************************************************************************)
(* Theorems about IndexFile: for any index, any size of a checksum and any *)
(* window of the streaming check, a torn file is an error to every loader, *)
(* a finished one is the index that was saved, and a changed one is taken  *)
(* by none.                                                                *)
(***************************************************************************)
EXTENDS IndexFile, SequenceTheorems, NaturalsInduction, WellFoundedInduction, TLAPS

-----------------------------------------------------------------------------
(* Sequences of cells of any shape. *)

IsSeq(s) == Len(s) \in Nat /\ s = [i \in 1..Len(s) |-> s[i]]

(* A sequence in Seq(S) is one. *)
LEMMA SeqsAre ==
  ASSUME NEW S, NEW s \in Seq(S)
  PROVE  IsSeq(s)
  BY DEF IsSeq

(* One whose cells are in S is in Seq(S). *)
LEMMA AreSeqs ==
  ASSUME NEW s, IsSeq(s), NEW S, \A i \in 1..Len(s) : s[i] \in S
  PROVE  s \in Seq(S)
<1> DEFINE n == Len(s)
<1>1. n \in Nat /\ s = [i \in 1..n |-> s[i]]
  BY DEF IsSeq
<1>2. \A i \in 1..n : s[i] \in S
  OBVIOUS
<1> HIDE DEF n
<1>3. s \in [1..n -> S]
  BY <1>1, <1>2
<1>. QED
  BY <1>1, <1>3

(* A function over 1..n is a sequence of length n. *)
LEMMA Made ==
  ASSUME NEW n \in Nat, NEW g, g = [i \in 1..n |-> g[i]]
  PROVE  IsSeq(g) /\ Len(g) = n
<1> DEFINE S == {g[i] : i \in 1..n}
<1>1. \A i \in 1..n : g[i] \in S
  OBVIOUS
<1> HIDE DEF S
<1>2. g \in [1..n -> S]
  BY <1>1
<1>3. g \in Seq(S) /\ Len(g) = n
  BY <1>2
<1>. QED
  BY <1>3 DEF IsSeq

(* The cells of s \o t. *)
LEMMA Joins ==
  ASSUME NEW s, IsSeq(s), NEW t, IsSeq(t)
  PROVE  /\ IsSeq(s \o t) /\ Len(s \o t) = Len(s) + Len(t)
         /\ \A i \in 1..Len(s) : (s \o t)[i] = s[i]
         /\ \A i \in 1..Len(t) : (s \o t)[Len(s) + i] = t[i]
<1> DEFINE S == {s[i] : i \in 1..Len(s)} \cup {t[i] : i \in 1..Len(t)}
<1>1. \A i \in 1..Len(s) : s[i] \in S
  OBVIOUS
<1>2. \A i \in 1..Len(t) : t[i] \in S
  OBVIOUS
<1> HIDE DEF S
<1>3. s \in Seq(S) /\ t \in Seq(S)
  BY <1>1, <1>2, AreSeqs
<1>4. /\ s \o t \in Seq(S)
      /\ Len(s \o t) = Len(s) + Len(t)
      /\ \A i \in 1 .. Len(s) + Len(t) :
           (s \o t)[i] = IF i <= Len(s) THEN s[i] ELSE t[i - Len(s)]
  BY <1>3, ConcatProperties
<1>5. Len(s) \in Nat /\ Len(t) \in Nat
  BY DEF IsSeq
<1>6. IsSeq(s \o t)
  BY <1>4, SeqsAre
<1>. QED
  BY <1>4, <1>5, <1>6

(* The cells a + 1 to a + b of s. *)
LEMMA Slices ==
  ASSUME NEW s, NEW a \in Nat, NEW b \in Nat
  PROVE  /\ IsSeq(SubSeq(s, a + 1, a + b)) /\ Len(SubSeq(s, a + 1, a + b)) = b
         /\ \A i \in 1..b : SubSeq(s, a + 1, a + b)[i] = s[a + i]
<1> DEFINE m == a + 1
           n == a + b
           S == {s[i] : i \in m..n}
<1>1. m \in Int /\ n \in Int /\ n - m + 1 = b /\ (IF m <= n THEN n - m + 1 ELSE 0) = b
  OBVIOUS
<1>2. \A i \in m..n : s[i] \in S
  OBVIOUS
<1>3. \A i \in 1..b : m + i - 1 = a + i
  OBVIOUS
<1> HIDE DEF m, n, S
<1>4. /\ SubSeq(s, m, n) \in Seq(S)
      /\ Len(SubSeq(s, m, n)) = IF m <= n THEN n - m + 1 ELSE 0
      /\ \A i \in 1 .. n - m + 1 : SubSeq(s, m, n)[i] = s[m + i - 1]
  BY <1>1, <1>2, SubSeqProperties
<1>5. IsSeq(SubSeq(s, m, n)) /\ Len(SubSeq(s, m, n)) = b
  BY <1>1, <1>4, SeqsAre
<1>6. \A i \in 1..b : SubSeq(s, m, n)[i] = s[a + i]
  BY <1>1, <1>3, <1>4
<1>. QED
  BY <1>5, <1>6 DEF m, n

(* A set of naturals has a least member. *)
LEMMA Least ==
  ASSUME NEW S \in SUBSET Nat, S # {}
  PROVE  \E m \in S : \A n \in S : m <= n
<1> DEFINE Less == {ss \in Nat \X Nat : ss[1] < ss[2]}
<1>1. IsWellFoundedOn(Less, Nat)
  BY NatLessThanWellFounded DEF OpToRel
<1> HIDE DEF Less
<1>2. PICK m \in S : \A n \in S : ~(<<n, m>> \in Less)
  BY <1>1, WFMin
<1>3. ASSUME NEW n \in S PROVE m <= n
  <2>1. n \in Nat /\ m \in Nat /\ <<n, m>> \notin Less
    BY <1>2
  <2>. QED
    BY <2>1 DEF Less
<1>. QED
  BY <1>3

-----------------------------------------------------------------------------
(* Flattening: where each sequence begins in the result. *)

Joined(ss, n, f) == f = [i \in 1..n |-> IF i = 1 THEN ss[i] ELSE f[i - 1] \o ss[i]]

(* The partial joins of any sequence of sequences exist. *)
LEMMA JoinedExists ==
  ASSUME NEW ss, NEW n \in Nat
  PROVE  \E f : Joined(ss, n, f)
<1> DEFINE Bad == {m \in Nat : ~\E f : Joined(ss, m, f)}
<1>1. SUFFICES ASSUME Bad # {} PROVE FALSE
  OBVIOUS
<1>2. PICK m \in Bad : \A i \in Bad : m <= i
  <2>1. Bad \subseteq Nat
    OBVIOUS
  <2> HIDE DEF Bad
  <2>. QED
    BY <1>1, <2>1, Least
<1>3. m # 0
  <2>1. Joined(ss, 0, [i \in 1..0 |-> ss[i]])
    BY DEF Joined
  <2>. QED
    BY <1>2, <2>1
<1>4. m \in Nat /\ m - 1 \in Nat /\ m - 1 \notin Bad
  BY <1>2, <1>3
<1>5. PICK f : Joined(ss, m - 1, f)
  BY <1>4
<1> DEFINE g == [i \in 1..m |-> IF i = m /\ i # 1 THEN f[m - 1] \o ss[m]
                                ELSE IF i = 1 THEN ss[1] ELSE f[i]]
           h == [i \in 1..m |-> IF i = 1 THEN ss[i] ELSE g[i - 1] \o ss[i]]
<1>6. ASSUME NEW i \in 1..m PROVE g[i] = h[i]
  <2>1. CASE i = 1
    BY <1>4, <2>1
  <2>2. ASSUME i # 1 PROVE i - 1 \in 1..(m - 1) /\ i - 1 \in 1..m /\ g[i - 1] = f[i - 1]
    <3>1. i - 1 \in 1..(m - 1) /\ i - 1 \in 1..m /\ i - 1 # m
      BY <1>4, <2>2
    <3>2. i - 1 = 1 => f[1] = ss[1]
      BY <1>5, <3>1 DEF Joined
    <3>. QED
      BY <3>1, <3>2
  <2>3. CASE i # 1 /\ i = m
    BY <2>2, <2>3
  <2>4. CASE i # 1 /\ i # m
    <3>1. i \in 1..(m - 1) /\ g[i] = f[i]
      BY <1>4, <2>4
    <3>2. f[i] = f[i - 1] \o ss[i]
      BY <1>5, <3>1, <2>4 DEF Joined
    <3>. QED
      BY <2>2, <2>4, <3>1, <3>2
  <2>. QED
    BY <2>1, <2>3, <2>4
<1>7. g = h
  BY <1>6
<1>8. Joined(ss, m, g)
  BY <1>7 DEF Joined
<1>. QED
  BY <1>2, <1>8

(* They are unique, and depend only on the sequences they join. *)
LEMMA JoinedAgree ==
  ASSUME NEW ss, NEW n \in Nat, NEW f, Joined(ss, n, f),
         NEW tt, NEW k \in Nat, NEW g, Joined(tt, k, g),
         NEW m \in Nat, m <= n, m <= k, \A i \in 1..m : ss[i] = tt[i]
  PROVE  \A i \in 1..m : f[i] = g[i]
<1> DEFINE Bad == {i \in 1..m : f[i] # g[i]}
<1>1. SUFFICES ASSUME Bad # {} PROVE FALSE
  OBVIOUS
<1>2. PICK b \in Bad : \A i \in Bad : b <= i
  <2>1. Bad \subseteq Nat
    OBVIOUS
  <2> HIDE DEF Bad
  <2>. QED
    BY <1>1, <2>1, Least
<1>3. ASSUME NEW i \in 1..m
      PROVE  /\ f[i] = (IF i = 1 THEN ss[i] ELSE f[i - 1] \o ss[i])
             /\ g[i] = (IF i = 1 THEN tt[i] ELSE g[i - 1] \o tt[i])
  <2>1. i \in 1..n /\ i \in 1..k
    OBVIOUS
  <2>. QED
    BY <2>1 DEF Joined
<1>4. b \in 1..m /\ b # 1
  BY <1>2, <1>3
<1>5. b - 1 \in 1..m /\ b - 1 \notin Bad
  BY <1>2, <1>4
<1>6. f[b - 1] = g[b - 1]
  BY <1>5
<1>7. f[b] = g[b]
  BY <1>3, <1>4, <1>6
<1>. QED
  BY <1>2, <1>7

(* FlattenSeq answers with the last partial join. *)
LEMMA FlattenIs ==
  ASSUME NEW ss, Len(ss) \in Nat \ {0}
  PROVE  \E f : Joined(ss, Len(ss), f) /\ FlattenSeq(ss) = f[Len(ss)]
<1> DEFINE f == CHOOSE g : Joined(ss, Len(ss), g)
<1>1. Joined(ss, Len(ss), f)
  <2>1. Len(ss) \in Nat
    OBVIOUS
  <2>. QED
    BY <2>1, JoinedExists
<1>2. FlattenSeq(ss) = f[Len(ss)]
  BY DEF FlattenSeq, Joined
<1>. QED
  BY <1>1, <1>2

Start(ss, i) == Len(FlattenSeq(SubSeq(ss, 1, i - 1)))

(* The k-th partial join flattens the first k sequences. *)
LEMMA JoinedPrefix ==
  ASSUME NEW ss, IsSeq(ss), NEW f, Joined(ss, Len(ss), f), NEW k \in 1..Len(ss)
  PROVE  FlattenSeq(SubSeq(ss, 1, k)) = f[k]
<1> DEFINE tt == SubSeq(ss, 1, k)
<1>1. Len(ss) \in Nat /\ k \in Nat \ {0} /\ k <= Len(ss)
  BY DEF IsSeq
<1>2. Len(tt) = k /\ \A i \in 1..k : tt[i] = ss[i]
  <2>1. 0 \in Nat /\ k \in Nat /\ 0 + 1 = 1 /\ 0 + k = k
    BY <1>1
  <2>2. /\ Len(SubSeq(ss, 0 + 1, 0 + k)) = k
        /\ \A i \in 1..k : SubSeq(ss, 0 + 1, 0 + k)[i] = ss[0 + i]
    BY <2>1, Slices
  <2>. QED
    BY <2>1, <2>2
<1> HIDE DEF tt
<1>3. PICK g : Joined(tt, Len(tt), g) /\ FlattenSeq(tt) = g[Len(tt)]
  BY <1>1, <1>2, FlattenIs
<1>4. \A i \in 1..k : f[i] = g[i]
  <2>1. Joined(tt, k, g) /\ \A i \in 1..k : ss[i] = tt[i]
    BY <1>2, <1>3
  <2>2. k \in Nat /\ Len(ss) \in Nat /\ k <= Len(ss)
    BY <1>1
  <2>. QED
    BY <2>1, <2>2, JoinedAgree
<1>5. f[k] = g[k]
  BY <1>1, <1>4
<1>. QED
  BY <1>2, <1>3, <1>5 DEF tt

(* What has been joined stays at the beginning.                            *)
Grown(ss, f, k) ==
  /\ IsSeq(f[k])
  /\ k > 1 => /\ Len(f[k]) = Len(f[k - 1]) + Len(ss[k])
              /\ \A j \in 1..Len(ss[k]) : f[k][Len(f[k - 1]) + j] = ss[k][j]
  /\ \A i \in 1..k : Len(f[i]) <= Len(f[k]) /\ \A c \in 1..Len(f[i]) : f[k][c] = f[i][c]

(* Each partial join continues the earlier ones. *)
LEMMA JoinedGrows ==
  ASSUME NEW ss, NEW n \in Nat, NEW f, Joined(ss, n, f), \A i \in 1..n : IsSeq(ss[i])
  PROVE  \A k \in 1..n : Grown(ss, f, k)
<1> DEFINE Bad == {k \in 1..n : ~Grown(ss, f, k)}
<1>1. SUFFICES ASSUME Bad # {} PROVE FALSE
  OBVIOUS
<1>2. PICK b \in Bad : \A i \in Bad : b <= i
  <2>1. Bad \subseteq Nat
    OBVIOUS
  <2> HIDE DEF Bad
  <2>. QED
    BY <1>1, <2>1, Least
<1>3. b \in 1..n /\ ~Grown(ss, f, b)
  BY <1>2
<1>4. f[b] = IF b = 1 THEN ss[b] ELSE f[b - 1] \o ss[b]
  BY <1>3 DEF Joined
<1>5. IsSeq(ss[b])
  BY <1>3
<1>6. CASE b = 1
  <2>1. f[1] = ss[1] /\ IsSeq(f[1]) /\ Len(f[1]) \in Nat
    BY <1>4, <1>5, <1>6 DEF IsSeq
  <2>2. \A i \in 1..b : i = 1
    BY <1>6
  <2>3. Grown(ss, f, b)
    BY <1>6, <2>1, <2>2 DEF Grown
  <2>. QED
    BY <1>3, <2>3
<1>7. CASE b # 1
  <2> DEFINE a == b - 1
  <2>1. a \in 1..n /\ a \in Nat /\ b > a /\ a \notin Bad
    BY <1>2, <1>3, <1>7
  <2>2. Grown(ss, f, a)
    BY <2>1
  <2>3. f[b] = f[a] \o ss[b]
    BY <1>4, <1>7
  <2>4. /\ IsSeq(f[a])
        /\ \A i \in 1..a : /\ Len(f[i]) <= Len(f[a])
                           /\ \A c \in 1..Len(f[i]) : f[a][c] = f[i][c]
    BY <2>2 DEF Grown
  <2>5. \A i \in 1..b : i = b \/ i \in 1..a
    BY <1>3, <2>1
  <2> HIDE DEF Bad, a
  <2>6. /\ IsSeq(f[b]) /\ Len(f[b]) = Len(f[a]) + Len(ss[b])
        /\ \A i \in 1..Len(f[a]) : f[b][i] = f[a][i]
        /\ \A i \in 1..Len(ss[b]) : f[b][Len(f[a]) + i] = ss[b][i]
    <3> DEFINE s == f[a]
               t == ss[b]
    <3>1. IsSeq(s) /\ IsSeq(t) /\ f[b] = s \o t
      BY <1>5, <2>3, <2>4
    <3> HIDE DEF s, t
    <3>2. /\ IsSeq(s \o t) /\ Len(s \o t) = Len(s) + Len(t)
          /\ \A i \in 1..Len(s) : (s \o t)[i] = s[i]
          /\ \A i \in 1..Len(t) : (s \o t)[Len(s) + i] = t[i]
      BY <3>1, Joins
    <3>3. /\ IsSeq(f[b]) /\ Len(f[b]) = Len(s) + Len(t)
          /\ \A i \in 1..Len(s) : f[b][i] = s[i]
          /\ \A i \in 1..Len(t) : f[b][Len(s) + i] = t[i]
      BY <3>1, <3>2
    <3>. QED
      BY <3>3 DEF s, t
  <2>7. Len(f[a]) \in Nat /\ Len(ss[b]) \in Nat /\ Len(f[b]) \in Nat /\ Len(f[a]) <= Len(f[b])
    <3>1. Len(f[a]) \in Nat /\ Len(ss[b]) \in Nat
      BY <1>5, <2>4 DEF IsSeq
    <3> DEFINE x == Len(f[a])
               y == Len(ss[b])
               z == Len(f[b])
    <3>2. z = x + y
      BY <2>6
    <3>3. x \in Nat /\ y \in Nat
      BY <3>1
    <3> HIDE DEF x, y, z
    <3>4. x \in Nat /\ y \in Nat /\ z \in Nat /\ x <= z
      BY <3>2, <3>3
    <3>. QED
      BY <3>4 DEF x, y, z
  <2>8. \A i \in 1..a : Len(f[i]) \in Nat
    <3>1. ASSUME NEW i \in 1..a PROVE Len(f[i]) \in Nat
      <4>1. i \in 1..n /\ i \notin Bad
        BY <1>2, <1>3, <2>1
      <4>2. Grown(ss, f, i)
        BY <4>1 DEF Bad
      <4>. QED
        BY <4>2 DEF Grown, IsSeq
    <3>. QED
      BY <3>1
  <2>9. \A i \in 1..b : Len(f[i]) <= Len(f[b]) /\ \A c \in 1..Len(f[i]) : f[b][c] = f[i][c]
    <3>1. ASSUME NEW i \in 1..a
          PROVE  Len(f[i]) <= Len(f[b]) /\ \A c \in 1..Len(f[i]) : f[b][c] = f[i][c]
      <4>1. Len(f[i]) <= Len(f[a]) /\ \A c \in 1..Len(f[i]) : f[a][c] = f[i][c]
        BY <2>4
      <4>2. Len(f[i]) \in Nat /\ \A c \in 1..Len(f[i]) : c \in 1..Len(f[a])
        BY <2>7, <2>8, <4>1
      <4>3. Len(f[i]) <= Len(f[b])
        <5> DEFINE x == Len(f[i])
                   y == Len(f[a])
                   z == Len(f[b])
        <5>1. x \in Nat /\ y \in Nat /\ z \in Nat /\ x <= y /\ y <= z
          BY <2>7, <4>1, <4>2
        <5> HIDE DEF x, y, z
        <5>2. x <= z
          BY <5>1
        <5>. QED
          BY <5>2 DEF x, z
      <4>4. \A c \in 1..Len(f[i]) : f[b][c] = f[i][c]
        BY <2>6, <4>1, <4>2
      <4>. QED
        BY <4>3, <4>4
    <3>. QED
      BY <2>5, <2>7, <3>1
  <2>10. Grown(ss, f, b)
    BY <2>6, <2>9 DEF Grown, a
  <2>. QED
    BY <1>3, <2>10
<1>. QED
  BY <1>6, <1>7

(* Cell j of sequence i is cell Start(ss, i) + j of the flattened one. *)
LEMMA Flattens ==
  ASSUME NEW ss, IsSeq(ss), \A i \in 1..Len(ss) : IsSeq(ss[i])
  PROVE  /\ IsSeq(FlattenSeq(ss)) /\ Start(ss, 1) = 0
         /\ Start(ss, Len(ss) + 1) = Len(FlattenSeq(ss))
         /\ \A i \in 1..Len(ss) :
              /\ Start(ss, i) \in Nat /\ Len(ss[i]) \in Nat
              /\ Start(ss, i + 1) = Start(ss, i) + Len(ss[i])
              /\ Start(ss, i + 1) <= Len(FlattenSeq(ss))
              /\ \A j \in 1..Len(ss[i]) : FlattenSeq(ss)[Start(ss, i) + j] = ss[i][j]
<1> DEFINE n == Len(ss)
<1>1. n \in Nat /\ ss = [i \in 1..n |-> ss[i]] /\ \A i \in 1..n : IsSeq(ss[i])
  BY DEF IsSeq
<1>2. Start(ss, 1) = 0
  <2>1. SubSeq(ss, 1, 1 - 1) = <<>>
    BY SubSeqEmpty
  <2>2. Len(<<>>) = 0
    BY EmptySeq
  <2>3. FlattenSeq(<<>>) = <<>>
    BY <2>2 DEF FlattenSeq
  <2>. QED
    BY <2>1, <2>2, <2>3 DEF Start
<1>3. CASE n = 0
  <2>1. FlattenSeq(ss) = ss
    BY <1>3 DEF FlattenSeq
  <2>2. Start(ss, n + 1) = 0
    BY <1>2, <1>3
  <2>. QED
    BY <1>1, <1>2, <1>3, <2>1, <2>2
<1>4. CASE n # 0
  <2>1. PICK f : Joined(ss, n, f) /\ FlattenSeq(ss) = f[n]
    BY <1>1, <1>4, FlattenIs
  <2>2. \A k \in 1..n : FlattenSeq(SubSeq(ss, 1, k)) = f[k]
    BY <2>1, JoinedPrefix
  <2> HIDE DEF n
  <2>3. \A k \in 1..n : Grown(ss, f, k)
    BY <1>1, <2>1, JoinedGrows
  <2>4. \A k \in 1..n : Start(ss, k + 1) = Len(f[k]) /\ Len(f[k]) \in Nat
    <3>1. ASSUME NEW k \in 1..n PROVE Start(ss, k + 1) = Len(f[k]) /\ Len(f[k]) \in Nat
      <4>1. (k + 1) - 1 = k
        BY <1>1
      <4>2. IsSeq(f[k])
        BY <2>3 DEF Grown
      <4>. QED
        BY <2>2, <4>1, <4>2 DEF Start, IsSeq
    <3>. QED
      BY <3>1
  <2>5. n \in 1..n
    BY <1>1, <1>4
  <2>6. IsSeq(f[n]) /\ Start(ss, n + 1) = Len(f[n])
    BY <2>3, <2>4, <2>5 DEF Grown
  <2>7. ASSUME NEW i \in 1..n
        PROVE  /\ Start(ss, i) \in Nat /\ Len(ss[i]) \in Nat
               /\ Start(ss, i + 1) = Start(ss, i) + Len(ss[i])
               /\ Start(ss, i + 1) <= Len(f[n])
               /\ \A j \in 1..Len(ss[i]) : f[n][Start(ss, i) + j] = ss[i][j]
    <3>1. Len(ss[i]) \in Nat /\ Len(f[i]) \in Nat /\ Start(ss, i + 1) = Len(f[i])
      BY <1>1, <2>4 DEF IsSeq
    <3>2. Len(f[i]) <= Len(f[n]) /\ \A c \in 1..Len(f[i]) : f[n][c] = f[i][c]
      BY <2>3, <2>5 DEF Grown
    <3>3. /\ Start(ss, i) \in Nat
          /\ Len(f[i]) = Start(ss, i) + Len(ss[i])
          /\ \A j \in 1..Len(ss[i]) : f[i][Start(ss, i) + j] = ss[i][j]
      <4>1. CASE i = 1
        <5>1. f[1] = ss[1]
          BY <2>1, <4>1 DEF Joined
        <5>. QED
          BY <1>2, <3>1, <4>1, <5>1
      <4>2. CASE i # 1
        <5>1. i > 1 /\ i - 1 \in 1..n /\ (i - 1) + 1 = i
          BY <1>1, <4>2
        <5>2. Start(ss, (i - 1) + 1) = Len(f[i - 1]) /\ Len(f[i - 1]) \in Nat
          BY <2>4, <5>1
        <5>3. /\ Len(f[i]) = Len(f[i - 1]) + Len(ss[i])
              /\ \A j \in 1..Len(ss[i]) : f[i][Len(f[i - 1]) + j] = ss[i][j]
          BY <2>3, <5>1 DEF Grown
        <5>. QED
          BY <5>1, <5>2, <5>3
      <4>. QED
        BY <4>1, <4>2
    <3>4. \A j \in 1..Len(ss[i]) : Start(ss, i) + j \in 1..Len(f[i])
      BY <3>1, <3>3
    <3>. QED
      BY <3>1, <3>2, <3>3, <3>4
  <2>. QED
    BY <1>2, <2>1, <2>6, <2>7 DEF n
<1>. QED
  BY <1>3, <1>4

-----------------------------------------------------------------------------
(* The streaming check covers what the check of the whole buffer covers.   *)

(* Min of two numbers. *)
LEMMA MinOfTwo ==
  ASSUME NEW x \in Int, NEW y \in Int
  PROVE  Min({x, y}) = IF x <= y THEN x ELSE y
<1> DEFINE m == IF x <= y THEN x ELSE y
<1>1. m \in {x, y} /\ \A z \in {x, y} : m <= z
  OBVIOUS
<1>2. \A z \in {x, y} : z \in Int
  OBVIOUS
<1>3. \A z \in {x, y} : (\A u \in {x, y} : z <= u) => z = m
  BY <1>1, <1>2
<1> HIDE DEF m
<1>4. (CHOOSE z \in {x, y} : \A u \in {x, y} : z <= u) = m
  BY <1>1, <1>3
<1>. QED
  BY <1>4 DEF Min, m

(* What the quotient of two naturals is. *)
LEMMA Division ==
  ASSUME NEW n \in Nat, NEW d \in Nat \ {0}
  PROVE  /\ n \div d \in Nat /\ (n \div d) * d \in Nat
         /\ (n \div d) * d <= n /\ n < (n \div d) * d + d
  OBVIOUS

(* Multiples are monotone. *)
LEMMA Times ==
  ASSUME NEW a \in Nat, NEW b \in Nat, NEW w \in Nat, a <= b
  PROVE  /\ a * w \in Nat /\ b * w \in Nat /\ a * w <= b * w
         /\ (a + 1) * w = a * w + w
<1>1. PICK d \in Nat : b = a + d
  <2>1. b - a \in Nat /\ b = a + (b - a)
    OBVIOUS
  <2>. QED
    BY <2>1
<1>2. b * w = a * w + d * w /\ d * w \in Nat /\ a * w \in Nat
  BY <1>1
<1>. QED
  BY <1>2

FromOf(w, i) == 1 + (i - 1) * w
SizeOf(f, w, i) == Min({w, Len(f) - FromOf(w, i)})
WindowOf(f, lo, w, i) ==
  Blanked(Slice(f, Region(FromOf(w, i), SizeOf(f, w, i))),
          FromOf(w, i), FromOf(w, i) + SizeOf(f, w, i), lo, lo + SumCells)
WindowsOf(f, w) == (Len(f) - 1 + w - 1) \div w

(* What the checksum covers: the cells behind the header, its own as blanks. *)
LEMMA CoveredIs ==
  ASSUME NEW f, IsSeq(f), Len(f) >= 1, NEW h
  PROVE  /\ IsSeq(Covered(f, h)) /\ Len(Covered(f, h)) = Len(f) - 1
         /\ \A i \in 1..Len(f) - 1 :
              Covered(f, h)[i] =
                IF i >= h.regions["manifest"].off + 1
                   /\ i < h.regions["manifest"].off + 1 + SumCells THEN Blank ELSE f[i + 1]
<1> DEFINE g == Covered(f, h)
           n == Len(f) - 1
<1>1. n \in Nat
  BY DEF IsSeq
<1>2. g = [i \in 1..n |->
             IF i >= h.regions["manifest"].off + 1
                /\ i < h.regions["manifest"].off + 1 + SumCells THEN Blank ELSE f[i + 1]]
  BY DEF Covered
<1> HIDE DEF g, n
<1>3. g = [i \in 1..n |-> g[i]]
  BY <1>2
<1>4. IsSeq(g) /\ Len(g) = n
  BY <1>1, <1>3, Made
<1>5. \A i \in 1..n :
        g[i] = IF i >= h.regions["manifest"].off + 1
                  /\ i < h.regions["manifest"].off + 1 + SumCells THEN Blank ELSE f[i + 1]
  BY <1>2
<1>. QED
  BY <1>4, <1>5 DEF g, n

(* The windows are full but for the last. *)
LEMMA WindowsFit ==
  ASSUME NEW f, IsSeq(f), Len(f) >= 1, NEW w \in Nat \ {0}
  PROVE  /\ WindowsOf(f, w) \in Nat
         /\ Len(f) - 1 <= WindowsOf(f, w) * w
         /\ \A i \in 1..WindowsOf(f, w) :
              /\ (i - 1) * w \in Nat /\ i * w = (i - 1) * w + w
              /\ SizeOf(f, w, i) \in Nat
              /\ (i - 1) * w + SizeOf(f, w, i) <= Len(f) - 1
              /\ i # WindowsOf(f, w) => SizeOf(f, w, i) = w
              /\ i = WindowsOf(f, w) => SizeOf(f, w, i) = Len(f) - 1 - (i - 1) * w
<1> DEFINE n == WindowsOf(f, w)
           l == Len(f) - 1
<1>1. l \in Nat /\ l + w - 1 \in Nat
  BY DEF IsSeq
<1>2. n = (l + w - 1) \div w
  BY DEF WindowsOf
<1>3. n \in Nat /\ n * w \in Nat /\ n * w <= l + w - 1 /\ l + w - 1 < n * w + w
  <2> DEFINE k == l + w - 1
  <2>1. k \in Nat /\ n = k \div w
    BY <1>1, <1>2
  <2> HIDE DEF k, n
  <2>2. n \in Nat /\ n * w \in Nat /\ n * w <= k /\ k < n * w + w
    BY <2>1, Division
  <2>. QED
    BY <2>2 DEF k
<1>4. Len(f) = l + 1
  BY <1>1 DEF IsSeq
<1> HIDE DEF n, l
<1>5. ASSUME NEW i \in 1..n
      PROVE  /\ (i - 1) * w \in Nat /\ i * w = (i - 1) * w + w
             /\ SizeOf(f, w, i) \in Nat
             /\ (i - 1) * w + SizeOf(f, w, i) <= l
             /\ i # n => SizeOf(f, w, i) = w
             /\ i = n => SizeOf(f, w, i) = l - (i - 1) * w
  <2> DEFINE a == i - 1
             p == a * w
             b == n - 1
  <2>1. a \in Nat /\ b \in Nat /\ a <= b /\ a + 1 = i /\ b + 1 = n /\ (i = n => a = b)
        /\ (i # n => i \in Nat /\ i <= b)
    BY <1>3
  <2>2. b * w \in Nat /\ n * w = b * w + w
    <3> HIDE DEF a, b, p
    <3>1. b * w \in Nat /\ (b + 1) * w = b * w + w
      BY <2>1, Times
    <3>. QED
      BY <2>1, <3>1
  <2>3. b * w < l \/ (b * w <= l /\ l = 0)
    BY <1>1, <1>3, <2>2
  <2>4. p \in Nat /\ p <= b * w /\ i * w = p + w
    <3> HIDE DEF a, b
    <3>1. a * w \in Nat /\ a * w <= b * w /\ (a + 1) * w = a * w + w
      BY <2>1, Times
    <3>. QED
      BY <2>1, <3>1
  <2>5. i # n => i * w <= b * w
    <3> HIDE DEF a, b
    <3>. QED
      BY <2>1, Times
  <2> HIDE DEF b, p
  <2>6. Len(f) - FromOf(w, i) = l - p
    BY <1>1, <1>4, <2>4 DEF FromOf, p
  <2>7. SizeOf(f, w, i) = IF w <= l - p THEN w ELSE l - p
    <3> DEFINE y == l - p
    <3>1. y \in Int /\ w \in Int
      BY <1>1, <2>4
    <3>2. SizeOf(f, w, i) = Min({w, y})
      BY <2>6 DEF SizeOf
    <3> HIDE DEF y
    <3>3. Min({w, y}) = IF w <= y THEN w ELSE y
      BY <3>1, MinOfTwo
    <3>. QED
      BY <3>2, <3>3 DEF y
  <2>8. CASE i # n
    <3>1. w <= l - p
      BY <1>1, <2>2, <2>3, <2>4, <2>5, <2>8
    <3>. QED
      BY <1>1, <2>4, <2>7, <2>8, <3>1 DEF p
  <2>9. CASE i = n
    <3>1. p = b * w
      BY <2>1, <2>9 DEF p
    <3>2. l - p \in Nat /\ l - p <= w
      BY <1>1, <1>3, <2>2, <2>3, <2>4, <3>1
    <3>. QED
      BY <1>1, <2>4, <2>7, <2>9, <3>2 DEF p
  <2>. QED
    BY <2>8, <2>9
<1>6. l <= n * w
  BY <1>1, <1>3
<1>. QED
  BY <1>3, <1>5, <1>6 DEF n, l

(* Cell j of window i is cell (i - 1) * w + j of what is covered. *)
LEMMA WindowIs ==
  ASSUME NEW f, IsSeq(f), Len(f) >= 1, NEW h, h.regions["manifest"].off \in Nat,
         NEW w \in Nat \ {0}, NEW i \in 1..WindowsOf(f, w)
  PROVE  LET win == WindowOf(f, h.regions["manifest"].off + 1, w, i)
         IN  /\ IsSeq(win) /\ Len(win) = SizeOf(f, w, i)
             /\ \A j \in 1..SizeOf(f, w, i) : win[j] = Covered(f, h)[(i - 1) * w + j]
<1> DEFINE lo == h.regions["manifest"].off + 1
           hi == lo + SumCells
           p == (i - 1) * w
           n == SizeOf(f, w, i)
           win == WindowOf(f, lo, w, i)
           cells == SubSeq(f, (p + 1) + 1, (p + 1) + n)
           g == Covered(f, h)
<1>1. /\ p \in Nat /\ n \in Nat /\ p + n <= Len(f) - 1 /\ Len(f) \in Nat
      /\ FromOf(w, i) = p + 1
  <2>1. p \in Nat /\ n \in Nat /\ p + n <= Len(f) - 1
    BY WindowsFit
  <2>2. FromOf(w, i) = p + 1
    BY <2>1 DEF FromOf
  <2>. QED
    BY <2>1, <2>2 DEF IsSeq
<1>2. lo \in Nat /\ hi \in Nat
  <2> DEFINE off == h.regions["manifest"].off
  <2>1. SumCells \in Nat /\ off \in Nat
    BY SizesAssumption
  <2> HIDE DEF p, n, win, cells, g, off
  <2>2. off + 1 \in Nat /\ off + 1 + SumCells \in Nat
    BY <2>1
  <2>. QED
    BY <2>2 DEF off
<1>3. \A c \in 1..Len(f) - 1 : g[c] = IF c >= lo /\ c < lo + SumCells THEN Blank ELSE f[c + 1]
  BY CoveredIs
<1>4. win = Blanked(cells, p + 1, p + 1 + n, lo, hi)
  BY <1>1 DEF WindowOf, Slice, Region
<1> HIDE DEF p, n, win, g, lo
<1>5. Len(cells) = n /\ \A j \in 1..n : cells[j] = f[p + 1 + j]
  <2>1. p + 1 \in Nat
    BY <1>1
  <2> DEFINE q == p + 1
  <2>2. Len(SubSeq(f, q + 1, q + n)) = n /\ \A j \in 1..n : SubSeq(f, q + 1, q + n)[j] = f[q + j]
    <3> HIDE DEF q
    <3>1. q \in Nat
      BY <2>1 DEF q
    <3>. QED
      BY <1>1, <3>1, Slices
  <2>. QED
    BY <2>2
<1> HIDE DEF cells, hi
<1>6. win = [j \in 1..n |->
               IF p + 1 + n > lo /\ p + 1 < hi /\ p + 1 + j - 1 >= lo /\ p + 1 + j - 1 < hi
               THEN Blank ELSE cells[j]]
  BY <1>4, <1>5 DEF Blanked
<1>7. IsSeq(win) /\ Len(win) = n
  <2>1. win = [j \in 1..n |-> win[j]]
    BY <1>6
  <2>. QED
    BY <1>1, <2>1, Made
<1>8. ASSUME NEW j \in 1..n PROVE win[j] = g[p + j]
  <2>1. p + j \in 1..Len(f) - 1 /\ p + 1 + j - 1 = p + j
        /\ (p + j >= lo => p + 1 + n > lo) /\ (p + j < hi => p + 1 < hi)
    BY <1>1, <1>2
  <2>2. win[j] = IF p + j >= lo /\ p + j < hi THEN Blank ELSE cells[j]
    BY <1>6, <2>1
  <2>3. cells[j] = f[p + j + 1]
    <3>1. p + 1 + j = p + j + 1
      BY <1>1
    <3>. QED
      BY <1>5, <3>1
  <2>4. g[p + j] = IF p + j >= lo /\ p + j < hi THEN Blank ELSE f[p + j + 1]
    BY <1>3, <2>1 DEF hi
  <2>. QED
    BY <2>2, <2>3, <2>4
<1>. QED
  BY <1>7, <1>8 DEF win, n, p, g, lo

(* The windows of the streaming check cover what the whole-file check covers. *)
LEMMA StreamedIsCovered ==
  ASSUME NEW f, IsSeq(f), Len(f) >= 1, NEW h, h.regions["manifest"].off \in Nat,
         NEW w \in Nat \ {0}
  PROVE  Streamed(f, h, w) = Covered(f, h)
<1> DEFINE lo == h.regions["manifest"].off + 1
           n == WindowsOf(f, w)
           l == Len(f) - 1
           ws == [i \in 1..n |-> WindowOf(f, lo, w, i)]
           all == FlattenSeq(ws)
           g == Covered(f, h)
           Size(i) == SizeOf(f, w, i)
<1>1. Streamed(f, h, w) = all
  BY DEF Streamed, WindowOf, FromOf, SizeOf, WindowsOf
<1>2. l \in Nat
  BY DEF IsSeq
<1>3. /\ n \in Nat /\ l <= n * w /\ n * w \in Int
      /\ \A i \in 1..n :
           /\ (i - 1) * w \in Nat /\ i * w = (i - 1) * w + w
           /\ Size(i) \in Nat /\ (i - 1) * w + Size(i) <= l
           /\ i # n => Size(i) = w
           /\ i = n => Size(i) = l - (i - 1) * w
  BY WindowsFit
<1>4. IsSeq(g) /\ Len(g) = l
  BY CoveredIs
<1>5. \A i \in 1..n : /\ IsSeq(ws[i]) /\ Len(ws[i]) = Size(i)
                      /\ \A j \in 1..Size(i) : ws[i][j] = g[(i - 1) * w + j]
  <2>1. ASSUME NEW i \in 1..n
        PROVE  /\ IsSeq(ws[i]) /\ Len(ws[i]) = Size(i)
               /\ \A j \in 1..Size(i) : ws[i][j] = g[(i - 1) * w + j]
    <3>1. ws[i] = WindowOf(f, lo, w, i)
      OBVIOUS
    <3> DEFINE win == WindowOf(f, lo, w, i)
    <3>2. /\ IsSeq(win) /\ Len(win) = Size(i)
          /\ \A j \in 1..Size(i) : win[j] = g[(i - 1) * w + j]
      BY WindowIs
    <3> HIDE DEF win, ws, g, Size
    <3>. QED
      BY <3>1, <3>2 DEF win
  <2> HIDE DEF ws, g, Size, n
  <2>. QED
    BY <2>1
<1>6. IsSeq(ws) /\ Len(ws) = n
  <2>1. ws = [i \in 1..n |-> ws[i]]
    OBVIOUS
  <2> HIDE DEF ws, n
  <2>. QED
    BY <1>3, <2>1, Made
<1> HIDE DEF lo, n, l, ws, g, Size
<1>7. /\ IsSeq(all) /\ Start(ws, 1) = 0 /\ Start(ws, n + 1) = Len(all)
      /\ \A i \in 1..n : /\ Start(ws, i) \in Nat /\ Start(ws, i + 1) = Start(ws, i) + Size(i)
                         /\ \A j \in 1..Size(i) : all[Start(ws, i) + j] = ws[i][j]
  <2>1. IsSeq(ws) /\ \A i \in 1..Len(ws) : IsSeq(ws[i])
    BY <1>5, <1>6
  <2>2. /\ IsSeq(FlattenSeq(ws)) /\ Start(ws, 1) = 0
        /\ Start(ws, Len(ws) + 1) = Len(FlattenSeq(ws))
        /\ \A i \in 1..Len(ws) :
             /\ Start(ws, i) \in Nat /\ Len(ws[i]) \in Nat
             /\ Start(ws, i + 1) = Start(ws, i) + Len(ws[i])
             /\ Start(ws, i + 1) <= Len(FlattenSeq(ws))
             /\ \A j \in 1..Len(ws[i]) : FlattenSeq(ws)[Start(ws, i) + j] = ws[i][j]
    BY <2>1, Flattens
  <2> HIDE DEF all
  <2>3. /\ IsSeq(all) /\ Start(ws, 1) = 0 /\ Start(ws, n + 1) = Len(all)
        /\ \A i \in 1..n :
             /\ Start(ws, i) \in Nat
             /\ Start(ws, i + 1) = Start(ws, i) + Len(ws[i])
             /\ \A j \in 1..Len(ws[i]) : all[Start(ws, i) + j] = ws[i][j]
    BY <1>6, <2>2 DEF all
  <2>. QED
    BY <1>5, <2>3
<1> HIDE DEF all
<1>8. \A i \in 1..n : Start(ws, i) = (i - 1) * w
  <2> DEFINE Bad == {i \in 1..n : Start(ws, i) # (i - 1) * w}
  <2>1. SUFFICES ASSUME Bad # {} PROVE FALSE
    OBVIOUS
  <2>2. PICK b \in Bad : \A i \in Bad : b <= i
    <3>1. Bad \subseteq Nat
      OBVIOUS
    <3> HIDE DEF Bad
    <3>. QED
      BY <2>1, <3>1, Least
  <2>3. b \in 1..n /\ b # 1
    <3>1. (1 - 1) * w = 0
      OBVIOUS
    <3>. QED
      BY <1>7, <2>2, <3>1
  <2> DEFINE a == b - 1
  <2>4. a \in 1..n /\ a \notin Bad /\ a # n /\ a + 1 = b
    BY <1>3, <2>2, <2>3
  <2>5. Start(ws, a) = (a - 1) * w
    BY <2>4
  <2>6. Size(a) = w /\ Start(ws, a + 1) = Start(ws, a) + Size(a) /\ a * w = (a - 1) * w + w
    BY <1>3, <1>7, <2>4
  <2>7. Start(ws, b) = a * w
    BY <2>4, <2>5, <2>6
  <2>. QED
    BY <2>2, <2>7
<1>9. Len(all) = l
  <2>1. CASE n = 0
    <3>1. l = 0
      BY <1>2, <1>3, <2>1
    <3>. QED
      BY <1>7, <2>1, <3>1
  <2>2. CASE n # 0
    <3>1. n \in 1..n
      BY <1>3, <2>2
    <3>2. Start(ws, n + 1) = (n - 1) * w + Size(n)
      BY <1>7, <1>8, <3>1
    <3>3. Size(n) = l - (n - 1) * w /\ (n - 1) * w \in Nat
      BY <1>3, <3>1
    <3> DEFINE q == (n - 1) * w
    <3>4. q + (l - q) = l
      <4>1. q \in Nat
        BY <3>3
      <4> HIDE DEF q
      <4>. QED
        BY <1>2, <4>1
    <3>. QED
      BY <1>7, <3>2, <3>3, <3>4
  <2>. QED
    BY <2>1, <2>2
<1>10. ASSUME NEW c \in 1..l PROVE all[c] = g[c]
  <2> DEFINE k == (c - 1) \div w
             q == k * w
             i == k + 1
             j == c - q
  <2>1. k \in Nat /\ q \in Nat /\ q <= c - 1 /\ c - 1 < q + w
    <3> DEFINE d == c - 1
    <3>1. d \in Nat
      BY <1>2
    <3> HIDE DEF d
    <3>2. d \div w \in Nat /\ (d \div w) * w \in Nat /\ (d \div w) * w <= d
          /\ d < (d \div w) * w + w
      BY <3>1, Division
    <3>. QED
      BY <3>2 DEF d
  <2> HIDE DEF k
  <2>2. k < n
    <3>1. ASSUME n <= k PROVE FALSE
      <4>1. n * w <= q
        BY <1>3, <2>1, <3>1, Times
      <4> HIDE DEF q
      <4>. QED
        BY <1>2, <1>3, <2>1, <4>1
    <3>. QED
      BY <1>3, <2>1, <3>1
  <2>3. i \in 1..n /\ (i - 1) * w = q
    BY <1>3, <2>1, <2>2
  <2>4. j \in 1..Size(i) /\ q + j = c
    <3>1. /\ i # n => Size(i) = w
          /\ i = n => Size(i) = l - (i - 1) * w
      BY <1>3, <2>3
    <3>2. i # n => Size(i) = w
      BY <3>1
    <3>3. i = n => Size(i) = l - q
      BY <2>3, <3>1
    <3>4. Size(i) = w \/ Size(i) = l - q
      BY <3>2, <3>3
    <3> HIDE DEF q, i
    <3>. QED
      BY <1>2, <2>1, <3>4
  <2>5. Start(ws, i) = q /\ all[Start(ws, i) + j] = ws[i][j] /\ ws[i][j] = g[q + j]
    <3>1. Start(ws, i) = q
      BY <1>8, <2>3
    <3>2. all[Start(ws, i) + j] = ws[i][j]
      BY <1>7, <2>3, <2>4
    <3>3. ws[i][j] = g[(i - 1) * w + j]
      BY <1>5, <2>3, <2>4
    <3>. QED
      BY <2>3, <3>1, <3>2, <3>3
  <2> HIDE DEF q, i, j
  <2>. QED
    BY <2>4, <2>5
<1>11. all = [c \in 1..l |-> all[c]] /\ g = [c \in 1..l |-> g[c]]
  BY <1>4, <1>7, <1>9 DEF IsSeq
<1>12. all = g
  BY <1>10, <1>11
<1>. QED
  BY <1>1, <1>12 DEF all, g

-----------------------------------------------------------------------------
(* The inductive invariant. *)

Names == {"rotation", "centroids", "data", "meta", "raw", "payload", "manifest"}

(* The regions written before a stage. *)
Earlier(s) ==
  CASE s = "rotation"  -> {}
    [] s = "centroids" -> {"rotation"}
    [] s = "data"      -> {"rotation", "centroids"}
    [] s = "meta"      -> {"rotation", "centroids", "data"}
    [] s = "raw"       -> {"rotation", "centroids", "data", "meta"}
    [] s = "payload"   -> {"rotation", "centroids", "data", "meta", "raw"}
    [] s = "manifest"  -> {"rotation", "centroids", "data", "meta", "raw", "payload"}
    [] OTHER           -> Names

CellsIn(rs, x, s) == Cells(s, x, IF s = "meta" THEN rs["data"].off ELSE 0)

(* The region s is where rs says, with its cells, but for the checksum.    *)
PlacedIn(f, rs, x, s) ==
  /\ rs[s] = Region(rs[s].off, Len(CellsIn(rs, x, s)))
  /\ rs[s].off \in Nat \ {0}
  /\ rs[s].off + Len(CellsIn(rs, x, s)) <= Len(f)
  /\ \A i \in 1..Len(CellsIn(rs, x, s)) :
       s # "manifest" \/ i = 1 => f[rs[s].off + i] = CellsIn(rs, x, s)[i]

LaidIn(f, rs, x, S) ==
  /\ DOMAIN rs = S
  /\ \A s \in S : PlacedIn(f, rs, x, s)
  /\ "manifest" \in S =>
       \A s \in S \ {"manifest"} : rs[s].off + rs[s].len <= rs["manifest"].off

SumIn(f, rs, sum) == \A i \in 1..SumCells : f[rs["manifest"].off + 1 + i] = sum[i]

HeadIn(f, rs, x) == f[1] = [header |-> HeaderOf(x, rs)]

(* A cell that no disk has changed. *)
Sound(c) ==
  /\ c # Junk
  /\ "meta" \in DOMAIN c =>
       c = [meta |-> c.meta] /\ c.meta \in [off : Nat, len : Nat, count : Nat]

TypeInv ==
  /\ stage \in {"none", "header", "checksum", "done", "dead"} \cup Names
  /\ intact \in BOOLEAN /\ index \in Indexes /\ IsSeq(file)
  /\ ~intact => stage = "done"

SoundInv == intact => \A i \in 1..Len(file) : Sound(file[i])

Begun == Len(file) >= 1

WritingInv ==
  /\ stage = "none" => file = <<>>
  /\ stage \in Names \cup {"header"} =>
       Begun /\ file[1] = Blank /\ LaidIn(file, regions, index, Earlier(stage))
  /\ stage = "header" => SumIn(file, regions, NoSum)

Unsummed ==
  /\ Begun /\ HeadIn(file, regions, index)
  /\ LaidIn(file, regions, index, Names) /\ SumIn(file, regions, NoSum)

TornInv ==
  /\ stage = "checksum" => Unsummed
  /\ stage = "dead" => (Begun /\ file[1] = Blank) \/ Unsummed

DoneInv ==
  stage = "done" =>
    LET h == HeaderOf(index, regions)
    IN  /\ Begun /\ HeadIn(file, regions, index)
        /\ intact => /\ LaidIn(file, regions, index, Names)
                     /\ SumIn(file, regions, SumOf(Covered(file, h)))
        /\ ~intact => /\ regions["manifest"].off \in Nat
                      /\ Stored(file, h) # SumOf(Covered(file, h))

FileInv == TypeInv /\ SoundInv /\ WritingInv /\ TornInv /\ DoneInv

-----------------------------------------------------------------------------
(* The cells of each region. *)

(* What IndexesAssumption says of an index, cell by cell. *)
LEMMA IndexIsSound ==
  ASSUME NEW x \in Indexes
  PROVE  /\ IsSeq(x.centroids) /\ IsSeq(x.raw) /\ IsSeq(x.partitions)
         /\ Len(x.partitions) = Len(x.centroids)
         /\ \A i \in 1..Len(x.partitions) :
              IsSeq(x.partitions[i]) /\ \A j \in 1..Len(x.partitions[i]) :
                                          x.partitions[i][j] \in 0..Len(x.raw) - 1
<1>1. /\ x.centroids \in Seq(Vectors) /\ x.raw \in Seq(Vectors)
      /\ x.partitions \in Seq(Seq(Nat)) /\ Len(x.partitions) = Len(x.centroids)
      /\ \A i \in DOMAIN x.partitions : ToSet(x.partitions[i]) \subseteq 0..Len(x.raw) - 1
  BY IndexesAssumption
<1>2. IsSeq(x.centroids) /\ IsSeq(x.raw) /\ IsSeq(x.partitions)
  BY <1>1, SeqsAre
<1>3. ASSUME NEW i \in 1..Len(x.partitions)
      PROVE  IsSeq(x.partitions[i]) /\ \A j \in 1..Len(x.partitions[i]) :
                                         x.partitions[i][j] \in 0..Len(x.raw) - 1
  <2>1. x.partitions[i] \in Seq(Nat) /\ i \in DOMAIN x.partitions
    BY <1>1
  <2>2. ToSet(x.partitions[i]) \subseteq 0..Len(x.raw) - 1
    BY <1>1, <2>1
  <2>3. \A j \in 1..Len(x.partitions[i]) : x.partitions[i][j] \in ToSet(x.partitions[i])
    BY <2>1 DEF ToSet
  <2>4. IsSeq(x.partitions[i])
    BY <2>1, SeqsAre
  <2>. QED
    BY <2>2, <2>3, <2>4
<1>. QED
  BY <1>1, <1>2, <1>3

(* The ids, one partition after the other. *)
IdsOf(x) == FlattenSeq(x.partitions)

(* Where the ids of partition i lie in the data region. *)
LEMMA IdsAre ==
  ASSUME NEW x \in Indexes
  PROVE  /\ IsSeq(IdsOf(x))
         /\ \A i \in 1..Len(x.partitions) :
              /\ Start(x.partitions, i) \in Nat /\ Len(x.partitions[i]) \in Nat
              /\ Start(x.partitions, i) + Len(x.partitions[i]) <= Len(IdsOf(x))
              /\ \A j \in 1..Len(x.partitions[i]) :
                   IdsOf(x)[Start(x.partitions, i) + j] = x.partitions[i][j]
<1> DEFINE ps == x.partitions
<1>1. IsSeq(ps) /\ \A i \in 1..Len(ps) : IsSeq(ps[i])
  BY IndexIsSound
<1> HIDE DEF ps
<1>2. /\ IsSeq(FlattenSeq(ps))
      /\ \A i \in 1..Len(ps) :
           /\ Start(ps, i) \in Nat /\ Len(ps[i]) \in Nat
           /\ Start(ps, i + 1) = Start(ps, i) + Len(ps[i])
           /\ Start(ps, i + 1) <= Len(FlattenSeq(ps))
           /\ \A j \in 1..Len(ps[i]) : FlattenSeq(ps)[Start(ps, i) + j] = ps[i][j]
  BY <1>1, Flattens
<1>3. \A i \in 1..Len(ps) : Start(ps, i) + Len(ps[i]) <= Len(FlattenSeq(ps))
  BY <1>2
<1>. QED
  BY <1>2, <1>3 DEF ps, IdsOf

(* The cells of each region. *)
LEMMA CellsAre ==
  ASSUME NEW x \in Indexes, NEW base
  PROVE  /\ Cells("rotation", x, base) = <<[rotation |-> x.rotation]>>
         /\ Cells("centroids", x, base) =
              [i \in 1..Len(x.centroids) |-> [centroid |-> x.centroids[i]]]
         /\ Cells("data", x, base) = [i \in 1..Len(IdsOf(x)) |-> [id |-> IdsOf(x)[i]]]
         /\ Cells("meta", x, base) = [i \in 1..Len(x.partitions) |-> MetaOf(x.partitions, base, i)]
         /\ Cells("raw", x, base) = [i \in 1..Len(x.raw) |-> [vector |-> x.raw[i]]]
         /\ Cells("payload", x, base) = <<[payloads |-> x.payloads]>>
         /\ Cells("manifest", x, base) = <<[version |-> x.nextId]>> \o NoSum
  BY DEF Cells, IdsOf

(* A sequence of one cell. *)
LEMMA Singles ==
  ASSUME NEW e
  PROVE  IsSeq(<<e>>) /\ Len(<<e>>) = 1 /\ <<e>>[1] = e
<1>1. <<e>> \in Seq({e}) /\ Len(<<e>>) = 1 /\ <<e>>[1] = e
  OBVIOUS
<1>. QED
  BY <1>1, SeqsAre

(* The place of a checksum that is not written yet. *)
LEMMA NoSumIs ==
  IsSeq(NoSum) /\ Len(NoSum) = SumCells /\ \A i \in 1..SumCells : NoSum[i] = Blank
<1>1. SumCells \in Nat /\ NoSum = [i \in 1..SumCells |-> NoSum[i]]
  BY SizesAssumption DEF NoSum
<1>2. \A i \in 1..SumCells : NoSum[i] = Blank
  BY DEF NoSum
<1>. QED
  BY <1>1, <1>2, Made

(* The manifest region: a version and the place of the checksum. *)
LEMMA ManifestIs ==
  ASSUME NEW x \in Indexes, NEW base
  PROVE  LET cells == Cells("manifest", x, base)
         IN  /\ IsSeq(cells) /\ Len(cells) = 1 + SumCells
             /\ cells[1] = [version |-> x.nextId]
             /\ \A i \in 1..SumCells : cells[1 + i] = Blank
<1> DEFINE v == <<[version |-> x.nextId]>>
           cells == Cells("manifest", x, base)
<1>1. IsSeq(v) /\ Len(v) = 1 /\ v[1] = [version |-> x.nextId]
  BY Singles
<1>2. IsSeq(NoSum) /\ Len(NoSum) = SumCells /\ \A i \in 1..SumCells : NoSum[i] = Blank
  BY NoSumIs
<1>3. cells = v \o NoSum
  BY CellsAre
<1> DEFINE t == NoSum
<1>4. cells = v \o t /\ IsSeq(t)
  BY <1>2, <1>3
<1> HIDE DEF v, t, cells
<1>5. /\ IsSeq(v \o t) /\ Len(v \o t) = Len(v) + Len(t)
      /\ \A i \in 1..Len(v) : (v \o t)[i] = v[i]
      /\ \A i \in 1..Len(t) : (v \o t)[Len(v) + i] = t[i]
  <2>1. IsSeq(v) /\ IsSeq(t)
    BY <1>1, <1>4
  <2>. QED
    BY <2>1, Joins
<1>6. /\ IsSeq(cells) /\ Len(cells) = Len(v) + Len(t)
      /\ \A i \in 1..Len(v) : cells[i] = v[i]
      /\ \A i \in 1..Len(t) : cells[Len(v) + i] = t[i]
  BY <1>4, <1>5
<1>7. Len(t) = SumCells /\ \A i \in 1..SumCells : t[i] = Blank
  BY <1>2 DEF t
<1>8. 1 \in 1..Len(v)
  BY <1>1
<1>9. cells[1] = [version |-> x.nextId] /\ Len(cells) = 1 + SumCells
  BY <1>1, <1>6, <1>7, <1>8
<1>10. \A i \in 1..SumCells : cells[1 + i] = Blank
  BY <1>1, <1>6, <1>7
<1>. QED
  BY <1>6, <1>9, <1>10 DEF cells

(* How many cells each region has. *)
LEMMA CellsCount ==
  ASSUME NEW x \in Indexes, NEW base
  PROVE  /\ Len(Cells("rotation", x, base)) = 1 /\ Len(Cells("payload", x, base)) = 1
         /\ Len(Cells("centroids", x, base)) = Len(x.centroids)
         /\ Len(Cells("data", x, base)) = Len(IdsOf(x))
         /\ Len(Cells("meta", x, base)) = Len(x.partitions)
         /\ Len(Cells("raw", x, base)) = Len(x.raw)
         /\ Len(Cells("manifest", x, base)) = 1 + SumCells
         /\ \A s \in Names : IsSeq(Cells(s, x, base))
<1>1. /\ Len(Cells("rotation", x, base)) = 1 /\ IsSeq(Cells("rotation", x, base))
      /\ Len(Cells("payload", x, base)) = 1 /\ IsSeq(Cells("payload", x, base))
  <2> DEFINE r == [rotation |-> x.rotation]
             p == [payloads |-> x.payloads]
  <2>1. Cells("rotation", x, base) = <<r>> /\ Cells("payload", x, base) = <<p>>
    BY CellsAre
  <2> HIDE DEF r, p
  <2>2. IsSeq(<<r>>) /\ Len(<<r>>) = 1 /\ IsSeq(<<p>>) /\ Len(<<p>>) = 1
    BY Singles
  <2>. QED
    BY <2>1, <2>2
<1>2. Len(Cells("manifest", x, base)) = 1 + SumCells /\ IsSeq(Cells("manifest", x, base))
  BY ManifestIs
<1>3. /\ Len(x.centroids) \in Nat /\ Len(x.raw) \in Nat /\ Len(x.partitions) \in Nat
      /\ Len(IdsOf(x)) \in Nat
  BY IndexIsSound, IdsAre DEF IsSeq
<1>4. Len(Cells("centroids", x, base)) = Len(x.centroids) /\ IsSeq(Cells("centroids", x, base))
  <2> DEFINE n == Len(x.centroids)
             g == Cells("centroids", x, base)
  <2>1. n \in Nat /\ g = [i \in 1..n |-> [centroid |-> x.centroids[i]]]
    BY <1>3, CellsAre
  <2> HIDE DEF n, g
  <2>2. n \in Nat /\ g = [i \in 1..n |-> g[i]]
    BY <2>1
  <2>3. Len(g) = n /\ IsSeq(g)
    BY <2>2, Made
  <2>. QED
    BY <2>3 DEF g, n
<1>5. Len(Cells("data", x, base)) = Len(IdsOf(x)) /\ IsSeq(Cells("data", x, base))
  <2> DEFINE n == Len(IdsOf(x))
             g == Cells("data", x, base)
  <2>1. n \in Nat /\ g = [i \in 1..n |-> [id |-> IdsOf(x)[i]]]
    BY <1>3, CellsAre
  <2> HIDE DEF n, g
  <2>2. n \in Nat /\ g = [i \in 1..n |-> g[i]]
    BY <2>1
  <2>3. Len(g) = n /\ IsSeq(g)
    BY <2>2, Made
  <2>. QED
    BY <2>3 DEF g, n
<1>6. Len(Cells("meta", x, base)) = Len(x.partitions) /\ IsSeq(Cells("meta", x, base))
  <2> DEFINE n == Len(x.partitions)
             g == Cells("meta", x, base)
  <2>1. n \in Nat /\ g = [i \in 1..n |-> MetaOf(x.partitions, base, i)]
    BY <1>3, CellsAre
  <2> HIDE DEF n, g
  <2>2. n \in Nat /\ g = [i \in 1..n |-> g[i]]
    BY <2>1
  <2>3. Len(g) = n /\ IsSeq(g)
    BY <2>2, Made
  <2>. QED
    BY <2>3 DEF g, n
<1>7. Len(Cells("raw", x, base)) = Len(x.raw) /\ IsSeq(Cells("raw", x, base))
  <2> DEFINE n == Len(x.raw)
             g == Cells("raw", x, base)
  <2>1. n \in Nat /\ g = [i \in 1..n |-> [vector |-> x.raw[i]]]
    BY <1>3, CellsAre
  <2> HIDE DEF n, g
  <2>2. n \in Nat /\ g = [i \in 1..n |-> g[i]]
    BY <2>1
  <2>3. Len(g) = n /\ IsSeq(g)
    BY <2>2, Made
  <2>. QED
    BY <2>3 DEF g, n
<1>. QED
  BY <1>1, <1>2, <1>4, <1>5, <1>6, <1>7 DEF Names

-----------------------------------------------------------------------------
(* What a loader finds where everything lies. *)

(* A region that is laid lies in the file and holds its cells. *)
LEMMA LaidRegion ==
  ASSUME NEW x \in Indexes, NEW f, NEW rs, LaidIn(f, rs, x, Names), NEW s \in Names
  PROVE  /\ rs[s].off \in Nat \ {0} /\ rs[s].len \in Nat
         /\ rs[s].off + rs[s].len <= Len(f)
         /\ rs[s].len = Len(CellsIn(rs, x, s))
         /\ s # "manifest" => \A i \in 1..Len(CellsIn(rs, x, s)) :
              f[rs[s].off + i] = CellsIn(rs, x, s)[i]
<1>1. /\ rs[s] = Region(rs[s].off, Len(CellsIn(rs, x, s)))
      /\ rs[s].off \in Nat \ {0}
      /\ rs[s].off + Len(CellsIn(rs, x, s)) <= Len(f)
      /\ s # "manifest" => \A i \in 1..Len(CellsIn(rs, x, s)) :
           f[rs[s].off + i] = CellsIn(rs, x, s)[i]
  BY DEF LaidIn, PlacedIn
<1>2. rs[s].len = Len(CellsIn(rs, x, s))
  BY <1>1 DEF Region
<1>3. IsSeq(CellsIn(rs, x, s))
  BY CellsCount DEF CellsIn
<1>. QED
  BY <1>1, <1>2, <1>3 DEF IsSeq

(* The regions of one cell. *)
LEMMA LaidOnes ==
  ASSUME NEW x \in Indexes, NEW f, NEW rs, LaidIn(f, rs, x, Names)
  PROVE  /\ f[rs["rotation"].off + 1] = [rotation |-> x.rotation]
         /\ f[rs["payload"].off + 1] = [payloads |-> x.payloads]
<1>1. f[rs["rotation"].off + 1] = [rotation |-> x.rotation]
  <2> DEFINE e == [rotation |-> x.rotation]
             s == "rotation"
  <2>1. CellsIn(rs, x, s) = <<e>>
    BY CellsAre DEF CellsIn
  <2>2. s \in Names /\ s # "manifest"
    BY DEF Names
  <2> HIDE DEF e, s
  <2>3. Len(<<e>>) = 1 /\ <<e>>[1] = e /\ 1 \in 1..1
    BY Singles
  <2>4. \A i \in 1..Len(CellsIn(rs, x, s)) : f[rs[s].off + i] = CellsIn(rs, x, s)[i]
    BY <2>2, LaidRegion
  <2>5. f[rs[s].off + 1] = e
    BY <2>1, <2>3, <2>4
  <2>. QED
    BY <2>5 DEF e, s
<1>2. f[rs["payload"].off + 1] = [payloads |-> x.payloads]
  <2> DEFINE e == [payloads |-> x.payloads]
             s == "payload"
  <2>1. CellsIn(rs, x, s) = <<e>>
    BY CellsAre DEF CellsIn
  <2>2. s \in Names /\ s # "manifest"
    BY DEF Names
  <2> HIDE DEF e, s
  <2>3. Len(<<e>>) = 1 /\ <<e>>[1] = e /\ 1 \in 1..1
    BY Singles
  <2>4. \A i \in 1..Len(CellsIn(rs, x, s)) : f[rs[s].off + i] = CellsIn(rs, x, s)[i]
    BY <2>2, LaidRegion
  <2>5. f[rs[s].off + 1] = e
    BY <2>1, <2>3, <2>4
  <2>. QED
    BY <2>5 DEF e, s
<1>. QED
  BY <1>1, <1>2

(* The length of the manifest. *)
LEMMA LaidManifest ==
  ASSUME NEW x \in Indexes, NEW f, NEW rs, LaidIn(f, rs, x, Names)
  PROVE  rs["manifest"].len = 1 + SumCells
<1>1. Len(CellsIn(rs, x, "manifest")) = 1 + SumCells
  BY CellsCount DEF CellsIn
<1>2. "manifest" \in Names
  BY DEF Names
<1>. QED
  BY <1>1, <1>2, LaidRegion

(* The centroids as laid. *)
LEMMA LaidCentroids ==
  ASSUME NEW x \in Indexes, NEW f, NEW rs, LaidIn(f, rs, x, Names)
  PROVE  /\ rs["centroids"].len = Len(x.centroids)
         /\ \A i \in 1..Len(x.centroids) :
              f[rs["centroids"].off + i] = [centroid |-> x.centroids[i]]
<1> DEFINE g == Cells("centroids", x, 0)
<1>1. Len(g) = Len(x.centroids)
  BY CellsCount
<1>2. g = [i \in 1..Len(x.centroids) |-> [centroid |-> x.centroids[i]]]
  BY CellsAre
<1>3. CellsIn(rs, x, "centroids") = g
  BY DEF CellsIn
<1> HIDE DEF g
<1>4. "centroids" \in Names /\ "centroids" # "manifest"
  BY DEF Names
<1>5. rs["centroids"].len = Len(g) /\ \A i \in 1..Len(g) : f[rs["centroids"].off + i] = g[i]
  BY <1>3, <1>4, LaidRegion
<1>. QED
  BY <1>1, <1>2, <1>5

(* The ids as laid. *)
LEMMA LaidData ==
  ASSUME NEW x \in Indexes, NEW f, NEW rs, LaidIn(f, rs, x, Names)
  PROVE  /\ rs["data"].len = Len(IdsOf(x))
         /\ \A i \in 1..Len(IdsOf(x)) : f[rs["data"].off + i] = [id |-> IdsOf(x)[i]]
<1> DEFINE g == Cells("data", x, 0)
<1>1. Len(g) = Len(IdsOf(x))
  BY CellsCount
<1>2. g = [i \in 1..Len(IdsOf(x)) |-> [id |-> IdsOf(x)[i]]]
  BY CellsAre
<1>3. CellsIn(rs, x, "data") = g
  BY DEF CellsIn
<1> HIDE DEF g
<1>4. "data" \in Names /\ "data" # "manifest"
  BY DEF Names
<1>5. rs["data"].len = Len(g) /\ \A i \in 1..Len(g) : f[rs["data"].off + i] = g[i]
  BY <1>3, <1>4, LaidRegion
<1>. QED
  BY <1>1, <1>2, <1>5

(* The partition entries as laid. *)
LEMMA LaidMeta ==
  ASSUME NEW x \in Indexes, NEW f, NEW rs, LaidIn(f, rs, x, Names)
  PROVE  /\ rs["meta"].len = Len(x.partitions)
         /\ \A i \in 1..Len(x.partitions) :
              f[rs["meta"].off + i] = MetaOf(x.partitions, rs["data"].off, i)
<1> DEFINE g == Cells("meta", x, rs["data"].off)
<1>1. Len(g) = Len(x.partitions)
  BY CellsCount
<1>2. g = [i \in 1..Len(x.partitions) |-> MetaOf(x.partitions, rs["data"].off, i)]
  BY CellsAre
<1>3. CellsIn(rs, x, "meta") = g
  BY DEF CellsIn
<1> HIDE DEF g
<1>4. "meta" \in Names /\ "meta" # "manifest"
  BY DEF Names
<1>5. rs["meta"].len = Len(g) /\ \A i \in 1..Len(g) : f[rs["meta"].off + i] = g[i]
  <2> DEFINE s == "meta"
  <2>1. s \in Names /\ s # "manifest" /\ CellsIn(rs, x, s) = g
    BY <1>3, <1>4
  <2> HIDE DEF s
  <2>2. rs[s].len = Len(g) /\ \A i \in 1..Len(g) : f[rs[s].off + i] = g[i]
    BY <2>1, LaidRegion
  <2>. QED
    BY <2>2 DEF s
<1>. QED
  BY <1>1, <1>2, <1>5

(* The raw vectors as laid. *)
LEMMA LaidRaw ==
  ASSUME NEW x \in Indexes, NEW f, NEW rs, LaidIn(f, rs, x, Names)
  PROVE  /\ rs["raw"].len = Len(x.raw)
         /\ \A i \in 1..Len(x.raw) : f[rs["raw"].off + i] = [vector |-> x.raw[i]]
<1> DEFINE g == Cells("raw", x, 0)
<1>1. Len(g) = Len(x.raw)
  BY CellsCount
<1>2. g = [i \in 1..Len(x.raw) |-> [vector |-> x.raw[i]]]
  BY CellsAre
<1>3. CellsIn(rs, x, "raw") = g
  BY DEF CellsIn
<1> HIDE DEF g
<1>4. "raw" \in Names /\ "raw" # "manifest"
  BY DEF Names
<1>5. rs["raw"].len = Len(g) /\ \A i \in 1..Len(g) : f[rs["raw"].off + i] = g[i]
  BY <1>3, <1>4, LaidRegion
<1>. QED
  BY <1>1, <1>2, <1>5

(* The header, the regions and their entries are whole, and hold x.        *)
MetaAt(f, h, i) == Slice(f, h.regions["meta"])[i]

(* An entry of a laid file names cells inside the file. *)
LEMMA MetasAre ==
  ASSUME NEW x \in Indexes, NEW f, IsSeq(f), NEW rs, LaidIn(f, rs, x, Names),
         NEW i \in 1..Len(x.partitions)
  PROVE  /\ MetaAt(f, HeaderOf(x, rs), i) =
              [meta |-> [off |-> rs["data"].off + Start(x.partitions, i),
                         len |-> Len(x.partitions[i]), count |-> Len(x.partitions[i])]]
         /\ Start(x.partitions, i) \in Nat /\ Len(x.partitions[i]) \in Nat
         /\ rs["data"].off \in Nat
         /\ rs["data"].off + Start(x.partitions, i) + Len(x.partitions[i]) <= Len(f)
<1> DEFINE p == rs["meta"].off
           n == Len(x.partitions)
           m == MetaOf(x.partitions, rs["data"].off, i)
<1>1. p \in Nat /\ n \in Nat /\ rs["meta"].len = n /\ f[p + i] = m
  <2>1. n \in Nat
    BY IndexIsSound DEF IsSeq
  <2>2. rs["meta"].off \in Nat \ {0}
    <3>1. "meta" \in Names
      BY DEF Names
    <3>2. \A s \in Names : rs[s].off \in Nat \ {0}
      BY LaidRegion
    <3>. QED
      BY <3>1, <3>2
  <2>3. rs["meta"].len = Len(x.partitions) /\ f[rs["meta"].off + i] = m
    BY LaidMeta
  <2>. QED
    BY <2>1, <2>2, <2>3
<1>2. MetaAt(f, HeaderOf(x, rs), i) = m
  <2>1. Slice(f, rs["meta"]) = SubSeq(f, p + 1, p + n)
    BY <1>1 DEF Slice
  <2>2. SubSeq(f, p + 1, p + n)[i] = f[p + i]
    <3>1. i \in 1..n
      OBVIOUS
    <3> HIDE DEF p, n
    <3>. QED
      BY <1>1, <3>1, Slices
  <2>. QED
    BY <1>1, <2>1, <2>2 DEF MetaAt, HeaderOf
<1>3. m = [meta |-> [off |-> rs["data"].off + Start(x.partitions, i),
                     len |-> Len(x.partitions[i]), count |-> Len(x.partitions[i])]]
  BY DEF MetaOf, Start
<1>4. rs["data"].off \in Nat /\ rs["data"].off + Len(IdsOf(x)) <= Len(f)
  <2>1. rs["data"].off \in Nat \ {0} /\ rs["data"].off + rs["data"].len <= Len(f)
    <3>1. "data" \in Names
      BY DEF Names
    <3>2. \A s \in Names : rs[s].off \in Nat \ {0} /\ rs[s].off + rs[s].len <= Len(f)
      BY LaidRegion
    <3>. QED
      BY <3>1, <3>2
  <2>2. rs["data"].len = Len(IdsOf(x))
    BY LaidData
  <2>. QED
    BY <2>1, <2>2
<1>5. /\ Start(x.partitions, i) \in Nat /\ Len(x.partitions[i]) \in Nat
      /\ Start(x.partitions, i) + Len(x.partitions[i]) <= Len(IdsOf(x))
      /\ Len(IdsOf(x)) \in Nat
  BY IdsAre DEF IsSeq
<1>6. Len(f) \in Nat
  BY DEF IsSeq
<1>7. rs["data"].off + Start(x.partitions, i) + Len(x.partitions[i]) <= Len(f)
  <2> DEFINE a == rs["data"].off
             b == Start(x.partitions, i)
             c == Len(x.partitions[i])
             d == Len(IdsOf(x))
             l == Len(f)
  <2>1. a \in Nat /\ b \in Nat /\ c \in Nat /\ d \in Nat /\ l \in Nat
    BY <1>4, <1>5, <1>6
  <2>2. a + d <= l /\ b + c <= d
    BY <1>4, <1>5
  <2> HIDE DEF a, b, c, d, l
  <2>3. a + b + c <= l
    BY <2>1, <2>2
  <2>. QED
    BY <2>3 DEF a, b, c, l
<1>. QED
  BY <1>2, <1>3, <1>4, <1>5, <1>7

(* No region of a laid file is too short. *)
LEMMA NothingIsShort ==
  ASSUME NEW x \in Indexes, NEW f, NEW rs, LaidIn(f, rs, x, Names)
  PROVE  ~ShortRegion(HeaderOf(x, rs))
<1>1. Len(x.centroids) \in Nat /\ Len(x.raw) \in Nat /\ Len(x.partitions) = Len(x.centroids)
  BY IndexIsSound DEF IsSeq
<1>2. /\ rs["centroids"].len = Len(x.centroids) /\ rs["meta"].len = Len(x.partitions)
      /\ rs["raw"].len = Len(x.raw)
  BY LaidCentroids, LaidMeta, LaidRaw
<1>. QED
  BY <1>1, <1>2 DEF ShortRegion, HeaderOf

(* Every region of a laid file is inside it. *)
LEMMA AllRegionsFit ==
  ASSUME NEW x \in Indexes, NEW f, NEW rs, LaidIn(f, rs, x, Names)
  PROVE  \A s \in DOMAIN HeaderOf(x, rs).regions : Has(f, HeaderOf(x, rs).regions[s])
<1>1. HeaderOf(x, rs).regions = rs /\ DOMAIN rs = Names
  BY DEF HeaderOf, LaidIn
<1>2. \A s \in Names : rs[s].off + rs[s].len <= Len(f)
  BY LaidRegion
<1>. QED
  BY <1>1, <1>2 DEF Has

(* The entries of a partition are its ids. *)
LEMMA PartitionIs ==
  ASSUME NEW x \in Indexes, NEW f, IsSeq(f), NEW rs, LaidIn(f, rs, x, Names),
         NEW i \in 1..Len(x.partitions)
  PROVE  LET m == MetaAt(f, HeaderOf(x, rs), i).meta
             cells == Slice(f, Region(m.off, m.count))
         IN  [k \in 1..m.count |-> cells[k].id] = x.partitions[i]
<1> DEFINE p == x.partitions[i]
           n == Len(p)
           q == Start(x.partitions, i)
           base == rs["data"].off
           m == MetaAt(f, HeaderOf(x, rs), i).meta
           cells == Slice(f, Region(m.off, m.count))
           ids == IdsOf(x)
<1>1. q \in Nat /\ n \in Nat /\ base \in Nat /\ m = [off |-> base + q, len |-> n, count |-> n]
  BY MetasAre
<1>2. q + n <= Len(ids) /\ Len(ids) \in Nat /\ \A j \in 1..n : ids[q + j] = p[j]
  BY IdsAre DEF IsSeq
<1>3. \A k \in 1..Len(ids) : f[base + k] = [id |-> ids[k]]
  BY LaidData
<1>4. p = [j \in 1..n |-> p[j]]
  BY IndexIsSound DEF IsSeq
<1> HIDE DEF p, n, q, base, m, ids
<1>5. cells = SubSeq(f, (base + q) + 1, (base + q) + n) /\ m.count = n
  BY <1>1 DEF Slice, Region
<1> HIDE DEF cells
<1>6. \A k \in 1..n : cells[k] = f[(base + q) + k]
  <2> DEFINE a == base + q
  <2>1. a \in Nat
    BY <1>1
  <2>2. cells = SubSeq(f, a + 1, a + n)
    BY <1>5
  <2> HIDE DEF a
  <2>3. \A k \in 1..n : SubSeq(f, a + 1, a + n)[k] = f[a + k]
    BY <1>1, <2>1, Slices
  <2>4. \A k \in 1..n : cells[k] = f[a + k]
    BY <2>2, <2>3
  <2>. QED
    BY <2>4 DEF a
<1>7. ASSUME NEW k \in 1..n PROVE cells[k].id = p[k]
  <2>1. q + k \in 1..Len(ids) /\ (base + q) + k = base + (q + k)
    BY <1>1, <1>2
  <2>2. cells[k] = [id |-> ids[q + k]]
    BY <1>3, <1>6, <2>1
  <2>3. ids[q + k] = p[k]
    BY <1>2
  <2>. QED
    BY <2>2, <2>3
<1>8. [k \in 1..n |-> cells[k].id] = p
  BY <1>4, <1>7
<1>. QED
  BY <1>5, <1>8 DEF p, cells, m

(* A laid file holds the index that was saved. *)
LEMMA FoundIndex ==
  ASSUME NEW x \in Indexes, NEW f, IsSeq(f), NEW rs, LaidIn(f, rs, x, Names)
  PROVE  IndexIn(f, HeaderOf(x, rs)) = x
<1> DEFINE h == HeaderOf(x, rs)
           y == IndexIn(f, h)
           n == Len(x.partitions)
           v == Len(x.raw)
           raw == Slice(f, rs["raw"])
           centroids == Slice(f, rs["centroids"])
           Meta(i) == MetaAt(f, h, i).meta
           Ids(m) == LET cells == Slice(f, Region(m.off, m.count))
                     IN  [k \in 1..m.count |-> cells[k].id]
<1>1. h.partitions = n /\ h.vectors = v /\ h.nextId = x.nextId /\ h.regions = rs
  BY DEF HeaderOf
<1>2. y = [rotation |-> f[rs["rotation"].off + 1].rotation,
           centroids |-> [i \in 1..n |-> centroids[i].centroid],
           partitions |-> [i \in 1..n |-> Ids(Metas(f, h)[i])],
           raw |-> [i \in 1..v |-> raw[i].vector],
           payloads |-> f[rs["payload"].off + 1].payloads,
           nextId |-> x.nextId]
  <2> HIDE DEF h, n, v
  <2>. QED
    BY <1>1 DEF IndexIn
<1>3. /\ f[rs["rotation"].off + 1].rotation = x.rotation
      /\ f[rs["payload"].off + 1].payloads = x.payloads
  <2>1. /\ f[rs["rotation"].off + 1] = [rotation |-> x.rotation]
        /\ f[rs["payload"].off + 1] = [payloads |-> x.payloads]
    BY LaidOnes
  <2>. QED
    BY <2>1
<1>4. /\ n \in Nat /\ v \in Nat /\ n = Len(x.centroids)
      /\ x.centroids = [i \in 1..n |-> x.centroids[i]]
      /\ x.partitions = [i \in 1..n |-> x.partitions[i]]
      /\ x.raw = [i \in 1..v |-> x.raw[i]]
  BY IndexIsSound DEF IsSeq
<1>5. [i \in 1..n |-> centroids[i].centroid] = x.centroids
  <2> DEFINE s == "centroids"
             p == rs[s].off
  <2>1. p \in Nat /\ rs[s].len = n /\ \A i \in 1..n : f[p + i] = [centroid |-> x.centroids[i]]
    <3>1. s \in Names
      BY DEF Names
    <3>2. /\ rs[s].len = Len(x.centroids)
          /\ \A i \in 1..Len(x.centroids) : f[rs[s].off + i] = [centroid |-> x.centroids[i]]
      BY LaidCentroids
    <3> HIDE DEF s
    <3>3. rs[s].off \in Nat \ {0}
      BY <3>1, LaidRegion
    <3>. QED
      BY <1>4, <3>2, <3>3
  <2>2. centroids = SubSeq(f, p + 1, p + n)
    BY <2>1 DEF Slice
  <2> HIDE DEF centroids, p, n
  <2>3. \A i \in 1..n : SubSeq(f, p + 1, p + n)[i] = f[p + i]
    BY <1>4, <2>1, Slices
  <2>4. ASSUME NEW i \in 1..n PROVE centroids[i].centroid = x.centroids[i]
    <3>1. centroids[i] = f[p + i]
      BY <2>2, <2>3
    <3>2. f[p + i] = [centroid |-> x.centroids[i]]
      BY <2>1
    <3>. QED
      BY <3>1, <3>2
  <2>. QED
    BY <1>4, <2>4
<1>6. [i \in 1..v |-> raw[i].vector] = x.raw
  <2> DEFINE s == "raw"
             p == rs[s].off
  <2>1. p \in Nat /\ rs[s].len = v /\ \A i \in 1..v : f[p + i] = [vector |-> x.raw[i]]
    <3>1. s \in Names
      BY DEF Names
    <3>2. /\ rs[s].len = Len(x.raw)
          /\ \A i \in 1..Len(x.raw) : f[rs[s].off + i] = [vector |-> x.raw[i]]
      BY LaidRaw
    <3> HIDE DEF s
    <3>3. rs[s].off \in Nat \ {0}
      BY <3>1, LaidRegion
    <3>. QED
      BY <1>4, <3>2, <3>3
  <2>2. raw = SubSeq(f, p + 1, p + v)
    BY <2>1 DEF Slice
  <2> HIDE DEF raw, p, v
  <2>3. \A i \in 1..v : SubSeq(f, p + 1, p + v)[i] = f[p + i]
    BY <1>4, <2>1, Slices
  <2>4. ASSUME NEW i \in 1..v PROVE raw[i].vector = x.raw[i]
    <3>1. raw[i] = f[p + i]
      BY <2>2, <2>3
    <3>2. f[p + i] = [vector |-> x.raw[i]]
      BY <2>1
    <3>. QED
      BY <3>1, <3>2
  <2>. QED
    BY <1>4, <2>4
<1>7. [i \in 1..n |-> Ids(Metas(f, h)[i])] = x.partitions
  <2>1. ASSUME NEW i \in 1..n PROVE Ids(Metas(f, h)[i]) = x.partitions[i]
    <3>1. Metas(f, h)[i] = Meta(i)
      BY <1>1 DEF Metas, MetaAt
    <3>2. Ids(Meta(i)) = x.partitions[i]
      BY PartitionIs
    <3> HIDE DEF h, Ids
    <3>. QED
      BY <3>1, <3>2
  <2> HIDE DEF Ids, h, n
  <2>. QED
    BY <1>4, <2>1
<1>8. x = [rotation |-> x.rotation, centroids |-> x.centroids, partitions |-> x.partitions,
           raw |-> x.raw, payloads |-> x.payloads, nextId |-> x.nextId]
  BY IndexesAssumption
<1> HIDE DEF h, y, n, v, raw, centroids, Ids
<1>9. y = [rotation |-> x.rotation, centroids |-> x.centroids, partitions |-> x.partitions,
           raw |-> x.raw, payloads |-> x.payloads, nextId |-> x.nextId]
  BY <1>2, <1>3, <1>5, <1>6, <1>7
<1>. QED
  BY <1>8, <1>9 DEF y, h

(* A saved index can be put together again. *)
LEMMA FromPartsIsOk ==
  ASSUME NEW x \in Indexes
  PROVE  FromParts(x) = Ok(x)
<1>1. ASSUME NEW i \in DOMAIN x.partitions, NEW id \in ToSet(x.partitions[i])
      PROVE  ~(id >= Len(x.raw))
  <2>1. ToSet(x.partitions[i]) \subseteq 0..Len(x.raw) - 1
    BY IndexesAssumption
  <2>2. Len(x.raw) \in Nat
    BY IndexIsSound DEF IsSeq
  <2>. QED
    BY <2>1, <2>2
<1>. QED
  BY <1>1 DEF FromParts

(* Only the checksum is left to decide what the loaders answer. *)
Answer(f, x, rs) ==
  IF Stored(f, HeaderOf(x, rs)) # SumOf(Covered(f, HeaderOf(x, rs))) THEN Error ELSE Ok(x)

(* A header that is filled in is found. *)
LEMMA HeaderIsRead ==
  ASSUME NEW f, Len(f) >= 1, NEW h, f[1] = [header |-> h]
  PROVE  HasHeader(f) /\ f[1].header = h
<1>1. "header" \in DOMAIN f[1] /\ f[1].header = h
  OBVIOUS
<1>. QED
  BY <1>1 DEF HasHeader

(* No loader refuses an entry of a laid file. *)
LEMMA NoEntryIsBad ==
  ASSUME NEW x \in Indexes, NEW f, IsSeq(f), NEW rs, LaidIn(f, rs, x, Names),
         NEW i \in 1..Len(x.partitions)
  PROVE  LET c == MetaAt(f, HeaderOf(x, rs), i)
         IN  ~(\/ "meta" \notin DOMAIN c
               \/ ~Has(f, Region(c.meta.off, c.meta.len))
               \/ c.meta.count > c.meta.len)
<1> DEFINE c == MetaAt(f, HeaderOf(x, rs), i)
           n == Len(x.partitions[i])
           o == rs["data"].off + Start(x.partitions, i)
<1>1. c = [meta |-> [off |-> o, len |-> n, count |-> n]] /\ n \in Nat /\ o + n <= Len(f)
  BY MetasAre
<1> HIDE DEF c, n, o
<1>2. "meta" \in DOMAIN c /\ c.meta.off = o /\ c.meta.len = n /\ c.meta.count = n
  BY <1>1
<1>3. Has(f, Region(c.meta.off, c.meta.len))
  BY <1>1, <1>2 DEF Has, Region
<1>. QED
  BY <1>1, <1>2, <1>3 DEF c

(* For a laid file only the checksum decides, and alike for the three loaders. *)
LEMMA LoadersAnswer ==
  ASSUME NEW x \in Indexes, NEW f, IsSeq(f), Len(f) >= 1, NEW rs,
         HeadIn(f, rs, x), LaidIn(f, rs, x, Names)
  PROVE  /\ LoadIndex(f) = Answer(f, x, rs)
         /\ LoadIndexMmap(f) = Answer(f, x, rs)
         /\ \A w \in CrcBufs : Open(f, w) = Answer(f, x, rs)
<1> DEFINE h == HeaderOf(x, rs)
<1>1. HasHeader(f) /\ f[1].header = h
  BY HeaderIsRead DEF HeadIn
<1>2. ~ShortRegion(h) /\ ~\E s \in DOMAIN h.regions : ~Has(f, h.regions[s])
  BY NothingIsShort, AllRegionsFit
<1>3. IndexIn(f, h) = x /\ FromParts(x) = Ok(x)
  BY FoundIndex, FromPartsIsOk
<1>4. h.regions = rs /\ h.partitions = Len(x.partitions)
  BY DEF HeaderOf
<1>5. LoadIndexMmap(f) = Answer(f, x, rs)
  BY <1>1, <1>2, <1>3 DEF LoadIndexMmap, Answer
<1>6. ASSUME NEW w \in CrcBufs PROVE Open(f, w) = Answer(f, x, rs)
  <2>1. rs["manifest"].off \in Nat
    <3>1. "manifest" \in Names
      BY DEF Names
    <3>. QED
      BY <3>1, LaidRegion
  <2>2. w \in Nat \ {0}
    BY SizesAssumption
  <2> HIDE DEF h
  <2>3. h.regions["manifest"].off \in Nat
    BY <1>4, <2>1
  <2>4. Streamed(f, h, w) = Covered(f, h)
    BY <2>2, <2>3, StreamedIsCovered
  <2>. QED
    BY <1>1, <1>2, <1>3, <2>4 DEF Open, Answer, h
<1>7. LoadIndex(f) = Answer(f, x, rs)
  <2> DEFINE cells == Slice(f, h.regions["meta"])
             bad == {i \in 1..h.partitions :
                       \/ "meta" \notin DOMAIN cells[i]
                       \/ ~Has(f, Region(cells[i].meta.off, cells[i].meta.len))
                       \/ cells[i].meta.count > cells[i].meta.len}
             first == cells[Min(bad)]
  <2>1. bad = {}
    <3>1. \A i \in 1..h.partitions : cells[i] = MetaAt(f, h, i)
      BY DEF MetaAt
    <3>2. \A i \in 1..h.partitions : i \in 1..Len(x.partitions)
      BY <1>4
    <3>3. ASSUME NEW i \in 1..h.partitions
          PROVE  ~(\/ "meta" \notin DOMAIN cells[i]
                   \/ ~Has(f, Region(cells[i].meta.off, cells[i].meta.len))
                   \/ cells[i].meta.count > cells[i].meta.len)
      BY <3>1, <3>2, NoEntryIsBad
    <3>. QED
      BY <3>3
  <2>2. "payloads" \in DOMAIN f[h.regions["payload"].off + 1]
    <3>1. /\ f[rs["rotation"].off + 1] = [rotation |-> x.rotation]
          /\ f[rs["payload"].off + 1] = [payloads |-> x.payloads]
      BY LaidOnes
    <3>2. h.regions["payload"].off = rs["payload"].off
      BY <1>4
    <3> HIDE DEF h
    <3>. QED
      BY <3>1, <3>2
  <2>3. LoadIndex(f) =
          IF ~HasHeader(f) THEN Error
          ELSE IF \E s \in DOMAIN h.regions : ~Has(f, h.regions[s]) THEN Error
               ELSE IF ShortRegion(h) THEN Panic
               ELSE IF bad # {}
                    THEN IF /\ "meta" \in DOMAIN first
                            /\ Has(f, Region(first.meta.off, first.meta.len))
                         THEN Panic ELSE Error
               ELSE IF "payloads" \notin DOMAIN f[h.regions["payload"].off + 1] THEN Error
               ELSE IF Stored(f, h) # SumOf(Covered(f, h)) THEN Error
               ELSE FromParts(IndexIn(f, h))
    <3> HIDE DEF h
    <3>. QED
      BY <1>1 DEF LoadIndex
  <2> HIDE DEF bad, first, cells
  <2>. QED
    BY <1>1, <1>2, <1>3, <2>1, <2>2, <2>3 DEF Answer
<1>. QED
  BY <1>5, <1>6, <1>7

(* A checksum that is not that of the cells is taken by nobody. *)
LEMMA WrongSumsAreRefused ==
  ASSUME NEW f, IsSeq(f), Len(f) >= 1, NEW h, f[1] = [header |-> h],
         h.regions["manifest"].off \in Nat, Stored(f, h) # SumOf(Covered(f, h))
  PROVE  /\ LoadIndex(f) \in {Error, Panic} /\ LoadIndexMmap(f) = Error
         /\ \A w \in CrcBufs : Open(f, w) = Error
<1>1. HasHeader(f) /\ f[1].header = h
  BY HeaderIsRead
<1>2. LoadIndexMmap(f) = Error
  BY <1>1 DEF LoadIndexMmap
<1>3. ASSUME NEW w \in CrcBufs PROVE Open(f, w) = Error
  <2>1. w \in Nat \ {0}
    BY SizesAssumption
  <2>2. Streamed(f, h, w) = Covered(f, h)
    BY <2>1, StreamedIsCovered
  <2>. QED
    BY <1>1, <2>2 DEF Open
<1>4. LoadIndex(f) \in {Error, Panic}
  BY <1>1 DEF LoadIndex
<1>. QED
  BY <1>2, <1>3, <1>4

-----------------------------------------------------------------------------
(* The properties follow from the invariant. *)

(* The checksum is read from behind the version of the manifest. *)
LEMMA StoredIs ==
  ASSUME NEW f, NEW rs, rs["manifest"].off \in Nat, NEW x
  PROVE  /\ IsSeq(Stored(f, HeaderOf(x, rs))) /\ Len(Stored(f, HeaderOf(x, rs))) = SumCells
         /\ \A i \in 1..SumCells :
              Stored(f, HeaderOf(x, rs))[i] = f[rs["manifest"].off + 1 + i]
<1> DEFINE a == rs["manifest"].off + 1
           t == Stored(f, HeaderOf(x, rs))
<1>1. a \in Nat /\ SumCells \in Nat
  BY SizesAssumption
<1>2. t = SubSeq(f, a + 1, a + SumCells)
  BY DEF Stored, Slice, Region, HeaderOf
<1> HIDE DEF a, t
<1>3. /\ IsSeq(t) /\ Len(t) = SumCells /\ \A i \in 1..SumCells : t[i] = f[a + i]
  BY <1>1, <1>2, Slices
<1>. QED
  BY <1>3 DEF a, t

(* The blanks of a checksum not yet written are no checksum. *)
LEMMA UnsummedIsError ==
  ASSUME NEW f, NEW rs, rs["manifest"].off \in Nat, NEW x, SumIn(f, rs, NoSum)
  PROVE  Answer(f, x, rs) = Error
<1> DEFINE h == HeaderOf(x, rs)
           crc == Covered(f, h)
<1>1. 1 \in 1..SumCells
  BY SizesAssumption
<1>2. Stored(f, h)[1] = Blank
  <2>1. Stored(f, h)[1] = f[rs["manifest"].off + 1 + 1]
    BY <1>1, StoredIs
  <2>2. f[rs["manifest"].off + 1 + 1] = NoSum[1]
    BY <1>1 DEF SumIn
  <2>3. NoSum[1] = Blank
    BY <1>1, NoSumIs
  <2>. QED
    BY <2>1, <2>2, <2>3
<1>3. SumOf(crc)[1] = SumPart(crc, 1)
  BY <1>1 DEF SumOf
<1> HIDE DEF h, crc
<1>4. SumPart(crc, 1) # Blank
  <2>1. DOMAIN SumPart(crc, 1) = {"crc", "part"} /\ DOMAIN Blank = {"blank"}
    BY DEF SumPart, Blank
  <2>. QED
    BY <2>1
<1>5. Stored(f, h) # SumOf(crc)
  BY <1>2, <1>3, <1>4
<1>. QED
  BY <1>5 DEF Answer, h, crc

(* The checksum of the file is taken. *)
LEMMA SummedIsOk ==
  ASSUME NEW f, NEW rs, rs["manifest"].off \in Nat, NEW x,
         SumIn(f, rs, SumOf(Covered(f, HeaderOf(x, rs))))
  PROVE  Answer(f, x, rs) = Ok(x)
<1> DEFINE h == HeaderOf(x, rs)
           sum == SumOf(Covered(f, h))
           t == Stored(f, h)
<1>1. /\ IsSeq(t) /\ Len(t) = SumCells
      /\ \A i \in 1..SumCells : t[i] = f[rs["manifest"].off + 1 + i]
  <2> HIDE DEF sum
  <2>1. IsSeq(Stored(f, HeaderOf(x, rs))) /\ Len(Stored(f, HeaderOf(x, rs))) = SumCells
    BY StoredIs
  <2>2. \A i \in 1..SumCells :
           Stored(f, HeaderOf(x, rs))[i] = f[rs["manifest"].off + 1 + i]
    BY StoredIs
  <2>. QED
    BY <2>1, <2>2
<1>2. \A i \in 1..SumCells : f[rs["manifest"].off + 1 + i] = sum[i]
  BY DEF SumIn
<1>3. sum = [i \in 1..SumCells |-> sum[i]]
  BY DEF SumOf
<1> HIDE DEF sum, t
<1>4. t = sum
  <2>1. t = [i \in 1..SumCells |-> t[i]]
    BY <1>1 DEF IsSeq
  <2>2. \A i \in 1..SumCells : t[i] = sum[i]
    BY <1>1, <1>2
  <2>. QED
    BY <1>3, <2>1, <2>2
<1>. QED
  BY <1>4 DEF t, sum, Answer

(* The manifest is inside the file. *)
LEMMA ManifestIsPlaced ==
  ASSUME NEW x \in Indexes, NEW f, NEW rs, LaidIn(f, rs, x, Names)
  PROVE  /\ rs["manifest"].off \in Nat \ {0}
         /\ rs["manifest"].off + 1 + SumCells <= Len(f)
<1> DEFINE s == "manifest"
<1>1. s \in Names
  BY DEF Names
<1>2. rs[s].len = 1 + SumCells
  BY LaidManifest
<1> HIDE DEF s
<1>3. rs[s].off \in Nat \ {0} /\ rs[s].off + rs[s].len <= Len(f)
  BY <1>1, LaidRegion
<1>4. rs[s].off + 1 + SumCells = rs[s].off + (1 + SumCells)
  BY <1>3, SizesAssumption
<1>. QED
  BY <1>2, <1>3, <1>4 DEF s

(* Loaders that agree have one outcome. *)
LEMMA OutcomesAre ==
  ASSUME NEW o, LoadIndex(file) = o, LoadIndexMmap(file) = o, \A w \in CrcBufs : Open(file, w) = o
  PROVE  Outcomes = {o}
  BY DEF Outcomes

(* The invariant gives the first property. *)
LEMMA InvTorn == FileInv => TornIsError
<1> SUFFICES ASSUME FileInv, stage # "done" PROVE Outcomes = {Error}
  BY DEF TornIsError
<1>1. CASE ~HasHeader(file)
  <2>1. LoadIndex(file) = Error /\ LoadIndexMmap(file) = Error
    BY <1>1 DEF LoadIndex, LoadIndexMmap
  <2>2. \A w \in CrcBufs : Open(file, w) = Error
    BY <1>1 DEF Open
  <2>. QED
    BY <2>1, <2>2, OutcomesAre
<1>2. CASE Unsummed
  <2>1. index \in Indexes /\ IsSeq(file)
    BY DEF FileInv, TypeInv
  <2>2. /\ Len(file) >= 1 /\ HeadIn(file, regions, index)
        /\ LaidIn(file, regions, index, Names) /\ SumIn(file, regions, NoSum)
    BY <1>2 DEF Unsummed, Begun
  <2>3. Answer(file, index, regions) = Error
    <3>1. regions["manifest"].off \in Nat
      BY <2>1, <2>2, ManifestIsPlaced
    <3>. QED
      BY <2>2, <3>1, UnsummedIsError
  <2>4. /\ LoadIndex(file) = Error /\ LoadIndexMmap(file) = Error
        /\ \A w \in CrcBufs : Open(file, w) = Error
    BY <2>1, <2>2, <2>3, LoadersAnswer
  <2>. QED
    BY <2>4, OutcomesAre
<1>3. CASE stage = "none"
  <2>1. file = <<>>
    BY <1>3 DEF FileInv, WritingInv
  <2>2. Len(<<>>) = 0
    BY EmptySeq
  <2>3. ~HasHeader(file)
    BY <2>1, <2>2 DEF HasHeader
  <2>. QED
    BY <1>1, <2>3
<1>4. CASE file[1] = Blank
  <2>1. DOMAIN Blank = {"blank"}
    BY DEF Blank
  <2>2. ~HasHeader(file)
    BY <1>4, <2>1 DEF HasHeader
  <2>. QED
    BY <1>1, <2>2
<1>5. stage = "none" \/ file[1] = Blank \/ Unsummed
  BY DEF FileInv, TypeInv, WritingInv, TornInv
<1>. QED
  BY <1>2, <1>3, <1>4, <1>5

(* The invariant gives the second. *)
LEMMA InvSaved == FileInv => SavedIsLoaded
<1> SUFFICES ASSUME FileInv, stage = "done", intact PROVE Outcomes = {Ok(index)}
  BY DEF SavedIsLoaded
<1>1. index \in Indexes /\ IsSeq(file)
  BY DEF FileInv, TypeInv
<1>2. /\ Len(file) >= 1 /\ HeadIn(file, regions, index)
      /\ LaidIn(file, regions, index, Names)
      /\ SumIn(file, regions, SumOf(Covered(file, HeaderOf(index, regions))))
  BY DEF FileInv, DoneInv, Begun
<1>3. Answer(file, index, regions) = Ok(index)
  <2>1. regions["manifest"].off \in Nat
    BY <1>1, <1>2, ManifestIsPlaced
  <2>. QED
    BY <1>2, <2>1, SummedIsOk
<1>4. /\ LoadIndex(file) = Ok(index) /\ LoadIndexMmap(file) = Ok(index)
      /\ \A w \in CrcBufs : Open(file, w) = Ok(index)
  BY <1>1, <1>2, <1>3, LoadersAnswer
<1>. QED
  BY <1>4, OutcomesAre

(* The invariant gives the third. *)
LEMMA InvCorrupt == FileInv => CorruptIsRefused
<1> SUFFICES ASSUME FileInv, ~intact, NEW o \in Outcomes PROVE o.kind # "ok"
  BY DEF CorruptIsRefused
<1> DEFINE h == HeaderOf(index, regions)
<1>1. IsSeq(file) /\ stage = "done"
  BY DEF FileInv, TypeInv
<1>2. /\ Len(file) >= 1 /\ file[1] = [header |-> h]
      /\ regions["manifest"].off \in Nat
      /\ Stored(file, h) # SumOf(Covered(file, h))
  BY <1>1 DEF FileInv, DoneInv, Begun, HeadIn
<1>3. h.regions["manifest"].off \in Nat
  BY <1>2 DEF HeaderOf
<1> HIDE DEF h
<1>4. /\ LoadIndex(file) \in {Error, Panic} /\ LoadIndexMmap(file) = Error
      /\ \A w \in CrcBufs : Open(file, w) = Error
  BY <1>1, <1>2, <1>3, WrongSumsAreRefused
<1>5. o \in {Error, Panic}
  BY <1>4 DEF Outcomes
<1>6. Error.kind = "error" /\ Panic.kind = "panic"
  BY DEF Error, Panic
<1>. QED
  BY <1>5, <1>6

-----------------------------------------------------------------------------
(* The stages. *)

(* The stages of a save in their order. *)
LEMMA StagesAre ==
  /\ Len(Stages) = 10
  /\ Stages[1] = "rotation" /\ Stages[2] = "centroids" /\ Stages[3] = "data"
  /\ Stages[4] = "meta" /\ Stages[5] = "raw" /\ Stages[6] = "payload"
  /\ Stages[7] = "manifest" /\ Stages[8] = "header" /\ Stages[9] = "checksum"
  /\ Stages[10] = "done" /\ DOMAIN Stages = 1..10
<1> DEFINE a == <<"rotation", "centroids", "data", "meta", "raw", "payload", "manifest">>
           b == <<"header", "checksum", "done">>
           S == Names \cup {"header", "checksum", "done"}
<1>1. /\ a \in Seq(S) /\ Len(a) = 7
      /\ a[1] = "rotation" /\ a[2] = "centroids" /\ a[3] = "data" /\ a[4] = "meta"
      /\ a[5] = "raw" /\ a[6] = "payload" /\ a[7] = "manifest"
  BY DEF Names
<1>2. /\ b \in Seq(S) /\ Len(b) = 3
      /\ b[1] = "header" /\ b[2] = "checksum" /\ b[3] = "done"
  BY DEF Names
<1>3. Stages = a \o b
  BY DEF Stages, RegionStages
<1> HIDE DEF a, b, S
<1>4. /\ a \o b \in Seq(S) /\ Len(a \o b) = Len(a) + Len(b)
      /\ \A i \in 1 .. Len(a) + Len(b) : (a \o b)[i] = IF i <= Len(a) THEN a[i] ELSE b[i - Len(a)]
  <2>1. a \in Seq(S) /\ b \in Seq(S)
    BY <1>1, <1>2
  <2>. QED
    BY <2>1, ConcatProperties
<1>5. Stages \in Seq(S) /\ Len(Stages) = 10
      /\ \A i \in 1..10 : Stages[i] = IF i <= 7 THEN a[i] ELSE b[i - 7]
  <2>1. Len(a) = 7 /\ Len(b) = 3
    BY <1>1, <1>2
  <2>2. Stages \in Seq(S) /\ Len(Stages) = 7 + 3
        /\ \A i \in 1..7 + 3 : Stages[i] = IF i <= 7 THEN a[i] ELSE b[i - 7]
    BY <1>3, <1>4, <2>1
  <2>. QED
    BY <2>2
<1>6. DOMAIN Stages = 1..10
  BY <1>5
<1>. QED
  BY <1>1, <1>2, <1>5, <1>6

(* The stage after each. *)
LEMMA AfterIs ==
  /\ After("rotation") = "centroids" /\ After("centroids") = "data"
  /\ After("data") = "meta" /\ After("meta") = "raw" /\ After("raw") = "payload"
  /\ After("payload") = "manifest" /\ After("manifest") = "header"
  /\ After("header") = "checksum" /\ After("checksum") = "done"
<1>1. ASSUME NEW k \in 1..9
      PROVE  After(Stages[k]) = Stages[k + 1]
  <2>1. \A i \in 1..9 : Stages[i] = Stages[k] => i = k
    BY StagesAre
  <2>2. Len(Stages) - 1 = 9
    BY StagesAre
  <2>3. (CHOOSE i \in 1..9 : Stages[i] = Stages[k]) = k
    BY <2>1
  <2>. QED
    BY <2>2, <2>3 DEF After
<1>2. \A k \in 1..9 : After(Stages[k]) = Stages[k + 1]
  BY <1>1
<1>3. /\ After(Stages[1]) = Stages[2] /\ After(Stages[2]) = Stages[3]
      /\ After(Stages[3]) = Stages[4] /\ After(Stages[4]) = Stages[5]
      /\ After(Stages[5]) = Stages[6] /\ After(Stages[6]) = Stages[7]
      /\ After(Stages[7]) = Stages[8] /\ After(Stages[8]) = Stages[9]
      /\ After(Stages[9]) = Stages[10]
  BY <1>2
<1>. QED
  BY <1>3, StagesAre

(* Seven regions, the header, the checksum. *)
LEMMA StageSets ==
  ToSet(RegionStages) = Names /\ ToSet(Stages) = Names \cup {"header", "checksum", "done"}
<1>1. ToSet(RegionStages) = Names
  BY DEF ToSet, RegionStages, Names
<1>2. \A s : s \in ToSet(Stages) <=> \E i \in 1..10 : s = Stages[i]
  BY StagesAre DEF ToSet
<1>3. \A i \in 1..10 : i = 1 \/ i = 2 \/ i = 3 \/ i = 4 \/ i = 5 \/ i = 6 \/ i = 7 \/ i = 8
                       \/ i = 9 \/ i = 10
  OBVIOUS
<1>4. ASSUME NEW s \in ToSet(Stages) PROVE s \in Names \cup {"header", "checksum", "done"}
  BY <1>2, <1>3, StagesAre DEF Names
<1>5. ASSUME NEW s \in Names \cup {"header", "checksum", "done"} PROVE s \in ToSet(Stages)
  <2>1. \E i \in 1..10 : s = Stages[i]
    BY StagesAre DEF Names
  <2>. QED
    BY <1>2, <2>1
<1>. QED
  BY <1>1, <1>4, <1>5

(* The regions written before the next stage. *)
LEMMA EarlierGrows ==
  ASSUME NEW s \in Names
  PROVE  /\ Earlier(After(s)) = Earlier(s) \cup {s} /\ s \notin Earlier(s)
         /\ Earlier(s) \subseteq Names \ {"manifest"}
         /\ "meta" \in Earlier(s) \cup {s} => "data" \in Earlier(s)
         /\ After(s) \in Names \cup {"header"}
         /\ After(s) = "header" <=> s = "manifest"
  BY AfterIs DEF Earlier, Names

-----------------------------------------------------------------------------
(* What each action does to the layout. *)

(* A cell without an offset or junk is sound. *)
LEMMA PlainIsSound ==
  ASSUME NEW c, "meta" \notin DOMAIN c, "junk" \notin DOMAIN c
  PROVE  Sound(c)
<1>1. DOMAIN Junk = {"junk"}
  BY DEF Junk
<1>. QED
  BY <1>1 DEF Sound

(* So is a blank. *)
LEMMA BlankIsSound == Sound(Blank)
<1>1. DOMAIN Blank = {"blank"}
  BY DEF Blank
<1>. QED
  BY <1>1, PlainIsSound

(* Every cell save_index writes is sound. *)
LEMMA CellsAreSound ==
  ASSUME NEW x \in Indexes, NEW base, NEW s \in Names, s = "meta" => base \in Nat
  PROVE  \A i \in 1..Len(Cells(s, x, base)) : Sound(Cells(s, x, base)[i])
<1>1. \A i \in 1..Len(Cells("rotation", x, base)) : Sound(Cells("rotation", x, base)[i])
  <2> DEFINE g == Cells("rotation", x, base)
             e == [rotation |-> x.rotation]
  <2>1. "meta" \notin DOMAIN e /\ "junk" \notin DOMAIN e
    OBVIOUS
  <2>2. g = <<e>>
    BY CellsAre
  <2> HIDE DEF g, e
  <2>3. Len(<<e>>) = 1 /\ <<e>>[1] = e
    BY Singles
  <2>4. Sound(e)
    BY <2>1, PlainIsSound
  <2>5. \A i \in 1..Len(g) : i = 1
    BY <2>2, <2>3
  <2>6. \A i \in 1..Len(g) : Sound(g[i])
    BY <2>2, <2>3, <2>4, <2>5
  <2>. QED
    BY <2>6 DEF g
<1>2. \A i \in 1..Len(Cells("payload", x, base)) : Sound(Cells("payload", x, base)[i])
  <2> DEFINE g == Cells("payload", x, base)
             e == [payloads |-> x.payloads]
  <2>1. "meta" \notin DOMAIN e /\ "junk" \notin DOMAIN e
    OBVIOUS
  <2>2. g = <<e>>
    BY CellsAre
  <2> HIDE DEF g, e
  <2>3. Len(<<e>>) = 1 /\ <<e>>[1] = e
    BY Singles
  <2>4. Sound(e)
    BY <2>1, PlainIsSound
  <2>5. \A i \in 1..Len(g) : i = 1
    BY <2>2, <2>3
  <2>6. \A i \in 1..Len(g) : Sound(g[i])
    BY <2>2, <2>3, <2>4, <2>5
  <2>. QED
    BY <2>6 DEF g
<1>3. \A i \in 1..Len(Cells("centroids", x, base)) : Sound(Cells("centroids", x, base)[i])
  <2> DEFINE g == Cells("centroids", x, base)
  <2>1. Len(g) = Len(x.centroids)
    BY CellsCount
  <2>2. g = [i \in 1..Len(x.centroids) |-> [centroid |-> x.centroids[i]]]
    BY CellsAre
  <2> HIDE DEF g
  <2>3. ASSUME NEW i \in 1..Len(g) PROVE Sound(g[i])
    <3>1. g[i] = [centroid |-> x.centroids[i]]
      BY <2>1, <2>2
    <3>2. "meta" \notin DOMAIN g[i] /\ "junk" \notin DOMAIN g[i]
      BY <3>1
    <3>. QED
      BY <3>2, PlainIsSound
  <2>. QED
    BY <2>3 DEF g
<1>4. \A i \in 1..Len(Cells("data", x, base)) : Sound(Cells("data", x, base)[i])
  <2> DEFINE g == Cells("data", x, base)
  <2>1. Len(g) = Len(IdsOf(x))
    BY CellsCount
  <2>2. g = [i \in 1..Len(IdsOf(x)) |-> [id |-> IdsOf(x)[i]]]
    BY CellsAre
  <2> HIDE DEF g
  <2>3. ASSUME NEW i \in 1..Len(g) PROVE Sound(g[i])
    <3>1. g[i] = [id |-> IdsOf(x)[i]]
      BY <2>1, <2>2
    <3>2. "meta" \notin DOMAIN g[i] /\ "junk" \notin DOMAIN g[i]
      BY <3>1
    <3>. QED
      BY <3>2, PlainIsSound
  <2>. QED
    BY <2>3 DEF g
<1>5. \A i \in 1..Len(Cells("raw", x, base)) : Sound(Cells("raw", x, base)[i])
  <2> DEFINE g == Cells("raw", x, base)
  <2>1. Len(g) = Len(x.raw)
    BY CellsCount
  <2>2. g = [i \in 1..Len(x.raw) |-> [vector |-> x.raw[i]]]
    BY CellsAre
  <2> HIDE DEF g
  <2>3. ASSUME NEW i \in 1..Len(g) PROVE Sound(g[i])
    <3>1. g[i] = [vector |-> x.raw[i]]
      BY <2>1, <2>2
    <3>2. "meta" \notin DOMAIN g[i] /\ "junk" \notin DOMAIN g[i]
      BY <3>1
    <3>. QED
      BY <3>2, PlainIsSound
  <2>. QED
    BY <2>3 DEF g
<1>6. ASSUME base \in Nat
      PROVE  \A i \in 1..Len(Cells("meta", x, base)) : Sound(Cells("meta", x, base)[i])
  <2> DEFINE g == Cells("meta", x, base)
  <2>1. Len(g) = Len(x.partitions)
    BY CellsCount
  <2>2. g = [i \in 1..Len(x.partitions) |-> MetaOf(x.partitions, base, i)]
    BY CellsAre
  <2> HIDE DEF g
  <2>3. ASSUME NEW i \in 1..Len(g) PROVE Sound(g[i])
    <3> DEFINE n == Len(x.partitions[i])
               q == Start(x.partitions, i)
    <3>1. g[i] = [meta |-> [off |-> base + q, len |-> n, count |-> n]]
      BY <2>1, <2>2 DEF MetaOf, Start
    <3>2. i \in 1..Len(x.partitions)
      BY <2>1
    <3>3. n \in Nat /\ q \in Nat
      BY <3>2, IdsAre
    <3> HIDE DEF n, q
    <3> DEFINE m == [off |-> base + q, len |-> n, count |-> n]
    <3>4. m \in [off : Nat, len : Nat, count : Nat]
      BY <1>6, <3>3
    <3>5. g[i] = [meta |-> m]
      BY <3>1
    <3> HIDE DEF m
    <3>6. g[i].meta = m /\ DOMAIN g[i] = {"meta"}
      BY <3>5
    <3>7. DOMAIN Junk = {"junk"}
      BY DEF Junk
    <3>. QED
      BY <3>4, <3>5, <3>6, <3>7 DEF Sound
  <2>. QED
    BY <2>3 DEF g
<1>7. \A i \in 1..Len(Cells("manifest", x, base)) : Sound(Cells("manifest", x, base)[i])
  <2> DEFINE g == Cells("manifest", x, base)
             e == [version |-> x.nextId]
  <2>1. "meta" \notin DOMAIN e /\ "junk" \notin DOMAIN e
    OBVIOUS
  <2>2. Len(g) = 1 + SumCells /\ g[1] = e /\ \A i \in 1..SumCells : g[1 + i] = Blank
    BY ManifestIs
  <2> HIDE DEF g, e
  <2>3. Sound(e)
    BY <2>1, PlainIsSound
  <2>4. ASSUME NEW i \in 1..Len(g) PROVE Sound(g[i])
    <3>1. CASE i = 1
      BY <2>2, <2>3, <3>1
    <3>2. CASE i # 1
      <4>1. i - 1 \in 1..SumCells /\ 1 + (i - 1) = i
        BY <2>2, <3>2, SizesAssumption
      <4>2. g[1 + (i - 1)] = Blank
        BY <2>2, <4>1
      <4>. QED
        BY <4>1, <4>2, BlankIsSound
    <3>. QED
      BY <3>1, <3>2
  <2>. QED
    BY <2>4 DEF g
<1>. QED
  BY <1>1, <1>2, <1>3, <1>4, <1>5, <1>6, <1>7 DEF Names

(* The cells and the regions once a region is appended. *)
WithCells(f, rs, x, s) == f \o CellsIn(rs, x, s)
WithRegion(f, rs, x, s) ==
  [t \in DOMAIN rs \cup {s} |->
     IF t = s THEN Region(Len(f), Len(CellsIn(rs, x, s))) ELSE rs[t]]

(* Appending a region keeps the earlier ones and lays out this one. *)
LEMMA WriteLays ==
  ASSUME NEW x \in Indexes, NEW f, IsSeq(f), Len(f) >= 1, NEW rs,
         NEW S, S \subseteq Names \ {"manifest"}, LaidIn(f, rs, x, S),
         NEW s \in Names, s \notin S, "meta" \in S \cup {s} => "data" \in S
  PROVE  /\ LaidIn(WithCells(f, rs, x, s), WithRegion(f, rs, x, s), x, S \cup {s})
         /\ s = "manifest" => SumIn(WithCells(f, rs, x, s), WithRegion(f, rs, x, s), NoSum)
<1> DEFINE c == CellsIn(rs, x, s)
           g == WithCells(f, rs, x, s)
           qs == WithRegion(f, rs, x, s)
<1>1. IsSeq(c)
  BY CellsCount DEF CellsIn
<1>2. /\ DOMAIN rs = S /\ \A t \in S : PlacedIn(f, rs, x, t)
  BY DEF LaidIn
<1>3. /\ DOMAIN qs = S \cup {s} /\ qs[s] = Region(Len(f), Len(c))
      /\ \A t \in S : qs[t] = rs[t]
  BY <1>2 DEF WithRegion
<1>4. \A t \in S \cup {s} : CellsIn(qs, x, t) = CellsIn(rs, x, t)
  <2>1. "meta" \in S \cup {s} => qs["data"] = rs["data"]
    BY <1>3
  <2>. QED
    BY <2>1 DEF CellsIn
<1>5. g = f \o c
  BY DEF WithCells
<1> HIDE DEF c, g, qs
<1>6. /\ Len(g) = Len(f) + Len(c) /\ Len(f) \in Nat /\ Len(c) \in Nat
      /\ \A i \in 1..Len(f) : g[i] = f[i]
      /\ \A i \in 1..Len(c) : g[Len(f) + i] = c[i]
  <2>1. /\ Len(f \o c) = Len(f) + Len(c)
        /\ \A i \in 1..Len(f) : (f \o c)[i] = f[i]
        /\ \A i \in 1..Len(c) : (f \o c)[Len(f) + i] = c[i]
    BY <1>1, Joins
  <2>2. Len(f) \in Nat /\ Len(c) \in Nat
    BY <1>1 DEF IsSeq
  <2>. QED
    BY <1>5, <2>1, <2>2
<1>7. ASSUME NEW t \in S
      PROVE  PlacedIn(g, qs, x, t) /\ qs[t].off + qs[t].len <= Len(f)
  <2> DEFINE d == CellsIn(rs, x, t)
             o == rs[t].off
  <2>1. /\ rs[t] = Region(o, Len(d)) /\ o \in Nat \ {0} /\ o + Len(d) <= Len(f)
        /\ \A i \in 1..Len(d) : t # "manifest" \/ i = 1 => f[o + i] = d[i]
    BY <1>2 DEF PlacedIn
  <2>2. IsSeq(d)
    BY CellsCount DEF CellsIn
  <2>3. qs[t] = rs[t] /\ CellsIn(qs, x, t) = d
    BY <1>3, <1>4
  <2> HIDE DEF d, o
  <2>4. Len(d) \in Nat
    BY <2>2 DEF IsSeq
  <2>5. qs[t].off = o /\ qs[t].len = Len(d)
    BY <2>1, <2>3 DEF o, Region
  <2>6. \A i \in 1..Len(d) : t # "manifest" \/ i = 1 => g[o + i] = d[i]
    <3>1. \A i \in 1..Len(d) : o + i \in 1..Len(f)
      BY <1>6, <2>1, <2>4
    <3>. QED
      BY <1>6, <2>1, <3>1
  <2>7. o + Len(d) <= Len(g)
    BY <1>6, <2>1, <2>4
  <2>8. qs[t] = Region(qs[t].off, Len(d))
    BY <2>1, <2>3, <2>5
  <2>. QED
    BY <2>1, <2>3, <2>5, <2>6, <2>7, <2>8 DEF PlacedIn
<1>8. PlacedIn(g, qs, x, s)
  <2>1. qs[s].off = Len(f) /\ CellsIn(qs, x, s) = c
    BY <1>3, <1>4 DEF Region, c
  <2>2. qs[s] = Region(qs[s].off, Len(c))
    BY <1>3, <2>1
  <2>3. qs[s].off \in Nat \ {0} /\ qs[s].off + Len(c) <= Len(g)
    BY <1>6, <2>1
  <2>4. \A i \in 1..Len(c) : g[qs[s].off + i] = c[i]
    BY <1>6, <2>1
  <2>. QED
    BY <2>1, <2>2, <2>3, <2>4 DEF PlacedIn
<1>9. LaidIn(g, qs, x, S \cup {s})
  <2>1. \A t \in S \cup {s} : PlacedIn(g, qs, x, t)
    BY <1>7, <1>8
  <2>2. ASSUME "manifest" \in S \cup {s}, NEW t \in (S \cup {s}) \ {"manifest"}
        PROVE  qs[t].off + qs[t].len <= qs["manifest"].off
    <3>1. s = "manifest" /\ t \in S
      BY <2>2
    <3>2. qs["manifest"].off = Len(f)
      BY <1>3, <3>1 DEF Region
    <3>. QED
      BY <1>7, <3>1, <3>2
  <2>. QED
    BY <1>3, <2>1, <2>2 DEF LaidIn
<1>10. ASSUME s = "manifest" PROVE SumIn(g, qs, NoSum)
  <2>1. Len(c) = 1 + SumCells /\ \A i \in 1..SumCells : c[1 + i] = Blank
    BY <1>10, ManifestIs DEF c, CellsIn
  <2>2. qs["manifest"].off = Len(f)
    BY <1>3, <1>10 DEF Region
  <2>3. ASSUME NEW i \in 1..SumCells PROVE g[qs["manifest"].off + 1 + i] = NoSum[i]
    <3>1. 1 + i \in 1..Len(c) /\ Len(f) + 1 + i = Len(f) + (1 + i)
      BY <1>6, <2>1, SizesAssumption
    <3>2. g[Len(f) + (1 + i)] = c[1 + i]
      BY <1>6, <3>1
    <3>3. NoSum[i] = Blank
      BY NoSumIs
    <3>. QED
      BY <2>1, <2>2, <3>1, <3>2, <3>3
  <2>. QED
    BY <2>3 DEF SumIn
<1>. QED
  BY <1>9, <1>10 DEF g, qs

(* Other cells may change. *)
LEMMA LaidStays ==
  ASSUME NEW x \in Indexes, NEW f, NEW g, Len(g) = Len(f), NEW rs, NEW S, LaidIn(f, rs, x, S),
         \A s \in S : \A i \in 1..Len(CellsIn(rs, x, s)) :
           s # "manifest" \/ i = 1 => g[rs[s].off + i] = f[rs[s].off + i]
  PROVE  LaidIn(g, rs, x, S)
<1>1. ASSUME NEW s \in S PROVE PlacedIn(g, rs, x, s)
  <2>1. /\ rs[s] = Region(rs[s].off, Len(CellsIn(rs, x, s)))
        /\ rs[s].off \in Nat \ {0}
        /\ rs[s].off + Len(CellsIn(rs, x, s)) <= Len(f)
        /\ \A i \in 1..Len(CellsIn(rs, x, s)) :
             s # "manifest" \/ i = 1 => f[rs[s].off + i] = CellsIn(rs, x, s)[i]
    BY DEF LaidIn, PlacedIn
  <2>2. \A i \in 1..Len(CellsIn(rs, x, s)) :
          s # "manifest" \/ i = 1 => g[rs[s].off + i] = CellsIn(rs, x, s)[i]
    BY <2>1
  <2>. QED
    BY <2>1, <2>2 DEF PlacedIn
<1>. QED
  BY <1>1 DEF LaidIn

(* One cell replaced. *)
LEMMA Replaced ==
  ASSUME NEW s, IsSeq(s), NEW i \in 1..Len(s), NEW e
  PROVE  /\ IsSeq(ReplaceAt(s, i, e)) /\ Len(ReplaceAt(s, i, e)) = Len(s)
         /\ ReplaceAt(s, i, e)[i] = e
         /\ \A j \in 1..Len(s) : j # i => ReplaceAt(s, i, e)[j] = s[j]
<1> DEFINE n == Len(s)
           g == ReplaceAt(s, i, e)
<1>1. n \in Nat /\ s = [j \in 1..n |-> s[j]]
  BY DEF IsSeq
<1>2. g = [s EXCEPT ![i] = e]
  BY DEF ReplaceAt
<1>3. i \in 1..n
  OBVIOUS
<1> HIDE DEF n, g
<1>4. g = [j \in 1..n |-> g[j]] /\ g[i] = e /\ \A j \in 1..n : j # i => g[j] = s[j]
  BY <1>1, <1>2, <1>3
<1>5. IsSeq(g) /\ Len(g) = n
  BY <1>1, <1>4, Made
<1>. QED
  BY <1>4, <1>5 DEF n, g

(* A laid cell lies behind the header, and before the manifest. *)
LEMMA LaidFrom ==
  ASSUME NEW x \in Indexes, NEW f, IsSeq(f), NEW rs, NEW S, S \subseteq Names, LaidIn(f, rs, x, S),
         NEW s \in S, NEW i \in 1..Len(CellsIn(rs, x, s))
  PROVE  /\ rs[s].off \in Nat \ {0} /\ rs[s].off + i \in 2..Len(f)
         /\ "manifest" \in S /\ s # "manifest" =>
              rs["manifest"].off \in Nat /\ rs[s].off + i <= rs["manifest"].off
<1>1. /\ rs[s] = Region(rs[s].off, Len(CellsIn(rs, x, s)))
      /\ rs[s].off \in Nat \ {0}
      /\ rs[s].off + Len(CellsIn(rs, x, s)) <= Len(f)
  BY DEF LaidIn, PlacedIn
<1>2. Len(f) \in Nat /\ Len(CellsIn(rs, x, s)) \in Nat
  <2>1. IsSeq(CellsIn(rs, x, s))
    BY CellsCount DEF CellsIn
  <2>. QED
    BY <2>1 DEF IsSeq
<1>3. rs[s].off + i \in 2..Len(f)
  BY <1>1, <1>2
<1>4. ASSUME "manifest" \in S, s # "manifest"
      PROVE  rs["manifest"].off \in Nat /\ rs[s].off + i <= rs["manifest"].off
  <2>1. rs["manifest"].off \in Nat \ {0}
    BY <1>4 DEF LaidIn, PlacedIn
  <2>2. rs[s].off + rs[s].len <= rs["manifest"].off
    BY <1>4 DEF LaidIn
  <2>3. rs[s].len = Len(CellsIn(rs, x, s))
    BY <1>1 DEF Region
  <2>. QED
    BY <1>1, <1>2, <2>1, <2>2, <2>3
<1>. QED
  BY <1>1, <1>3, <1>4

-----------------------------------------------------------------------------
(* Every step keeps the invariant. *)

(* The invariant holds before the first save. *)
LEMMA InitInv == Init => FileInv
<1> SUFFICES ASSUME Init PROVE FileInv
  OBVIOUS
<1>1. /\ file = <<>> /\ stage = "none" /\ intact = TRUE /\ index \in Indexes
  BY DEF Init
<1>2. Len(<<>>) = 0 /\ IsSeq(<<>>)
  <2>1. <<>> \in Seq({}) /\ Len(<<>>) = 0
    BY EmptySeq
  <2>. QED
    BY <2>1, SeqsAre
<1>3. TypeInv
  BY <1>1, <1>2 DEF TypeInv
<1>4. SoundInv
  BY <1>1, <1>2 DEF SoundInv
<1>5. WritingInv /\ TornInv /\ DoneInv
  BY <1>1 DEF WritingInv, TornInv, DoneInv, Names
<1>. QED
  BY <1>3, <1>4, <1>5 DEF FileInv

(* A save truncates the file and writes a blank header. *)
LEMMA BeginStep ==
  ASSUME FileInv, NEW x \in Indexes, Begin(x)
  PROVE  FileInv'
<1>1. /\ file' = <<Blank>> /\ stage' = "rotation" /\ index' = x /\ regions' = <<>>
      /\ intact' = TRUE
  BY DEF Begin
<1>2. IsSeq(<<Blank>>) /\ Len(<<Blank>>) = 1 /\ <<Blank>>[1] = Blank
  BY Singles
<1>3. TypeInv'
  BY <1>1, <1>2 DEF TypeInv, Names
<1>4. SoundInv'
  <2>1. \A i \in 1..1 : i = 1
    OBVIOUS
  <2>. QED
    BY <1>1, <1>2, <2>1, BlankIsSound DEF SoundInv
<1>5. LaidIn(file', regions', index', {})
  <2>1. DOMAIN <<>> = {}
    OBVIOUS
  <2>. QED
    BY <1>1, <2>1 DEF LaidIn
<1>6. Earlier("rotation") = {}
  BY DEF Earlier
<1>7. WritingInv'
  <2>1. Len(file') >= 1 /\ file'[1] = Blank
    BY <1>1, <1>2
  <2>. QED
    BY <1>1, <1>5, <1>6, <2>1 DEF WritingInv, Begun
<1>8. TornInv' /\ DoneInv'
  BY <1>1 DEF TornInv, DoneInv
<1>. QED
  BY <1>3, <1>4, <1>7, <1>8 DEF FileInv

(* A region is written behind the others. *)
LEMMA WriteStep ==
  ASSUME FileInv, WriteRegion
  PROVE  FileInv'
<1> DEFINE c == CellsIn(regions, index, stage)
           S == Earlier(stage)
<1>1. /\ stage \in Names /\ file' = file \o c
      /\ regions' = [s \in DOMAIN regions \cup {stage} |->
                       IF s = stage THEN Region(Len(file), Len(c)) ELSE regions[s]]
      /\ stage' = After(stage) /\ index' = index /\ intact' = intact
  BY StageSets DEF WriteRegion, CellsNow, RegionNow, CellsIn
<1>2. /\ index \in Indexes /\ IsSeq(file) /\ intact /\ intact' \in BOOLEAN
      /\ Len(file) >= 1 /\ file[1] = Blank /\ LaidIn(file, regions, index, S)
  BY <1>1 DEF FileInv, TypeInv, WritingInv, Begun, Names
<1>3. /\ stage \notin S /\ S \subseteq Names \ {"manifest"}
      /\ "meta" \in S \cup {stage} => "data" \in S
      /\ Earlier(stage') = S \cup {stage}
      /\ stage' \in Names \cup {"header"} /\ (stage' = "header" <=> stage = "manifest")
  BY <1>1, EarlierGrows
<1>4. LaidIn(file', regions', index', S \cup {stage}) /\
      (stage = "manifest" => SumIn(file', regions', NoSum))
  <2> HIDE DEF S
  <2>1. LaidIn(file', regions', index, S \cup {stage}) /\
        (stage = "manifest" => SumIn(file', regions', NoSum))
    <3> DEFINE f == file
               rs == regions
               x == index
               s == stage
    <3>1. /\ x \in Indexes /\ IsSeq(f) /\ Len(f) >= 1 /\ S \subseteq Names \ {"manifest"}
          /\ LaidIn(f, rs, x, S) /\ s \in Names /\ s \notin S
          /\ "meta" \in S \cup {s} => "data" \in S
      BY <1>1, <1>2, <1>3
    <3>2. file' = WithCells(f, rs, x, s) /\ regions' = WithRegion(f, rs, x, s)
      BY <1>1 DEF WithCells, WithRegion
    <3> HIDE DEF f, rs, x, s
    <3>3. /\ LaidIn(WithCells(f, rs, x, s), WithRegion(f, rs, x, s), x, S \cup {s})
          /\ s = "manifest" => SumIn(WithCells(f, rs, x, s), WithRegion(f, rs, x, s), NoSum)
      BY <3>1, WriteLays
    <3>. QED
      BY <3>2, <3>3 DEF x, s
  <2>. QED
    BY <1>1, <2>1
<1>5. IsSeq(c)
  BY <1>1, <1>2, CellsCount DEF CellsIn
<1>6. \A i \in 1..Len(c) : Sound(c[i])
  <2> DEFINE base == IF stage = "meta" THEN regions["data"].off ELSE 0
  <2>1. stage = "meta" => base \in Nat
    <3>1. ASSUME stage = "meta" PROVE regions["data"].off \in Nat
      <4>1. "data" \in S
        BY <1>3, <3>1
      <4>. QED
        BY <1>2, <4>1 DEF LaidIn, PlacedIn
    <3>. QED
      BY <3>1
  <2>2. c = Cells(stage, index, base)
    BY DEF CellsIn
  <2> HIDE DEF base, c
  <2>3. \A i \in 1..Len(Cells(stage, index, base)) : Sound(Cells(stage, index, base)[i])
    BY <1>1, <1>2, <2>1, CellsAreSound
  <2>. QED
    BY <2>2, <2>3
<1> HIDE DEF c, S
<1>7. /\ IsSeq(file') /\ Len(file') = Len(file) + Len(c) /\ Len(file) \in Nat /\ Len(c) \in Nat
      /\ \A i \in 1..Len(file) : file'[i] = file[i]
      /\ \A i \in 1..Len(c) : file'[Len(file) + i] = c[i]
  <2> DEFINE f == file
  <2>1. IsSeq(f) /\ IsSeq(c) /\ file' = f \o c
    BY <1>1, <1>2, <1>5
  <2> HIDE DEF f
  <2>2. /\ IsSeq(f \o c) /\ Len(f \o c) = Len(f) + Len(c)
        /\ \A i \in 1..Len(f) : (f \o c)[i] = f[i]
        /\ \A i \in 1..Len(c) : (f \o c)[Len(f) + i] = c[i]
    BY <2>1, Joins
  <2>3. Len(f) \in Nat /\ Len(c) \in Nat
    BY <2>1 DEF IsSeq
  <2>. QED
    BY <2>1, <2>2, <2>3 DEF f
<1>8. TypeInv'
  BY <1>1, <1>2, <1>3, <1>7 DEF TypeInv
<1>9. SoundInv'
  <2>1. ASSUME NEW i \in 1..Len(file') PROVE Sound(file'[i])
    <3>1. CASE i \in 1..Len(file)
      BY <1>2, <1>7, <3>1 DEF FileInv, SoundInv
    <3>2. CASE i \notin 1..Len(file)
      <4>1. i - Len(file) \in 1..Len(c) /\ Len(file) + (i - Len(file)) = i
        BY <1>7, <3>2
      <4>. QED
        BY <1>6, <1>7, <4>1
    <3>. QED
      BY <3>1, <3>2
  <2>. QED
    BY <2>1 DEF SoundInv
<1>10. Len(file') >= 1 /\ file'[1] = Blank
  BY <1>2, <1>7
<1>11. WritingInv'
  BY <1>3, <1>4, <1>10 DEF WritingInv, Begun, Names
<1>12. TornInv' /\ DoneInv'
  BY <1>3 DEF TornInv, DoneInv, Names
<1>. QED
  BY <1>8, <1>9, <1>11, <1>12 DEF FileInv

(* The header is filled in. *)
LEMMA HeaderStep ==
  ASSUME FileInv, FillHeader
  PROVE  FileInv'
<1> DEFINE e == [header |-> HeaderOf(index, regions)]
<1>1. /\ stage = "header" /\ file' = ReplaceAt(file, 1, e) /\ stage' = "checksum"
      /\ index' = index /\ regions' = regions /\ intact' = intact
  BY AfterIs DEF FillHeader
<1>2. /\ index \in Indexes /\ IsSeq(file) /\ intact /\ intact' \in BOOLEAN
      /\ Len(file) >= 1 /\ LaidIn(file, regions, index, Names)
      /\ SumIn(file, regions, NoSum)
  <2>1. Earlier("header") = Names
    BY DEF Earlier
  <2>. QED
    BY <1>1, <2>1 DEF FileInv, TypeInv, WritingInv, Begun, Names
<1>3. /\ IsSeq(file') /\ Len(file') = Len(file) /\ file'[1] = e
      /\ \A j \in 2..Len(file) : file'[j] = file[j]
  <2>1. 1 \in 1..Len(file) /\ \A j \in 2..Len(file) : j \in 1..Len(file) /\ j # 1
    BY <1>2 DEF IsSeq
  <2> HIDE DEF e
  <2>2. /\ IsSeq(ReplaceAt(file, 1, e)) /\ Len(ReplaceAt(file, 1, e)) = Len(file)
        /\ ReplaceAt(file, 1, e)[1] = e
        /\ \A j \in 1..Len(file) : j # 1 => ReplaceAt(file, 1, e)[j] = file[j]
    BY <1>2, <2>1, Replaced
  <2>. QED
    BY <1>1, <2>1, <2>2
<1>4. Sound(e)
  <2>1. "meta" \notin DOMAIN e /\ "junk" \notin DOMAIN e
    OBVIOUS
  <2> HIDE DEF e
  <2>. QED
    BY <2>1, PlainIsSound
<1>5. LaidIn(file', regions, index, Names)
  <2>1. ASSUME NEW s \in Names, NEW i \in 1..Len(CellsIn(regions, index, s))
        PROVE  file'[regions[s].off + i] = file[regions[s].off + i]
    <3>1. regions[s].off + i \in 2..Len(file)
      BY <1>2, LaidFrom
    <3>. QED
      BY <1>3, <3>1
  <2>. QED
    BY <1>2, <1>3, <2>1, LaidStays
<1>6. SumIn(file', regions, NoSum)
  <2>1. ASSUME NEW i \in 1..SumCells
        PROVE  file'[regions["manifest"].off + 1 + i] = file[regions["manifest"].off + 1 + i]
    <3>1. /\ regions["manifest"].off \in Nat \ {0}
          /\ regions["manifest"].off + 1 + SumCells <= Len(file)
      BY <1>2, ManifestIsPlaced
    <3>2. regions["manifest"].off + 1 + i \in 2..Len(file)
      BY <1>2, <3>1, SizesAssumption DEF IsSeq
    <3>. QED
      BY <1>3, <3>2
  <2>. QED
    BY <1>2, <2>1 DEF SumIn
<1>7. TypeInv'
  BY <1>1, <1>2, <1>3 DEF TypeInv
<1>8. SoundInv'
  <2>1. ASSUME NEW i \in 1..Len(file') PROVE Sound(file'[i])
    <3>1. i = 1 \/ i \in 2..Len(file)
      BY <1>2, <1>3 DEF IsSeq
    <3>2. \A j \in 2..Len(file) : Sound(file[j])
      BY <1>2 DEF FileInv, SoundInv, IsSeq
    <3> HIDE DEF e
    <3>. QED
      BY <1>3, <1>4, <3>1, <3>2
  <2>. QED
    BY <2>1 DEF SoundInv
<1>9. Unsummed'
  BY <1>1, <1>2, <1>3, <1>5, <1>6 DEF Unsummed, Begun, HeadIn
<1>10. TornInv' /\ WritingInv' /\ DoneInv'
  BY <1>1, <1>9 DEF TornInv, WritingInv, DoneInv, Names
<1>. QED
  BY <1>7, <1>8, <1>10 DEF FileInv

(* The checksum does not cover itself. *)
LEMMA CoveredStays ==
  ASSUME NEW f, IsSeq(f), Len(f) >= 1, NEW g, IsSeq(g), Len(g) = Len(f), NEW h,
         h.regions["manifest"].off \in Nat,
         \A i \in 2..Len(f) :
           ~(i >= h.regions["manifest"].off + 2 /\ i < h.regions["manifest"].off + 2 + SumCells)
             => g[i] = f[i]
  PROVE  Covered(g, h) = Covered(f, h)
<1> DEFINE a == Covered(f, h)
           b == Covered(g, h)
           n == Len(f) - 1
           lo == h.regions["manifest"].off + 1
<1>1. n \in Nat /\ lo \in Nat /\ SumCells \in Nat /\ Len(g) - 1 = n
  BY SizesAssumption DEF IsSeq
<1>2. /\ IsSeq(a) /\ Len(a) = n
      /\ \A i \in 1..n : a[i] = IF i >= lo /\ i < lo + SumCells THEN Blank ELSE f[i + 1]
  BY CoveredIs
<1>3. /\ IsSeq(b) /\ Len(b) = n
      /\ \A i \in 1..n : b[i] = IF i >= lo /\ i < lo + SumCells THEN Blank ELSE g[i + 1]
  <2>1. Len(g) >= 1
    OBVIOUS
  <2>2. /\ IsSeq(b) /\ Len(b) = Len(g) - 1
        /\ \A i \in 1..Len(g) - 1 : b[i] = IF i >= lo /\ i < lo + SumCells THEN Blank ELSE g[i + 1]
    BY <2>1, CoveredIs
  <2>. QED
    BY <2>2
<1>4. \A i \in 1..n : (i >= lo /\ i < lo + SumCells) \/ g[i + 1] = f[i + 1]
  <2>1. ASSUME NEW i \in 1..n, ~(i >= lo /\ i < lo + SumCells)
        PROVE  g[i + 1] = f[i + 1]
    <3>1. /\ i + 1 \in 2..Len(f)
          /\ ~(/\ i + 1 >= h.regions["manifest"].off + 2
               /\ i + 1 < h.regions["manifest"].off + 2 + SumCells)
      <4> DEFINE off == h.regions["manifest"].off
      <4>1. off \in Nat /\ SumCells \in Nat /\ lo = off + 1
        BY <1>1, SizesAssumption DEF lo
      <4>2. i \in Nat /\ i + 1 \in 2..Len(f)
        BY <1>1, <2>1
      <4> HIDE DEF off
      <4>3. ~(i + 1 >= off + 2 /\ i + 1 < off + 2 + SumCells)
        BY <2>1, <4>1, <4>2
      <4>. QED
        BY <4>2, <4>3 DEF off
    <3>. QED
      BY <3>1
  <2>. QED
    BY <2>1
<1> HIDE DEF a, b, n, lo
<1>5. \A i \in 1..n : a[i] = b[i]
  BY <1>2, <1>3, <1>4
<1>6. a = [i \in 1..n |-> a[i]] /\ b = [i \in 1..n |-> b[i]]
  BY <1>2, <1>3 DEF IsSeq
<1>7. a = b
  BY <1>5, <1>6
<1>. QED
  BY <1>7 DEF a, b

(* The checksum is filled in: nothing it covers changes. *)
LEMMA ChecksumStep ==
  ASSUME FileInv, FillChecksum
  PROVE  FileInv'
<1> DEFINE h == HeaderOf(index, regions)
           off == regions["manifest"].off
           first == off + 2
           n == Len(file)
           crc == Covered(file, h)
<1>1. /\ stage = "checksum" /\ stage' = "done"
      /\ index' = index /\ regions' = regions /\ intact' = intact
  BY AfterIs DEF FillChecksum
<1>2. /\ index \in Indexes /\ IsSeq(file) /\ intact /\ intact' \in BOOLEAN
      /\ n >= 1 /\ LaidIn(file, regions, index, Names) /\ file[1] = [header |-> h]
  BY <1>1 DEF FileInv, TypeInv, TornInv, Unsummed, Begun, HeadIn
<1>3. /\ off \in Nat \ {0} /\ off + 1 + SumCells <= n /\ n \in Nat
      /\ SumCells \in Nat \ {0}
  BY <1>2, ManifestIsPlaced, SizesAssumption DEF IsSeq
<1>4. file' = [i \in 1..n |-> IF i >= first /\ i < first + SumCells
                              THEN SumPart(crc, i - first + 1) ELSE file[i]]
  <2>1. file[1].header = h
    BY <1>2, HeaderIsRead
  <2> HIDE DEF h
  <2>. QED
    BY <2>1 DEF FillChecksum
<1> HIDE DEF h, n, crc, first, off
<1>5. IsSeq(file') /\ Len(file') = n
  <2>1. file' = [i \in 1..n |-> file'[i]]
    BY <1>4
  <2>. QED
    BY <1>3, <2>1, Made
<1>6. /\ \A i \in 1..n : i < first => file'[i] = file[i]
      /\ \A i \in 1..n : i >= first + SumCells => file'[i] = file[i]
      /\ \A i \in 1..SumCells : off + 1 + i \in 1..n /\ file'[off + 1 + i] = SumPart(crc, i)
  <2>1. \A i \in 1..n : file'[i] = IF i >= first /\ i < first + SumCells
                                   THEN SumPart(crc, i - first + 1) ELSE file[i]
    BY <1>4
  <2>2. ASSUME NEW i \in 1..SumCells
        PROVE  off + 1 + i \in 1..n
    BY <1>3
  <2>3. first \in Nat /\ SumCells \in Nat
    BY <1>3 DEF first
  <2>4. \A i \in 1..n : i < first => file'[i] = file[i]
    BY <1>3, <2>1, <2>3
  <2>5. \A i \in 1..n : i >= first + SumCells => file'[i] = file[i]
    BY <1>3, <2>1, <2>3
  <2>6. ASSUME NEW i \in 1..SumCells PROVE file'[off + 1 + i] = SumPart(crc, i)
    <3> DEFINE k == off + 1 + i
    <3>1. k \in 1..n /\ k >= first /\ k < first + SumCells /\ k - first + 1 = i
      BY <1>3 DEF first
    <3> HIDE DEF k
    <3>2. file'[k] = SumPart(crc, k - first + 1)
      BY <2>1, <3>1
    <3>3. file'[k] = SumPart(crc, i)
      BY <3>1, <3>2
    <3>. QED
      BY <3>3 DEF k
  <2>. QED
    BY <2>2, <2>4, <2>5, <2>6
<1>7. LaidIn(file', regions, index, Names)
  <2>1. ASSUME NEW s \in Names, NEW i \in 1..Len(CellsIn(regions, index, s)),
               s # "manifest" \/ i = 1
        PROVE  file'[regions[s].off + i] = file[regions[s].off + i]
    <3>1. regions[s].off + i \in 2..n
      BY <1>2, LaidFrom DEF n
    <3>2. regions[s].off + i < first
      <4>1. CASE s = "manifest"
        BY <1>3, <2>1, <4>1 DEF first, off
      <4>2. CASE s # "manifest"
        <5>1. "manifest" \in Names
          BY DEF Names
        <5>2. regions[s].off + i <= off
          BY <1>2, <4>2, <5>1, LaidFrom DEF off
        <5>. QED
          BY <1>3, <3>1, <5>2 DEF first
      <4>. QED
        BY <4>1, <4>2
    <3>3. regions[s].off + i \in 1..n
      BY <3>1, <1>3
    <3>. QED
      BY <1>6, <3>2, <3>3
  <2>2. Len(file') = Len(file)
    BY <1>5 DEF n
  <2>. QED
    BY <1>2, <2>1, <2>2, LaidStays
<1>8. Covered(file', h) = crc
  <2>1. h.regions["manifest"].off = off
    BY DEF h, off, HeaderOf
  <2>2. \A i \in 2..Len(file) :
          ~(i >= h.regions["manifest"].off + 2 /\ i < h.regions["manifest"].off + 2 + SumCells)
             => file'[i] = file[i]
    <3>1. ASSUME NEW i \in 2..n, ~(i >= first /\ i < first + SumCells)
          PROVE  file'[i] = file[i]
      <4>1. i \in 1..n
        BY <1>3
      <4>2. i < first \/ i >= first + SumCells
        BY <1>3, <3>1, <4>1 DEF first
      <4>. QED
        BY <1>6, <4>1, <4>2
    <3>. QED
      BY <2>1, <3>1 DEF first, n
  <2>3. IsSeq(file) /\ Len(file) >= 1 /\ Len(file') = Len(file) /\ h.regions["manifest"].off \in Nat
    BY <1>2, <1>3, <1>5, <2>1 DEF n
  <2> DEFINE f == file
             g == file'
  <2>4. /\ IsSeq(f) /\ Len(f) >= 1 /\ IsSeq(g) /\ Len(g) = Len(f)
        /\ h.regions["manifest"].off \in Nat
        /\ \A i \in 2..Len(f) :
             ~(i >= h.regions["manifest"].off + 2 /\ i < h.regions["manifest"].off + 2 + SumCells)
               => g[i] = f[i]
    BY <1>5, <2>2, <2>3
  <2> HIDE DEF f, g
  <2>5. Covered(g, h) = Covered(f, h)
    BY <2>4, CoveredStays
  <2>. QED
    BY <2>5 DEF f, g, crc
<1>9. SumIn(file', regions, SumOf(crc))
  <2>1. \A i \in 1..SumCells : SumOf(crc)[i] = SumPart(crc, i)
    BY DEF SumOf
  <2>. QED
    BY <1>6, <2>1 DEF SumIn, off
<1>10. TypeInv'
  BY <1>1, <1>2, <1>5 DEF TypeInv
<1>11. SoundInv'
  <2>1. ASSUME NEW i \in 1..n PROVE Sound(file'[i])
    <3>1. CASE i >= first /\ i < first + SumCells
      <4>1. file'[i] = SumPart(crc, i - first + 1)
        BY <1>4, <3>1
      <4>2. "meta" \notin DOMAIN SumPart(crc, i - first + 1)
            /\ "junk" \notin DOMAIN SumPart(crc, i - first + 1)
        BY DEF SumPart
      <4>. QED
        BY <4>1, <4>2, PlainIsSound
    <3>2. CASE ~(i >= first /\ i < first + SumCells)
      <4>1. file'[i] = file[i]
        BY <1>4, <3>2
      <4>2. Sound(file[i])
        BY <1>2 DEF FileInv, SoundInv, n
      <4>. QED
        BY <4>1, <4>2
    <3>. QED
      BY <3>1, <3>2
  <2>. QED
    BY <1>5, <2>1 DEF SoundInv
<1>12. DoneInv'
  <2>1. HeadIn(file', regions, index)
    <3>1. 1 \in 1..n /\ 1 < first
      BY <1>2, <1>3 DEF first
    <3>. QED
      BY <1>2, <1>6, <3>1 DEF HeadIn, h
  <2>2. Len(file') >= 1
    BY <1>2, <1>5
  <2>3. SumIn(file', regions, SumOf(Covered(file', HeaderOf(index, regions))))
    BY <1>8, <1>9 DEF h
  <2>. QED
    BY <1>1, <1>2, <1>7, <2>1, <2>2, <2>3 DEF DoneInv, Begun
<1>13. WritingInv' /\ TornInv'
  BY <1>1 DEF WritingInv, TornInv, Names
<1>. QED
  BY <1>10, <1>11, <1>12, <1>13 DEF FileInv

(* A save that stops leaves a blank header or a blank checksum. *)
LEMMA StopStep ==
  ASSUME FileInv, Stop
  PROVE  FileInv'
<1>1. /\ stage \in Names \cup {"header", "checksum"} /\ stage' = "dead"
      /\ index' = index /\ regions' = regions /\ intact' = intact
  BY StageSets DEF Stop, Names
<1>2. /\ index \in Indexes /\ IsSeq(file) /\ intact /\ intact' \in BOOLEAN
      /\ \A i \in 1..Len(file) : Sound(file[i])
  BY <1>1 DEF FileInv, TypeInv, SoundInv, Names
<1>3. SUFFICES /\ IsSeq(file') /\ \A i \in 1..Len(file') : Sound(file'[i])
               /\ TornInv'
  <2>1. TypeInv' /\ SoundInv' /\ WritingInv' /\ DoneInv'
    BY <1>1, <1>2, <1>3 DEF TypeInv, SoundInv, WritingInv, DoneInv, Names
  <2>. QED
    BY <1>3, <2>1 DEF FileInv
<1>4. CASE file' = file
  <2>1. CASE stage = "checksum"
    <3>1. Unsummed
      BY <2>1 DEF FileInv, TornInv
    <3>2. Unsummed'
      BY <1>1, <1>4, <3>1 DEF Unsummed, Begun
    <3>. QED
      BY <1>1, <1>2, <1>4, <3>2 DEF TornInv
  <2>2. CASE stage # "checksum"
    <3>1. Begun /\ file[1] = Blank
      BY <1>1, <2>2 DEF FileInv, WritingInv
    <3>2. Begun' /\ file'[1] = Blank
      BY <1>4, <3>1 DEF Begun
    <3>. QED
      BY <1>1, <1>2, <1>4, <3>2 DEF TornInv
  <2>. QED
    BY <2>1, <2>2
<1>5. CASE file' # file
  <2> DEFINE c == CellsIn(regions, index, stage)
  <2>1. PICK n \in 1..Len(c) : stage \in Names /\ file' = file \o SubSeq(c, 1, n)
    BY <1>5, StageSets DEF Stop, CellsNow, CellsIn
  <2> DEFINE t == SubSeq(c, 1, n)
  <2>2. /\ Len(file) >= 1 /\ file[1] = Blank /\ LaidIn(file, regions, index, Earlier(stage))
    BY <2>1 DEF FileInv, WritingInv, Begun
  <2>3. IsSeq(c)
    BY <1>2, <2>1, CellsCount DEF CellsIn
  <2>4. \A i \in 1..Len(c) : Sound(c[i])
    <3> DEFINE base == IF stage = "meta" THEN regions["data"].off ELSE 0
    <3>1. stage = "meta" => base \in Nat
      <4>1. ASSUME stage = "meta" PROVE regions["data"].off \in Nat
        <5>1. "data" \in Earlier(stage)
          BY <4>1 DEF Earlier
        <5>. QED
          BY <2>2, <5>1 DEF LaidIn, PlacedIn
      <4>. QED
        BY <4>1
    <3>2. c = Cells(stage, index, base)
      BY DEF CellsIn
    <3> HIDE DEF base, c
    <3>3. \A i \in 1..Len(Cells(stage, index, base)) : Sound(Cells(stage, index, base)[i])
      BY <1>2, <2>1, <3>1, CellsAreSound
    <3>. QED
      BY <3>2, <3>3
  <2> HIDE DEF c
  <2>5. n \in Nat /\ n <= Len(c)
    BY <2>1, <2>3 DEF IsSeq
  <2>6. IsSeq(t) /\ Len(t) = n /\ \A i \in 1..n : t[i] = c[i]
    <3>1. 0 \in Nat /\ 0 + 1 = 1 /\ 0 + n = n /\ \A i \in 1..n : 0 + i = i
      BY <2>5
    <3>2. /\ IsSeq(SubSeq(c, 0 + 1, 0 + n)) /\ Len(SubSeq(c, 0 + 1, 0 + n)) = n
          /\ \A i \in 1..n : SubSeq(c, 0 + 1, 0 + n)[i] = c[0 + i]
      <4> DEFINE z == 0
      <4>1. z \in Nat
        OBVIOUS
      <4> HIDE DEF z
      <4>2. /\ IsSeq(SubSeq(c, z + 1, z + n)) /\ Len(SubSeq(c, z + 1, z + n)) = n
            /\ \A i \in 1..n : SubSeq(c, z + 1, z + n)[i] = c[z + i]
        BY <2>5, <4>1, Slices
      <4>. QED
        BY <4>2 DEF z
    <3>. QED
      BY <3>1, <3>2
  <2> HIDE DEF t
  <2>7. /\ IsSeq(file') /\ Len(file') = Len(file) + Len(t) /\ Len(file) \in Nat /\ Len(t) \in Nat
        /\ \A i \in 1..Len(file) : file'[i] = file[i]
        /\ \A i \in 1..Len(t) : file'[Len(file) + i] = t[i]
    <3> DEFINE f == file
    <3>1. IsSeq(f) /\ IsSeq(t) /\ file' = f \o t
      BY <1>2, <2>1, <2>6 DEF t
    <3> HIDE DEF f
    <3>2. /\ IsSeq(f \o t) /\ Len(f \o t) = Len(f) + Len(t)
          /\ \A i \in 1..Len(f) : (f \o t)[i] = f[i]
          /\ \A i \in 1..Len(t) : (f \o t)[Len(f) + i] = t[i]
      <4>1. IsSeq(f) /\ IsSeq(t)
        BY <3>1
      <4>. QED
        BY <4>1, Joins
    <3>3. Len(f) \in Nat /\ Len(t) \in Nat
      BY <3>1 DEF IsSeq
    <3>. QED
      BY <3>1, <3>2, <3>3 DEF f
  <2>8. ASSUME NEW i \in 1..Len(file') PROVE Sound(file'[i])
    <3>1. CASE i \in 1..Len(file)
      BY <1>2, <2>7, <3>1
    <3>2. CASE i \notin 1..Len(file)
      <4>1. i - Len(file) \in 1..Len(t) /\ Len(file) + (i - Len(file)) = i
        BY <2>7, <3>2
      <4>2. file'[i] = t[i - Len(file)]
        BY <2>7, <4>1
      <4>3. i - Len(file) \in 1..n /\ i - Len(file) \in 1..Len(c)
        BY <2>5, <2>6, <4>1
      <4>. QED
        BY <2>4, <2>6, <4>2, <4>3
    <3>. QED
      BY <3>1, <3>2
  <2>9. Begun' /\ file'[1] = Blank
    BY <2>2, <2>7 DEF Begun
  <2>10. TornInv'
    BY <1>1, <2>9 DEF TornInv
  <2>. QED
    BY <2>7, <2>8, <2>10
<1>. QED
  BY <1>4, <1>5

(* A changed cell changes what is stored or what is covered, not both.     *)
LEMMA ChangesShow ==
  ASSUME NEW f, IsSeq(f), NEW rs, NEW x, NEW i \in 2..Len(f), NEW c, c # f[i],
         rs["manifest"].off \in Nat, rs["manifest"].off + 1 + SumCells <= Len(f),
         SumIn(f, rs, SumOf(Covered(f, HeaderOf(x, rs))))
  PROVE  Stored(ReplaceAt(f, i, c), HeaderOf(x, rs)) #
           SumOf(Covered(ReplaceAt(f, i, c), HeaderOf(x, rs)))
<1> DEFINE h == HeaderOf(x, rs)
           off == rs["manifest"].off
           first == off + 2
           g == ReplaceAt(f, i, c)
           crc == Covered(f, h)
           now == Covered(g, h)
<1>1. /\ Len(f) \in Nat /\ SumCells \in Nat \ {0} /\ off \in Nat /\ i \in 1..Len(f) /\ Len(f) >= 1
      /\ first = off + 2 /\ h.regions["manifest"].off = off
  BY SizesAssumption DEF IsSeq, HeaderOf
<1>2. /\ IsSeq(g) /\ Len(g) = Len(f) /\ g[i] = c
      /\ \A j \in 1..Len(f) : j # i => g[j] = f[j]
  BY <1>1, Replaced
<1>3. \A k \in 1..SumCells : Stored(g, h)[k] = g[off + 1 + k]
  <2> HIDE DEF h, off, first, g, crc, now
  <2>1. \A k \in 1..SumCells : Stored(g, HeaderOf(x, rs))[k] = g[rs["manifest"].off + 1 + k]
    BY StoredIs
  <2>2. h = HeaderOf(x, rs) /\ off = rs["manifest"].off
    BY DEF h, off
  <2>. QED
    BY <2>1, <2>2
<1>4. \A k \in 1..SumCells : f[off + 1 + k] = SumPart(crc, k)
  <2>1. \A k \in 1..SumCells : f[off + 1 + k] = SumOf(crc)[k]
    BY DEF SumIn
  <2>2. \A k \in 1..SumCells : SumOf(crc)[k] = SumPart(crc, k)
    BY DEF SumOf
  <2>. QED
    BY <2>1, <2>2
<1>5. \A k \in 1..SumCells : SumOf(now)[k] = SumPart(now, k)
  BY DEF SumOf
<1> HIDE DEF h, off, first, g, crc, now
<1>6. CASE i >= first /\ i < first + SumCells
  <2> DEFINE k == i - first + 1
  <2>1. k \in 1..SumCells /\ off + 1 + k = i
    BY <1>1, <1>6
  <2>2. now = crc
    <3>1. \A j \in 2..Len(f) :
            ~(j >= h.regions["manifest"].off + 2 /\ j < h.regions["manifest"].off + 2 + SumCells)
              => g[j] = f[j]
      <4>1. ASSUME NEW j \in 2..Len(f), ~(j >= first /\ j < first + SumCells)
            PROVE  g[j] = f[j]
        BY <1>1, <1>2, <1>6, <4>1
      <4>. QED
        BY <1>1, <4>1
    <3>2. h.regions["manifest"].off \in Nat
      BY <1>1
    <3>. QED
      BY <1>1, <1>2, <3>1, <3>2, CoveredStays DEF now, crc
  <2> HIDE DEF k
  <2>3. Stored(g, h)[k] = c /\ f[i] = SumPart(crc, k) /\ SumOf(now)[k] = SumPart(crc, k)
    BY <1>2, <1>3, <1>4, <1>5, <2>1, <2>2
  <2>4. Stored(g, h) # SumOf(now)
    BY <2>3
  <2>. QED
    BY <2>4 DEF g, h, now
<1>7. CASE ~(i >= first /\ i < first + SumCells)
  <2> DEFINE j == i - 1
             lo == off + 1
  <2>1. j \in 1..Len(f) - 1 /\ j + 1 = i /\ ~(j >= lo /\ j < lo + SumCells)
    BY <1>1, <1>7
  <2>2. crc[j] = f[i]
    <3>1. \A k \in 1..Len(f) - 1 : crc[k] = IF k >= lo /\ k < lo + SumCells THEN Blank ELSE f[k + 1]
      <4>1. \A k \in 1..Len(f) - 1 :
               Covered(f, h)[k] =
                 IF k >= h.regions["manifest"].off + 1
                    /\ k < h.regions["manifest"].off + 1 + SumCells THEN Blank ELSE f[k + 1]
        BY <1>1, CoveredIs
      <4>. QED
        BY <1>1, <4>1 DEF crc
    <3> HIDE DEF j, lo
    <3>. QED
      BY <2>1, <3>1
  <2>3. now[j] = c
    <3>1. \A k \in 1..Len(g) - 1 : now[k] = IF k >= lo /\ k < lo + SumCells THEN Blank ELSE g[k + 1]
      <4>0. Len(g) >= 1
        BY <1>1, <1>2
      <4>1. \A k \in 1..Len(g) - 1 :
               Covered(g, h)[k] =
                 IF k >= h.regions["manifest"].off + 1
                    /\ k < h.regions["manifest"].off + 1 + SumCells THEN Blank ELSE g[k + 1]
        BY <1>2, <4>0, CoveredIs
      <4>. QED
        BY <1>1, <4>1 DEF now
    <3> HIDE DEF j, lo
    <3>. QED
      BY <1>2, <2>1, <3>1
  <2>4. now # crc
    BY <2>2, <2>3
  <2>5. 1 \in 1..SumCells /\ off + 1 + 1 = first /\ first # i /\ first \in 1..Len(f)
    <3>1. off + 1 + SumCells <= Len(f)
      BY DEF off
    <3>. QED
      BY <1>1, <1>7, <3>1
  <2>6. Stored(g, h)[1] = SumPart(crc, 1) /\ SumOf(now)[1] = SumPart(now, 1)
    <3>1. Stored(g, h)[1] = g[first] /\ f[first] = SumPart(crc, 1)
      BY <1>3, <1>4, <2>5
    <3>2. g[first] = f[first]
      BY <1>2, <2>5
    <3>. QED
      BY <1>5, <2>5, <3>1, <3>2
  <2>7. SumPart(crc, 1).crc = crc /\ SumPart(now, 1).crc = now
    BY DEF SumPart
  <2>8. Stored(g, h) # SumOf(now)
    BY <2>4, <2>6, <2>7
  <2>. QED
    BY <2>8 DEF g, h, now
<1>. QED
  BY <1>6, <1>7

(* A cell goes bad: the file is refused from then on. *)
LEMMA CorruptStep ==
  ASSUME FileInv, Corrupt
  PROVE  FileInv'
<1>1. /\ stage = "done" /\ intact /\ intact' = FALSE
      /\ stage' = stage /\ index' = index /\ regions' = regions
  BY DEF Corrupt
<1>2. /\ index \in Indexes /\ IsSeq(file) /\ \A i \in 1..Len(file) : Sound(file[i])
      /\ Len(file) >= 1 /\ HeadIn(file, regions, index) /\ LaidIn(file, regions, index, Names)
      /\ SumIn(file, regions, SumOf(Covered(file, HeaderOf(index, regions))))
  BY <1>1 DEF FileInv, TypeInv, SoundInv, DoneInv, Begun
<1> DEFINE Bad(i) == {Junk} \cup IF "meta" \in DOMAIN file[i]
                                 THEN LET m == file[i].meta
                                      IN  {[meta |-> [m EXCEPT !.off = @ + 1]],
                                           [meta |-> [m EXCEPT !.len = @ + 100]],
                                           [meta |-> [m EXCEPT !.count = @ + 1]]}
                                 ELSE {}
<1>3. PICK i \in 2..Len(file) : \E c \in Bad(i) : file' = ReplaceAt(file, i, c)
  BY DEF Corrupt
<1>4. PICK c \in Bad(i) : file' = ReplaceAt(file, i, c)
  BY <1>3
<1>5. i \in 1..Len(file) /\ Sound(file[i])
  BY <1>2, <1>3
<1>6. c # file[i]
  <2>1. CASE c = Junk
    BY <1>5, <2>1 DEF Sound
  <2>2. CASE c # Junk
    <3> DEFINE m == file[i].meta
    <3>1. /\ "meta" \in DOMAIN file[i]
          /\ c \in {[meta |-> [m EXCEPT !.off = @ + 1]],
                    [meta |-> [m EXCEPT !.len = @ + 100]],
                    [meta |-> [m EXCEPT !.count = @ + 1]]}
      BY <1>4, <2>2
    <3>2. m \in [off : Nat, len : Nat, count : Nat]
      BY <1>5, <3>1 DEF Sound
    <3> HIDE DEF m
    <3>3. m.off \in Nat /\ m.len \in Nat /\ m.count \in Nat
      BY <3>2
    <3>4. /\ [m EXCEPT !.off = @ + 1].off = m.off + 1
          /\ [m EXCEPT !.len = @ + 100].len = m.len + 100
          /\ [m EXCEPT !.count = @ + 1].count = m.count + 1
      BY <3>2
    <3>5. c.meta \in {[m EXCEPT !.off = @ + 1], [m EXCEPT !.len = @ + 100],
                      [m EXCEPT !.count = @ + 1]}
      BY <3>1 DEF m
    <3>6. c.meta # m
      <4>1. CASE c.meta = [m EXCEPT !.off = @ + 1]
        <5>1. c.meta.off = m.off + 1
          BY <3>4, <4>1
        <5>. QED
          BY <3>3, <5>1
      <4>2. CASE c.meta = [m EXCEPT !.len = @ + 100]
        <5>1. c.meta.len = m.len + 100
          BY <3>4, <4>2
        <5>. QED
          BY <3>3, <5>1
      <4>3. CASE c.meta = [m EXCEPT !.count = @ + 1]
        <5>1. c.meta.count = m.count + 1
          BY <3>4, <4>3
        <5>. QED
          BY <3>3, <5>1
      <4>. QED
        BY <3>5, <4>1, <4>2, <4>3
    <3>. QED
      BY <3>6 DEF m
  <2>. QED
    BY <2>1, <2>2
<1>7. /\ IsSeq(file') /\ Len(file') = Len(file)
      /\ \A j \in 1..Len(file) : j # i => file'[j] = file[j]
  <2> HIDE DEF Bad
  <2>1. /\ IsSeq(ReplaceAt(file, i, c)) /\ Len(ReplaceAt(file, i, c)) = Len(file)
        /\ \A j \in 1..Len(file) : j # i => ReplaceAt(file, i, c)[j] = file[j]
    BY <1>2, <1>5, Replaced
  <2>. QED
    BY <1>4, <2>1
<1> HIDE DEF Bad
<1>8. /\ regions["manifest"].off \in Nat
      /\ regions["manifest"].off + 1 + SumCells <= Len(file)
  BY <1>2, ManifestIsPlaced
<1>9. Stored(file', HeaderOf(index, regions)) # SumOf(Covered(file', HeaderOf(index, regions)))
  <2> DEFINE f == file
             rs == regions
             x == index
  <2>1. /\ IsSeq(f) /\ i \in 2..Len(f) /\ c # f[i] /\ rs["manifest"].off \in Nat
        /\ rs["manifest"].off + 1 + SumCells <= Len(f)
        /\ SumIn(f, rs, SumOf(Covered(f, HeaderOf(x, rs))))
    BY <1>2, <1>3, <1>6, <1>8
  <2>2. file' = ReplaceAt(f, i, c)
    BY <1>4
  <2> HIDE DEF f, rs, x
  <2>3. Stored(ReplaceAt(f, i, c), HeaderOf(x, rs)) #
          SumOf(Covered(ReplaceAt(f, i, c), HeaderOf(x, rs)))
    BY <2>1, ChangesShow
  <2>. QED
    BY <2>2, <2>3 DEF rs, x
<1>10. TypeInv'
  BY <1>1, <1>2, <1>7 DEF TypeInv
<1>11. DoneInv'
  <2>1. HeadIn(file', regions, index) /\ Len(file') >= 1
    <3>1. 1 \in 1..Len(file) /\ 1 # i
      BY <1>2, <1>3 DEF IsSeq
    <3>. QED
      BY <1>2, <1>7, <3>1 DEF HeadIn
  <2>. QED
    BY <1>1, <1>8, <1>9, <2>1 DEF DoneInv, Begun
<1>12. SoundInv' /\ WritingInv' /\ TornInv'
  BY <1>1 DEF SoundInv, WritingInv, TornInv, Names
<1>. QED
  BY <1>10, <1>11, <1>12 DEF FileInv

(* Every step keeps the invariant. *)
LEMMA StepInv == FileInv /\ [Next]_vars => FileInv'
<1> SUFFICES ASSUME FileInv, [Next]_vars PROVE FileInv'
  OBVIOUS
<1>1. CASE \E x \in Indexes : Begin(x)
  BY <1>1, BeginStep
<1>2. CASE WriteRegion
  BY <1>2, WriteStep
<1>3. CASE FillHeader
  BY <1>3, HeaderStep
<1>4. CASE FillChecksum
  BY <1>4, ChecksumStep
<1>5. CASE Stop
  BY <1>5, StopStep
<1>6. CASE Corrupt
  BY <1>6, CorruptStep
<1>7. CASE UNCHANGED vars
  BY <1>7 DEF vars, FileInv, TypeInv, SoundInv, WritingInv, TornInv, DoneInv, Unsummed, Begun
<1>. QED
  BY <1>1, <1>2, <1>3, <1>4, <1>5, <1>6, <1>7 DEF Next

-----------------------------------------------------------------------------
(* A save that stopped anywhere, in the middle of a region or between the  *)
(* header and the checksum, leaves an error to every loader.               *)
THEOREM TornFilesAreErrors == Spec => []TornIsError
<1>1. Init => FileInv
  BY InitInv
<1>2. FileInv /\ [Next]_vars => FileInv'
  BY StepInv
<1>3. FileInv => TornIsError
  BY InvTorn
<1>. QED
  BY <1>1, <1>2, <1>3, PTL DEF Spec

(* A finished file is the index that was saved, to all three loaders and   *)
(* whatever the window of the streaming check.                             *)
THEOREM SavedFilesLoad == Spec => []SavedIsLoaded
<1>1. Init => FileInv
  BY InitInv
<1>2. FileInv /\ [Next]_vars => FileInv'
  BY StepInv
<1>3. FileInv => SavedIsLoaded
  BY InvSaved
<1>. QED
  BY <1>1, <1>2, <1>3, PTL DEF Spec

(* A file with a changed cell behind the header is no index to any loader. *)
THEOREM CorruptFilesAreRefused == Spec => []CorruptIsRefused
<1>1. Init => FileInv
  BY InitInv
<1>2. FileInv /\ [Next]_vars => FileInv'
  BY StepInv
<1>3. FileInv => CorruptIsRefused
  BY InvCorrupt
<1>. QED
  BY <1>1, <1>2, <1>3, PTL DEF Spec
=============================================================================

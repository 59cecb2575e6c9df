--------------------------- MODULE ChunkCacheProofs ---------------------------
(***************************************************************************)
(* Theorems about ChunkCache for every file, chunk size, budget, number of *)
(* queries and set of reads: reads are exact, the queue and the byte count *)
(* agree with the cache, and the budget is passed by a bounded excess.     *)
(***************************************************************************)
EXTENDS ChunkCache, SequenceTheorems, FiniteSetTheorems, NaturalsInduction,
        WellFoundedInduction, TLAPS

(* What is left of a read lies in the file, and what was copied is its     *)
(* beginning.                                                              *)
ReadInv ==
  /\ pc \in [Threads -> Labels]
  /\ req \in [Threads -> Nat \X Nat]
  /\ out \in [Threads -> Seq(Nat)]
  /\ \A t \in Threads :
       /\ pc[t] # "panicked"
       /\ \A i \in 1..Len(out[t]) : out[t][i] = req[t][1] + i - 1
       /\ pc[t] = "idle" /\ req[t][2] > 0 => Len(out[t]) = req[t][2]
       /\ pc[t] \notin {"idle", "failed"} =>
            req[t][1] + req[t][2] <= FileLen /\ Len(out[t]) < req[t][2]

(* A position lies in its chunk. *)
LEMMA Division ==
  ASSUME NEW n \in Nat, NEW d \in Nat \ {0}
  PROVE  /\ n \div d \in Nat /\ (n \div d) * d \in Nat
         /\ (n \div d) * d <= n /\ n < (n \div d) * d + d
         /\ (n \div d + 1) * d = (n \div d) * d + d
  OBVIOUS

(* What one turn of the copy takes is in the chunk and in the request.     *)
LEMMA TurnFits ==
  ASSUME ReadInv, NEW t \in Threads, pc[t] = "copy"
  PROVE  /\ ToRead(t) \in Nat \ {0} /\ InChunkOff(t) \in Nat
         /\ ChunkOf(t) * ChunkSize \in Nat
         /\ ChunkLen(ChunkOf(t)) \in Int
         /\ InChunkOff(t) + ToRead(t) <= ChunkLen(ChunkOf(t))
         /\ Len(out[t]) + ToRead(t) <= req[t][2]
         /\ ChunkOf(t) * ChunkSize + InChunkOff(t) = req[t][1] + Len(out[t])
<1>1. /\ req[t][1] \in Nat /\ req[t][2] \in Nat /\ Len(out[t]) \in Nat
      /\ req[t][1] + req[t][2] <= FileLen /\ Len(out[t]) < req[t][2]
      /\ FileLen \in Nat /\ ChunkSize \in Nat \ {0}
  <2>1. req[t] \in Nat \X Nat /\ out[t] \in Seq(Nat)
    BY DEF ReadInv
  <2>. QED
    BY <2>1, SizesAssumption DEF ReadInv
<1>2. Pos(t) \in Nat /\ Pos(t) = req[t][1] + Len(out[t])
  BY <1>1 DEF Pos
<1> DEFINE c == ChunkOf(t)
           start == c * ChunkSize
<1>3. /\ c \in Nat /\ start \in Nat /\ start <= Pos(t) /\ Pos(t) < start + ChunkSize
      /\ (c + 1) * ChunkSize = start + ChunkSize
  BY <1>1, <1>2, Division DEF ChunkOf
<1>4. InChunkOff(t) = Pos(t) - start
  BY DEF InChunkOff
<1>5. ChunkLen(c) = (IF start + ChunkSize <= FileLen THEN start + ChunkSize ELSE FileLen) - start
  BY <1>3 DEF ChunkLen, ChunkEnd
<1>6. ToRead(t) = IF ChunkSize - InChunkOff(t) <= req[t][2] - Len(out[t])
                  THEN ChunkSize - InChunkOff(t) ELSE req[t][2] - Len(out[t])
  BY DEF ToRead
<1> HIDE DEF c, start
<1>7. /\ ToRead(t) \in Nat \ {0} /\ InChunkOff(t) \in Nat /\ ChunkLen(c) \in Int
      /\ InChunkOff(t) + ToRead(t) <= ChunkLen(c)
      /\ Len(out[t]) + ToRead(t) <= req[t][2]
      /\ start + InChunkOff(t) = req[t][1] + Len(out[t])
  <2>1. /\ start <= req[t][1] + Len(out[t]) /\ req[t][1] + Len(out[t]) < start + ChunkSize
        /\ InChunkOff(t) = req[t][1] + Len(out[t]) - start
    BY <1>1, <1>2, <1>3, <1>4
  <2> DEFINE o == req[t][1]
             l == req[t][2]
             w == Len(out[t])
             off == InChunkOff(t)
             n == ToRead(t)
             e == ChunkLen(c)
  <2>2. /\ o \in Nat /\ l \in Nat /\ w \in Nat /\ o + l <= FileLen /\ w < l
        /\ FileLen \in Nat /\ ChunkSize \in Nat \ {0} /\ start \in Nat
        /\ start <= o + w /\ o + w < start + ChunkSize /\ off = o + w - start
    BY <1>1, <1>3, <2>1
  <2>3. n = IF ChunkSize - off <= l - w THEN ChunkSize - off ELSE l - w
    BY <1>6
  <2>4. e = (IF start + ChunkSize <= FileLen THEN start + ChunkSize ELSE FileLen) - start
    BY <1>5
  <2> HIDE DEF o, l, w, off, n, e
  <2>5. /\ n \in Nat \ {0} /\ off \in Nat /\ e \in Int
        /\ off + n <= e /\ w + n <= l /\ start + off = o + w
    BY <2>2, <2>3, <2>4
  <2>. QED
    BY <2>5 DEF o, l, w, off, n, e
<1>. QED
  BY <1>3, <1>7 DEF c, start

LEMMA Concatenated ==
  ASSUME NEW S, NEW p \in Seq(S), NEW q \in Seq(S)
  PROVE  /\ p \o q \in Seq(S) /\ Len(p \o q) = Len(p) + Len(q)
         /\ \A i \in 1..Len(p) : (p \o q)[i] = p[i]
         /\ \A i \in 1..Len(q) : (p \o q)[Len(p) + i] = q[i]
  OBVIOUS

(* A copy adds the next positions of the file. *)
LEMMA CopyKeeps ==
  ASSUME ReadInv, NEW t \in Threads, Copy(t)
  PROVE  ReadInv'
<1> DEFINE n == ToRead(t)
           old == out[t]
           more == [i \in 1..n |-> ChunkOf(t) * ChunkSize + InChunkOff(t) + i - 1]
           copied == old \o more
<1>1. /\ n \in Nat \ {0} /\ InChunkOff(t) \in Nat /\ ChunkOf(t) * ChunkSize \in Nat
      /\ Len(old) + n <= req[t][2]
      /\ ChunkOf(t) * ChunkSize + InChunkOff(t) = req[t][1] + Len(old)
      /\ ChunkLen(ChunkOf(t)) \in Int /\ InChunkOff(t) + n <= ChunkLen(ChunkOf(t))
  BY TurnFits DEF Copy
<1>2. /\ out' = [out EXCEPT ![t] = copied]
      /\ pc' = [pc EXCEPT ![t] = IF Len(copied) < req[t][2] THEN "get" ELSE "idle"]
      /\ req' = req
  <2>1. ~(InChunkOff(t) + n > ChunkLen(ChunkOf(t)))
    BY <1>1
  <2>. QED
    BY <2>1 DEF Copy, Goto
<1>3. /\ old \in Seq(Nat) /\ more \in Seq(Nat) /\ Len(more) = n /\ Len(old) \in Nat
      /\ \A i \in 1..n : more[i] = req[t][1] + Len(old) + i - 1
  <2>1. old \in Seq(Nat) /\ req[t][1] \in Nat /\ Len(old) \in Nat
    BY DEF ReadInv
  <2> HIDE DEF n, old
  <2>2. /\ more \in Seq(Nat) /\ Len(more) = n
        /\ \A i \in 1..n : more[i] = ChunkOf(t) * ChunkSize + InChunkOff(t) + i - 1
    <3> DEFINE base == ChunkOf(t) * ChunkSize + InChunkOff(t)
    <3>1. base \in Nat
      BY <1>1
    <3> HIDE DEF base
    <3>2. more = [i \in 1..n |-> base + i - 1]
      BY DEF base
    <3> HIDE DEF more
    <3>3. \A i \in 1..n : base + i - 1 \in Nat
      BY <1>1, <3>1
    <3>4. more \in Seq(Nat) /\ Len(more) = n
      BY <1>1, <3>2, <3>3
    <3>. QED
      BY <3>2, <3>4 DEF base
  <2>. QED
    BY <1>1, <2>1, <2>2
<1> HIDE DEF n, more, old
<1>4. /\ copied \in Seq(Nat) /\ Len(copied) = Len(old) + n
      /\ \A i \in 1..Len(old) : copied[i] = old[i]
      /\ \A i \in 1..n : copied[Len(old) + i] = more[i]
  <2>1. \A i \in 1..Len(more) : (old \o more)[Len(old) + i] = more[i]
    BY <1>3, Concatenated
  <2>2. old \o more \in Seq(Nat) /\ Len(old \o more) = Len(old) + n
    BY <1>3, Concatenated
  <2>3. \A i \in 1..Len(old) : (old \o more)[i] = old[i]
    BY <1>3, Concatenated
  <2>. QED
    BY <1>3, <2>1, <2>2, <2>3
<1> HIDE DEF copied
<1>5. ASSUME NEW i \in 1..Len(copied) PROVE copied[i] = req[t][1] + i - 1
  <2>1. CASE i \in 1..Len(old)
    BY <1>4, <2>1 DEF ReadInv, old
  <2>2. CASE i \notin 1..Len(old)
    <3> DEFINE j == i - Len(old)
    <3>1. j \in 1..n /\ i = Len(old) + j
      BY <1>1, <1>3, <1>4, <2>2
    <3>2. copied[i] = req[t][1] + Len(old) + j - 1
      BY <1>3, <1>4, <3>1
    <3>. QED
      BY <1>3, <3>1, <3>2 DEF ReadInv
  <2>. QED
    BY <2>1, <2>2
<1>6. /\ pc' \in [Threads -> Labels] /\ req' \in [Threads -> Nat \X Nat]
      /\ out' \in [Threads -> Seq(Nat)]
  BY <1>2, <1>4 DEF ReadInv, Labels
<1>7. ASSUME NEW u \in Threads
      PROVE  /\ pc'[u] # "panicked"
             /\ \A i \in 1..Len(out'[u]) : out'[u][i] = req'[u][1] + i - 1
             /\ pc'[u] = "idle" /\ req'[u][2] > 0 => Len(out'[u]) = req'[u][2]
             /\ pc'[u] \notin {"idle", "failed"} =>
                  req'[u][1] + req'[u][2] <= FileLen /\ Len(out'[u]) < req'[u][2]
  <2>1. CASE u # t
    BY <1>2, <2>1 DEF ReadInv
  <2>2. CASE u = t
    <3>1. /\ out'[t] = copied /\ req'[t] = req[t]
          /\ pc'[t] = IF Len(copied) < req[t][2] THEN "get" ELSE "idle"
      BY <1>2 DEF ReadInv
    <3>2. /\ req[t][2] \in Nat /\ req[t][1] + req[t][2] <= FileLen
          /\ Len(copied) \in Nat /\ Len(copied) <= req[t][2]
      <4>1. req[t] \in Nat \X Nat /\ pc[t] = "copy"
        BY DEF ReadInv, Copy
      <4>2. req[t][1] + req[t][2] <= FileLen
        BY <4>1 DEF ReadInv
      <4>3. req[t][2] \in Nat /\ Len(copied) = Len(old) + n
        BY <1>4, <4>1
      <4> DEFINE k == Len(old)
                 l == Len(copied)
      <4>4. k \in Nat /\ n \in Nat /\ k + n <= req[t][2] /\ l = k + n
        BY <1>1, <1>3, <4>3
      <4> HIDE DEF n, k, l
      <4>5. l \in Nat /\ l <= req[t][2]
        BY <4>3, <4>4
      <4>. QED
        BY <4>2, <4>3, <4>5 DEF l
    <3>. QED
      BY <1>5, <2>2, <3>1, <3>2
  <2>. QED
    BY <2>1, <2>2
<1>. QED
  BY <1>6, <1>7 DEF ReadInv

(* The other steps of a read only move its label on, or start or end it.   *)
LEMMA ReadStep == ReadInv /\ [Next]_vars => ReadInv'
<1> SUFFICES ASSUME ReadInv, [Next]_vars PROVE ReadInv'
  OBVIOUS
<1>1. ASSUME NEW t \in Threads, Read(t) PROVE ReadInv'
  <2>1. PICK r \in Requests :
          /\ req' = [req EXCEPT ![t] = r]
          /\ Goto(t, IF r[1] + r[2] > FileLen THEN "failed"
                     ELSE IF r[2] = 0 THEN "idle" ELSE "get")
    BY <1>1 DEF Read
  <2>2. r \in Nat \X Nat /\ FileLen \in Nat
    BY SizesAssumption
  <2>3. out' = [out EXCEPT ![t] = <<>>]
    BY <1>1 DEF Read
  <2>. QED
    BY <2>1, <2>2, <2>3 DEF ReadInv, Goto, Labels
<1>2. ASSUME NEW t \in Threads, Fail(t) PROVE ReadInv'
  BY <1>2 DEF ReadInv, Fail, Goto, Labels
<1>3. ASSUME NEW t \in Threads, NEW l \in {"get", "touch", "map", "install", "evict", "copy", "failed"},
             pc[t] \in {"get", "touch", "map", "install", "evict"}, Goto(t, l),
             UNCHANGED <<req, out>>
      PROVE  ReadInv'
  BY <1>3 DEF ReadInv, Goto, Labels
<1>4. ASSUME NEW t \in Threads, Get(t) \/ Touch(t) \/ Map(t) \/ Install(t) \/ Insert(t)
      PROVE  ReadInv'
  <2>1. /\ pc[t] \in {"get", "touch", "map", "install", "evict"} /\ UNCHANGED <<req, out>>
        /\ \E l \in {"get", "touch", "map", "install", "evict", "copy", "failed"} : Goto(t, l)
    BY <1>4 DEF Get, Touch, Map, Install, Insert
  <2>. QED
    BY <1>3, <2>1
<1>5. ASSUME NEW t \in Threads, Evict(t) PROVE ReadInv'
  BY <1>5 DEF ReadInv, Evict
<1>6. CASE UNCHANGED vars
  BY <1>6 DEF ReadInv, vars
<1>. QED
  BY <1>1, <1>2, <1>4, <1>5, <1>6, CopyKeeps DEF Next, Step

(* A read that ends without an error has copied the bytes it was asked     *)
(* for, whatever is evicted or loaded beside it, and no copy leaves its    *)
(* chunk.                                                                  *)
THEOREM ReadsAreExact == Spec => []ReadsExact
<1>1. Init => ReadInv
  BY DEF Init, ReadInv, Labels
<1>2. ReadInv => ReadsExact
  BY DEF ReadInv, ReadsExact
<1>. QED
  BY <1>1, <1>2, ReadStep, PTL DEF Spec

-----------------------------------------------------------------------------
LastChunk == (FileLen - 1) \div ChunkSize
Lack(S) == IF LastChunk \in S THEN ChunkSize - ChunkLen(LastChunk) ELSE 0

(* The bytes of a set of chunks: all are full but the last of the file. *)
Size(S) == Cardinality(S) * ChunkSize - Lack(S)

LEMMA ChunkLens ==
  /\ LastChunk \in Nat
  /\ ChunkLen(LastChunk) \in 1..ChunkSize
  /\ \A c \in Chunks : c \in Nat /\ (c # LastChunk => ChunkLen(c) = ChunkSize)
<1>1. FileLen \in Nat \ {0} /\ ChunkSize \in Nat \ {0}
  BY SizesAssumption
<1> DEFINE n == LastChunk
<1>2. n \in Nat /\ n * ChunkSize <= FileLen - 1 /\ FileLen - 1 < n * ChunkSize + ChunkSize
      /\ (n + 1) * ChunkSize = n * ChunkSize + ChunkSize /\ n * ChunkSize \in Nat
  BY <1>1 DEF LastChunk
<1>3. ChunkLen(n) = FileLen - n * ChunkSize
  BY <1>1, <1>2 DEF ChunkLen, ChunkEnd
<1>4. ASSUME NEW c \in Chunks PROVE c \in Nat /\ (c # n => ChunkLen(c) = ChunkSize)
  <2>1. c \in Nat /\ c <= n
    BY <1>1, <1>2, <1>4 DEF Chunks, LastChunk
  <2>2. c # n => (c + 1) * ChunkSize <= n * ChunkSize
    BY <1>1, <1>2, <2>1
  <2>3. (c + 1) * ChunkSize = c * ChunkSize + ChunkSize /\ c * ChunkSize \in Nat
    BY <1>1, <2>1
  <2> HIDE DEF n
  <2>. QED
    BY <1>1, <1>2, <2>1, <2>2, <2>3 DEF ChunkLen, ChunkEnd
<1>5. ChunkLen(n) \in 1..ChunkSize
  BY <1>1, <1>2, <1>3
<1>. QED
  BY <1>2, <1>4, <1>5

LEMMA ChunksFinite ==
  ASSUME NEW S \in SUBSET Chunks
  PROVE  IsFiniteSet(S) /\ Cardinality(S) \in Nat
<1>1. IsFiniteSet(Chunks)
  BY ChunkLens, FS_Interval DEF Chunks, LastChunk
<1>. QED
  BY <1>1, FS_Subset, FS_CardinalityType

LEMMA SizeOfMore ==
  ASSUME NEW S \in SUBSET Chunks, NEW c \in S
  PROVE  Size(S) = ChunkLen(c) + Size(S \ {c})
<1>1. Cardinality(S \ {c}) = Cardinality(S) - 1 /\ Cardinality(S) \in Nat
  BY ChunksFinite, FS_RemoveElement
<1>2. ChunkSize \in Nat /\ (Cardinality(S) - 1) * ChunkSize = Cardinality(S) * ChunkSize - ChunkSize
  BY <1>1, SizesAssumption
<1>3. Cardinality(S) * ChunkSize \in Nat /\ ChunkLen(LastChunk) \in Nat
  BY <1>1, <1>2, ChunkLens
<1>4. CASE c = LastChunk
  BY <1>1, <1>2, <1>3, <1>4 DEF Size, Lack
<1>5. CASE c # LastChunk
  <2>1. ChunkLen(c) = ChunkSize
    BY <1>5, ChunkLens
  <2>2. Lack(S \ {c}) = Lack(S) /\ Lack(S) \in Int
    BY <1>2, <1>3, <1>5 DEF Lack
  <2>. QED
    BY <1>1, <1>2, <1>3, <2>1, <2>2 DEF Size
<1>. QED
  BY <1>4, <1>5

(* The fold takes the chunks one by one; *)
LEMMA SumUnfolds ==
  ASSUME NEW S
  PROVE  MapThenSumSet(ChunkLen, S) =
           (CHOOSE iter : iter = [s \in SUBSET S |->
              IF s = {} THEN 0
              ELSE ChunkLen(CHOOSE x \in s : TRUE) + iter[s \ {CHOOSE x \in s : TRUE}]])[S]
  BY DEF MapThenSumSet, MapThenFoldSet

(* every set of natural numbers has a least member, *)
LEMMA Least ==
  ASSUME NEW S \in SUBSET Nat, S # {}
  PROVE  \E m \in S : \A n \in S : m <= n
<1> DEFINE Less == {ss \in Nat \X Nat : ss[1] < ss[2]}
<1>1. IsWellFoundedOn(Less, Nat)
  BY NatLessThanWellFounded DEF OpToRel
<1> HIDE DEF Less
<1>2. PICK m \in S : \A n \in S : ~(<<n, m>> \in Less)
  BY <1>1, WFMin
<1>3. ASSUME NEW n \in S PROVE m <= n
  <2>1. n \in Nat /\ m \in Nat /\ <<n, m>> \notin Less
    BY <1>2
  <2>. QED
    BY <2>1 DEF Less
<1>. QED
  BY <1>3

(* and so the fold adds up to the size. *)
LEMMA SumIsSize ==
  ASSUME NEW S \in SUBSET Chunks
  PROVE  MapThenSumSet(ChunkLen, S) = Size(S)
<1> DEFINE Turn(f) == [s \in SUBSET S |->
             IF s = {} THEN 0
             ELSE ChunkLen(CHOOSE x \in s : TRUE) + f[s \ {CHOOSE x \in s : TRUE}]]
           iter == CHOOSE f : f = Turn(f)
           sizes == [s \in SUBSET S |-> Size(s)]
<1>1. ASSUME NEW s \in SUBSET S
      PROVE  /\ s = {} => Size(s) = 0
             /\ s # {} => \E x \in s : /\ x = (CHOOSE y \in s : TRUE)
                                      /\ Size(s) = ChunkLen(x) + Size(s \ {x})
  <2>1. s = {} => Cardinality(s) = 0 /\ Lack(s) = 0 /\ ChunkSize \in Nat
    BY FS_EmptySet, SizesAssumption DEF Lack
  <2>2. s = {} => Size(s) = 0
    BY <2>1 DEF Size
  <2>. QED
    BY <2>2, SizeOfMore
<1>2. sizes = Turn(sizes)
  <2>1. ASSUME NEW s \in SUBSET S PROVE sizes[s] = Turn(sizes)[s]
    BY <1>1
  <2>. QED
    BY <2>1
<1>3. iter = Turn(iter)
  BY <1>2
<1> HIDE DEF iter, sizes
<1>4. ASSUME NEW s \in SUBSET S
      PROVE  iter[s] = IF s = {} THEN 0
               ELSE ChunkLen(CHOOSE x \in s : TRUE) + iter[s \ {CHOOSE x \in s : TRUE}]
  BY <1>3
<1> HIDE DEF Turn
<1>5. \A s \in SUBSET S : iter[s] = Size(s)
  <2> DEFINE Bad == {s \in SUBSET S : iter[s] # Size(s)}
             Cards == {Cardinality(s) : s \in Bad}
  <2>1. SUFFICES ASSUME Bad # {} PROVE FALSE
    OBVIOUS
  <2>2. Cards \subseteq Nat /\ Cards # {}
    BY <2>1, ChunksFinite
  <2> HIDE DEF Cards
  <2>3. PICK m \in Cards : \A n \in Cards : m <= n
    BY <2>2, Least
  <2>4. PICK s \in Bad : \A u \in Bad : Cardinality(s) <= Cardinality(u)
    BY <2>3 DEF Cards
  <2>5. s # {}
    BY <1>1, <1>4, <2>4
  <2>6. PICK x \in s : x = (CHOOSE y \in s : TRUE) /\ Size(s) = ChunkLen(x) + Size(s \ {x})
    BY <1>1, <2>5
  <2>7. iter[s] = ChunkLen(x) + iter[s \ {x}]
    BY <1>4, <2>5, <2>6
  <2>8. s \ {x} \in Bad
    BY <2>4, <2>6, <2>7
  <2>9. Cardinality(s \ {x}) = Cardinality(s) - 1 /\ Cardinality(s) \in Nat
    BY ChunksFinite, FS_RemoveElement
  <2>. QED
    BY <2>4, <2>8, <2>9
<1>6. MapThenSumSet(ChunkLen, S) = iter[S]
  BY SumUnfolds DEF iter, Turn
<1>. QED
  BY <1>5, <1>6

(* Moving an entry to the front of a queue keeps its entries; *)
LEMMA Moved ==
  ASSUME NEW S, NEW s \in Seq(S), NEW i \in 1..Len(s)
  PROVE  LET r == <<s[i]>> \o RemoveAt(s, i) IN
         /\ r \in Seq(S) /\ Len(r) = Len(s) /\ r[1] = s[i]
         /\ \A j \in 2..Len(s) : r[j] = IF j <= i THEN s[j - 1] ELSE s[j]
<1> DEFINE a == SubSeq(s, 1, i - 1)
           b == SubSeq(s, i + 1, Len(s))
           r == <<s[i]>> \o (a \o b)
<1>1. /\ a \in Seq(S) /\ Len(a) = i - 1 /\ \A j \in 1..(i - 1) : a[j] = s[j]
      /\ b \in Seq(S) /\ Len(b) = Len(s) - i /\ \A j \in 1..(Len(s) - i) : b[j] = s[i + j]
  OBVIOUS
<1>2. Len(s) \in Nat /\ i \in Nat /\ 1 <= i /\ i <= Len(s) /\ s[i] \in S
  OBVIOUS
<1> HIDE DEF a, b
<1>3. r \in Seq(S) /\ Len(r) = Len(s) /\ r[1] = s[i]
  BY <1>1, <1>2
<1>4. ASSUME NEW j \in 2..Len(s) PROVE r[j] = IF j <= i THEN s[j - 1] ELSE s[j]
  <2>1. r[j] = (a \o b)[j - 1]
    BY <1>1, <1>2
  <2>2. CASE j <= i
    <3>1. (a \o b)[j - 1] = a[j - 1]
      BY <1>1, <1>2, <2>2
    <3>. QED
      BY <1>1, <1>2, <2>1, <2>2, <3>1
  <2>3. CASE ~(j <= i)
    <3>1. (a \o b)[j - 1] = b[j - i]
      BY <1>1, <1>2, <2>3
    <3>2. j - i \in 1..(Len(s) - i) /\ i + (j - i) = j
      BY <1>2, <2>3
    <3>. QED
      BY <1>1, <2>1, <2>3, <3>1, <3>2
  <2>. QED
    BY <2>2, <2>3
<1>5. r = <<s[i]>> \o RemoveAt(s, i)
  BY DEF RemoveAt, a, b
<1> HIDE DEF r
<1>. QED
  BY <1>3, <1>4, <1>5

LEMMA MovedKeeps ==
  ASSUME NEW S, NEW s \in Seq(S), NEW i \in 1..Len(s), IsInjective(s),
         NEW r \in Seq(S), Len(r) = Len(s), r[1] = s[i],
         \A j \in 2..Len(s) : r[j] = IF j <= i THEN s[j - 1] ELSE s[j]
  PROVE  IsInjective(r) /\ ToSet(r) = ToSet(s)
<1> DEFINE n == Len(s)
           src(j) == IF j = 1 THEN i ELSE IF j <= i THEN j - 1 ELSE j
           dst(k) == IF k = i THEN 1 ELSE IF k < i THEN k + 1 ELSE k
<1>1. n \in Nat /\ i \in 1..n /\ DOMAIN s = 1..n /\ DOMAIN r = 1..n
  OBVIOUS
<1>2. ASSUME NEW j \in 1..n PROVE src(j) \in 1..n /\ r[j] = s[src(j)]
  <2>1. j = 1 \/ j \in 2..n
    BY <1>1
  <2> HIDE DEF n
  <2>2. src(j) \in 1..n
    BY <1>1
  <2>. QED
    BY <2>1, <2>2 DEF n
<1>3. ASSUME NEW k \in 1..n PROVE dst(k) \in 1..n /\ src(dst(k)) = k
  <2> HIDE DEF n
  <2>. QED
    BY <1>1
<1>4. ASSUME NEW j \in 1..n, NEW k \in 1..n, src(j) = src(k) PROVE j = k
  <2> HIDE DEF n
  <2>. QED
    BY <1>1, <1>4
<1> HIDE DEF n, src, dst
<1>5. ASSUME NEW j \in 1..n, NEW k \in 1..n, r[j] = r[k] PROVE j = k
  <2>1. s[src(j)] = s[src(k)]
    BY <1>2, <1>5
  <2>2. src(j) = src(k)
    BY <1>1, <1>2, <2>1 DEF IsInjective
  <2>. QED
    BY <1>4, <2>2
<1>6. ToSet(r) \subseteq ToSet(s)
  BY <1>1, <1>2 DEF ToSet
<1>7. ASSUME NEW k \in 1..n PROVE s[k] \in ToSet(r)
  BY <1>1, <1>2, <1>3 DEF ToSet
<1>8. ToSet(s) \subseteq ToSet(r)
  BY <1>1, <1>7 DEF ToSet
<1>9. IsInjective(r)
  BY <1>1, <1>5 DEF IsInjective
<1>. QED
  BY <1>6, <1>8, <1>9

(* the last entry leaves the others, *)
LEMMA Popped ==
  ASSUME NEW S, NEW s \in Seq(S), s # <<>>
  PROVE  /\ Front(s) \in Seq(S) /\ Len(Front(s)) = Len(s) - 1
         /\ \A j \in 1..(Len(s) - 1) : Front(s)[j] = s[j]
         /\ Len(s) \in Nat \ {0} /\ Last(s) = s[Len(s)] /\ Last(s) \in S
         /\ <<Last(s)>> \o Front(s) = <<s[Len(s)]>> \o RemoveAt(s, Len(s))
<1>1. Len(s) \in Nat \ {0}
  OBVIOUS
<1>2. SubSeq(s, Len(s) + 1, Len(s)) = <<>>
  OBVIOUS
<1>3. /\ SubSeq(s, 1, Len(s) - 1) \in Seq(S) /\ Len(SubSeq(s, 1, Len(s) - 1)) = Len(s) - 1
      /\ \A j \in 1..(Len(s) - 1) : SubSeq(s, 1, Len(s) - 1)[j] = s[j]
  <2> DEFINE m == Len(s) - 1
  <2>1. m \in Nat /\ \A j \in 1..m : j \in 1..Len(s) /\ s[j] \in S
    BY <1>1
  <2>2. SubSeq(s, 1, m) = [j \in 1..m |-> s[j]]
    BY <2>1
  <2> HIDE DEF m
  <2>3. SubSeq(s, 1, m) \in Seq(S) /\ Len(SubSeq(s, 1, m)) = m
    BY <2>1, <2>2
  <2>. QED
    BY <2>2, <2>3 DEF m
<1>4. SubSeq(s, 1, Len(s) - 1) \o <<>> = SubSeq(s, 1, Len(s) - 1)
  BY <1>3
<1>5. RemoveAt(s, Len(s)) = Front(s)
  BY <1>2, <1>4 DEF RemoveAt, Front
<1>. QED
  BY <1>1, <1>3, <1>5 DEF Front, Last

LEMMA PoppedLeaves ==
  ASSUME NEW S, NEW s \in Seq(S), s # <<>>, IsInjective(s)
  PROVE  IsInjective(Front(s)) /\ ToSet(Front(s)) = ToSet(s) \ {Last(s)}
<1>1. /\ Len(s) \in Nat \ {0} /\ Front(s) \in Seq(S) /\ Len(Front(s)) = Len(s) - 1
      /\ \A j \in 1..(Len(s) - 1) : Front(s)[j] = s[j]
      /\ Last(s) = s[Len(s)]
  BY Popped
<1>2. DOMAIN s = 1..Len(s) /\ DOMAIN Front(s) = 1..(Len(s) - 1)
  BY <1>1
<1>3. ASSUME NEW j \in 1..Len(s), NEW k \in 1..Len(s), s[j] = s[k] PROVE j = k
  BY <1>2, <1>3 DEF IsInjective
<1>4. IsInjective(Front(s))
  BY <1>1, <1>2, <1>3 DEF IsInjective
<1>5. ToSet(Front(s)) \subseteq ToSet(s) \ {Last(s)}
  <2>1. ASSUME NEW j \in 1..(Len(s) - 1) PROVE Front(s)[j] \in ToSet(s) \ {Last(s)}
    <3>1. j \in 1..Len(s) /\ j # Len(s) /\ Len(s) \in 1..Len(s)
      BY <1>1
    <3>. QED
      BY <1>1, <1>2, <1>3, <3>1 DEF ToSet
  <2>. QED
    BY <1>2, <2>1 DEF ToSet
<1>6. ToSet(s) \ {Last(s)} \subseteq ToSet(Front(s))
  <2>1. ASSUME NEW j \in 1..Len(s), s[j] # Last(s) PROVE s[j] \in ToSet(Front(s))
    <3>1. j \in 1..(Len(s) - 1)
      BY <1>1, <2>1
    <3>. QED
      BY <1>1, <1>2, <3>1 DEF ToSet
  <2>. QED
    BY <1>2, <2>1 DEF ToSet
<1>. QED
  BY <1>4, <1>5, <1>6

(* and a new entry joins them. *)
LEMMA Pushed ==
  ASSUME NEW S, NEW s \in Seq(S), NEW x \in S, IsInjective(s), x \notin ToSet(s)
  PROVE  /\ <<x>> \o s \in Seq(S)
         /\ IsInjective(<<x>> \o s) /\ ToSet(<<x>> \o s) = ToSet(s) \cup {x}
<1> DEFINE r == <<x>> \o s
<1>1. /\ r \in Seq(S) /\ Len(r) = Len(s) + 1 /\ r[1] = x /\ Len(s) \in Nat
      /\ \A j \in 2..(Len(s) + 1) : r[j] = s[j - 1]
      /\ \A j \in 1..Len(s) : r[j + 1] = s[j]
  OBVIOUS
<1> HIDE DEF r
<1>2. DOMAIN r = 1..(Len(s) + 1) /\ DOMAIN s = 1..Len(s)
  BY <1>1
<1>3. ASSUME NEW j \in 1..Len(s) PROVE s[j] # x /\ s[j] \in ToSet(r) /\ s[j] \in ToSet(s)
  <2>1. j + 1 \in DOMAIN r
    BY <1>1, <1>2
  <2>. QED
    BY <1>1, <1>2, <2>1 DEF ToSet
<1>4. ASSUME NEW j \in DOMAIN r PROVE (j = 1 /\ r[j] = x) \/ (j - 1 \in 1..Len(s) /\ r[j] = s[j - 1])
  BY <1>1, <1>2
<1>5. IsInjective(r)
  <2>1. ASSUME NEW j \in DOMAIN r, NEW k \in DOMAIN r, r[j] = r[k] PROVE j = k
    <3>1. j \in Int /\ k \in Int
      BY <1>1, <1>2
    <3>2. CASE j = 1 \/ k = 1
      BY <1>3, <1>4, <2>1, <3>2
    <3>3. CASE j # 1 /\ k # 1
      <4>1. j - 1 \in DOMAIN s /\ k - 1 \in DOMAIN s /\ s[j - 1] = s[k - 1]
        BY <1>2, <1>4, <2>1, <3>3
      <4>2. j - 1 = k - 1
        BY <4>1 DEF IsInjective
      <4>. QED
        BY <3>1, <4>2
    <3>. QED
      BY <3>2, <3>3
  <2>. QED
    BY <2>1 DEF IsInjective
<1>6. ToSet(r) \subseteq ToSet(s) \cup {x}
  BY <1>3, <1>4 DEF ToSet
<1>7. x \in ToSet(r) /\ ToSet(s) \subseteq ToSet(r)
  <2>1. x \in ToSet(r)
    BY <1>1, <1>2 DEF ToSet
  <2>2. ToSet(s) \subseteq ToSet(r)
    BY <1>2, <1>3 DEF ToSet
  <2>. QED
    BY <2>1, <2>2
<1>. QED
  BY <1>1, <1>5, <1>6, <1>7 DEF r

(* The bytes of the cached chunks are counted, and held chunks are cached; *)
Counted ==
  /\ current = Size(cached)
  /\ \A t \in Threads : pc[t] \in {"touch", "copy"} => ChunkOf(t) \in cached

(* the chunks that queries hold, *)
Held == {ChunkOf(u) : u \in {v \in Threads : pc[v] \in {"touch", "copy"}}}

(* the number of chunks BudgetBound allows, *)
Bounded(n) == n <= Cardinality(Threads) \/ n * ChunkSize < MaxTotal + ChunkSize

(* the locks, which the thread in the eviction loop holds, *)
LockInv == \A t \in Threads : pc[t] = "evict" <=> locks = t

(* and the loop: its chunk is not cached; what it passes over is in use,   *)
(* and nobody begins to use a chunk meanwhile; unless it has made room for *)
(* its chunk, it has passed over the front of the queue.                   *)
EvictInv ==
  \A t \in Threads : pc[t] = "evict" =>
    /\ ChunkOf(t) \notin cached
    /\ Cardinality(inUse \cup Held) < Cardinality(Threads)
    /\ \/ Bounded(Cardinality(cached) + 1)
       \/ \A i \in 1..Len(lru) : i <= examined => lru[i] \in inUse

CacheIInv ==
  /\ ReadInv /\ TypeOK /\ LruMatchesCache /\ Counted
  /\ LockInv /\ EvictInv /\ Bounded(Cardinality(cached))

(* A thread inside a read is at a chunk of the file. *)
LEMMA InChunks ==
  ASSUME ReadInv, NEW t \in Threads, pc[t] \notin {"idle", "failed"}
  PROVE  ChunkOf(t) \in Chunks
<1>1. /\ req[t][1] \in Nat /\ req[t][2] \in Nat /\ Len(out[t]) \in Nat
      /\ req[t][1] + req[t][2] <= FileLen /\ Len(out[t]) < req[t][2]
      /\ FileLen \in Nat \ {0} /\ ChunkSize \in Nat \ {0}
  <2>1. req[t] \in Nat \X Nat /\ out[t] \in Seq(Nat)
    BY DEF ReadInv
  <2>2. req[t][1] + req[t][2] <= FileLen /\ Len(out[t]) < req[t][2]
    BY DEF ReadInv
  <2>3. FileLen \in Nat \ {0} /\ ChunkSize \in Nat \ {0}
    BY SizesAssumption
  <2>. QED
    BY <2>1, <2>2, <2>3
<1>2. Pos(t) \in Nat /\ Pos(t) <= FileLen - 1
  <2> DEFINE a == req[t][1]
             b == req[t][2]
             c == Len(out[t])
  <2>1. /\ a \in Nat /\ b \in Nat /\ c \in Nat /\ FileLen \in Nat
        /\ a + b <= FileLen /\ c < b /\ Pos(t) = a + c
    BY <1>1 DEF Pos
  <2> HIDE DEF a, b, c
  <2>. QED
    BY <2>1
<1> DEFINE n == FileLen - 1
           p == Pos(t)
           q == p \div ChunkSize
           m == n \div ChunkSize
<1>3. n \in Nat /\ p \in Nat /\ p <= n
  BY <1>1, <1>2
<1> HIDE DEF n, p
<1>4. q \in Nat /\ m \in Nat /\ q * ChunkSize <= p /\ n < m * ChunkSize + ChunkSize
      /\ (m + 1) * ChunkSize = m * ChunkSize + ChunkSize
  BY <1>1, <1>3, Division
<1> HIDE DEF q, m
<1>5. q * ChunkSize < (m + 1) * ChunkSize /\ q \in Nat /\ m \in Nat /\ ChunkSize \in Nat \ {0}
  BY <1>1, <1>3, <1>4
<1>6. q <= m
  <2>1. q > m => q * ChunkSize >= (m + 1) * ChunkSize
    <3>1. ASSUME q > m PROVE q * ChunkSize >= (m + 1) * ChunkSize
      <4>1. q - (m + 1) \in Nat /\ q * ChunkSize = (q - (m + 1)) * ChunkSize + (m + 1) * ChunkSize
        BY <1>5, <3>1
      <4>2. (q - (m + 1)) * ChunkSize \in Nat /\ (m + 1) * ChunkSize \in Nat
        BY <1>5, <4>1
      <4>. QED
        BY <4>1, <4>2
    <3>. QED
      BY <3>1
  <2>2. q * ChunkSize \in Nat /\ (m + 1) * ChunkSize \in Nat
    BY <1>5
  <2>. QED
    BY <1>5, <2>1, <2>2
<1>. QED
  BY <1>5, <1>6 DEF q, m, n, p, ChunkOf, Chunks

LEMMA SizeType ==
  ASSUME NEW S \in SUBSET Chunks
  PROVE  Size(S) \in Nat /\ Size(S) > Cardinality(S) * ChunkSize - ChunkSize
<1>1. Cardinality(S) \in Nat /\ ChunkSize \in Nat \ {0} /\ ChunkLen(LastChunk) \in 1..ChunkSize
  BY ChunksFinite, ChunkLens, SizesAssumption
<1>2. Cardinality(S) * ChunkSize \in Nat
  BY <1>1
<1>3. Lack(S) \in 0..(ChunkSize - 1)
  BY <1>1 DEF Lack
<1>4. CASE LastChunk \in S
  <2>1. Cardinality(S \ {LastChunk}) = Cardinality(S) - 1 /\ Cardinality(S \ {LastChunk}) \in Nat
    BY <1>4, ChunksFinite, FS_RemoveElement
  <2>2. (Cardinality(S) - 1) * ChunkSize \in Nat
        /\ (Cardinality(S) - 1) * ChunkSize = Cardinality(S) * ChunkSize - ChunkSize
    BY <1>1, <2>1
  <2>. QED
    BY <1>1, <1>2, <1>3, <2>2 DEF Size
<1>5. CASE LastChunk \notin S
  BY <1>1, <1>2, <1>5 DEF Size, Lack
<1>. QED
  BY <1>4, <1>5

(* The chunks in use are few, and fewer when some are dropped. *)
LEMMA HeldFinite ==
  /\ IsFiniteSet(Held) /\ Cardinality(Threads) \in Nat
  /\ \A t \in Threads : pc[t] \notin {"touch", "copy"} => Cardinality(Held) < Cardinality(Threads)
<1> DEFINE Hs == {v \in Threads : pc[v] \in {"touch", "copy"}}
           f == [u \in Hs |-> ChunkOf(u)]
<1>1. IsFiniteSet(Threads) /\ Cardinality(Threads) \in Nat
  BY ThreadsAssumption, FS_CardinalityType
<1>2. IsFiniteSet(Hs) /\ Cardinality(Hs) \in Nat /\ Cardinality(Hs) <= Cardinality(Threads)
  BY <1>1, FS_Subset, FS_CardinalityType
<1>3. Held = {f[u] : u \in Hs}
  BY DEF Held
<1>4. f \in Surjection(Hs, Held)
  BY <1>3 DEF Surjection
<1>5. IsFiniteSet(Held) /\ Cardinality(Held) <= Cardinality(Hs) /\ Cardinality(Held) \in Nat
  BY <1>2, <1>4, FS_Surjection, FS_CardinalityType
<1>6. ASSUME NEW t \in Threads, pc[t] \notin {"touch", "copy"}
      PROVE  Cardinality(Held) < Cardinality(Threads)
  <2>1. Hs \subseteq Threads \ {t} /\ Cardinality(Threads \ {t}) = Cardinality(Threads) - 1
    BY <1>1, <1>6, FS_RemoveElement
  <2>2. Cardinality(Hs) <= Cardinality(Threads \ {t})
    BY <1>1, <2>1, FS_Subset, FS_RemoveElement
  <2>. QED
    BY <1>1, <1>2, <1>5, <2>1, <2>2
<1>. QED
  BY <1>1, <1>5, <1>6

LEMMA FewerHeld ==
  ASSUME TypeOK, NEW A \in SUBSET (inUse \cup Held),
         Cardinality(inUse \cup Held) < Cardinality(Threads)
  PROVE  Cardinality(A) < Cardinality(Threads)
<1>1. IsFiniteSet(inUse \cup Held)
  BY HeldFinite, ChunksFinite, FS_Union DEF TypeOK
<1>2. Cardinality(A) <= Cardinality(inUse \cup Held)
      /\ Cardinality(A) \in Nat /\ Cardinality(inUse \cup Held) \in Nat
  BY <1>1, FS_Subset, FS_CardinalityType
<1>. QED
  BY <1>2, HeldFinite

(* The queue is empty when nothing is cached, and its last entry is cached.*)
LEMMA LastIsCached ==
  ASSUME TypeOK, LruMatchesCache, lru # <<>>
  PROVE  Last(lru) \in cached
<1>1. Len(lru) \in DOMAIN lru /\ Last(lru) = lru[Len(lru)]
  BY DEF TypeOK, Last
<1>. QED
  BY <1>1 DEF LruMatchesCache, ToSet

(* A step that leaves the cache alone, and that takes a chunk for itself   *)
(* only when the locks are free.                                           *)
LEMMA Quiet ==
  ASSUME CacheIInv, ReadInv', NEW t \in Threads,
         UNCHANGED <<cached, current, locks, examined, inUse>>,
         reads' \in Nat, faults' \in Nat,
         lru' \in Seq(Chunks), IsInjective(lru'), ToSet(lru') = ToSet(lru),
         lru' = lru \/ locks = NoThread,
         pc[t] # "evict", pc'[t] # "evict",
         pc'[t] \in {"touch", "copy"} =>
           /\ ChunkOf(t)' \in cached
           /\ locks = NoThread \/ (pc[t] \in {"touch", "copy"} /\ ChunkOf(t)' = ChunkOf(t)),
         \A u \in Threads \ {t} : pc'[u] = pc[u] /\ ChunkOf(u)' = ChunkOf(u)
  PROVE  CacheIInv'
<1>1. TypeOK'
  BY DEF CacheIInv, TypeOK, ReadInv
<1>2. LruMatchesCache'
  BY DEF CacheIInv, LruMatchesCache
<1>3. Counted'
  BY DEF CacheIInv, Counted
<1>4. LockInv'
  <2>1. ASSUME NEW u \in Threads PROVE pc'[u] = "evict" <=> locks' = u
    BY DEF CacheIInv, LockInv
  <2>. QED
    BY <2>1 DEF LockInv
<1>5. EvictInv'
  <2> SUFFICES ASSUME NEW e \in Threads, pc'[e] = "evict"
               PROVE  /\ ChunkOf(e)' \notin cached'
                      /\ Cardinality(inUse \cup Held)' < Cardinality(Threads)'
                      /\ \/ Bounded(Cardinality(cached) + 1)'
                         \/ \A i \in 1..Len(lru') : i <= examined' => lru'[i] \in inUse'
    BY DEF EvictInv
  <2>1. e # t /\ pc[e] = "evict" /\ ChunkOf(e)' = ChunkOf(e)
    OBVIOUS
  <2>2. locks = e /\ locks # NoThread /\ lru' = lru
    BY <2>1, ThreadsAssumption DEF CacheIInv, LockInv
  <2>3. Held' \subseteq Held
    <3>1. Held' = {ChunkOf(u)' : u \in {v \in Threads : pc'[v] \in {"touch", "copy"}}}
      BY DEF Held
    <3>2. ASSUME NEW u \in Threads, pc'[u] \in {"touch", "copy"}
          PROVE  pc[u] \in {"touch", "copy"} /\ ChunkOf(u)' = ChunkOf(u)
      BY <2>2, <3>2
    <3>. QED
      BY <3>1, <3>2 DEF Held
  <2>4. /\ ChunkOf(e) \notin cached
        /\ Cardinality(inUse \cup Held) < Cardinality(Threads)
        /\ \/ Bounded(Cardinality(cached) + 1)
           \/ \A i \in 1..Len(lru) : i <= examined => lru[i] \in inUse
    BY <2>1 DEF CacheIInv, EvictInv
  <2>5. Cardinality(inUse' \cup Held') < Cardinality(Threads)
    BY <2>3, <2>4, FewerHeld DEF CacheIInv
  <2>. QED
    BY <2>1, <2>2, <2>4, <2>5 DEF Bounded
<1>6. Bounded(Cardinality(cached))'
  BY DEF CacheIInv, Bounded
<1>. QED
  BY <1>1, <1>2, <1>3, <1>4, <1>5, <1>6 DEF CacheIInv

(* The steps that leave the cache alone: *)
LEMMA QuietSteps ==
  ASSUME CacheIInv, ReadInv', NEW t \in Threads,
         Read(t) \/ Get(t) \/ Map(t) \/ Copy(t) \/ Fail(t)
           \/ (Install(t) /\ ChunkOf(t) \in cached)
  PROVE  CacheIInv'
<1>1. /\ UNCHANGED <<cached, lru, current, locks, examined, inUse>>
      /\ reads' \in Nat /\ faults' \in Nat
  <2>1. reads \in Nat /\ faults \in Nat
    BY DEF CacheIInv, TypeOK
  <2>. QED
    BY <2>1 DEF Read, Get, Map, Copy, Fail, Install, cache
<1>2. pc[t] # "evict" /\ pc \in [Threads -> Labels] /\ req \in [Threads -> Nat \X Nat]
      /\ out \in [Threads -> Seq(Nat)]
  BY DEF Read, Get, Map, Copy, Fail, Install, CacheIInv, ReadInv
<1>3. ASSUME NEW u \in Threads \ {t} PROVE pc'[u] = pc[u] /\ ChunkOf(u)' = ChunkOf(u)
  <2>1. pc'[u] = pc[u]
    BY <1>2 DEF Read, Get, Map, Copy, Fail, Install, Goto
  <2>2. req'[u] = req[u]
    BY <1>2 DEF Read, Get, Map, Copy, Fail, Install
  <2>3. out'[u] = out[u]
    BY <1>2 DEF Read, Get, Map, Copy, Fail, Install
  <2>. QED
    BY <2>1, <2>2, <2>3 DEF ChunkOf, Pos
<1>4. /\ pc'[t] # "evict"
      /\ pc'[t] \in {"touch", "copy"} =>
           /\ ChunkOf(t)' \in cached
           /\ locks = NoThread \/ (pc[t] \in {"touch", "copy"} /\ ChunkOf(t)' = ChunkOf(t))
  <2>1. CASE Read(t)
    BY <1>2, <2>1 DEF Read, Goto
  <2>2. CASE Get(t)
    BY <1>2, <2>2 DEF Get, Goto, ChunkOf, Pos
  <2>3. CASE Map(t)
    BY <1>2, <2>3 DEF Map, Goto
  <2>4. CASE Copy(t)
    BY <1>2, <2>4 DEF Copy, Goto
  <2>5. CASE Fail(t)
    BY <1>2, <2>5 DEF Fail, Goto
  <2>6. CASE Install(t) /\ ChunkOf(t) \in cached
    BY <1>2, <2>6 DEF Install, Goto, ChunkOf, Pos
  <2>. QED
    BY <2>1, <2>2, <2>3, <2>4, <2>5, <2>6
<1>5. lru \in Seq(Chunks) /\ IsInjective(lru)
  BY DEF CacheIInv, TypeOK, LruMatchesCache
<1>. QED
  BY <1>1, <1>2, <1>3, <1>4, <1>5, Quiet

(* a touch only reorders the queue; *)
LEMMA TouchStep ==
  ASSUME CacheIInv, ReadInv', NEW t \in Threads, Touch(t)
  PROVE  CacheIInv'
<1>1. /\ pc[t] = "touch" /\ locks = NoThread /\ pc' = [pc EXCEPT ![t] = "copy"]
      /\ UNCHANGED <<cached, current, locks, examined, inUse, req, out, reads, faults>>
      /\ lru \in Seq(Chunks) /\ IsInjective(lru) /\ pc \in [Threads -> Labels]
      /\ reads \in Nat /\ faults \in Nat
  BY DEF Touch, Goto, CacheIInv, TypeOK, LruMatchesCache
<1>2. lru' \in Seq(Chunks) /\ IsInjective(lru') /\ ToSet(lru') = ToSet(lru)
  <2>1. CASE lru' = lru
    BY <1>1, <2>1
  <2>2. CASE \E i \in DOMAIN lru : lru[i] = ChunkOf(t) /\ lru' = <<ChunkOf(t)>> \o RemoveAt(lru, i)
    <3>0. PICK i \in DOMAIN lru :
            lru[i] = ChunkOf(t) /\ lru' = <<ChunkOf(t)>> \o RemoveAt(lru, i)
      BY <2>2
    <3>1. i \in 1..Len(lru) /\ lru' = <<lru[i]>> \o RemoveAt(lru, i)
      BY <1>1, <3>0
    <3>2. /\ lru' \in Seq(Chunks) /\ Len(lru') = Len(lru) /\ lru'[1] = lru[i]
          /\ \A j \in 2..Len(lru) : lru'[j] = IF j <= i THEN lru[j - 1] ELSE lru[j]
      BY <1>1, <3>1, Moved
    <3>. QED
      BY <1>1, <3>1, <3>2, MovedKeeps
  <2>. QED
    BY <2>1, <2>2 DEF Touch
<1>3. ChunkOf(t)' \in cached
  BY <1>1 DEF ChunkOf, Pos, CacheIInv, Counted
<1>4. ASSUME NEW u \in Threads \ {t} PROVE pc'[u] = pc[u] /\ ChunkOf(u)' = ChunkOf(u)
  BY <1>1 DEF ChunkOf, Pos
<1>5. pc'[t] = "copy"
  BY <1>1
<1>. QED
  BY <1>1, <1>2, <1>3, <1>4, <1>5, Quiet

(* a miss takes the locks, and then no more than the other queries hold a  *)
(* chunk;                                                                  *)
LEMMA InstallStep ==
  ASSUME CacheIInv, ReadInv', NEW t \in Threads, Install(t), ChunkOf(t) \notin cached
  PROVE  CacheIInv'
<1>1. /\ pc[t] = "install" /\ locks = NoThread /\ pc' = [pc EXCEPT ![t] = "evict"]
      /\ locks' = t /\ examined' = 0 /\ inUse' = {}
      /\ UNCHANGED <<cached, lru, current, req, out, reads, faults>>
      /\ pc \in [Threads -> Labels]
  BY DEF Install, Goto, CacheIInv, TypeOK, cache
<1>2. TypeOK'
  BY <1>1 DEF CacheIInv, TypeOK, ReadInv
<1>3. LruMatchesCache'
  BY <1>1 DEF CacheIInv, LruMatchesCache
<1>4. \A u \in Threads : ChunkOf(u)' = ChunkOf(u) /\ (u # t => pc'[u] = pc[u])
  BY <1>1 DEF ChunkOf, Pos
<1>5. Counted'
  BY <1>1, <1>4 DEF CacheIInv, Counted
<1>6. LockInv'
  <2>1. ASSUME NEW u \in Threads PROVE pc'[u] = "evict" <=> locks' = u
    BY <1>1, ThreadsAssumption DEF CacheIInv, LockInv
  <2>. QED
    BY <2>1 DEF LockInv
<1>7. Cardinality(inUse' \cup Held') < Cardinality(Threads)
  <2>1. Held' = {ChunkOf(u)' : u \in {v \in Threads : pc'[v] \in {"touch", "copy"}}}
    BY DEF Held
  <2>2. Held' \subseteq Held
    BY <1>1, <1>4, <2>1 DEF Held
  <2>3. Cardinality(Held) < Cardinality(Threads) /\ IsFiniteSet(Held)
    BY <1>1, HeldFinite
  <2>4. Cardinality(Held') <= Cardinality(Held) /\ Cardinality(Held') \in Nat
        /\ Cardinality(Held) \in Nat /\ Cardinality(Threads) \in Nat
    BY <2>2, <2>3, HeldFinite, FS_Subset, FS_CardinalityType
  <2>5. inUse' \cup Held' = Held'
    BY <1>1
  <2>. QED
    BY <2>3, <2>4, <2>5
<1>8. EvictInv'
  <2> SUFFICES ASSUME NEW e \in Threads, pc'[e] = "evict"
               PROVE  /\ ChunkOf(e)' \notin cached'
                      /\ Cardinality(inUse \cup Held)' < Cardinality(Threads)'
                      /\ \/ Bounded(Cardinality(cached) + 1)'
                         \/ \A i \in 1..Len(lru') : i <= examined' => lru'[i] \in inUse'
    BY DEF EvictInv
  <2>1. e = t
    BY <1>1, <1>6 DEF LockInv
  <2>2. \A i \in 1..Len(lru') : ~(i <= examined')
    BY <1>1
  <2>. QED
    BY <1>1, <1>4, <1>7, <2>1, <2>2
<1>9. Bounded(Cardinality(cached))'
  BY <1>1 DEF CacheIInv, Bounded
<1>. QED
  BY <1>2, <1>3, <1>5, <1>6, <1>8, <1>9 DEF CacheIInv

(* a turn of its loop makes room for its chunk, or passes over a chunk in  *)
(* use;                                                                    *)
LEMMA EvictStep ==
  ASSUME CacheIInv, ReadInv', NEW t \in Threads, Evict(t)
  PROVE  CacheIInv'
<1> DEFINE victim == Last(lru)
<1>1. /\ pc[t] = "evict" /\ examined < Len(lru) /\ examined' = examined + 1
      /\ UNCHANGED <<locks, pc, req, out, reads, faults>>
      /\ lru \in Seq(Chunks) /\ IsInjective(lru) /\ ToSet(lru) = cached
      /\ cached \subseteq Chunks /\ current = Size(cached) /\ examined \in Nat
      /\ inUse \subseteq Chunks /\ pc \in [Threads -> Labels]
      /\ Bounded(Cardinality(cached))
  BY DEF Evict, Evicting, CacheIInv, TypeOK, LruMatchesCache, Counted
<1>2. lru # <<>> /\ Len(lru) \in Nat \ {0}
  <2>1. Len(<<>>) = 0
    BY EmptySeq
  <2>. QED
    BY <1>1, <2>1
<1>3. victim \in cached
  BY <1>2, LastIsCached DEF CacheIInv
<1>4. \A u \in Threads : ChunkOf(u)' = ChunkOf(u) /\ pc'[u] = pc[u]
  BY <1>1 DEF ChunkOf, Pos
<1>5. Held' = Held
  <2>1. Held' = {ChunkOf(u)' : u \in {v \in Threads : pc'[v] \in {"touch", "copy"}}}
    BY DEF Held
  <2>. QED
    BY <1>4, <2>1 DEF Held
<1>6. LockInv'
  BY <1>1, <1>4 DEF CacheIInv, LockInv
<1>7. /\ ChunkOf(t) \notin cached
      /\ Cardinality(inUse \cup Held) < Cardinality(Threads)
      /\ \/ Bounded(Cardinality(cached) + 1)
         \/ \A i \in 1..Len(lru) : i <= examined => lru[i] \in inUse
  BY <1>1 DEF CacheIInv, EvictInv
<1>8. \A e \in Threads : pc'[e] = "evict" => e = t
  BY <1>1, <1>6 DEF CacheIInv, LockInv
<1>9. CASE Holders(victim) = {}
  <2>1. /\ cached' = cached \ {victim} /\ current' = current - ChunkLen(victim)
        /\ lru' = Front(lru) /\ inUse' = inUse
    BY <1>3, <1>9 DEF Evict
  <2>2. lru' \in Seq(Chunks) /\ IsInjective(lru') /\ ToSet(lru') = cached'
    BY <1>1, <1>2, <2>1, Popped, PoppedLeaves
  <2>3. current' = Size(cached')
    <3>1. Size(cached) = ChunkLen(victim) + Size(cached \ {victim})
      BY <1>1, <1>3, SizeOfMore
    <3>2. ChunkLen(victim) \in Int /\ Size(cached \ {victim}) \in Nat
      BY <1>1, <1>3, ChunkLens, SizeType, SizesAssumption
    <3>. QED
      BY <1>1, <2>1, <3>1, <3>2
  <2>4. cached' \subseteq Chunks /\ current' \in Nat
    BY <1>1, <2>1, <2>3, SizeType
  <2>5. TypeOK'
    <3>1. TypeOK
      BY DEF CacheIInv
    <3>2. examined' \in Nat
      BY <1>1
    <3>3. UNCHANGED <<locks, pc, req, out, reads, faults, inUse>>
      BY <1>1, <2>1
    <3>4. lru' \in Seq(Chunks)
      BY <2>2
    <3>. QED
      BY <2>4, <3>1, <3>2, <3>3, <3>4 DEF TypeOK
  <2>6. Counted'
    <3>1. ASSUME NEW u \in Threads, pc'[u] \in {"touch", "copy"} PROVE ChunkOf(u)' \in cached'
      <4>1. ChunkOf(u) \in cached /\ pc[u] \in {"touch", "copy"}
        BY <1>4, <3>1 DEF CacheIInv, Counted
      <4>2. ChunkOf(u) # victim
        BY <1>9, <4>1 DEF Holders
      <4>. QED
        BY <1>4, <2>1, <4>1, <4>2
    <3>. QED
      BY <2>3, <3>1 DEF Counted
  <2>7. Cardinality(cached') + 1 = Cardinality(cached)
    <3>1. Cardinality(cached) \in Nat /\ IsFiniteSet(cached)
      BY <1>1, ChunksFinite
    <3>2. Cardinality(cached') = Cardinality(cached) - 1
      BY <1>3, <2>1, <3>1, FS_RemoveElement
    <3>. QED
      BY <3>1, <3>2
  <2>8. Bounded(Cardinality(cached') + 1)
    BY <1>1, <2>7
  <2>9. Bounded(Cardinality(cached'))
    <3>1. Cardinality(cached') \in Nat /\ ChunkSize \in Nat \ {0} /\ MaxTotal \in Nat
          /\ Cardinality(Threads) \in Nat
      BY <2>4, ChunksFinite, SizesAssumption, HeldFinite
    <3>2. /\ (Cardinality(cached') + 1) * ChunkSize = Cardinality(cached') * ChunkSize + ChunkSize
          /\ Cardinality(cached') * ChunkSize \in Nat
      BY <3>1
    <3>. QED
      BY <2>8, <3>1, <3>2 DEF Bounded
  <2>10. EvictInv'
    <3> SUFFICES ASSUME NEW e \in Threads, pc'[e] = "evict"
                 PROVE  /\ ChunkOf(e)' \notin cached'
                        /\ Cardinality(inUse \cup Held)' < Cardinality(Threads)'
                        /\ \/ Bounded(Cardinality(cached) + 1)'
                           \/ \A i \in 1..Len(lru') : i <= examined' => lru'[i] \in inUse'
      BY DEF EvictInv
    <3>1. e = t
      BY <1>8
    <3>. QED
      BY <1>4, <1>5, <1>7, <2>1, <2>8, <3>1 DEF Bounded
  <2>. QED
    BY <1>6, <2>2, <2>5, <2>6, <2>9, <2>10 DEF CacheIInv, LruMatchesCache, Bounded
<1>10. CASE Holders(victim) # {}
  <2>1. /\ UNCHANGED <<cached, current>> /\ inUse' = inUse \cup {victim}
        /\ lru' = <<victim>> \o Front(lru)
    BY <1>3, <1>10 DEF Evict
  <2>2. lru' = <<lru[Len(lru)]>> \o RemoveAt(lru, Len(lru)) /\ lru[Len(lru)] = victim
    BY <1>1, <1>2, <2>1, Popped
  <2>3. /\ lru' \in Seq(Chunks) /\ Len(lru') = Len(lru) /\ lru'[1] = victim
        /\ \A j \in 2..Len(lru) : lru'[j] = lru[j - 1]
    <3>1. Len(lru) \in 1..Len(lru)
      BY <1>2
    <3>2. /\ lru' \in Seq(Chunks) /\ Len(lru') = Len(lru) /\ lru'[1] = lru[Len(lru)]
          /\ \A j \in 2..Len(lru) : lru'[j] = IF j <= Len(lru) THEN lru[j - 1] ELSE lru[j]
      BY <1>1, <2>2, <3>1, Moved
    <3>. QED
      BY <2>2, <3>2
  <2>4. IsInjective(lru') /\ ToSet(lru') = ToSet(lru)
    <3>1. /\ Len(lru) \in 1..Len(lru) /\ lru'[1] = lru[Len(lru)]
          /\ \A j \in 2..Len(lru) : lru'[j] = IF j <= Len(lru) THEN lru[j - 1] ELSE lru[j]
      BY <1>2, <2>2, <2>3
    <3>. QED
      BY <1>1, <2>3, <3>1, MovedKeeps
  <2>5. TypeOK'
    <3>1. inUse' \subseteq Chunks /\ cached' = cached /\ current' = current
      BY <1>1, <1>3, <2>1 DEF CacheIInv, TypeOK
    <3>2. examined' \in Nat
      BY <1>1
    <3>3. UNCHANGED <<locks, pc, req, out, reads, faults>>
      BY <1>1
    <3>4. TypeOK
      BY DEF CacheIInv
    <3>. QED
      BY <2>3, <3>1, <3>2, <3>3, <3>4 DEF TypeOK
  <2>6. Counted'
    BY <1>4, <2>1 DEF CacheIInv, Counted
  <2>7. victim \in Held
    BY <1>10 DEF Holders, Held
  <2>8. inUse' \cup Held' = inUse \cup Held
    BY <1>5, <2>1, <2>7
  <2>9. \/ Bounded(Cardinality(cached) + 1)
        \/ \A i \in 1..Len(lru') : i <= examined' => lru'[i] \in inUse'
    <3>1. SUFFICES ASSUME \A i \in 1..Len(lru) : i <= examined => lru[i] \in inUse,
                          NEW i \in 1..Len(lru), i <= examined + 1
                   PROVE  lru'[i] \in inUse \cup {victim}
      BY <1>1, <1>7, <2>1, <2>3
    <3>2. CASE i = 1
      BY <2>3, <3>2
    <3>3. CASE i # 1
      <4>1. i \in 2..Len(lru) /\ i - 1 \in 1..Len(lru) /\ i - 1 <= examined
        BY <1>1, <1>2, <3>1, <3>3
      <4>. QED
        BY <2>3, <3>1, <4>1
    <3>. QED
      BY <3>2, <3>3
  <2>10. EvictInv'
    <3> SUFFICES ASSUME NEW e \in Threads, pc'[e] = "evict"
                 PROVE  /\ ChunkOf(e)' \notin cached'
                        /\ Cardinality(inUse \cup Held)' < Cardinality(Threads)'
                        /\ \/ Bounded(Cardinality(cached) + 1)'
                           \/ \A i \in 1..Len(lru') : i <= examined' => lru'[i] \in inUse'
      BY DEF EvictInv
    <3>1. e = t
      BY <1>8
    <3>. QED
      BY <1>4, <1>7, <2>1, <2>8, <2>9, <3>1 DEF Bounded
  <2>. QED
    BY <1>1, <1>6, <2>1, <2>4, <2>5, <2>6, <2>10 DEF CacheIInv, LruMatchesCache, Bounded
<1>. QED
  BY <1>9, <1>10

(* and when the loop ends, there is room, or few chunks are cached.        *)
LEMMA InsertStep ==
  ASSUME CacheIInv, ReadInv', NEW t \in Threads, Insert(t)
  PROVE  CacheIInv'
<1> DEFINE c == ChunkOf(t)
<1>1. /\ pc[t] = "evict" /\ ~Evicting(t) /\ pc' = [pc EXCEPT ![t] = "copy"]
      /\ cached' = cached \cup {c} /\ current' = current + ChunkLen(c)
      /\ lru' = <<c>> \o lru /\ locks' = NoThread
      /\ UNCHANGED <<examined, inUse, req, out, reads, faults>>
      /\ lru \in Seq(Chunks) /\ IsInjective(lru) /\ ToSet(lru) = cached
      /\ cached \subseteq Chunks /\ current = Size(cached) /\ examined \in Nat
      /\ pc \in [Threads -> Labels]
  BY DEF Insert, Goto, CacheIInv, TypeOK, LruMatchesCache, Counted
<1>2. c \in Chunks
  BY <1>1, InChunks DEF CacheIInv
<1>3. /\ c \notin cached
      /\ Cardinality(inUse \cup Held) < Cardinality(Threads)
      /\ \/ Bounded(Cardinality(cached) + 1)
         \/ \A i \in 1..Len(lru) : i <= examined => lru[i] \in inUse
  BY <1>1 DEF CacheIInv, EvictInv
<1>4. \A u \in Threads : ChunkOf(u)' = ChunkOf(u) /\ (u # t => pc'[u] = pc[u])
  BY <1>1 DEF ChunkOf, Pos
<1>5. lru' \in Seq(Chunks) /\ IsInjective(lru') /\ ToSet(lru') = cached'
  BY <1>1, <1>2, <1>3, Pushed
<1>6. cached' \subseteq Chunks /\ Size(cached') = ChunkLen(c) + Size(cached)
  <2>1. cached' \subseteq Chunks /\ c \in cached' /\ cached' \ {c} = cached
    BY <1>1, <1>2, <1>3
  <2>. QED
    BY <2>1, SizeOfMore
<1>7. current' = Size(cached') /\ current' \in Nat
  <2>1. ChunkLen(c) \in Int /\ Size(cached) \in Nat /\ Size(cached') \in Nat
    BY <1>1, <1>2, <1>6, ChunkLens, SizeType, SizesAssumption
  <2>. QED
    BY <1>1, <1>6, <2>1
<1>8. TypeOK'
  BY <1>1, <1>5, <1>6, <1>7 DEF CacheIInv, TypeOK, ReadInv
<1>9. Counted'
  <2>1. ASSUME NEW u \in Threads, pc'[u] \in {"touch", "copy"} PROVE ChunkOf(u)' \in cached'
    <3>1. CASE u = t
      BY <1>1, <1>4, <3>1
    <3>2. CASE u # t
      BY <1>1, <1>4, <2>1, <3>2 DEF CacheIInv, Counted
    <3>. QED
      BY <3>1, <3>2
  <2>. QED
    BY <1>7, <2>1 DEF Counted
<1>10. \A u \in Threads : pc'[u] # "evict"
  BY <1>1 DEF CacheIInv, LockInv
<1>11. LockInv' /\ EvictInv'
  <2>1. ASSUME NEW u \in Threads PROVE locks' # u
    BY <1>1, ThreadsAssumption
  <2>. QED
    BY <1>10, <2>1 DEF LockInv, EvictInv
<1>12. Bounded(Cardinality(cached'))
  <2>1. /\ Cardinality(cached) \in Nat /\ IsFiniteSet(cached) /\ Cardinality(cached') \in Nat
        /\ ChunkSize \in Nat \ {0} /\ MaxTotal \in Nat /\ Cardinality(Threads) \in Nat
    BY <1>1, <1>6, ChunksFinite, SizesAssumption, HeldFinite
  <2>2. Cardinality(cached') = Cardinality(cached) + 1
    BY <1>1, <1>3, <2>1, FS_AddElement
  <2>3. CASE Bounded(Cardinality(cached) + 1)
    BY <2>2, <2>3
  <2>4. CASE current + ChunkLen(c) <= MaxTotal
    <3>1. Size(cached') <= MaxTotal /\ Size(cached') \in Nat
          /\ Size(cached') > Cardinality(cached') * ChunkSize - ChunkSize
      BY <1>1, <1>6, <1>7, <2>4, SizeType
    <3>2. Cardinality(cached') * ChunkSize \in Nat
      BY <2>1
    <3>. QED
      BY <2>1, <3>1, <3>2 DEF Bounded
  <2>5. CASE /\ ~(examined < Len(lru))
             /\ \A i \in 1..Len(lru) : i <= examined => lru[i] \in inUse
    <3>1. Len(lru) \in Nat /\ \A i \in 1..Len(lru) : i <= examined
      BY <1>1, <2>5
    <3>2. cached \subseteq inUse
      BY <1>1, <2>5, <3>1 DEF ToSet
    <3>3. Cardinality(cached) < Cardinality(Threads)
      BY <1>3, <3>2, FewerHeld DEF CacheIInv
    <3>. QED
      BY <2>1, <2>2, <3>3 DEF Bounded
  <2>6. current + ChunkLen(c) <= MaxTotal \/ ~(examined < Len(lru))
    <3>1. current \in Nat /\ ChunkLen(c) \in Int
      BY <1>2, ChunkLens, SizesAssumption DEF CacheIInv, TypeOK
    <3>. QED
      BY <1>1, <2>1, <3>1 DEF Evicting
  <2>. QED
    BY <1>3, <2>3, <2>4, <2>5, <2>6
<1>. QED
  BY <1>5, <1>8, <1>9, <1>11, <1>12 DEF CacheIInv, LruMatchesCache, Bounded

LEMMA CacheStep == CacheIInv /\ [Next]_vars => CacheIInv'
<1> SUFFICES ASSUME CacheIInv, [Next]_vars PROVE CacheIInv'
  OBVIOUS
<1>1. ReadInv'
  BY ReadStep DEF CacheIInv
<1>2. ASSUME NEW t \in Threads, Read(t) \/ Step(t) PROVE CacheIInv'
  <2>1. CASE Install(t) /\ ChunkOf(t) \notin cached
    BY <1>1, <2>1, InstallStep
  <2>2. CASE Read(t) \/ Get(t) \/ Map(t) \/ Copy(t) \/ Fail(t) \/ (Install(t) /\ ChunkOf(t) \in cached)
    BY <1>1, <2>2, QuietSteps
  <2>. QED
    BY <1>1, <1>2, <2>1, <2>2, TouchStep, EvictStep, InsertStep DEF Step
<1>3. CASE UNCHANGED vars
  <2>1. /\ UNCHANGED <<cached, lru, current, locks, examined, inUse, pc, req, out, reads, faults>>
        /\ \A u \in Threads : ChunkOf(u)' = ChunkOf(u)
    BY <1>3 DEF vars, cache, ChunkOf, Pos
  <2>2. Held' = Held
    <3>1. Held' = {ChunkOf(u)' : u \in {v \in Threads : pc'[v] \in {"touch", "copy"}}}
      BY DEF Held
    <3>. QED
      BY <2>1, <3>1 DEF Held
  <2>3. TypeOK' /\ LruMatchesCache'
    BY <2>1 DEF CacheIInv, TypeOK, LruMatchesCache
  <2>4. Counted' /\ LockInv'
    BY <2>1 DEF CacheIInv, Counted, LockInv
  <2>5. EvictInv' /\ Bounded(Cardinality(cached))'
    BY <2>1, <2>2 DEF CacheIInv, EvictInv, Bounded
  <2>. QED
    BY <1>1, <2>3, <2>4, <2>5 DEF CacheIInv
<1>. QED
  BY <1>2, <1>3 DEF Next

LEMMA CacheInit == Init => CacheIInv
<1> SUFFICES ASSUME Init PROVE CacheIInv
  OBVIOUS
<1>1. lru = <<>> /\ cached = {} /\ ToSet(lru) = {} /\ IsInjective(lru) /\ lru \in Seq(Chunks)
  <2>1. <<>> \in Seq(Chunks) /\ DOMAIN <<>> = {}
    OBVIOUS
  <2>. QED
    BY <2>1 DEF Init, ToSet, IsInjective
<1>2. Size(cached) = 0 /\ Bounded(Cardinality(cached))
  <2>1. Cardinality(cached) = 0 /\ ChunkSize \in Nat \ {0} /\ MaxTotal \in Nat
        /\ Cardinality(Threads) \in Nat
    BY <1>1, FS_EmptySet, SizesAssumption, HeldFinite
  <2>. QED
    BY <1>1, <2>1 DEF Size, Lack, Bounded
<1>3. TypeOK /\ ReadInv
  BY <1>1 DEF Init, TypeOK, ReadInv, Labels
<1>4. LockInv /\ EvictInv /\ Counted
  BY <1>1, <1>2, ThreadsAssumption DEF Init, LockInv, EvictInv, Counted
<1>. QED
  BY <1>1, <1>2, <1>3, <1>4 DEF CacheIInv, LruMatchesCache

(* Under every interleaving of reads, evictions and failing mmaps the LRU  *)
(* queue lists the cached chunks, each once, current_bytes is the sum of   *)
(* their lengths, and no chunk that a query holds is given up.             *)
THEOREM CacheAgrees == Spec => []CacheInv
<1>1. CacheIInv => CacheInv
  <2> SUFFICES ASSUME CacheIInv PROVE CacheInv
    OBVIOUS
  <2>1. current = MapThenSumSet(ChunkLen, cached)
    BY SumIsSize DEF CacheIInv, TypeOK, Counted
  <2>. QED
    BY <2>1 DEF CacheIInv, CacheInv, Accounting, Counted
<1>. QED
  BY <1>1, CacheInit, CacheStep, PTL DEF Spec

(* However many chunks the file has, the cache holds no more than fit its  *)
(* budget, or no more than there are queries.                              *)
THEOREM BudgetIsBounded == Spec => []BudgetBound
<1>1. CacheIInv => BudgetBound
  BY DEF CacheIInv, BudgetBound, Bounded
<1>. QED
  BY <1>1, CacheInit, CacheStep, PTL DEF Spec
=============================================================================

------------------------------- MODULE IvfIndex -------------------------------
(***************************************************************************)
(* IvfRabitqIndex of src/src/index_ivf_rq.rs: vectors in partitions around *)
(* centroids, with the raw vectors, payloads, per-partition statistics and *)
(* SQ8 codes kept beside them.                                             *)
(*                                                                         *)
(* A vector is a point of a line, so the distance of two is the square of  *)
(* their difference, and the rotation, which keeps distances, is left out. *)
(* A partition lists ids (its RaBitQ codes only give the estimate of the   *)
(* module IvfSearch), and an SQ8 code is the point it was made from.  Ids  *)
(* count from 0 and sequences from 1, so raw[id + 1] is the vector id.     *)
(***************************************************************************)
EXTENDS Integers, Sequences, SequencesExt, FiniteSets

CONSTANTS
  Points,         \* vectors
  Payloads,       \* payloads: functions from fields to values
  Builds,         \* what build is called with: sequences of points
  MinPartitions,  \* 4 in default_num_partitions and new
  StringCap,      \* 64 in PartitionStats::update
  MaxVectors      \* bound: vectors in the index

ASSUME PointsAssumption == Points \subseteq Int /\ 0 \in Points
ASSUME PayloadsAssumption == \A p \in Payloads : \A f \in DOMAIN p : p[f].v \in Int
ASSUME BuildsAssumption == Builds \subseteq Seq(Points) \ {<<>>}
ASSUME SizesAssumption ==
  MinPartitions \in Nat \ {0} /\ StringCap \in Nat \ {0} /\ MaxVectors \in Nat

VARIABLES
  centroids,      \* a point per partition
  partitions,     \* the ids of each partition, oldest first
  raw,            \* the vectors, by id
  payloads,       \* their payloads, by id
  stats,          \* partition_stats
  sq8,            \* the codes of each partition
  idToPartition,  \* the partition of each id
  sq8Dirty,       \* sq8 is older than partitions
  nextId

vars == <<centroids, partitions, raw, payloads, stats, sq8, idToPartition,
          sq8Dirty, nextId>>

Pids == 1..Len(partitions)
Ids == 0..nextId - 1

Distance(x, y) == (x - y) * (x - y)

-----------------------------------------------------------------------------
(* Variant: the last one of several. *)
NearestPartitionLast(cs, x) ==
  CHOOSE i \in DOMAIN cs : \A j \in DOMAIN cs :
    /\ Distance(x, cs[i]) <= Distance(x, cs[j])
    /\ j > i => Distance(x, cs[i]) < Distance(x, cs[j])

(* The partition with the nearest centroid, the first one of several.      *)
NearestPartition(cs, x) ==
  CHOOSE i \in DOMAIN cs : \A j \in DOMAIN cs :
    /\ Distance(x, cs[i]) <= Distance(x, cs[j])
    /\ j < i => Distance(x, cs[i]) < Distance(x, cs[j])

(* default_num_partitions; its upper limit of 65536 is out of reach.       *)
NumPartitions(n) ==
  IF n < MinPartitions THEN MinPartitions
  ELSE LET root == CHOOSE r \in 0..n : r * r <= n /\ (r + 1) * (r + 1) > n
       IN  IF root < MinPartitions THEN MinPartitions ELSE root

(* What kmeans may answer: with no more vectors than centroids the vectors *)
(* themselves, else k points its random start and its means lead to.       *)
KMeans(vs, k) == IF k >= Len(vs) THEN {vs} ELSE [1..k -> Points]

(* Statistics of payloads: value ranges and string sets by field, where a  *)
(* field may have both.                                                    *)
NumFields(p) == {f \in DOMAIN p : p[f].kind = "num"}
StringFields(p) == {f \in DOMAIN p : p[f].kind = "str"}

NoStats == [ranges |-> [f \in {} |-> <<0, 0>>], strings |-> [f \in {} |-> {}]]

Widen(range, n) == <<IF n < range[1] THEN n ELSE range[1],
                     IF n > range[2] THEN n ELSE range[2]>>

UpdateStats(s, p) ==
  [ranges |->
     [f \in DOMAIN s.ranges \cup NumFields(p) |->
        IF f \notin NumFields(p) THEN s.ranges[f]
        ELSE IF f \notin DOMAIN s.ranges THEN <<p[f].v, p[f].v>>
        ELSE Widen(s.ranges[f], p[f].v)],
   strings |->
     [f \in DOMAIN s.strings \cup StringFields(p) |->
        IF f \notin StringFields(p) THEN s.strings[f]
        ELSE IF f \notin DOMAIN s.strings THEN {p[f].v}
        ELSE IF Cardinality(s.strings[f]) < StringCap THEN s.strings[f] \cup {p[f].v}
        ELSE s.strings[f]]]

(* Variant: the payloads are found by position instead of by id. *)
StatsOfPositions(ids, pl) ==
  LET told[n \in 0..Len(ids)] ==
        IF n = 0 THEN NoStats ELSE UpdateStats(told[n - 1], pl[n])
  IN  told[Len(ids)]

(* The statistics of a partition with these ids, in this order. *)
StatsOf(ids, pl) ==
  LET told[n \in 0..Len(ids)] ==
        IF n = 0 THEN NoStats ELSE UpdateStats(told[n - 1], pl[ids[n] + 1])
  IN  told[Len(ids)]

(* The ids whose place is i, oldest first. *)
PlacedAt(place, i) ==
  LET ids[n \in 0..Len(place)] ==
        IF n = 0 THEN <<>>
        ELSE IF place[n] = i THEN Append(ids[n - 1], n - 1) ELSE ids[n - 1]
  IN  ids[Len(place)]

CodesOf(ids, rw) == [i \in 1..Len(ids) |-> rw[ids[i] + 1]]

PartitionOf(ps, id) == CHOOSE i \in DOMAIN ps : Contains(ps[i], id)

-----------------------------------------------------------------------------
(* new: every centroid is the zero vector. *)
New ==
  /\ centroids = [i \in 1..MinPartitions |-> 0]
  /\ partitions = [i \in 1..MinPartitions |-> <<>>]
  /\ raw = <<>> /\ payloads = <<>>
  /\ stats = [i \in 1..MinPartitions |-> NoStats]
  /\ sq8 = [i \in 1..MinPartitions |-> <<>>]
  /\ idToPartition = <<>>
  /\ sq8Dirty = FALSE /\ nextId = 0

(* build: train the centroids, then assign the vectors one after the other.*)
Build(vs) ==
  LET k == NumPartitions(Len(vs)) IN
  /\ centroids \in KMeans(vs, k)
  /\ raw = vs
  /\ payloads = [i \in 1..Len(vs) |-> <<>>]
  /\ idToPartition = [i \in 1..Len(vs) |-> NearestPartition(centroids, vs[i])]
  /\ partitions = [i \in 1..k |-> PlacedAt(idToPartition, i)]
  /\ stats = [i \in 1..k |-> StatsOf(partitions[i], payloads)]
  /\ sq8 = [i \in 1..k |-> CodesOf(partitions[i], raw)]
  /\ sq8Dirty = FALSE /\ nextId = Len(vs)

(* Variant: the statistics of the first partition are the ones updated. *)
PutStatsFirst(pid, p) == stats' = [stats EXCEPT ![1] = UpdateStats(@, p)]

PutStats(pid, p) == stats' = [stats EXCEPT ![pid] = UpdateStats(@, p)]

(* add_with_payload; a vector of another dimension panics before any change*)
(* (the module Database follows what that does to a batch).                *)
Add(x, p) ==
  LET pid == NearestPartition(centroids, x) IN
  /\ nextId < MaxVectors
  /\ partitions' = [partitions EXCEPT ![pid] = Append(@, nextId)]
  /\ PutStats(pid, p)
  /\ raw' = Append(raw, x) /\ payloads' = Append(payloads, p)
  /\ sq8Dirty' = TRUE
  /\ idToPartition' = Append(idToPartition, pid)
  /\ nextId' = nextId + 1
  /\ UNCHANGED <<centroids, sq8>>

RebuildSq8 ==
  /\ sq8' = [i \in Pids |-> CodesOf(partitions[i], raw)]
  /\ sq8Dirty' = FALSE
  /\ UNCHANGED <<centroids, partitions, raw, payloads, stats, idToPartition, nextId>>

(* save_index and load_index: the file has the centroids, partitions, raw  *)
(* vectors, payloads and next_id, and from_parts makes the rest again; with*)
(* a centroid missing the load fails.                                      *)
Reload ==
  /\ Len(partitions) <= Len(centroids)
  /\ idToPartition' = [i \in 1..Len(raw) |-> PartitionOf(partitions, i - 1)]
  /\ stats' = [i \in Pids |-> StatsOf(partitions[i], payloads)]
  /\ sq8' = [i \in Pids |-> CodesOf(partitions[i], raw)]
  /\ sq8Dirty' = FALSE
  /\ UNCHANGED <<centroids, partitions, raw, payloads, nextId>>

-----------------------------------------------------------------------------
Init == New \/ \E vs \in Builds : Build(vs)

Next ==
  \/ \E x \in Points, p \in Payloads : Add(x, p)
  \/ RebuildSq8
  \/ Reload

Spec == Init /\ [][Next]_vars

-----------------------------------------------------------------------------
(* Every variable has its type. *)
TypeOK ==
  /\ centroids \in Seq(Points) /\ raw \in Seq(Points)
  /\ partitions \in Seq(Seq(Nat))
  /\ Len(payloads) = Len(raw)
  /\ Len(stats) = Len(partitions)
  /\ sq8 \in Seq(Seq(Points))
  /\ idToPartition \in Seq(Pids)
  /\ sq8Dirty \in BOOLEAN /\ nextId \in Nat

(* The arrays that are kept by id and the partitions agree: the ids are    *)
(* 0..next_id-1, each in exactly one partition, once, and that partition   *)
(* is the one id_to_partition names.                                       *)
IdsPlacedOnce ==
  /\ Len(raw) = nextId /\ Len(idToPartition) = nextId
  /\ \A i \in Pids : IsInjective(partitions[i]) /\ ToSet(partitions[i]) \subseteq Ids
  /\ \A id \in Ids, i \in Pids :
       Contains(partitions[i], id) <=> idToPartition[id + 1] = i

(* "从 payload 重新计算分区统计，保证 save/load 后下推语义一致": the          *)
(* statistics kept up to date by the inserts are those a load computes from*)
(* the payloads, so that saving and loading changes no filter's answer.    *)
StatsReproducible ==
  \A i \in Pids : stats[i] = StatsOf(partitions[i], payloads)

(* sq8_dirty tells the truth: while it is false each id's position in its  *)
(* partition is the position of the code made from its vector.             *)
Sq8Fresh ==
  ~sq8Dirty => \A i \in Pids : sq8[i] = CodesOf(partitions[i], raw)

(* What the inserts, rebuilds and loads keep true of the index. *)
IndexInv == TypeOK /\ IdsPlacedOnce /\ StatsReproducible /\ Sq8Fresh
=============================================================================

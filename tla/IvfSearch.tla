------------------------------ MODULE IvfSearch ------------------------------
(***************************************************************************)
(* Searching an IvfRabitqIndex: search of src/src/search.rs with its       *)
(* filter pushdown, routing, scan and refinement, flat_search, and the     *)
(* search of MmapIndex (src/src/mmap_index.rs) on the saved index.         *)
(*                                                                         *)
(* A search changes nothing, so it is an operator: the set of the id sets  *)
(* it may answer with.  There may be several, because the RaBitQ estimate  *)
(* may order the candidates in any way, threads may bring them in any      *)
(* order, and vectors may be equally far.                                  *)
(***************************************************************************)
EXTENDS IvfIndex, SqlFilter, FiniteSetsExt

CONSTANTS
  Pushdowns,    \* WHERE filters, as trees, put to the pushdown alone
  Filters,      \* and those whose searches are looked at
  Ks,           \* values of k
  RefineKs      \* values of refine_k

ASSUME LimitsAssumption == Ks \subseteq Nat \ {0} /\ RefineKs \subseteq Nat \ {0}
ASSUME FiltersAssumption == Pushdowns \subseteq Trees /\ Filters \subseteq Trees

-----------------------------------------------------------------------------
NoFilter == [op |-> "none"]

Passes(q, p) == q = NoFilter \/ Eval(q, p)

(* The vectors a filter lets through, wherever they are. *)
Matching(q) == {id \in Ids : Passes(q, payloads[id + 1])}

Far(x, id) == Distance(x, raw[id + 1])

(* The sets that a stable or unstable sort followed by truncate(k) may     *)
(* leave of S.                                                             *)
TopK(x, S, k) ==
  {T \in kSubset(Min({k, Cardinality(S)}), S) :
     \A t \in T, s \in S \ T : Far(x, t) <= Far(x, s)}

(* The partitions the pushdown leaves. *)
Eligible(q) == {i \in Pids : q = NoFilter \/ Match(q, stats[i])}

(* Variant: the partitions are chosen before the filter is looked at. *)
RoutesFirst(x, q, n) ==
  {R \cap Eligible(q) : R \in {T \in kSubset(Min({n, Len(partitions)}), Pids) :
     \A t \in T, i \in Pids \ T : Distance(x, centroids[t]) <= Distance(x, centroids[i])}}

(* The n of them with the nearest centroids.  Of equal centroids the sort  *)
(* keeps the order, of equally far ones rounding decides.                  *)
Routes(x, q, n) ==
  LET eligible == Eligible(q) IN
  {R \in kSubset(Min({n, Cardinality(eligible)}), eligible) :
     \A r \in R, i \in eligible \ R :
       /\ Distance(x, centroids[r]) <= Distance(x, centroids[i])
       /\ centroids[r] = centroids[i] => r < i}

(* nprobe = 0 asks for all partitions. *)
Probes(nprobe) ==
  IF nprobe = 0 THEN Len(partitions) ELSE Min({nprobe, Len(partitions)})

Scan(R, q) == {id \in Matching(q) : \E i \in R : Contains(partitions[i], id)}

(* Variant: refine_k also cuts a search of all partitions. *)
RefinedAlways(C, n, refineK) == Min({refineK, Cardinality(C)})

(* How many candidates are refined. *)
Refined(C, n, refineK) ==
  IF n = Len(partitions) THEN Cardinality(C) ELSE Min({refineK, Cardinality(C)})

(* A build from fewer vectors than partitions leaves partitions without a  *)
(* centroid; a search to which one of them is eligible indexes past the    *)
(* centroids and panics.                                                   *)
Routable(q) == Eligible(q) \subseteq DOMAIN centroids

(* search with refinement on the raw vectors. *)
Search(x, q, k, nprobe, refineK) ==
  LET n == Probes(nprobe)
      answers(C) == UNION {TopK(x, S, k) : S \in kSubset(Refined(C, n, refineK), C)}
  IN  UNION {answers(Scan(R, q)) : R \in IF Routable(q) THEN Routes(x, q, n) ELSE {}}

(* flat_search *)
FlatSearch(x, k) == TopK(x, Ids, k)

(* MmapIndex::search on the saved index, which has no filter and refines   *)
(* ten times k.                                                            *)
MmapSearch(x, k, nprobe) == Search(x, NoFilter, k, nprobe, 10 * k)

-----------------------------------------------------------------------------
(* The statistics tell all there is to tell of a partition: no string set  *)
(* of the filter's fields is full, and none of them has numbers beside     *)
(* strings.                                                                *)
TellsOf(s, f) ==
  f \in DOMAIN s.strings =>
    f \notin DOMAIN s.ranges /\ Cardinality(s.strings[f]) < StringCap

Describes(s, q) ==
  LET tells[t \in Trees] ==
        IF t.op \in {"and", "or"} THEN tells[t.left] /\ tells[t.right]
        ELSE TellsOf(s, t.field)
  IN  tells[q]

Described(q) == \A i \in Pids : Describes(stats[i], q)

(* "返回 false 表示“该分区不可能有满足条件的向量”" where the statistics      *)
(* describe the partition: pushdown skips no partition with a match.       *)
PushdownSound ==
  \A q \in Pushdowns : Described(q) =>
    \A id \in Matching(q) : Match(q, stats[idToPartition[id + 1]])

(* The same without that condition. *)
PushdownSafe ==
  \A q \in Pushdowns :
    \A id \in Matching(q) : Match(q, stats[idToPartition[id + 1]])

(* A search of all partitions with refinement is exact, with and without a *)
(* filter: it answers with k of the nearest vectors among those the filter *)
(* lets through, whatever the estimates and however small refine_k. So do  *)
(* the flat baseline and the search of the mapped file.  (A search that    *)
(* panics for want of a centroid answers nothing.)                         *)
ExhaustiveIsExact ==
  \A x \in Points, k \in Ks :
    /\ \A q \in {NoFilter} \cup {p \in Filters : Described(p)}, rk \in RefineKs :
         Routable(q) => Search(x, q, k, 0, rk) = TopK(x, Matching(q), k)
    /\ FlatSearch(x, k) = TopK(x, Matching(NoFilter), k)
    /\ Routable(NoFilter) => MmapSearch(x, k, 0) = FlatSearch(x, k)

(* Filtering before routing ("避免 IVF 路由把 nprobe 浪费在无关分区上"): one   *)
(* probe of a filtered search finds a match when every partition that the  *)
(* pushdown leaves has one.                                                *)
ProbeNotWasted ==
  \A x \in Points, q \in Filters, rk \in RefineKs :
    (/\ \A i \in Eligible(q) : \E id \in Matching(q) : Contains(partitions[i], id)
     /\ Eligible(q) # {}) =>
      {} \notin Search(x, q, 1, 1, rk)

(* A vector in the index is found with one probe at distance 0 when it has *)
(* one nearest centroid: inserts and queries route alike, also to equal    *)
(* centroids (all of a new index are the zero vector).                     *)
SelfFound ==
  \A id \in Ids :
    LET x == raw[id + 1]
        c == centroids[idToPartition[id + 1]]
    IN  (\A j \in DOMAIN centroids :
           centroids[j] # c => Distance(x, centroids[j]) # Distance(x, c)) =>
          \A T \in Search(x, NoFilter, 1, 1, nextId) : \E t \in T : Far(x, t) = 0

(* Saving and loading an index changes no answer. *)
ReloadKeepsAnswers ==
  [][Reload => \A x \in Points, q \in Filters, k \in Ks :
       Search(x, q, k, 1, nextId)' = Search(x, q, k, 1, nextId)]_vars
=============================================================================

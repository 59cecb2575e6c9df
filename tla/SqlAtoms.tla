------------------------------ MODULE SqlAtoms -------------------------------
(***************************************************************************)
(* The comparisons of a WHERE filter (src/src/sql.rs): what one of them    *)
(* says of a payload, and what it says of the statistics of a partition.   *)
(*                                                                         *)
(* A value is a record of its kind (num, str or bool) and an integer that  *)
(* orders it among the values of its kind.  Payloads and statistics are    *)
(* those of the module IvfIndex.  A comparison is [op, field, value], or   *)
(* [op |-> "in", field, values] with the set of the values listed.         *)
(***************************************************************************)
EXTENDS Integers, FiniteSets

(* value_partial_cmp gives an order only to values of one kind. *)
Comparable(p, f, v) == f \in DOMAIN p /\ p[f].kind = v.kind

Below(p, f, v) == Comparable(p, f, v) /\ p[f].v < v.v
Same(p, f, v) == Comparable(p, f, v) /\ p[f].v = v.v
Above(p, f, v) == Comparable(p, f, v) /\ p[f].v > v.v

EvalAtom(a, p) ==
  \/ a.op = "=" /\ Same(p, a.field, a.value)
  \/ a.op = "!=" /\ ~Same(p, a.field, a.value)
  \/ a.op = "<" /\ Below(p, a.field, a.value)
  \/ a.op = "<=" /\ (Below(p, a.field, a.value) \/ Same(p, a.field, a.value))
  \/ a.op = ">" /\ Above(p, a.field, a.value)
  \/ a.op = ">=" /\ (Above(p, a.field, a.value) \/ Same(p, a.field, a.value))
  \/ a.op = "in" /\ \E v \in a.values : Same(p, a.field, v)

-----------------------------------------------------------------------------
InRange(n, range) == range[1] <= n /\ n <= range[2]

(* A list of values against the statistics of a field: with a string set   *)
(* only strings count, else with a range only numbers.                     *)
MatchIn(f, values, s) ==
  IF f \in DOMAIN s.strings
  THEN \E v \in values : v.kind = "str" /\ v.v \in s.strings[f]
  ELSE f \in DOMAIN s.ranges =>
         \E v \in values : v.kind = "num" /\ InRange(v.v, s.ranges[f])

(* Variant: a minimum equal to the bound is taken for a contradiction. *)
MatchOrderStrict(op, n, range) ==
  CASE op = "="  -> InRange(n, range)
    [] op = "<"  -> range[1] < n
    [] op = "<=" -> range[1] < n
    [] op = ">"  -> range[2] > n
    [] op = ">=" -> range[2] >= n

(* A number against the range of a field. *)
MatchOrder(op, n, range) ==
  CASE op = "="  -> InRange(n, range)
    [] op = "<"  -> range[1] < n
    [] op = "<=" -> range[1] <= n
    [] op = ">"  -> range[2] > n
    [] op = ">=" -> range[2] >= n

(* Can a partition with these statistics hold a match? *)
MatchAtom(a, s) ==
  CASE a.op = "in" -> MatchIn(a.field, a.values, s)
    [] a.op = "!=" -> TRUE
    [] a.op \notin {"in", "!="} /\ a.value.kind = "num" ->
         a.field \in DOMAIN s.ranges => MatchOrder(a.op, a.value.v, s.ranges[a.field])
    [] a.op = "=" /\ a.value.kind = "str" ->
         a.field \in DOMAIN s.strings => a.value.v \in s.strings[a.field]
    [] OTHER -> TRUE
=============================================================================

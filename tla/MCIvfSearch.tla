----------------------------- MODULE MCIvfSearch -----------------------------
(* Values of the constants of IvfSearch for TLC: every comparison of a     *)
(* small set, and conjunctions and disjunctions of some of them.           *)
EXTENDS IvfSearch

MCPoints == {0, 1}

Num(n) == [kind |-> "num", v |-> n]
Str(n) == [kind |-> "str", v |-> n]
Bool(n) == [kind |-> "bool", v |-> n]

(* The first build leaves a partition without a centroid. *)
MCBuilds == {<<1>>, <<0, 1>>, <<1, 1>>, <<1, 0, 1>>}
MCStrings == {<<>>, [f |-> Str(1)], [f |-> Str(2)]}
MCSearchPayloads == {[f |-> Num(1)], [f |-> Num(2)], [f |-> Str(1)], [f |-> Str(2)]}

Cmp(op, v) == [op |-> op, field |-> "f", value |-> v]
In(vs) == [op |-> "in", field |-> "f", values |-> vs]

Atoms ==
  {Cmp(op, v) : op \in {"=", "!=", "<", "<=", ">", ">="},
                v \in {Num(1), Num(2), Str(1)}}
  \cup {In(vs) : vs \in {{Num(2), Num(3)}, {Str(1), Num(1)}, {Str(2)}}}
  \cup {Cmp("=", Bool(1))}

Some == {Cmp("<=", Num(1)), Cmp("!=", Num(2)), In({Str(1), Num(1)})}

(* For the pushdown: all comparisons, and trees of some. *)
MCFilters == Atoms
  \cup {[op |-> b, left |-> l, right |-> r] : b \in {"and", "or"}, l \in Some, r \in Some}

(* For the answers of searches. *)
MCSearchFilters ==
  {Cmp("<", Num(2)),
   [op |-> "or", left |-> Cmp(">=", Num(2)), right |-> Cmp("=", Str(1))]}

(* All of them, with their parts. *)
MCTrees == MCFilters \cup MCSearchFilters \cup {Cmp(">=", Num(2))}
MCHeight == [t \in MCTrees |-> IF t.op \in {"and", "or"} THEN 1 ELSE 0]
=============================================================================

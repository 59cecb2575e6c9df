------------------------------ MODULE SqlFilter ------------------------------
(***************************************************************************)
(* SqlPredicate::eval and can_partition_match (src/src/sql.rs) on trees of *)
(* comparisons: [op |-> "and" or "or", left, right].                       *)
(***************************************************************************)
EXTENDS SqlAtoms

CONSTANTS
  Trees,        \* WHERE filters, with the filters they are made of
  Height        \* how deep each is nested: a Box tree is finite

(* IN lists hold the scalars of expect_scalar. *)
ASSUME TreesAssumption ==
  /\ Height \in [Trees -> Nat]
  /\ \A t \in Trees :
       \/ /\ t.op \in {"and", "or"}
          /\ \A u \in {t.left, t.right} : u \in Trees /\ Height[u] < Height[t]
       \/ t.op = "in" /\ \A v \in t.values : v.kind \in {"num", "str"}
       \/ t.op \in {"=", "!=", "<", "<=", ">", ">="} /\ t.value.v \in Int

Eval(q, p) ==
  LET eval[t \in Trees] ==
        CASE t.op = "and" -> eval[t.left] /\ eval[t.right]
          [] t.op = "or"  -> eval[t.left] \/ eval[t.right]
          [] OTHER        -> EvalAtom(t, p)
  IN  eval[q]

(* can_partition_match *)
Match(q, s) ==
  LET match[t \in Trees] ==
        CASE t.op = "and" -> match[t.left] /\ match[t.right]
          [] t.op = "or"  -> match[t.left] \/ match[t.right]
          [] OTHER        -> MatchAtom(t, s)
  IN  match[q]
=============================================================================

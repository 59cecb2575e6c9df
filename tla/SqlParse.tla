------------------------------- MODULE SqlParse -------------------------------
(***************************************************************************)
(* The recursive descent Parser of src/src/sql.rs, from tokens to the      *)
(* trees of the module SqlFilter. A parser is an operator of the tokens    *)
(* and a position; it yields a tree and the position after it, or Fail,    *)
(* which `?` hands up to the top.                                          *)
(***************************************************************************)
EXTENDS Integers, Sequences, SequencesExt

CONSTANTS
  Alphabets     \* [pieces, max]: filters are put together from at most max of
                \* these pieces, which are sequences of tokens

(* A token is a record of its kind and, for the others than punctuation    *)
(* and keywords, its value. TRUE and FALSE are the numbers 1 and 0.        *)
Symbol(kind) == [kind |-> kind]
Ident(f) == [kind |-> "ident", v |-> f]
Number(n) == [kind |-> "num", v |-> n]
String(n) == [kind |-> "str", v |-> n]

Operators == {"=", "!=", "<", "<=", ">", ">="}

ASSUME AlphabetsAssumption ==
  \A a \in Alphabets :
    /\ a.max \in Nat
    /\ \A p \in a.pieces :
         p \in Seq(ToSet(p)) /\ \A i \in DOMAIN p : "kind" \in DOMAIN p[i]

Fail == [ok |-> FALSE]
Got(tree, pos) == [ok |-> TRUE, tree |-> tree, pos |-> pos]

(* peek *)
Kind(t, i) == IF i \in DOMAIN t THEN t[i].kind ELSE "end"

(* expect_scalar accepts these, expect_ident an identifier, *)
IsScalar(t, i) == Kind(t, i) \in {"num", "str"}

(* and a comparison is a leaf of the tree. *)
Leaf(op, f, value) == [op |-> op, field |-> f, value |-> value]
InList(f, values) == [op |-> "in", field |-> f, values |-> values]
Node(op, l, r) == [op |-> op, left |-> l, right |-> r]

(* expect(')') after something that was parsed. *)
Closing(t, inner) ==
  IF inner.ok /\ Kind(t, inner.pos) = ")" THEN Got(inner.tree, inner.pos + 1) ELSE Fail

(* The values of an IN list, from the first at i: one after each comma. *)
ParseList(t, i) ==
  LET n == Min({m \in 0..Len(t) : ~(IsScalar(t, i + 2 * m) /\ Kind(t, i + 2 * m + 1) = ",")})
  IN  IF IsScalar(t, i + 2 * n)
      THEN Got({t[i + 2 * m] : m \in 0..n}, i + 2 * n + 1)
      ELSE Fail

ParseIn(t, i) ==
  LET list == Closing(t, ParseList(t, i + 3)) IN
  IF Kind(t, i + 2) = "(" /\ list.ok THEN Got(InList(t[i].v, list.tree), list.pos) ELSE Fail

(* A turn of the loop of parse_or or parse_and: after `or` or `and` comes  *)
(* another operand, which is joined to what is on its left.                *)
Turn(t, op, operand, left) ==
  IF left.ok /\ Kind(t, left.pos) = op
  THEN LET right == operand[left.pos + 1] IN
       IF right.ok THEN Got(Node(op, left.tree, right.tree), right.pos) ELSE Fail
  ELSE left

(* Each turn reads a token, so the loop is over after Len(t) of them. *)
Loop(t, op, operand, i) ==
  LET loop[n \in 0..Len(t)] ==
        IF n = 0 THEN operand[i] ELSE Turn(t, op, operand, loop[n - 1])
  IN  loop[Len(t)]

Positions(t) == 1..(Len(t) + 1)

(* parse_and and parse_or, from what parse_comparison yields at the        *)
(* positions from i on.                                                    *)
ParseAnd(t, comparison, i) == Loop(t, "and", comparison, i)

(* Variant: AND and OR bind alike, from the left. *)
ParseOrLoose(t, comparison, i) ==
  LET right[j \in Positions(t)] == Loop(t, "or", comparison, j)
  IN  Loop(t, "and", right, i)

ParseOr(t, comparison, i) ==
  LET operand == [j \in Positions(t) |-> ParseAnd(t, comparison, j)]
  IN  Loop(t, "or", operand, i)

(* parse_comparison at each position; one in parentheses looks only at     *)
(* positions behind its own.                                               *)
ParseComparison(t) ==
  LET comparison[i \in Positions(t)] ==
        CASE Kind(t, i) = "(" -> Closing(t, ParseOr(t, comparison, i + 1))
          [] Kind(t, i) = "ident" /\ Kind(t, i + 1) = "in" -> ParseIn(t, i)
          [] Kind(t, i) = "ident" /\ Kind(t, i + 1) \in Operators /\ IsScalar(t, i + 2) ->
               Got(Leaf(t[i + 1].kind, t[i].v, t[i + 2]), i + 3)
          [] OTHER -> Fail
  IN  comparison

(* Parser::parse: nothing may follow the expression. *)
Parse(t) ==
  LET expr == ParseOr(t, ParseComparison(t), 1) IN
  IF expr.ok /\ expr.pos = Len(t) + 1 THEN expr ELSE Fail

-----------------------------------------------------------------------------
VARIABLES alphabet, tokens, pieces, parsed

parseVars == <<alphabet, tokens, pieces, parsed>>

ParseInit ==
  /\ alphabet \in Alphabets
  /\ tokens = <<>> /\ pieces = 0 /\ parsed = Parse(<<>>)

(* parse_sql_filter on every sequence of pieces. *)
ParseSqlFilter ==
  /\ pieces < alphabet.max /\ pieces' = pieces + 1
  /\ \E p \in alphabet.pieces : tokens' = tokens \o p
  /\ parsed' = Parse(tokens')
  /\ UNCHANGED alphabet

ParseSpec == ParseInit /\ [][ParseSqlFilter]_parseVars

-----------------------------------------------------------------------------
(* The grammar, as a definition of its own, of the tokens from i to before *)
(* j: a filter is split at its last OR outside of parentheses, else at its *)
(* last AND, else it is a filter in parentheses or a comparison.           *)

Depth(t, i, k) ==
  Cardinality({m \in i..(k - 1) : Kind(t, m) = "("})
    - Cardinality({m \in i..(k - 1) : Kind(t, m) = ")"})

Outside(t, op, i, j) == {k \in i..(j - 1) : Kind(t, k) = op /\ Depth(t, i, k) = 0}

IsLeaf(t, i, j) ==
  /\ j = i + 3 /\ Kind(t, i) = "ident" /\ Kind(t, i + 1) \in Operators
  /\ IsScalar(t, i + 2)

IsList(t, i, j) ==
  \E n \in 0..Len(t) :
    /\ j = i + 2 * n + 5
    /\ Kind(t, i) = "ident" /\ Kind(t, i + 1) = "in" /\ Kind(t, i + 2) = "("
    /\ \A m \in 0..n : IsScalar(t, i + 3 + 2 * m)
    /\ \A m \in 0..(n - 1) : Kind(t, i + 4 + 2 * m) = ","
    /\ Kind(t, j - 1) = ")"

NoTree == [op |-> "none"]

Split(op, l, r) == IF NoTree \in {l, r} THEN NoTree ELSE Node(op, l, r)

Ranges(t) == {r \in Positions(t) \X Positions(t) : r[1] <= r[2]}

Grammar(t) ==
  LET tree[r \in Ranges(t)] ==
        LET i == r[1]  j == r[2]
            at(op) == Max(Outside(t, op, i, j))
            split(op) == Split(op, tree[<<i, at(op)>>], tree[<<at(op) + 1, j>>])
        IN  IF Outside(t, "or", i, j) # {} THEN split("or")
            ELSE IF Outside(t, "and", i, j) # {} THEN split("and")
            ELSE IF IsLeaf(t, i, j) THEN Leaf(t[i + 1].kind, t[i].v, t[i + 2])
            ELSE IF IsList(t, i, j)
            THEN InList(t[i].v, {t[k] : k \in {m \in i..(j - 1) : IsScalar(t, m)}})
            ELSE IF i + 2 < j /\ Kind(t, i) = "(" /\ Kind(t, j - 1) = ")"
            THEN tree[<<i + 1, j - 1>>]
            ELSE NoTree
  IN  tree

(* The parser accepts the filters of the grammar, no others, and gives     *)
(* each the grammar's tree: AND before OR, both from the left, parentheses *)
(* first, nothing after the end.                                           *)
ParsesGrammar ==
  (IF parsed.ok THEN parsed.tree ELSE NoTree) = Grammar(tokens)[<<1, Len(tokens) + 1>>]
=============================================================================

------------------------------ MODULE MCParsers ------------------------------
(* The parsers of what clients send, one of them in each behaviour.        *)
(* SqlParse gets every sequence of single tokens, and longer filters that  *)
(* are put together from whole comparisons. NngPayload gets words of 3     *)
(* bits and a usize of 6, which have the ratio of u32 and u64: the product *)
(* of two words and of 4 may overflow a usize.                             *)
EXTENDS SqlParse, NngPayload

Tokens ==
  {<<Ident("f")>>, <<Number(1)>>, <<String(1)>>}
    \cup {<<Symbol(k)>> : k \in {"=", "in", "(", ")", ",", "and", "or"}}

One == <<Ident("f"), Symbol("="), Number(1)>>
Two == <<Ident("g"), Symbol("<="), Number(2)>>
List == <<Ident("f"), Symbol("in"), Symbol("("), Number(1), Symbol(","), String(2), Symbol(")")>>

Comparisons == {One, Two, List} \cup {<<Symbol(k)>> : k \in {"and", "or", "(", ")"}}

MCAlphabets == {[pieces |-> Tokens, max |-> 5], [pieces |-> Comparisons, max |-> 7]}

ParsersInit == ParseInit /\ PayloadInit

(* The parser of filters does no arithmetic, so one build will do for it.  *)
ParsersNext ==
  \/ /\ command = "none" /\ profile = "release"
     /\ ParseSqlFilter /\ UNCHANGED payloadVars
  \/ pieces = 0 /\ PayloadNext /\ UNCHANGED parseVars

ParsersSpec == ParsersInit /\ [][ParsersNext]_<<parseVars, payloadVars>>
=============================================================================

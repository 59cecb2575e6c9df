--------------------------- MODULE MCCliProcesses ---------------------------
(* CliProcesses with short commands. *)
EXTENDS CliProcesses, TLC

CONSTANTS p1, p2, v1, v2

C(name, vs) == [name |-> name, vs |-> vs]

(* A batch that is stored, one that panics, one that does not parse.       *)
MCCommands ==
  {C("create", <<>>), C("insert", <<v1>>), C("batch_insert", <<v2, v1>>),
   C("batch_insert", <<v2, Wrong>>), C("insert", Malformed),
   C("search", <<v1>>), C("compact", <<>>)}
(* Which process runs which command makes no difference. *)
Symmetry == Permutations(Procs)
=============================================================================

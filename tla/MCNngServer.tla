---------------------------- MODULE MCNngServer -----------------------------
(* NngServer with clients as model values and a handful of frames.         *)
EXTENDS NngServer

CONSTANTS c1, c2, c3, v1, v2

F(cmd, vs) == [cmd |-> cmd, vs |-> vs]

(* An import that fails after its first vector, and what could see it. *)
AddingFrames == {F("insert", <<v1>>), F("import", <<v2, v2>>), F("import", <<v2, Wrong>>)}
SeeingFrames == {F("batch", <<v1, v2>>), F("export", <<>>)}
SharedFrames == AddingFrames \cup SeeingFrames

(* Frames that end a connection, that reach the index, and that panic there. *)
WireFrames == {F("length", <<>>), F("insert", <<v1>>), F("insert", <<Wrong>>)}

MCFrames == SharedFrames \cup WireFrames

(* Two clients at once on one index; three one after the other on the one  *)
(* descriptor there is; two, one of which ends the process by its panic.   *)
MCWorkloads ==
  {[clients |-> {c1, c2}, fds |-> {1, 2}, frames |-> SharedFrames,
    builds |-> {"unwind"}, each |-> 2, all |-> 3, leave |-> FALSE],
   [clients |-> {c1, c2, c3}, fds |-> {1}, frames |-> WireFrames,
    builds |-> {"unwind"}, each |-> 1, all |-> 2, leave |-> TRUE],
   [clients |-> {c1, c2}, fds |-> {1}, frames |-> WireFrames,
    builds |-> {"abort"}, each |-> 1, all |-> 2, leave |-> TRUE]}
=============================================================================

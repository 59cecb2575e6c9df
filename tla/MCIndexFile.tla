----------------------------- MODULE MCIndexFile -----------------------------
(* Indexes of 0, 2 and 3 vectors in two partitions for TLC.                *)
EXTENDS IndexFile

Saved(ps, raw, pl) ==
  [rotation |-> "r", centroids |-> <<0, 1>>, partitions |-> ps, raw |-> raw,
   payloads |-> pl, nextId |-> Len(raw)]

MCIndexes == {Saved(<<<<>>, <<>>>>, <<>>, <<>>),
              Saved(<<<<0, 1>>, <<>>>>, <<0, 0>>, <<"a", "b">>),
              Saved(<<<<0>>, <<1>>>>, <<0, 1>>, <<"b", "a">>),
              Saved(<<<<1>>, <<0, 2>>>>, <<1, 0, 1>>, <<"c", "a", "b">>)}
=============================================================================

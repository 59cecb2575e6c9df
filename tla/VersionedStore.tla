--------------------------- MODULE VersionedStore ---------------------------
(***************************************************************************)
(* What an embedded vdb database promises its callers, with no threads,    *)
(* locks or files.  A database is a history of committed snapshots (the    *)
(* "time travel" of src/src/vdb.rs), each an append-only list of vectors   *)
(* whose positions are the vectors' ids, and a live list that searches     *)
(* look at.  The live list may run ahead of the last snapshot and falls    *)
(* back to it when the process restarts; what was acknowledged is in the   *)
(* last snapshot and stays there.                                          *)
(***************************************************************************)
EXTENDS Naturals, Sequences

CONSTANT Vectors    \* the vectors of the right dimension

VARIABLES
  history,    \* the committed snapshots, oldest first; <<>> before creation
  live,       \* the vectors a search can return, in id order
  acked       \* the inserts answered with Ok: [first, batch]

storeVars == <<history, live, acked>>

(* The snapshot that opening the database loads. *)
Current == IF history = <<>> THEN <<>> ELSE history[Len(history)]

(* The batch b occupies the ids first, first + 1, ... of the list s. *)
Occupies(first, b, s) ==
  /\ first + Len(b) <= Len(s)
  /\ \A i \in 1..Len(b) : s[first + i] = b[i]

-----------------------------------------------------------------------------
Init ==
  /\ history = <<>>
  /\ live = <<>>
  /\ acked = {}

Create ==
  /\ history = <<>>
  /\ history' = << <<>> >>
  /\ UNCHANGED <<live, acked>>

(* One vector becomes searchable. *)
Add ==
  /\ history # <<>>
  /\ \E v \in Vectors : live' = Append(live, v)
  /\ UNCHANGED <<history, acked>>

(* The whole live list becomes the newest snapshot, atomically. *)
Commit ==
  /\ history # <<>>
  /\ history' = Append(history, live)
  /\ UNCHANGED <<live, acked>>

(* Only what the newest snapshot holds may be acknowledged. *)
Acknowledge ==
  /\ \E first \in 0..Len(Current), n \in 0..Len(Current) :
        /\ first + n <= Len(Current)
        /\ acked' = acked \cup {[first |-> first,
                                 batch |-> SubSeq(Current, first + 1, first + n)]}
  /\ UNCHANGED <<history, live>>

(* The process goes away and what was not committed with it. *)
Restart ==
  /\ live' = Current
  /\ UNCHANGED <<history, acked>>

StoreNext == Create \/ Add \/ Commit \/ Acknowledge \/ Restart

StoreSpec == Init /\ [][StoreNext]_storeVars
=============================================================================

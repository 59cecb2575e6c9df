----------------------------- MODULE DatabaseInv -----------------------------
(***************************************************************************)
(* The inductive invariant of Database: what each label of a thread says   *)
(* about the locks it holds, the manifest and the directory.               *)
(***************************************************************************)
EXTENDS Database

HoldsManifest == {"save_read", "save_create", "save_data", "tmp_create",
                  "tmp_data", "rename", "bump", "compact_remove"}
HoldsWrite == HoldsManifest \cup {"index_write", "add", "save_manifest",
                                  "compact_manifest"}
HoldsIndexRead == {"save_create", "save_data", "search_scan", "stats_manifest"}

(* A thread's label tells the locks it holds, and nobody else holds them.  *)
LockInv ==
  \A t \in Threads :
    /\ writeLock = t <=> pc[t] \in HoldsWrite
    /\ manifestLock = t <=> pc[t] \in HoldsManifest
    /\ indexWriter = t <=> pc[t] = "add"
    /\ t \in indexReaders <=> pc[t] \in HoldsIndexRead

(* No thread runs in a process that is not up, and its index is empty.     *)
ProcInv ==
  /\ proc # "up" => /\ \A t \in Threads : pc[t] = "idle"
                    /\ index = <<>> /\ manifest = 0
  /\ proc = "up" => history # <<>>
  /\ proc \in CreateLabels => history = <<>>

(* What create has written at each of its steps. *)
CreateInv ==
  /\ proc \in {"tmp_create", "tmp_data", "rename"} =>
       0 \in DOMAIN files /\ files[0] = Whole(index)
  /\ proc = "rename" => tmpFile = WholeManifest(0)

(* The in-memory manifest is one behind the disk between rename and bump.  *)
VersionInv ==
  /\ \A t \in Threads : pc[t] = "bump" => manifest + 2 = Len(history)
  /\ proc = "up" /\ (\A t \in Threads : pc[t] # "bump") =>
       manifest + 1 = Len(history)

(* What the insert that is saving has written at each of its steps.        *)
SaveInv ==
  \A t \in Threads :
    /\ pc[t] \in {"tmp_create", "tmp_data", "rename"} =>
         /\ manifest + 1 \in DOMAIN files
         /\ files[manifest + 1] = Whole(index)
    /\ pc[t] = "rename" => tmpFile = WholeManifest(manifest + 1)

(* The invariant that is inductive: an operation that writes holds both    *)
(* write_lock and the manifest mutex, so what it wrote is still there when *)
(* the rename makes it the committed version.                              *)
DiskInv ==
  TypeOK /\ LockInv /\ ProcInv /\ CreateInv /\ VersionInv /\ SaveInv /\ Recoverable

(* The rest is about what is in the index and who was told so.             *)
Saving == {"save_manifest", "save_read", "save_create", "save_data", "tmp_create",
           "tmp_data", "rename", "bump"}

(* The first n vectors of a batch occupy the ids from first on in s.       *)
Holds(n, batch, id, s) ==
  /\ id + n <= Len(s)
  /\ \A i \in 1..n : s[id + i] = batch[i]

Prefix(s, u) == Holds(Len(s), s, 0, u)

(* A thread's label tells how much of its batch it has added.              *)
CallInv ==
  \A t \in Threads :
    /\ pc[t] \notin Saving \cup {"add", "panicked"} => call[t].added = 0
    /\ pc[t] = "add" => call[t].added <= Len(call[t].batch)
    /\ pc[t] \in Saving => call[t].added = Len(call[t].batch)

(* That part is in the index where the caller will be told. It is newer    *)
(* than the last snapshot until the rename, than all that was acknowledged,*)
(* and, while it grows, at the end of the index.                           *)
Place(t) ==
  LET c == call[t] IN
  /\ Holds(c.added, c.batch, c.first, index)
  /\ pc[t] = "bump" => Snapshot = index
  /\ c.batch # <<>> =>
       /\ pc[t] # "bump" => Len(Snapshot) <= c.first
       /\ pc[t] = "add" => Len(index) = c.first + c.added
       /\ \A a \in acked : a.first + Len(a.batch) <= c.first

PlaceInv == \A t \in Threads : pc[t] \in Saving \cup {"add"} => Place(t)

(* The index in memory only runs ahead of the last snapshot.               *)
PrefixInv == proc = "up" => Prefix(Snapshot, index)

(* A poisoned lock is free for ever; a writer is alone; and the locks of a *)
(* thread that panicked in the middle of its batch are poisoned.           *)
PoisonInv ==
  /\ "write" \in poisoned => writeLock = NoThread
  /\ "index" \in poisoned => indexWriter = NoThread /\ indexReaders = {}
  /\ indexWriter # NoThread => indexReaders = {}
  /\ \A t \in Threads :
       pc[t] = "panicked" /\ call[t].added \in 1..Len(call[t].batch) - 1 =>
         /\ {"write", "index"} \subseteq poisoned
         /\ Len(Snapshot) <= call[t].first

AckInv == CallInv /\ PlaceInv /\ PrefixInv /\ PoisonInv /\ AckedDurable

(* A file of a committed version that is still there holds its snapshot,   *)
(* and a view only ever looks for the file of a committed version.         *)
ViewInv ==
  /\ \A v \in DOMAIN files : v < Len(history) => files[v] = Whole(history[v + 1])
  /\ \A r \in Readers :
       /\ view[r].status # "corrupt"
       /\ view[r].status # "closed" => view[r].version < Len(history)
       /\ view[r].status = "open" => view[r].data = history[view[r].version + 1]
=============================================================================

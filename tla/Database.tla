------------------------------- MODULE Database -------------------------------
(***************************************************************************)
(* Database of src/src/vdb.rs: one process that holds an index in memory   *)
(* behind a RwLock, saves it whole into index-<version>.vdb at every       *)
(* write, and points manifest.json at the newest file by a rename.         *)
(*                                                                         *)
(* The threads of the process interleave at every lock and at every file   *)
(* operation.  The process may die anywhere (what was written stays in the *)
(* page cache, so the disk keeps it), a file operation may fail, and       *)
(* read-only views (MmapDatabase) open the directory from outside.         *)
(*                                                                         *)
(* The names of the pc labels follow the calls of the code:                *)
(*   insert   write_lock, index_write, add, save_manifest, save_read,      *)
(*            save_create, save_data, tmp_create, tmp_data, rename, bump   *)
(*   compact  compact_lock, compact_manifest, compact_remove               *)
(*   search   search_read, search_scan                                     *)
(*   stats    stats_read, stats_manifest                                   *)
(***************************************************************************)
EXTENDS Naturals, Sequences

CONSTANTS
  Threads,      \* threads that share the Database
  Readers,      \* read-only views, each opens the directory once
  NoThread,     \* the owner of a free lock
  Vectors,      \* vectors of the index's dimension
  Malformed,    \* a vector of another dimension
  Batches,      \* the batches a caller may insert; a single insert is one vector
  MaxCalls,     \* bound: calls made on the Database over a behaviour
  MaxFaults,    \* bound: file operations that fail
  MaxCrashes    \* bound: deaths of the process

ASSUME NoThreadAssumption == NoThread \notin Threads
ASSUME MalformedAssumption == Malformed \notin Vectors
ASSUME BatchesAssumption == Batches \subseteq Seq(Vectors \cup {Malformed})
ASSUME BoundsAssumption ==
  MaxCalls \in Nat /\ MaxFaults \in Nat /\ MaxCrashes \in Nat

VARIABLES
  \* The directory.
  files,          \* version -> what index-<version>.vdb holds
  manifestFile,   \* manifest.json
  tmpFile,        \* manifest.json.tmp
  \* The process.
  proc,           \* "up", "down", or the step of Database::create it is at
  index,          \* the vectors of the in-memory index, in id order
  manifest,       \* the version in the in-memory Manifest
  writeLock,      \* the thread that holds write_lock
  manifestLock,   \* the thread that holds the manifest mutex
  indexWriter,    \* the thread that holds index.write()
  indexReaders,   \* the threads that hold index.read()
  poisoned,       \* the locks a panicking thread was holding
  \* Its threads: where each is, and the insert it is making.
  pc, call,
  \* The read-only views.
  view,
  \* What happened: the committed snapshots and the acknowledged inserts.
  history, acked,
  \* How much of each bound is used.
  calls, faults, crashes

dir == <<files, manifestFile, tmpFile>>
locks == <<writeLock, manifestLock, indexWriter, indexReaders, poisoned>>
threads == <<pc, call>>
ghosts == <<history, acked>>
budget == <<calls, faults, crashes>>
vars == <<dir, proc, index, manifest, locks, threads, view, ghosts, budget>>

-----------------------------------------------------------------------------
(* Files.  A file that was truncated and not yet rewritten to its end is   *)
(* torn: loading it fails, whatever part of it was written.                *)

Torn == [status |-> "torn", data |-> <<>>]
Whole(d) == [status |-> "whole", data |-> d]
NoManifest == [status |-> "absent", version |-> 0]
TornManifest == [status |-> "torn", version |-> 0]
WholeManifest(v) == [status |-> "whole", version |-> v]

CreateLabels == {"create_data", "tmp_create", "tmp_data", "rename"}
InsertLabels == {"write_lock", "index_write", "add", "save_manifest",
                 "save_read", "save_create", "save_data", "tmp_create",
                 "tmp_data", "rename", "bump"}
OtherLabels == {"compact_lock", "compact_manifest", "compact_remove",
                "search_read", "search_scan", "stats_read", "stats_manifest"}
Labels == InsertLabels \cup OtherLabels \cup {"idle", "panicked"}

PutFile(v, f) == [x \in DOMAIN files \cup {v} |-> IF x = v THEN f ELSE files[x]]

TruncateIndex(v) ==                             \* File::create
  /\ files' = PutFile(v, Torn)
  /\ UNCHANGED <<manifestFile, tmpFile>>

FillIndex(v) ==                                 \* the rest of save_index
  /\ files' = PutFile(v, Whole(index))
  /\ UNCHANGED <<manifestFile, tmpFile>>

(* Variant: manifest.json is written in place, without the temporary file. *)
TruncateManifest ==
  /\ manifestFile' = TornManifest
  /\ UNCHANGED <<files, tmpFile>>

TruncateTmp ==
  /\ tmpFile' = TornManifest
  /\ UNCHANGED <<files, manifestFile>>

FillTmp(v) ==
  /\ tmpFile' = WholeManifest(v)
  /\ UNCHANGED <<files, manifestFile>>

(* The rename is what commits a version. *)
RenameTmp ==
  /\ manifestFile' = tmpFile
  /\ tmpFile' = NoManifest
  /\ history' = Append(history, index)
  /\ UNCHANGED <<files, acked>>

-----------------------------------------------------------------------------
(* Locks.  RwLock prefers writers: a thread that waits for index.write()   *)
(* keeps new readers out.  A thread that panics drops the guards it holds, *)
(* which poisons the mutexes and the RwLock it holds for writing; whoever  *)
(* takes a poisoned lock next panics on its unwrap().                      *)

Goto(t, label) == pc' = [pc EXCEPT ![t] = label]

At(t, label) == proc = "up" /\ pc[t] = label

Drop(lock, t) == IF lock = t THEN NoThread ELSE lock

DropAll(t) ==
  /\ writeLock' = Drop(writeLock, t)
  /\ manifestLock' = Drop(manifestLock, t)
  /\ indexWriter' = Drop(indexWriter, t)
  /\ indexReaders' = indexReaders \ {t}

NoCall == [batch |-> <<>>, added |-> 0, first |-> 0]

(* The call ends, with a result or an error. *)
Return(t) ==
  /\ Goto(t, "idle")
  /\ call' = [call EXCEPT ![t] = NoCall]
  /\ DropAll(t)
  /\ UNCHANGED poisoned

Owner == [write |-> writeLock, manifest |-> manifestLock, index |-> indexWriter]

(* Variant: a lock that a panicking thread held is usable again. *)
PanicUnpoisoned(t) ==
  /\ Goto(t, "panicked")
  /\ DropAll(t)
  /\ UNCHANGED poisoned

Panic(t) ==
  /\ Goto(t, "panicked")
  /\ DropAll(t)
  /\ poisoned' = poisoned \cup {l \in DOMAIN Owner : Owner[l] = t}

WriterWaiting == \E u \in Threads : pc[u] = "index_write"

(* From label `from`, take write_lock and go on to `to`. *)
AcquireWriteLock(t, from, to) ==
  /\ At(t, from)
  /\ writeLock = NoThread
  /\ IF "write" \in poisoned
     THEN Panic(t)
     ELSE /\ writeLock' = t
          /\ Goto(t, to)
          /\ UNCHANGED <<manifestLock, indexWriter, indexReaders, poisoned>>

AcquireManifest(t, from, to) ==
  /\ At(t, from)
  /\ manifestLock = NoThread
  /\ IF "manifest" \in poisoned
     THEN Panic(t)
     ELSE /\ manifestLock' = t
          /\ Goto(t, to)
          /\ UNCHANGED <<writeLock, indexWriter, indexReaders, poisoned>>

AcquireIndexRead(t, from, to) ==
  /\ At(t, from)
  /\ indexWriter = NoThread
  /\ ~WriterWaiting
  /\ IF "index" \in poisoned
     THEN Panic(t)
     ELSE /\ indexReaders' = indexReaders \cup {t}
          /\ Goto(t, to)
          /\ UNCHANGED <<writeLock, manifestLock, indexWriter, poisoned>>

-----------------------------------------------------------------------------
(* insert_with_payload and batch_insert_with_payload.                      *)

CallInsert(t) ==
  /\ At(t, "idle") /\ calls < MaxCalls
  /\ \E b \in Batches : call' = [call EXCEPT ![t].batch = b]
  /\ Goto(t, "write_lock")
  /\ calls' = calls + 1
  /\ UNCHANGED <<dir, proc, index, manifest, locks, view, ghosts, faults, crashes>>

(* Variant: the insert does not take write_lock. *)
LockWriteSkipped(t) ==
  /\ At(t, "write_lock")
  /\ Goto(t, "index_write")
  /\ UNCHANGED <<dir, proc, index, manifest, locks, call, view, ghosts, budget>>

LockWrite(t) ==
  /\ AcquireWriteLock(t, "write_lock", "index_write")
  /\ UNCHANGED <<dir, proc, index, manifest, call, view, ghosts, budget>>

(* Variant: the id is read after next_id was advanced. *)
LockIndexWriteLateId(t) ==
  /\ At(t, "index_write")
  /\ indexWriter = NoThread /\ indexReaders = {}
  /\ indexWriter' = t
  /\ call' = [call EXCEPT ![t].first = Len(index) + 1]
  /\ Goto(t, "add")
  /\ UNCHANGED <<dir, proc, index, manifest, writeLock, manifestLock, indexReaders,
                 poisoned, view, ghosts, budget>>

LockIndexWrite(t) ==
  /\ At(t, "index_write")
  /\ indexWriter = NoThread /\ indexReaders = {}
  /\ IF "index" \in poisoned
     THEN Panic(t) /\ UNCHANGED call
     ELSE /\ indexWriter' = t
          /\ call' = [call EXCEPT ![t].first =
                         IF call[t].batch = <<>> THEN 0 ELSE Len(index)]
          /\ Goto(t, "add")
          /\ UNCHANGED <<writeLock, manifestLock, indexReaders, poisoned>>
  /\ UNCHANGED <<dir, proc, index, manifest, view, ghosts, budget>>

(* add_with_payload of the next vector; its assert_eq! on the dimension    *)
(* panics with everything before it already in the index.                  *)
Add(t) ==
  LET c == call[t] IN
  /\ At(t, "add")
  /\ c.added < Len(c.batch)
  /\ IF c.batch[c.added + 1] \in Vectors
     THEN /\ index' = Append(index, c.batch[c.added + 1])
          /\ call' = [call EXCEPT ![t].added = c.added + 1]
          /\ UNCHANGED <<pc, locks>>
     ELSE /\ Panic(t)
          /\ UNCHANGED <<index, call>>
  /\ UNCHANGED <<dir, proc, manifest, view, ghosts, budget>>

(* Variant: write_lock covers only the change in memory. *)
AddDoneUnlocks(t) ==
  /\ At(t, "add")
  /\ call[t].added = Len(call[t].batch)
  /\ indexWriter' = NoThread /\ writeLock' = NoThread
  /\ Goto(t, "save_manifest")
  /\ UNCHANGED <<dir, proc, index, manifest, manifestLock, indexReaders, poisoned,
                 call, view, ghosts, budget>>

AddDone(t) ==
  /\ At(t, "add")
  /\ call[t].added = Len(call[t].batch)
  /\ indexWriter' = NoThread
  /\ Goto(t, "save_manifest")
  /\ UNCHANGED <<dir, proc, index, manifest, writeLock, manifestLock,
                 indexReaders, poisoned, call, view, ghosts, budget>>

(* save_and_bump: the manifest mutex first, then index.read().             *)
SaveManifest(t) ==
  /\ AcquireManifest(t, "save_manifest", "save_read")
  /\ UNCHANGED <<dir, proc, index, manifest, call, view, ghosts, budget>>

SaveRead(t) ==
  /\ AcquireIndexRead(t, "save_read", "save_create")
  /\ UNCHANGED <<dir, proc, index, manifest, call, view, ghosts, budget>>

(* Variant: the current version's file is written over. *)
SaveCreateInPlace(t) ==
  /\ At(t, "save_create")
  /\ TruncateIndex(manifest)
  /\ Goto(t, "save_data")
  /\ UNCHANGED <<proc, index, manifest, locks, call, view, ghosts, budget>>

SaveCreate(t) ==
  /\ At(t, "save_create")
  /\ TruncateIndex(manifest + 1)
  /\ Goto(t, "save_data")
  /\ UNCHANGED <<proc, index, manifest, locks, call, view, ghosts, budget>>

SaveData(t) ==
  /\ At(t, "save_data")
  /\ FillIndex(manifest + 1)
  /\ indexReaders' = indexReaders \ {t}
  /\ Goto(t, "tmp_create")
  /\ UNCHANGED <<proc, index, manifest, writeLock, manifestLock, indexWriter,
                 poisoned, call, view, ghosts, budget>>

TmpCreate(t) ==
  /\ At(t, "tmp_create")
  /\ TruncateTmp
  /\ Goto(t, "tmp_data")
  /\ UNCHANGED <<proc, index, manifest, locks, call, view, ghosts, budget>>

TmpData(t) ==
  /\ At(t, "tmp_data")
  /\ FillTmp(manifest + 1)
  /\ Goto(t, "rename")
  /\ UNCHANGED <<proc, index, manifest, locks, call, view, ghosts, budget>>

Rename(t) ==
  /\ At(t, "rename")
  /\ RenameTmp
  /\ Goto(t, "bump")
  /\ UNCHANGED <<proc, index, manifest, locks, call, view, budget>>

(* The in-memory manifest follows, and the caller gets Ok(first id).       *)
Bump(t) ==
  /\ At(t, "bump")
  /\ manifest' = manifest + 1
  /\ acked' = acked \cup {[first |-> call[t].first, batch |-> call[t].batch]}
  /\ Return(t)
  /\ UNCHANGED <<dir, proc, index, view, history, budget>>

InsertStep(t) ==
  \/ LockWrite(t) \/ LockIndexWrite(t) \/ Add(t) \/ AddDone(t)
  \/ SaveManifest(t) \/ SaveRead(t) \/ SaveCreate(t) \/ SaveData(t)
  \/ TmpCreate(t) \/ TmpData(t) \/ Rename(t) \/ Bump(t)

-----------------------------------------------------------------------------
(* compact, search and stats.                                              *)

CallOther(t) ==
  /\ At(t, "idle") /\ calls < MaxCalls
  /\ \E label \in {"compact_lock", "search_read", "stats_read"} : Goto(t, label)
  /\ calls' = calls + 1
  /\ UNCHANGED <<dir, proc, index, manifest, locks, call, view, ghosts, faults, crashes>>

CompactLock(t) ==
  /\ AcquireWriteLock(t, "compact_lock", "compact_manifest")
  /\ UNCHANGED <<dir, proc, index, manifest, call, view, ghosts, budget>>

CompactManifest(t) ==
  /\ AcquireManifest(t, "compact_manifest", "compact_remove")
  /\ UNCHANGED <<dir, proc, index, manifest, call, view, ghosts, budget>>

(* Variant: compact does not spare the file the manifest names. *)
CompactRemoveAny(t) ==
  /\ At(t, "compact_remove")
  /\ \E v \in DOMAIN files :
        files' = [x \in DOMAIN files \ {v} |-> files[x]]
  /\ UNCHANGED <<manifestFile, tmpFile, proc, index, manifest, locks, threads,
                 view, ghosts, budget>>

(* One index file goes, in the order of the directory, which is any order. *)
CompactRemove(t) ==
  /\ At(t, "compact_remove")
  /\ \E v \in DOMAIN files \ {manifest} :
        files' = [x \in DOMAIN files \ {v} |-> files[x]]
  /\ UNCHANGED <<manifestFile, tmpFile, proc, index, manifest, locks, threads,
                 view, ghosts, budget>>

CompactDone(t) ==
  /\ At(t, "compact_remove")
  /\ DOMAIN files \subseteq {manifest}
  /\ Return(t)
  /\ UNCHANGED <<dir, proc, index, manifest, view, ghosts, budget>>

SearchRead(t) ==
  /\ AcquireIndexRead(t, "search_read", "search_scan")
  /\ UNCHANGED <<dir, proc, index, manifest, call, view, ghosts, budget>>

SearchScan(t) ==
  /\ At(t, "search_scan")
  /\ Return(t)
  /\ UNCHANGED <<dir, proc, index, manifest, view, ghosts, budget>>

(* stats takes the two locks in the opposite order to save_and_bump.       *)
StatsRead(t) ==
  /\ AcquireIndexRead(t, "stats_read", "stats_manifest")
  /\ UNCHANGED <<dir, proc, index, manifest, call, view, ghosts, budget>>

StatsManifest(t) ==
  /\ At(t, "stats_manifest")
  /\ manifestLock = NoThread
  /\ IF "manifest" \in poisoned THEN Panic(t) /\ UNCHANGED call ELSE Return(t)
  /\ UNCHANGED <<dir, proc, index, manifest, view, ghosts, budget>>

OtherStep(t) ==
  \/ CompactLock(t) \/ CompactManifest(t) \/ CompactRemove(t) \/ CompactDone(t)
  \/ SearchRead(t) \/ SearchScan(t) \/ StatsRead(t) \/ StatsManifest(t)

(* Variant: the error of a failed save is dropped and the insert answers Ok. *)
FailIOIgnored(t) ==
  /\ proc = "up" /\ faults < MaxFaults
  /\ pc[t] \in {"save_create", "save_data", "tmp_create", "tmp_data", "rename"}
  /\ acked' = acked \cup {[first |-> call[t].first, batch |-> call[t].batch]}
  /\ Return(t)
  /\ faults' = faults + 1
  /\ UNCHANGED <<dir, proc, index, manifest, view, history, calls, crashes>>

(* A file operation fails: its `?` ends the call and drops every guard,    *)
(* and what the call did before stays done.                                *)
FailIO(t) ==
  /\ proc = "up" /\ faults < MaxFaults
  /\ pc[t] \in {"save_create", "save_data", "tmp_create", "tmp_data", "rename",
                 "compact_remove"}
  /\ Return(t)
  /\ faults' = faults + 1
  /\ UNCHANGED <<dir, proc, index, manifest, view, ghosts, calls, crashes>>

-----------------------------------------------------------------------------
(* Database::create, Database::open and the death of the process.          *)

(* A directory with no manifest is one no database was created in: create  *)
(* is called only there (on an existing one it starts over from version 0).*)
CreateStart ==
  /\ proc = "down" /\ manifestFile = NoManifest
  /\ TruncateIndex(0)
  /\ proc' = "create_data"
  /\ UNCHANGED <<index, manifest, locks, threads, view, ghosts, budget>>

CreateStep ==
  /\ \/ /\ proc = "create_data" /\ proc' = "tmp_create"
        /\ FillIndex(0) /\ UNCHANGED ghosts
     \/ /\ proc = "tmp_create" /\ proc' = "tmp_data"
        /\ TruncateTmp /\ UNCHANGED ghosts
     \/ /\ proc = "tmp_data" /\ proc' = "rename"
        /\ FillTmp(0) /\ UNCHANGED ghosts
     \/ /\ proc = "rename" /\ proc' = "up"
        /\ RenameTmp
  /\ UNCHANGED <<index, manifest, locks, threads, view, budget>>

(* read_manifest, then load_index of the file it names.                    *)
Open ==
  LET v == manifestFile.version IN
  /\ proc = "down" /\ manifestFile.status = "whole"
  /\ v \in DOMAIN files /\ files[v].status = "whole"
  /\ proc' = "up"
  /\ index' = files[v].data
  /\ manifest' = v
  /\ UNCHANGED <<dir, locks, threads, view, ghosts, budget>>

Crash ==
  /\ proc # "down" /\ crashes < MaxCrashes
  /\ proc' = "down"
  /\ index' = <<>> /\ manifest' = 0
  /\ writeLock' = NoThread /\ manifestLock' = NoThread /\ indexWriter' = NoThread
  /\ indexReaders' = {} /\ poisoned' = {}
  /\ pc' = [t \in Threads |-> "idle"]
  /\ call' = [t \in Threads |-> NoCall]
  /\ crashes' = crashes + 1
  /\ UNCHANGED <<dir, view, ghosts, calls, faults>>

-----------------------------------------------------------------------------
(* MmapDatabase::open, in another process: read the manifest, then open    *)
(* the file it names.  The view keeps that file, even once unlinked.       *)

ClosedView == [status |-> "closed", version |-> 0, data |-> <<>>]

ViewReadManifest(r) ==
  /\ view[r].status = "closed" /\ manifestFile.status = "whole"
  /\ view' = [view EXCEPT ![r].status = "opening",
                           ![r].version = manifestFile.version]
  /\ UNCHANGED <<dir, proc, index, manifest, locks, threads, ghosts, budget>>

(* NotFound when compact removed the file first, InvalidData when torn.    *)
ViewOpenFile(r) ==
  LET v == view[r].version IN
  /\ view[r].status = "opening"
  /\ IF v \in DOMAIN files /\ files[v].status = "whole"
     THEN view' = [view EXCEPT ![r].status = "open", ![r].data = files[v].data]
     ELSE view' = [view EXCEPT ![r].status =
                     IF v \in DOMAIN files THEN "corrupt" ELSE "not_found"]
  /\ UNCHANGED <<dir, proc, index, manifest, locks, threads, ghosts, budget>>

-----------------------------------------------------------------------------
Init ==
  /\ files = [v \in {} |-> Torn]
  /\ manifestFile = NoManifest /\ tmpFile = NoManifest
  /\ proc = "down" /\ index = <<>> /\ manifest = 0
  /\ writeLock = NoThread /\ manifestLock = NoThread /\ indexWriter = NoThread
  /\ indexReaders = {} /\ poisoned = {}
  /\ pc = [t \in Threads |-> "idle"]
  /\ call = [t \in Threads |-> NoCall]
  /\ view = [r \in Readers |-> ClosedView]
  /\ history = <<>> /\ acked = {}
  /\ calls = 0 /\ faults = 0 /\ crashes = 0

Step(t) == InsertStep(t) \/ OtherStep(t)

Next ==
  \/ CreateStart \/ CreateStep \/ Open \/ Crash
  \/ \E t \in Threads : CallInsert(t) \/ CallOther(t) \/ Step(t) \/ FailIO(t)
  \/ \E r \in Readers : ViewReadManifest(r) \/ ViewOpenFile(r)

Spec == Init /\ [][Next]_vars

(* A thread inside a call keeps running: the OS schedules it and a file    *)
(* operation ends.  Which waiter gets a free lock next is left open.       *)
FairSpec == Spec /\ \A t \in Threads : WF_vars(Step(t))

-----------------------------------------------------------------------------
(* Properties.                                                             *)

(* The snapshot the last rename committed. *)
Snapshot == IF history = <<>> THEN <<>> ELSE history[Len(history)]

(* What a caller may rely on: searches see the index while the process is  *)
(* up, and the last snapshot is all there is while it is down.             *)
Store == INSTANCE VersionedStore WITH
           live <- IF proc = "up" THEN index ELSE Snapshot

(* The detailed database implements the abstract store: a rename is its    *)
(* Commit, an answer Ok its Acknowledge, a death of the process its        *)
(* Restart, and no other step shows.                                       *)
StoreSpec == Store!StoreSpec

FileType == [status : {"torn", "whole"}, data : Seq(Vectors)]
ManifestType == [status : {"absent", "torn", "whole"}, version : Nat]
CallType == [batch : Seq(Vectors \cup {Malformed}), added : Nat, first : Nat]
ViewType == [status : {"closed", "opening", "open", "not_found", "corrupt"},
             version : Nat, data : Seq(Vectors)]

(* Every variable has its type: the directory is a finite map of versions  *)
(* to files, a lock has one owner or none.                                 *)
TypeOK ==
  /\ DOMAIN files \subseteq Nat
  /\ \A v \in DOMAIN files : files[v] \in FileType
  /\ manifestFile \in ManifestType /\ tmpFile \in ManifestType
  /\ proc \in {"up", "down"} \cup CreateLabels
  /\ index \in Seq(Vectors) /\ manifest \in Nat
  /\ writeLock \in Threads \cup {NoThread}
  /\ manifestLock \in Threads \cup {NoThread}
  /\ indexWriter \in Threads \cup {NoThread}
  /\ indexReaders \subseteq Threads
  /\ poisoned \subseteq {"write", "manifest", "index"}
  /\ pc \in [Threads -> Labels]
  /\ call \in [Threads -> CallType]
  /\ view \in [Readers -> ViewType]
  /\ history \in Seq(Seq(Vectors))
  /\ acked \subseteq [first : Nat, batch : Seq(Vectors \cup {Malformed})]
  /\ calls \in Nat /\ faults \in Nat /\ crashes \in Nat

(* Whatever point of a create, insert or compact the process dies at, or a *)
(* file operation fails at, manifest.json is whole and names a whole index *)
(* file that holds exactly the last committed snapshot: open succeeds.     *)
Recoverable ==
  IF history = <<>>
  THEN manifestFile = NoManifest
  ELSE /\ manifestFile = WholeManifest(Len(history) - 1)
       /\ manifestFile.version \in DOMAIN files
       /\ files[manifestFile.version] = Whole(Snapshot)

(* An insert answered Ok is in the snapshot the disk names, at the ids its *)
(* caller was given, whatever failures and restarts follow.                *)
AckedDurable ==
  \A a \in acked : Store!Occupies(a.first, a.batch, Snapshot)

(* "旧版本文件保留" (old version files are kept): the file of a committed    *)
(* version is never written again, and it goes only by a compact, which    *)
(* never takes the one manifest.json names.                                *)
CommittedFilesKept ==
  [][\A v \in DOMAIN files : v < Len(history) =>
       IF v \in DOMAIN files'
       THEN files'[v] = files[v]
       ELSE v # manifestFile.version /\ \E t \in Threads : At(t, "compact_remove")]_vars

(* A batch is searchable and durable as a whole or not at all: while one   *)
(* is part-way in the index, or stuck there since its thread panicked on a *)
(* malformed vector, nobody reads the index and no snapshot holds its head.*)
PartialBatchHidden ==
  \A t \in Threads :
    /\ pc[t] \in {"add", "panicked"}
    /\ call[t].added \in 1..Len(call[t].batch) - 1
    => indexReaders = {} /\ Len(Snapshot) <= call[t].first

(* Inserts are acknowledged in the order of their ids, and no id is given  *)
(* out twice, restarts included.                                           *)
AcksInIdOrder ==
  [][\A a \in acked' \ acked, b \in acked :
       a.batch # <<>> => b.first + Len(b.batch) <= a.first]_acked

(* A view that opened holds one committed snapshot, it never finds a torn  *)
(* file, and nothing rewrites the file under it.                           *)
ViewsStable ==
  \A r \in Readers :
    /\ view[r].status # "corrupt"
    /\ view[r].status = "open" =>
         LET v == view[r].version IN
         /\ view[r].data = history[v + 1]
         /\ v \in DOMAIN files => files[v] = Whole(view[r].data)

(* save_and_bump takes the manifest mutex and then index.read(), stats the *)
(* other way round, and a waiting writer keeps readers out: still, while   *)
(* any thread is in a call, one of them can move.                          *)
Blocked(t) ==
  \/ pc[t] \in {"write_lock", "compact_lock"} /\ writeLock # NoThread
  \/ pc[t] \in {"save_manifest", "compact_manifest", "stats_manifest"}
     /\ manifestLock # NoThread
  \/ pc[t] = "index_write" /\ (indexWriter # NoThread \/ indexReaders # {})
  \/ pc[t] \in {"save_read", "search_read", "stats_read"}
     /\ (indexWriter # NoThread \/ WriterWaiting)

InCall == {t \in Threads : pc[t] \notin {"idle", "panicked"}}

NoDeadlock == InCall # {} => \E t \in InCall : ~Blocked(t)

(* Every call ends, in a result, an error or a panic. *)
CallsReturn == \A t \in Threads : t \in InCall ~> t \notin InCall
=============================================================================

--------------------------- MODULE DatabaseProofs ---------------------------
(***************************************************************************)
(* Theorems about Database for every set of threads, views and batches and *)
(* every number of calls, failures and deaths: first from DiskInv, what    *)
(* holds of the files and locks; then from AckInv and ViewInv, what it     *)
(* promises its callers, and that it implements VersionedStore.            *)
(***************************************************************************)
EXTENDS DatabaseInv, SequenceTheorems, TLAPS

USE NoThreadAssumption, MalformedAssumption, BatchesAssumption, BoundsAssumption

(* The types hold initially. *)
LEMMA TypeInit == Init => TypeOK
  BY DEF Init, TypeOK, NoManifest, ManifestType, Labels, NoCall, CallType,
         ClosedView, ViewType

(* A sequence keeps its type when an element is appended. *)
LEMMA AppendType ==
  ASSUME NEW S, NEW s \in Seq(S), NEW e \in S
  PROVE  Append(s, e) \in Seq(S)
  OBVIOUS

(* Changing one field of one thread's insert keeps its type. *)
LEMMA CallUpdate ==
  ASSUME NEW c \in [Threads -> CallType], NEW t \in Threads
  PROVE  /\ \A b \in Seq(Vectors \cup {Malformed}) :
              [c EXCEPT ![t].batch = b] \in [Threads -> CallType]
         /\ \A n \in Nat : [c EXCEPT ![t].added = n] \in [Threads -> CallType]
         /\ \A n \in Nat : [c EXCEPT ![t].first = n] \in [Threads -> CallType]
<1>1. ASSUME NEW b \in Seq(Vectors \cup {Malformed})
      PROVE  [c EXCEPT ![t].batch = b] \in [Threads -> CallType]
  BY DEF CallType
<1>2. ASSUME NEW n \in Nat PROVE [c EXCEPT ![t].added = n] \in [Threads -> CallType]
  BY DEF CallType
<1>3. ASSUME NEW n \in Nat PROVE [c EXCEPT ![t].first = n] \in [Threads -> CallType]
  BY DEF CallType
<1>. QED
  BY <1>1, <1>2, <1>3

(* The same for one read-only view. *)
LEMMA ViewUpdate ==
  ASSUME NEW w \in [Readers -> ViewType], NEW r \in Readers
  PROVE  /\ \A s \in {"closed", "opening", "open", "not_found", "corrupt"} :
              [w EXCEPT ![r].status = s] \in [Readers -> ViewType]
         /\ \A d \in Seq(Vectors) : [w EXCEPT ![r].status = "open", ![r].data = d]
                                      \in [Readers -> ViewType]
<1>1. ASSUME NEW s \in {"closed", "opening", "open", "not_found", "corrupt"}
      PROVE  [w EXCEPT ![r].status = s] \in [Readers -> ViewType]
  BY DEF ViewType
<1>2. ASSUME NEW d \in Seq(Vectors)
      PROVE  [w EXCEPT ![r].status = "open", ![r].data = d] \in [Readers -> ViewType]
  BY DEF ViewType
<1>. QED
  BY <1>1, <1>2

(* What the part of the state that belongs to the threads looks like. *)
ThreadsOK ==
  /\ writeLock \in Threads \cup {NoThread}
  /\ manifestLock \in Threads \cup {NoThread}
  /\ indexWriter \in Threads \cup {NoThread}
  /\ indexReaders \subseteq Threads
  /\ poisoned \subseteq {"write", "manifest", "index"}
  /\ pc \in [Threads -> Labels]
  /\ call \in [Threads -> CallType]

(* A thread that returns or panics leaves the threads and locks well typed. *)
LEMMA ReturnType ==
  ASSUME TypeOK, NEW t \in Threads, Return(t) PROVE ThreadsOK'
<1>1. call' \in [Threads -> CallType]
  BY DEF TypeOK, Return, NoCall, CallType
<1>2. pc' \in [Threads -> Labels]
  BY DEF TypeOK, Return, Goto, Labels
<1>. QED
  BY <1>1, <1>2 DEF TypeOK, Return, DropAll, Drop, ThreadsOK

(* So does one that panics under a lock. *)
LEMMA PanicType ==
  ASSUME TypeOK, NEW t \in Threads, Panic(t), UNCHANGED call PROVE ThreadsOK'
<1>1. pc' \in [Threads -> Labels]
  BY DEF TypeOK, Panic, Goto, Labels
<1>2. poisoned' \subseteq {"write", "manifest", "index"}
  BY DEF TypeOK, Panic, Owner
<1>. QED
  BY <1>1, <1>2 DEF TypeOK, Panic, DropAll, Drop, ThreadsOK

(* Taking a lock, whether it is poisoned or not. *)
LEMMA AcquireType ==
  ASSUME TypeOK, NEW t \in Threads, NEW from, NEW to \in Labels, UNCHANGED call,
         \/ AcquireWriteLock(t, from, to)
         \/ AcquireManifest(t, from, to)
         \/ AcquireIndexRead(t, from, to)
  PROVE  ThreadsOK'
<1>1. CASE Panic(t)
  BY <1>1, PanicType
<1>2. CASE ~Panic(t)
  <2>1. ThreadsOK
    BY DEF TypeOK, ThreadsOK
  <2>2. /\ pc' = [pc EXCEPT ![t] = to] /\ poisoned' = poisoned /\ indexWriter' = indexWriter
        /\ writeLock' \in {writeLock, t} /\ manifestLock' \in {manifestLock, t}
        /\ indexReaders' \in {indexReaders, indexReaders \cup {t}}
    <3>1. CASE AcquireWriteLock(t, from, to)
      BY <1>2, <3>1 DEF AcquireWriteLock, Goto
    <3>2. CASE AcquireManifest(t, from, to)
      BY <1>2, <3>2 DEF AcquireManifest, Goto
    <3>3. CASE AcquireIndexRead(t, from, to)
      BY <1>2, <3>3 DEF AcquireIndexRead, Goto
    <3>. QED
      BY <3>1, <3>2, <3>3
  <2>3. pc' \in [Threads -> Labels]
    BY <2>1, <2>2 DEF ThreadsOK
  <2>. QED
    BY <2>1, <2>2, <2>3 DEF ThreadsOK
<1>. QED
  BY <1>1, <1>2

(* Every step of the database keeps the types: one case per action. *)
LEMMA TypeStep == TypeOK /\ [Next]_vars => TypeOK'
<1> SUFFICES ASSUME TypeOK, [Next]_vars PROVE TypeOK'
  OBVIOUS
<1> USE DEF TypeOK, Labels, CreateLabels, InsertLabels, OtherLabels,
            dir, locks, threads, ghosts, budget
<1>1. CASE UNCHANGED vars
  BY <1>1 DEF vars
<1>2. CASE CreateStart
  BY <1>2 DEF CreateStart, TruncateIndex, PutFile, Torn, FileType
<1>3. CASE CreateStep
  <2>1. files' = files \/ FillIndex(0)
    <3>1. CASE proc = "create_data"
      BY <1>3, <3>1 DEF CreateStep
    <3>2. CASE proc = "tmp_create"
      BY <1>3, <3>2 DEF CreateStep, TruncateTmp
    <3>3. CASE proc = "tmp_data"
      BY <1>3, <3>3 DEF CreateStep, FillTmp
    <3>4. CASE proc = "rename"
      BY <1>3, <3>4 DEF CreateStep, RenameTmp
    <3>. QED
      BY <1>3, <3>1, <3>2, <3>3, <3>4 DEF CreateStep
  <2>2. DOMAIN files' \subseteq Nat /\ \A v \in DOMAIN files' : files'[v] \in FileType
    BY <2>1 DEF FillIndex, PutFile, Whole, FileType
  <2>3. manifestFile' \in ManifestType /\ tmpFile' \in ManifestType
    BY <1>3 DEF CreateStep, FillIndex, TruncateTmp, FillTmp, RenameTmp,
       TornManifest, WholeManifest, NoManifest, ManifestType
  <2>4. history' \in Seq(Seq(Vectors))
    <3>1. history' = history \/ history' = Append(history, index)
      BY <1>3 DEF CreateStep, RenameTmp
    <3>2. history \in Seq(Seq(Vectors)) /\ index \in Seq(Vectors)
      OBVIOUS
    <3>3. Append(history, index) \in Seq(Seq(Vectors))
      BY <3>2, AppendType
    <3>. QED
      BY <3>1, <3>2, <3>3, Zenon
  <2>5. acked' = acked /\ proc' \in {"up", "tmp_create", "tmp_data", "rename"}
    BY <1>3 DEF CreateStep, RenameTmp
  <2>. QED
    BY <1>3, <2>2, <2>3, <2>4, <2>5 DEF CreateStep
<1>4. CASE Open
  BY <1>4 DEF Open, FileType, ManifestType
<1>5. CASE Crash
  BY <1>5 DEF Crash, NoCall, CallType
<1>6. ASSUME NEW t \in Threads, CallInsert(t) PROVE TypeOK'
  <2>1. PICK b \in Batches : call' = [call EXCEPT ![t].batch = b]
    BY <1>6 DEF CallInsert
  <2>2. call' \in [Threads -> CallType]
    BY <2>1, CallUpdate
  <2>3. pc' \in [Threads -> Labels]
    BY <1>6 DEF CallInsert, Goto
  <2>4. /\ UNCHANGED <<dir, proc, index, manifest, locks, view, ghosts, faults, crashes>>
        /\ calls' = calls + 1
    BY <1>6 DEF CallInsert
  <2>. QED
    BY <2>2, <2>3, <2>4
<1>7. ASSUME NEW t \in Threads, CallOther(t) PROVE TypeOK'
  BY <1>7 DEF CallOther, At, Goto
<1>8. ASSUME NEW t \in Threads, FailIO(t) PROVE TypeOK'
  BY <1>8, ReturnType DEF FailIO, ThreadsOK
<1>9. ASSUME NEW t \in Threads, InsertStep(t) PROVE TypeOK'
  <2>1. CASE LockWrite(t)
    BY <2>1, AcquireType DEF LockWrite, ThreadsOK
  <2>2. CASE LockIndexWrite(t)
    <3>1. CASE Panic(t) /\ UNCHANGED call
      BY <2>2, <3>1, PanicType DEF LockIndexWrite, ThreadsOK
    <3>2. CASE ~(Panic(t) /\ UNCHANGED call)
      <4>1. PICK n \in Nat : call' = [call EXCEPT ![t].first = n]
        BY <2>2, <3>2, 0 \in Nat, Len(index) \in Nat DEF LockIndexWrite
      <4>2. call' \in [Threads -> CallType]
        BY <4>1, CallUpdate
      <4>. QED
        BY <2>2, <3>2, <4>2 DEF LockIndexWrite, Goto
    <3>. QED
      BY <3>1, <3>2
  <2>3. CASE Add(t)
    <3>1. CASE Panic(t) /\ UNCHANGED <<index, call>>
      BY <2>3, <3>1, PanicType DEF Add, ThreadsOK
    <3>2. CASE ~(Panic(t) /\ UNCHANGED <<index, call>>)
      <4>1. call[t].batch[call[t].added + 1] \in Vectors
        BY <2>3, <3>2 DEF Add
      <4>2. /\ index' = Append(index, call[t].batch[call[t].added + 1])
            /\ call' = [call EXCEPT ![t].added = call[t].added + 1]
            /\ UNCHANGED <<pc, locks>>
        BY <2>3, <4>1 DEF Add
      <4>3. index' \in Seq(Vectors)
        BY <4>1, <4>2
      <4>4. call[t].added + 1 \in Nat
        BY DEF CallType
      <4>5. call' \in [Threads -> CallType]
        BY <4>2, <4>4, CallUpdate
      <4>. QED
        BY <2>3, <4>2, <4>3, <4>5 DEF Add
    <3>. QED
      BY <3>1, <3>2
  <2>4. CASE AddDone(t)
    BY <2>4 DEF AddDone, Goto
  <2>5. CASE SaveManifest(t)
    BY <2>5, AcquireType DEF SaveManifest, ThreadsOK
  <2>6. CASE SaveRead(t)
    BY <2>6, AcquireType DEF SaveRead, ThreadsOK
  <2>7. CASE SaveCreate(t)
    BY <2>7 DEF SaveCreate, Goto, TruncateIndex, PutFile, Torn, FileType
  <2>8. CASE SaveData(t)
    BY <2>8 DEF SaveData, Goto, FillIndex, PutFile, Whole, FileType
  <2>9. CASE TmpCreate(t)
    BY <2>9 DEF TmpCreate, Goto, TruncateTmp, TornManifest, ManifestType
  <2>10. CASE TmpData(t)
    BY <2>10 DEF TmpData, Goto, FillTmp, WholeManifest, ManifestType
  <2>11. CASE Rename(t)
    BY <2>11 DEF Rename, Goto, RenameTmp, NoManifest, ManifestType
  <2>12. CASE Bump(t)
    <3>1. call[t].first \in Nat /\ call[t].batch \in Seq(Vectors \cup {Malformed})
      BY DEF CallType
    <3>2. acked' \subseteq [first : Nat, batch : Seq(Vectors \cup {Malformed})]
      BY <2>12, <3>1 DEF Bump
    <3>. QED
      BY <2>12, <3>2, ReturnType DEF Bump, ThreadsOK
  <2>. QED
    BY <1>9, <2>1, <2>2, <2>3, <2>4, <2>5, <2>6, <2>7, <2>8, <2>9, <2>10,
       <2>11, <2>12 DEF InsertStep
<1>10. ASSUME NEW t \in Threads, OtherStep(t) PROVE TypeOK'
  <2>1. CASE CompactLock(t)
    BY <2>1, AcquireType DEF CompactLock, ThreadsOK
  <2>2. CASE CompactManifest(t)
    BY <2>2, AcquireType DEF CompactManifest, ThreadsOK
  <2>3. CASE CompactRemove(t)
    BY <2>3 DEF CompactRemove
  <2>4. CASE CompactDone(t)
    BY <2>4, ReturnType DEF CompactDone, ThreadsOK
  <2>5. CASE SearchRead(t)
    BY <2>5, AcquireType DEF SearchRead, ThreadsOK
  <2>6. CASE SearchScan(t)
    BY <2>6, ReturnType DEF SearchScan, ThreadsOK
  <2>7. CASE StatsRead(t)
    BY <2>7, AcquireType DEF StatsRead, ThreadsOK
  <2>8. CASE StatsManifest(t)
    <3>1. ThreadsOK'
      BY <2>8, ReturnType, PanicType DEF StatsManifest
    <3>. QED
      BY <2>8, <3>1 DEF StatsManifest, ThreadsOK
  <2>. QED
    BY <1>10, <2>1, <2>2, <2>3, <2>4, <2>5, <2>6, <2>7, <2>8 DEF OtherStep
<1>11. ASSUME NEW r \in Readers, ViewReadManifest(r) PROVE TypeOK'
  <2>1. manifestFile.version \in Nat
    BY DEF ManifestType
  <2> DEFINE v == manifestFile.version
  <2>2. view' = [view EXCEPT ![r].status = "opening", ![r].version = v]
    BY <1>11 DEF ViewReadManifest
  <2>3. view \in [Readers -> ViewType]
    OBVIOUS
  <2> HIDE DEF v, TypeOK
  <2>4. view' \in [Readers -> ViewType]
    BY <2>1, <2>2, <2>3 DEF v, ViewType
  <2> USE DEF TypeOK
  <2>. QED
    BY <1>11, <2>4 DEF ViewReadManifest
<1>12. ASSUME NEW r \in Readers, ViewOpenFile(r) PROVE TypeOK'
  <2> DEFINE v == view[r].version
             found == v \in DOMAIN files /\ files[v].status = "whole"
  <2>1. CASE found
    <3>1. view' = [view EXCEPT ![r].status = "open", ![r].data = files[v].data]
      BY <1>12, <2>1 DEF ViewOpenFile
    <3>2. files[v].data \in Seq(Vectors)
      BY <2>1 DEF FileType
    <3>3. view' \in [Readers -> ViewType]
      BY <3>1, <3>2, ViewUpdate
    <3>. QED
      BY <1>12, <3>3 DEF ViewOpenFile
  <2>2. CASE ~found
    <3>1. PICK s \in {"closed", "opening", "open", "not_found", "corrupt"} :
            view' = [view EXCEPT ![r].status = s]
      BY <1>12, <2>2 DEF ViewOpenFile
    <3>2. view' \in [Readers -> ViewType]
      BY <3>1, ViewUpdate
    <3>. QED
      BY <1>12, <3>2 DEF ViewOpenFile
  <2>. QED
    BY <2>1, <2>2
<1>. QED
  BY <1>1, <1>2, <1>3, <1>4, <1>5, <1>6, <1>7, <1>8, <1>9, <1>10, <1>11, <1>12
     DEF Next, Step

-----------------------------------------------------------------------------
(* Locks.  Ending a call in any way drops every guard of the thread.       *)
LEMMA EndLock ==
  ASSUME TypeOK, LockInv, NEW t \in Threads, NEW l \in {"idle", "panicked"},
         pc' = [pc EXCEPT ![t] = l], DropAll(t)
  PROVE  LockInv'
<1> USE DEF TypeOK, LockInv, DropAll, Drop, HoldsWrite, HoldsManifest, HoldsIndexRead
<1>1. pc'[t] = l
  OBVIOUS
<1>2. \A u \in Threads \ {t} : pc'[u] = pc[u]
  OBVIOUS
<1>3. \A u \in Threads : u # NoThread
  OBVIOUS
<1>4. ASSUME NEW u \in Threads \ {t}
      PROVE  /\ writeLock' = u <=> pc'[u] \in HoldsWrite
             /\ manifestLock' = u <=> pc'[u] \in HoldsManifest
             /\ indexWriter' = u <=> pc'[u] = "add"
             /\ u \in indexReaders' <=> pc'[u] \in HoldsIndexRead
  BY <1>2, <1>3
<1>5. /\ writeLock' # t /\ manifestLock' # t /\ indexWriter' # t
      /\ t \notin indexReaders'
  BY <1>3
<1>. QED
  BY <1>1, <1>4, <1>5

(* A call that returns is at no label that holds a lock. *)
LEMMA ReturnLock ==
  ASSUME TypeOK, LockInv, NEW t \in Threads, Return(t) PROVE LockInv'
  BY EndLock DEF Return, Goto

(* Nor is a call that panicked: unwinding drops its guards. *)
LEMMA PanicLock ==
  ASSUME TypeOK, LockInv, NEW t \in Threads, Panic(t) PROVE LockInv'
  BY EndLock DEF Panic, Goto

(* Every step keeps the labels and the locks in agreement. *)
LEMMA LockStep == TypeOK /\ LockInv /\ ProcInv /\ [Next]_vars => LockInv'
<1> SUFFICES ASSUME TypeOK, LockInv, ProcInv, [Next]_vars PROVE LockInv'
  OBVIOUS
<1> USE DEF TypeOK, LockInv, HoldsWrite, HoldsManifest, HoldsIndexRead,
            At, Goto, locks, threads
<1>1. CASE UNCHANGED <<locks, threads>>
  BY <1>1
<1>2. CASE Crash
  BY <1>2 DEF Crash
<1>3. ASSUME NEW t \in Threads, CallInsert(t) \/ CallOther(t) PROVE LockInv'
  <2>1. PICK l \in {"write_lock", "compact_lock", "search_read", "stats_read"} :
          pc' = [pc EXCEPT ![t] = l]
    BY <1>3 DEF CallInsert, CallOther
  <2>2. pc[t] = "idle" /\ UNCHANGED locks
    BY <1>3 DEF CallInsert, CallOther
  <2>. QED
    BY <2>1, <2>2
<1>4. ASSUME NEW t \in Threads, FailIO(t) PROVE LockInv'
  BY <1>4, ReturnLock DEF FailIO
<1>5. ASSUME NEW t \in Threads, InsertStep(t) PROVE LockInv'
  <2>1. CASE Panic(t) \/ Return(t)
    BY <2>1, PanicLock, ReturnLock
  <2>2. CASE ~Panic(t) /\ ~Return(t)
    <3>1. CASE LockWrite(t)
      BY <2>2, <3>1 DEF LockWrite, AcquireWriteLock
    <3>2. CASE LockIndexWrite(t)
      BY <2>2, <3>2 DEF LockIndexWrite
    <3>3. CASE Add(t)
      BY <2>2, <3>3 DEF Add
    <3>4. CASE AddDone(t)
      BY <3>4 DEF AddDone
    <3>5. CASE SaveManifest(t)
      BY <2>2, <3>5 DEF SaveManifest, AcquireManifest
    <3>6. CASE SaveRead(t)
      BY <2>2, <3>6 DEF SaveRead, AcquireIndexRead
    <3>7. CASE SaveCreate(t)
      BY <3>7 DEF SaveCreate
    <3>8. CASE SaveData(t)
      BY <3>8 DEF SaveData
    <3>9. CASE TmpCreate(t)
      BY <3>9 DEF TmpCreate
    <3>10. CASE TmpData(t)
      BY <3>10 DEF TmpData
    <3>11. CASE Rename(t)
      BY <3>11 DEF Rename
    <3>12. CASE Bump(t)
      BY <2>2, <3>12 DEF Bump
    <3>. QED
      BY <1>5, <3>1, <3>2, <3>3, <3>4, <3>5, <3>6, <3>7, <3>8, <3>9, <3>10,
         <3>11, <3>12 DEF InsertStep
  <2>. QED
    BY <2>1, <2>2
<1>6. ASSUME NEW t \in Threads, OtherStep(t) PROVE LockInv'
  <2>1. CASE Panic(t) \/ Return(t)
    BY <2>1, PanicLock, ReturnLock
  <2>2. CASE ~Panic(t) /\ ~Return(t)
    <3>1. CASE CompactLock(t)
      BY <2>2, <3>1 DEF CompactLock, AcquireWriteLock
    <3>2. CASE CompactManifest(t)
      BY <2>2, <3>2 DEF CompactManifest, AcquireManifest
    <3>3. CASE CompactRemove(t)
      BY <3>3 DEF CompactRemove
    <3>4. CASE SearchRead(t) \/ StatsRead(t)
      BY <2>2, <3>4 DEF SearchRead, StatsRead, AcquireIndexRead
    <3>5. CASE CompactDone(t) \/ SearchScan(t) \/ StatsManifest(t)
      BY <2>2, <3>5 DEF CompactDone, SearchScan, StatsManifest
    <3>. QED
      BY <1>6, <3>1, <3>2, <3>3, <3>4, <3>5 DEF OtherStep
  <2>. QED
    BY <2>1, <2>2
<1>7. CASE CreateStart \/ CreateStep \/ Open
  BY <1>7, <1>1 DEF CreateStart, CreateStep, Open
<1>8. ASSUME NEW r \in Readers, ViewReadManifest(r) \/ ViewOpenFile(r) PROVE LockInv'
  BY <1>8, <1>1 DEF ViewReadManifest, ViewOpenFile
<1>9. CASE UNCHANGED vars
  BY <1>9, <1>1 DEF vars
<1>. QED
  BY <1>2, <1>3, <1>4, <1>5, <1>6, <1>7, <1>8, <1>9 DEF Next, Step

(* write_lock admits one thread at a time, whichever label it is at.       *)
LEMMA OneWriter ==
  ASSUME LockInv, NEW t \in Threads, NEW u \in Threads,
         pc[t] \in HoldsWrite, pc[u] \in HoldsWrite
  PROVE  t = u
  BY DEF LockInv

-----------------------------------------------------------------------------
(* The directory.  Most steps of a thread touch no file, neither manifest, *)
(* neither index nor history, and stay clear of the labels that say        *)
(* something about them.                                                   *)
SaveLabels == {"tmp_create", "tmp_data", "rename", "bump"}

Quiet(t) ==
  /\ proc = "up"
  /\ UNCHANGED <<files, manifestFile, tmpFile, proc, index, manifest, history>>
  /\ pc[t] # "bump"
  /\ \E l \in Labels \ SaveLabels : pc' = [pc EXCEPT ![t] = l]

(* The part of DiskInv that is about the directory and the manifest. *)
DirInv == ProcInv /\ CreateInv /\ VersionInv /\ SaveInv /\ Recoverable

(* The steps that are quiet: all those of a call that neither append to    *)
(* the index nor write the directory.                                      *)
LEMMA QuietSteps ==
  ASSUME TypeOK, NEW t \in Threads,
         \/ CallInsert(t) \/ CallOther(t) \/ LockWrite(t) \/ LockIndexWrite(t)
         \/ Add(t) /\ index' = index /\ Panic(t)
         \/ AddDone(t) \/ SaveManifest(t) \/ SaveRead(t) \/ FailIO(t)
         \/ OtherStep(t) /\ ~CompactRemove(t)
  PROVE  Quiet(t)
<1> USE DEF Quiet, Labels, InsertLabels, OtherLabels, SaveLabels, At, Goto,
            dir, ghosts, Panic, Return
<1>1. CASE CallInsert(t) \/ CallOther(t)
  BY <1>1 DEF CallInsert, CallOther
<1>2. CASE LockWrite(t)
  BY <1>2 DEF LockWrite, AcquireWriteLock
<1>3. CASE LockIndexWrite(t)
  BY <1>3 DEF LockIndexWrite
<1>4. CASE Add(t) /\ index' = index /\ Panic(t)
  BY <1>4 DEF Add
<1>5. CASE AddDone(t)
  BY <1>5 DEF AddDone
<1>6. CASE SaveManifest(t)
  BY <1>6 DEF SaveManifest, AcquireManifest
<1>7. CASE SaveRead(t)
  BY <1>7 DEF SaveRead, AcquireIndexRead
<1>8. CASE FailIO(t)
  BY <1>8 DEF FailIO
<1>9. CASE CompactLock(t) \/ CompactManifest(t) \/ CompactDone(t)
  BY <1>9 DEF CompactLock, CompactManifest, CompactDone, AcquireWriteLock,
     AcquireManifest
<1>10. CASE SearchRead(t) \/ SearchScan(t) \/ StatsRead(t)
  BY <1>10 DEF SearchRead, SearchScan, StatsRead, AcquireIndexRead
<1>11. CASE StatsManifest(t)
  BY <1>11 DEF StatsManifest
<1>. QED
  BY <1>1, <1>2, <1>3, <1>4, <1>5, <1>6, <1>7, <1>8, <1>9, <1>10, <1>11
     DEF OtherStep

(* A quiet step keeps the directory's invariant. *)
LEMMA QuietKeeps ==
  ASSUME TypeOK, DirInv, NEW t \in Threads, Quiet(t) PROVE DirInv'
<1>1. PICK l \in Labels \ SaveLabels : pc' = [pc EXCEPT ![t] = l]
  BY DEF Quiet
<1>2. /\ pc'[t] \notin SaveLabels
      /\ \A u \in Threads : u # t => pc'[u] = pc[u]
  BY <1>1 DEF TypeOK
<1>3. ProcInv' /\ CreateInv' /\ Recoverable'
  BY DEF Quiet, DirInv, ProcInv, CreateInv, Recoverable, Snapshot, CreateLabels, Whole,
     WholeManifest, NoManifest
<1>4. VersionInv'
  BY <1>2 DEF Quiet, DirInv, VersionInv, SaveLabels
<1>5. SaveInv'
  BY <1>2 DEF Quiet, DirInv, SaveInv, SaveLabels, Whole, WholeManifest
<1>. QED
  BY <1>3, <1>4, <1>5 DEF DirInv

(* A thread that holds write_lock and has not renamed yet is the only one  *)
(* that could, and the in-memory manifest is the one on the disk.          *)
LEMMA WriterAlone ==
  ASSUME TypeOK, LockInv, DirInv, proc = "up", NEW t \in Threads,
         pc[t] \in HoldsWrite \ {"bump"}
  PROVE  /\ \A u \in Threads : u # t => pc[u] \notin SaveLabels
         /\ manifest + 1 = Len(history) /\ history # <<>>
         /\ manifestFile = WholeManifest(manifest)
         /\ manifest \in DOMAIN files /\ files[manifest] = Whole(Snapshot)
<1>1. \A u \in Threads : u # t => pc[u] \notin SaveLabels
  BY OneWriter DEF HoldsWrite, HoldsManifest, SaveLabels
<1>2. \A u \in Threads : pc[u] # "bump"
  BY <1>1 DEF SaveLabels
<1>3. manifest + 1 = Len(history) /\ history # <<>>
  BY <1>2 DEF DirInv, VersionInv, ProcInv
<1>4. Len(history) - 1 = manifest
  BY <1>3 DEF TypeOK
<1>5. manifestFile.version = manifest
  BY <1>3, <1>4 DEF DirInv, Recoverable, WholeManifest
<1>. QED
  BY <1>1, <1>3, <1>4, <1>5 DEF DirInv, Recoverable

(* The saving steps and compact's removals keep the directory's invariant. *)
LEMMA SaveStep ==
  ASSUME TypeOK, LockInv, DirInv, NEW t \in Threads,
         \/ Add(t) \/ SaveCreate(t) \/ SaveData(t) \/ TmpCreate(t) \/ TmpData(t)
         \/ Rename(t) \/ Bump(t) \/ CompactRemove(t)
  PROVE  DirInv'
<1> USE DEF At, Goto, dir, ghosts
<1>1. CASE Add(t)
  <2>1. CASE index' = index /\ Panic(t)
    BY <1>1, <2>1, QuietSteps, QuietKeeps
  <2>2. CASE ~(index' = index /\ Panic(t))
    <3>1. /\ proc = "up" /\ pc[t] = "add"
          /\ UNCHANGED <<dir, proc, manifest, history, pc>>
      BY <1>1, <2>2 DEF Add, locks
    <3>2. \A u \in Threads : pc[u] \notin SaveLabels
      BY <3>1, WriterAlone DEF HoldsWrite, SaveLabels
    <3>. QED
      BY <3>1, <3>2 DEF DirInv, ProcInv, CreateInv, VersionInv, SaveInv, SaveLabels,
         Recoverable, Snapshot, CreateLabels, Whole, WholeManifest, NoManifest
  <2>. QED
    BY <2>1, <2>2
<1>2. CASE SaveCreate(t) \/ SaveData(t) \/ TmpCreate(t) \/ TmpData(t)
  <2>1. PICK l \in {"save_data", "tmp_create", "tmp_data", "rename"} :
          /\ pc' = [pc EXCEPT ![t] = l]
          /\ proc = "up" /\ pc[t] \in HoldsWrite \ {"bump"}
          /\ UNCHANGED <<manifestFile, proc, index, manifest, history>>
    BY <1>2 DEF SaveCreate, SaveData, TmpCreate, TmpData, TruncateIndex, FillIndex,
       TruncateTmp, FillTmp, HoldsWrite, HoldsManifest
  <2>2. /\ \A u \in Threads : u # t => pc[u] \notin SaveLabels
        /\ manifest + 1 = Len(history) /\ history # <<>>
        /\ manifestFile = WholeManifest(manifest)
        /\ manifest \in DOMAIN files /\ files[manifest] = Whole(Snapshot)
    BY <2>1, WriterAlone
  <2>3. /\ pc'[t] = l
        /\ \A u \in Threads : u # t => pc'[u] \notin SaveLabels
    BY <2>1, <2>2 DEF TypeOK
  <2>4. manifest \in DOMAIN files' /\ files'[manifest] = files[manifest]
    BY <1>2, <2>2 DEF SaveCreate, SaveData, TmpCreate, TmpData, TruncateIndex,
       FillIndex, TruncateTmp, FillTmp, PutFile, TypeOK
  <2>5. Len(history) - 1 = manifest
    BY <2>2 DEF TypeOK
  <2>6. Recoverable'
    BY <2>1, <2>2, <2>4, <2>5 DEF Recoverable, Snapshot, Whole, WholeManifest
  <2>7. ProcInv' /\ CreateInv' /\ VersionInv'
    BY <2>1, <2>2, <2>3 DEF DirInv, ProcInv, CreateInv, VersionInv, CreateLabels,
       SaveLabels
  <2>8. SaveInv'
    <3>1. CASE SaveCreate(t)
      BY <2>3, <3>1 DEF SaveCreate, SaveInv, SaveLabels, TypeOK
    <3>2. CASE SaveData(t)
      BY <2>3, <3>2 DEF SaveData, FillIndex, PutFile, SaveInv, SaveLabels, TypeOK,
         Whole
    <3>3. CASE TmpCreate(t)
      BY <2>3, <3>3 DEF TmpCreate, TruncateTmp, SaveInv, DirInv, SaveLabels, TypeOK,
         Whole
    <3>4. CASE TmpData(t)
      BY <2>3, <3>4 DEF TmpData, FillTmp, SaveInv, DirInv, SaveLabels, TypeOK, Whole,
         WholeManifest
    <3>. QED
      BY <1>2, <3>1, <3>2, <3>3, <3>4
  <2>. QED
    BY <2>6, <2>7, <2>8 DEF DirInv
<1>3. CASE Rename(t)
  <2>1. /\ proc = "up" /\ pc[t] = "rename" /\ pc[t] \in HoldsWrite \ {"bump"}
        /\ pc' = [pc EXCEPT ![t] = "bump"]
        /\ manifestFile' = tmpFile /\ history' = Append(history, index)
        /\ UNCHANGED <<files, proc, index, manifest>>
    BY <1>3 DEF Rename, RenameTmp, HoldsWrite, HoldsManifest
  <2>2. /\ \A u \in Threads : u # t => pc[u] \notin SaveLabels
        /\ manifest + 1 = Len(history) /\ history # <<>>
    BY <2>1, WriterAlone
  <2>3. /\ manifest + 1 \in DOMAIN files
        /\ files[manifest + 1] = Whole(index)
        /\ tmpFile = WholeManifest(manifest + 1)
    BY <2>1 DEF DirInv, SaveInv
  <2>4. /\ Len(history') = manifest + 2 /\ history' # <<>>
        /\ history'[manifest + 2] = index
    <3>1. history \in Seq(Seq(Vectors)) /\ index \in Seq(Vectors) /\ manifest \in Nat
      BY DEF TypeOK
    <3>2. /\ Len(Append(history, index)) = Len(history) + 1
          /\ Append(history, index)[Len(history) + 1] = index
      BY <3>1
    <3>. QED
      BY <2>1, <2>2, <3>1, <3>2
  <2>5. Snapshot' = index /\ Len(history') - 1 = manifest + 1
    BY <2>4 DEF Snapshot, TypeOK
  <2>6. Recoverable'
    BY <2>1, <2>3, <2>4, <2>5 DEF Recoverable, Whole, WholeManifest
  <2>7. \A u \in Threads : pc'[u] \in SaveLabels => u = t /\ pc'[u] = "bump"
    BY <2>1, <2>2 DEF TypeOK
  <2>8. ProcInv' /\ CreateInv' /\ VersionInv' /\ SaveInv'
    BY <2>1, <2>4, <2>7 DEF ProcInv, CreateInv, VersionInv, SaveInv, SaveLabels,
       CreateLabels, TypeOK
  <2>. QED
    BY <2>6, <2>8 DEF DirInv
<1>4. CASE Bump(t)
  <2>1. /\ proc = "up" /\ pc[t] = "bump"
        /\ pc' = [pc EXCEPT ![t] = "idle"]
        /\ manifest' = manifest + 1
        /\ UNCHANGED <<files, manifestFile, tmpFile, proc, index, history>>
    BY <1>4 DEF Bump, Return
  <2>2. \A u \in Threads : pc'[u] \notin SaveLabels
    BY <2>1, OneWriter DEF HoldsWrite, HoldsManifest, SaveLabels, TypeOK
  <2>3. manifest' + 1 = Len(history)
    BY <2>1 DEF DirInv, VersionInv, TypeOK
  <2>4. ProcInv' /\ CreateInv' /\ VersionInv' /\ SaveInv'
    BY <2>1, <2>2, <2>3 DEF DirInv, ProcInv, CreateInv, VersionInv, SaveInv,
       SaveLabels, CreateLabels
  <2>5. Recoverable'
    BY <2>1 DEF DirInv, Recoverable, Snapshot, Whole, WholeManifest, NoManifest
  <2>. QED
    BY <2>4, <2>5 DEF DirInv
<1>5. CASE CompactRemove(t)
  <2>1. /\ proc = "up" /\ pc[t] = "compact_remove"
        /\ pc[t] \in HoldsWrite \ {"bump"} /\ pc[t] \notin SaveLabels
        /\ UNCHANGED <<manifestFile, tmpFile, proc, index, manifest, history, pc>>
    BY <1>5 DEF CompactRemove, HoldsWrite, HoldsManifest, SaveLabels, threads
  <2>2. /\ \A u \in Threads : pc[u] \notin SaveLabels
        /\ manifest + 1 = Len(history) /\ history # <<>>
        /\ manifestFile = WholeManifest(manifest)
        /\ manifest \in DOMAIN files /\ files[manifest] = Whole(Snapshot)
    BY <2>1, WriterAlone
  <2>3. manifest \in DOMAIN files' /\ files'[manifest] = files[manifest]
    BY <1>5, <2>2 DEF CompactRemove
  <2>4. Len(history) - 1 = manifest
    BY <2>2 DEF TypeOK
  <2>5. Recoverable'
    BY <2>1, <2>2, <2>3, <2>4 DEF Recoverable, Snapshot, Whole, WholeManifest
  <2>6. ProcInv' /\ CreateInv' /\ VersionInv' /\ SaveInv'
    BY <2>1, <2>2 DEF DirInv, ProcInv, CreateInv, VersionInv, SaveInv, SaveLabels,
       CreateLabels
  <2>. QED
    BY <2>5, <2>6 DEF DirInv
<1>. QED
  BY <1>1, <1>2, <1>3, <1>4, <1>5

(* create, open, and the death of the process. *)
LEMMA ProcessStep ==
  ASSUME TypeOK, LockInv, DirInv, CreateStart \/ CreateStep \/ Open \/ Crash
  PROVE  DirInv'
<1> USE DEF dir, locks, threads, ghosts
<1>1. CASE CreateStart
  BY <1>1 DEF CreateStart, TruncateIndex, DirInv, ProcInv, CreateInv, VersionInv,
     SaveInv, Recoverable, Snapshot, CreateLabels, WholeManifest, NoManifest
<1>2. CASE CreateStep
  <2>1. CASE proc \in {"create_data", "tmp_create", "tmp_data"}
    BY <1>2, <2>1 DEF CreateStep, FillIndex, TruncateTmp, FillTmp, PutFile, DirInv,
       ProcInv, CreateInv, VersionInv, SaveInv, Recoverable, CreateLabels, Whole,
       WholeManifest, NoManifest
  <2>2. CASE proc = "rename"
    BY <1>2, <2>2 DEF CreateStep, RenameTmp, DirInv, ProcInv, CreateInv, VersionInv,
       SaveInv, Recoverable, Snapshot, CreateLabels, Whole, WholeManifest, TypeOK
  <2>. QED
    BY <1>2, <2>1, <2>2 DEF CreateStep
<1>3. CASE Open
  BY <1>3 DEF Open, DirInv, ProcInv, CreateInv, VersionInv, SaveInv, Recoverable,
     Snapshot, CreateLabels, Whole, WholeManifest, NoManifest, TypeOK
<1>4. CASE Crash
  BY <1>4 DEF Crash, DirInv, ProcInv, CreateInv, VersionInv, SaveInv, Recoverable,
     Snapshot, CreateLabels, Whole, WholeManifest, NoManifest, TypeOK
<1>. QED
  BY <1>1, <1>2, <1>3, <1>4

-----------------------------------------------------------------------------
(* The inductive invariant holds initially, *)
LEMMA InvInit == Init => DiskInv
<1> SUFFICES ASSUME Init PROVE DiskInv
  OBVIOUS
<1>1. TypeOK
  BY TypeInit
<1>2. LockInv
  BY DEF Init, LockInv, HoldsWrite, HoldsManifest, HoldsIndexRead
<1>3. ProcInv /\ CreateInv /\ VersionInv /\ SaveInv /\ Recoverable
  BY DEF Init, ProcInv, CreateInv, VersionInv, SaveInv, Recoverable, CreateLabels
<1>. QED
  BY <1>1, <1>2, <1>3 DEF DiskInv

(* and every step keeps it. *)
LEMMA InvStep == DiskInv /\ [Next]_vars => DiskInv'
<1> SUFFICES ASSUME DiskInv, [Next]_vars PROVE DiskInv'
  OBVIOUS
<1>1. TypeOK /\ LockInv /\ DirInv
  BY DEF DiskInv, DirInv
<1>2. TypeOK' /\ LockInv'
  BY <1>1, TypeStep, LockStep DEF DirInv
<1>3. DirInv'
  <2>1. ASSUME NEW t \in Threads, CallInsert(t) \/ CallOther(t) \/ FailIO(t)
        PROVE  DirInv'
    BY <1>1, <2>1, QuietSteps, QuietKeeps
  <2>2. ASSUME NEW t \in Threads, InsertStep(t) PROVE DirInv'
    BY <1>1, <2>2, QuietSteps, QuietKeeps, SaveStep DEF InsertStep
  <2>3. ASSUME NEW t \in Threads, OtherStep(t) PROVE DirInv'
    BY <1>1, <2>3, QuietSteps, QuietKeeps, SaveStep
  <2>4. CASE CreateStart \/ CreateStep \/ Open \/ Crash
    BY <1>1, <2>4, ProcessStep
  <2>5. ASSUME UNCHANGED <<dir, proc, index, manifest, pc, history>> PROVE DirInv'
    BY <1>1, <2>5 DEF dir, DirInv, ProcInv, CreateInv, VersionInv, SaveInv,
       Recoverable, Snapshot, CreateLabels, Whole, WholeManifest, NoManifest
  <2>6. CASE \E r \in Readers : ViewReadManifest(r) \/ ViewOpenFile(r)
    BY <2>5, <2>6 DEF ViewReadManifest, ViewOpenFile, threads, ghosts
  <2>7. CASE UNCHANGED vars
    BY <2>5, <2>7 DEF vars, threads, ghosts
  <2>. QED
    BY <2>1, <2>2, <2>3, <2>4, <2>6, <2>7 DEF Next, Step
<1>. QED
  BY <1>1, <1>2, <1>3 DEF DiskInv, DirInv

(* Labels, locks, manifest and directory always agree as DiskInv says. *)
THEOREM InvHolds == Spec => []DiskInv
  BY InvInit, InvStep, PTL DEF Spec

(* The type invariant of the whole state. *)
THEOREM TypeCorrect == Spec => []TypeOK
<1>1. DiskInv => TypeOK
  BY DEF DiskInv
<1>. QED
  BY <1>1, InvHolds, PTL

(* At whatever point the process dies or a file operation fails, the       *)
(* directory opens, with exactly the last committed snapshot.              *)
THEOREM AlwaysRecoverable == Spec => []Recoverable
<1>1. DiskInv => Recoverable
  BY DEF DiskInv
<1>. QED
  BY <1>1, InvHolds, PTL

(* The threads never all wait for one another.  The holder of write_lock   *)
(* can be kept waiting only by the readers it must let finish, and those   *)
(* never wait: stats waits for the manifest mutex, whose holder holds      *)
(* write_lock and so cannot be the writer the readers keep out.            *)
THEOREM NeverDeadlocked == Spec => []NoDeadlock
<1>1. DiskInv => NoDeadlock
  <2> SUFFICES ASSUME DiskInv, InCall # {} PROVE \E t \in InCall : ~Blocked(t)
    BY DEF NoDeadlock
  <2> USE DEF Blocked, InCall, HoldsWrite, HoldsManifest, HoldsIndexRead, WriterWaiting
  <2>1. /\ LockInv
        /\ writeLock \in Threads \cup {NoThread}
        /\ manifestLock \in Threads \cup {NoThread}
        /\ indexWriter \in Threads \cup {NoThread}
        /\ indexReaders \subseteq Threads
        /\ pc \in [Threads -> Labels]
    BY DEF DiskInv, TypeOK
  <2>2. CASE writeLock = NoThread
    <3>1. \A t \in Threads : pc[t] \notin HoldsWrite
      BY <2>1, <2>2 DEF LockInv
    <3>2. manifestLock = NoThread /\ indexWriter = NoThread
      BY <2>1, <3>1 DEF LockInv
    <3>. QED
      BY <2>2, <3>1, <3>2
  <2>3. CASE writeLock # NoThread
    <3>1. PICK w \in Threads : writeLock = w /\ pc[w] \in HoldsWrite
      BY <2>1, <2>3 DEF LockInv
    <3>2. \A t \in Threads : pc[t] \in HoldsWrite => t = w
      BY <2>1, <3>1 DEF LockInv
    <3>3. CASE pc[w] = "index_write"
      <4>1. manifestLock = NoThread /\ indexWriter = NoThread
        BY <2>1, <3>2, <3>3 DEF LockInv
      <4>2. CASE indexReaders = {}
        BY <3>3, <4>1, <4>2
      <4>3. CASE indexReaders # {}
        <5>1. PICK r \in indexReaders : pc[r] \in HoldsIndexRead
          BY <2>1, <4>3 DEF LockInv
        <5>. QED
          BY <2>1, <4>1, <5>1
      <4>. QED
        BY <4>2, <4>3
    <3>4. CASE pc[w] \in {"save_manifest", "compact_manifest"}
      <4>1. manifestLock = NoThread
        BY <2>1, <3>2, <3>4 DEF LockInv
      <4>. QED
        BY <3>4, <4>1
    <3>5. CASE pc[w] = "save_read"
      <4>1. indexWriter = NoThread /\ ~WriterWaiting
        BY <2>1, <3>2, <3>5 DEF LockInv
      <4>. QED
        BY <3>5, <4>1
    <3>6. CASE pc[w] \notin {"index_write", "save_manifest", "compact_manifest",
                            "save_read"}
      BY <3>1, <3>6
    <3>. QED
      BY <3>3, <3>4, <3>5, <3>6
  <2>. QED
    BY <2>2, <2>3
<1>. QED
  BY <1>1, InvHolds, PTL

-----------------------------------------------------------------------------
(* Lists.  What is at its place in a list is there in a longer one.        *)
LEMMA HoldsAppend ==
  ASSUME NEW S, NEW s \in Seq(S), NEW e \in S, NEW n \in Nat, NEW id \in Nat,
         NEW b, Holds(n, b, id, s)
  PROVE  Holds(n, b, id, Append(s, e))
  BY DEF Holds

LEMMA HoldsPrefix ==
  ASSUME NEW S, NEW s \in Seq(S), NEW u \in Seq(S), NEW n \in Nat, NEW id \in Nat,
         NEW b, Prefix(s, u), Holds(n, b, id, s)
  PROVE  Holds(n, b, id, u)
  BY DEF Prefix, Holds

LEMMA PrefixAppend ==
  ASSUME NEW S, NEW s \in Seq(S), NEW u \in Seq(S), NEW e \in S, Prefix(s, u)
  PROVE  Prefix(s, Append(u, e))
  BY HoldsAppend DEF Prefix

LEMMA PrefixSelf ==
  ASSUME NEW S, NEW s \in Seq(S) PROVE Prefix(s, s)
  BY DEF Prefix, Holds

LEMMA AppendFacts ==
  ASSUME NEW S, NEW s \in Seq(S), NEW e \in S
  PROVE  /\ Len(Append(s, e)) = Len(s) + 1 /\ Append(s, e) # <<>>
         /\ \A i \in 1..Len(s) : Append(s, e)[i] = s[i]
         /\ Append(s, e)[Len(s) + 1] = e
  OBVIOUS

(* The last snapshot is a list of vectors. *)
LEMMA SnapshotType == ASSUME TypeOK PROVE Snapshot \in Seq(Vectors)
  BY DEF TypeOK, Snapshot

(* The batch of an acknowledged insert is where it was said to be. *)
LEMMA AckedHolds ==
  AckedDurable <=> \A a \in acked : Holds(Len(a.batch), a.batch, a.first, Snapshot)
  BY DEF AckedDurable, Store!Occupies, Holds

-----------------------------------------------------------------------------
(* One thread moves, the others stay where they are. *)
OthersStay(t) == \A u \in Threads : u # t => pc'[u] = pc[u] /\ call'[u] = call[u]

(* The steps of a thread that touch no vector: where they lead, and that   *)
(* they leave the insert of the thread as it is, or end it.                *)
Placed == Saving \cup {"add"}

Still(t) ==
  /\ UNCHANGED <<proc, index, history, acked>>
  /\ OthersStay(t)
  /\ \/ pc'[t] \notin Placed
     \/ /\ pc[t] \in Placed \ {"bump"} /\ pc'[t] \in Saving \ {"bump"}
        /\ call'[t] = call[t]

LEMMA ReturnStill ==
  ASSUME TypeOK, NEW t \in Threads, Return(t), UNCHANGED <<proc, index, history, acked>>
  PROVE  Still(t) /\ pc'[t] = "idle" /\ call'[t] = NoCall
  BY DEF TypeOK, Return, Goto, Still, OthersStay, Placed, Saving

LEMMA PanicStill ==
  ASSUME TypeOK, NEW t \in Threads, Panic(t), UNCHANGED call,
         UNCHANGED <<proc, index, history, acked>>
  PROVE  Still(t) /\ pc'[t] = "panicked" /\ call'[t] = call[t]
  BY DEF TypeOK, Panic, Goto, Still, OthersStay, Placed, Saving

LEMMA StillSteps ==
  ASSUME TypeOK, NEW t \in Threads,
         \/ CallInsert(t) \/ CallOther(t) \/ LockWrite(t)
         \/ (Add(t) /\ index' = index /\ Panic(t)) \/ AddDone(t)
         \/ SaveManifest(t) \/ SaveRead(t) \/ SaveCreate(t) \/ SaveData(t)
         \/ TmpCreate(t) \/ TmpData(t) \/ OtherStep(t) \/ FailIO(t)
  PROVE  Still(t)
<1> USE DEF At, Goto, ghosts, threads
<1>1. CASE Return(t) /\ UNCHANGED <<proc, index, history, acked>>
  BY <1>1, ReturnStill
<1>2. CASE Panic(t) /\ UNCHANGED call /\ UNCHANGED <<proc, index, history, acked>>
  BY <1>2, PanicStill
<1>3. CASE CallInsert(t) \/ CallOther(t)
  <2>1. pc'[t] \in {"write_lock", "compact_lock", "search_read", "stats_read"}
    BY <1>3 DEF CallInsert, CallOther, TypeOK
  <2>2. OthersStay(t) /\ UNCHANGED <<proc, index, history, acked>>
    BY <1>3 DEF CallInsert, CallOther, TypeOK, OthersStay
  <2>. QED
    BY <2>1, <2>2 DEF Still, Placed, Saving
<1>4. CASE LockWrite(t) /\ ~Panic(t)
  BY <1>4 DEF LockWrite, AcquireWriteLock, TypeOK, Still, OthersStay, Placed, Saving
<1>5. CASE AddDone(t) \/ SaveCreate(t) \/ SaveData(t) \/ TmpCreate(t) \/ TmpData(t)
  BY <1>5 DEF AddDone, SaveCreate, SaveData, TmpCreate, TmpData, TypeOK, Still,
     OthersStay, Placed, Saving
<1>6. CASE (SaveManifest(t) \/ SaveRead(t)) /\ ~Panic(t)
  BY <1>6 DEF SaveManifest, SaveRead, AcquireManifest, AcquireIndexRead, TypeOK, Still,
     OthersStay, Placed, Saving
<1>7. CASE (CompactLock(t) \/ CompactManifest(t)) /\ ~Panic(t)
  BY <1>7 DEF CompactLock, CompactManifest, AcquireWriteLock, AcquireManifest, TypeOK,
     Still, OthersStay, Placed, Saving
<1>8. CASE CompactRemove(t)
  <2>1. At(t, "compact_remove") /\ pc' = pc /\ call' = call
        /\ UNCHANGED <<proc, index, history, acked>>
    BY <1>8 DEF CompactRemove
  <2>. QED
    BY <2>1 DEF TypeOK, Still, OthersStay, Placed, Saving
<1>9. CASE (SearchRead(t) \/ StatsRead(t)) /\ ~Panic(t)
  BY <1>9 DEF SearchRead, StatsRead, AcquireIndexRead, TypeOK, Still, OthersStay,
     Placed, Saving
<1>10. CASE CompactDone(t) \/ SearchScan(t) \/ StatsManifest(t) \/ FailIO(t)
  BY <1>10, <1>1, <1>2 DEF CompactDone, SearchScan, StatsManifest, FailIO
<1>11. CASE LockWrite(t) \/ SaveManifest(t) \/ SaveRead(t) \/ CompactLock(t)
            \/ CompactManifest(t) \/ SearchRead(t) \/ StatsRead(t)
  <2>1. CASE Panic(t)
    BY <1>11, <2>1, <1>2 DEF LockWrite, SaveManifest, SaveRead, CompactLock,
       CompactManifest, SearchRead, StatsRead
  <2>. QED
    BY <1>11, <2>1, <1>4, <1>6, <1>7, <1>9
<1>12. CASE Add(t) /\ index' = index /\ Panic(t)
  <2>1. UNCHANGED <<proc, history, acked, call>>
    BY <1>12 DEF Add, Panic, TypeOK
  <2>. QED
    BY <1>12, <2>1, <1>2
<1>. QED
  BY <1>3, <1>5, <1>8, <1>10, <1>11, <1>12, Zenon DEF OtherStep

-----------------------------------------------------------------------------
(* CallInv.  What it says of one thread. *)
CallAt(t) ==
  /\ pc[t] \notin Saving \cup {"add", "panicked"} => call[t].added = 0
  /\ pc[t] = "add" => call[t].added <= Len(call[t].batch)
  /\ pc[t] \in Saving => call[t].added = Len(call[t].batch)

LEMMA CallAtReturn ==
  ASSUME TypeOK, NEW t \in Threads, Return(t) PROVE OthersStay(t) /\ CallAt(t)'
<1>1. /\ pc' = [pc EXCEPT ![t] = "idle"] /\ call' = [call EXCEPT ![t] = NoCall]
      /\ pc \in [Threads -> Labels] /\ call \in [Threads -> CallType]
  BY DEF TypeOK, Return, Goto
<1>2. pc'[t] = "idle" /\ call'[t].added = 0
  BY <1>1 DEF NoCall
<1>. QED
  BY <1>1, <1>2 DEF OthersStay, CallAt, Saving

LEMMA CallAtPanic ==
  ASSUME TypeOK, NEW t \in Threads, Panic(t), UNCHANGED call
  PROVE  OthersStay(t) /\ CallAt(t)'
<1>1. pc' = [pc EXCEPT ![t] = "panicked"] /\ pc \in [Threads -> Labels] /\ call' = call
  BY DEF TypeOK, Panic, Goto
<1>. QED
  BY <1>1 DEF OthersStay, CallAt, Saving

LEMMA CallStep ==
  ASSUME TypeOK, CallInv, NEW t \in Threads,
         CallInsert(t) \/ CallOther(t) \/ InsertStep(t) \/ OtherStep(t) \/ FailIO(t)
  PROVE  OthersStay(t) /\ CallAt(t)'
<1> USE DEF At, Goto, threads
<1>0. CallAt(t) /\ call[t] \in CallType /\ Len(call[t].batch) \in Nat
  <2>1. CallAt(t)
    BY DEF CallInv, CallAt
  <2>2. call[t] \in CallType
    BY DEF TypeOK
  <2>3. call[t].batch \in Seq(Vectors \cup {Malformed})
    BY <2>2 DEF CallType
  <2>. QED
    BY <2>1, <2>2, <2>3
<1>1. CASE CallInsert(t)
  <2>1. PICK b \in Batches : call' = [call EXCEPT ![t].batch = b]
    BY <1>1 DEF CallInsert
  <2>2. /\ pc[t] = "idle" /\ pc' = [pc EXCEPT ![t] = "write_lock"]
        /\ call'[t].added = call[t].added
        /\ \A u \in Threads : u # t => call'[u] = call[u]
    BY <1>1, <2>1 DEF CallInsert, TypeOK, CallType
  <2>. QED
    BY <1>0, <2>2 DEF TypeOK, OthersStay, CallAt, Saving
<1>2. CASE CallOther(t)
  BY <1>0, <1>2 DEF CallOther, TypeOK, OthersStay, CallAt, Saving
<1>3. CASE LockWrite(t) \/ CompactLock(t) \/ SaveManifest(t) \/ CompactManifest(t)
           \/ SaveRead(t) \/ SearchRead(t) \/ StatsRead(t)
  <2>1. CASE Panic(t)
    BY <1>3, <2>1, CallAtPanic DEF LockWrite, CompactLock, SaveManifest,
       CompactManifest, SaveRead, SearchRead, StatsRead
  <2>2. CASE ~Panic(t)
    BY <1>0, <1>3, <2>2 DEF LockWrite, CompactLock, SaveManifest, CompactManifest,
       SaveRead, SearchRead, StatsRead, AcquireWriteLock, AcquireManifest,
       AcquireIndexRead, TypeOK, OthersStay, CallAt, Saving
  <2>. QED
    BY <2>1, <2>2
<1>4. CASE LockIndexWrite(t)
  <2>1. CASE Panic(t) /\ UNCHANGED call
    BY <2>1, CallAtPanic
  <2>2. CASE ~(Panic(t) /\ UNCHANGED call)
    <3>1. PICK n : call' = [call EXCEPT ![t].first = n]
      BY <1>4, <2>2 DEF LockIndexWrite
    <3>2. /\ pc[t] = "index_write" /\ pc' = [pc EXCEPT ![t] = "add"]
          /\ call'[t].added = call[t].added /\ call'[t].batch = call[t].batch
          /\ \A u \in Threads : u # t => call'[u] = call[u]
      BY <1>4, <2>2, <3>1 DEF LockIndexWrite, TypeOK, CallType
    <3>. QED
      BY <1>0, <3>2 DEF TypeOK, OthersStay, CallAt, Saving
  <2>. QED
    BY <2>1, <2>2
<1>5. CASE Add(t)
  <2>1. CASE Panic(t) /\ UNCHANGED <<index, call>>
    BY <2>1, CallAtPanic
  <2>2. CASE ~(Panic(t) /\ UNCHANGED <<index, call>>)
    <3>1. /\ call' = [call EXCEPT ![t].added = call[t].added + 1]
          /\ pc' = pc /\ pc[t] = "add" /\ call[t].added < Len(call[t].batch)
      BY <1>5, <2>2 DEF Add
    <3>2. /\ call'[t].added = call[t].added + 1 /\ call'[t].batch = call[t].batch
          /\ \A u \in Threads : u # t => call'[u] = call[u]
      BY <3>1 DEF TypeOK, CallType
    <3>. QED
      BY <1>0, <3>1, <3>2 DEF OthersStay, CallAt, Saving, CallType
  <2>. QED
    BY <2>1, <2>2
<1>6. CASE AddDone(t) \/ SaveCreate(t) \/ SaveData(t) \/ TmpCreate(t) \/ TmpData(t)
           \/ Rename(t)
  BY <1>0, <1>6 DEF AddDone, SaveCreate, SaveData, TmpCreate, TmpData, Rename, TypeOK,
     OthersStay, CallAt, Saving
<1>7. CASE Bump(t) \/ CompactDone(t) \/ SearchScan(t) \/ FailIO(t)
  BY <1>7, CallAtReturn DEF Bump, CompactDone, SearchScan, FailIO
<1>8. CASE CompactRemove(t)
  BY <1>0, <1>8 DEF CompactRemove, OthersStay, CallAt, Saving
<1>9. CASE StatsManifest(t)
  BY <1>9, CallAtReturn, CallAtPanic DEF StatsManifest
<1>. QED
  BY <1>1, <1>2, <1>3, <1>4, <1>5, <1>6, <1>7, <1>8, <1>9, Zenon DEF InsertStep, OtherStep

LEMMA CallKeeps ==
  ASSUME CallInv, NEW t \in Threads, OthersStay(t), CallAt(t)' PROVE CallInv'
  BY DEF CallInv, CallAt, OthersStay

-----------------------------------------------------------------------------
(* PlaceInv.  A still step keeps it; the others are those of the writer,   *)
(* who is alone.                                                           *)
LEMMA PlaceStill ==
  ASSUME TypeOK, PlaceInv, NEW t \in Threads, Still(t) PROVE PlaceInv'
<1>1. Snapshot' = Snapshot /\ UNCHANGED <<index, acked>>
  BY DEF Still, Snapshot
<1>2. ASSUME NEW u \in Threads, u # t, pc'[u] \in Saving \cup {"add"} PROVE Place(u)'
  <2>1. Place(u) /\ pc'[u] = pc[u] /\ call'[u] = call[u]
    BY <1>2 DEF Still, OthersStay, PlaceInv
  <2>. QED
    BY <1>1, <2>1 DEF Place, Holds
<1>3. ASSUME pc'[t] \in Saving \cup {"add"} PROVE Place(t)'
  <2>1. /\ Place(t) /\ pc[t] # "bump" /\ call'[t] = call[t]
        /\ pc'[t] # "bump" /\ pc'[t] # "add"
    BY <1>3 DEF Still, Placed, PlaceInv, Saving
  <2>. QED
    BY <1>1, <2>1 DEF Place, Holds
<1>. QED
  BY <1>2, <1>3 DEF PlaceInv

(* While one thread is at a label that PlaceInv speaks of, no other is.    *)
LEMMA PlacedAlone ==
  ASSUME LockInv, NEW t \in Threads, NEW u \in Threads, pc[t] \in HoldsWrite, u # t
  PROVE  pc[u] \notin Saving \cup {"add"}
  BY OneWriter DEF HoldsWrite, HoldsManifest, Saving

(* No acknowledged insert reaches past the last snapshot. *)
LEMMA AckedBelow ==
  ASSUME TypeOK, AckedDurable, NEW a \in acked
  PROVE  /\ a.first \in Nat /\ Len(a.batch) \in Nat
         /\ a.first + Len(a.batch) <= Len(Snapshot)
<1>1. a.first \in Nat /\ a.batch \in Seq(Vectors \cup {Malformed})
  BY DEF TypeOK
<1>. QED
  BY <1>1, AckedHolds DEF Holds

LEMMA PlaceLock ==
  ASSUME TypeOK, LockInv, CallInv, PlaceInv, PrefixInv, AckedDurable, NEW t \in Threads,
         LockIndexWrite(t)
  PROVE  PlaceInv'
<1> USE DEF At, Goto, ghosts
<1>1. CASE Panic(t) /\ UNCHANGED call
  BY <1>1, PanicStill, PlaceStill DEF LockIndexWrite
<1>2. CASE ~(Panic(t) /\ UNCHANGED call)
  <2> DEFINE n == IF call[t].batch = <<>> THEN 0 ELSE Len(index)
  <2>1. /\ proc = "up" /\ pc[t] = "index_write" /\ pc' = [pc EXCEPT ![t] = "add"]
        /\ call' = [call EXCEPT ![t].first = n]
        /\ UNCHANGED <<index, history, acked>>
    BY <1>2 DEF LockIndexWrite
  <2>2. /\ call'[t].first = n /\ call'[t].added = 0 /\ call'[t].batch = call[t].batch
        /\ pc'[t] = "add"
    <3>1. call[t].added = 0
      BY <2>1 DEF CallInv, Saving
    <3>2. pc \in [Threads -> Labels] /\ call \in [Threads -> CallType]
      BY DEF TypeOK
    <3>3. call[t] \in CallType
      BY <3>2
    <3>. HIDE DEF n
    <3>. QED
      BY <2>1, <3>1, <3>2, <3>3 DEF CallType
  <2>3. Snapshot' = Snapshot /\ Len(Snapshot) <= Len(index) /\ Len(index) \in Nat
        /\ Len(Snapshot) \in Nat
    BY <2>1, SnapshotType DEF Snapshot, PrefixInv, Prefix, Holds, TypeOK
  <2>4. \A a \in acked : a.first + Len(a.batch) <= Len(index)
    BY <2>3, AckedBelow
  <2>5. Place(t)'
    BY <2>1, <2>2, <2>3, <2>4 DEF Place, Holds
  <2>6. \A u \in Threads : u # t => pc'[u] \notin Saving \cup {"add"}
    BY <2>1, PlacedAlone DEF TypeOK, HoldsWrite
  <2>. QED
    BY <2>5, <2>6 DEF PlaceInv
<1>. QED
  BY <1>1, <1>2

LEMMA PlaceAdd ==
  ASSUME TypeOK, LockInv, PlaceInv, NEW t \in Threads, Add(t) PROVE PlaceInv'
<1> USE DEF At, ghosts
<1>1. CASE Panic(t) /\ UNCHANGED <<index, call>>
  BY <1>1, PanicStill, PlaceStill DEF Add
<1>2. CASE ~(Panic(t) /\ UNCHANGED <<index, call>>)
  <2> DEFINE c == call[t]
             v == c.batch[c.added + 1]
  <2>1. /\ pc[t] = "add" /\ pc' = pc /\ c.added < Len(c.batch) /\ v \in Vectors
        /\ index' = Append(index, v)
        /\ call' = [call EXCEPT ![t].added = c.added + 1]
        /\ UNCHANGED <<history, acked>>
    BY <1>2 DEF Add
  <2>2. /\ call'[t].first = c.first /\ call'[t].added = c.added + 1
        /\ call'[t].batch = c.batch
        /\ c.first \in Nat /\ c.added \in Nat /\ Len(c.batch) \in Nat
        /\ index \in Seq(Vectors)
    <3>1. /\ c \in CallType /\ call \in [Threads -> CallType]
          /\ index \in Seq(Vectors)
      BY DEF TypeOK
    <3>2. c.first \in Nat /\ c.added \in Nat /\ Len(c.batch) \in Nat
      BY <3>1 DEF CallType
    <3>3. /\ call'[t].first = c.first /\ call'[t].added = c.added + 1
          /\ call'[t].batch = c.batch
      <4>. HIDE DEF v
      <4>. QED
        BY <2>1, <3>1 DEF CallType
    <3>. QED
      BY <3>1, <3>2, <3>3
  <2>3. Place(t) /\ c.batch # <<>>
    <3>1. Place(t)
      <4>1. pc[t] \in Saving \cup {"add"}
        BY <2>1
      <4>. QED
        BY <4>1 DEF PlaceInv
    <3>2. c.batch # <<>>
      BY <2>1, <2>2
    <3>. QED
      BY <3>1, <3>2
  <2>4. Len(index) = c.first + c.added /\ Holds(c.added, c.batch, c.first, index)
    BY <2>1, <2>3 DEF Place
  <2>5. Holds(c.added + 1, c.batch, c.first, Append(index, v))
    <3>1. /\ Len(Append(index, v)) = Len(index) + 1
          /\ \A i \in 1..Len(index) : Append(index, v)[i] = index[i]
          /\ Append(index, v)[Len(index) + 1] = v
      <4>. HIDE DEF v
      <4>. QED
        BY <2>1, <2>2, AppendFacts
    <3>2. ASSUME NEW i \in 1..c.added + 1
          PROVE  Append(index, v)[c.first + i] = c.batch[i]
      <4>1. CASE i = c.added + 1
        <5>1. c.first + i = Len(index) + 1
          <6>. HIDE DEF c, v
          <6>. QED
            BY <2>2, <2>4, <4>1
        <5>. QED
          BY <3>1, <4>1, <5>1
      <4>2. CASE i # c.added + 1
        <5>1. i \in 1..c.added /\ c.first + i \in 1..Len(index)
          BY <2>2, <2>4, <4>2
        <5>2. index[c.first + i] = c.batch[i]
          BY <2>4, <5>1 DEF Holds
        <5>. HIDE DEF v
        <5>. QED
          BY <3>1, <5>1, <5>2
      <4>. QED
        BY <4>1, <4>2
    <3>3. c.first + (c.added + 1) <= Len(Append(index, v))
      <4>. HIDE DEF v
      <4>. QED
        BY <2>2, <2>4, <3>1
    <3>. HIDE DEF v
    <3>. QED
      BY <3>2, <3>3 DEF Holds
  <2>6. Snapshot' = Snapshot /\ Len(index') = Len(index) + 1
    BY <2>1, <2>2 DEF Snapshot
  <2>7. Place(t)'
    <3>1. /\ Len(Snapshot) <= c.first
          /\ \A a \in acked : a.first + Len(a.batch) <= c.first
      BY <2>1, <2>3 DEF Place
    <3>2. Holds(c.added + 1, c.batch, c.first, index')
      BY <2>1, <2>5
    <3>3. Len(index') = c.first + (c.added + 1)
      <4>. HIDE DEF c, v
      <4>. QED
        BY <2>2, <2>4, <2>6
    <3>4. pc'[t] = "add" /\ acked' = acked
      BY <2>1
    <3>. HIDE DEF c, v
    <3>. QED
      BY <2>2, <2>6, <3>1, <3>2, <3>3, <3>4 DEF Place
  <2>8. \A u \in Threads : u # t => pc'[u] \notin Saving \cup {"add"}
    BY <2>1, PlacedAlone DEF HoldsWrite
  <2>. QED
    BY <2>7, <2>8 DEF PlaceInv
<1>. QED
  BY <1>1, <1>2

LEMMA PlaceRename ==
  ASSUME TypeOK, LockInv, PlaceInv, NEW t \in Threads, Rename(t)
  PROVE  PlaceInv' /\ Snapshot' = index
<1> USE DEF At, Goto
<1>1. /\ pc[t] = "rename" /\ pc' = [pc EXCEPT ![t] = "bump"]
      /\ history' = Append(history, index) /\ UNCHANGED <<index, call, acked>>
  BY DEF Rename, RenameTmp
<1>2. Snapshot' = index
  <2>1. history \in Seq(Seq(Vectors)) /\ index \in Seq(Vectors)
    BY DEF TypeOK
  <2>2. /\ Len(Append(history, index)) = Len(history) + 1
        /\ Append(history, index)[Len(history) + 1] = index
        /\ Append(history, index) # <<>>
    BY <2>1, AppendFacts
  <2>. QED
    BY <1>1, <2>2 DEF Snapshot
<1>3. pc'[t] = "bump" /\ \A u \in Threads : u # t => pc'[u] = pc[u]
  BY <1>1 DEF TypeOK
<1>4. Place(t)
  BY <1>1 DEF PlaceInv, Saving
<1>5. Place(t)'
  BY <1>1, <1>2, <1>3, <1>4 DEF Place, Holds
<1>6. \A u \in Threads : u # t => pc'[u] \notin Saving \cup {"add"}
  BY <1>1, <1>3, PlacedAlone DEF HoldsWrite, HoldsManifest
<1>. QED
  BY <1>2, <1>5, <1>6 DEF PlaceInv

LEMMA PlaceBump ==
  ASSUME TypeOK, LockInv, PlaceInv, NEW t \in Threads, Bump(t) PROVE PlaceInv'
<1> USE DEF At, Goto
<1>1. pc[t] = "bump" /\ pc' = [pc EXCEPT ![t] = "idle"]
  BY DEF Bump, Return
<1>2. \A u \in Threads : pc'[u] \notin Saving \cup {"add"}
  BY <1>1, PlacedAlone DEF HoldsWrite, HoldsManifest, Saving, TypeOK
<1>. QED
  BY <1>2 DEF PlaceInv

-----------------------------------------------------------------------------
(* PoisonInv, in two parts. *)
LockPoison ==
  /\ "write" \in poisoned => writeLock = NoThread
  /\ "index" \in poisoned => indexWriter = NoThread /\ indexReaders = {}
  /\ indexWriter # NoThread => indexReaders = {}

PanicAt(t) ==
  pc[t] = "panicked" /\ call[t].added \in 1..Len(call[t].batch) - 1 =>
    /\ {"write", "index"} \subseteq poisoned
    /\ Len(Snapshot) <= call[t].first

LEMMA PoisonParts == PoisonInv <=> LockPoison /\ \A t \in Threads : PanicAt(t)
  BY DEF PoisonInv, LockPoison, PanicAt

(* A step of a thread that does not panic. *)
LEMMA PoisonCalm ==
  ASSUME PoisonInv, NEW t \in Threads, UNCHANGED poisoned, LockPoison',
         OthersStay(t), pc'[t] # "panicked",
         \/ Snapshot' = Snapshot
         \/ "write" \notin poisoned
  PROVE  PoisonInv'
<1>1. ASSUME NEW u \in Threads PROVE PanicAt(u)'
  <2>1. CASE u = t
    BY <2>1 DEF PanicAt
  <2>2. CASE u # t
    <3>1. PanicAt(u) /\ pc'[u] = pc[u] /\ call'[u] = call[u]
      BY <2>2, PoisonParts DEF OthersStay
    <3>2. CASE Snapshot' = Snapshot
      BY <3>1, <3>2 DEF PanicAt
    <3>3. CASE "write" \notin poisoned
      BY <3>1, <3>3 DEF PanicAt
    <3>. QED
      BY <3>2, <3>3
  <2>. QED
    BY <2>1, <2>2
<1>. QED
  BY <1>1 DEF PoisonInv, LockPoison, PanicAt

(* A thread that panics: in the middle of a batch it holds both locks.     *)
LEMMA PoisonPanic ==
  ASSUME TypeOK, LockInv, CallInv, PlaceInv, PoisonInv, NEW t \in Threads,
         Panic(t), UNCHANGED <<call, history>>, pc[t] # "panicked"
  PROVE  PoisonInv'
<1>1. /\ pc'[t] = "panicked" /\ \A u \in Threads : u # t => pc'[u] = pc[u]
      /\ call' = call /\ Snapshot' = Snapshot
      /\ poisoned \subseteq poisoned'
  BY DEF Panic, Goto, TypeOK, Snapshot
<1>2. LockPoison'
  BY PoisonParts DEF LockPoison, Panic, DropAll, Drop, Owner, TypeOK
<1>3. ASSUME NEW u \in Threads, u # t PROVE PanicAt(u)'
  <2>1. PanicAt(u)
    BY PoisonParts
  <2>. QED
    BY <1>1, <1>3, <2>1 DEF PanicAt
<1>4. ASSUME call[t].added \in 1..Len(call[t].batch) - 1 PROVE PanicAt(t)'
  <2>1. pc[t] = "add"
    <3>1. Len(call[t].batch) \in Nat
      BY DEF TypeOK, CallType
    <3>2. call[t].added # 0 /\ call[t].added # Len(call[t].batch)
      BY <1>4, <3>1
    <3>. QED
      BY <3>2 DEF CallInv
  <2>2. writeLock = t /\ indexWriter = t
    BY <2>1 DEF LockInv, HoldsWrite
  <2>3. {"write", "index"} \subseteq poisoned'
    BY <2>2 DEF Panic, Owner
  <2>4. Place(t) /\ call[t].batch # <<>>
    <3>1. Place(t)
      BY <2>1 DEF PlaceInv
    <3>2. call[t].batch # <<>>
      BY <1>4
    <3>. QED
      BY <3>1, <3>2
  <2>5. Len(Snapshot) <= call[t].first
    BY <2>1, <2>4 DEF Place
  <2>. QED
    BY <1>1, <2>3, <2>5 DEF PanicAt
<1>5. PanicAt(t)'
  BY <1>1, <1>4 DEF PanicAt
<1>6. \A u \in Threads : PanicAt(u)'
  BY <1>3, <1>5
<1>. QED
  BY <1>2, <1>6 DEF PoisonInv, LockPoison, PanicAt

LEMMA PoisonReturn ==
  ASSUME TypeOK, PoisonInv, NEW t \in Threads, Return(t), UNCHANGED history
  PROVE  PoisonInv'
<1>1. LockPoison' /\ UNCHANGED poisoned /\ Snapshot' = Snapshot /\ pc'[t] # "panicked"
  BY PoisonParts DEF LockPoison, Return, Goto, DropAll, Drop, TypeOK, Snapshot
<1>. QED
  BY <1>1, CallAtReturn, PoisonCalm

(* The same for every step of a thread. *)
LEMMA PoisonStep ==
  ASSUME TypeOK, LockInv, CallInv, PlaceInv, PoisonInv, NEW t \in Threads,
         CallInsert(t) \/ CallOther(t) \/ InsertStep(t) \/ OtherStep(t) \/ FailIO(t)
  PROVE  PoisonInv'
<1> USE DEF At, Goto, threads, locks, ghosts
<1>0. OthersStay(t) /\ LockPoison /\ \A u \in Threads : u # NoThread
  BY CallStep, PoisonParts
<1>1. CASE CallInsert(t) \/ CallOther(t)
  <2>1. /\ UNCHANGED <<locks, history>> /\ pc'[t] # "panicked"
    BY <1>1 DEF CallInsert, CallOther, TypeOK
  <2>. QED
    BY <1>0, <2>1, PoisonCalm DEF LockPoison, Snapshot
<1>2. CASE LockWrite(t) \/ CompactLock(t) \/ SaveManifest(t) \/ CompactManifest(t)
           \/ SaveRead(t) \/ SearchRead(t) \/ StatsRead(t)
  <2>1. UNCHANGED <<call, history>> /\ pc[t] # "panicked"
    BY <1>2 DEF LockWrite, CompactLock, SaveManifest, CompactManifest, SaveRead,
       SearchRead, StatsRead, AcquireWriteLock, AcquireManifest, AcquireIndexRead
  <2>2. CASE Panic(t)
    BY <2>1, <2>2, PoisonPanic
  <2>3. CASE ~Panic(t)
    <3>1. LockPoison' /\ UNCHANGED poisoned /\ pc'[t] # "panicked"
      BY <1>0, <1>2, <2>3 DEF LockWrite, CompactLock, SaveManifest, CompactManifest,
         SaveRead, SearchRead, StatsRead, AcquireWriteLock, AcquireManifest,
         AcquireIndexRead, LockPoison, TypeOK
    <3>. QED
      BY <1>0, <2>1, <3>1, PoisonCalm DEF Snapshot
  <2>. QED
    BY <2>2, <2>3
<1>3. CASE LockIndexWrite(t)
  <2>1. CASE Panic(t) /\ UNCHANGED call
    BY <1>3, <2>1, PoisonPanic DEF LockIndexWrite
  <2>2. CASE ~(Panic(t) /\ UNCHANGED call)
    <3>1. /\ UNCHANGED <<poisoned, history>> /\ pc'[t] # "panicked" /\ LockPoison'
      BY <1>0, <1>3, <2>2 DEF LockIndexWrite, LockPoison, TypeOK
    <3>. QED
      BY <1>0, <3>1, PoisonCalm DEF Snapshot
  <2>. QED
    BY <2>1, <2>2
<1>4. CASE Add(t)
  <2>1. CASE Panic(t) /\ UNCHANGED <<index, call>>
    BY <1>4, <2>1, PoisonPanic DEF Add
  <2>2. CASE ~(Panic(t) /\ UNCHANGED <<index, call>>)
    <3>1. /\ UNCHANGED <<locks, history>> /\ pc'[t] # "panicked"
      BY <1>4, <2>2 DEF Add
    <3>. QED
      BY <1>0, <3>1, PoisonCalm DEF Snapshot, LockPoison
  <2>. QED
    BY <2>1, <2>2
<1>5. CASE AddDone(t) \/ SaveCreate(t) \/ SaveData(t) \/ TmpCreate(t) \/ TmpData(t)
  <2>1. LockPoison' /\ UNCHANGED <<poisoned, history>> /\ pc'[t] # "panicked"
    BY <1>0, <1>5 DEF AddDone, SaveCreate, SaveData, TmpCreate, TmpData, LockPoison, TypeOK
  <2>. QED
    BY <1>0, <2>1, PoisonCalm DEF Snapshot
<1>6. CASE Rename(t)
  <2>1. UNCHANGED locks /\ pc[t] = "rename" /\ pc'[t] # "panicked"
    BY <1>6 DEF Rename, TypeOK
  <2>2. writeLock = t
    BY <2>1 DEF LockInv, HoldsWrite, HoldsManifest
  <2>3. "write" \notin poisoned
    BY <1>0, <2>2 DEF LockPoison
  <2>. QED
    BY <1>0, <2>1, <2>3, PoisonCalm DEF LockPoison
<1>7. CASE Bump(t) \/ CompactDone(t) \/ SearchScan(t) \/ FailIO(t)
  BY <1>7, PoisonReturn DEF Bump, CompactDone, SearchScan, FailIO
<1>8. CASE CompactRemove(t)
  <2>1. UNCHANGED <<locks, history>> /\ pc'[t] # "panicked"
    BY <1>8 DEF CompactRemove
  <2>. QED
    BY <1>0, <2>1, PoisonCalm DEF Snapshot, LockPoison
<1>9. CASE StatsManifest(t)
  BY <1>9, PoisonReturn, PoisonPanic DEF StatsManifest
<1>. QED
  BY <1>1, <1>2, <1>3, <1>4, <1>5, <1>6, <1>7, <1>8, <1>9, Zenon DEF InsertStep, OtherStep

-----------------------------------------------------------------------------
(* AckInv.  Every step of a thread is still, or one of these.              *)
LEMMA StepKinds ==
  ASSUME TypeOK, NEW t \in Threads,
         CallInsert(t) \/ CallOther(t) \/ InsertStep(t) \/ OtherStep(t) \/ FailIO(t)
  PROVE  \/ Still(t)
         \/ LockIndexWrite(t)
         \/ Add(t) /\ ~(index' = index /\ Panic(t))
         \/ Rename(t)
         \/ Bump(t)
  BY StillSteps, Zenon DEF InsertStep

LEMMA PlaceStep ==
  ASSUME TypeOK, LockInv, CallInv, PlaceInv, PrefixInv, AckedDurable, NEW t \in Threads,
         CallInsert(t) \/ CallOther(t) \/ InsertStep(t) \/ OtherStep(t) \/ FailIO(t)
  PROVE  PlaceInv'
  BY StepKinds, PlaceStill, PlaceLock, PlaceAdd, PlaceRename, PlaceBump

LEMMA PrefixStep ==
  ASSUME TypeOK, LockInv, PlaceInv, PrefixInv, NEW t \in Threads,
         CallInsert(t) \/ CallOther(t) \/ InsertStep(t) \/ OtherStep(t) \/ FailIO(t)
  PROVE  PrefixInv'
<1> USE DEF At, ghosts
<1>1. CASE UNCHANGED <<proc, index, history>>
  BY <1>1 DEF PrefixInv, Prefix, Holds, Snapshot
<1>2. CASE Still(t) \/ LockIndexWrite(t) \/ Bump(t)
  BY <1>1, <1>2 DEF Still, LockIndexWrite, Bump
<1>3. CASE Add(t) /\ ~(index' = index /\ Panic(t))
  <2> DEFINE v == call[t].batch[call[t].added + 1]
  <2>1. CASE v \in Vectors
    <3>1. proc = "up" /\ index' = Append(index, v) /\ Snapshot' = Snapshot
      BY <1>3, <2>1 DEF Add, Snapshot
    <3>2. Prefix(Snapshot, Append(index, v))
      <4>1. index \in Seq(Vectors) /\ Snapshot \in Seq(Vectors) /\ Prefix(Snapshot, index)
        BY <3>1, SnapshotType DEF TypeOK, PrefixInv
      <4>. HIDE DEF v
      <4>. QED
        BY <2>1, <4>1, PrefixAppend
    <3>3. Prefix(Snapshot, Append(index, v)) => Prefix(Snapshot', index')
      BY <3>1
    <3>. QED
      BY <3>2, <3>3 DEF PrefixInv, Prefix, Holds
  <2>2. CASE v \notin Vectors
    BY <1>1, <1>3, <2>2 DEF Add
  <2>. QED
    BY <2>1, <2>2
<1>4. CASE Rename(t)
  <2>1. Snapshot' = index /\ index' = index /\ index \in Seq(Vectors)
    BY <1>4, PlaceRename DEF Rename, TypeOK
  <2>2. Prefix(index, index)
    BY <2>1, PrefixSelf
  <2>. QED
    BY <2>1, <2>2 DEF PrefixInv, Prefix, Holds
<1>. QED
  BY <1>2, <1>3, <1>4, StepKinds

(* An acknowledged insert stays where its caller was told: a rename only   *)
(* commits a longer list, and an answer Ok speaks of the last snapshot.    *)
LEMMA AckedStep ==
  ASSUME TypeOK, LockInv, CallInv, PlaceInv, PrefixInv, AckedDurable, NEW t \in Threads,
         CallInsert(t) \/ CallOther(t) \/ InsertStep(t) \/ OtherStep(t) \/ FailIO(t)
  PROVE  AckedDurable'
<1> USE DEF At, Goto, ghosts
<1>1. \A a \in acked : Holds(Len(a.batch), a.batch, a.first, Snapshot)
  BY AckedHolds
<1>2. CASE UNCHANGED <<history, acked>>
  BY <1>2 DEF AckedDurable, Store!Occupies, Snapshot
<1>3. CASE Still(t) \/ LockIndexWrite(t) \/ Add(t)
  BY <1>2, <1>3 DEF Still, LockIndexWrite, Add
<1>4. CASE Rename(t)
  <2>1. Snapshot' = index /\ acked' = acked /\ Prefix(Snapshot, index)
        /\ index \in Seq(Vectors) /\ Snapshot \in Seq(Vectors)
    BY <1>4, PlaceRename, SnapshotType DEF Rename, RenameTmp, TypeOK, PrefixInv
  <2>2. ASSUME NEW a \in acked PROVE Holds(Len(a.batch), a.batch, a.first, index)
    BY <1>1, <2>1, AckedBelow, HoldsPrefix
  <2>. QED
    BY <2>1, <2>2 DEF AckedDurable, Store!Occupies, Holds
<1>5. CASE Bump(t)
  <2> DEFINE new == [first |-> call[t].first, batch |-> call[t].batch]
  <2>1. pc[t] = "bump" /\ acked' = acked \cup {new} /\ Snapshot' = Snapshot
    BY <1>5 DEF Bump, Snapshot
  <2>2. call[t].added = Len(call[t].batch) /\ Place(t)
    BY <2>1 DEF CallInv, PlaceInv, Saving
  <2>3. Holds(Len(new.batch), new.batch, new.first, Snapshot)
    BY <2>1, <2>2 DEF Place
  <2>4. \A a \in acked' : Holds(Len(a.batch), a.batch, a.first, Snapshot)
    <3>. HIDE DEF new
    <3>. QED
      BY <1>1, <2>1, <2>3
  <2>. QED
    BY <2>1, <2>4 DEF AckedDurable, Store!Occupies, Holds
<1>. QED
  BY <1>3, <1>4, <1>5, StepKinds

(* Steps of the process itself find or leave every thread idle.            *)
LEMMA IdleKeeps ==
  ASSUME AckInv, UNCHANGED acked, Snapshot' = Snapshot, LockPoison', PrefixInv',
         \A u \in Threads : pc'[u] = "idle" /\ call'[u].added = 0
  PROVE  AckInv'
<1>1. CallInv'
  BY DEF CallInv, Saving
<1>2. PlaceInv'
  BY DEF PlaceInv, Saving
<1>3. PoisonInv'
  BY DEF PoisonInv, LockPoison
<1>4. AckedDurable'
  BY DEF AckInv, AckedDurable, Store!Occupies
<1>. QED
  BY <1>1, <1>2, <1>3, <1>4 DEF AckInv

LEMMA AckProcess ==
  ASSUME DiskInv, AckInv, CreateStart \/ CreateStep \/ Open \/ Crash
  PROVE  AckInv'
<1> USE DEF locks, threads, ghosts
<1>1. TypeOK /\ ProcInv /\ Recoverable /\ LockPoison /\ CallInv
  BY PoisonParts DEF DiskInv, AckInv
<1>2. CASE Crash
  <2>1. /\ UNCHANGED <<history, acked>> /\ LockPoison' /\ proc' # "up"
        /\ \A u \in Threads : pc'[u] = "idle" /\ call'[u].added = 0
    BY <1>2 DEF Crash, LockPoison, NoCall
  <2>. QED
    BY <2>1, IdleKeeps DEF Snapshot, PrefixInv
<1>3. CASE CreateStart \/ CreateStep \/ Open
  <2>1. proc # "up" /\ UNCHANGED <<locks, threads, acked>>
    BY <1>3 DEF CreateStart, CreateStep, Open, RenameTmp
  <2>2. \A u \in Threads : pc'[u] = "idle" /\ call'[u].added = 0
    BY <1>1, <2>1 DEF ProcInv, CallInv, Saving
  <2>3. LockPoison'
    BY <1>1, <2>1 DEF LockPoison
  <2>4. Snapshot' = Snapshot /\ PrefixInv'
    <3>1. CASE CreateStart
      BY <3>1 DEF CreateStart, Snapshot, PrefixInv
    <3>2. CASE CreateStep /\ UNCHANGED history
      <4>1. proc' # "up"
        BY <3>2, AppendFacts, <1>1 DEF CreateStep, RenameTmp, ProcInv, CreateLabels, TypeOK
      <4>. QED
        BY <3>2, <4>1 DEF Snapshot, PrefixInv
    <3>3. CASE CreateStep /\ ~UNCHANGED history
      <4>1. /\ proc = "rename" /\ history' = Append(history, index) /\ index' = index
        BY <3>3 DEF CreateStep, RenameTmp
      <4>2. history = <<>> /\ index = <<>>
        BY <1>1, <4>1 DEF ProcInv, CreateLabels
      <4>3. history' = << <<>> >> /\ index' = <<>>
        BY <4>1, <4>2
      <4>4. Snapshot' = <<>> /\ Snapshot = <<>>
        BY <4>2, <4>3 DEF Snapshot
      <4>. QED
        BY <4>3, <4>4 DEF PrefixInv, Prefix, Holds
    <3>4. CASE Open
      <4>1. UNCHANGED history /\ index' = files[manifestFile.version].data
            /\ manifestFile.status = "whole"
        BY <3>4 DEF Open
      <4>2. index' = Snapshot /\ Snapshot' = Snapshot
        BY <1>1, <4>1 DEF Recoverable, NoManifest, Whole, Snapshot
      <4>3. Prefix(Snapshot, Snapshot)
        BY <1>1, SnapshotType, PrefixSelf
      <4>. QED
        BY <4>2, <4>3 DEF PrefixInv, Prefix, Holds
    <3>. QED
      BY <1>3, <3>1, <3>2, <3>3, <3>4
  <2>. QED
    BY <2>1, <2>2, <2>3, <2>4, IdleKeeps
<1>. QED
  BY <1>2, <1>3

LEMMA AckInit == Init => AckInv
  BY DEF Init, AckInv, CallInv, PlaceInv, PrefixInv, PoisonInv, AckedDurable, Saving,
     NoCall

LEMMA AckStep == DiskInv /\ AckInv /\ [Next]_vars => AckInv'
<1> SUFFICES ASSUME DiskInv, AckInv, [Next]_vars PROVE AckInv'
  OBVIOUS
<1>0. TypeOK /\ LockInv /\ CallInv /\ PlaceInv /\ PrefixInv /\ PoisonInv /\ AckedDurable
  BY DEF DiskInv, AckInv
<1>1. ASSUME NEW t \in Threads,
             CallInsert(t) \/ CallOther(t) \/ InsertStep(t) \/ OtherStep(t) \/ FailIO(t)
      PROVE  AckInv'
  <2>1. CallInv'
    BY <1>0, <1>1, CallStep, CallKeeps
  <2>2. PlaceInv' /\ PrefixInv' /\ AckedDurable'
    BY <1>0, <1>1, PlaceStep, PrefixStep, AckedStep
  <2>3. PoisonInv'
    BY <1>0, <1>1, PoisonStep
  <2>. QED
    BY <2>1, <2>2, <2>3 DEF AckInv
<1>2. CASE CreateStart \/ CreateStep \/ Open \/ Crash
  BY <1>2, AckProcess
<1>3. CASE UNCHANGED <<proc, index, history, acked, locks, threads>>
  BY <1>0, <1>3 DEF locks, threads, AckInv, CallInv, PlaceInv, Place, PrefixInv, Prefix,
     PoisonInv, AckedDurable, Store!Occupies, Holds, Snapshot
<1>4. CASE \E r \in Readers : ViewReadManifest(r) \/ ViewOpenFile(r)
  BY <1>3, <1>4 DEF ViewReadManifest, ViewOpenFile, ghosts
<1>5. CASE UNCHANGED vars
  BY <1>3, <1>5 DEF vars, ghosts
<1>. QED
  BY <1>1, <1>2, <1>4, <1>5 DEF Next, Step

(* Labels, batches, index and last snapshot always agree as AckInv says.   *)
THEOREM AckInvHolds == Spec => []AckInv
  BY AckInit, AckStep, InvHolds, PTL DEF Spec

(* An insert that was answered Ok is in the snapshot the disk names, at    *)
(* the ids its caller was given, whatever fails or restarts later.         *)
THEOREM AlwaysDurable == Spec => []AckedDurable
<1>1. AckInv => AckedDurable
  BY DEF AckInv
<1>. QED
  BY <1>1, AckInvHolds, PTL

(* Nobody reads, and no snapshot holds, the head of a batch that is        *)
(* part-way in the index or whose thread panicked there.                   *)
THEOREM BatchesAreWhole == Spec => []PartialBatchHidden
<1>1. DiskInv /\ AckInv => PartialBatchHidden
  <2> SUFFICES ASSUME DiskInv, AckInv, NEW t \in Threads,
                      pc[t] \in {"add", "panicked"},
                      call[t].added \in 1..Len(call[t].batch) - 1
               PROVE  indexReaders = {} /\ Len(Snapshot) <= call[t].first
    BY DEF PartialBatchHidden
  <2>1. TypeOK /\ LockInv /\ PlaceInv /\ PoisonInv
    BY DEF DiskInv, AckInv
  <2>2. CASE pc[t] = "panicked"
    BY <2>1, <2>2 DEF PoisonInv
  <2>3. CASE pc[t] = "add"
    <3>1. indexWriter = t
      BY <2>1, <2>3 DEF LockInv
    <3>2. indexReaders = {}
      BY <2>1, <3>1 DEF PoisonInv
    <3>3. Place(t)
      BY <2>1, <2>3 DEF PlaceInv
    <3>4. call[t].batch # <<>>
      OBVIOUS
    <3>. QED
      BY <2>3, <3>2, <3>3, <3>4 DEF Place
  <2>. QED
    BY <2>2, <2>3
<1>. QED
  BY <1>1, InvHolds, AckInvHolds, PTL

(* Ids are acknowledged in order and none is given out twice.              *)
THEOREM AcksAreOrdered == Spec => AcksInIdOrder
<1> DEFINE Ordered == \A a \in acked' \ acked, b \in acked :
                        a.batch # <<>> => b.first + Len(b.batch) <= a.first
<1>1. DiskInv /\ AckInv /\ [Next]_vars => [Ordered]_acked
  <2> SUFFICES ASSUME DiskInv, AckInv, [Next]_vars, acked' # acked PROVE Ordered
    OBVIOUS
  <2>1. PICK t \in Threads : Bump(t)
    <3>1. ASSUME NEW t \in Threads,
                 CallInsert(t) \/ CallOther(t) \/ InsertStep(t) \/ OtherStep(t) \/ FailIO(t)
          PROVE  Bump(t)
      BY <3>1, StepKinds DEF DiskInv, Still, LockIndexWrite, Add, Rename, RenameTmp, ghosts
    <3>2. CASE CreateStart \/ CreateStep \/ Open \/ Crash
      BY <3>2 DEF CreateStart, CreateStep, Open, Crash, RenameTmp, ghosts
    <3>3. CASE \E r \in Readers : ViewReadManifest(r) \/ ViewOpenFile(r)
      BY <3>3 DEF ViewReadManifest, ViewOpenFile, ghosts
    <3>. QED
      BY <3>1, <3>2, <3>3 DEF Next, Step, vars, ghosts
  <2>2. pc[t] = "bump"
        /\ acked' = acked \cup {[first |-> call[t].first, batch |-> call[t].batch]}
    BY <2>1 DEF Bump, At
  <2>3. Place(t)
    BY <2>2 DEF AckInv, PlaceInv, Saving
  <2>. QED
    BY <2>2, <2>3 DEF Place
<1>. QED
  BY <1>1, InvHolds, AckInvHolds, PTL DEF Spec, AcksInIdOrder

-----------------------------------------------------------------------------
(* Committed files.  No step writes one, and compact removes one only      *)
(* while the manifest names another.                                       *)
Kept(v) ==
  IF v \in DOMAIN files'
  THEN v \in DOMAIN files /\ files'[v] = files[v]
  ELSE v \in DOMAIN files =>
         v # manifestFile.version /\ \E t \in Threads : At(t, "compact_remove")

LEMMA KeptStep ==
  ASSUME DiskInv, [Next]_vars, NEW v \in Nat, v < Len(history) PROVE Kept(v)
<1>0. TypeOK /\ LockInv /\ DirInv
  BY DEF DiskInv, DirInv
<1>1. CASE files' = files
  BY <1>1 DEF Kept
<1>2. ASSUME NEW t \in Threads, InsertStep(t) PROVE Kept(v)
  <2>1. CASE SaveCreate(t) \/ SaveData(t)
    <3>1. /\ proc = "up" /\ pc[t] \in HoldsWrite \ {"bump"}
          /\ \E f : files' = PutFile(manifest + 1, f)
      BY <2>1 DEF SaveCreate, SaveData, TruncateIndex, FillIndex, At, HoldsWrite,
         HoldsManifest
    <3>2. manifest + 1 = Len(history)
      BY <1>0, <3>1, WriterAlone
    <3>3. v # manifest + 1
      BY <3>2
    <3>. QED
      BY <3>1, <3>3 DEF PutFile, Kept
  <2>2. CASE ~(SaveCreate(t) \/ SaveData(t))
    BY <1>1, <1>2, <2>2 DEF InsertStep, LockWrite, LockIndexWrite, Add, AddDone,
       SaveManifest, SaveRead, TmpCreate, TmpData, Rename, Bump, TruncateTmp, FillTmp,
       RenameTmp, dir
  <2>. QED
    BY <2>1, <2>2
<1>3. ASSUME NEW t \in Threads, OtherStep(t) PROVE Kept(v)
  <2>1. CASE CompactRemove(t)
    <3>1. proc = "up" /\ pc[t] = "compact_remove" /\ pc[t] \in HoldsWrite \ {"bump"}
      BY <2>1 DEF CompactRemove, At, HoldsWrite, HoldsManifest
    <3>2. manifestFile.version = manifest
      BY <1>0, <3>1, WriterAlone DEF WholeManifest
    <3>. QED
      BY <2>1, <3>1, <3>2 DEF CompactRemove, At, Kept
  <2>2. CASE ~CompactRemove(t)
    BY <1>1, <1>3, <2>2 DEF OtherStep, CompactLock, CompactManifest, CompactDone,
       SearchRead, SearchScan, StatsRead, StatsManifest, dir
  <2>. QED
    BY <2>1, <2>2
<1>4. CASE CreateStart \/ CreateStep
  <2>1. CASE files' = files
    BY <1>1, <2>1
  <2>2. CASE files' # files
    <3>1. history = <<>>
      BY <1>0, <1>4, <2>2 DEF CreateStart, CreateStep, DirInv, ProcInv, Recoverable,
         CreateLabels, NoManifest, WholeManifest, TruncateTmp, FillTmp, RenameTmp
    <3>. QED
      BY <3>1
  <2>. QED
    BY <2>1, <2>2
<1>5. ASSUME NEW t \in Threads, CallInsert(t) \/ CallOther(t) \/ FailIO(t) PROVE Kept(v)
  BY <1>1, <1>5 DEF CallInsert, CallOther, FailIO, dir
<1>6. CASE Open \/ Crash \/ \E r \in Readers : ViewReadManifest(r) \/ ViewOpenFile(r)
  BY <1>1, <1>6 DEF Open, Crash, ViewReadManifest, ViewOpenFile, dir
<1>7. CASE UNCHANGED vars
  BY <1>1, <1>7 DEF vars, dir
<1>. QED
  BY <1>2, <1>3, <1>4, <1>5, <1>6, <1>7 DEF Next, Step

(* "The old version files are kept": a committed file is never written     *)
(* again, and it goes only by a compact, never the one manifest.json names.*)
THEOREM CommittedFilesStay == Spec => CommittedFilesKept
<1> DEFINE A == \A v \in DOMAIN files : v < Len(history) =>
                  IF v \in DOMAIN files'
                  THEN files'[v] = files[v]
                  ELSE v # manifestFile.version /\ \E t \in Threads : At(t, "compact_remove")
<1>1. DiskInv /\ [Next]_vars => A
  <2>1. DiskInv => DOMAIN files \subseteq Nat
    BY DEF DiskInv, TypeOK
  <2>. QED
    BY <2>1, KeptStep DEF Kept
<1>. QED
  BY <1>1, InvHolds, PTL DEF Spec, CommittedFilesKept

(* A snapshot is committed only by a rename, when the file of the next     *)
(* version holds it.                                                       *)
Commits ==
  /\ history' = Append(history, index) /\ UNCHANGED <<files, view>>
  /\ Len(history) \in DOMAIN files => files[Len(history)] = Whole(index)

LEMMA HistoryStep ==
  ASSUME DiskInv, [Next]_vars PROVE history' = history \/ Commits
<1> USE DEF ghosts
<1>0. TypeOK /\ LockInv /\ DirInv /\ ProcInv /\ CreateInv
  BY DEF DiskInv, DirInv
<1>1. ASSUME NEW t \in Threads,
             CallInsert(t) \/ CallOther(t) \/ InsertStep(t) \/ OtherStep(t) \/ FailIO(t)
      PROVE  history' = history \/ Commits
  <2>1. CASE Rename(t)
    <3>1. /\ proc = "up" /\ pc[t] = "rename" /\ pc[t] \in HoldsWrite \ {"bump"}
          /\ history' = Append(history, index) /\ UNCHANGED <<files, view>>
      BY <2>1 DEF Rename, RenameTmp, At, HoldsWrite, HoldsManifest
    <3>2. manifest + 1 = Len(history) /\ files[manifest + 1] = Whole(index)
      BY <1>0, <3>1, WriterAlone DEF DirInv, SaveInv
    <3>. QED
      BY <3>1, <3>2 DEF Commits
  <2>2. CASE ~Rename(t)
    BY <1>0, <1>1, <2>2, StepKinds DEF Still, LockIndexWrite, Add, Bump
  <2>. QED
    BY <2>1, <2>2
<1>2. CASE CreateStep
  <2>1. CASE proc = "rename"
    <3>1. history' = Append(history, index) /\ UNCHANGED <<files, view>>
      BY <1>2, <2>1 DEF CreateStep, RenameTmp
    <3>2. Len(history) = 0 /\ files[0] = Whole(index)
      BY <1>0, <2>1 DEF ProcInv, CreateInv, CreateLabels
    <3>. QED
      BY <3>1, <3>2 DEF Commits
  <2>2. CASE proc # "rename"
    BY <1>2, <2>2 DEF CreateStep
  <2>. QED
    BY <2>1, <2>2
<1>3. CASE CreateStart \/ Open \/ Crash
  BY <1>3 DEF CreateStart, Open, Crash
<1>4. CASE \E r \in Readers : ViewReadManifest(r) \/ ViewOpenFile(r)
  BY <1>4 DEF ViewReadManifest, ViewOpenFile
<1>5. CASE UNCHANGED vars
  BY <1>5 DEF vars
<1>. QED
  BY <1>1, <1>2, <1>3, <1>4, <1>5 DEF Next, Step

LEMMA ViewInit == Init => ViewInv
  BY DEF Init, ViewInv, ClosedView

LEMMA ViewStep == DiskInv /\ ViewInv /\ [Next]_vars => ViewInv'
<1> SUFFICES ASSUME DiskInv, ViewInv, [Next]_vars PROVE ViewInv'
  OBVIOUS
<1>0. /\ DOMAIN files \subseteq Nat /\ history \in Seq(Seq(Vectors))
      /\ index \in Seq(Vectors) /\ view \in [Readers -> ViewType] /\ Recoverable
      /\ DOMAIN files' \subseteq Nat
  BY InvStep DEF DiskInv, TypeOK
<1>1. CASE Commits
  <2>1. /\ Len(history') = Len(history) + 1
        /\ \A i \in 1..Len(history) : history'[i] = history[i]
        /\ history'[Len(history) + 1] = index
    BY <1>0, <1>1, AppendFacts DEF Commits
  <2>2. ASSUME NEW v \in DOMAIN files', v < Len(history')
        PROVE  files'[v] = Whole(history'[v + 1])
    <3>1. CASE v = Len(history)
      BY <1>1, <2>1, <3>1 DEF Commits
    <3>2. CASE v # Len(history)
      BY <1>0, <1>1, <2>1, <2>2, <3>2 DEF Commits, ViewInv
    <3>. QED
      BY <3>1, <3>2
  <2>3. ASSUME NEW r \in Readers
        PROVE  /\ view'[r].status # "corrupt"
               /\ view'[r].status # "closed" => view'[r].version < Len(history')
               /\ view'[r].status = "open" => view'[r].data = history'[view'[r].version + 1]
    <3>1. view'[r] = view[r] /\ view[r].version \in Nat
      BY <1>0, <1>1 DEF Commits, ViewType
    <3>2. view[r].status # "corrupt"
      BY DEF ViewInv
    <3>3. ASSUME view[r].status # "closed"
          PROVE  /\ view[r].version < Len(history')
                 /\ history'[view[r].version + 1] = history[view[r].version + 1]
      <4>1. view[r].version < Len(history) /\ Len(history) \in Nat
        BY <1>0, <3>3 DEF ViewInv
      <4>2. view[r].version + 1 \in 1..Len(history)
        BY <3>1, <4>1
      <4>. QED
        BY <2>1, <3>1, <4>1, <4>2
    <3>4. view[r].status = "open" => view[r].data = history[view[r].version + 1]
      BY DEF ViewInv
    <3>. QED
      BY <3>1, <3>2, <3>3, <3>4
  <2>. QED
    BY <2>2, <2>3 DEF ViewInv
<1>2. CASE history' = history
  <2>1. ASSUME NEW v \in DOMAIN files', v < Len(history')
        PROVE  files'[v] = Whole(history'[v + 1])
    BY <1>0, <1>2, <2>1, KeptStep DEF Kept, ViewInv
  <2>2. ASSUME NEW r \in Readers, ViewReadManifest(r) PROVE ViewInv'
    <3>1. /\ manifestFile.status = "whole"
          /\ view' = [view EXCEPT ![r].status = "opening", ![r].version = manifestFile.version]
      BY <2>2 DEF ViewReadManifest
    <3>2. manifestFile.version < Len(history)
      BY <1>0, <3>1 DEF Recoverable, NoManifest, WholeManifest
    <3>3. /\ view'[r].status = "opening" /\ view'[r].version = manifestFile.version
          /\ \A q \in Readers : q # r => view'[q] = view[q]
      BY <1>0, <3>1 DEF ViewType
    <3>. QED
      BY <1>2, <2>1, <3>2, <3>3 DEF ViewInv
  <2>3. ASSUME NEW r \in Readers, ViewOpenFile(r) PROVE ViewInv'
    <3> DEFINE v == view[r].version
               found == v \in DOMAIN files /\ files[v].status = "whole"
    <3>1. v < Len(history) /\ (v \in DOMAIN files => files[v] = Whole(history[v + 1]))
      BY <2>3 DEF ViewOpenFile, ViewInv
    <3>2. CASE found
      <4>1. view' = [view EXCEPT ![r].status = "open", ![r].data = history[v + 1]]
        BY <2>3, <3>1, <3>2 DEF ViewOpenFile, Whole
      <4>2. /\ view'[r].status = "open" /\ view'[r].version = v
            /\ view'[r].data = history[v + 1]
            /\ \A q \in Readers : q # r => view'[q] = view[q]
        BY <1>0, <4>1 DEF ViewType
      <4>. QED
        BY <1>2, <2>1, <3>1, <4>2 DEF ViewInv
    <3>3. CASE ~found
      <4>1. v \notin DOMAIN files
        BY <3>1, <3>3 DEF Whole
      <4>2. view' = [view EXCEPT ![r].status = "not_found"]
        BY <2>3, <4>1 DEF ViewOpenFile
      <4>3. /\ view'[r].status = "not_found" /\ view'[r].version = v
            /\ \A q \in Readers : q # r => view'[q] = view[q]
        BY <1>0, <4>2 DEF ViewType
      <4>. QED
        BY <1>2, <2>1, <3>1, <4>3 DEF ViewInv
    <3>. QED
      BY <3>2, <3>3
  <2>4. CASE view' = view
    BY <1>2, <2>1, <2>4 DEF ViewInv
  <2>5. ASSUME NEW t \in Threads,
               CallInsert(t) \/ CallOther(t) \/ InsertStep(t) \/ OtherStep(t) \/ FailIO(t)
        PROVE  view' = view
    <3>1. CASE CallInsert(t) \/ CallOther(t) \/ FailIO(t)
      BY <3>1 DEF CallInsert, CallOther, FailIO
    <3>2. CASE InsertStep(t)
      BY <3>2 DEF InsertStep, LockWrite, LockIndexWrite, Add, AddDone, SaveManifest,
         SaveRead, SaveCreate, SaveData, TmpCreate, TmpData, Rename, Bump
    <3>3. CASE OtherStep(t)
      BY <3>3 DEF OtherStep, CompactLock, CompactManifest, CompactRemove, CompactDone,
         SearchRead, SearchScan, StatsRead, StatsManifest
    <3>. QED
      BY <2>5, <3>1, <3>2, <3>3
  <2>6. CASE CreateStart \/ CreateStep \/ Open \/ Crash
    BY <2>4, <2>6 DEF CreateStart, CreateStep, Open, Crash
  <2>7. CASE UNCHANGED vars
    BY <2>4, <2>7 DEF vars
  <2>. QED
    BY <2>2, <2>3, <2>4, <2>5, <2>6, <2>7 DEF Next, Step
<1>. QED
  BY <1>1, <1>2, HistoryStep

(* A view that opened holds one committed snapshot, it never finds a torn  *)
(* file, and nothing rewrites the file under it.                           *)
THEOREM ViewsNeverChange == Spec => []ViewsStable
<1>1. Spec => []ViewInv
  BY ViewInit, ViewStep, InvHolds, PTL DEF Spec
<1>2. ViewInv => ViewsStable
  BY DEF ViewInv, ViewsStable
<1>. QED
  BY <1>1, <1>2, PTL

-----------------------------------------------------------------------------
(* Database implements VersionedStore.                                     *)
Live == IF proc = "up" THEN index ELSE Snapshot

(* A batch that occupies its place in a list is a slice of it. *)
LEMMA HoldsSlice ==
  ASSUME NEW S, NEW s \in Seq(S), NEW T, NEW b \in Seq(T), NEW id \in Nat,
         Holds(Len(b), b, id, s)
  PROVE  SubSeq(s, id + 1, id + Len(b)) = b
<1> DEFINE n == Len(b)
           u == SubSeq(s, id + 1, id + n)
<1>1. n \in Nat /\ id + n <= Len(s) /\ \A i \in 1..n : s[id + i] = b[i]
  BY DEF Holds
<1>2. \A i \in (id + 1)..(id + n) : s[i] \in S
  BY <1>1
<1>3. /\ u \in Seq(S) /\ Len(u) = n
      /\ \A i \in 1..n : u[i] = s[id + i]
  <2>1. /\ u \in Seq(S)
        /\ Len(u) = IF id + 1 <= id + n THEN (id + n) - (id + 1) + 1 ELSE 0
        /\ \A i \in 1..((id + n) - (id + 1) + 1) : u[i] = s[(id + 1) + i - 1]
    <3>. id + 1 \in Int /\ id + n \in Int
      BY <1>1
    <3>. HIDE DEF n
    <3>. QED
      BY <1>2, SubSeqProperties
  <2>. HIDE DEF n, u
  <2>. QED
    BY <1>1, <2>1
<1>4. \A i \in 1..n : u[i] = b[i]
  <2>. HIDE DEF u
  <2>. QED
    BY <1>1, <1>3
<1>5. u \in Seq(S \cup T) /\ b \in Seq(S \cup T)
  <2>. HIDE DEF u
  <2>. QED
    BY <1>3
<1>. HIDE DEF u
<1>. QED
  BY <1>3, <1>4, <1>5, SeqEqual DEF u

LEMMA StoreInit == Init => Store!Init
  BY DEF Init, Store!Init, Snapshot

LEMMA StoreStutter ==
  ASSUME UNCHANGED <<history, acked>>, UNCHANGED Live PROVE UNCHANGED Store!storeVars
  BY DEF Store!storeVars, Live

(* A rename commits, an answer Ok acknowledges, and searches see each      *)
(* vector as it is added; the other steps of a thread do not show.         *)
LEMMA StoreThreadStep ==
  ASSUME DiskInv, AckInv, NEW t \in Threads,
         CallInsert(t) \/ CallOther(t) \/ InsertStep(t) \/ OtherStep(t) \/ FailIO(t)
  PROVE  Store!StoreNext \/ UNCHANGED Store!storeVars
<1> USE DEF At, Goto, ghosts
<1>0. TypeOK /\ LockInv /\ ProcInv /\ CallInv /\ PlaceInv
  BY DEF DiskInv, AckInv
<1>1. CASE Still(t) \/ LockIndexWrite(t)
  BY <1>1, StoreStutter DEF Still, LockIndexWrite, Live, Snapshot
<1>2. CASE Add(t) /\ ~(index' = index /\ Panic(t))
  <2> DEFINE v == call[t].batch[call[t].added + 1]
  <2>1. CASE v \in Vectors
    <3>1. proc = "up" /\ proc' = "up" /\ history # <<>>
          /\ index' = Append(index, v) /\ UNCHANGED <<history, acked>>
      BY <1>0, <1>2, <2>1 DEF Add, ProcInv
    <3>2. Store!Add
      <4>. HIDE DEF v
      <4>. QED
        BY <2>1, <3>1 DEF Store!Add
    <3>. QED
      BY <3>2 DEF Store!StoreNext
  <2>2. CASE v \notin Vectors
    BY <1>2, <2>2, StoreStutter DEF Add, Live, Snapshot
  <2>. QED
    BY <2>1, <2>2
<1>3. CASE Rename(t)
  <2>1. proc = "up" /\ proc' = "up" /\ history # <<>>
        /\ history' = Append(history, index) /\ UNCHANGED <<index, acked>>
    BY <1>0, <1>3 DEF Rename, RenameTmp, ProcInv
  <2>2. Store!Commit
    BY <2>1 DEF Store!Commit
  <2>. QED
    BY <2>2 DEF Store!StoreNext
<1>4. CASE Bump(t)
  <2> DEFINE b == call[t].batch
             first == call[t].first
  <2>1. /\ pc[t] = "bump" /\ UNCHANGED <<proc, index, history>>
        /\ acked' = acked \cup {[first |-> first, batch |-> b]}
    BY <1>4 DEF Bump
  <2>2. Holds(Len(b), b, first, Snapshot)
    BY <1>0, <2>1 DEF CallInv, PlaceInv, Place, Saving
  <2>3. /\ b \in Seq(Vectors \cup {Malformed}) /\ first \in Nat
        /\ Snapshot \in Seq(Vectors)
    BY <1>0, SnapshotType DEF TypeOK, CallType
  <2>4. SubSeq(Snapshot, first + 1, first + Len(b)) = b
    <3>. HIDE DEF b, first
    <3>. QED
      BY <2>2, <2>3, HoldsSlice
  <2>5. /\ Len(b) \in 0..Len(Snapshot) /\ first \in 0..Len(Snapshot)
        /\ first + Len(b) <= Len(Snapshot)
    <3>. HIDE DEF b, first
    <3>. QED
      BY <2>2, <2>3 DEF Holds
  <2>6. Store!Current = Snapshot
    BY DEF Store!Current, Snapshot
  <2>7. Snapshot' = Snapshot
    BY <2>1 DEF Snapshot
  <2>8. UNCHANGED <<history, Live>>
    BY <2>1, <2>7 DEF Live
  <2>9. Store!Acknowledge
    <3>1. \E f \in 0..Len(Snapshot), n \in 0..Len(Snapshot) :
            /\ f + n <= Len(Snapshot)
            /\ acked' = acked \cup {[first |-> f, batch |-> SubSeq(Snapshot, f + 1, f + n)]}
      <4>. HIDE DEF b, first
      <4>. QED
        BY <2>1, <2>4, <2>5
    <3>. QED
      BY <2>6, <2>8, <3>1 DEF Store!Acknowledge, Live
  <2>. QED
    BY <2>9 DEF Store!StoreNext
<1>. QED
  BY <1>0, <1>1, <1>2, <1>3, <1>4, StepKinds

(* The last step of create makes the store, a death of the process is its  *)
(* Restart, and open shows what was there.                                 *)
LEMMA StoreProcessStep ==
  ASSUME DiskInv, CreateStart \/ CreateStep \/ Open \/ Crash
  PROVE  Store!StoreNext \/ UNCHANGED Store!storeVars
<1> USE DEF ghosts
<1>0. TypeOK /\ ProcInv /\ Recoverable
  BY DEF DiskInv
<1>1. CASE CreateStart
  BY <1>1, StoreStutter DEF CreateStart, Live, Snapshot
<1>2. CASE CreateStep
  <2>1. CASE proc = "rename"
    <3>1. /\ proc' = "up" /\ history' = Append(history, index)
          /\ UNCHANGED <<index, acked>>
      BY <1>2, <2>1 DEF CreateStep, RenameTmp
    <3>2. history = <<>> /\ index = <<>>
      BY <1>0, <2>1 DEF ProcInv, CreateLabels
    <3>3. history' = << <<>> >> /\ Live = <<>> /\ Live' = <<>>
      BY <2>1, <3>1, <3>2 DEF Live, Snapshot
    <3>4. Store!Create
      BY <3>1, <3>2, <3>3 DEF Store!Create, Live
    <3>. QED
      BY <3>4 DEF Store!StoreNext
  <2>2. CASE proc # "rename"
    <3>1. proc # "up" /\ proc' # "up" /\ UNCHANGED <<history, acked>>
      BY <1>2, <2>2 DEF CreateStep
    <3>. QED
      BY <3>1, StoreStutter DEF Live, Snapshot
  <2>. QED
    BY <2>1, <2>2
<1>3. CASE Open
  <2>1. /\ proc # "up" /\ proc' = "up" /\ UNCHANGED <<history, acked>>
        /\ index' = files[manifestFile.version].data /\ manifestFile.status = "whole"
    BY <1>3 DEF Open
  <2>2. index' = Snapshot
    BY <1>0, <2>1 DEF Recoverable, NoManifest, Whole, Snapshot
  <2>. QED
    BY <2>1, <2>2, StoreStutter DEF Live
<1>4. CASE Crash
  <2>1. proc' # "up" /\ UNCHANGED <<history, acked>>
    BY <1>4 DEF Crash
  <2>2. Snapshot' = Store!Current /\ Live' = Snapshot'
    BY <2>1 DEF Live, Snapshot, Store!Current
  <2>3. Store!Restart
    BY <2>1, <2>2 DEF Store!Restart, Live
  <2>. QED
    BY <2>3 DEF Store!StoreNext
<1>. QED
  BY <1>1, <1>2, <1>3, <1>4

(* Whatever threads, locks, files and deaths do, callers see a store of    *)
(* committed snapshots with a list in memory that runs ahead of the last.  *)
THEOREM ImplementsStore == Spec => StoreSpec
<1>1. DiskInv /\ AckInv /\ [Next]_vars => [Store!StoreNext]_(Store!storeVars)
  <2> SUFFICES ASSUME DiskInv, AckInv, [Next]_vars
               PROVE  Store!StoreNext \/ UNCHANGED Store!storeVars
    OBVIOUS
  <2>1. CASE UNCHANGED <<proc, index, history, acked>>
    BY <2>1, StoreStutter DEF Live, Snapshot
  <2>2. CASE \E r \in Readers : ViewReadManifest(r) \/ ViewOpenFile(r)
    BY <2>1, <2>2 DEF ViewReadManifest, ViewOpenFile, ghosts
  <2>3. CASE UNCHANGED vars
    BY <2>1, <2>3 DEF vars, ghosts
  <2>. QED
    BY <2>2, <2>3, StoreThreadStep, StoreProcessStep DEF Next, Step
<1>. QED
  BY <1>1, StoreInit, InvHolds, AckInvHolds, PTL DEF Spec, StoreSpec, Store!StoreSpec
=============================================================================
